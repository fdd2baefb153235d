----------------------- MODULE MCPortForwardChannel -----------------------
(* PortForwardChannel for TLC: a window of a few frames, one direction of  *)
(* data at a time where every length of frame is tried.                    *)
EXTENDS PortForwardCredit

OneDirection == {[ctl |-> 5, srv |-> 0, ends |-> FALSE], [ctl |-> 0, srv |-> 6, ends |-> FALSE]}
BothOrEnding == {[ctl |-> 1, srv |-> 1, ends |-> FALSE], [ctl |-> 0, srv |-> 2, ends |-> FALSE],
                 [ctl |-> 0, srv |-> 1, ends |-> TRUE]}
=============================================================================
