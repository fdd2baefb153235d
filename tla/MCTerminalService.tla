------------------------- MODULE MCTerminalService -------------------------
(* A client that connects twice.  It behaves, with two shells or with more   *)
(* output than a channel or a replay holds, or one thing is out of order.    *)
EXTENDS TerminalService

Behaved(p, shells, output) ==
    [persistent |-> p, overlap |-> FALSE, remap |-> FALSE, idle |-> FALSE, toggle |-> FALSE,
     fails |-> FALSE, late |-> FALSE, ids |-> 2, shells |-> shells, output |-> output]

Failing == [Behaved(TRUE, 2, 0) EXCEPT !.fails = TRUE]
Remapping == [Behaved(TRUE, 1, 2) EXCEPT !.remap = TRUE]
Toggling == [Behaved(TRUE, 1, 1) EXCEPT !.toggle = TRUE]
Idling == [Behaved(FALSE, 1, 1) EXCEPT !.idle = TRUE]

\* With one id, so that a second shell takes the id of the first.
Overlapping(p, shells, output) ==
    [Behaved(p, shells, output) EXCEPT !.overlap = TRUE, !.ids = 1]
Late == [Overlapping(FALSE, 1, 0) EXCEPT !.late = TRUE]

OneThingWrong ==
    {Behaved(FALSE, 2, 0)} \cup {Behaved(p, 1, 3) : p \in BOOLEAN}
    \cup {Failing, Remapping, Toggling, Idling}
    \cup {Overlapping(TRUE, 2, 0), Overlapping(TRUE, 1, 1), Late}
============================================================================
