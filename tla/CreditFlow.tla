---------------------------- MODULE CreditFlow ----------------------------
(***************************************************************************)
(* What the two ends of a port-forward channel promise each other about    *)
(* ONE direction of flow, with frames reduced to what they cost:           *)
(*                                                                         *)
(*   sender    credit (SendCredit) -> held (taken, not yet read into)      *)
(*   wire      inflight (cost of frames sent, not yet accepted)            *)
(*             updates  (sum of window_updates sent, not yet applied)      *)
(*   receiver  remaining (RecvWindow), queued (accepted, not yet written   *)
(*             to the socket), drained (RecvWindow.drained_since_update)   *)
(*                                                                         *)
(* A direction whose receiver is the controller is wide from the start.    *)
(* One whose receiver is the controlled side starts at INITIAL_WINDOW and  *)
(* is widened once: the receiver grants, `opened` travels, the sender      *)
(* raises (width "narrow" -> "granted" -> "wide").                         *)
(*                                                                         *)
(* Either end may let the channel go at any time (over).  What is then on  *)
(* the wire or queued may vanish, and the accounting is one-sided.         *)
(***************************************************************************)
EXTENDS PortForwardWindow

VARIABLES credit, held, inflight, updates, remaining, queued, drained, width,
          overrun, over

vars == <<credit, held, inflight, updates, remaining, queued, drained, width,
          overrun, over>>

Init ==
    /\ \/ width = "narrow" /\ credit = INITIAL_WINDOW /\ remaining = INITIAL_WINDOW
       \/ width = "wide" /\ credit = CHANNEL_WINDOW /\ remaining = CHANNEL_WINDOW
    /\ held = 0 /\ inflight = 0 /\ updates = 0
    /\ queued = 0 /\ drained = 0
    /\ overrun = FALSE /\ over = FALSE

----------------------------------------------------------------------------
(* The sender: relay_socket_to_tunnel. *)

Take ==
    /\ held = 0
    /\ CanTake(credit)
    /\ held' = take(credit)
    /\ credit' = credit - take(credit)
    /\ UNCHANGED <<inflight, updates, remaining, queued, drained, width, overrun>>

\* A read of len bytes: the frame's charge is spent, the rest refunded.
SendRefundingLength(len) ==
    /\ held > 0
    /\ len \in 1 .. held
    /\ inflight' = inflight + charge(len)
    /\ credit' = IF len < held THEN add(credit, held - len) ELSE credit
    /\ held' = 0
    /\ UNCHANGED <<updates, remaining, queued, drained, width, overrun>>

Send(len) ==
    /\ held > 0
    /\ len \in 1 .. held
    /\ inflight' = inflight + charge(len)
    /\ credit' = IF charge(len) < held THEN add(credit, held - charge(len)) ELSE credit
    /\ held' = 0
    /\ UNCHANGED <<updates, remaining, queued, drained, width, overrun>>

\* End of file or cancellation while reading: all of it is refunded.
Return ==
    /\ held > 0
    /\ credit' = add(credit, held)
    /\ held' = 0
    /\ UNCHANGED <<inflight, updates, remaining, queued, drained, width, overrun>>

\* A window_update of n arrives.
Apply(n) ==
    /\ n \in 1 .. updates
    /\ updates' = updates - n
    /\ credit' = add(credit, n)
    /\ UNCHANGED <<held, inflight, remaining, queued, drained, width, overrun>>

\* `opened` arrives.
RaiseUngranted ==
    /\ width # "wide"
    /\ width' = "wide"
    /\ credit' = add(credit, raise_initial(CHANNEL_WINDOW))
    /\ UNCHANGED <<held, inflight, updates, remaining, queued, drained, overrun>>

Raise ==
    /\ width = "granted"
    /\ width' = "wide"
    /\ credit' = add(credit, raise_initial(CHANNEL_WINDOW))
    /\ UNCHANGED <<held, inflight, updates, remaining, queued, drained, overrun>>

----------------------------------------------------------------------------
(* The receiver: the demultiplexer's `data` arm and relay_tunnel_to_socket. *)

\* A frame costing n arrives: delivered, or refused for overrunning.
Accept(n) ==
    /\ n \in MIN_FRAME_CHARGE .. inflight
    /\ inflight' = inflight - n
    /\ IF accept(remaining, n)
         THEN /\ remaining' = remaining - n
              /\ queued' = queued + n
              /\ UNCHANGED overrun
         ELSE /\ overrun' = TRUE
              /\ UNCHANGED <<remaining, queued>>
    /\ UNCHANGED <<credit, held, updates, drained, width>>

\* A chunk costing n has been written to the socket.
Drain(n) ==
    /\ n \in 1 .. queued
    /\ queued' = queued - n
    /\ IF Advertises(drained, n)
         THEN /\ drained' = 0
              /\ remaining' = remaining + DrainedSince(drained, n)
              /\ updates' = updates + DrainedSince(drained, n)
         ELSE /\ drained' = DrainedSince(drained, n)
              /\ UNCHANGED <<remaining, updates>>
    /\ UNCHANGED <<credit, held, inflight, width, overrun>>

GrantWhole ==
    /\ width = "narrow"
    /\ width' = "granted"
    /\ remaining' = remaining + CHANNEL_WINDOW
    /\ UNCHANGED <<credit, held, inflight, updates, queued, drained, overrun>>

Grant ==
    /\ width = "narrow"
    /\ width' = "granted"
    /\ remaining' = remaining + (CHANNEL_WINDOW - INITIAL_WINDOW)
    /\ UNCHANGED <<credit, held, inflight, updates, queued, drained, overrun>>

----------------------------------------------------------------------------
(* An end lets the channel go. *)

LetGo ==
    /\ over' = TRUE
    /\ inflight' \in 0 .. inflight /\ updates' \in 0 .. updates /\ queued' \in 0 .. queued
    /\ UNCHANGED <<credit, held, remaining, drained, width, overrun>>

\* A frame is charged but its queue is gone.
AcceptLost(n) ==
    /\ over' = TRUE
    /\ n \in MIN_FRAME_CHARGE .. inflight
    /\ accept(remaining, n)
    /\ inflight' = inflight - n
    /\ remaining' = remaining - n
    /\ UNCHANGED <<credit, held, updates, queued, drained, width, overrun>>

Next ==
    /\ over' \in {over, TRUE}
    /\ \/ Take \/ Return \/ Raise \/ Grant \/ LetGo
       \/ \E len \in 1 .. MAX_FRAME : Send(len)
       \/ \E n \in 1 .. 2 * CHANNEL_WINDOW :
             Apply(n) \/ Accept(n) \/ Drain(n) \/ AcceptLost(n)

Spec == Init /\ [][Next]_vars

----------------------------------------------------------------------------
(* Properties *)

\* The u32 counters of SendCredit and RecvWindow stay in their ranges.
TypeOK ==
    /\ credit \in 0 .. MAX_SEND_CREDIT
    /\ held \in 0 .. MAX_FRAME
    /\ inflight \in Nat /\ updates \in Nat
    /\ remaining \in Nat /\ queued \in Nat
    /\ drained \in Nat
    /\ width \in {"narrow", "granted", "wide"}
    /\ overrun \in BOOLEAN /\ over \in BOOLEAN

Window == IF width = "narrow" THEN INITIAL_WINDOW ELSE CHANNEL_WINDOW
OnItsWay == IF width = "granted" THEN CHANNEL_WINDOW - INITIAL_WINDOW ELSE 0

Claimed == credit + held + inflight + updates + OnItsWay
Owed == remaining + queued + drained

\* The sender's claims on the window, wherever they are (credit, an allowance
\* being read into, frames and window_updates on the wire, a grant travelling
\* in `opened`), never exceed what RecvWindow still has remaining, and are
\* exactly that as long as neither end has let the channel go.
ClaimsCovered ==
    /\ Claimed <= remaining
    /\ ~over => Claimed = remaining

\* What RecvWindow has remaining, what the receiver holds for its socket and
\* what it has drained without advertising add up to the window it granted:
\* nothing is credited back twice and nothing is forgotten.
WindowConserved ==
    /\ Owed <= Window
    /\ ~over => Owed = Window

\* RecvWindow::accept never refuses a frame of a sender that follows
\* SendCredit: the violation arm is not reached between two of our own ends,
\* in particular not by a sender that has seen `opened`.
NoOverrun == ~overrun

\* The cost of what a receiver holds, or has on the wire towards it, never
\* exceeds CHANNEL_WINDOW ("credit is the only bound on how much target data
\* it buffers").
BufferBounded == inflight + queued <= CHANNEL_WINDOW

\* `take` does not park for ever: with nothing left on the wire or in the
\* receiver's queue the sender has a whole MIN_FRAME_CHARGE again, although
\* the receiver still sits on what it drained below UPDATE_THRESHOLD.
NoStall ==
    (/\ ~over /\ width = "wide" /\ held = 0
     /\ inflight = 0 /\ queued = 0 /\ updates = 0) => CanTake(credit)

\* A refund, a window_update and `opened` raise the credit by all they carry.
CreditsInFull ==
    /\ held > 0 /\ held' = 0 => credit' - credit = held - (inflight' - inflight)
    /\ updates' < updates /\ ~over' => credit' - credit = updates - updates'
    /\ width = "granted" /\ width' = "wide" /\ ~over'
          => credit' - credit = CHANNEL_WINDOW - INITIAL_WINDOW

\* Capping the credit at MAX_SEND_CREDIT in SendCredit::add never throws away
\* credit that the receiver counts on.
CapNeverBites == [][CreditsInFull]_vars
=============================================================================
