------------------------- MODULE PortForwardWindow -------------------------
(***************************************************************************)
(* The window arithmetic that both ends of a port-forward channel share:   *)
(* what a frame costs (charge), what the receiver still allows             *)
(* (RecvWindow) and what the sender may still send (SendCredit).  Pure     *)
(* operators; CreditFlow and PortForwardChannel give them their state.     *)
(*                                                                         *)
(* The code's u32 values never leave 0 .. 2 * CHANNEL_WINDOW here (that is *)
(* what CreditFlowProofs shows), so its saturating additions are plain     *)
(* additions; checked_sub and the cap at MAX_SEND_CREDIT are kept.         *)
(***************************************************************************)
EXTENDS Integers

CONSTANTS
    INITIAL_WINDOW,     \* what may be in flight before `opened`
    MIN_FRAME_CHARGE,   \* the least a data frame costs
    CHANNEL_WINDOW,     \* the window a receiver advertises
    MAX_FRAME           \* the most one read of a local socket returns

ASSUME WindowAssumption ==
    /\ INITIAL_WINDOW \in Nat /\ MIN_FRAME_CHARGE \in Nat
    /\ CHANNEL_WINDOW \in Nat /\ MAX_FRAME \in Nat
    /\ 1 <= MIN_FRAME_CHARGE
    /\ MIN_FRAME_CHARGE <= MAX_FRAME
    /\ MIN_FRAME_CHARGE <= INITIAL_WINDOW
    /\ INITIAL_WINDOW <= CHANNEL_WINDOW
    \* a receiver may sit on half a window: the other half must pay for a frame
    /\ 2 * MIN_FRAME_CHARGE <= CHANNEL_WINDOW

UPDATE_THRESHOLD == CHANNEL_WINDOW \div 2

MAX_SEND_CREDIT == CHANNEL_WINDOW

AtLeast(a, b) == IF a >= b THEN a ELSE b
AtMost(a, b) == IF a <= b THEN a ELSE b

effective_window(advertised) == AtLeast(advertised, INITIAL_WINDOW)

charge(len) == AtLeast(len, MIN_FRAME_CHARGE)

----------------------------------------------------------------------------
(* RecvWindow *)

\* RecvWindow::accept: FALSE is the peer overrunning its window.
accept(remaining, cost) == cost <= remaining

\* RecvWindow::drained: what has been drained once this chunk is written, and
\* whether that is enough to advertise (and so to credit back).
DrainedSince(drained, cost) == drained + cost
AdvertisesWhenFull(drained, cost) == DrainedSince(drained, cost) >= CHANNEL_WINDOW
Advertises(drained, cost) == DrainedSince(drained, cost) >= UPDATE_THRESHOLD

----------------------------------------------------------------------------
(* SendCredit *)

CanTake(credit) == credit >= MIN_FRAME_CHARGE
take(credit) == AtMost(credit, MAX_FRAME)
add(credit, n) == AtMost(credit + n, MAX_SEND_CREDIT)

\* What raise_initial adds when `opened` advertises the window `total`.
raise_initial(total) == effective_window(total) - INITIAL_WINDOW
=============================================================================
