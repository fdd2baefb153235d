------------------------- MODULE CreditFlowProofs -------------------------
(***************************************************************************)
(* CreditFlow is safe and does not stall for every size of the windows.    *)
(*                                                                         *)
(* NoOverrun is not inductive: that accept succeeds needs the sender's     *)
(* claims to be covered (ClaimsCovered), that a raise or a window_update   *)
(* is not capped away needs the window to be conserved (WindowConserved),  *)
(* and both need drained to stay below UPDATE_THRESHOLD between two        *)
(* advertisements.  IInv is their conjunction.                             *)
(***************************************************************************)
EXTENDS CreditFlow, TLAPS

\* relay_tunnel_to_socket advertises as soon as UPDATE_THRESHOLD is reached.
DrainedBelow == drained = 0 \/ drained < UPDATE_THRESHOLD

IInv == TypeOK /\ ClaimsCovered /\ WindowConserved /\ DrainedBelow /\ NoOverrun

\* Every allowance `take` hands out covers a whole minimum charge, so the
\* refund `allow - spent` in relay_socket_to_tunnel cannot underflow.
HeldCovers == held = 0 \/ held >= MIN_FRAME_CHARGE

\* UPDATE_THRESHOLD is half of the window, rounded down.
LEMMA WindowFacts ==
    /\ UPDATE_THRESHOLD \in Nat
    /\ 2 * UPDATE_THRESHOLD <= CHANNEL_WINDOW
    /\ CHANNEL_WINDOW <= 2 * UPDATE_THRESHOLD + 1
  BY WindowAssumption DEF UPDATE_THRESHOLD

\* Claims that shrink stay covered.
LEMMA Shrinks ==
    ASSUME NEW c \in Nat, NEW h \in Nat, NEW i \in Nat, NEW u \in Nat, NEW w \in Nat,
           NEW r \in Nat, NEW i2 \in Nat, NEW u2 \in Nat,
           i2 <= i, u2 <= u, c + h + i + u + w <= r
    PROVE  c + h + i2 + u2 + w <= r
  OBVIOUS

\* A queue that shrinks keeps what is owed within the window.
LEMMA ShrinksOwed ==
    ASSUME NEW r \in Nat, NEW q \in Nat, NEW d \in Nat, NEW w \in Nat, NEW q2 \in Nat,
           q2 <= q, r + q + d <= w
    PROVE  r + q2 + d <= w
  OBVIOUS

\* The start of a channel, in either direction, satisfies the invariant.
LEMMA InitIInv == Init => IInv /\ HeldCovers
<1> SUFFICES ASSUME Init PROVE IInv /\ HeldCovers
  OBVIOUS
<1> USE WindowAssumption DEF Init
<1>1. TypeOK
  <2>1. credit \in 0 .. MAX_SEND_CREDIT
    BY DEF MAX_SEND_CREDIT
  <2>2. overrun \in BOOLEAN /\ over \in BOOLEAN
    BY Zenon
  <2> QED BY <2>1, <2>2 DEF TypeOK
<1>2. ClaimsCovered /\ WindowConserved
  BY DEF ClaimsCovered, WindowConserved, Claimed, Owed, Window, OnItsWay
<1>3. DrainedBelow /\ NoOverrun /\ HeldCovers
  BY SMTT(60) DEF DrainedBelow, NoOverrun, HeldCovers
<1> QED BY <1>1, <1>2, <1>3 DEF IInv

\* Every step of either end, and every loss, preserves the invariant.
LEMMA NextIInv == IInv /\ HeldCovers /\ [Next]_vars => (IInv /\ HeldCovers)'
<1> SUFFICES ASSUME IInv, HeldCovers, [Next]_vars
             PROVE  (IInv /\ HeldCovers)'
  OBVIOUS
<1>0. over' \in BOOLEAN /\ (~over' => ~over)
  BY Zenon DEF Next, vars, IInv, TypeOK
<1> USE WindowAssumption
    DEF IInv, TypeOK, ClaimsCovered, WindowConserved, NoOverrun, DrainedBelow, HeldCovers,
        Claimed, Owed, Window, OnItsWay, MAX_SEND_CREDIT
<1>1. CASE Take
  BY <1>0, <1>1 DEF Take, CanTake, take, AtMost
<1>2. CASE Return
  BY <1>0, <1>2 DEF Return, add, AtMost
<1>3. CASE Raise
  BY <1>0, <1>3 DEF Raise, add, AtMost, raise_initial, effective_window, AtLeast
<1>4. CASE Grant
  BY <1>0, <1>4 DEF Grant
<1>5. CASE LetGo
  <2>1. /\ inflight' \in Nat /\ inflight' <= inflight
        /\ updates' \in Nat /\ updates' <= updates
        /\ queued' \in Nat /\ queued' <= queued
    BY <1>5 DEF LetGo
  <2>2. TypeOK' /\ DrainedBelow' /\ HeldCovers'
    BY <1>0, <1>5, <2>1 DEF LetGo
  <2>5. NoOverrun'
    BY <1>5 DEF LetGo
  <2>3. Claimed' <= remaining' /\ Owed' <= Window'
    <3>1. /\ credit' = credit /\ held' = held /\ remaining' = remaining
          /\ drained' = drained /\ width' = width
      BY <1>5 DEF LetGo
    <3>2. OnItsWay' = OnItsWay /\ OnItsWay \in Nat /\ Window' = Window /\ Window \in Nat
      BY <3>1
    <3>3. credit + held + inflight + updates + OnItsWay <= remaining
      BY DEF ClaimsCovered, Claimed
    <3>4. remaining + queued + drained <= Window
      BY DEF WindowConserved, Owed
    <3>5. credit \in Nat /\ held \in Nat
      OBVIOUS
    <3>6. /\ Claimed' = credit + held + inflight' + updates' + OnItsWay
          /\ Owed' = remaining + queued' + drained
      BY <3>1, <3>2
    <3> HIDE DEF OnItsWay, Window, Claimed, Owed, ClaimsCovered, WindowConserved
    <3>7. credit + held + inflight' + updates' + OnItsWay <= remaining
      BY ZenonT(60), <2>1, <3>2, <3>3, <3>5, Shrinks
    <3>8. remaining + queued' + drained <= Window
      BY ZenonT(60), <2>1, <3>2, <3>4, ShrinksOwed
    <3> QED BY <3>1, <3>2, <3>6, <3>7, <3>8
  <2>4. ClaimsCovered' /\ WindowConserved'
    BY <1>5, <2>3, Zenon DEF LetGo, ClaimsCovered, WindowConserved
  <2> QED BY ZenonT(60), <2>2, <2>4, <2>5
<1>6. CASE \E len \in 1 .. MAX_FRAME : Send(len)
  <2>1. PICK len \in 1 .. MAX_FRAME : Send(len)
    BY <1>6
  <2>2. charge(len) \in Nat /\ charge(len) <= held
    BY <2>1 DEF Send, charge, AtLeast
  <2>3. credit' = credit + (held - charge(len))
    BY <2>1, <2>2 DEF Send, add, AtMost
  <2> QED BY <1>0, <2>1, <2>2, <2>3 DEF Send
<1>7. ASSUME NEW n \in 1 .. 2 * CHANNEL_WINDOW,
             Apply(n) \/ Accept(n) \/ Drain(n) \/ AcceptLost(n)
      PROVE  (IInv /\ HeldCovers)'
  <2>1. CASE Apply(n)
    BY <1>0, <2>1 DEF Apply, add, AtMost
  <2>2. CASE Accept(n)
    BY <1>0, <2>2 DEF Accept, accept
  <2>3. CASE Drain(n)
    BY <1>0, <2>3, WindowFacts DEF Drain, Advertises, DrainedSince
  <2>4. CASE AcceptLost(n)
    BY <1>0, <2>4 DEF AcceptLost, accept
  <2> QED BY <1>7, <2>1, <2>2, <2>3, <2>4
<1>8. CASE UNCHANGED vars
  BY <1>8 DEF vars
<1> QED BY ZenonT(60), <1>1, <1>2, <1>3, <1>4, <1>5, <1>6, <1>7, <1>8 DEF Next

\* The invariant holds throughout every behaviour of a direction.
THEOREM Invariance == Spec => [](IInv /\ HeldCovers)
  BY InitIInv, NextIInv, PTL DEF Spec

\* Two ends that follow SendCredit and RecvWindow never trip the overrun arm,
\* whatever the windows and however `opened`, window_update and data cross.
THEOREM NeverOverrun == Spec => []NoOverrun
<1>1. IInv => NoOverrun
  BY DEF IInv
<1> QED BY <1>1, Invariance, PTL

\* The accounting of both ends agrees in every state.
THEOREM Conservation == Spec => [](ClaimsCovered /\ WindowConserved)
<1>1. IInv => ClaimsCovered /\ WindowConserved
  BY DEF IInv
<1> QED BY <1>1, Invariance, PTL

\* What a receiver can be made to hold is bounded by CHANNEL_WINDOW.
THEOREM Bounded == Spec => []BufferBounded
<1>1. IInv => BufferBounded
  BY WindowAssumption
  DEF IInv, TypeOK, ClaimsCovered, WindowConserved, BufferBounded, Claimed, Owed,
      Window, OnItsWay, MAX_SEND_CREDIT
<1> QED BY <1>1, Invariance, PTL

\* The credit always comes back: the half window a receiver may keep to
\* itself is not what the sender needs for one more frame.
THEOREM StallFree == Spec => []NoStall
<1>1. IInv => NoStall
  BY WindowAssumption, WindowFacts
  DEF IInv, TypeOK, ClaimsCovered, WindowConserved, DrainedBelow, NoStall, Claimed, Owed,
      Window, OnItsWay, CanTake
<1> QED BY <1>1, Invariance, PTL

\* SendCredit::add's cap is there for a peer that offers more than we would;
\* against our own window it changes nothing.
THEOREM CapHarmless == Spec => CapNeverBites
<1>1. IInv /\ HeldCovers /\ [Next]_vars => [CreditsInFull]_vars
  <2> SUFFICES ASSUME IInv, HeldCovers, Next
               PROVE  CreditsInFull
    BY DEF CreditsInFull, vars
  <2> USE WindowAssumption
      DEF IInv, TypeOK, ClaimsCovered, WindowConserved, HeldCovers, CreditsInFull,
          Claimed, Owed, Window, OnItsWay, MAX_SEND_CREDIT
  <2>1. CASE Take
    BY <2>1 DEF Take, CanTake, take, AtMost
  <2>2. CASE Return
    BY <2>2 DEF Return, add, AtMost
  <2>3. CASE Raise
    BY <2>3 DEF Raise, add, AtMost, raise_initial, effective_window, AtLeast
  <2>4. CASE Grant \/ LetGo
    BY <2>4 DEF Grant, LetGo
  <2>5. CASE \E len \in 1 .. MAX_FRAME : Send(len)
    <3>1. PICK len \in 1 .. MAX_FRAME : Send(len)
      BY <2>5
    <3>2. charge(len) \in Nat /\ charge(len) <= held
      BY <3>1 DEF Send, charge, AtLeast
    <3> QED BY <3>1, <3>2 DEF Send, add, AtMost
  <2>6. ASSUME NEW n \in 1 .. 2 * CHANNEL_WINDOW,
               Apply(n) \/ Accept(n) \/ Drain(n) \/ AcceptLost(n)
        PROVE  CreditsInFull
    <3>1. CASE Apply(n)
      BY <3>1 DEF Apply, add, AtMost
    <3>2. CASE Accept(n)
      BY <3>2 DEF Accept
    <3>3. CASE Drain(n)
      BY <3>3, WindowFacts DEF Drain, DrainedSince
    <3>4. CASE AcceptLost(n)
      BY <3>4 DEF AcceptLost
    <3> QED BY <2>6, <3>1, <3>2, <3>3, <3>4
  <2> QED BY <2>1, <2>2, <2>3, <2>4, <2>5, <2>6 DEF Next
<1> QED BY <1>1, Invariance, PTL DEF Spec, CapNeverBites
=============================================================================
