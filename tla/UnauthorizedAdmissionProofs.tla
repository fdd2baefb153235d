-------------------- MODULE UnauthorizedAdmissionProofs --------------------
(***************************************************************************)
(* For any set of connections and addresses and any limits: the bounds of  *)
(* the registry and the single eviction hold.  The bounds speak of the     *)
(* tasks (Live) and the code counts entries (conns), so the invariant says *)
(* the two are the same set; and an entry told to go is still the oldest,  *)
(* which is why the next refused arrival tells the same one.               *)
(***************************************************************************)
EXTENDS UnauthorizedAdmission, FiniteSetTheorems, TLAPS

Bounded ==
    /\ IsFiniteSet(conns) /\ Cardinality(conns) <= MAX_UNAUTHORIZED_CONNS
    /\ \A a \in Addrs : Cardinality(HeldBy(a)) <= MAX_UNAUTHORIZED_CONNS_PER_ADDR

Ordered ==
    /\ \A c \in conns : evicted[c] => IsOldest(c)
    /\ \A c \in Conns : stage[c] = "new" => ~evicted[c]

PlaceWhileLive == conns = Live

IInv == TypeOK /\ PlaceWhileLive /\ Bounded /\ Ordered

\* Initially nobody holds a place.
LEMMA AdmissionInit == Init => IInv
<1> SUFFICES ASSUME Init PROVE IInv
  OBVIOUS
<1>1. TypeOK
  BY AdmissionAssumption DEF Init, TypeOK, Stages, Watches
<1>2. PlaceWhileLive
  BY DEF Init, PlaceWhileLive, Live
<1>3. Bounded
  <2>1. \A a \in Addrs : HeldBy(a) = {}
    BY DEF Init, HeldBy
  <2>2. conns = {}
    BY DEF Init
  <2> QED
    BY <2>1, <2>2, FS_EmptySet, AdmissionAssumption DEF Bounded
<1>4. Ordered
  BY DEF Init, Ordered
<1> QED
  BY <1>1, <1>2, <1>3, <1>4 DEF IInv

\* Places only given up keep every bound.
LEMMA FewerPlaces ==
    ASSUME Bounded, conns' \subseteq conns, ip' = ip
    PROVE  Bounded'
<1>1. IsFiniteSet(conns') /\ Cardinality(conns') <= Cardinality(conns)
  BY FS_Subset DEF Bounded
<1>2. Cardinality(conns) \in Nat /\ Cardinality(conns') \in Nat
  BY <1>1, FS_CardinalityType DEF Bounded
<1>3. ASSUME NEW a \in Addrs
      PROVE  Cardinality(HeldBy(a)') <= MAX_UNAUTHORIZED_CONNS_PER_ADDR
  <2>1. HeldBy(a)' \subseteq HeldBy(a) /\ HeldBy(a) \subseteq conns
    BY DEF HeldBy
  <2>2. IsFiniteSet(HeldBy(a))
    BY <2>1, FS_Subset DEF Bounded
  <2>3. IsFiniteSet(HeldBy(a)') /\ Cardinality(HeldBy(a)') <= Cardinality(HeldBy(a))
    BY <2>1, <2>2, FS_Subset
  <2>4. Cardinality(HeldBy(a)) \in Nat /\ Cardinality(HeldBy(a)') \in Nat
    BY <2>2, <2>3, FS_CardinalityType
  <2>5. Cardinality(HeldBy(a)) <= MAX_UNAUTHORIZED_CONNS_PER_ADDR
    BY DEF Bounded
  <2> QED
    BY <2>3, <2>4, <2>5, AdmissionAssumption
<1> QED
  BY <1>1, <1>2, <1>3, AdmissionAssumption DEF Bounded

\* One more place, below both limits, keeps every bound.
LEMMA OneMorePlace ==
    ASSUME TypeOK, Bounded, NEW c \in Conns, NEW a \in Addrs, c \notin conns,
           Cardinality(conns) < MAX_UNAUTHORIZED_CONNS,
           Cardinality(HeldBy(a)) < MAX_UNAUTHORIZED_CONNS_PER_ADDR,
           conns' = conns \cup {c}, ip' = [ip EXCEPT ![c] = a]
    PROVE  Bounded'
<1>1. IsFiniteSet(conns') /\ Cardinality(conns') = Cardinality(conns) + 1
  BY FS_AddElement DEF Bounded
<1>2. Cardinality(conns) \in Nat
  BY FS_CardinalityType DEF Bounded
<1>3. ASSUME NEW b \in Addrs
      PROVE  Cardinality(HeldBy(b)') <= MAX_UNAUTHORIZED_CONNS_PER_ADDR
  <2>1. HeldBy(b) \subseteq conns /\ c \notin HeldBy(b)
    BY DEF HeldBy
  <2>2. IsFiniteSet(HeldBy(b))
    BY <2>1, FS_Subset DEF Bounded
  <2>3. Cardinality(HeldBy(b)) \in Nat
    BY <2>2, FS_CardinalityType
  <2>4. CASE b = a
    <3>1. HeldBy(b)' = HeldBy(b) \cup {c}
      BY <2>4 DEF HeldBy, TypeOK
    <3>2. Cardinality(HeldBy(b)') = Cardinality(HeldBy(b)) + 1
      BY ZenonT(60), <3>1, <2>1, <2>2, FS_AddElement
    <3> QED
      BY <3>2, <2>3, <2>4, AdmissionAssumption
  <2>5. CASE b # a
    <3>1. HeldBy(b)' = HeldBy(b)
      BY <2>5 DEF HeldBy, TypeOK
    <3> QED
      BY <3>1 DEF Bounded
  <2> QED
    BY <2>4, <2>5
<1> QED
  BY <1>1, <1>2, <1>3, AdmissionAssumption DEF Bounded

\* Places only given up, and nobody told to go, keep the order.
LEMMA SameOrder ==
    ASSUME Ordered, conns' \subseteq conns, place' = place, evicted' = evicted,
           \A c \in Conns : stage'[c] = "new" => stage[c] = "new"
    PROVE  Ordered'
BY DEF Ordered, IsOldest

\* An arrival keeps the invariant: refused over its share, refused at the limit
\* with the oldest told to go, or given the youngest place.
LEMMA AdmitStep ==
    ASSUME IInv, NEW c \in Conns, NEW a \in Addrs, Admit(c, a)
    PROVE  IInv'
<1> USE DEF IInv
<1>1. c \notin conns /\ stage[c] = "new"
  BY DEF Admit, PlaceWhileLive, Live
<1>2. ip' = [ip EXCEPT ![c] = a] /\ watch' = watch
  BY DEF Admit
<1>3. \A d \in conns : ip'[d] = ip[d]
  BY <1>1, <1>2 DEF TypeOK
<1>4. CASE Refuse(c)
  <2>1. conns' = conns /\ place' = place /\ next' = next
        /\ stage' = [stage EXCEPT ![c] = "closed"]
    BY <1>4 DEF Refuse
  <2>2. PlaceWhileLive'
    BY <1>1, <2>1 DEF PlaceWhileLive, Live, TypeOK
  <2>3. \A b \in Addrs : HeldBy(b)' = HeldBy(b)
    BY <1>3, <2>1 DEF HeldBy
  <2>4. Bounded'
    BY <2>1, <2>3 DEF Bounded
  <2>5. CASE UNCHANGED <<evicted, notified>>
    <3>1. TypeOK'
      BY <1>1, <1>2, <1>3, <2>1, <2>5 DEF TypeOK, Stages, Watches
    <3>2. Ordered'
      BY <1>1, <2>1, <2>5, SameOrder DEF Ordered, TypeOK
    <3> QED
      BY <3>1, <3>2, <2>2, <2>4
  <2>6. CASE TellOldest
    <3>1. PICK o \in conns :
            /\ IsOldest(o) /\ evicted' = [evicted EXCEPT ![o] = TRUE]
            /\ notified' = [notified EXCEPT ![o] = @ \/ ~evicted[o]]
      BY ZenonT(60), <2>6 DEF TellOldest
    <3>2. evicted' \in [Conns -> BOOLEAN] /\ notified' \in [Conns -> BOOLEAN]
      BY <3>1 DEF TypeOK
    <3>3. TypeOK'
      BY ZenonT(60), <1>1, <1>2, <1>3, <2>1, <3>2 DEF TypeOK, Stages, Watches
    <3>4. \A d \in conns : evicted'[d] => IsOldest(d)
      BY <3>1 DEF Ordered, TypeOK
    <3>5. \A d \in conns' : evicted'[d] => IsOldest(d)'
      BY <2>1, <3>4 DEF IsOldest
    <3>6. stage[o] # "new"
      BY <3>1 DEF PlaceWhileLive, Live
    <3>7. \A d \in Conns : stage'[d] = "new" => ~evicted'[d]
      BY <2>1, <3>1, <3>6 DEF Ordered, TypeOK
    <3> QED
      BY <3>3, <3>5, <3>7, <2>2, <2>4 DEF Ordered
  <2> QED
    BY <1>1, <1>4, <2>5, <2>6 DEF Admit, Enter, Refuse, TypeOK
<1>5. CASE Enter(c)
  <2>1. /\ conns' = conns \cup {c} /\ place' = [place EXCEPT ![c] = next]
        /\ next' = next + 1 /\ stage' = [stage EXCEPT ![c] = "handshake"]
    BY <1>5 DEF Enter
  <2>2. /\ UNCHANGED <<evicted, notified>>
        /\ Cardinality(HeldBy(a)) < MAX_UNAUTHORIZED_CONNS_PER_ADDR
        /\ Cardinality(conns) < MAX_UNAUTHORIZED_CONNS
    <3>1. stage'[c] = "handshake"
      BY <2>1 DEF TypeOK
    <3>2. ~ Refuse(c)
      BY <3>1 DEF Refuse, TypeOK
    <3>3. IsFiniteSet(HeldBy(a))
      BY FS_Subset DEF Bounded, HeldBy
    <3>4. Cardinality(HeldBy(a)) \in Nat /\ Cardinality(conns) \in Nat
      BY <3>3, FS_CardinalityType DEF Bounded
    <3> QED
      BY <3>2, <3>4, AdmissionAssumption DEF Admit
  <2>3. Bounded'
    BY ZenonT(60), <1>1, <1>2, <2>1, <2>2, OneMorePlace
  <2>4. PlaceWhileLive'
    BY <2>1 DEF PlaceWhileLive, Live, TypeOK
  <2>5. \A d \in conns : place'[d] = place[d] /\ place'[d] < place'[c]
    BY <1>1, <2>1 DEF TypeOK
  <2>6. TypeOK'
    <3>1. \A d \in conns' : ip'[d] # None /\ place'[d] < next'
      BY <1>1, <1>2, <2>1, <2>5, AdmissionAssumption DEF TypeOK
    <3>2. \A d, e \in conns' : place'[d] = place'[e] => d = e
      BY <1>1, <2>1, <2>5 DEF TypeOK
    <3>3. \A d \in Conns : watch'[d] # "none" => stage'[d] \in {"handshake", "loop"}
      BY <1>2, <2>1 DEF TypeOK
    <3>4. stage' \in [Conns -> Stages] /\ place' \in [Conns -> Nat] /\ next' \in Nat
      BY <2>1 DEF TypeOK, Stages
    <3>5. ip' \in [Conns -> Addrs \cup {None}]
      BY <1>2 DEF TypeOK
    <3> QED
      BY <1>2, <2>1, <2>2, <3>1, <3>2, <3>3, <3>4, <3>5 DEF TypeOK
  <2>7. Ordered'
    <3>1. ~evicted[c]
      BY <1>1 DEF Ordered
    <3>2. \A d \in conns' : evicted'[d] => IsOldest(d)'
      BY <2>1, <2>2, <2>5, <3>1 DEF Ordered, IsOldest, TypeOK
    <3>3. \A d \in Conns : stage'[d] = "new" => ~evicted'[d]
      BY <2>1, <2>2 DEF Ordered, TypeOK
    <3> QED
      BY <3>2, <3>3 DEF Ordered
  <2> QED
    BY <2>3, <2>4, <2>6, <2>7
<1> QED
  BY <1>4, <1>5 DEF Admit

\* A step of a task moves only its own stage and wait, and gives up its place
\* exactly when it stops being live.
LEMMA TaskStep ==
    ASSUME IInv, NEW c \in Conns, Task(c)
    PROVE  IInv'
<1> USE DEF IInv
<1> DEFINE Holding == {"handshake", "loop", "busy", "closing"}
<1>1. /\ UNCHANGED <<place, next, evicted, ip>>
      /\ stage[c] \in Holding
    <2>1. CASE LookEvicted(c)
      BY <2>1 DEF LookEvicted
    <2>2. CASE Park(c) \/ Woken(c)
      BY <2>2 DEF Park, Woken, TypeOK
    <2>3. CASE HandshakeEnds(c) \/ HandlerStarts(c) \/ HandlerEnds(c) \/ Deadline(c) \/ Closed(c)
      BY <2>3 DEF HandshakeEnds, HandlerStarts, HandlerEnds, Deadline, Closed
    <2> QED
      BY <2>1, <2>2, <2>3 DEF Task
<1>2. notified' \in [Conns -> BOOLEAN]
  BY ZenonT(60)
     DEF Task, TypeOK, LookEvicted, Park, Woken, HandshakeEnds, HandlerStarts, HandlerEnds,
     Deadline, Closed
<1> DEFINE MovesTo(w, s) ==
        /\ watch' = [watch EXCEPT ![c] = w] /\ stage' = [stage EXCEPT ![c] = s]
        /\ w # "none" => s \in {"handshake", "loop"}
        /\ conns' = IF s \in Holding THEN conns ELSE conns \ {c}
      Moves == \E w \in Watches, s \in Stages \ {"new"} : MovesTo(w, s)
<1>3. Moves
    <2> USE DEF Watches, Stages
    <2>1. ASSUME EvictionArm(c), stage[c] \in {"handshake", "loop"} PROVE Moves
      BY <2>1 DEF EvictionArm, GiveUpPlace
    <2>2. CASE LookEvicted(c)
      <3>1. CASE evicted[c]
        BY <2>1, <2>2, <3>1 DEF LookEvicted
      <3>2. CASE ~evicted[c]
        <4>1. watch' = [watch EXCEPT ![c] = "looked"] /\ stage' = [stage EXCEPT ![c] = stage[c]]
              /\ conns' = conns /\ stage[c] \in {"handshake", "loop"}
          BY <2>2, <3>2 DEF LookEvicted, TypeOK
        <4> QED
          BY ZenonT(60), <4>1
      <3> QED
        BY <3>1, <3>2
    <2>3. CASE Park(c)
      <3>1. stage[c] \in {"handshake", "loop"}
        BY <2>3 DEF Park, TypeOK
      <3>2. CASE notified[c]
        BY <2>1, <2>3, <3>1, <3>2 DEF Park
      <3>3. CASE ~notified[c]
        <4>1. watch' = [watch EXCEPT ![c] = "parked"] /\ stage' = [stage EXCEPT ![c] = stage[c]]
              /\ conns' = conns
          BY <2>3, <3>3 DEF Park, TypeOK
        <4> QED
          BY ZenonT(60), <3>1, <4>1
      <3> QED
        BY <3>2, <3>3
    <2>4. CASE Woken(c)
      <3>1. stage[c] \in {"handshake", "loop"} /\ EvictionArm(c)
        BY <2>4 DEF Woken, TypeOK
      <3> QED
        BY <2>1, <3>1
    <2>5. CASE HandshakeEnds(c)
      BY <2>5 DEF HandshakeEnds, GiveUpPlace
    <2>6. CASE HandlerStarts(c) \/ Deadline(c)
      BY <2>6 DEF HandlerStarts, Deadline
    <2>7. CASE HandlerEnds(c) \/ Closed(c)
      <3>1. watch' = [watch EXCEPT ![c] = "none"]
        BY <2>7 DEF HandlerEnds, Closed, TypeOK
      <3> QED
        BY <2>7, <3>1 DEF HandlerEnds, Closed, GiveUpPlace
    <2> QED
      BY <2>2, <2>3, <2>4, <2>5, <2>6, <2>7 DEF Task
<1>4. PICK w \in Watches, s \in Stages \ {"new"} : MovesTo(w, s)
  BY ZenonT(60), <1>3
<1>5. conns' \subseteq conns
  BY <1>4
<1>6. TypeOK'
  BY <1>1, <1>2, <1>4, <1>5 DEF TypeOK
<1>7. PlaceWhileLive'
  BY <1>1, <1>4 DEF PlaceWhileLive, Live, TypeOK
<1>8. Bounded'
  BY SMTT(60), <1>1, <1>5, FewerPlaces
<1>9. Ordered'
  <2>1. \A d \in Conns : stage'[d] = "new" => stage[d] = "new"
    BY <1>4 DEF TypeOK
  <2> QED
    BY <1>1, <1>5, <2>1, SameOrder
<1> QED
  BY <1>6, <1>7, <1>8, <1>9

\* The invariant holds throughout.
THEOREM AdmissionInvariant == Spec => []IInv
<1>1. IInv /\ [Next]_vars => IInv'
  <2> SUFFICES ASSUME IInv, [Next]_vars PROVE IInv'
    OBVIOUS
  <2>1. CASE UNCHANGED vars
    BY <2>1 DEF vars, IInv, TypeOK, PlaceWhileLive, Live, Bounded, HeldBy, Ordered, IsOldest
  <2>2. CASE Next
    BY <2>2, AdmitStep, TaskStep DEF Next
  <2> QED
    BY <2>1, <2>2
<1> QED
  BY <1>1, AdmissionInit, PTL DEF Spec

\* Never more connections between accept and authorization than the limit,
\* counting the tasks themselves and those on their way out (LiveBound).
THEOREM AdmissionIsBounded == Spec => []LiveBound
<1>1. IInv => LiveBound
  BY DEF IInv, Bounded, PlaceWhileLive, LiveBound
<1> QED
  BY <1>1, AdmissionInvariant, PTL

\* No address ever holds more than its share of them (ShareBound).
THEOREM ShareIsBounded == Spec => []ShareBound
<1>1. IInv => ShareBound
  BY DEF IInv, Bounded, PlaceWhileLive, ShareBound, HeldBy
<1> QED
  BY <1>1, AdmissionInvariant, PTL

\* However many arrivals are refused, one connection at most is on its way out.
THEOREM EvictsOneAtATime == Spec => []OneOnItsWay
<1>1. IInv => OneOnItsWay
  <2> SUFFICES ASSUME IInv, NEW c \in conns, NEW d \in conns, evicted[c], evicted[d]
               PROVE  c = d
    BY DEF OneOnItsWay
  <2>1. place[c] <= place[d] /\ place[d] <= place[c]
    BY DEF IInv, Ordered, IsOldest
  <2>2. place[c] \in Nat /\ place[d] \in Nat
    BY DEF IInv, TypeOK
  <2> QED
    BY <2>1, <2>2 DEF IInv, TypeOK
<1> QED
  BY <1>1, AdmissionInvariant, PTL

\* An arrival over its address's share evicts nobody, even when the registry is
\* full as well: the share is looked at before the limit, and the steps of the
\* tasks tell nobody to go (ShareRefusalEvictsNobody).
THEOREM ShareRefusalSpares == Spec => ShareRefusalEvictsNobody
<1> DEFINE Spares ==
      \A c \in Conns :
          (/\ stage[c] = "new" /\ stage'[c] # "new"
           /\ Cardinality(HeldBy(ip'[c])) >= MAX_UNAUTHORIZED_CONNS_PER_ADDR)
          => evicted' = evicted
<1>1. IInv /\ [Next]_vars => [Spares]_vars
  <2> SUFFICES ASSUME IInv, Next, NEW c \in Conns, stage[c] = "new", stage'[c] # "new",
                      Cardinality(HeldBy(ip'[c])) >= MAX_UNAUTHORIZED_CONNS_PER_ADDR
               PROVE  evicted' = evicted
    BY SMTT(60) DEF vars
  <2>1. ASSUME NEW d \in Conns, Task(d) PROVE evicted' = evicted
    BY <2>1 DEF Task, LookEvicted, Park, Woken, HandshakeEnds, HandlerStarts, HandlerEnds,
                Deadline, Closed
  <2>2. ASSUME NEW d \in Conns, NEW a \in Addrs, Admit(d, a) PROVE evicted' = evicted
    <3>1. stage' \in {[stage EXCEPT ![d] = "closed"], [stage EXCEPT ![d] = "handshake"]}
      BY <2>2 DEF Admit, Refuse, Enter
    <3>2. d = c
      BY <3>1 DEF IInv, TypeOK
    <3>3. ip'[c] = a
      BY <2>2, <3>2 DEF Admit, IInv, TypeOK
    <3> QED
      BY <2>2, <3>3 DEF Admit
  <2> QED
    BY <2>1, <2>2 DEF Next
<1> QED
  BY <1>1, AdmissionInvariant, PTL DEF Spec, ShareRefusalEvictsNobody
============================================================================
