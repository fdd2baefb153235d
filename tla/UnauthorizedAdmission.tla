----------------------- MODULE UnauthorizedAdmission -----------------------
(***************************************************************************)
(* The places of connections between accept and authorization: the        *)
(* process-wide registry UNAUTHORIZED_CONNS and the tasks that hold an     *)
(* UnauthorizedID.  A task takes its place before the identity handshake   *)
(* and gives it back at authorization or when it ends; at the limit an     *)
(* arrival is refused and the oldest holder is told to go.                 *)
(*                                                                         *)
(* The registry's Vec is the set conns and the order of admission, place.  *)
(* evicted() is two steps, the look at the flag and the wait, because an   *)
(* arrival on another thread may come between them.  A handler of the      *)
(* select loop ("busy") drops the wait and starts a new one when it ends.  *)
(***************************************************************************)
EXTENDS Naturals, FiniteSets

CONSTANTS
    Conns,  \* connection ids, get_new_id gives each out once
    Addrs,
    MAX_UNAUTHORIZED_CONNS,
    MAX_UNAUTHORIZED_CONNS_PER_ADDR,
    None

ASSUME AdmissionAssumption ==
    /\ MAX_UNAUTHORIZED_CONNS \in Nat /\ MAX_UNAUTHORIZED_CONNS_PER_ADDR \in Nat
    /\ None \notin Addrs

VARIABLES
    conns,    \* UNAUTHORIZED_CONNS: the ids in it
    place,    \* per id: its position in the order of admission
    next,     \* the next position
    evicted,  \* per id: UnauthorizedShared::evicted
    notified, \* per id: a notify_one not yet consumed
    ip,       \* per id: the peer's address, None before it arrives
    stage,    \* per id: where its task is
    watch     \* per id: how far its evicted() future is

vars == <<conns, place, next, evicted, notified, ip, stage, watch>>

Stages == {"new", "handshake", "loop", "busy", "closing", "authorized", "closed"}
Watches == {"none", "looked", "parked"}

Init ==
    /\ conns = {} /\ place = [c \in Conns |-> 0] /\ next = 1
    /\ evicted = [c \in Conns |-> FALSE] /\ notified = [c \in Conns |-> FALSE]
    /\ ip = [c \in Conns |-> None]
    /\ stage = [c \in Conns |-> "new"] /\ watch = [c \in Conns |-> "none"]

----------------------------------------------------------------------------
(* Admission. *)

HeldBy(a) == {d \in conns : ip[d] = a}
IsOldest(c) == c \in conns /\ \A d \in conns : place[c] <= place[d]

\* The first entry is told to go, unless it was already.
TellOldest ==
    \E o \in conns :
        /\ IsOldest(o)
        /\ evicted' = [evicted EXCEPT ![o] = TRUE]
        /\ notified' = [notified EXCEPT ![o] = @ \/ ~evicted[o]]

Enter(c) ==
    /\ conns' = conns \cup {c}
    /\ place' = [place EXCEPT ![c] = next] /\ next' = next + 1
    /\ stage' = [stage EXCEPT ![c] = "handshake"]

Refuse(c) ==
    /\ stage' = [stage EXCEPT ![c] = "closed"]
    /\ UNCHANGED <<conns, place, next>>

\* Mutation: the newcomer takes the place of the one it evicts.
AdmitOnOccupiedPlace(c, a) ==
    /\ stage[c] = "new"
    /\ ip' = [ip EXCEPT ![c] = a]
    /\ IF Cardinality(HeldBy(a)) >= MAX_UNAUTHORIZED_CONNS_PER_ADDR
         THEN Refuse(c) /\ UNCHANGED <<evicted, notified>>
       ELSE IF Cardinality(conns) >= MAX_UNAUTHORIZED_CONNS
         THEN TellOldest /\ Enter(c)
       ELSE Enter(c) /\ UNCHANGED <<evicted, notified>>
    /\ UNCHANGED watch

\* Mutation: an address may hold one more than its share.
AdmitShareInclusive(c, a) ==
    /\ stage[c] = "new"
    /\ ip' = [ip EXCEPT ![c] = a]
    /\ IF Cardinality(HeldBy(a)) > MAX_UNAUTHORIZED_CONNS_PER_ADDR
         THEN Refuse(c) /\ UNCHANGED <<evicted, notified>>
       ELSE IF Cardinality(conns) >= MAX_UNAUTHORIZED_CONNS
         THEN Refuse(c) /\ TellOldest
       ELSE Enter(c) /\ UNCHANGED <<evicted, notified>>
    /\ UNCHANGED watch

\* Mutation: a refused arrival tells every holder to go.
AdmitEvictsAll(c, a) ==
    /\ stage[c] = "new"
    /\ ip' = [ip EXCEPT ![c] = a]
    /\ IF Cardinality(HeldBy(a)) >= MAX_UNAUTHORIZED_CONNS_PER_ADDR
         THEN Refuse(c) /\ UNCHANGED <<evicted, notified>>
       ELSE IF Cardinality(conns) >= MAX_UNAUTHORIZED_CONNS
         THEN /\ Refuse(c)
              /\ evicted' = [d \in Conns |-> evicted[d] \/ d \in conns]
              /\ notified' = [d \in Conns |-> notified[d] \/ (d \in conns /\ ~evicted[d])]
       ELSE Enter(c) /\ UNCHANGED <<evicted, notified>>
    /\ UNCHANGED watch

\* Mutation: notify_waiters, which reaches only a wait that has begun.
AdmitNotifyWaiters(c, a) ==
    /\ stage[c] = "new"
    /\ ip' = [ip EXCEPT ![c] = a]
    /\ IF Cardinality(HeldBy(a)) >= MAX_UNAUTHORIZED_CONNS_PER_ADDR
         THEN Refuse(c) /\ UNCHANGED <<evicted, notified>>
       ELSE IF Cardinality(conns) >= MAX_UNAUTHORIZED_CONNS
         THEN /\ Refuse(c)
              /\ \E o \in conns :
                    /\ IsOldest(o)
                    /\ evicted' = [evicted EXCEPT ![o] = TRUE]
                    /\ notified' = [notified EXCEPT ![o] =
                                        @ \/ (~evicted[o] /\ watch[o] = "parked")]
       ELSE Enter(c) /\ UNCHANGED <<evicted, notified>>
    /\ UNCHANGED watch

\* create_tcp_connection up to the handshake: admit_unauthorized.
Admit(c, a) ==
    /\ stage[c] = "new"
    /\ ip' = [ip EXCEPT ![c] = a]
    /\ IF Cardinality(HeldBy(a)) >= MAX_UNAUTHORIZED_CONNS_PER_ADDR
         THEN Refuse(c) /\ UNCHANGED <<evicted, notified>>
       ELSE IF Cardinality(conns) >= MAX_UNAUTHORIZED_CONNS
         THEN Refuse(c) /\ TellOldest
       ELSE Enter(c) /\ UNCHANGED <<evicted, notified>>
    /\ UNCHANGED watch

----------------------------------------------------------------------------
(* The task that holds a place. *)

\* Drop of the UnauthorizedID: the entry is removed wherever it stands.
GiveUpPlace(c) == conns' = conns \ {c}

\* What the eviction arm does: the handshake's bails and the guard is dropped
\* with the frame, the select loop's goes through on_close first.
EvictionArm(c) ==
    /\ watch' = [watch EXCEPT ![c] = "none"]
    /\ IF stage[c] = "handshake"
         THEN stage' = [stage EXCEPT ![c] = "closed"] /\ GiveUpPlace(c)
         ELSE stage' = [stage EXCEPT ![c] = "closing"] /\ UNCHANGED conns

\* evicted(): resolves at once when the flag is up.
LookEvicted(c) ==
    /\ stage[c] \in {"handshake", "loop"} /\ watch[c] = "none"
    /\ IF evicted[c]
         THEN EvictionArm(c)
         ELSE watch' = [watch EXCEPT ![c] = "looked"] /\ UNCHANGED <<conns, stage>>
    /\ UNCHANGED <<place, next, evicted, notified, ip>>

\* notified().await begins: a stored notification resolves it.
Park(c) ==
    /\ watch[c] = "looked"
    /\ IF notified[c]
         THEN EvictionArm(c) /\ notified' = [notified EXCEPT ![c] = FALSE]
         ELSE watch' = [watch EXCEPT ![c] = "parked"] /\ UNCHANGED <<conns, stage, notified>>
    /\ UNCHANGED <<place, next, evicted, ip>>

Woken(c) ==
    /\ watch[c] = "parked" /\ notified[c]
    /\ EvictionArm(c)
    /\ notified' = [notified EXCEPT ![c] = FALSE]
    /\ UNCHANGED <<place, next, evicted, ip>>

\* identity_handshake returns: with the stream keyed, Connection::start runs
\* and on_open may turn the peer away; with an error the guard is dropped.
HandshakeEnds(c) ==
    /\ stage[c] = "handshake"
    /\ watch' = [watch EXCEPT ![c] = "none"]
    /\ \/ stage' = [stage EXCEPT ![c] = "loop"] /\ UNCHANGED conns
       \/ stage' = [stage EXCEPT ![c] = "closing"] /\ UNCHANGED conns
       \/ stage' = [stage EXCEPT ![c] = "closed"] /\ GiveUpPlace(c)
    /\ UNCHANGED <<place, next, evicted, notified, ip>>

\* Another arm of the select loop is taken; its handler awaits.
HandlerStarts(c) ==
    /\ stage[c] = "loop"
    /\ stage' = [stage EXCEPT ![c] = "busy"]
    /\ watch' = [watch EXCEPT ![c] = "none"]
    /\ UNCHANGED <<conns, place, next, evicted, notified, ip>>

\* It ends: back to the select, authorized (unauthorized_id = None), or broken out.
HandlerEnds(c) ==
    /\ stage[c] = "busy"
    /\ \/ stage' = [stage EXCEPT ![c] = "loop"] /\ UNCHANGED conns
       \/ stage' = [stage EXCEPT ![c] = "authorized"] /\ GiveUpPlace(c)
       \/ stage' = [stage EXCEPT ![c] = "closing"] /\ UNCHANGED conns
    /\ UNCHANGED <<place, next, evicted, notified, ip, watch>>

\* Mutation: the deadline is only looked at when the peer says something.
DeadlineOnMessage(c) ==
    /\ stage[c] = "busy"
    /\ stage' = [stage EXCEPT ![c] = "closing"]
    /\ UNCHANGED <<conns, place, next, evicted, notified, ip, watch>>

\* login_deadline: LOGIN_GRACE after the start.
Deadline(c) ==
    /\ stage[c] = "loop"
    /\ stage' = [stage EXCEPT ![c] = "closing"]
    /\ watch' = [watch EXCEPT ![c] = "none"]
    /\ UNCHANGED <<conns, place, next, evicted, notified, ip>>

\* on_close has run and the Connection is dropped, its guard with it.
Closed(c) ==
    /\ stage[c] = "closing"
    /\ stage' = [stage EXCEPT ![c] = "closed"]
    /\ GiveUpPlace(c)
    /\ UNCHANGED <<place, next, evicted, notified, ip, watch>>

Task(c) ==
    \/ LookEvicted(c) \/ Park(c) \/ Woken(c)
    \/ HandshakeEnds(c) \/ HandlerStarts(c) \/ HandlerEnds(c)
    \/ Deadline(c) \/ Closed(c)

Next == \E c \in Conns : Task(c) \/ \E a \in Addrs : Admit(c, a)

Spec == Init /\ [][Next]_vars

\* What ends an evicted connection "at once, not on the next timer tick": the
\* eviction arm.  select! polls its arms from a random start, so an arm that is
\* ready again and again is taken; a handler's awaits are all bounded.
EvictionSpec ==
    Spec /\ \A c \in Conns :
        /\ SF_vars(LookEvicted(c)) /\ WF_vars(Park(c)) /\ WF_vars(Woken(c))
        /\ WF_vars(HandlerEnds(c)) /\ WF_vars(Closed(c))

\* What ends every other one: CONNECT_TIMEOUT on each read and write of the
\* handshake, and the login deadline, whatever the peer does.
TimersFire == \A c \in Conns : WF_vars(HandshakeEnds(c)) /\ SF_vars(Deadline(c))

----------------------------------------------------------------------------
(* Properties. *)

\* Types; a wait exists only inside a select, a holder has arrived, and no two
\* holders share a position.
TypeOK ==
    /\ conns \subseteq Conns /\ next \in Nat /\ place \in [Conns -> Nat]
    /\ evicted \in [Conns -> BOOLEAN] /\ notified \in [Conns -> BOOLEAN]
    /\ ip \in [Conns -> Addrs \cup {None}]
    /\ stage \in [Conns -> Stages] /\ watch \in [Conns -> Watches]
    /\ \A c \in Conns : watch[c] # "none" => stage[c] \in {"handshake", "loop"}
    /\ \A c \in conns : ip[c] # None /\ place[c] < next
    /\ \A c, d \in conns : place[c] = place[d] => c = d

\* Connections that exist and are not authorized, as their tasks see it.
Live == {c \in Conns : stage[c] \in {"handshake", "loop", "busy", "closing"}}

\* "The resource bound": never more than MAX_UNAUTHORIZED_CONNS connections
\* exist between accept and authorization, those on their way out included.
LiveBound == Cardinality(Live) <= MAX_UNAUTHORIZED_CONNS

\* Of those, one address never holds more than its share.
ShareBound ==
    \A a \in Addrs :
        Cardinality({c \in Live : ip[c] = a}) <= MAX_UNAUTHORIZED_CONNS_PER_ADDR

\* "At most one connection is ever on its way out, so a burst of refused
\* arrivals clears no more room than a single one" (connection.rs:121).
OneOnItsWay == \A c, d \in conns : evicted[c] /\ evicted[d] => c = d

\* An arrival over its address's share evicts nobody, even when the registry is
\* full as well: one address cannot clear the others out.
ShareRefusalEvictsNobody ==
    [][\A c \in Conns :
          (/\ stage[c] = "new" /\ stage'[c] # "new"
           /\ Cardinality(HeldBy(ip'[c])) >= MAX_UNAUTHORIZED_CONNS_PER_ADDR)
          => evicted' = evicted]_vars

\* A connection told to go gives its place back, without waiting for its peer or
\* for a timer: the look at the flag and the wait miss no notification.
EvictedGoes == \A c \in Conns : (c \in conns /\ evicted[c]) ~> c \notin conns

\* However alive a peer keeps itself, its place comes back: it authorizes or it
\* is closed at the deadline, if the timers fire.
GraceEnds == TimersFire => \A c \in Conns : c \in conns ~> c \notin conns
============================================================================
