----------------------- MODULE TerminalServiceProofs -----------------------
(***************************************************************************)
(* No shell a client was told of is ever forgotten, for any number of      *)
(* connections, terminals and threads: whoever takes a session out of a    *)
(* map, and whoever drops the last reference to it, hands the child to the *)
(* reaper.                                                                 *)
(*                                                                         *)
(* The argument has three parts.  A session that has its child is up       *)
(* (Kept), and a session that is up is referred to, by the map of a        *)
(* service object somebody has or by the snapshot or the copy a polling    *)
(* loop works from (Reached).  A step that lets a reference go either      *)
(* drops the sessions left without one (Dropping) or finds nothing in what *)
(* it lets go: a loop has a service, a snapshot and a copy only in certain *)
(* parts of its round (Tidy).  And a session that any map or any client    *)
(* names has been started by an open that succeeded (Known), so that the   *)
(* one left behind by an open that failed half-way is none of them.        *)
(***************************************************************************)
EXTENDS TerminalService, TLAPS

Maps == [Ids -> Sessions \cup {None}]

\* A session's record.  What it has read and kept does not matter here.
SessionShape(r) ==
    r \in [child : {"none", "running", "exited", "waited"},
           holder : {"none", "session", "reaper", "lost"}, up : BOOLEAN,
           reader : {r.reader}, read : {r.read}, chan : {r.chan}, buffer : {r.buffer},
           active : {r.active}, pending : {r.pending},
           closed_message_sent : {r.closed_message_sent}]

Kept(r) ==
    /\ SessionShape(r)
    /\ r.child \in {"running", "exited"} =>
          r.holder \in {"reaper", "lost"} \/ (r.holder = "session" /\ r.up = TRUE)

\* What a step may make of r: it starts nothing, and loses nothing.
Follows(r, q) ==
    /\ Kept(q)
    /\ q.child = "none" => r.child = "none"
    /\ q.holder = "lost" => r.holder = "lost"
    /\ q.up = TRUE => r.up = TRUE

LoopShape(l) ==
    l \in [at : {"off", "ready", "fetched", "scan", "clean", "send", "remove", "done"},
           service : Conns \cup {None}, persistent : {l.persistent},
           snapshot : SUBSET (Ids \X Sessions), closed : SUBSET (Ids \X Sessions), copy : Maps,
           responses : {l.responses}, answered : {l.answered}]

Tidy(l) ==
    /\ LoopShape(l)
    /\ l.at \in {"fetched", "scan", "clean"} => l.service \in Conns
    /\ l.at \notin {"fetched", "scan", "clean"} => l.service = None
    /\ l.at # "scan" => l.snapshot = {}
    /\ l.at # "clean" => l.copy = NoMap

ServiceRecords == [persistent : BOOLEAN, needs_session_sync : BOOLEAN, sessions : Maps]

Actions ==
    {NoAction} \cup [kind : {"open", "close"}, id : Ids, service : Conns]
    \cup [kind : {"toggle"}, id : {None}, service : Conns]

AllKept(f) == f = [s \in Sessions |-> f[s]] /\ \A s \in Sessions : Kept(f[s])
AllFollow(f) == f = [s \in Sessions |-> f[s]] /\ \A s \in Sessions : Follows(ses[s], f[s])
AllTidy(loops) == loops = [c \in Conns |-> loops[c]] /\ \A c \in Conns : Tidy(loops[c])

States == {"new", "live", "left", "dropping", "gone"}

\* The types, and that a loop starts with its connection.
Types ==
    /\ scenario \in Scenarios
    /\ registered \in Conns \cup {None} /\ services \in [Conns -> ServiceRecords]
    /\ conn \in [Conns -> States] /\ handler \in [Conns -> Actions]
    /\ opened \in [Conns -> Maps] /\ AllTidy(loop)
    /\ \A c \in Conns : conn[c] = "new" => loop[c].at = "off"

\* The sessions a service object lists or a client has open.
Known ==
    {s \in Sessions : \/ \E e \in Conns : s \in Listed(services[e].sessions)
                      \/ \E c \in Conns : s \in Listed(opened[c])}

Reached == \A s \in Sessions : ses[s].up = TRUE => s \in Referenced
Started == \A s \in Known : ses[s].child # "none" /\ ses[s].holder # "lost"
Losing == \A s \in Sessions : ses[s].holder = "lost" => scenario.fails

ShellInv == Types /\ AllKept(ses) /\ Reached /\ Started /\ Losing

----------------------------------------------------------------------------
(* What is done to a session. *)

LEMMA SameFollows ==
    ASSUME NEW r, Kept(r) PROVE Follows(r, r)
  BY DEF Follows

LEMMA FollowsTwice ==
    ASSUME NEW r, NEW q, NEW p, Follows(r, q), Follows(q, p) PROVE Follows(r, p)
  BY DEF Follows

LEMMA StoppedFollows ==
    ASSUME NEW r, Kept(r) PROVE Follows(r, Stopped(r)) /\ Stopped(r).up = FALSE
<1> DEFINE ch == IF r.holder = "session" /\ r.child = "running" THEN "exited" ELSE r.child
           ho == IF r.holder = "session" THEN "reaper" ELSE r.holder
           q == [r EXCEPT !.child = ch, !.holder = ho, !.up = FALSE, !.reader = FALSE,
                          !.chan = <<>>, !.active = FALSE, !.pending = <<>>]
<1>1. Stopped(r) = q
  BY Zenon DEF Stopped
<1>2. ch \in {"none", "running", "exited", "waited"} /\ ho \in {"none", "reaper", "lost"}
  BY DEF Kept, SessionShape
<1>3. /\ ch \in {"running", "exited"} => ho \in {"reaper", "lost"}
      /\ ch = "none" => r.child = "none"
      /\ ho = "lost" => r.holder = "lost"
  BY DEF Kept, SessionShape
<1> HIDE DEF ch, ho
<1>4. SessionShape(q) /\ q.child = ch /\ q.holder = ho /\ q.up = FALSE
  BY <1>2, Zenon DEF Kept, SessionShape
<1> HIDE DEF q
<1> QED
  BY <1>1, <1>3, <1>4 DEF Follows, Kept

LEMMA NewKept ==
    Kept(NewSession) /\ Kept(NoSession)
  BY Zenon DEF NewSession, NoSession, Kept, SessionShape

LEMMA ReleasedFollows ==
    ASSUME NEW r, Kept(r) PROVE Follows(r, Released(r)) /\ Released(r).up = FALSE
<1> DEFINE ch == Stopped(r).child
           ho == Stopped(r).holder
           q == [NoSession EXCEPT !.child = ch, !.holder = ho]
<1>1. Released(r) = q
  BY Zenon DEF Released
<1>2. Follows(r, Stopped(r)) /\ Stopped(r).up = FALSE
  BY ZenonT(60), StoppedFollows
<1>3. /\ ch \in {"none", "running", "exited", "waited"}
      /\ ho \in {"none", "session", "reaper", "lost"}
      /\ ch \in {"running", "exited"} => ho \in {"reaper", "lost"}
      /\ ch = "none" => r.child = "none"
      /\ ho = "lost" => r.holder = "lost"
  BY <1>2 DEF Follows, Kept, SessionShape
<1> HIDE DEF ch, ho
<1>4. SessionShape(q) /\ q.child = ch /\ q.holder = ho /\ q.up = FALSE
  BY <1>3, Zenon DEF NoSession, SessionShape
<1> HIDE DEF q
<1> QED
  BY <1>1, <1>3, <1>4 DEF Follows, Kept

LEMMA DrainedFollows ==
    ASSUME NEW r, Kept(r) PROVE Follows(r, Drained(r))
  BY Zenon DEF Drained, Follows, Kept, SessionShape

LEMMA ReopenedFollows ==
    ASSUME NEW r, Kept(r) PROVE Follows(r, Reopened(r))
<1>1. Follows(r, Drained(r))
  BY DrainedFollows
<1>2. Follows(Drained(r), Reopened(r))
  BY <1>1, Zenon DEF Reopened, Follows, Kept, SessionShape
<1> QED
  BY <1>1, <1>2, FollowsTwice

LEMMA WaitedFollows ==
    ASSUME NEW r, Kept(r) PROVE Follows(r, Waited(r))
  BY ZenonT(60) DEF Waited, Follows, Kept, SessionShape

LEMMA KilledFollows ==
    ASSUME NEW r, Kept(r) PROVE Follows(r, Killed(r))
  BY ZenonT(60) DEF Killed, Follows, Kept, SessionShape

LEMMA ToReaperFollows ==
    ASSUME NEW r, Kept(r) PROVE Follows(r, ToReaper(r))
  BY ZenonT(60) DEF ToReaper, Follows, Kept, SessionShape

\* One session replaced.
LEMMA PutFollows ==
    ASSUME AllKept(ses), NEW s \in Sessions, NEW r, Follows(ses[s], r)
    PROVE  AllFollow([ses EXCEPT ![s] = r])
  BY SameFollows DEF AllKept, AllFollow

LEMMA PutKept ==
    ASSUME AllKept(ses), NEW s \in Sessions, NEW r, Kept(r)
    PROVE  AllKept([ses EXCEPT ![s] = r])
  BY DEF AllKept

LEMMA FollowKept ==
    ASSUME NEW f, AllFollow(f) PROVE AllKept(f)
  BY DEF AllFollow, AllKept, Follows

LEMMA AllSame ==
    ASSUME AllKept(ses) PROVE AllFollow(ses)
  BY SameFollows DEF AllKept, AllFollow

\* Dropping what nobody refers to leaves every session kept and reached.
LEMMA DroppingYields ==
    ASSUME NEW f, AllKept(f), ses' = Dropping(f)
    PROVE  AllKept(ses') /\ Reached' /\ \A s \in Sessions : Follows(f[s], ses'[s])
<1>1. ses' = [s \in Sessions |-> IF s \in Referenced' THEN f[s] ELSE Released(f[s])]
  BY Zenon DEF Dropping
<1> DEFINE refs == Referenced'
<1>2. ses' = [s \in Sessions |-> IF s \in refs THEN f[s] ELSE Released(f[s])]
  BY <1>1
<1> HIDE DEF refs
<1>3. ASSUME NEW s \in Sessions
      PROVE  Follows(f[s], ses'[s]) /\ (ses'[s].up = TRUE => s \in refs)
  <2>1. Kept(f[s])
    BY DEF AllKept
  <2>2. CASE s \in refs
    BY <1>2, <2>1, <2>2, SameFollows, Zenon
  <2>3. CASE s \notin refs
    BY <1>2, <2>1, <2>3, ReleasedFollows, Zenon
  <2> QED
    BY ZenonT(60), <2>2, <2>3
<1>4. AllKept(ses')
  BY <1>2, <1>3, Zenon DEF AllKept, Follows
<1>5. Reached'
  BY ZenonT(60), <1>3 DEF Reached, refs
<1> QED
  BY ZenonT(60), <1>3, <1>4, <1>5

----------------------------------------------------------------------------
(* What is done to the references. *)

LEMMA PutTidy ==
    ASSUME AllTidy(loop), NEW c \in Conns, NEW l, Tidy(l), loop' = [loop EXCEPT ![c] = l]
    PROVE  AllTidy(loop')
  BY DEF AllTidy

\* The sessions named do not become more.
LEMMA KnownShrinks ==
    ASSUME \A e \in Conns : Listed(services'[e].sessions) \subseteq Listed(services[e].sessions),
           \A c \in Conns : Listed(opened'[c]) \subseteq Listed(opened[c])
                                \cup UNION {Listed(services[e].sessions) : e \in Conns}
    PROVE  Known' \subseteq Known
<1> SUFFICES ASSUME NEW s \in Known' PROVE s \in Known
  OBVIOUS
<1>1. s \in Sessions /\ (\/ \E e \in Conns : s \in Listed(services'[e].sessions)
                         \/ \E c \in Conns : s \in Listed(opened'[c]))
  BY DEF Known, Listed
<1> QED
  BY <1>1 DEF Known

\* A step that lets no reference go.
LEMMA Grown ==
    ASSUME ShellInv, Types', AllFollow(ses'), Known' \subseteq Known, UNCHANGED scenario,
           \A e \in Alive : /\ e \in Alive'
                            /\ Listed(services[e].sessions) \subseteq Listed(services'[e].sessions),
           \A c \in Conns : HeldBy(loop[c]) \subseteq HeldBy(loop'[c])
    PROVE  ShellInv'
<1>1. Referenced \subseteq Referenced'
  <2> SUFFICES ASSUME NEW s \in Referenced PROVE s \in Referenced'
    OBVIOUS
  <2>1. \/ \E e \in Alive : s \in Listed(services[e].sessions)
        \/ \E c \in Conns : s \in HeldBy(loop[c])
    BY DEF Referenced
  <2>2. \/ \E e \in Alive' : s \in Listed(services'[e].sessions)
        \/ \E c \in Conns : s \in HeldBy(loop'[c])
    BY <2>1, Zenon
  <2> QED
    BY <2>2 DEF Referenced, HeldBy, Listed
<1>2. AllKept(ses')
  BY FollowKept
<1>3. Reached'
  BY <1>1 DEF ShellInv, Reached, AllFollow, Follows
<1>4. Started' /\ Losing'
  BY DEF ShellInv, Started, Losing, AllFollow, Follows, Known
<1> QED
  BY <1>2, <1>3, <1>4 DEF ShellInv

\* A step that drops what it leaves without a reference.
LEMMA Dropped ==
    ASSUME ShellInv, Types', Known' \subseteq Known, UNCHANGED scenario,
           NEW f, AllFollow(f), ses' = Dropping(f)
    PROVE  ShellInv'
<1>1. AllKept(f)
  BY FollowKept
<1>2. AllKept(ses') /\ Reached' /\ \A s \in Sessions : Follows(f[s], ses'[s])
  BY <1>1, DroppingYields
<1>3. \A s \in Sessions : Follows(ses[s], ses'[s])
  BY <1>2, FollowsTwice, Zenon DEF AllFollow
<1>4. Started' /\ Losing'
  BY <1>3 DEF ShellInv, Started, Losing, Follows, Known
<1> QED
  BY <1>2, <1>4 DEF ShellInv

\* Nobody lets go of a service object.
LEMMA StillAlive ==
    ASSUME UNCHANGED registered \/ registered = None,
           \A c \in Conns : loop'[c].service = loop[c].service \/ loop[c].service = None,
           \A c \in Conns : handler'[c].service = handler[c].service \/ handler[c].service = None,
           None \notin Conns, NEW e \in Alive
    PROVE  e \in Alive'
<1>1. e \in Conns /\ e # None
  BY DEF Alive
<1>2. \/ registered = e
      \/ \E c \in Conns : loop[c].service = e \/ handler[c].service = e
  BY DEF Alive
<1>3. \/ registered' = e
      \/ \E c \in Conns : loop'[c].service = e \/ handler'[c].service = e
  BY <1>1, <1>2
<1> QED
  BY <1>1, <1>3 DEF Alive

----------------------------------------------------------------------------
(* Steps of a shell, the reaper and the cleanup. *)

\* A step that changes sessions only.
LEMMA OnlySessions ==
    ASSUME ShellInv, AllFollow(ses'),
           UNCHANGED <<scenario, registered, services, conn, handler, loop, opened>>
    PROVE  ShellInv'
<1>1. Types' /\ Known' \subseteq Known
  BY DEF ShellInv, Types, Known
<1>2. Alive' = Alive
  BY DEF Alive
<1> QED
  BY <1>1, <1>2, Grown

\* The shell and its reader.
LEMMA ShellStep ==
    ASSUME ShellInv, UNCHANGED scenario, NEW s \in Sessions, Shell(s) PROVE ShellInv'
<1>1. UNCHANGED <<registered, services, conn, handler, loop, opened>>
  BY DEF Shell, ChildExits, ReaderReads, ReaderEnds
<1>2. Kept(ses[s]) /\ AllKept(ses)
  BY DEF ShellInv, AllKept
<1>3. PICK r : ses' = [ses EXCEPT ![s] = r] /\ Follows(ses[s], r)
  <2>1. CASE ChildExits(s)
    <3>1. ses' = [ses EXCEPT ![s] = [ses[s] EXCEPT !.child = "exited"]]
          /\ ses[s].child = "running"
      BY <2>1 DEF ChildExits
    <3>2. Follows(ses[s], [ses[s] EXCEPT !.child = "exited"])
      BY <1>2, <3>1, ZenonT(60) DEF Follows, Kept, SessionShape
    <3> QED
      BY <3>1, <3>2, Zenon
  <2>2. CASE ReaderReads(s)
    <3> DEFINE ch == IF Len(ses[s].chan) < CHANNEL_BUFFER_SIZE
                       THEN Append(ses[s].chan, ses[s].read + 1) ELSE ses[s].chan
               rd == ses[s].read + 1
    <3>1. ses' = [ses EXCEPT ![s] = [ses[s] EXCEPT !.read = rd, !.chan = ch]]
      BY <2>2, Zenon DEF ReaderReads
    <3> HIDE DEF ch, rd
    <3>2. Follows(ses[s], [ses[s] EXCEPT !.read = rd, !.chan = ch])
      BY <1>2, ZenonT(60) DEF Follows, Kept, SessionShape
    <3> QED
      BY <3>1, <3>2, Zenon
  <2>3. CASE ReaderEnds(s)
    <3>1. ses' = [ses EXCEPT ![s] = [ses[s] EXCEPT !.reader = FALSE]]
      BY <2>3 DEF ReaderEnds
    <3>2. Follows(ses[s], [ses[s] EXCEPT !.reader = FALSE])
      BY <1>2, ZenonT(60) DEF Follows, Kept, SessionShape
    <3> QED
      BY <3>1, <3>2, Zenon
  <2> QED
    BY <2>1, <2>2, <2>3 DEF Shell
<1>4. AllFollow(ses')
  BY <1>2, <1>3, PutFollows, Zenon
<1> QED
  BY <1>1, <1>4, OnlySessions

\* The reaper waits for those it has.
LEMMA ReaperStep ==
    ASSUME ShellInv, UNCHANGED scenario, check_zombie_terminals PROVE ShellInv'
<1>1. UNCHANGED <<registered, services, conn, handler, loop, opened>>
  BY Zenon DEF check_zombie_terminals
<1>2. ASSUME NEW s \in Sessions PROVE Follows(ses[s], ses'[s])
  <2>1. ses'[s] = IF ses[s].holder = "reaper" /\ ses[s].child # "running"
                   THEN [ses[s] EXCEPT !.holder = "none", !.child = "waited"] ELSE ses[s]
    BY Zenon DEF check_zombie_terminals
  <2>2. Kept(ses[s])
    BY DEF ShellInv, AllKept
  <2> QED
    BY <2>1, <2>2, ZenonT(60) DEF Follows, Kept, SessionShape
<1>3. AllFollow(ses')
  BY <1>2, Zenon DEF AllFollow, check_zombie_terminals
<1> QED
  BY <1>1, <1>3, OnlySessions

LEMMA StopAllFollows ==
    ASSUME AllKept(ses) PROVE AllFollow(StopAll)
<1>1. ASSUME NEW s \in Sessions PROVE Follows(ses[s], StopAll[s])
  <2>1. Kept(ses[s])
    BY DEF AllKept
  <2>2. StopAll[s] = Stopped(ses[s]) \/ StopAll[s] = ses[s]
    BY Zenon DEF StopAll
  <2> QED
    BY <2>1, <2>2, StoppedFollows, SameFollows, Zenon
<1> QED
  BY <1>1, Zenon DEF AllFollow, StopAll

\* The cleanup takes the service out of the registry.
LEMMA RemoveIdleStep ==
    ASSUME ShellInv, UNCHANGED scenario, RemoveIdle PROVE ShellInv'
<1>1. /\ registered' = None /\ UNCHANGED <<services, conn, handler, loop, opened>>
      /\ ses' = Dropping(StopAll)
  BY DEF RemoveIdle
<1>2. Types' /\ Known' \subseteq Known
  BY <1>1 DEF ShellInv, Types, Known
<1>3. AllFollow(StopAll)
  BY StopAllFollows DEF ShellInv
<1> QED
  BY <1>1, <1>2, <1>3, Dropped, Zenon

----------------------------------------------------------------------------
(* Steps of a connection. *)

\* A connection moves on; the loop it may touch keeps what it has.
LEMMA ConnStep ==
    ASSUME ShellInv, UNCHANGED <<scenario, registered, services, ses, handler>>,
           NEW c \in Conns, NEW v \in States \ {"new"}, conn' = [conn EXCEPT ![c] = v],
           opened' = opened \/ opened' = [opened EXCEPT ![c] = NoMap],
           NEW l, Tidy(l), loop' = [loop EXCEPT ![c] = l],
           l.snapshot = loop[c].snapshot, l.copy = loop[c].copy, l.service = loop[c].service
    PROVE  ShellInv'
<1>1. AllTidy(loop) /\ AllTidy(loop')
  BY ZenonT(60), PutTidy DEF ShellInv, Types
<1>2. \A d \in Conns : d # c => loop'[d] = loop[d] /\ conn'[d] = conn[d]
  BY <1>1 DEF ShellInv, Types, AllTidy
<1>3. loop'[c] = l /\ conn'[c] = v
  BY <1>1 DEF ShellInv, Types, AllTidy
<1>4. opened' \in [Conns -> Maps]
  BY DEF ShellInv, Types, Maps, NoMap
<1>5. conn' \in [Conns -> States]
  BY DEF ShellInv, Types
<1>6. \A d \in Conns : conn'[d] = "new" => loop'[d].at = "off"
  BY <1>2, <1>3 DEF ShellInv, Types
<1>7. Types'
  BY <1>1, <1>4, <1>5, <1>6 DEF ShellInv, Types
<1>8. \A d \in Conns : Listed(opened'[d]) \subseteq Listed(opened[d])
  <2>1. Listed(NoMap) = {}
    BY DEF Listed, NoMap
  <2>2. \A d \in Conns : opened'[d] = opened[d] \/ opened'[d] = NoMap
    BY DEF ShellInv, Types
  <2> QED
    BY <2>1, <2>2
<1>9. Known' \subseteq Known
  BY <1>8, KnownShrinks, Zenon
<1>10. \A d \in Conns : HeldBy(loop[d]) \subseteq HeldBy(loop'[d])
  BY <1>2, <1>3 DEF HeldBy
<1>11. \A e \in Alive : e \in Alive'
  BY <1>2, <1>3 DEF Alive
<1>12. AllFollow(ses')
  BY AllSame DEF ShellInv
<1> QED
  BY <1>7, <1>9, <1>10, <1>11, <1>12, Grown

LEMMA LeaveStep ==
    ASSUME ShellInv, UNCHANGED scenario, NEW c \in Conns, Leave(c) PROVE ShellInv'
<1> DEFINE l == [loop[c] EXCEPT !.responses = <<>>]
<1>1. /\ loop' = [loop EXCEPT ![c] = l] /\ UNCHANGED <<registered, services, ses, handler>>
      /\ conn' = [conn EXCEPT ![c] = "left"] /\ opened' = [opened EXCEPT ![c] = NoMap]
  BY DEF Leave
<1>2. Tidy(loop[c])
  BY DEF ShellInv, Types, AllTidy
<1>3. /\ Tidy(l) /\ l.snapshot = loop[c].snapshot /\ l.copy = loop[c].copy
      /\ l.service = loop[c].service
  BY <1>2, ZenonT(60) DEF Tidy, LoopShape
<1> HIDE DEF l
<1> QED
  BY ZenonT(60), <1>1, <1>3, ConnStep DEF States

LEMMA LastStep ==
    ASSUME ShellInv, UNCHANGED scenario, NEW c \in Conns, DropConnection(c) \/ Joined(c)
    PROVE  ShellInv'
<1>1. /\ UNCHANGED <<registered, services, ses, handler, opened, loop>>
      /\ \E v \in States \ {"new"} : conn' = [conn EXCEPT ![c] = v]
  BY DEF DropConnection, Joined, States
<1>2. Tidy(loop[c]) /\ loop' = [loop EXCEPT ![c] = loop[c]]
  BY <1>1 DEF ShellInv, Types, AllTidy
<1> QED
  BY ZenonT(60), <1>1, <1>2, ConnStep

\* The service is found or made, its sessions are closed and the loop starts.
LEMMA InitServiceStep ==
    ASSUME ShellInv, UNCHANGED scenario, NEW c \in Conns, InitService(c) PROVE ShellInv'
<1> DEFINE l == [loop[c] EXCEPT !.at = "ready"]
           e == IF registered = None THEN c ELSE registered
           sv == [services[e] EXCEPT !.persistent = scenario.persistent,
                                     !.needs_session_sync = TRUE]
<1>1. /\ conn[c] = "new" /\ conn' = [conn EXCEPT ![c] = "live"]
      /\ loop' = [loop EXCEPT ![c] = l] /\ UNCHANGED <<handler, opened>>
  BY Zenon DEF InitService
<1>2. /\ registered' = e /\ services' = [services EXCEPT ![e] = sv]
      /\ ses' = [s \in Sessions |-> IF s \in Listed(services[e].sessions)
                                    THEN [ses[s] EXCEPT !.active = FALSE, !.pending = <<>>]
                                    ELSE ses[s]]
  BY Zenon DEF InitService, get_or_create_service
<1>3. Tidy(loop[c]) /\ loop[c].at = "off"
  BY <1>1, Zenon DEF ShellInv, Types, AllTidy
<1>4. /\ Tidy(l) /\ l.snapshot = loop[c].snapshot /\ l.copy = loop[c].copy
      /\ l.service = loop[c].service
  BY <1>3, ZenonT(60) DEF Tidy, LoopShape
<1> HIDE DEF l
<1>5. e \in Conns /\ (registered = None \/ e = registered)
  BY DEF ShellInv, Types
<1> HIDE DEF e
<1>6. services[e] \in ServiceRecords /\ scenario.persistent \in BOOLEAN
  BY <1>5, TerminalAssumption DEF ShellInv, Types
<1>7. sv \in ServiceRecords /\ sv.sessions = services[e].sessions
  BY <1>6, ZenonT(60) DEF ServiceRecords
<1> HIDE DEF sv
<1>8. /\ services' \in [Conns -> ServiceRecords]
      /\ \A d \in Conns : services'[d].sessions = services[d].sessions
  BY ZenonT(60), <1>2, <1>5, <1>7 DEF ShellInv, Types
<1>9. AllTidy(loop) /\ AllTidy(loop')
  BY <1>1, <1>4, PutTidy, Zenon DEF ShellInv, Types
<1>10. \A d \in Conns : d # c => loop'[d] = loop[d] /\ conn'[d] = conn[d]
  BY <1>1, <1>9 DEF ShellInv, Types, AllTidy
<1>11. loop'[c] = l /\ conn'[c] = "live" /\ conn' \in [Conns -> States]
  BY <1>1, <1>9 DEF ShellInv, Types, AllTidy, States
<1>12. \A d \in Conns : conn'[d] = "new" => loop'[d].at = "off"
  BY <1>10, <1>11, ZenonT(60) DEF ShellInv, Types
<1>13. Types'
  BY ZenonT(60), <1>1, <1>2, <1>5, <1>8, <1>9, <1>11, <1>12 DEF ShellInv, Types
<1>14. ASSUME NEW s \in Sessions PROVE Follows(ses[s], ses'[s])
  <2>1. Kept(ses[s])
    BY DEF ShellInv, AllKept
  <2>2. \/ ses'[s] = [ses[s] EXCEPT !.active = FALSE, !.pending = <<>>]
        \/ ses'[s] = ses[s]
    BY <1>2, Zenon
  <2> QED
    BY <2>1, <2>2, ZenonT(60) DEF Follows, Kept, SessionShape
<1>15. AllFollow(ses')
  BY <1>2, <1>14, Zenon DEF AllFollow
<1>16. Known' \subseteq Known
  BY <1>1, <1>8, KnownShrinks
<1>17. \A d \in Conns : HeldBy(loop[d]) \subseteq HeldBy(loop'[d])
  BY <1>4, <1>10, <1>11 DEF HeldBy
<1>18. \A d \in Conns : loop'[d].service = loop[d].service
  BY <1>4, <1>10, <1>11, ZenonT(60)
<1>19. \A d \in Alive : d \in Alive'
  BY ZenonT(60), <1>1, <1>2, <1>5, <1>18, StillAlive, TerminalAssumption
<1>20. \A d \in Alive : Listed(services[d].sessions) \subseteq Listed(services'[d].sessions)
  BY <1>8 DEF Alive
<1> QED
  BY <1>13, <1>15, <1>16, <1>17, <1>19, <1>20, Grown

\* A handler looks the service up.
LEMMA AskStep ==
    ASSUME ShellInv, UNCHANGED scenario, NEW c \in Conns, NEW kind, NEW t, Ask(c, kind, t),
           \/ kind \in {"open", "close"} /\ t \in Ids
           \/ kind = "toggle" /\ t = None
    PROVE  ShellInv'
<1> DEFINE a == [kind |-> kind, id |-> t, service |-> registered]
<1>1. /\ handler[c] = NoAction /\ registered # None /\ handler' = [handler EXCEPT ![c] = a]
      /\ UNCHANGED <<registered, services, ses, conn, loop, opened>>
  BY Zenon DEF Ask
<1>2. a \in Actions
  BY <1>1 DEF ShellInv, Types, Actions
<1> HIDE DEF a
<1>3. Types'
  BY SMTT(60), <1>1, <1>2 DEF ShellInv, Types
<1>4. \A d \in Conns : handler'[d].service = handler[d].service \/ handler[d].service = None
  BY <1>1 DEF ShellInv, Types, NoAction
<1>5. \A d \in Alive : d \in Alive'
  BY <1>1, <1>4, StillAlive, TerminalAssumption
<1>6. AllFollow(ses') /\ Known' \subseteq Known
  BY <1>1, AllSame DEF ShellInv, Known
<1> QED
  BY <1>1, <1>3, <1>5, <1>6, Grown

\* A handler ends: its types, whatever it made of its service.
LEMMA HandlerTypes ==
    ASSUME ShellInv, UNCHANGED <<scenario, registered, conn, loop>>, NEW c \in Conns,
           HandlerEnds(c), services' \in [Conns -> ServiceRecords], opened' \in [Conns -> Maps]
    PROVE  Types'
<1>1. handler' \in [Conns -> Actions]
  BY DEF HandlerEnds, ShellInv, Types, Actions
<1> QED
  BY <1>1 DEF ShellInv, Types

\* What a handler knows of the object it looked up.
LEMMA HandlerHas ==
    ASSUME ShellInv, NEW c \in Conns, handler[c].kind # "none"
    PROVE  /\ handler[c].service \in Conns
           /\ handler[c].kind \in {"open", "close"} => handler[c].id \in Ids
           /\ Its(c) \in ServiceRecords /\ Its(c).sessions \in Maps
<1>1. handler[c] \in Actions /\ handler[c] # NoAction
  BY DEF ShellInv, Types, NoAction
<1>2. /\ handler[c].service \in Conns
      /\ handler[c].kind \in {"open", "close"} => handler[c].id \in Ids
  BY <1>1 DEF Actions
<1> QED
  BY <1>2 DEF Its, ShellInv, Types, ServiceRecords

LEMMA SetPersistentStep ==
    ASSUME ShellInv, UNCHANGED scenario, NEW c \in Conns, set_persistent(c) PROVE ShellInv'
<1> DEFINE e == handler[c].service
           sv == [services[e] EXCEPT !.persistent = ~services[e].persistent]
<1>1. /\ handler[c].kind = "toggle" /\ services' = [services EXCEPT ![e] = sv]
      /\ HandlerEnds(c) /\ UNCHANGED <<registered, conn, loop, opened>>
      /\ ses' = Dropping(ses)
  BY Zenon DEF set_persistent
<1>2. e \in Conns /\ services[e] \in ServiceRecords
  BY <1>1, HandlerHas DEF Its
<1> HIDE DEF e
<1>3. sv \in ServiceRecords /\ sv.sessions = services[e].sessions
  BY <1>2, Zenon DEF ServiceRecords
<1> HIDE DEF sv
<1>4. /\ services' \in [Conns -> ServiceRecords]
      /\ \A d \in Conns : services'[d].sessions = services[d].sessions
  BY SMTT(60), <1>1, <1>2, <1>3 DEF ShellInv, Types
<1>5. Types'
  BY <1>1, <1>4, HandlerTypes DEF ShellInv, Types
<1>6. Known' \subseteq Known
  BY <1>1, <1>4, KnownShrinks
<1>7. AllFollow(ses)
  BY AllSame DEF ShellInv
<1> QED
  BY <1>1, <1>5, <1>6, <1>7, Dropped, Zenon

\* A remap only renames.
LEMMA RemappedListed ==
    ASSUME NEW map \in Maps, NEW t \in Ids, Listed(map) # {}
    PROVE  Remapped(map, t) \in Maps /\ Listed(Remapped(map, t)) \subseteq Listed(map)
<1> DEFINE Q(u) == map[u] # None /\ \A w \in Ids : map[w] # None => u <= w
           low == CHOOSE u \in Ids : Q(u)
           S == {u \in Ids : map[u] # None}
<1>1. S # {} /\ S \in SUBSET Ids
  BY DEF Listed
<1>2. PICK u \in S : \A v \in S : u <= v
  BY <1>1, TerminalAssumption, Zenon
<1>3. u \in Ids /\ Q(u)
  BY <1>2
<1>4. low \in Ids /\ map[low] # None
  <2> HIDE DEF Q
  <2>1. \E x \in Ids : Q(x)
    BY <1>3
  <2>2. low \in Ids /\ Q(low)
    BY <2>1, Zenon
  <2> QED
    BY <2>2 DEF Q
<1>5. Remapped(map, t) = [map EXCEPT ![t] = map[low], ![low] = None]
  BY Zenon DEF Remapped
<1> HIDE DEF low
<1> QED
  BY <1>4, <1>5 DEF Maps, Listed

LEMMA PutService ==
    ASSUME ShellInv, NEW e \in Conns, NEW sv \in ServiceRecords,
           services' = [services EXCEPT ![e] = sv]
    PROVE  /\ services' \in [Conns -> ServiceRecords] /\ services'[e] = sv
           /\ \A d \in Conns : d # e => services'[d] = services[d]
  BY DEF ShellInv, Types

LEMMA AnswerOpened ==
    ASSUME ShellInv, NEW c \in Conns, NEW o \in Maps, NEW v, Answer(c, o, v)
    PROVE  /\ opened' \in [Conns -> Maps]
           /\ \A d \in Conns : opened'[d] = opened[d] \/ (d = c /\ opened'[d] = o)
<1>1. opened \in [Conns -> Maps]
  BY DEF ShellInv, Types
<1>2. opened' = opened \/ opened' = [opened EXCEPT ![c] = o]
  BY ZenonT(60) DEF Answer
<1> QED
  BY <1>1, <1>2

\* The map an open works on.
LEMMA OpenMap ==
    ASSUME ShellInv, NEW c \in Conns, handler[c].kind = "open", NEW map,
           map = IF Remaps(Its(c), handler[c].id)
                   THEN Remapped(Its(c).sessions, handler[c].id) ELSE Its(c).sessions
    PROVE  /\ handler[c].service \in Conns /\ handler[c].id \in Ids /\ Its(c) \in ServiceRecords
           /\ map \in Maps /\ Listed(map) \subseteq Listed(Its(c).sessions)
<1>1. /\ handler[c].service \in Conns /\ handler[c].id \in Ids
      /\ Its(c) \in ServiceRecords /\ Its(c).sessions \in Maps
  BY HandlerHas
<1>2. CASE Remaps(Its(c), handler[c].id)
  <2>1. Listed(Its(c).sessions) # {}
    BY <1>2 DEF Remaps
  <2> QED
    BY <1>1, <1>2, <2>1, RemappedListed
<1>3. CASE ~Remaps(Its(c), handler[c].id)
  BY <1>1, <1>3
<1> QED
  BY SMTT(60), <1>1, <1>2, <1>3

\* The session there is gets its history ready.
LEMMA OpenExistingStep ==
    ASSUME ShellInv, UNCHANGED <<scenario, registered, conn, loop>>, NEW c \in Conns,
           HandlerEnds(c), handler[c].service \in Conns, Its(c) \in ServiceRecords,
           NEW t \in Ids, NEW map \in Maps, Listed(map) \subseteq Listed(Its(c).sessions),
           OpenExisting(c, t, map)
    PROVE  ShellInv'
<1> DEFINE e == handler[c].service
           s == map[t]
           sv == [services[e] EXCEPT !.sessions = map, !.needs_session_sync = FALSE]
           o == [opened[c] EXCEPT ![t] = s]
<1>1. /\ s # None /\ services' = [services EXCEPT ![e] = sv]
      /\ ses' = Dropping([ses EXCEPT ![s] = Reopened(ses[s])])
  BY Zenon DEF OpenExisting
<1>2. PICK v : Answer(c, o, v)
  BY Zenon DEF OpenExisting
<1>3. s \in Listed(map) /\ s \in Sessions
  BY <1>1 DEF Maps, Listed
<1>4. sv \in ServiceRecords /\ sv.sessions = map
  BY Zenon DEF ServiceRecords, Its
<1> HIDE DEF sv
<1>5. o \in Maps /\ Listed(o) \subseteq Listed(opened[c]) \cup {s}
  <2>1. opened[c] \in Maps
    BY DEF ShellInv, Types
  <2> QED
    BY <1>3, <2>1 DEF Maps, Listed
<1> HIDE DEF o
<1>6. /\ services' \in [Conns -> ServiceRecords] /\ services'[e] = sv
      /\ \A d \in Conns : d # e => services'[d] = services[d]
  BY ZenonT(60), <1>1, <1>4, PutService
<1>7. /\ opened' \in [Conns -> Maps]
      /\ \A d \in Conns : opened'[d] = opened[d] \/ (d = c /\ opened'[d] = o)
  BY <1>2, <1>5, AnswerOpened
<1>8. \A d \in Conns : Listed(services'[d].sessions) \subseteq Listed(services[d].sessions)
  BY <1>4, <1>6 DEF Its
<1>9. s \in UNION {Listed(services[d].sessions) : d \in Conns}
  BY <1>3 DEF Its
<1>10. \A d \in Conns : Listed(opened'[d]) \subseteq Listed(opened[d])
                          \cup UNION {Listed(services[x].sessions) : x \in Conns}
  BY <1>5, <1>7, <1>9
<1>11. Types' /\ Known' \subseteq Known
  BY <1>6, <1>7, <1>8, <1>10, HandlerTypes, KnownShrinks
<1>12. AllFollow([ses EXCEPT ![s] = Reopened(ses[s])])
  BY <1>3, ReopenedFollows, PutFollows DEF ShellInv, AllKept
<1> QED
  BY <1>1, <1>11, <1>12, Dropped, Zenon

\* A shell is started.
LEMMA Starting ==
    ASSUME ShellInv, Types', UNCHANGED scenario, NEW s \in Sessions, s \notin Known,
           NEW q, Kept(q), q.child # "none", ses' = Dropping([ses EXCEPT ![s] = q]),
           \/ q.holder # "lost" /\ Known' \subseteq Known \cup {s}
           \/ scenario.fails /\ Known' \subseteq Known
    PROVE  ShellInv'
<1> DEFINE f == [ses EXCEPT ![s] = q]
<1>1. AllKept(f)
  BY PutKept DEF ShellInv
<1>2. f[s] = q /\ \A r \in Sessions : r # s => f[r] = ses[r]
  BY DEF ShellInv, AllKept
<1> HIDE DEF f
<1>3. AllKept(ses') /\ Reached' /\ \A r \in Sessions : Follows(f[r], ses'[r])
  BY ZenonT(60), <1>1, DroppingYields DEF f
<1>4. Started'
  <2> SUFFICES ASSUME NEW r \in Known' PROVE ses'[r].child # "none" /\ ses'[r].holder # "lost"
    BY ZenonT(60) DEF Started
  <2>1. r \in Sessions /\ Follows(f[r], ses'[r])
    BY ZenonT(60), <1>3 DEF Known
  <2>2. CASE r = s /\ q.holder # "lost"
    BY <1>2, <2>1, <2>2 DEF Follows
  <2>3. CASE r \in Known /\ r # s
    <3>1. ses[r].child # "none" /\ ses[r].holder # "lost"
      BY <2>3 DEF ShellInv, Started
    <3>2. f[r] = ses[r]
      BY <1>2, <2>1, <2>3
    <3> QED
      BY <2>1, <3>1, <3>2 DEF Follows
  <2> QED
    BY <2>2, <2>3
<1>5. Losing'
  BY ZenonT(60), <1>2, <1>3 DEF ShellInv, Losing, Follows
<1> QED
  BY <1>3, <1>4, <1>5 DEF ShellInv

LEMMA FreshUnknown ==
    ASSUME ShellInv, NEW s \in Sessions, Fresh(s) PROVE s \notin Known
  BY DEF ShellInv, Started, Fresh

LEMMA OpenNewStep ==
    ASSUME ShellInv, UNCHANGED <<scenario, registered, conn, loop>>, NEW c \in Conns,
           HandlerEnds(c), handler[c].service \in Conns, Its(c) \in ServiceRecords,
           NEW t \in Ids, NEW map \in Maps, Listed(map) \subseteq Listed(Its(c).sessions),
           OpenNew(c, t, map)
    PROVE  ShellInv'
<1> DEFINE e == handler[c].service
           map2(s) == [map EXCEPT ![t] = s]
           sv(s) == [services[e] EXCEPT !.sessions = map2(s), !.needs_session_sync = FALSE]
           o(s) == [opened[c] EXCEPT ![t] = s]
<1>1. PICK s \in Sessions :
          /\ Fresh(s) /\ services' = [services EXCEPT ![e] = sv(s)]
          /\ ses' = Dropping([ses EXCEPT ![s] = NewSession])
          /\ \E v : Answer(c, o(s), v)
  BY Zenon DEF OpenNew
<1>2. PICK v : Answer(c, o(s), v)
  BY <1>1
<1>3. map2(s) \in Maps /\ Listed(map2(s)) \subseteq Listed(map) \cup {s}
  BY DEF Maps, Listed
<1> HIDE DEF map2
<1>4. sv(s) \in ServiceRecords /\ sv(s).sessions = map2(s)
  BY <1>3, Zenon DEF ServiceRecords, Its
<1> HIDE DEF sv
<1>5. o(s) \in Maps /\ Listed(o(s)) \subseteq Listed(opened[c]) \cup {s}
  <2>1. opened[c] \in Maps
    BY SMTT(60) DEF ShellInv, Types
  <2> QED
    BY SMTT(60), <2>1 DEF Maps, Listed
<1> HIDE DEF o
<1>6. /\ services' \in [Conns -> ServiceRecords] /\ services'[e] = sv(s)
      /\ \A d \in Conns : d # e => services'[d] = services[d]
  BY ZenonT(60), <1>1, <1>4, PutService
<1>7. /\ opened' \in [Conns -> Maps]
      /\ \A d \in Conns : opened'[d] = opened[d] \/ (d = c /\ opened'[d] = o(s))
  BY SMTT(60), <1>2, <1>5, AnswerOpened
<1>8. \A d \in Conns : Listed(services'[d].sessions) \subseteq Listed(services[d].sessions) \cup {s}
  BY <1>3, <1>4, <1>6 DEF Its
<1>9. \A d \in Conns : Listed(opened'[d]) \subseteq Listed(opened[d]) \cup {s}
  BY SMTT(60), <1>5, <1>7
<1>10. Known' \subseteq Known \cup {s}
  <2> SUFFICES ASSUME NEW r \in Known' PROVE r \in Known \cup {s}
    OBVIOUS
  <2>1. r \in Sessions /\ (\/ \E d \in Conns : r \in Listed(services'[d].sessions)
                           \/ \E d \in Conns : r \in Listed(opened'[d]))
    BY DEF Known, Listed
  <2> QED
    BY <1>8, <1>9, <2>1 DEF Known
<1>11. Types'
  BY <1>6, <1>7, HandlerTypes
<1>12. Kept(NewSession) /\ NewSession.child # "none" /\ NewSession.holder # "lost"
  BY NewKept DEF NewSession, NoSession
<1> QED
  BY <1>1, <1>10, <1>11, <1>12, Starting, FreshUnknown

LEMMA OpenFailsStep ==
    ASSUME ShellInv, UNCHANGED <<scenario, registered, conn, loop>>, NEW c \in Conns,
           HandlerEnds(c), NEW t \in Ids, NEW map, OpenFails(c, t, map)
    PROVE  ShellInv'
<1> DEFINE q(s) == [ses[s] EXCEPT !.child = "running", !.holder = "lost"]
<1>1. UNCHANGED services /\ \E v : Answer(c, opened[c], v)
  BY ZenonT(60) DEF OpenFails
<1>2. opened[c] \in Maps
  BY DEF ShellInv, Types
<1>3. opened' \in [Conns -> Maps] /\ \A d \in Conns : opened'[d] = opened[d]
  BY <1>1, <1>2, AnswerOpened
<1>4. Types' /\ Known' \subseteq Known
  <2>1. services' \in [Conns -> ServiceRecords]
    BY <1>1 DEF ShellInv, Types
  <2> QED
    BY SMTT(60), <1>1, <1>3, <2>1, HandlerTypes, KnownShrinks
<1>5. CASE ses' = Dropping(ses)
  <2>1. AllFollow(ses)
    BY AllSame DEF ShellInv
  <2> QED
    BY <1>4, <1>5, <2>1, Dropped, Zenon
<1>6. ASSUME NEW s \in Sessions, Fresh(s), ses' = Dropping([ses EXCEPT ![s] = q(s)])
      PROVE  ShellInv'
  <2>1. scenario.fails
    BY ZenonT(60), <1>6 DEF OpenFails
  <2>2. Kept(ses[s])
    BY DEF ShellInv, AllKept
  <2>3. Kept(q(s)) /\ q(s).child # "none"
    BY <2>2, ZenonT(60) DEF Kept, SessionShape
  <2> QED
    BY <1>4, <1>6, <2>1, <2>3, Starting, FreshUnknown, ZenonT(60)
<1> QED
  BY <1>5, <1>6, Zenon DEF OpenFails

LEMMA OpenStep ==
    ASSUME ShellInv, UNCHANGED scenario, NEW c \in Conns, handle_open(c) PROVE ShellInv'
<1> DEFINE t == handler[c].id
           map == IF Remaps(Its(c), t) THEN Remapped(Its(c).sessions, t) ELSE Its(c).sessions
<1>1. /\ handler[c].kind = "open" /\ HandlerEnds(c)
      /\ UNCHANGED <<registered, conn, loop>>
      /\ OpenExisting(c, t, map) \/ OpenNew(c, t, map) \/ OpenFails(c, t, map)
  BY ZenonT(60) DEF handle_open
<1>2. /\ handler[c].service \in Conns /\ t \in Ids /\ Its(c) \in ServiceRecords
      /\ map \in Maps /\ Listed(map) \subseteq Listed(Its(c).sessions)
  BY SMTT(60), <1>1, OpenMap
<1> HIDE DEF t, map
<1> QED
  BY <1>1, <1>2, OpenExistingStep, OpenNewStep, OpenFailsStep

LEMMA CloseStep ==
    ASSUME ShellInv, UNCHANGED scenario, NEW c \in Conns, handle_close(c) PROVE ShellInv'
<1> DEFINE e == handler[c].service
           t == handler[c].id
           s == Its(c).sessions[t]
           map == [services[e].sessions EXCEPT ![t] = None]
           sv == [services[e] EXCEPT !.sessions = map]
           o == [opened[c] EXCEPT ![t] = None]
           f == IF s = None THEN ses ELSE [ses EXCEPT ![s] = Killed(ses[s])]
<1>1. /\ handler[c].kind = "close" /\ HandlerEnds(c) /\ services' = [services EXCEPT ![e] = sv]
      /\ UNCHANGED <<registered, conn, loop>> /\ ses' = Dropping(f)
  BY Zenon DEF handle_close
<1>2. PICK v : Answer(c, o, v)
  BY Zenon DEF handle_close
<1>3. /\ e \in Conns /\ t \in Ids
      /\ services[e] \in ServiceRecords /\ services[e].sessions \in Maps
  BY ZenonT(60), <1>1, HandlerHas DEF Its
<1>4. map \in Maps /\ Listed(map) \subseteq Listed(services[e].sessions)
  BY SMTT(60), <1>3 DEF Maps, Listed
<1>5. s \in Sessions \cup {None}
  BY <1>3 DEF Maps, Its
<1>6. o \in Maps /\ Listed(o) \subseteq Listed(opened[c])
  <2>1. opened[c] \in Maps
    BY DEF ShellInv, Types
  <2> QED
    BY <1>3, <2>1 DEF Maps, Listed
<1> HIDE DEF map, o, s
<1>7. sv \in ServiceRecords /\ sv.sessions = map
  BY <1>3, <1>4, Zenon DEF ServiceRecords
<1> HIDE DEF sv, e, t
<1>8. /\ services' \in [Conns -> ServiceRecords] /\ services'[e] = sv
      /\ \A d \in Conns : d # e => services'[d] = services[d]
  BY ZenonT(60), <1>1, <1>3, <1>7, PutService
<1>9. /\ opened' \in [Conns -> Maps]
      /\ \A d \in Conns : opened'[d] = opened[d] \/ (d = c /\ opened'[d] = o)
  BY <1>2, <1>6, AnswerOpened
<1>10. \A d \in Conns : Listed(services'[d].sessions) \subseteq Listed(services[d].sessions)
  BY <1>4, <1>7, <1>8
<1>11. \A d \in Conns : Listed(opened'[d]) \subseteq Listed(opened[d])
  BY <1>6, <1>9
<1>12. Types' /\ Known' \subseteq Known
  BY <1>1, <1>8, <1>9, <1>10, <1>11, HandlerTypes, KnownShrinks
<1>13. AllFollow(f)
  <2>1. AllKept(ses)
    BY DEF ShellInv
  <2>2. CASE s = None
    BY <2>1, <2>2, AllSame
  <2>3. CASE s \in Sessions /\ s # None
    <3>1. Follows(ses[s], Killed(ses[s]))
      BY <2>1, <2>3, KilledFollows DEF AllKept
    <3> QED
      BY <2>1, <2>3, <3>1, PutFollows
  <2> QED
    BY <1>5, <2>2, <2>3
<1> HIDE DEF f
<1> QED
  BY <1>1, <1>12, <1>13, Dropped, Zenon

----------------------------------------------------------------------------
(* Steps of a polling loop. *)

\* What a loop's record is made of.
LEMMA LoopParts ==
    ASSUME NEW l, LoopShape(l)
    PROVE  /\ l.at \in {"off", "ready", "fetched", "scan", "clean", "send", "remove", "done"}
           /\ l.service \in Conns \cup {None} /\ l.snapshot \in SUBSET (Ids \X Sessions)
           /\ l.closed \in SUBSET (Ids \X Sessions) /\ l.copy \in Maps
  BY Zenon DEF LoopShape

\* A loop moves on; the rest stays as it is, but for the service objects.
LEMMA LoopTypes ==
    ASSUME ShellInv, UNCHANGED <<scenario, conn, handler>>, registered' \in Conns \cup {None},
           services' \in [Conns -> ServiceRecords], opened' \in [Conns -> Maps],
           NEW c \in Conns, loop[c].at # "off", NEW l, Tidy(l), loop' = [loop EXCEPT ![c] = l]
    PROVE  /\ Types' /\ loop'[c] = l
           /\ \A d \in Conns : d # c => loop'[d] = loop[d]
<1>1. AllTidy(loop) /\ AllTidy(loop')
  BY ZenonT(60), PutTidy DEF ShellInv, Types
<1>2. loop'[c] = l /\ \A d \in Conns : d # c => loop'[d] = loop[d]
  BY <1>1 DEF AllTidy
<1>3. \A d \in Conns : conn'[d] = "new" => loop'[d].at = "off"
  BY SMTT(60), <1>2 DEF ShellInv, Types
<1> QED
  BY <1>1, <1>2, <1>3 DEF ShellInv, Types

\* A loop moves on and lets go of nothing.
LEMMA LoopGrows ==
    ASSUME ShellInv, UNCHANGED <<scenario, registered, services, ses, conn, handler>>,
           opened' \in [Conns -> Maps],
           \A d \in Conns : Listed(opened'[d]) \subseteq Listed(opened[d]),
           NEW c \in Conns, loop[c].at # "off", NEW l, Tidy(l), loop' = [loop EXCEPT ![c] = l],
           HeldBy(loop[c]) \subseteq HeldBy(l), l.service = loop[c].service \/ loop[c].service = None
    PROVE  ShellInv'
<1>1. /\ Types' /\ loop'[c] = l
      /\ \A d \in Conns : d # c => loop'[d] = loop[d]
  <2>1. registered' \in Conns \cup {None} /\ services' \in [Conns -> ServiceRecords]
    BY DEF ShellInv, Types
  <2> QED
    BY ZenonT(60), <2>1, LoopTypes
<1>2. Known' \subseteq Known
  BY KnownShrinks
<1>3. \A d \in Conns : HeldBy(loop[d]) \subseteq HeldBy(loop'[d])
  BY <1>1
<1>4. \A d \in Conns : loop'[d].service = loop[d].service \/ loop[d].service = None
  BY <1>1
<1>5. \A d \in Alive : d \in Alive'
  BY <1>4, StillAlive, TerminalAssumption
<1>6. AllFollow(ses')
  BY AllSame DEF ShellInv
<1> QED
  BY <1>1, <1>2, <1>3, <1>5, <1>6, Grown

\* A loop moves on, and drops what it leaves without a reference.
LEMMA LoopDrops ==
    ASSUME ShellInv, UNCHANGED <<scenario, conn, handler, opened>>,
           registered' \in Conns \cup {None}, services' \in [Conns -> ServiceRecords],
           \A d \in Conns : Listed(services'[d].sessions) \subseteq Listed(services[d].sessions),
           NEW c \in Conns, loop[c].at # "off", NEW l, Tidy(l), loop' = [loop EXCEPT ![c] = l],
           NEW f, AllFollow(f), ses' = Dropping(f)
    PROVE  ShellInv'
<1>1. opened' \in [Conns -> Maps]
  BY SMTT(60) DEF ShellInv, Types
<1>2. Types'
  BY ZenonT(60), <1>1, LoopTypes
<1>3. Known' \subseteq Known
  BY KnownShrinks
<1> QED
  BY <1>2, <1>3, Dropped, Zenon

LEMMA LoopIsTidy ==
    ASSUME ShellInv, NEW c \in Conns PROVE Tidy(loop[c]) /\ LoopShape(loop[c])
  BY DEF ShellInv, Types, AllTidy, Tidy

LEMMA FetchStep ==
    ASSUME ShellInv, UNCHANGED scenario, NEW c \in Conns, Fetch(c) PROVE ShellInv'
<1> DEFINE p == services[registered].persistent
           l == [loop[c] EXCEPT !.at = "fetched", !.service = registered, !.persistent = p]
<1>1. /\ loop[c].at = "ready" /\ registered # None /\ loop' = [loop EXCEPT ![c] = l]
      /\ UNCHANGED <<registered, services, ses, conn, handler, opened>>
  BY Zenon DEF Fetch
<1>2. Tidy(loop[c]) /\ LoopShape(loop[c]) /\ registered \in Conns
  BY <1>1, LoopIsTidy DEF ShellInv, Types
<1> HIDE DEF p
<1>3. /\ LoopShape(l) /\ l.at = "fetched" /\ l.service = registered
      /\ l.snapshot = loop[c].snapshot /\ l.copy = loop[c].copy
  BY <1>2, ZenonT(60) DEF LoopShape
<1> HIDE DEF l
<1>4. Tidy(l) /\ HeldBy(l) = HeldBy(loop[c]) /\ loop[c].service = None
  BY <1>1, <1>2, <1>3 DEF Tidy, HeldBy
<1>5. opened' \in [Conns -> Maps]
  BY <1>1 DEF ShellInv, Types
<1> QED
  BY ZenonT(60), <1>1, <1>4, <1>5, LoopGrows

LEMMA ScanStep ==
    ASSUME ShellInv, UNCHANGED scenario, NEW c \in Conns, Scan(c) PROVE ShellInv'
<1> DEFINE map == services[loop[c].service].sessions
           sn == {<<t, map[t]>> : t \in {u \in Ids : map[u] # None}}
           an == seen[c].answered
           l == [loop[c] EXCEPT !.at = "scan", !.answered = an, !.snapshot = sn]
<1>1. /\ loop[c].at = "fetched" /\ loop' = [loop EXCEPT ![c] = l]
      /\ UNCHANGED <<registered, services, ses, conn, handler, opened>>
  BY Zenon DEF Scan
<1>2. Tidy(loop[c]) /\ LoopShape(loop[c])
  BY LoopIsTidy
<1>3. loop[c].service \in Conns /\ loop[c].snapshot = {} /\ loop[c].copy = NoMap
  BY <1>1, <1>2 DEF Tidy
<1>4. map \in Maps
  BY SMTT(60), <1>3 DEF ShellInv, Types, ServiceRecords
<1>5. sn \in SUBSET (Ids \X Sessions)
  BY <1>4 DEF Maps
<1> HIDE DEF sn, an
<1>6. /\ LoopShape(l) /\ l.at = "scan" /\ l.service = loop[c].service
      /\ l.snapshot = sn /\ l.copy = loop[c].copy
  BY <1>2, <1>5, ZenonT(60) DEF LoopShape
<1> HIDE DEF l
<1>7. Tidy(l) /\ HeldBy(loop[c]) \subseteq HeldBy(l)
  BY <1>3, <1>6 DEF Tidy, HeldBy
<1>8. opened' \in [Conns -> Maps]
  BY <1>1 DEF ShellInv, Types
<1> QED
  BY ZenonT(60), <1>1, <1>6, <1>7, <1>8, LoopGrows

LEMMA ScannedStep ==
    ASSUME ShellInv, UNCHANGED scenario, NEW c \in Conns, Scanned(c) PROVE ShellInv'
<1> DEFINE map == services[loop[c].service].sessions
           l == IF loop[c].closed = {} THEN [loop[c] EXCEPT !.at = "send", !.service = None]
                ELSE [loop[c] EXCEPT !.at = "clean", !.copy = map]
<1>1. /\ loop[c].at = "scan" /\ loop[c].snapshot = {} /\ loop' = [loop EXCEPT ![c] = l]
      /\ UNCHANGED <<registered, services, conn, handler, opened>> /\ ses' = Dropping(ses)
  BY Zenon DEF Scanned
<1>2. Tidy(loop[c]) /\ LoopShape(loop[c])
  BY LoopIsTidy
<1>3. loop[c].service \in Conns /\ loop[c].copy = NoMap
  BY SMTT(60), <1>1, <1>2 DEF Tidy
<1>4. map \in Maps
  BY <1>3 DEF ShellInv, Types, ServiceRecords
<1> HIDE DEF map
<1>5. ASSUME loop[c].closed = {} PROVE Tidy(l)
  <2>1. /\ LoopShape(l) /\ l.at = "send" /\ l.service = None
        /\ l.snapshot = {} /\ l.copy = NoMap
    BY <1>1, <1>2, <1>3, <1>5, ZenonT(60) DEF LoopShape
  <2> QED
    BY <2>1 DEF Tidy
<1>6. ASSUME loop[c].closed # {} PROVE Tidy(l)
  <2>1. /\ LoopShape(l) /\ l.at = "clean" /\ l.service = loop[c].service /\ l.snapshot = {}
    BY <1>1, <1>2, <1>4, <1>6, ZenonT(60) DEF LoopShape
  <2> QED
    BY <1>3, <2>1 DEF Tidy
<1> HIDE DEF l
<1>7. Tidy(l)
  BY SMTT(60), <1>5, <1>6
<1>8. AllFollow(ses) /\ registered' \in Conns \cup {None} /\ services' \in [Conns -> ServiceRecords]
  BY <1>1, AllSame DEF ShellInv, Types
<1> QED
  BY <1>1, <1>7, <1>8, LoopDrops, Zenon

\* A session of the snapshot is done with or passed over.
LEMMA SnapshotStep ==
    ASSUME ShellInv, NEW c \in Conns, loop[c].at = "scan", NEW t, NEW s, NEW cl, NEW rs,
           <<t, s>> \in loop[c].snapshot, cl \in SUBSET (Ids \X Sessions),
           UNCHANGED <<scenario, registered, services, conn, handler, opened>>,
           loop' = [loop EXCEPT ![c] = [loop[c] EXCEPT !.snapshot = loop[c].snapshot \ {<<t, s>>},
                                                       !.closed = cl, !.responses = rs]],
           NEW f, AllFollow(f), ses' = Dropping(f)
    PROVE  ShellInv'
<1> DEFINE sn == loop[c].snapshot \ {<<t, s>>}
           l == [loop[c] EXCEPT !.snapshot = sn, !.closed = cl, !.responses = rs]
<1>1. Tidy(loop[c]) /\ LoopShape(loop[c])
  BY LoopIsTidy
<1>2. sn \in SUBSET (Ids \X Sessions)
  BY <1>1, LoopParts
<1>3. loop' = [loop EXCEPT ![c] = l]
  OBVIOUS
<1> HIDE DEF sn
<1>4. /\ LoopShape(l) /\ l.at = "scan" /\ l.service = loop[c].service /\ l.copy = loop[c].copy
  BY <1>1, <1>2, ZenonT(60) DEF LoopShape
<1> HIDE DEF l
<1>5. Tidy(l)
  BY <1>1, <1>4 DEF Tidy
<1>6. registered' \in Conns \cup {None} /\ services' \in [Conns -> ServiceRecords]
  BY DEF ShellInv, Types
<1> QED
  BY ZenonT(60), <1>3, <1>5, <1>6, LoopDrops

LEMMA SkipStep ==
    ASSUME ShellInv, UNCHANGED scenario, NEW c \in Conns, NEW t, NEW s, Skip(c, t, s)
    PROVE  ShellInv'
<1> DEFINE sn == loop[c].snapshot \ {<<t, s>>}
<1>1. /\ loop[c].at = "scan" /\ <<t, s>> \in loop[c].snapshot
      /\ loop' = [loop EXCEPT ![c] = [loop[c] EXCEPT !.snapshot = sn]]
      /\ UNCHANGED <<registered, services, conn, handler, opened>> /\ ses' = Dropping(ses)
  BY Zenon DEF Skip
<1>2. LoopShape(loop[c])
  BY LoopIsTidy
<1> HIDE DEF sn
<1>3. [loop[c] EXCEPT !.snapshot = sn]
      = [loop[c] EXCEPT !.snapshot = sn, !.closed = loop[c].closed, !.responses = loop[c].responses]
  BY <1>2, ZenonT(60) DEF LoopShape
<1>4. loop[c].closed \in SUBSET (Ids \X Sessions) /\ AllFollow(ses)
  BY SMTT(60), <1>2, LoopParts, AllSame DEF ShellInv
<1> QED
  BY ZenonT(60), <1>1, <1>3, <1>4, SnapshotStep DEF sn

LEMMA ProcessStep ==
    ASSUME ShellInv, UNCHANGED scenario, NEW c \in Conns, NEW t \in Ids, NEW s \in Sessions,
           Process(c, t, s)
    PROVE  ShellInv'
<1> DEFINE r == ses[s]
           cl == IF Ended(r) THEN loop[c].closed \cup {<<t, s>>} ELSE loop[c].closed
           rs == IF conn[c] = "live" THEN loop[c].responses \o Responses(t, s, r)
                 ELSE loop[c].responses
           w == Drained(Waited(r))
           sent == w.closed_message_sent \/ Ended(r)
           after == [w EXCEPT !.closed_message_sent = sent, !.pending = <<>>]
<1>1. /\ loop[c].at = "scan" /\ <<t, s>> \in loop[c].snapshot
      /\ loop' = [loop EXCEPT ![c] = [loop[c] EXCEPT !.snapshot = loop[c].snapshot \ {<<t, s>>},
                                                     !.closed = cl, !.responses = rs]]
      /\ UNCHANGED <<registered, services, conn, handler, opened>>
      /\ ses' = Dropping([ses EXCEPT ![s] = after])
  BY Zenon DEF Process
<1>2. LoopShape(loop[c]) /\ Kept(r)
  BY SMTT(60), LoopIsTidy DEF ShellInv, AllKept
<1>3. cl \in SUBSET (Ids \X Sessions)
  BY <1>2, LoopParts
<1>4. Follows(r, w)
  <2>1. Follows(r, Waited(r))
    BY SMTT(60), <1>2, WaitedFollows
  <2>2. Follows(Waited(r), w)
    BY ZenonT(60), <2>1, DrainedFollows DEF Follows
  <2> QED
    BY <2>1, <2>2, FollowsTwice
<1> HIDE DEF sent, w
<1>5. Follows(w, after)
  BY <1>4, ZenonT(60) DEF Follows, Kept, SessionShape
<1> HIDE DEF after
<1>6. AllFollow([ses EXCEPT ![s] = after])
  BY <1>4, <1>5, FollowsTwice, PutFollows DEF ShellInv
<1> HIDE DEF cl, rs
<1> QED
  BY ZenonT(60), <1>1, <1>3, <1>6, SnapshotStep

LEMMA CleanStep ==
    ASSUME ShellInv, UNCHANGED scenario, NEW c \in Conns, NEW t \in Ids, Clean(c, t)
    PROVE  ShellInv'
<1> DEFINE x == CHOOSE y \in loop[c].closed : y[1] = t
           e == loop[c].service
           s == loop[c].copy[t]
           rest == loop[c].closed \ {x}
           removes == Removes(loop[c], s)
           map == [services[e].sessions EXCEPT ![t] = None]
           sv == [services[e] EXCEPT !.sessions = map]
           rs == IF conn[c] = "live" THEN Append(loop[c].responses, Response("closed", t, x[2], <<>>))
                 ELSE loop[c].responses
           cp == IF rest = {} THEN NoMap
                 ELSE IF removes THEN [loop[c].copy EXCEPT ![t] = None] ELSE loop[c].copy
           at == IF rest = {} THEN "send" ELSE loop[c].at
           own == IF rest = {} THEN None ELSE e
           l == [loop[c] EXCEPT !.closed = rest, !.at = at, !.service = own, !.copy = cp,
                                !.responses = rs]
           f == IF s = None THEN ses ELSE [ses EXCEPT ![s] = ToReaper(ses[s])]
<1>1. /\ loop[c].at = "clean" /\ loop' = [loop EXCEPT ![c] = l]
      /\ services' = IF removes THEN [services EXCEPT ![e] = sv] ELSE services
      /\ UNCHANGED <<registered, conn, handler, opened>> /\ ses' = Dropping(f)
  BY Zenon DEF Clean
<1>2. Tidy(loop[c]) /\ LoopShape(loop[c])
  BY LoopIsTidy
<1>3. e \in Conns /\ loop[c].snapshot = {}
  BY <1>1, <1>2 DEF Tidy
<1>4. loop[c].copy \in Maps /\ rest \in SUBSET (Ids \X Sessions)
  BY <1>2, LoopParts
<1>5. s \in Sessions \cup {None}
  BY SMTT(60), <1>4 DEF Maps
<1> HIDE DEF rest, removes, rs
<1>6. /\ cp \in Maps
      /\ rest = {} => at = "send" /\ own = None /\ cp = NoMap
      /\ rest # {} => at = "clean" /\ own = e
  BY <1>1, <1>4 DEF Maps, NoMap
<1> HIDE DEF cp, at, own
<1>7. at \in {"clean", "send"} /\ own \in Conns \cup {None}
  BY <1>3, <1>6
<1>8. LoopShape(l) /\ l.at = at /\ l.service = own /\ l.copy = cp /\ l.snapshot = {}
  BY <1>2, <1>3, <1>4, <1>6, <1>7, ZenonT(60) DEF LoopShape
<1> HIDE DEF l
<1>9. Tidy(l)
  BY SMTT(60), <1>3, <1>6, <1>8 DEF Tidy
<1>10. services[e] \in ServiceRecords /\ services[e].sessions \in Maps
  BY SMTT(60), <1>3 DEF ShellInv, Types, ServiceRecords
<1>11. map \in Maps /\ Listed(map) \subseteq Listed(services[e].sessions)
  BY <1>10 DEF Maps, Listed
<1> HIDE DEF map
<1>12. sv \in ServiceRecords /\ sv.sessions = map
  BY <1>10, <1>11, ZenonT(60) DEF ServiceRecords
<1> HIDE DEF sv, e
<1>13. /\ services' \in [Conns -> ServiceRecords]
       /\ \A d \in Conns : Listed(services'[d].sessions) \subseteq Listed(services[d].sessions)
  <2>1. CASE services' = services
    BY <2>1 DEF ShellInv, Types
  <2>2. CASE services' = [services EXCEPT ![e] = sv]
    <3>1. /\ services' \in [Conns -> ServiceRecords] /\ services'[e] = sv
          /\ \A d \in Conns : d # e => services'[d] = services[d]
      BY ZenonT(60), <1>3, <1>12, <2>2, PutService
    <3> QED
      BY SMTT(60), <1>11, <1>12, <3>1
  <2> QED
    BY SMTT(60), <1>1, <2>1, <2>2
<1>14. AllFollow(f)
  <2>1. AllKept(ses)
    BY DEF ShellInv
  <2> HIDE DEF s
  <2>2. CASE s = None
    BY <2>1, <2>2, AllSame
  <2>3. CASE s \in Sessions /\ s # None
    <3>1. Follows(ses[s], ToReaper(ses[s]))
      BY <2>1, <2>3, ToReaperFollows DEF AllKept
    <3> QED
      BY <2>1, <2>3, <3>1, PutFollows
  <2> QED
    BY <1>5, <2>2, <2>3
<1> HIDE DEF f
<1>15. registered' \in Conns \cup {None}
  BY <1>1 DEF ShellInv, Types
<1> QED
  BY <1>1, <1>9, <1>13, <1>14, <1>15, LoopDrops, Zenon

LEMMA NoLoopTidy ==
    Tidy(NoLoop) /\ Tidy([NoLoop EXCEPT !.at = "ready"])
<1>1. NoMap \in Maps
  BY DEF NoMap, Maps
<1>2. /\ LoopShape(NoLoop) /\ NoLoop.at = "off" /\ NoLoop.service = None
      /\ NoLoop.snapshot = {} /\ NoLoop.copy = NoMap
  BY <1>1, ZenonT(60) DEF NoLoop, LoopShape
<1>3. LET l == [NoLoop EXCEPT !.at = "ready"]
      IN  /\ LoopShape(l) /\ l.at = "ready" /\ l.service = None
          /\ l.snapshot = {} /\ l.copy = NoMap
  BY <1>2, ZenonT(60) DEF LoopShape
<1> QED
  BY <1>2, <1>3 DEF Tidy

\* What was read is sent; by then the loop has let go of everything.
LEMMA SendStep ==
    ASSUME ShellInv, UNCHANGED scenario, NEW c \in Conns, SendResponses(c) PROVE ShellInv'
<1> DEFINE l == [NoLoop EXCEPT !.at = "ready"]
<1>1. /\ loop[c].at = "send" /\ loop' = [loop EXCEPT ![c] = l]
      /\ UNCHANGED <<registered, services, ses, conn, handler>>
  BY Zenon DEF SendResponses
<1>2. PICK over : opened' = [opened EXCEPT ![c] = [t \in Ids |-> IF t \in over THEN None
                                                                ELSE opened[c][t]]]
  BY Zenon DEF SendResponses
<1>3. /\ opened' \in [Conns -> Maps]
      /\ \A d \in Conns : Listed(opened'[d]) \subseteq Listed(opened[d])
  <2> DEFINE o == [t \in Ids |-> IF t \in over THEN None ELSE opened[c][t]]
  <2>1. opened \in [Conns -> Maps]
    BY DEF ShellInv, Types
  <2>2. o \in Maps /\ Listed(o) \subseteq Listed(opened[c])
    BY <2>1 DEF Maps, Listed
  <2> HIDE DEF o
  <2>3. opened' = [opened EXCEPT ![c] = o]
    BY <1>2 DEF o
  <2> QED
    BY <2>1, <2>2, <2>3
<1>4. Tidy(loop[c]) /\ Tidy(l)
  BY LoopIsTidy, NoLoopTidy
<1>5. loop[c].service = None /\ loop[c].snapshot = {} /\ loop[c].copy = NoMap
  BY <1>1, <1>4 DEF Tidy
<1>6. HeldBy(loop[c]) = {}
  BY <1>5 DEF HeldBy, Listed, NoMap
<1> HIDE DEF l
<1> QED
  BY ZenonT(60), <1>1, <1>3, <1>4, <1>5, <1>6, LoopGrows

\* A loop that is through with its last round.
LEMMA EndTidy ==
    ASSUME NEW l, Tidy(l), l.at \in {"ready", "remove"}, NEW a \in {"remove", "done"}
    PROVE  LET q == [l EXCEPT !.at = a]
           IN  Tidy(q) /\ HeldBy(q) = HeldBy(l) /\ q.service = l.service
<1> DEFINE q == [l EXCEPT !.at = a]
<1>1. LoopShape(l)
  BY DEF Tidy
<1>2. /\ LoopShape(q) /\ q.at = a /\ q.service = l.service
      /\ q.snapshot = l.snapshot /\ q.copy = l.copy
  BY <1>1, ZenonT(60) DEF LoopShape
<1> HIDE DEF q
<1>3. Tidy(q) /\ HeldBy(q) = HeldBy(l) /\ q.service = l.service
  BY <1>2 DEF Tidy, HeldBy
<1> QED
  BY <1>3 DEF q

LEMMA ExitLoopStep ==
    ASSUME ShellInv, UNCHANGED scenario, NEW c \in Conns, ExitLoop(c) PROVE ShellInv'
<1> DEFINE a == IF registered # None /\ ~services[registered].persistent THEN "remove" ELSE "done"
           l == [loop[c] EXCEPT !.at = a]
<1>1. /\ loop[c].at = "ready" /\ loop' = [loop EXCEPT ![c] = l]
      /\ UNCHANGED <<registered, services, ses, conn, handler, opened>>
  BY Zenon DEF ExitLoop
<1>2. a \in {"remove", "done"} /\ Tidy(loop[c])
  BY LoopIsTidy
<1> HIDE DEF a
<1>3. Tidy(l) /\ HeldBy(l) = HeldBy(loop[c]) /\ l.service = loop[c].service
  BY ZenonT(60), <1>1, <1>2, EndTidy
<1> HIDE DEF l
<1>4. opened' \in [Conns -> Maps]
  BY <1>1 DEF ShellInv, Types
<1> QED
  BY ZenonT(60), <1>1, <1>3, <1>4, LoopGrows

LEMMA RemoveOwnStep ==
    ASSUME ShellInv, UNCHANGED scenario, NEW c \in Conns, RemoveOwn(c) PROVE ShellInv'
<1> DEFINE l == [loop[c] EXCEPT !.at = "done"]
<1>1. /\ loop[c].at = "remove" /\ loop' = [loop EXCEPT ![c] = l] /\ registered' = None
      /\ UNCHANGED <<services, conn, handler, opened>> /\ ses' = Dropping(StopAll)
  BY Zenon DEF RemoveOwn
<1>2. Tidy(l)
  BY ZenonT(60), <1>1, LoopIsTidy, EndTidy
<1> HIDE DEF l
<1>3. AllFollow(StopAll) /\ services' \in [Conns -> ServiceRecords]
  BY <1>1, StopAllFollows DEF ShellInv, Types
<1> QED
  BY <1>1, <1>2, <1>3, LoopDrops, Zenon

LEMMA PollingStep ==
    ASSUME ShellInv, UNCHANGED scenario, NEW c \in Conns, Polling(c) PROVE ShellInv'
  BY FetchStep, ScanStep, ScannedStep, SendStep, ExitLoopStep, RemoveOwnStep, CleanStep,
     ProcessStep, SkipStep, ZenonT(60) DEF Polling

----------------------------------------------------------------------------
(* The theorem. *)

LEMMA InitiallyShells ==
    Init => ShellInv
<1> SUFFICES ASSUME Init PROVE ShellInv
  OBVIOUS
<1>1. NoMap \in Maps /\ Listed(NoMap) = {}
  BY DEF NoMap, Maps, Listed
<1>2. NoService \in ServiceRecords /\ NoService.sessions = NoMap
  BY SMTT(60), <1>1 DEF NoService, ServiceRecords
<1>3. Types
  <2>1. AllTidy(loop) /\ \A c \in Conns : loop[c].at = "off"
    BY SMTT(60), NoLoopTidy DEF Init, AllTidy, NoLoop
  <2> QED
    BY <1>1, <1>2, <2>1 DEF Init, Types, States, Actions
<1>4. AllKept(ses) /\ \A s \in Sessions : ses[s].up = FALSE /\ ses[s].holder = "none"
  BY NewKept DEF Init, AllKept, NoSession
<1>5. Known = {}
  BY <1>1, <1>2 DEF Init, Known
<1> QED
  BY <1>3, <1>4, <1>5 DEF ShellInv, Reached, Started, Losing

LEMMA StepKeepsShells ==
    ShellInv /\ [Next /\ UNCHANGED scenario]_<<vars, scenario>> => ShellInv'
<1> SUFFICES ASSUME ShellInv, [Next /\ UNCHANGED scenario]_<<vars, scenario>> PROVE ShellInv'
  OBVIOUS
<1>1. CASE UNCHANGED <<vars, scenario>>
  BY <1>1, AllSame, OnlySessions DEF vars, ShellInv
<1>2. CASE Next /\ UNCHANGED scenario
  <2>1. ASSUME NEW s \in Sessions, Shell(s) PROVE ShellInv'
    BY <1>2, <2>1, ShellStep
  <2>2. CASE check_zombie_terminals
    BY <1>2, <2>2, ReaperStep
  <2>3. CASE CollectIdle
    BY SMTT(60), <1>2, <2>3, AllSame, OnlySessions DEF CollectIdle, ShellInv
  <2>4. CASE RemoveIdle
    BY <1>2, <2>4, RemoveIdleStep
  <2>5. ASSUME NEW c \in Conns, InitService(c) PROVE ShellInv'
    BY <1>2, <2>5, InitServiceStep
  <2>6. ASSUME NEW c \in Conns, Leave(c) PROVE ShellInv'
    BY <1>2, <2>6, LeaveStep
  <2>7. ASSUME NEW c \in Conns, DropConnection(c) \/ Joined(c) PROVE ShellInv'
    BY <1>2, <2>7, LastStep
  <2>8. ASSUME NEW c \in Conns, Ask(c, "toggle", None) PROVE ShellInv'
    BY <1>2, <2>8, AskStep
  <2>9. ASSUME NEW c \in Conns, NEW t \in Ids, Ask(c, "open", t) \/ Ask(c, "close", t)
        PROVE  ShellInv'
    BY SMTT(60), <1>2, <2>9, AskStep
  <2>10. ASSUME NEW c \in Conns, set_persistent(c) PROVE ShellInv'
    BY <1>2, <2>10, SetPersistentStep
  <2>11. ASSUME NEW c \in Conns, handle_open(c) PROVE ShellInv'
    BY <1>2, <2>11, OpenStep
  <2>12. ASSUME NEW c \in Conns, handle_close(c) PROVE ShellInv'
    BY <1>2, <2>12, CloseStep
  <2>13. ASSUME NEW c \in Conns, Polling(c) PROVE ShellInv'
    BY <1>2, <2>13, PollingStep
  <2> QED
    BY <1>2, <2>1, <2>2, <2>3, <2>4, <2>5, <2>6, <2>7, <2>8, <2>9, <2>10, <2>11, <2>12, <2>13,
       ZenonT(60) DEF Next
<1> QED
  BY <1>1, <1>2

LEMMA ShellsKept ==
    ShellInv => NoOrphan
<1> SUFFICES ASSUME ShellInv, NEW s \in Sessions, ses[s].child \in {"running", "exited"}
             PROVE  \/ ses[s].holder = "reaper"
                    \/ ses[s].holder = "session" /\ ses[s].up /\ s \in Referenced
                    \/ /\ ses[s].holder = "lost" /\ scenario.fails
                       /\ \A c \in Conns : s \notin Listed(opened[c])
  BY DEF NoOrphan
<1>1. Kept(ses[s])
  BY DEF ShellInv, AllKept
<1>2. CASE ses[s].holder = "session"
  <2>1. ses[s].up = TRUE
    BY SMTT(60), <1>1, <1>2 DEF Kept
  <2> QED
    BY <1>2, <2>1 DEF ShellInv, Reached
<1>3. CASE ses[s].holder = "lost"
  <2>1. s \notin Known
    BY <1>3 DEF ShellInv, Started
  <2> QED
    BY <1>3, <2>1 DEF ShellInv, Losing, Known
<1> QED
  BY SMTT(60), <1>1, <1>2, <1>3 DEF Kept

\* Whatever opens, closes, overlaps, idles and fails, a shell that runs or is a zombie
\* is in a session somebody can still reach or with the reaper; the only others are
\* shells whose open failed after starting them (handle_open's take_writer and
\* try_clone_reader), and of those no client has been told that they are open
\* (terminal_service.rs: handle_open, handle_close, read_outputs, remove_service,
\* Drop for TerminalSession).
THEOREM OpenedShellsAreKept == Spec => []NoOrphan
<1>1. Init => ShellInv
  BY InitiallyShells
<1>2. ShellInv /\ [Next /\ UNCHANGED scenario]_<<vars, scenario>> => ShellInv'
  BY StepKeepsShells
<1>3. ShellInv => NoOrphan
  BY ShellsKept
<1> QED
  BY <1>1, <1>2, <1>3, PTL DEF Spec
============================================================================
