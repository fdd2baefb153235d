------------------------- MODULE PrivacyModeProofs -------------------------
(***************************************************************************)
(* For any number of connections and any requests: who owns privacy mode   *)
(* keeps it, the screen and the input follow the owner, and the owner is   *)
(* there to answer for it.                                                 *)
(*                                                                         *)
(* The operations on the machine come first: turning off leaves it bare,   *)
(* turning on a bare one leaves it whole or bare again.  The steps of the  *)
(* connections then need two facts more: where no wait is cut short every  *)
(* worker is awaited by its connection, and a connection has one at most.  *)
(***************************************************************************)
EXTENDS PrivacyMode, TLAPS

Owners == Conns \cup {Nobody}
Machines == [impl : Impls, owner : Owners, covered : BOOLEAN, hook : {"No", "On", "Exiting"}]

Bare(m) == m.owner = Nobody /\ m.covered = FALSE /\ m.hook # "On"
Whole(m) == m.owner # Nobody /\ m.covered = TRUE /\ m.hook = "On"

-----------------------------------------------------------------------------
(* The operations on the machine. *)

\* What turn_off_privacy of an implementation leaves behind: a machine without
\* owner unless the system lets it down, and a bare one unless it does.
LEMMA OffsYield ==
    ASSUME NEW m \in Machines, NEW o \in Offs(m)
    PROVE  /\ o.ok \in BOOLEAN /\ o.m \in Machines
           /\ o.m.impl = m.impl
           /\ o.m.owner \in {m.owner, Nobody}
           /\ ~scenario.fails => Bare(o.m) /\ o.ok
<1>1. unhook(m) \in Machines /\ unhook(m).impl = m.impl /\ unhook(m).owner = m.owner
      /\ unhook(m).hook # "On"
  BY DEF unhook, Machines
<1>2. ASSUME NEW n \in Machines
      PROVE  /\ Uncovered(n) \in Machines /\ Uncovered(n).impl = n.impl
             /\ Uncovered(n).owner = Nobody /\ Uncovered(n).covered = FALSE
             /\ Uncovered(n).hook = n.hook
  BY ZenonT(60) DEF Uncovered, Machines, Owners
<1>3. CASE o = [ok |-> TRUE, m |-> Uncovered(unhook(m))]
  <2>1. o.ok = TRUE /\ o.m = Uncovered(unhook(m))
    BY <1>3
  <2> QED
    BY ZenonT(60), <2>1, <1>1, <1>2 DEF Bare
<1>4. CASE scenario.fails /\ o \in {[ok |-> FALSE, m |-> m], [ok |-> FALSE, m |-> unhook(m)],
                                   [ok |-> FALSE, m |-> Uncovered(unhook(m))]}
  <2>1. o.ok = FALSE /\ o.m \in {m, unhook(m), Uncovered(unhook(m))}
    BY <1>4
  <2> QED
    BY ZenonT(60), <2>1, <1>1, <1>2, <1>4
<1> QED
  BY <1>3, <1>4 DEF Offs

\* Exchanging the implementation leaves a machine without owner, bare unless
\* the system lets a turning off down.
LEMMA ReplacedYields ==
    ASSUME NEW m \in Machines, NEW i \in Impls, NEW n \in Replaced(m, i)
    PROVE  n \in Machines /\ n.owner = Nobody /\ (~scenario.fails => Bare(n))
<1>1. PICK k \in Machines : /\ n = [k EXCEPT !.impl = i, !.owner = Nobody]
                            /\ ~scenario.fails => Bare(k)
  <2>1. PICK x \in {o.m : o \in Offs(m)} :
            \E k \in IF x.owner = Nobody THEN {x} ELSE {o.m : o \in Offs(x)} :
                n = [k EXCEPT !.impl = i, !.owner = Nobody]
    BY ZenonT(60) DEF Replaced
  <2>2. x \in Machines /\ (~scenario.fails => Bare(x))
    BY <2>1, OffsYield
  <2>3. ASSUME NEW o \in Offs(x) PROVE o.m \in Machines /\ (~scenario.fails => Bare(o.m))
    BY <2>2, OffsYield
  <2> QED
    BY ZenonT(60), <2>1, <2>2, <2>3
<1> QED
  BY ZenonT(60), <1>1 DEF Machines, Owners, Bare

\* Turning on a machine without owner: it then belongs to c or, still, to
\* nobody; from a bare one without a hook thread it is whole or bare.
LEMMA OnsYield ==
    ASSUME NEW m \in Machines, NEW c \in Conns, m.owner = Nobody, NEW o \in Ons(m, c)
    PROVE  /\ o.res \in {"True", "False", "Err"} /\ o.m \in Machines
           /\ o.m.owner \in {c, Nobody}
           /\ o.m.owner = c <=> o.res = "True"
           /\ ~scenario.fails /\ Bare(m) /\ m.hook = "No" => Bare(o.m) \/ Whole(o.m)
<1> DEFINE on == [m EXCEPT !.owner = c, !.covered = TRUE]
           half == [m EXCEPT !.covered = TRUE]
<1>1. /\ on \in Machines /\ on.owner = c /\ on.covered = TRUE /\ on.hook = m.hook
      /\ half \in Machines /\ half.owner = Nobody
  BY ZenonT(60) DEF Machines, Owners
<1>10. \/ o = [res |-> "Err", m |-> m] \/ o = [res |-> "False", m |-> m]
       \/ o = [res |-> "True", m |-> Hooked(on)]
       \/ scenario.fails /\ o = [res |-> "True", m |-> on]
       \/ \E n \in Undone(Hooked(half)) : o = [res |-> "Err", m |-> n]
       \/ \E n \in Undone(half) : o = [res |-> "Err", m |-> n]
  BY ZenonT(60) DEF Ons
<1> HIDE DEF on, half
<1>2. ASSUME NEW n \in Machines
      PROVE  /\ Hooked(n) \in Machines /\ Hooked(n).owner = n.owner
             /\ Hooked(n).covered = n.covered
             /\ n.hook = "No" => Hooked(n).hook = "On"
  BY DEF Hooked, Machines
<1>3. c # Nobody
  BY NobodyAssumption
<1>4. ASSUME NEW n \in Machines, n.owner = Nobody, NEW k \in Undone(n)
      PROVE  k \in Machines /\ k.owner = Nobody /\ (~scenario.fails => Bare(k))
  BY <1>4, OffsYield DEF Undone
<1>5. CASE o = [res |-> "Err", m |-> m] \/ o = [res |-> "False", m |-> m]
  <2>1. o.res \in {"Err", "False"} /\ o.m = m
    BY <1>5
  <2> QED
    BY <2>1, <1>3
<1>6. CASE o = [res |-> "True", m |-> Hooked(on)]
  <2>1. o.res = "True" /\ o.m = Hooked(on)
    BY <1>6
  <2> QED
    BY <2>1, <1>1, <1>2, <1>3 DEF Whole
<1>7. CASE scenario.fails /\ o = [res |-> "True", m |-> on]
  <2>1. o.res = "True" /\ o.m = on
    BY <1>7
  <2> QED
    BY <2>1, <1>1, <1>3, <1>7
<1>8. CASE \E n \in Undone(Hooked(half)) : o = [res |-> "Err", m |-> n]
  <2>1. PICK n \in Undone(Hooked(half)) : o.res = "Err" /\ o.m = n
    BY <1>8
  <2> QED
    BY <2>1, <1>1, <1>2, <1>3, <1>4
<1>9. CASE \E n \in Undone(half) : o = [res |-> "Err", m |-> n]
  <2>1. PICK n \in Undone(half) : o.res = "Err" /\ o.m = n
    BY <1>9
  <2> QED
    BY <2>1, <1>1, <1>2, <1>3, <1>4
<1> QED
  BY <1>10, <1>5, <1>6, <1>7, <1>8, <1>9

\* A hook thread that is ending is gone when the next one hooks, unless the
\* scenario is the quick one.
LEMMA SettledYields ==
    ASSUME NEW m \in Machines, NEW n \in Settled(m)
    PROVE  /\ n \in Machines /\ n.owner = m.owner
           /\ ~scenario.quick /\ Bare(m) => Bare(n) /\ n.hook = "No"
  BY DEF Settled, Machines, Bare

\* The request of connection c, under the lock of PRIVACY_MODE: another owner
\* stays, c is the owner exactly when the answer says so.
LEMMA TurnOnYields ==
    ASSUME Machine \in Machines, NEW c \in Conns, NEW i \in Impls,
           NEW o \in turn_on_privacy_sync(c, i)
    PROVE  /\ o.res \in {"True", "False", "Err"} /\ o.m \in Machines
           /\ o.m.owner \in {mode.owner, c, Nobody}
           /\ mode.owner \notin {c, Nobody} => o.m.owner = mode.owner
           /\ /\ ~scenario.fails /\ ~scenario.quick
              /\ Bare(Machine) \/ Whole(Machine)
              => Bare(o.m) \/ Whole(o.m)
<1>1. Machine.owner = mode.owner /\ Machine.impl = mode.impl
  BY DEF Machine
<1>2. CASE o.m = Machine /\ o.res \in {"True", "Err"}
  BY <1>1, <1>2
<1>3. CASE check_on_conn_id(c) \in {"True", "False"} /\
           \E r \in Machines : \E m \in Settled(r) :
              /\ o \in Ons(m, c)
              /\ r.owner = Nobody
              /\ ~scenario.fails /\ (Bare(Machine) \/ Whole(Machine)) => Bare(r)
  <2>0. PICK r \in Machines : \E m \in Settled(r) :
              /\ o \in Ons(m, c)
              /\ r.owner = Nobody
              /\ ~scenario.fails /\ (Bare(Machine) \/ Whole(Machine)) => Bare(r)
    BY <1>3
  <2>1. PICK m \in Settled(r) :
              /\ o \in Ons(m, c)
              /\ r.owner = Nobody
              /\ ~scenario.fails /\ (Bare(Machine) \/ Whole(Machine)) => Bare(r)
    BY <2>0
  <2>2. m \in Machines /\ m.owner = Nobody
        /\ (~scenario.quick /\ Bare(r) => Bare(m) /\ m.hook = "No")
    BY <2>1, SettledYields
  <2>3. mode.owner \in {c, Nobody}
    BY <1>3 DEF check_on_conn_id
  <2> QED
    BY <2>1, <2>2, <2>3, OnsYield
<1>4. CASE check_on_conn_id(c) = "Err" \/ (check_on_conn_id(c) = "True" /\ mode.impl = i)
  <2>1. o = [res |-> check_on_conn_id(c), m |-> Machine]
    BY <1>4 DEF turn_on_privacy_sync
  <2> QED
    BY <2>1, <1>2, <1>4
<1>5. CASE ~(check_on_conn_id(c) = "Err" \/ (check_on_conn_id(c) = "True" /\ mode.impl = i))
  <2>1. check_on_conn_id(c) = "False" \/ (check_on_conn_id(c) = "True" /\ mode.impl # i)
    BY <1>5 DEF check_on_conn_id
  <2>2. PICK r \in IF mode.impl = i THEN {Machine} ELSE Replaced(Machine, i) :
            \E m \in Settled(r) : o \in Ons(m, c)
    BY <1>5 DEF turn_on_privacy_sync
  <2>3. CASE mode.impl = i
    <3>1. r = Machine /\ Machine.owner = Nobody
      BY <2>1, <2>2, <2>3, <1>1 DEF check_on_conn_id
    <3>2. ~Whole(Machine)
      BY <3>1 DEF Whole
    <3> QED
      BY <3>1, <3>2, <2>1, <2>2, <1>3
  <2>4. CASE mode.impl # i
    <3>1. r \in Machines /\ r.owner = Nobody /\ (~scenario.fails => Bare(r))
      BY <2>2, <2>4, ReplacedYields
    <3> QED
      BY <3>1, <2>1, <2>2, <1>3
  <2> QED
    BY <2>3, <2>4
<1> QED
  BY <1>4, <1>5

\* Turning off with an id, under the lock: another owner stays, and where no
\* call fails the id is not the owner afterwards.
LEMMA TurnOffYields ==
    ASSUME Machine \in Machines, NEW id \in Owners, NEW o \in turn_off_privacy(id)
    PROVE  /\ o.ok \in BOOLEAN /\ o.m \in Machines
           /\ o.m.owner \in {mode.owner, Nobody}
           /\ id # Nobody /\ mode.owner \notin {id, Nobody} => o.m.owner = mode.owner
           /\ ~scenario.fails /\ id # Nobody => o.m.owner # id
           /\ /\ ~scenario.fails
              /\ Bare(Machine) \/ Whole(Machine)
              => Bare(o.m) \/ Whole(o.m)
<1>1. Machine.owner = mode.owner
  BY DEF Machine
<1>2. CASE check_off_conn_id(id)
  <2>1. o \in Offs(Machine)
    BY <1>2 DEF turn_off_privacy
  <2>2. /\ o.ok \in BOOLEAN /\ o.m \in Machines
        /\ o.m.owner \in {Machine.owner, Nobody}
        /\ ~scenario.fails => Bare(o.m)
    BY <2>1, OffsYield
  <2> QED
    BY <2>2, <1>1, <1>2 DEF check_off_conn_id, Bare
<1>3. CASE ~check_off_conn_id(id)
  <2>1. o.ok = FALSE /\ o.m = Machine
    BY <1>3 DEF turn_off_privacy
  <2> QED
    BY ZenonT(60), <2>1, <1>1, <1>3 DEF check_off_conn_id
<1> QED
  BY <1>2, <1>3

-----------------------------------------------------------------------------
(* The steps. *)

Neat == Bare(Machine) \/ Whole(Machine)

MachineTypeOK ==
  /\ mode \in [impl : Impls, owner : Owners]
  /\ covered \in BOOLEAN
  /\ hook \in {"No", "On", "Exiting"}

LEMMA MachineTypes ==
    ASSUME MachineTypeOK PROVE Machine \in Machines
  BY DEF MachineTypeOK, Machine, Machines

LEMMA BecomesYields ==
    ASSUME NEW m \in Machines, Becomes(m)
    PROVE  /\ MachineTypeOK' /\ Machine' = m /\ mode'.owner = m.owner
           /\ Bare(m) \/ Whole(m) => Neat'
<1>1. mode' = [impl |-> m.impl, owner |-> m.owner] /\ covered' = m.covered /\ hook' = m.hook
  BY DEF Becomes
<1>2. MachineTypeOK'
  BY <1>1 DEF Machines, MachineTypeOK
<1>3. Machine' = m
  BY <1>1 DEF Machine, Machines
<1> QED
  BY <1>1, <1>2, <1>3 DEF Neat, Bare, Whole

\* Whatever a step does to the machine it does by one of the operations above,
\* an exchange of the implementation, or the end of the hook thread.
LEMMA MachineSteps ==
    ASSUME TypeOK, Next
    PROVE  \/ UNCHANGED <<mode, covered, hook>>
           \/ \E id \in Owners : \E o \in turn_off_privacy(id) : Becomes(o.m)
           \/ \E c \in Conns, i \in Impls : \E o \in turn_on_privacy_sync(c, i) : Becomes(o.m)
           \/ \E i \in Impls : switch(i)
           \/ HookExits
<1>1. ASSUME NEW c \in Conns, NEW i \in Impls, turn_on_privacy(c, i)
      PROVE  \/ UNCHANGED <<mode, covered, hook>>
             \/ \E o \in turn_on_privacy_sync(c, i) : Becomes(o.m)
  BY ZenonT(60), <1>1 DEF turn_on_privacy
<1>2. ASSUME NEW c \in Conns, TurnOff(c) \/ Revoke(c) \/ Leave(c)
      PROVE  \E o \in turn_off_privacy(c) : Becomes(o.m)
  BY <1>2 DEF TurnOff, Revoke, Leave, OwnId
<1>3. ASSUME NEW c \in Conns, reset_all(c)
      PROVE  \E o \in turn_off_privacy(Nobody) : Becomes(o.m)
  BY <1>3 DEF reset_all
<1>4. ASSUME CtrlP PROVE \E o \in turn_off_privacy(Nobody) : Becomes(o.m)
  BY <1>4 DEF CtrlP
<1>5. ASSUME NEW w \in workers, WorkerRuns(w)
      PROVE  /\ w.conn \in Conns /\ w.impl \in Impls
             /\ \E o \in turn_on_privacy_sync(w.conn, w.impl) : Becomes(o.m)
  BY <1>5 DEF WorkerRuns, TypeOK
<1>6. ASSUME NEW c \in Conns,
             \/ check_privacy_mode_on(c) \/ Authorize(c) \/ Timeout(c) \/ AskOff(c)
             \/ SwitchPermission(c) \/ Disconnect(c) \/ Expel(c) \/ Failed(c)
             \/ Validated(c) \/ Invalid(c) \/ LoopExited(c) \/ DropAuthed(c)
      PROVE  UNCHANGED <<mode, covered, hook>>
  BY <1>6 DEF check_privacy_mode_on, Authorize, Timeout, AskOff, SwitchPermission, Disconnect,
              Expel, Failed, Validated, Invalid, LoopExited, DropAuthed
<1>7. Nobody \in Owners /\ Conns \subseteq Owners
  BY DEF Owners
<1> QED
  BY <1>1, <1>2, <1>3, <1>4, <1>5, <1>6, <1>7 DEF Next, Handlers

\* Exchanging the implementation (switch) and the end of the hook thread.
LEMMA OtherYields ==
    ASSUME MachineTypeOK, (\E i \in Impls : switch(i)) \/ HookExits
    PROVE  /\ MachineTypeOK' /\ mode'.owner \in {mode.owner, Nobody}
           /\ ~scenario.fails /\ Neat => Neat'
<1>1. Machine \in Machines /\ Machine.owner = mode.owner
  BY MachineTypes DEF Machine
<1>2. ASSUME NEW i \in Impls, switch(i)
      PROVE  /\ MachineTypeOK' /\ mode'.owner = Nobody
             /\ ~scenario.fails /\ Neat => Neat'
  <2>1. PICK n \in (IF mode.owner = Nobody THEN {Machine} ELSE {o.m : o \in Offs(Machine)}) :
            Becomes([n EXCEPT !.impl = i, !.owner = Nobody])
    BY ZenonT(60), <1>2 DEF switch
  <2>2. n \in Machines /\ (~scenario.fails /\ Neat => Bare(n))
    <3>1. CASE mode.owner = Nobody
      BY <3>1, <2>1, <1>1 DEF Neat, Whole
    <3>2. CASE mode.owner # Nobody
      BY <3>2, <2>1, <1>1, OffsYield
    <3> QED
      BY <3>1, <3>2
  <2> DEFINE k == [n EXCEPT !.impl = i, !.owner = Nobody]
  <2>3. k \in Machines /\ k.owner = Nobody /\ (Bare(n) => Bare(k))
    BY ZenonT(60), <2>2 DEF Machines, Owners, Bare
  <2> HIDE DEF k
  <2>4. Becomes(k)
    BY <2>1 DEF k
  <2> QED
    BY SMTT(60), <2>2, <2>3, <2>4, BecomesYields
<1>3. ASSUME HookExits
      PROVE  /\ MachineTypeOK' /\ mode'.owner = mode.owner
             /\ Neat => Neat'
  BY <1>3, <1>1 DEF HookExits, MachineTypeOK, Neat, Bare, Whole, Machine
<1> QED
  BY <1>2, <1>3

\* No step leaves the machine half on, unless a call fails or the hook thread
\* of the last time is still there.
LEMMA MachineStep ==
    ASSUME TypeOK, Next
    PROVE  /\ MachineTypeOK'
           /\ ~scenario.fails /\ ~scenario.quick /\ Neat => Neat'
<1>1. MachineTypeOK /\ Machine \in Machines
  BY MachineTypes DEF TypeOK, MachineTypeOK, Owners
<1>2. CASE UNCHANGED <<mode, covered, hook>>
  BY <1>1, <1>2 DEF MachineTypeOK, Neat, Machine, Bare, Whole
<1>3. ASSUME NEW id \in Owners, NEW o \in turn_off_privacy(id), Becomes(o.m)
      PROVE  MachineTypeOK' /\ (~scenario.fails /\ Neat => Neat')
  BY <1>1, <1>3, TurnOffYields, BecomesYields DEF Neat
<1>4. ASSUME NEW c \in Conns, NEW i \in Impls, NEW o \in turn_on_privacy_sync(c, i),
             Becomes(o.m)
      PROVE  MachineTypeOK' /\ (~scenario.fails /\ ~scenario.quick /\ Neat => Neat')
  BY <1>1, <1>4, TurnOnYields, BecomesYields DEF Neat
<1> QED
  BY <1>1, <1>2, <1>3, <1>4, MachineSteps, OtherYields

-----------------------------------------------------------------------------
(* The connections. *)

ConnTypeOK ==
  /\ conn \in [Conns -> [at : At, permitted : BOOLEAN, told : BOOLEAN,
                         latecomer : BOOLEAN, asks : 0..scenario.asks]]
  /\ workers \subseteq [conn : Conns, impl : Impls, ask : 1..scenario.asks]
  /\ closing \subseteq Conns

ConnRecords == [at : At, permitted : BOOLEAN, told : BOOLEAN,
                latecomer : BOOLEAN, asks : 0..scenario.asks]

LEMMA ConnTypes ==
    ASSUME conn \in [Conns -> ConnRecords], NEW c \in Conns, NEW r \in ConnRecords,
           conn' = [conn EXCEPT ![c] = r]
    PROVE  conn' \in [Conns -> ConnRecords]
  OBVIOUS

LEMMA ConnStep ==
    ASSUME TypeOK, Next, UNCHANGED scenario
    PROVE  ConnTypeOK'
<1> USE DEF ConnTypeOK
<1>0. /\ ConnTypeOK /\ scenario.asks \in Nat /\ Machine \in Machines
      /\ \A c \in Conns : c \in Owners
  BY ScenariosAssumption, MachineTypes DEF TypeOK, MachineTypeOK, Owners
<1>1. ASSUME NEW c \in Conns,
             \/ check_privacy_mode_on(c) \/ Timeout(c) \/ AskOff(c)
             \/ Disconnect(c) \/ Expel(c)
      PROVE  ConnTypeOK'
  BY <1>0, <1>1 DEF check_privacy_mode_on, Timeout, AskOff, Disconnect, Expel, Goes, At, Authed
<1>10. ASSUME NEW c \in Conns, SwitchPermission(c)
       PROVE  ConnTypeOK'
  <2>1. \/ conn' = [conn EXCEPT ![c] = [conn[c] EXCEPT !.at = "Revoking"]]
        \/ conn' = [conn EXCEPT ![c] = [conn[c] EXCEPT !.permitted = ~conn[c].permitted]]
    BY <1>10 DEF SwitchPermission, Goes
  <2>2. UNCHANGED <<workers, closing>>
    BY <1>10 DEF SwitchPermission
  <2>3. conn[c] \in ConnRecords
    BY <1>0 DEF ConnRecords
  <2>4. /\ [conn[c] EXCEPT !.at = "Revoking"] \in ConnRecords
        /\ [conn[c] EXCEPT !.permitted = ~conn[c].permitted] \in ConnRecords
    BY ZenonT(60), <2>3 DEF ConnRecords, At, Authed
  <2> QED
    BY <1>0, <2>1, <2>2, <2>4, ConnTypes DEF ConnRecords
<1>9. ASSUME NEW c \in Conns, Authorize(c)
      PROVE  ConnTypeOK'
  <2>1. PICK b \in BOOLEAN : conn' = [conn EXCEPT ![c].at = "Running", ![c].latecomer = b]
    BY ZenonT(60), <1>9 DEF Authorize, is_in_privacy_mode
  <2>2. UNCHANGED <<workers, closing>>
    BY <1>9 DEF Authorize
  <2>3. conn[c] \in ConnRecords
    BY <1>0 DEF ConnRecords
  <2>4. [conn[c] EXCEPT !.at = "Running", !.latecomer = b] \in ConnRecords
    BY ZenonT(60), <2>3 DEF ConnRecords, At, Authed
  <2>5. conn' = [conn EXCEPT ![c] = [conn[c] EXCEPT !.at = "Running", !.latecomer = b]]
    BY ZenonT(60), <2>1
  <2> QED
    BY <1>0, <2>2, <2>4, <2>5, ConnTypes DEF ConnRecords
<1>2. ASSUME NEW c \in Conns,
             Failed(c) \/ Validated(c) \/ Invalid(c) \/ LoopExited(c) \/ DropAuthed(c)
      PROVE  ConnTypeOK'
  BY <1>0, <1>2 DEF Failed, Validated, Invalid, LoopExited, DropAuthed, Goes, At, Authed,
                    close_other_remote_connections_for_privacy, is_in_privacy_mode
<1>3. ASSUME NEW c \in Conns, Leave(c) \/ reset_all(c)
      PROVE  ConnTypeOK'
  BY SMTT(60), <1>0, <1>3 DEF Leave, reset_all, Goes, At, Authed
<1>4. ASSUME NEW c \in Conns, TurnOff(c) \/ Revoke(c)
      PROVE  ConnTypeOK'
  <2>1. PICK o \in turn_off_privacy(c) :
            \/ conn' = [conn EXCEPT ![c].at = "Running", ![c].told = @ /\ ~o.ok]
            \/ conn' = [conn EXCEPT ![c].at = "Running", ![c].permitted = ~o.ok,
                                    ![c].told = @ /\ ~o.ok]
    BY ZenonT(60), <1>4 DEF TurnOff, Revoke, OwnId
  <2>2. o.ok \in BOOLEAN
    BY SMTT(60), <1>0, TurnOffYields
  <2>3. UNCHANGED <<workers, closing>>
    BY ZenonT(60), <1>4 DEF TurnOff, Revoke
  <2> QED
    BY <1>0, <2>1, <2>2, <2>3 DEF At, Authed
<1>5. ASSUME NEW res \in {"True", "False", "Err"}
      PROVE  After(res) \in {"Holding", "Running", "Failed"}
  BY DEF After
<1>6. ASSUME NEW c \in Conns, NEW i \in Impls, turn_on_privacy(c, i)
      PROVE  ConnTypeOK'
  <2>1. CASE is_async_privacy_mode
    BY <1>0, <1>6, <2>1 DEF turn_on_privacy, At, Authed
  <2>2. CASE ~is_async_privacy_mode
    <3>1. PICK o \in turn_on_privacy_sync(c, i) :
              conn' = [conn EXCEPT ![c].at = After(o.res), ![c].asks = @ + 1]
      BY ZenonT(60), <1>6, <2>2 DEF turn_on_privacy
    <3>2. After(o.res) \in At
      BY <1>0, <1>5, TurnOnYields DEF At, Authed
    <3>3. conn[c].asks + 1 \in 0..scenario.asks
      BY <1>0, <1>6 DEF turn_on_privacy
    <3>4. UNCHANGED <<workers, closing>>
      BY <1>6, <2>2 DEF turn_on_privacy
    <3> QED
      BY <1>0, <3>1, <3>2, <3>3, <3>4
  <2> QED
    BY <2>1, <2>2
<1>7. ASSUME NEW w \in workers, WorkerRuns(w)
      PROVE  ConnTypeOK'
  <2>1. w.conn \in Conns /\ w.impl \in Impls
    BY <1>0
  <2>2. PICK o \in turn_on_privacy_sync(w.conn, w.impl) :
            Goes(w.conn, After(o.res)) \/ UNCHANGED conn
    BY <1>7 DEF WorkerRuns
  <2>3. After(o.res) \in At
    BY <1>0, <1>5, <2>1, TurnOnYields DEF At, Authed
  <2> QED
    BY <1>0, <1>7, <2>1, <2>2, <2>3 DEF WorkerRuns, Goes
<1>8. ASSUME CtrlP \/ (\E i \in Impls : switch(i)) \/ HookExits
      PROVE  ConnTypeOK'
  BY ZenonT(60), <1>0, <1>8 DEF CtrlP, switch, HookExits
<1> QED
  BY <1>1, <1>2, <1>3, <1>4, <1>6, <1>7, <1>8, <1>9, <1>10 DEF Next, Handlers

LEMMA PrivacyInit ==
    ASSUME Init PROVE TypeOK /\ Neat
<1>1. TypeOK
  <2>1. scenario \in Scenarios /\ 0 \in 0..scenario.asks /\ "Out" \in At
    BY ScenariosAssumption DEF Init, At
  <2>2. conn \in [Conns -> [at : At, permitted : BOOLEAN, told : BOOLEAN,
                           latecomer : BOOLEAN, asks : 0..scenario.asks]]
    BY <2>1 DEF Init
  <2>3. mode \in [impl : Impls, owner : Conns \cup {Nobody}]
    BY DEF Init
  <2> QED
    BY ZenonT(60), <2>1, <2>2, <2>3 DEF Init, TypeOK
<1>2. Neat
  BY DEF Init, Neat, Bare, Machine
<1> QED
  BY <1>1, <1>2

LEMMA TypeStep ==
    ASSUME TypeOK, [Next /\ UNCHANGED scenario]_<<vars, scenario>>
    PROVE  TypeOK'
<1>1. CASE Next /\ UNCHANGED scenario
  <2>1. MachineTypeOK' /\ ConnTypeOK' /\ scenario' \in Scenarios
    BY <1>1, MachineStep, ConnStep DEF TypeOK
  <2> QED
    BY <2>1 DEF MachineTypeOK, ConnTypeOK, TypeOK, Owners
<1>2. CASE UNCHANGED <<vars, scenario>>
  BY <1>2 DEF vars, TypeOK
<1> QED
  BY <1>1, <1>2

\* Every reachable state has its type: a step of a connection, of a thread or
\* of the local user leaves one of the two implementations and an owner that
\* is a connection or nobody.
THEOREM PrivacyTypeOK == Spec => []TypeOK
<1>1. Init => TypeOK
  BY PrivacyInit
<1>2. TypeOK /\ [Next /\ UNCHANGED scenario]_<<vars, scenario>> => TypeOK'
  BY TypeStep
<1> QED
  BY <1>1, <1>2, PTL DEF Spec

\* Owner, screen and input hook go together, for any number of connections:
\* Neat, which says it of the whole machine, is inductive where no call fails
\* and no hook thread lingers.
THEOREM PrivacyAllOrNothing == Spec => []AllOrNothing
<1> DEFINE Inv == TypeOK /\ (~scenario.fails /\ ~scenario.quick => Neat)
<1>1. Init => Inv
  BY PrivacyInit
<1>2. Inv /\ [Next /\ UNCHANGED scenario]_<<vars, scenario>> => Inv'
  <2> SUFFICES ASSUME Inv, [Next /\ UNCHANGED scenario]_<<vars, scenario>>
               PROVE  Inv'
    OBVIOUS
  <2>1. TypeOK'
    BY TypeStep
  <2>2. CASE Next /\ UNCHANGED scenario
    <3>1. ~scenario.fails /\ ~scenario.quick /\ Neat => Neat'
      BY <2>2, MachineStep
    <3> QED
      BY <2>1, <2>2, <3>1
  <2>3. CASE UNCHANGED <<vars, scenario>>
    <3>1. Neat => Neat'
      BY <2>3 DEF vars, Neat, Bare, Whole, Machine
    <3> QED
      BY <2>1, <2>3, <3>1
  <2> QED
    BY <2>2, <2>3
<1>3. Inv => AllOrNothing
  <2>1. TypeOK /\ Neat => (mode.owner # Nobody) = covered /\ (mode.owner # Nobody) = (hook = "On")
    BY DEF TypeOK, Neat, Bare, Whole, Machine
  <2> QED
    BY <2>1 DEF AllOrNothing
<1> QED
  BY <1>1, <1>2, <1>3, PTL DEF Spec

-----------------------------------------------------------------------------
(* Whose step it is. *)

Only(c) == \A d \in Conns \ {c} : conn'[d] = conn[d]

Quiet(c) ==
  \/ check_privacy_mode_on(c) \/ Authorize(c) \/ AskOff(c) \/ SwitchPermission(c)
  \/ Disconnect(c) \/ Expel(c) \/ Failed(c) \/ Validated(c) \/ Invalid(c)
  \/ LoopExited(c) \/ DropAuthed(c)

\* What is common to the steps of a connection that leave the machine alone.
LEMMA QuietSteps ==
    ASSUME TypeOK, NEW c \in Conns, Quiet(c)
    PROVE  conn[c].at # "Asking" /\ Only(c) /\ UNCHANGED <<mode, workers>>
<1>1. ASSUME check_privacy_mode_on(c) \/ AskOff(c) \/ SwitchPermission(c) \/ Disconnect(c)
             \/ Invalid(c) \/ LoopExited(c)
      PROVE  conn[c].at # "Asking" /\ Only(c) /\ UNCHANGED <<mode, workers>>
  BY <1>1 DEF TypeOK, Only, check_privacy_mode_on, AskOff, SwitchPermission, Disconnect,
              Invalid, LoopExited, Goes
<1>2. ASSUME Authorize(c) \/ Expel(c) \/ Failed(c) \/ Validated(c) \/ DropAuthed(c)
      PROVE  conn[c].at # "Asking" /\ Only(c) /\ UNCHANGED <<mode, workers>>
  BY <1>2 DEF TypeOK, Only, Authorize, Expel, Failed, Validated, DropAuthed, Goes
<1> QED
  BY <1>1, <1>2 DEF Quiet

\* The steps that turn off: what they call and with which id.
LEMMA OffSteps ==
    ASSUME TypeOK, NEW c \in Conns, TurnOff(c) \/ Revoke(c) \/ Leave(c)
    PROVE  /\ conn[c].at \notin {"Asking", "Resetting"} /\ Only(c) /\ UNCHANGED workers
           /\ mode'.owner \in {mode.owner, Nobody}
           /\ mode.owner \notin {c, Nobody} => mode'.owner = mode.owner
           /\ ~scenario.fails => mode'.owner # c
<1>1. Machine \in Machines /\ c \in Owners /\ c # Nobody
  BY ZenonT(60), MachineTypes, NobodyAssumption DEF TypeOK, MachineTypeOK, Owners
<1>2. PICK o \in turn_off_privacy(c) : Becomes(o.m)
  BY ZenonT(60) DEF TurnOff, Revoke, Leave, OwnId
<1>3. o.m \in Machines /\ mode'.owner = o.m.owner
  BY SMTT(60), <1>1, <1>2, TurnOffYields, BecomesYields
<1>4. conn[c].at \notin {"Asking", "Resetting"} /\ Only(c) /\ UNCHANGED workers
  BY ZenonT(60) DEF TypeOK, TurnOff, Revoke, Leave, Goes, Only
<1> QED
  BY <1>1, <1>3, <1>4, TurnOffYields

\* The two steps that turn off with no id.
LEMMA ResetSteps ==
    ASSUME TypeOK, CtrlP \/ \E c \in Conns : reset_all(c)
    PROVE  mode'.owner \in {mode.owner, Nobody}
<1>1. Machine \in Machines /\ Nobody \in Owners
  BY MachineTypes DEF TypeOK, MachineTypeOK, Owners
<1>2. PICK o \in turn_off_privacy(Nobody) : Becomes(o.m)
  BY DEF CtrlP, reset_all
<1>3. o.m \in Machines /\ mode'.owner = o.m.owner
  BY <1>1, <1>2, TurnOffYields, BecomesYields
<1> QED
  BY <1>1, <1>3, TurnOffYields

\* The steps that turn on, in the handler or in the thread.
LEMMA OnSteps ==
    ASSUME TypeOK, NEW c \in Conns, NEW i \in Impls, NEW o \in turn_on_privacy_sync(c, i),
           Becomes(o.m)
    PROVE  /\ mode'.owner \in {mode.owner, c, Nobody}
           /\ mode.owner \notin {c, Nobody} => mode'.owner = mode.owner
           /\ After(o.res) \in {"Holding", "Running", "Failed"}
<1>1. Machine \in Machines
  BY MachineTypes DEF TypeOK, MachineTypeOK, Owners
<1>2. o.m \in Machines /\ o.res \in {"True", "False", "Err"}
  BY <1>1, TurnOnYields
<1>3. mode'.owner = o.m.owner
  BY <1>2, BecomesYields
<1>4. After(o.res) \in {"Holding", "Running", "Failed"}
  BY SMTT(60), <1>2 DEF After
<1> QED
  BY <1>1, <1>3, <1>4, TurnOnYields

\* A step of a connection, or of a thread it has spawned, keeps another owner.
LEMMA StepOf ==
    ASSUME TypeOK, Next
    PROVE  \/ UNCHANGED <<conn, workers>>
           \/ \E e \in Conns :
                /\ Only(e)
                /\ \A w \in workers \ workers' : w.conn = e
                /\ mode.owner \notin {e, Nobody} /\ conn[e].at # "Resetting"
                     => mode'.owner = mode.owner
<1>1. ASSUME NEW c \in Conns, Quiet(c)
      PROVE  Only(c) /\ UNCHANGED <<mode, workers>>
  BY <1>1, QuietSteps
<1>2. ASSUME NEW c \in Conns, TurnOff(c) \/ Revoke(c) \/ Leave(c)
      PROVE  /\ Only(c) /\ UNCHANGED workers
             /\ mode.owner \notin {c, Nobody} => mode'.owner = mode.owner
  BY <1>2, OffSteps
<1>3. ASSUME NEW c \in Conns, reset_all(c)
      PROVE  Only(c) /\ UNCHANGED workers /\ conn[c].at = "Resetting"
  BY <1>3 DEF TypeOK, reset_all, Only, Goes
<1>4. ASSUME NEW c \in Conns, Timeout(c)
      PROVE  Only(c) /\ UNCHANGED <<mode, workers>>
  BY <1>4 DEF TypeOK, Timeout, Only, Goes
<1>5. ASSUME NEW c \in Conns, NEW i \in Impls, turn_on_privacy(c, i)
      PROVE  /\ Only(c) /\ workers \subseteq workers'
             /\ mode.owner \notin {c, Nobody} => mode'.owner = mode.owner
  <2>1. Only(c) /\ workers \subseteq workers'
    BY ZenonT(60), <1>5 DEF TypeOK, turn_on_privacy, Only
  <2>2. UNCHANGED mode \/ \E o \in turn_on_privacy_sync(c, i) : Becomes(o.m)
    BY ZenonT(60), <1>5 DEF turn_on_privacy
  <2> QED
    BY <2>1, <2>2, OnSteps
<1>6. ASSUME NEW w \in workers, WorkerRuns(w)
      PROVE  /\ w.conn \in Conns /\ Only(w.conn) /\ workers \ workers' = {w}
             /\ mode.owner \notin {w.conn, Nobody} => mode'.owner = mode.owner
  <2>1. w.conn \in Conns /\ w.impl \in Impls
    BY DEF TypeOK
  <2>2. workers \ workers' = {w}
    BY <1>6 DEF WorkerRuns
  <2>3. PICK o \in turn_on_privacy_sync(w.conn, w.impl) :
            /\ Becomes(o.m)
            /\ Goes(w.conn, After(o.res)) \/ UNCHANGED conn
    BY <1>6 DEF WorkerRuns
  <2>4. Only(w.conn)
    BY SMTT(60), <2>1, <2>3 DEF TypeOK, Only, Goes
  <2> QED
    BY <2>1, <2>2, <2>3, <2>4, OnSteps
<1>7. ASSUME CtrlP \/ (\E i \in Impls : switch(i)) \/ HookExits
      PROVE  UNCHANGED <<conn, workers>>
  BY ZenonT(60), <1>7 DEF CtrlP, switch, HookExits
<1> QED
  BY <1>1, <1>2, <1>3, <1>4, <1>5, <1>6, <1>7 DEF Next, Handlers, Quiet

\* Nobody takes privacy mode from its owner, for any number of connections:
\* check_on_conn_id refuses the request of another, and check_off_conn_id the
\* turning off in its error path, at its end or for its permission.
THEOREM PrivacyNeverTaken == Spec => NeverTaken
<1> DEFINE Kept ==
      \A c, d \in Conns :
        /\ c # d /\ mode.owner = c /\ conn[d].at # "Resetting"
        /\ conn'[d] # conn[d] \/ \E w \in workers \ workers' : w.conn = d
        => mode'.owner = c
<1>1. TypeOK /\ [Next /\ UNCHANGED scenario]_<<vars, scenario>> => [Kept]_vars
  <2> SUFFICES ASSUME TypeOK, Next PROVE Kept
    BY DEF vars
  <2> SUFFICES ASSUME NEW c \in Conns, NEW d \in Conns, c # d, mode.owner = c,
                      conn[d].at # "Resetting",
                      conn'[d] # conn[d] \/ \E w \in workers \ workers' : w.conn = d
               PROVE  mode'.owner = c
    OBVIOUS
  <2>1. c # Nobody
    BY NobodyAssumption
  <2> QED
    BY <2>1, StepOf DEF Only
<1> QED
  BY <1>1, PrivacyTypeOK, PTL DEF Spec, NeverTaken

\* A connection is told to close only for a privacy mode another one owns at
\* that moment, for any number of connections.
THEOREM PrivacyExpelledForOwner == Spec => ExpelledForOwner
<1> DEFINE Justified == \A d \in closing' \ closing : mode.owner \notin {d, Nobody}
<1>1. [Next /\ UNCHANGED scenario]_<<vars, scenario>> => [Justified]_vars
  <2> SUFFICES ASSUME Next PROVE Justified
    BY DEF vars
  <2>1. ASSUME NEW c \in Conns, Validated(c) PROVE Justified
    <3>1. closing' = close_other_remote_connections_for_privacy(c)
      BY SMTT(60), <2>1 DEF Validated
    <3> QED
      BY <3>1, NobodyAssumption DEF close_other_remote_connections_for_privacy
  <2>2. ASSUME NEW c \in Conns,
               \/ check_privacy_mode_on(c) \/ Authorize(c) \/ Timeout(c) \/ AskOff(c)
               \/ SwitchPermission(c) \/ Disconnect(c) \/ Expel(c) \/ Failed(c) \/ Invalid(c)
               \/ TurnOff(c) \/ Revoke(c) \/ LoopExited(c) \/ Leave(c) \/ DropAuthed(c)
               \/ reset_all(c) \/ \E i \in Impls : turn_on_privacy(c, i)
        PROVE  closing' \subseteq closing
    BY ZenonT(60), <2>2
       DEF check_privacy_mode_on, Authorize, Timeout, AskOff, SwitchPermission, Disconnect,
                Expel, Failed, Invalid, TurnOff, Revoke, LoopExited, Leave, DropAuthed,
                reset_all, turn_on_privacy
  <2>3. ASSUME (\E w \in workers : WorkerRuns(w)) \/ CtrlP \/ (\E i \in Impls : switch(i))
               \/ HookExits
        PROVE  closing' = closing
    BY ZenonT(60), <2>3 DEF WorkerRuns, CtrlP, switch, HookExits
  <2> QED
    BY <2>1, <2>2, <2>3 DEF Next, Handlers
<1> QED
  BY <1>1, PTL DEF Spec, ExpelledForOwner

-----------------------------------------------------------------------------
(* The owner answers. *)

Answers(c) == conn[c].permitted /\ conn[c].at \in Authed \ {"Removed"}

\* Where no wait is cut short, every thread is awaited by its connection,
\* which has no other and keeps its permission meanwhile.
Awaits ==
  /\ \A w \in workers : conn[w.conn].at = "Asking" /\ conn[w.conn].asks = w.ask
                       /\ conn[w.conn].permitted
  /\ \A v, w \in workers : v.conn = w.conn => v = w

Answered == \A c \in Conns : mode.owner = c => Answers(c)

\* A step of a connection that is not waiting does not touch the threads.
LEMMA AwaitsKept ==
    ASSUME TypeOK, Awaits, NEW c \in Conns, conn[c].at # "Asking", Only(c), UNCHANGED workers
    PROVE  Awaits'
<1>1. \A w \in workers : w.conn \in Conns /\ w.conn # c
  BY DEF TypeOK, Awaits
<1>2. \A w \in workers : conn'[w.conn] = conn[w.conn]
  BY <1>1 DEF Only
<1> QED
  BY <1>2 DEF Awaits

\* If only c moves and c answers when it is the owner, the owner answers.
LEMMA AnsweredKept ==
    ASSUME TypeOK, Answered, NEW c \in Conns, Only(c),
           mode'.owner \in {mode.owner, c, Nobody}, mode'.owner = c => Answers(c)'
    PROVE  Answered'
<1> SUFFICES ASSUME NEW d \in Conns, mode'.owner = d PROVE Answers(d)'
  BY DEF Answered
<1>1. CASE d = c
  BY <1>1
<1>2. CASE d # c
  <2>1. mode.owner = d
    BY <1>2, NobodyAssumption
  <2>2. Answers(d)
    BY <2>1 DEF Answered
  <2>3. conn'[d] = conn[d]
    BY <1>2 DEF Only
  <2> QED
    BY <2>2, <2>3 DEF Answers
<1> QED
  BY <1>1, <1>2

LEMMA QuietAnswers ==
    ASSUME TypeOK, Answered, NEW c \in Conns, Quiet(c), mode.owner = c
    PROVE  Answers(c)'
<1>1. Answers(c) /\ conn[c] \in [at : At, permitted : BOOLEAN, told : BOOLEAN,
                                 latecomer : BOOLEAN, asks : 0..scenario.asks]
  BY DEF Answered, TypeOK
<1>2. /\ ~check_privacy_mode_on(c) /\ ~Authorize(c) /\ ~DropAuthed(c)
  BY SMTT(60), <1>1 DEF Answers, Authed, check_privacy_mode_on, Authorize, DropAuthed
<1>3. ASSUME Quiet(c)
      PROVE  conn'[c].permitted = conn[c].permitted /\ conn'[c].at \in Authed \ {"Removed"}
  <2>1. CASE SwitchPermission(c)
    <3>1. conn[c].permitted /\ mode.owner = c
      BY <1>1 DEF Answers
    <3>2. Goes(c, "Revoking")
      BY <2>1, <3>1 DEF SwitchPermission
    <3> QED
      BY <1>1, <3>2 DEF Goes, Authed, TypeOK
  <2>2. CASE AskOff(c) \/ Disconnect(c) \/ Expel(c) \/ Failed(c) \/ Validated(c) \/ Invalid(c)
             \/ LoopExited(c)
    BY <1>1, <2>2 DEF AskOff, Disconnect, Expel, Failed, Validated, Invalid, LoopExited, Goes,
                      Authed, TypeOK
  <2> QED
    BY <1>2, <1>3, <2>1, <2>2 DEF Quiet
<1> QED
  BY ZenonT(60), <1>1, <1>3 DEF Answers

LEMMA AnswersStep ==
    ASSUME TypeOK, Awaits, Answered, ~scenario.fails, ~scenario.slow, Next
    PROVE  Awaits' /\ Answered'
<1>1. ASSUME NEW c \in Conns, Quiet(c) PROVE Awaits' /\ Answered'
  <2>1. conn[c].at # "Asking" /\ Only(c) /\ UNCHANGED <<mode, workers>>
    BY <1>1, QuietSteps
  <2>2. mode.owner = c => Answers(c)'
    BY <1>1, QuietAnswers
  <2> QED
    BY <2>1, <2>2, AwaitsKept, AnsweredKept
<1>2. ASSUME NEW c \in Conns, TurnOff(c) \/ Revoke(c) \/ Leave(c) PROVE Awaits' /\ Answered'
  <2>1. /\ conn[c].at # "Asking" /\ Only(c) /\ UNCHANGED workers
        /\ mode'.owner \in {mode.owner, Nobody} /\ mode'.owner # c
    BY <1>2, OffSteps
  <2> QED
    BY SMTT(60), <2>1, AwaitsKept, AnsweredKept
<1>3. ASSUME NEW c \in Conns, reset_all(c) PROVE Awaits' /\ Answered'
  <2>1. conn[c].at = "Resetting" /\ Only(c) /\ UNCHANGED workers
    BY <1>3 DEF TypeOK, reset_all, Only, Goes
  <2>2. mode'.owner \in {mode.owner, Nobody} /\ mode.owner # c
    BY <1>3, <2>1, ResetSteps DEF Answered, Answers, Authed
  <2>3. mode'.owner # c
    BY <2>2, NobodyAssumption
  <2> QED
    BY <2>1, <2>2, <2>3, AwaitsKept, AnsweredKept
<1>4. ASSUME NEW c \in Conns, NEW i \in Impls, turn_on_privacy(c, i), ~is_async_privacy_mode
      PROVE  Awaits' /\ Answered'
  <2>1. PICK o \in turn_on_privacy_sync(c, i) :
            /\ Becomes(o.m)
            /\ conn' = [conn EXCEPT ![c].at = After(o.res), ![c].asks = @ + 1]
    BY SMTT(60), <1>4 DEF turn_on_privacy
  <2>2. conn[c].at = "Running" /\ conn[c].permitted /\ UNCHANGED workers
    BY <1>4 DEF turn_on_privacy
  <2>3. /\ mode'.owner \in {mode.owner, c, Nobody}
        /\ After(o.res) \in {"Holding", "Running", "Failed"}
    BY <2>1, OnSteps
  <2>4. Only(c) /\ Answers(c)'
    BY <2>1, <2>2, <2>3 DEF TypeOK, Only, Answers, Authed
  <2> QED
    BY <2>2, <2>3, <2>4, AwaitsKept, AnsweredKept
<1>5. ASSUME NEW c \in Conns, NEW i \in Impls, turn_on_privacy(c, i), is_async_privacy_mode
      PROVE  Awaits' /\ Answered'
  <2> DEFINE new == [conn |-> c, impl |-> i, ask |-> conn[c].asks + 1]
  <2>1. /\ conn' = [conn EXCEPT ![c].at = "Asking", ![c].asks = @ + 1]
        /\ workers' = workers \cup {new} /\ UNCHANGED mode
        /\ conn[c].at = "Running" /\ conn[c].permitted
    BY <1>5 DEF turn_on_privacy
  <2>2. Only(c) /\ conn'[c].at = "Asking" /\ conn'[c].asks = conn[c].asks + 1
        /\ conn'[c].permitted = conn[c].permitted
    BY <2>1 DEF TypeOK, Only
  <2>3. \A w \in workers : w.conn \in Conns \ {c}
    BY <2>1 DEF TypeOK, Awaits
  <2>4. new.conn = c /\ new.ask = conn[c].asks + 1
    OBVIOUS
  <2> HIDE DEF new
  <2>5. Awaits'
    <3>1. ASSUME NEW w \in workers'
          PROVE  conn'[w.conn].at = "Asking" /\ conn'[w.conn].asks = w.ask
                 /\ conn'[w.conn].permitted
      <4>1. CASE w = new
        BY ZenonT(60), <4>1, <2>1, <2>2, <2>4
      <4>2. CASE w \in workers
        BY <4>2, <2>2, <2>3 DEF Awaits, Only
      <4> QED
        BY <4>1, <4>2, <2>1
    <3>2. ASSUME NEW v \in workers', NEW w \in workers', v.conn = w.conn PROVE v = w
      BY <3>2, <2>1, <2>3, <2>4 DEF Awaits
    <3> QED
      BY <3>1, <3>2 DEF Awaits
  <2>6. Answers(c)'
    BY ZenonT(60), <2>1, <2>2 DEF Answers, Authed
  <2> QED
    BY <2>1, <2>2, <2>5, <2>6, AnsweredKept
<1>6. ASSUME NEW w \in workers, WorkerRuns(w) PROVE Awaits' /\ Answered'
  <2>1. w.conn \in Conns /\ w.impl \in Impls /\ conn[w.conn].permitted /\ Awaited(w)
    BY DEF TypeOK, Awaits, Awaited
  <2>2. PICK o \in turn_on_privacy_sync(w.conn, w.impl) :
            Becomes(o.m) /\ conn' = [conn EXCEPT ![w.conn].at = After(o.res)]
    BY ZenonT(60), <1>6, <2>1 DEF WorkerRuns, Goes
  <2>3. workers' = workers \ {w}
    BY <1>6 DEF WorkerRuns
  <2>4. /\ mode'.owner \in {mode.owner, w.conn, Nobody}
        /\ After(o.res) \in {"Holding", "Running", "Failed"}
    BY <2>1, <2>2, OnSteps
  <2>5. Only(w.conn) /\ Answers(w.conn)'
    BY <2>1, <2>2, <2>4 DEF TypeOK, Only, Answers, Authed
  <2>6. \A v \in workers' : v \in workers /\ v.conn \in Conns \ {w.conn}
    BY <2>3 DEF TypeOK, Awaits
  <2>7. Awaits'
    BY <2>5, <2>6 DEF Awaits, Only
  <2> QED
    BY <2>1, <2>4, <2>5, <2>7, AnsweredKept
<1>7. ASSUME CtrlP \/ (\E i \in Impls : switch(i)) \/ HookExits PROVE Awaits' /\ Answered'
  <2>1. UNCHANGED <<conn, workers>>
    BY ZenonT(60), <1>7 DEF CtrlP, switch, HookExits
  <2>2. MachineTypeOK
    BY DEF TypeOK, MachineTypeOK, Owners
  <2>3. mode'.owner \in {mode.owner, Nobody}
    BY <1>7, <2>2, ResetSteps, OtherYields
  <2> QED
    BY <2>1, <2>3, NobodyAssumption DEF Awaits, Answered, Answers
<1>8. \A c \in Conns : ~Timeout(c)
  BY DEF Timeout
<1> QED
  BY <1>1, <1>2, <1>3, <1>4, <1>5, <1>6, <1>7, <1>8 DEF Next, Handlers, Quiet

\* Privacy mode always has an owner that answers for it, for any number of
\* connections, requests and switches of the permission: the permission is
\* withdrawn only once privacy mode is off, and a connection leaves the list
\* only after its own turning off.
THEOREM PrivacyOwnerAnswers == Spec => []OwnerAnswers
<1> DEFINE Inv == TypeOK /\ (~scenario.fails /\ ~scenario.slow => Awaits /\ Answered)
<1>1. Init => Inv
  <2>1. Init => Awaits /\ Answered
    BY NobodyAssumption DEF Init, Awaits, Answered
  <2> QED
    BY <2>1, PrivacyInit
<1>2. Inv /\ [Next /\ UNCHANGED scenario]_<<vars, scenario>> => Inv'
  <2> SUFFICES ASSUME Inv, [Next /\ UNCHANGED scenario]_<<vars, scenario>>
               PROVE  Inv'
    OBVIOUS
  <2>1. TypeOK'
    BY TypeStep
  <2>2. CASE Next /\ UNCHANGED scenario
    <3>1. ~scenario.fails /\ ~scenario.slow => Awaits' /\ Answered'
      BY <2>2, AnswersStep
    <3> QED
      BY <2>1, <2>2, <3>1
  <2>3. CASE UNCHANGED <<vars, scenario>>
    <3>1. Awaits /\ Answered => Awaits' /\ Answered'
      BY <2>3 DEF vars, Awaits, Answered, Answers
    <3> QED
      BY SMTT(60), <2>1, <2>3, <3>1
  <2> QED
    BY <2>2, <2>3
<1>3. Inv => OwnerAnswers
  <2>1. TypeOK /\ mode.owner # Nobody => mode.owner \in Conns
    BY DEF TypeOK
  <2> QED
    BY <2>1 DEF OwnerAnswers, Answered, Answers
<1> QED
  BY <1>1, <1>2, <1>3, PTL DEF Spec
=============================================================================
