---------------------------- MODULE PrivacyMode ----------------------------
(***************************************************************************)
(* Privacy mode of the controlled machine: one remote connection at a time *)
(* covers the physical screen and blocks the local input                   *)
(* (src/privacy_mode.rs and the implementations under src/privacy_mode/).  *)
(*                                                                         *)
(* PRIVACY_MODE holds the current implementation and, inside it, the id of *)
(* the owning connection.  Every operation holds its lock, so it is one    *)
(* step here; what a connection does with the answer is a later step.      *)
(* Connections ask, answer the permission switch of the local user, are    *)
(* closed for the privacy mode of another, and turn their own off when     *)
(* their loop ends (src/server/connection.rs).  Where the current          *)
(* implementation is asynchronous the turning on runs in a thread that the *)
(* connection awaits for 7.5 seconds at most, and that goes on after that. *)
(*                                                                         *)
(* Two implementations are modelled: "topmost" (a privacy window, used by  *)
(* both the magnifier and the exclude-from-capture mode) and "idd" (a      *)
(* virtual display takes the place of the physical ones).                  *)
(***************************************************************************)
EXTENDS Naturals, FiniteSets

CONSTANTS Conns,      \* remote connections, each logging in once
          Nobody,     \* INVALID_PRIVACY_MODE_CONN_ID
          Scenarios   \* what the surroundings may do, and the bound `asks'
                      \* on the requests to turn on, per connection

ASSUME NobodyAssumption == Nobody \notin Conns
ASSUME ScenariosAssumption == \A s \in Scenarios : s.asks \in Nat

VARIABLES
  scenario,  \* the surroundings: chosen once
  mode,      \* PRIVACY_MODE: the implementation and the owner it holds
  covered,   \* whether the physical screen is covered
  hook,      \* the thread that blocks local input: "No", "On" or "Exiting"
  conn,      \* per connection: where its loop is, its permission ...
  workers,   \* threads spawned by turn_on_privacy_async
  closing    \* connections with a Data::Close in rx_from_authed

vars == <<mode, covered, hook, conn, workers, closing>>

Impls == {"topmost", "idd"}

(***************************************************************************)
(* A connection is Out, has passed the login check, or serves requests     *)
(* (Running).  In the handlers of a request it may await its thread        *)
(* (Asking), validate the capturer (Holding), have an error at hand        *)
(* (Failed), or be about to call turn_off_privacy with its own id: for a   *)
(* request (Off), for a revoked permission (Revoking), or after its loop   *)
(* (Ended, then Leaving).  Removed, it still is in AUTHED_CONNS;           *)
(* Resetting, it has left that list as the last one.                       *)
(***************************************************************************)
Authed == {"Running", "Asking", "Holding", "Failed", "Off", "Revoking",
           "Ended", "Leaving", "Removed"}
At == Authed \cup {"Out", "Checked", "Resetting", "Gone"}

\* The machine, the connections and what is under way between them.
TypeOK ==
  /\ scenario \in Scenarios
  /\ mode \in [impl : Impls, owner : Conns \cup {Nobody}]
  /\ covered \in BOOLEAN
  /\ hook \in {"No", "On", "Exiting"}
  /\ conn \in [Conns -> [at : At, permitted : BOOLEAN, told : BOOLEAN,
                         latecomer : BOOLEAN, asks : 0..scenario.asks]]
  /\ workers \subseteq [conn : Conns, impl : Impls, ask : 1..scenario.asks]
  /\ closing \subseteq Conns

Init ==
  /\ scenario \in Scenarios
  /\ mode \in [impl : Impls, owner : {Nobody}]
  /\ covered = FALSE
  /\ hook = "No"
  /\ conn = [c \in Conns |-> [at |-> "Out", permitted |-> TRUE, told |-> FALSE,
                              latecomer |-> FALSE, asks |-> 0]]
  /\ workers = {}
  /\ closing = {}

is_in_privacy_mode == mode.owner # Nobody

\* The connection goes on at `at'.
Goes(c, at) == conn' = [conn EXCEPT ![c].at = at]

-----------------------------------------------------------------------------
(***************************************************************************)
(* The implementations.  A machine is what they change: the owner, the     *)
(* screen and the input hook; each operation yields the machines it may    *)
(* leave behind.                                                           *)
(***************************************************************************)
Machine == [impl |-> mode.impl, owner |-> mode.owner, covered |-> covered,
            hook |-> hook]

Becomes(m) ==
  /\ mode' = [impl |-> m.impl, owner |-> m.owner]
  /\ covered' = m.covered
  /\ hook' = m.hook

\* Mutant: the input hook stays.
UnhookForgotten(m) == m

\* unhook posts a message: the hook thread ends later.
unhook(m) == IF m.hook = "On" THEN [m EXCEPT !.hook = "Exiting"] ELSE m

Uncovered(m) == [m EXCEPT !.owner = Nobody, !.covered = FALSE]

(***************************************************************************)
(* turn_off_privacy of an implementation past its ownership check.  When   *)
(* the system lets it down it stops before or after the unhook, or, for    *)
(* the privacy window, ends the broker and with it the window.             *)
(***************************************************************************)
Offs(m) ==
  {[ok |-> TRUE, m |-> Uncovered(unhook(m))]} \cup
  (IF ~scenario.fails THEN {} ELSE
     {[ok |-> FALSE, m |-> m]} \cup
     (IF m.impl # "topmost" THEN {} ELSE
        {[ok |-> FALSE, m |-> unhook(m)],
         [ok |-> FALSE, m |-> Uncovered(unhook(m))]}))

\* Mutant: whoever asks may turn it off.
OffUnchecked(id) == TRUE

check_off_conn_id(id) == mode.owner \in {Nobody, id} \/ id = Nobody

turn_off_privacy(id) ==
  IF check_off_conn_id(id) THEN Offs(Machine)
                           ELSE {[ok |-> FALSE, m |-> Machine]}

\* clear, then the creator of the other implementation; the old one is
\* dropped, and if it still has an owner its Drop turns it off again.
Replaced(m, i) ==
  LET cleared == {o.m : o \in Offs(m)}
      dropped == UNION {IF n.owner = Nobody THEN {n} ELSE {o.m : o \in Offs(n)}
                         : n \in cleared}
  IN {[n EXCEPT !.impl = i, !.owner = Nobody] : n \in dropped}

\* TurnOnGuard, and the error paths of show_privacy_windows: a turning on
\* that fails half-way takes back what it has done.
Undone(m) == {o.m : o \in Offs(m)}

(***************************************************************************)
(* turn_on_privacy of an implementation that has no owner.  The privacy    *)
(* window gives up when the input cannot be hooked; the virtual display    *)
(* goes on without.  An earlier hook thread that has not gone by then      *)
(* makes hooking fail.                                                     *)
(***************************************************************************)
Settled(m) ==
  IF m.hook # "Exiting" THEN {m}
  ELSE {[m EXCEPT !.hook = "No"]} \cup (IF scenario.quick THEN {m} ELSE {})

Hooked(m) == [m EXCEPT !.hook = IF @ = "No" THEN "On" ELSE @]

Ons(m, c) ==
  LET on == [m EXCEPT !.owner = c, !.covered = TRUE]
      half == [m EXCEPT !.covered = TRUE]
  IN {[res |-> "Err", m |-> m]} \cup
     (IF m.impl = "topmost"
        THEN {[res |-> "False", m |-> m]} \cup
             (IF m.hook # "No" THEN {} ELSE
                {[res |-> "True", m |-> Hooked(on)]} \cup
                {[res |-> "Err", m |-> n] : n \in Undone(Hooked(half))})
        ELSE {[res |-> "True", m |-> Hooked(on)]} \cup
             (IF scenario.fails THEN {[res |-> "True", m |-> on]} ELSE {}) \cup
             {[res |-> "Err", m |-> n] : n \in Undone(half)})

check_on_conn_id(c) == IF mode.owner = c THEN "True" ELSE
                       IF mode.owner # Nobody THEN "Err" ELSE "False"

turn_on_privacy_sync(c, i) ==
  LET check == check_on_conn_id(c)
      ready == IF mode.impl = i THEN {Machine} ELSE Replaced(Machine, i)
  IN IF check = "Err" \/ (check = "True" /\ mode.impl = i)
       THEN {[res |-> check, m |-> Machine]}
       ELSE UNION {Ons(m, c) : m \in UNION {Settled(r) : r \in ready}}

is_async_privacy_mode == mode.impl = "idd"

-----------------------------------------------------------------------------
(***************************************************************************)
(* Logging in.  The check is made when the login request arrives; the      *)
(* password, the second factor or the local user's click authorise later.  *)
(***************************************************************************)
check_privacy_mode_on(c) ==
  /\ conn[c].at = "Out"
  /\ Goes(c, IF is_in_privacy_mode THEN "Gone" ELSE "Checked")
  /\ UNCHANGED <<mode, covered, hook, workers, closing>>

Authorize(c) ==
  /\ conn[c].at = "Checked"
  /\ conn' = [conn EXCEPT ![c].at = "Running", ![c].latecomer = is_in_privacy_mode]
  /\ UNCHANGED <<mode, covered, hook, workers, closing>>

-----------------------------------------------------------------------------
(***************************************************************************)
(* A request to turn privacy mode on.  With an asynchronous implementation *)
(* in place (not: asked for) a thread does it and the handler awaits it.   *)
(***************************************************************************)
After(res) == CASE res = "True" -> "Holding"
                [] res = "False" -> "Running"
                [] res = "Err" -> "Failed"

turn_on_privacy(c, i) ==
  /\ conn[c].at = "Running"
  /\ conn[c].asks < scenario.asks
  /\ conn[c].permitted
  /\ IF is_async_privacy_mode
       THEN /\ conn' = [conn EXCEPT ![c].at = "Asking", ![c].asks = @ + 1]
            /\ workers' = workers \cup
                  {[conn |-> c, impl |-> i, ask |-> conn[c].asks + 1]}
            /\ UNCHANGED <<mode, covered, hook>>
       ELSE /\ \E o \in turn_on_privacy_sync(c, i) :
                 /\ Becomes(o.m)
                 /\ conn' = [conn EXCEPT ![c].at = After(o.res), ![c].asks = @ + 1]
            /\ UNCHANGED workers
  /\ UNCHANGED closing

Awaited(w) == conn[w.conn].at = "Asking" /\ conn[w.conn].asks = w.ask

WorkerRuns(w) ==
  /\ workers' = workers \ {w}
  /\ \E o \in turn_on_privacy_sync(w.conn, w.impl) :
       /\ Becomes(o.m)
       /\ IF Awaited(w) THEN Goes(w.conn, After(o.res)) ELSE UNCHANGED conn
  /\ UNCHANGED closing

Timeout(c) ==
  /\ scenario.slow
  /\ conn[c].at = "Asking"
  /\ Goes(c, "Failed")
  /\ UNCHANGED <<mode, covered, hook, workers, closing>>

(***************************************************************************)
(* The request failed: whatever there is of privacy mode is turned off,    *)
(* with this connection's id.                                              *)
(***************************************************************************)
Failed(c) ==
  /\ conn[c].at = "Failed"
  /\ conn' = [conn EXCEPT ![c].at = IF is_in_privacy_mode THEN "Off" ELSE "Running",
                          ![c].told = FALSE]
  /\ UNCHANGED <<mode, covered, hook, workers, closing>>

(***************************************************************************)
(* It is on: the capturer is validated, which takes seconds and may fail   *)
(* for the privacy window, and then the other remote connections are       *)
(* closed, provided privacy mode still belongs to this one.                *)
(***************************************************************************)
\* Mutant: the owner is not looked at again.
CloseOthersUnchecked(c) == closing \cup {d \in Conns \ {c} : conn[d].at \in Authed}

close_other_remote_connections_for_privacy(c) ==
  IF mode.owner # c THEN closing
  ELSE closing \cup {d \in Conns \ {c} : conn[d].at \in Authed}

\* Mutant: the others are not closed.
ValidatedOnly(c) ==
  /\ conn[c].at = "Holding"
  /\ conn' = [conn EXCEPT ![c].at = "Running", ![c].told = TRUE]
  /\ UNCHANGED <<mode, covered, hook, workers, closing>>

Validated(c) ==
  /\ conn[c].at = "Holding"
  /\ conn' = [conn EXCEPT ![c].at = "Running", ![c].told = TRUE]
  /\ closing' = close_other_remote_connections_for_privacy(c)
  /\ UNCHANGED <<mode, covered, hook, workers>>

Invalid(c) ==
  /\ conn[c].at = "Holding"
  /\ mode.impl = "topmost"
  /\ Goes(c, "Off")
  /\ UNCHANGED <<mode, covered, hook, workers, closing>>

-----------------------------------------------------------------------------
(***************************************************************************)
(* Turning off: on request, when the permission is withdrawn, and at the   *)
(* end of the connection's loop, each with the connection's own id.        *)
(***************************************************************************)
AskOff(c) ==
  /\ conn[c].at = "Running"
  /\ Goes(c, "Off")
  /\ UNCHANGED <<mode, covered, hook, workers, closing>>

OwnId(c) == c

TurnOff(c) ==
  /\ conn[c].at = "Off"
  /\ \E o \in turn_off_privacy(OwnId(c)) :
       /\ Becomes(o.m)
       /\ conn' = [conn EXCEPT ![c].at = "Running", ![c].told = @ /\ ~o.ok]
  /\ UNCHANGED <<workers, closing>>

\* Mutant: the permission is withdrawn and privacy mode stays.
SwitchOnly(c) ==
  /\ conn[c].at = "Running"
  /\ conn' = [conn EXCEPT ![c].permitted = ~@]
  /\ UNCHANGED <<mode, covered, hook, workers, closing>>

SwitchPermission(c) ==
  /\ conn[c].at = "Running"
  /\ IF conn[c].permitted /\ mode.owner = c
       THEN Goes(c, "Revoking")
       ELSE conn' = [conn EXCEPT ![c].permitted = ~@]
  /\ UNCHANGED <<mode, covered, hook, workers, closing>>

Revoke(c) ==
  /\ conn[c].at = "Revoking"
  /\ \E o \in turn_off_privacy(OwnId(c)) :
       /\ Becomes(o.m)
       /\ conn' = [conn EXCEPT ![c].at = "Running", ![c].permitted = ~o.ok,
                               ![c].told = @ /\ ~o.ok]
  /\ UNCHANGED <<workers, closing>>

\* The loop ends: the peer is gone, or Data::Close is taken from the queue.
Disconnect(c) ==
  /\ conn[c].at = "Running"
  /\ Goes(c, "Ended")
  /\ UNCHANGED <<mode, covered, hook, workers, closing>>

Expel(c) ==
  /\ conn[c].at = "Running"
  /\ c \in closing
  /\ Goes(c, "Ended")
  /\ closing' = closing \ {c}
  /\ UNCHANGED <<mode, covered, hook, workers>>

LoopExited(c) ==
  /\ conn[c].at = "Ended"
  /\ Goes(c, IF mode.owner = c THEN "Leaving" ELSE "Removed")
  /\ UNCHANGED <<mode, covered, hook, workers, closing>>

Leave(c) ==
  /\ conn[c].at = "Leaving"
  /\ \E o \in turn_off_privacy(OwnId(c)) : Becomes(o.m)
  /\ Goes(c, "Removed")
  /\ UNCHANGED <<workers, closing>>

\* AuthedConnID is dropped; the last remote connection resets everything.
DropAuthed(c) ==
  /\ conn[c].at = "Removed"
  /\ Goes(c, IF \A d \in Conns \ {c} : conn[d].at \notin Authed
               THEN "Resetting" ELSE "Gone")
  /\ closing' = closing \ {c}
  /\ UNCHANGED <<mode, covered, hook, workers>>

reset_all(c) ==
  /\ conn[c].at = "Resetting"
  /\ \E o \in turn_off_privacy(Nobody) : Becomes(o.m)
  /\ Goes(c, "Gone")
  /\ UNCHANGED <<workers, closing>>

-----------------------------------------------------------------------------
(***************************************************************************)
(* The local user and the machine: Ctrl+P seen by the hook, another        *)
(* implementation chosen in the options, the hook thread taking its        *)
(* message.                                                                *)
(***************************************************************************)
CtrlP ==
  /\ scenario.user
  /\ hook = "On"
  /\ \E o \in turn_off_privacy(Nobody) : Becomes(o.m)
  /\ UNCHANGED <<conn, workers, closing>>

switch(i) ==
  /\ scenario.user
  /\ mode.impl # i
  /\ \E n \in (IF mode.owner = Nobody THEN {Machine} ELSE {o.m : o \in Offs(Machine)}) :
       Becomes([n EXCEPT !.impl = i, !.owner = Nobody])
  /\ UNCHANGED <<conn, workers, closing>>

HookExits ==
  /\ hook = "Exiting"
  /\ hook' = "No"
  /\ UNCHANGED <<mode, covered, conn, workers, closing>>

Handlers(c) ==
  \/ Failed(c) \/ Validated(c) \/ Invalid(c) \/ TurnOff(c) \/ Revoke(c)
  \/ LoopExited(c) \/ Leave(c) \/ DropAuthed(c) \/ reset_all(c)

Next ==
  \/ \E c \in Conns :
       \/ check_privacy_mode_on(c) \/ Authorize(c)
       \/ \E i \in Impls : turn_on_privacy(c, i)
       \/ Timeout(c) \/ AskOff(c) \/ SwitchPermission(c)
       \/ Disconnect(c) \/ Expel(c) \/ Handlers(c)
  \/ \E w \in workers : WorkerRuns(w)
  \/ CtrlP \/ (\E i \in Impls : switch(i)) \/ HookExits

Spec == Init /\ [][Next /\ UNCHANGED scenario]_<<vars, scenario>>

(***************************************************************************)
(* Fairness: a handler that has begun goes on, a spawned thread runs, and  *)
(* a Close in the queue is taken in the end: tokio's select! picks among   *)
(* the ready branches at random, so it cannot be passed over for ever.     *)
(***************************************************************************)
FairSpec ==
  /\ Spec
  /\ \A c \in Conns : WF_vars(Handlers(c)) /\ SF_vars(Expel(c))
  /\ WF_vars(\E w \in workers : WorkerRuns(w))

-----------------------------------------------------------------------------
(***************************************************************************)
(* The owner, the screen and the input go together: unless the system lets *)
(* a call fail, and the hook thread of the last time is still around when  *)
(* the next one hooks, the screen is covered and the local input blocked   *)
(* exactly while privacy mode has an owner.  A turning on that fails       *)
(* half-way, a switch of implementation and every turning off have to keep *)
(* this.                                                                   *)
(***************************************************************************)
AllOrNothing ==
  ~scenario.fails /\ ~scenario.quick =>
    (mode.owner # Nobody) = covered /\ (mode.owner # Nobody) = (hook = "On")

(***************************************************************************)
(* Privacy mode has an owner that answers for it: a connection whose loop  *)
(* runs, or has yet to come to the turning off after it, and that still    *)
(* has the permission ("permission looks disabled while privacy mode is    *)
(* still active" is what the switch avoids).  Excepted are calls that      *)
(* fail, and turnings on that outlive the wait for them.                   *)
(***************************************************************************)
OwnerAnswers ==
  ~scenario.fails /\ ~scenario.slow /\ mode.owner # Nobody =>
    LET c == conn[mode.owner] IN
      c.permitted /\ c.at \in Authed \ {"Removed"}

(***************************************************************************)
(* A connection never takes privacy mode from another: while c owns it, no *)
(* step of another connection, or of a thread it has spawned, changes the  *)
(* owner, whether its request fails, times out or comes from a connection  *)
(* that is leaving.  Only the reset after the last remote connection is    *)
(* meant to.                                                               *)
(***************************************************************************)
NeverTaken ==
  [][\A c, d \in Conns :
       /\ c # d /\ mode.owner = c /\ conn[d].at # "Resetting"
       /\ conn'[d] # conn[d] \/ \E w \in workers \ workers' : w.conn = d
       => mode'.owner = c]_vars

(***************************************************************************)
(* A connection is told to close only for a privacy mode that another one  *)
(* owns at that moment: the owner may have changed while the capturer was  *)
(* validated.                                                              *)
(***************************************************************************)
ExpelledForOwner ==
  [][\A d \in closing' \ closing : mode.owner \notin {d, Nobody}]_vars

(***************************************************************************)
(* Who was told that privacy mode is on ends up alone: while that          *)
(* connection remains the owner, every other remote connection that had    *)
(* been authorised before it was on goes away.                             *)
(***************************************************************************)
Alone ==
  \A c \in Conns : \A d \in Conns \ {c} :
    (mode.owner = c /\ conn[c].told /\ conn[d].at \in Authed /\ ~conn[d].latecomer)
      ~> (mode.owner # c \/ conn[d].at \notin Authed)
=============================================================================
