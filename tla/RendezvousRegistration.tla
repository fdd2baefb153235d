---------------------- MODULE RendezvousRegistration ----------------------
(***************************************************************************)
(* How the device makes itself known to its rendezvous servers             *)
(* (src/rendezvous_mediator.rs): start_all runs one UDP loop per           *)
(* configured server, joins them, and starts over.  A loop registers the   *)
(* device's public key until the server has confirmed it, then announces   *)
(* its id; the answers carry neither id nor key.  A server may find the id *)
(* taken (UUID_MISMATCH: the device takes a new one) or the device not     *)
(* deployed.  Messages are lost and overtake each other.                   *)
(*                                                                         *)
(* Time is left to choice: a timer may fire, an answer may be late, the    *)
(* back-off of a device that is not deployed may be over, and so many      *)
(* registrations may have gone unanswered that the socket is replaced.     *)
(*                                                                         *)
(* Confirmations are kept by host prefix; the servers here have different  *)
(* ones.  register_pk and register_peer are one step each, although the    *)
(* lock of SOLVING_PK_MISMATCH is let go before the message is sent and    *)
(* SENT_REGISTER_PK is set after it.                                       *)
(***************************************************************************)
EXTENDS Naturals, FiniteSets

CONSTANTS Hosts,       \* rendezvous servers
          None,
          Scenarios    \* what servers, network and operators do

ASSUME NoneAssumption == None \notin Hosts

VARIABLES
  scenario,
  me,           \* Config: id, pk, key_confirmed, keys_confirmed
  solving,      \* SOLVING_PK_MISMATCH: the host that asked for a new id
  sent_pk,      \* SENT_REGISTER_PK
  needs_deploy, \* NEEDS_DEPLOY
  backoff,      \* LAST_NOT_DEPLOYED_REGISTER: "None", "Recent" or "Old"
  options,      \* the options the user has set: the servers, stop-service
  main,         \* where start_all is
  servers,      \* the servers start_all has read
  should_exit,  \* SHOULD_EXIT
  loop,         \* per host: where start_udp is
  net,          \* messages under way
  server,       \* per host: the (id, pk) pairs it holds; whether deployed
  todo          \* what operators and faults may still do: counts to zero

config == <<me, solving, sent_pk, needs_deploy, backoff>>
mediator == <<main, servers, should_exit, loop>>
outside == <<options, server, todo>>
vars == <<config, mediator, outside, net>>

Answers == {"PeerOk", "RequestPk", "PkOk", "Mismatch", "NotDeployed"}

Init ==
  /\ scenario \in Scenarios
  /\ me = [id |-> 0, pk |-> 0, key_confirmed |-> FALSE, keys_confirmed |-> {}]
  /\ solving = None /\ sent_pk = FALSE /\ needs_deploy = FALSE /\ backoff = "None"
  /\ options = [servers |-> scenario.servers, stop |-> FALSE]
  /\ main = "Top" /\ servers = {} /\ should_exit = FALSE
  /\ loop = [h \in Hosts |-> "Off"]
  /\ net = {}
  /\ server = [h \in Hosts |-> [known |-> {}, deployed |-> TRUE]]
  /\ todo = scenario.todo

-----------------------------------------------------------------------------
(***************************************************************************)
(* set_key_confirmed clears the confirmations of all hosts, but only when  *)
(* the flag changes.                                                       *)
(***************************************************************************)
set_key_confirmed(c, v) ==
  IF c.key_confirmed = v THEN c
  ELSE [c EXCEPT !.key_confirmed = v, !.keys_confirmed = IF v THEN @ ELSE {}]

set_host_key_confirmed(c, h, v) ==
  [c EXCEPT !.keys_confirmed = IF v THEN @ \cup {h} ELSE @ \ {h}]

Throttled(needs) == needs /\ backoff = "Recent"

\* The messages with a request to h added: no more than `room' are under way
\* between the device and h, one more is lost (a bound).
Sent(h, kind, c, messages) ==
  IF Cardinality({m \in messages : (m.kind \in Answers /\ m.from = h)
                                     \/ (m.kind \notin Answers /\ m.to = h)}) >= scenario.room[h]
    THEN messages
    ELSE messages \cup {[to |-> h, kind |-> kind, id |-> c.id, pk |-> c.pk, open |-> TRUE]}

\* register_pk with the configuration c; `rest' are the messages under way.
register_pk(h, c, needs, rest) ==
  IF Throttled(needs)
    THEN /\ net' = rest
         /\ UNCHANGED <<backoff, sent_pk>>
    ELSE /\ net' = Sent(h, "Pk", c, rest)
         /\ backoff' = IF needs THEN "Recent" ELSE "None"
         /\ sent_pk' = TRUE

register_peer(h, rest) ==
  IF solving \notin {None, h}
    THEN net' = rest /\ UNCHANGED <<backoff, sent_pk>>
  ELSE IF ~me.key_confirmed \/ h \notin me.keys_confirmed
    THEN register_pk(h, me, needs_deploy, rest)
    ELSE /\ net' = Sent(h, "Peer", me, rest)
         /\ UNCHANGED <<backoff, sent_pk>>

\* The socket of h is closed or replaced: answers to it are lost, those under
\* way and those to requests still under way.
Unheard(h, messages) ==
  {IF m.kind \in {"Peer", "Pk"} /\ m.to = h THEN [m EXCEPT !.open = FALSE] ELSE m
     : m \in {n \in messages : n.kind \in Answers => n.from # h}}

-----------------------------------------------------------------------------
(***************************************************************************)
(* start_all.  The servers are read before SHOULD_EXIT is cleared; once    *)
(* one loop has ended, SHOULD_EXIT ends the others.                        *)
(***************************************************************************)
Top ==
  /\ main = "Top"
  /\ solving' = None
  /\ IF options.stop THEN main' = "Sleep" /\ UNCHANGED servers
                     ELSE main' = "Read" /\ servers' = options.servers
  /\ UNCHANGED <<me, sent_pk, needs_deploy, backoff, should_exit, loop, outside, net>>

Begin ==
  /\ main = "Read"
  /\ main' = "Join"
  /\ should_exit' = FALSE
  /\ loop' = [h \in Hosts |-> IF h \in servers THEN "Starting" ELSE "Off"]
  /\ UNCHANGED <<config, servers, outside, net>>

Join ==
  /\ main = "Join"
  /\ \A h \in servers : loop[h] = "Done"
  /\ main' = "Sleep"
  /\ loop' = [h \in Hosts |-> "Off"]
  /\ UNCHANGED <<config, servers, should_exit, outside, net>>

Wake ==
  /\ main = "Sleep"
  /\ main' = "Top"
  /\ UNCHANGED <<config, servers, should_exit, loop, outside, net>>

-----------------------------------------------------------------------------
(***************************************************************************)
(* A loop: it opens its socket, registers when the timer fires, and takes  *)
(* the answers.  A socket error, or the request to exit, ends it.          *)
(***************************************************************************)
\* Mutant: the end of a loop is not announced to the others.
EndsAlone(h) ==
  /\ loop' = [loop EXCEPT ![h] = "Done"]
  /\ net' = Unheard(h, net)
  /\ UNCHANGED should_exit

Ends(h) ==
  /\ loop' = [loop EXCEPT ![h] = "Done"]
  /\ should_exit' = TRUE
  /\ net' = Unheard(h, net)

\* What is not up to the code happens as often as `todo' allows.
Does(what) == todo[what] > 0 /\ todo' = [todo EXCEPT ![what] = @ - 1]

\* Mutant: SHOULD_EXIT is cleared once the loops have been started.
OpenClearsExit(h) ==
  /\ loop[h] = "Starting"
  /\ loop' = [loop EXCEPT ![h] = "On"]
  /\ should_exit' = FALSE
  /\ UNCHANGED <<config, main, servers, outside, net>>

Open(h) ==
  /\ loop[h] = "Starting"
  /\ loop' = [loop EXCEPT ![h] = "On"]
  /\ UNCHANGED <<config, main, servers, should_exit, outside, net>>

Error(h) ==
  /\ loop[h] \in {"Starting", "On"}
  /\ Does("faults")
  /\ Ends(h)
  /\ UNCHANGED <<config, main, servers, options, server>>

Exit(h) ==
  /\ loop[h] = "On"
  /\ should_exit
  /\ Ends(h)
  /\ UNCHANGED <<config, main, servers, outside>>

deploy_register_throttled == Throttled(needs_deploy)

Tick(h) ==
  /\ loop[h] = "On"
  /\ ~should_exit
  /\ ~deploy_register_throttled
  /\ \/ register_peer(h, net) /\ UNCHANGED todo
     \/ register_peer(h, Unheard(h, net)) /\ Does("faults")
  /\ UNCHANGED <<me, solving, needs_deploy, mediator, options, server>>

Answered(h, kind) == loop[h] = "On" /\ [from |-> h, kind |-> kind] \in net

Rest(h, kind) == net \ {[from |-> h, kind |-> kind]}

PeerOk(h) ==
  /\ Answered(h, "PeerOk")
  /\ net' = Rest(h, "PeerOk")
  /\ UNCHANGED <<config, mediator, outside>>

RequestPk(h) ==
  /\ Answered(h, "RequestPk")
  /\ register_pk(h, me, needs_deploy, Rest(h, "RequestPk"))
  /\ UNCHANGED <<me, solving, needs_deploy, mediator, outside>>

(***************************************************************************)
(* Result::OK, in two steps: the key is confirmed first; the host, and the *)
(* end of solving a mismatch, after other loops may have moved.            *)
(***************************************************************************)
PkOk(h) ==
  /\ Answered(h, "PkOk")
  /\ me' = set_key_confirmed(me, TRUE)
  /\ loop' = [loop EXCEPT ![h] = "Confirming"]
  /\ net' = Rest(h, "PkOk")
  /\ UNCHANGED <<solving, sent_pk, needs_deploy, backoff, main, servers, should_exit, outside>>

\* Mutant: SOLVING_PK_MISMATCH keeps the host that asked for a new id.
ConfirmedSolving(h) ==
  /\ loop[h] = "Confirming"
  /\ me' = set_host_key_confirmed(me, h, TRUE)
  /\ needs_deploy' = FALSE
  /\ loop' = [loop EXCEPT ![h] = "On"]
  /\ UNCHANGED <<solving, sent_pk, backoff, main, servers, should_exit, outside, net>>

Confirmed(h) ==
  /\ loop[h] = "Confirming"
  /\ me' = set_host_key_confirmed(me, h, TRUE)
  /\ solving' = None
  /\ needs_deploy' = FALSE
  /\ loop' = [loop EXCEPT ![h] = "On"]
  /\ UNCHANGED <<sent_pk, backoff, main, servers, should_exit, outside, net>>

handle_uuid_mismatch(h) ==
  /\ Answered(h, "Mismatch")
  /\ IF solving \in {None, h}
       THEN /\ me' = [set_key_confirmed(me, FALSE) EXCEPT !.id = @ + 1]
            /\ solving' = h
            /\ register_pk(h, me', needs_deploy, Rest(h, "Mismatch"))
       ELSE /\ net' = Rest(h, "Mismatch")
            /\ UNCHANGED <<me, solving, backoff, sent_pk>>
  /\ UNCHANGED <<needs_deploy, mediator, outside>>

\* Mutant: a device that has been deleted keeps its key confirmed.
NotDeployedUnnoticed(h) ==
  /\ Answered(h, "NotDeployed")
  /\ needs_deploy' = TRUE
  /\ net' = Rest(h, "NotDeployed")
  /\ UNCHANGED <<me, solving, sent_pk, backoff, mediator, outside>>

NotDeployed(h) ==
  /\ Answered(h, "NotDeployed")
  /\ needs_deploy' = TRUE
  /\ me' = set_host_key_confirmed(set_key_confirmed(me, FALSE), h, FALSE)
  /\ net' = Rest(h, "NotDeployed")
  /\ UNCHANGED <<solving, sent_pk, backoff, mediator, outside>>

handle_resp(h) ==
  \/ PeerOk(h) \/ RequestPk(h) \/ PkOk(h) \/ handle_uuid_mismatch(h) \/ NotDeployed(h)

BackoffElapses ==
  /\ backoff = "Recent"
  /\ backoff' = "Old"
  /\ UNCHANGED <<me, solving, sent_pk, needs_deploy, mediator, outside, net>>

-----------------------------------------------------------------------------
(***************************************************************************)
(* The servers, as the device sees them answer, and the network.           *)
(***************************************************************************)
Requests(h, kind) == {m \in net : m.kind = kind /\ m.to = h}

Holds(h, id) == \E k \in server[h].known : k[1] = id

Serve(h, kind) ==
  /\ \E m \in Requests(h, kind) :
       LET refused == ~server[h].deployed
           taken == m.id = 0 /\ h \in scenario.taken
           answer == CASE m.kind = "Peer" -> IF Holds(h, m.id) THEN "PeerOk" ELSE "RequestPk"
                       [] m.kind = "Pk" -> IF refused THEN "NotDeployed"
                                           ELSE IF taken THEN "Mismatch" ELSE "PkOk"
       IN /\ net' = (net \ {m}) \cup
                      (IF m.open THEN {[from |-> h, kind |-> answer]} ELSE {})
          /\ server' = IF answer # "PkOk" THEN server
                       ELSE [server EXCEPT ![h].known =
                               {k \in @ : k[1] # m.id} \cup {<<m.id, m.pk>>}]
  /\ UNCHANGED <<config, mediator, options, todo>>

Lose ==
  /\ Does("losses")
  /\ \E m \in net : net' = net \ {m}
  /\ UNCHANGED <<config, mediator, options, server>>

(***************************************************************************)
(* Operators.  The user sets the options and CheckIfRestart then asks for  *)
(* a restart; the configuration is replaced by the root's, which brings    *)
(* another key and confirmations of its own, and CheckIfResendPk then looks *)
(* at it (macOS only); a peer's handshake forces the key to be registered  *)
(* again; the user sets another id; the device is deleted at the servers,  *)
(* or deployed, which the device may be told.                              *)
(***************************************************************************)
SetOptions ==
  /\ todo.changes > 0
  /\ todo' = [todo EXCEPT !.changes = @ - 1, !.restarts = @ + 1]
  /\ scenario.gap \/ main # "Read"
  /\ options' \in [servers : (SUBSET Hosts) \ {{}}, stop : BOOLEAN] \ {options}
  /\ UNCHANGED <<config, mediator, server, net>>

restart ==
  /\ Does("restarts")
  /\ should_exit' = TRUE
  /\ UNCHANGED <<config, main, servers, loop, options, server, net>>

SyncConfig ==
  /\ todo.syncs > 0
  /\ todo' = [todo EXCEPT !.syncs = @ - 1, !.drops = @ + 1]
  /\ \E v \in BOOLEAN :
       me' = [me EXCEPT !.pk = 1, !.key_confirmed = v, !.keys_confirmed = IF v THEN Hosts ELSE {}]
  /\ UNCHANGED <<solving, sent_pk, needs_deploy, backoff, mediator, options, server, net>>

CheckIfResendPk ==
  /\ Does("drops")
  /\ me' = IF sent_pk THEN set_key_confirmed(me, FALSE) ELSE me
  /\ UNCHANGED <<solving, sent_pk, needs_deploy, backoff, mediator, options, server, net>>

ForceUpdatePk ==
  /\ Does("forces")
  /\ me' = set_key_confirmed(me, FALSE)
  /\ UNCHANGED <<solving, sent_pk, needs_deploy, backoff, mediator, options, server, net>>

\* The key is unconfirmed first, and the id set after other loops may have moved.
SetId ==
  /\ todo.renames > 0
  /\ todo' = [todo EXCEPT !.renames = @ - 1, !.ids = @ + 1]
  /\ me' = set_key_confirmed(me, FALSE)
  /\ UNCHANGED <<solving, sent_pk, needs_deploy, backoff, mediator, options, server, net>>

IdSet ==
  /\ Does("ids")
  /\ me' = [me EXCEPT !.id = @ + 1]
  /\ UNCHANGED <<solving, sent_pk, needs_deploy, backoff, mediator, options, server, net>>

Delete ==
  /\ Does("deletions")
  /\ server' = [h \in Hosts |-> [known |-> {}, deployed |-> FALSE]]
  /\ UNCHANGED <<config, mediator, options, net>>

Deploy ==
  /\ Does("deployments")
  /\ server' = [h \in Hosts |-> [server[h] EXCEPT !.deployed = TRUE]]
  /\ UNCHANGED <<config, mediator, options, net>>

Deployed ==
  /\ Does("notices")
  /\ \A h \in Hosts : server[h].deployed
  /\ needs_deploy' = FALSE
  /\ should_exit' = TRUE
  /\ UNCHANGED <<me, solving, sent_pk, backoff, main, servers, loop, options, server, net>>

-----------------------------------------------------------------------------
Operators ==
  \/ SetOptions \/ restart \/ SyncConfig \/ CheckIfResendPk \/ ForceUpdatePk \/ SetId \/ IdSet
  \/ Delete \/ Deploy \/ Deployed

StartAll == Top \/ Begin \/ Join \/ Wake

Timer(h) == Exit(h) \/ Tick(h)

Next ==
  \/ StartAll \/ Operators \/ Lose \/ BackoffElapses
  \/ \E h \in Hosts : Open(h) \/ Error(h) \/ Timer(h) \/ handle_resp(h) \/ Confirmed(h)
                      \/ Serve(h, "Peer") \/ Serve(h, "Pk")

Spec == Init /\ [][Next /\ UNCHANGED scenario]_<<vars, scenario>>

(***************************************************************************)
(* Fairness: the tasks run and their timers fire, time passes, a restart   *)
(* that was asked for is made and what was begun is ended, a server        *)
(* answers what reaches it, and the answers that arrive are taken.         *)
(***************************************************************************)
FairSpec ==
  /\ Spec
  /\ WF_vars(StartAll) /\ WF_vars(BackoffElapses)
  /\ WF_vars(restart) /\ WF_vars(CheckIfResendPk) /\ WF_vars(IdSet)
  /\ \A h \in Hosts :
       /\ WF_vars(Open(h)) /\ WF_vars(Timer(h)) /\ WF_vars(Confirmed(h))
       /\ WF_vars(Serve(h, "Peer")) /\ WF_vars(Serve(h, "Pk"))
       /\ WF_vars(PeerOk(h)) /\ WF_vars(RequestPk(h)) /\ WF_vars(PkOk(h))
       /\ WF_vars(handle_uuid_mismatch(h)) /\ WF_vars(NotDeployed(h))

-----------------------------------------------------------------------------
Wanted(h) == ~options.stop /\ h \in options.servers

(***************************************************************************)
(* Every configured server comes to know the device under its present id   *)
(* and goes on knowing it, whatever was lost, refused, answered late or    *)
(* changed before: a new id after UUID_MISMATCH or from the user, a        *)
(* confirmation that was meant for the id before, a configuration that     *)
(* claims one, a deletion followed by a deployment.                        *)
(***************************************************************************)
Registered ==
  ~scenario.gap => \A h \in Hosts :
    <>[](\/ ~Wanted(h) \/ ~server[h].deployed
         \/ Holds(h, me.id) /\ me.key_confirmed /\ h \in me.keys_confirmed)

(***************************************************************************)
(* The options the user has set come into effect: the loops that run are   *)
(* in the end those of the configured servers, or none when the service is *)
(* stopped.  Excepted is an option set after start_all has read the        *)
(* servers and before it has cleared SHOULD_EXIT.                          *)
(***************************************************************************)
OptionsHeeded ==
  ~scenario.gap => \A h \in Hosts : <>[]((loop[h] \in {"On", "Confirming"}) = Wanted(h))

(***************************************************************************)
(* "once one exits, the others also exit": after the end of one loop all   *)
(* are joined and start_all starts over.                                   *)
(***************************************************************************)
ExitTogether == \A h \in Hosts : (loop[h] = "Done") ~> (main = "Top")

(***************************************************************************)
(* "Clear key_confirmed so the UI reflects the truth": a device that has   *)
(* been deleted at its servers, and is not deployed again, finds out.      *)
(***************************************************************************)
DeletionNoticed ==
  <>[]((\E h \in Hosts : Wanted(h)) /\ \A h \in Hosts : ~server[h].deployed)
    => <>[](~me.key_confirmed)

(***************************************************************************)
(* "detects pk changes and triggers a re-registration": when the key has   *)
(* changed, every configured server comes to hold the new one.             *)
(***************************************************************************)
PkRegistered ==
  \A h \in Hosts :
    <>[](~Wanted(h) \/ ~server[h].deployed \/ <<me.id, me.pk>> \in server[h].known)
=============================================================================
