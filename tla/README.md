# Verification of bgdesk: port forwarding, admission, video, terminals, privacy mode, registration

bgdesk is a remote desktop program: a controller (client) connects to a
controlled machine (server), directly or through a rendezvous and relay server,
and sees its screen, drives its input, moves files, opens terminals and forwards
ports.  This directory holds TLA+ models of its concurrent parts, the TLC
configurations that check them on small instances, and TLAPS proofs of the
results that matter for every instance.

Module names are `*.tla`; `MC*.tla` and `*.cfg` instantiate them for TLC, and
`*Proofs.tla` hold the theorems.  `PROJECT.json` maps each definition to the
lines it models and lists runs, mutants, hazards, findings and theorems.

    tlc -config MCPortForwardChannel.cfg MCPortForwardChannel
    tlapm CreditFlowProofs.tla

## 1. The system and its parts

| part | where | state | operations | what makes it hard |
|---|---|---|---|---|
| Port forward channels | `src/port_forward_mux.rs`, `src/server/port_forward_mux.rs` | per channel: `SendCredit`, `RecvWindow`, queues, relays; per tunnel: channel map, teardown watch | open, opened, data, close, window_update, relay reads and writes, teardown | two ends, three tasks each, two queues into one stream, cancellation at every await |
| Port forward listener | `src/port_forward.rs`, `Tunnel` in `src/port_forward_mux.rs` | tunnel state, live tunnel loop, commands of the user | accept, claim, probe login, publish, loop end, reset, removal | state published by one task and reset by another; commands read by whichever loop runs |
| Port forward logins | `src/port_forward.rs`, `src/client.rs` | `LoginConfigHandler` shared by a window's mappings, turn lock | Hash arrives, password typed, login built and sent, refusal | several logins fill the same fields; typed passwords are broadcast |
| Admission | `src/server/connection.rs`, `src/server.rs` | `UNAUTHORIZED_CONNS`, eviction flag and notify | admit, evict, deadline, authorize, close | look-then-wait, bursts of arrivals, places held until a task has really ended |
| Service template, video service | `src/server/service.rs`, `src/server/video_service.rs` | subscriber tables, refresh option, encoder, frame controller, notifier channel | subscribe, snapshot and swap, encode and send, wait, switch | one thread against all connections; state read under a lock and used after it |
| Connection | `src/server/connection.rs` | login and session state, permissions, timers | message dispatch, login, 2FA, approval, close | 7,800 lines, order of login steps, sessions shared by connections |
| Server registry | `src/server.rs` | services, connections | add, remove, subscribe | lock order |
| Terminal service | `src/server/terminal_service.rs` | registry of services, sessions with shell, reader and channel, polling loops | open, close, poll, reconnect with replay, remap, clean-up, reaper, idle cleanup | registry, service and session locks taken one after the other; a session outlives its place in the map; two connections of one client |
| Display, QoS, audio, clipboard, input services | `src/server/*.rs` | per service | repeat() callbacks | snapshots, reconnect, pressed keys |
| Helper processes | `portable_service.rs`, `drm_capturer.rs`, `ipc*.rs` | shared memory, pipes | start, exit, re-attach | crashes and restarts |
| Client session | `src/client.rs`, `src/client/io_loop.rs`, `src/ui_session_interface.rs` | session, decoders, jobs | remote loop, reconnect | stale results after a reconnect |
| Rendezvous | `src/rendezvous_mediator.rs` | one loop per server, key and host confirmation, solving, `SHOULD_EXIT` | register, change the id, restart, key change, deploy; punch, relay | answers name neither id nor key; lost and late datagrams; loops that share globals without a lock |
| File transfer | `libs/base/src/fs.rs` | jobs | read, write, confirm, resume | overwrite answers out of order |
| Updater | `src/updater.rs`, `src/update_*.rs` | policy, download, digest | check, download, verify, install | steps that fail half-way |
| HTTP clients | `src/hbbs_http/*.rs` | account poll, heartbeat, downloads | poll, cancel | cancelled polls that answer |
| Privacy mode, virtual displays | `src/privacy_mode.rs`, `src/privacy_mode/win_*.rs`, `src/virtual_display_manager.rs` | owner, screen, input hook; the requests under way | turn on in a thread, time out, expel, turn off, reset | the thread outlives the wait for it; the owner leaves or loses the permission |
| Libraries | `libs/*` | sockets, codecs, configuration | | I/O and foreign code |
| User interface | `src/flutter*.rs`, `src/ui*` | | | presentation |

How they interact: a TCP connection is admitted (admission), runs the identity
handshake and becomes a `Connection`, whose select loop owns the stream.  After
login it subscribes to services, each a thread that pushes messages into the
connection's queues.  A port-forward login turns the connection into a tunnel
whose frames `PortForwardMux` demultiplexes; its other end is the controller's
`tunnel_loop`, brought up by a listener after a login that took its turn among
the window's mappings.  Terminals and privacy mode are driven from the
connection's handlers, and both outlive it: a persistent terminal waits for the
client's next connection, and privacy mode has to be turned off when its owner
goes.  The rendezvous loops run beside all of this and only make the machine
known.

What should hold, by part:

* channels: both ends agree on the window, nobody overruns it, nobody stalls;
  bytes arrive in order and before the close; every task ends with its peer or
  its tunnel;
* listener: the published state names the one live tunnel or none; the mode never
  changes under live connections; removal ends everything;
* logins: each is the mapping's own; what the user typed is tried;
* admission: the limits count real tasks; one eviction at a time; places come back;
* video: viewers that share a frame share the encoder's history; a refresh ends in
  a key frame; nobody watching means no capture;
* terminals: no shell that was opened is forgotten; a client sees output once and in order, history
  before news, nothing after the close, and learns of an exit;
* privacy mode: owner, screen and input go together; nobody takes it from its owner;
  the owner is there to answer for it and ends up alone;
* registration: every configured server ends up knowing the device under its id,
  whatever is lost, changed or restarted (its key when that changes: see Findings);
* not modelled: login steps are taken in order and once; a session outlives only its
  connections; QoS stays in its bounds; a job is answered once; an update is
  installed only after its digest was checked.

`PROJECT.json` lists every part with its status, and the hazards with their lines.

## 2. Modules

### PortForwardWindow, CreditFlow (abstract), PortForwardChannel (detailed), PortForwardCredit

`PortForwardWindow` holds the constants and pure operators of the window:
`charge`, `take`, `add`, `raise_initial`, `accept`, `drained`.  The assumption
`WindowAssumption` states what the source's constants satisfy.

`CreditFlow` is the promise for one direction, with frames reduced to their cost:
credit, an allowance held by the reader, cost on the wire, updates on their way,
and the receiver's window.  `width` follows the one widening: grant, `opened`,
raise.  `over` records that an end let go, after which accounting is one-sided.

`PortForwardChannel` has both ends of a channel: `loop`, `sink`, `entry` and
`teardown` per end; the channel task and its two relays with a program counter
each (`task`, `up`, `down`); `inbound`, `pending`, `chunk` and the controller's
`dataQ` and `controlQ`; and the stream `net`.  Each await of `run_channel`,
`relay_socket_to_tunnel`, `relay_tunnel_to_socket` and `run_controlled_channel` is a
step boundary.  `SendCredit::take` is three steps (look, park, wake), because the
lock is released before the wait; `permit` is `Notify`'s stored permit.  A byte is
its offset.

`PortForwardCredit` adds the two refinement mappings (`ToTarget`, `FromTarget`) by which
each direction of the channel implements `CreditFlow`.

### PortForwardListener

The accept loop's `phase`, the `Tunnel`'s `state` and `handle`, and each tunnel
loop's life (`running`, `broken`, `cleared`, `returned`).  Publishing and spawning
are two steps, as are `close_all` and the reset.  The user's commands are a queue
read by `listen` while listening and by the login loop while logging in.

### PortForwardLogin

Mappings fill the shared handler under the turn lock.  Every acquisition of the
handler's lock is a step.  A hash is the pair of what was hashed, so an answer to
another mapping's challenge is told apart.  An answer to the prompt may be blank, which
asks for the last password or the saved one, and the window may have come with a shared
password, which the first Hash uses up.

### UnauthorizedAdmission

`conns` and `place` are the vector of places, oldest first; `evicted` and `notified`
the shared flag and the permit; `stage` and `watch` where a task is and whether its
wait exists.  The handler of a message drops the wait and builds it again, as the
select does.

### VideoService

The service thread of one display (`pc`), the two subscriber tables, the refresh
option, the encoder (`fresh`, `unfed`, `warmed_up`) and the frame controller, beside
each viewer's connection (`conn`, `video`, `unacked`).  `chain` and `wants` are history:
whether a viewer has been sent all the encoder's frames, and whether it asked for a
refresh that no key frame has answered.  Whatever needs a new encoder leaves `run`
and enters it again.  Encoder, capturer and outside switches are the choices the
thread sees; static refresh sends through the same snapshot, so it is one more frame.

### TerminalService

One service id.  `registered` is the registry entry; `services` the service objects that
have been under it, each named after the connection that made it, for whoever has looked
one up keeps it when the entry is gone or is another; `ses` is a `TerminalSession` with
its child, who holds the child (`holder`), reader, channel, history and pending replay;
`handler` is the request a connection is working on and `loop` its polling thread, both
with the references they hold.  A step is one critical section, so a request is the look
at the registry (`Ask`) and the work under the service's lock (`handle_open`,
`handle_close`, `set_persistent`), and `read_outputs` is the look (`Fetch`), a snapshot
(`Scan`), one step per session (`Process`, or `Skip` when `try_lock` fails), the copy
(`Scanned`), one step per closed terminal (`Clean`) and the sending.  `Dropping` stops
the sessions whose last reference went.  An open may fail before the shell is started or
after it (`OpenFails`); then nobody has the child (`holder` is "lost").  `handle_close`
answers the client, which `seen` keeps beside what the loop sent.  The reader may end with
an error while the shell runs.  Output is a numbered chunk per read.

### PrivacyMode

`mode` is `PRIVACY_MODE`: the implementation in place and the owner inside it; `covered`
and `hook` what it has done to the screen and to local input; `conn` where a
connection's loop and handlers are, its permission and what it was told; `workers` the
threads that turn privacy mode on, each of which can outlive the 7.5 s wait; `closing`
who has been told to close.  Every operation holds the lock of `PRIVACY_MODE` and is a
step; what a connection does with the answer, the validation of the capturer and the
closing of others are later steps.  The permission switch, the end of a connection and
the reset by the last one are actions too.  Both Windows implementations are modelled;
they differ in what can fail and in whether a thread is used.

### RendezvousRegistration

`main` is where `start_all` is, `loop` where each server's `start_udp` is; `me` is what
the configuration holds (id, key, `key_confirmed` and the confirmed hosts), beside the
globals `solving`, `sent_pk`, `needs_deploy`, `backoff` and `should_exit`.  `net` holds
the datagrams under way, as a set: they overtake each other, may be lost, and answers to
a replaced socket are.  A server answers from what it holds: request the key, id taken,
not deployed, OK. The OK handler is two steps, for it confirms the key and then the
host.  Options, deletion and deployment come at any moment; time is a choice.  So do the
other writers of `key_confirmed`: the configuration sync of macOS, which replaces key and
confirmations (`SyncConfig`) and drops `CheckIfResendPk` afterwards, a peer that fails on
the key (`ForceUpdatePk`), and an id set over IPC (`SetId`, then `IdSet`).

## 3. Runs

| run | instance | shows |
|---|---|---|
| `credit_flow` | windows 3 and 7, charge 2, frames up to 4 | `WindowConserved`, `NoOverrun`, `BufferBounded`, `NoStall` |
| `channel` | same windows, bytes from the controller or from the target, data queue of 1 | `InOrder`, `NothingAfterClose`, `CloseOnce`, `NoLostWakeup`, both directions refine `CreditFlow` |
| `channel_liveness` | smallest windows; both sides send, or the tunnel ends anywhere | `EndsTogether`, `TunnelEndsTasks`, `CreditReturns` |
| `listener` | 4 accepts, 2 queued commands | `OneTunnel`, `MuxedIsServed`, `BrokenIsReset`, `ListenerEndsTunnel` |
| `listener_removal` | 2 accepts, 1 command | **violated**: see findings |
| `login_turns` | 2 mappings, one of them probing, a shared password, 3 answers to the prompt, one blank | `OwnLogin`, `TypedIsTried` |
| `admission` | 3 connections, up to 3 addresses, 2 places, share 1 | `LiveBound`, `ShareBound`, `OneOnItsWay`, `EvictedGoes` without timers, `GraceEnds` with them |
| `video` | 2 viewers, one acknowledging, deferred refresh | `SameHistory`, `RefreshServed`, `StopsUnwatched` |
| `terminal` | a client that connects twice, 2 ids, up to 2 shells, channel and replay of 2 | `NoOrphan`, `StreamInOrder`, `ReplayComesFirst`, `NothingAfterClosed`, `ExitReported` |
| `privacy` | 2 connections, both implementations | `AllOrNothing`, `OwnerAnswers`, `NeverTaken`, `ExpelledForOwner`, `Alone` |
| `rendezvous` | 1 or 2 servers | `Registered`, `OptionsHeeded`, `ExitTogether`, `DeletionNoticed` |
| `rendezvous_pk` | 1 server, a key change | **violated**: see findings |

Scenarios.  `terminal`, `privacy` and `rendezvous` choose a scenario in `Init` and keep
it: a well-behaved environment, or one with one thing out of order (overlapping
connections, another id, a late thread, a failing call, a lost message, a deleted
device).  All invariants are checked in all scenarios, except that a property whose
promise the code does not make in one of them says so in its first conjunct:

* `NoOrphan` excepts, in `fails`, the shell of an open that fails after starting it: its
  child is dropped as it is, neither killed nor waited for;
* `StreamInOrder` excepts `late`: an open whose client has gone may be worked on after
  that of its next connection, and have the session replay what was sent;
* `ReplayComesFirst` excepts `overlap` and a terminal that was remapped: the loop of the
  client's older connection can take the replay, and a loop can send it under the id
  before;
* `ExitReported` excepts `overlap`, `idle` and a terminal that was remapped: the removal
  of the service by id can hit the one a new connection has just found, and the clean-up
  by id the session that has taken the id of a closed one;
* `NothingAfterClosed` lets what a loop already holds follow the answer to the client's
  own close, but nothing of a round that begins after it;
* `AllOrNothing` excepts `fails` and `quick` (a hook thread that has not ended yet),
  `OwnerAnswers` excepts `fails` and `slow`: a thread that turns privacy mode on after
  its wait has ended leaves an owner that does not know;
* `NeverTaken` excepts the reset by the last connection, which turns off whatever is on
  when it gets the lock;
* `OptionsHeeded` and `Registered` except `gap`: options set between reading the servers
  and clearing `SHOULD_EXIT` are not read until something else restarts the loops.

Each exception was seen as a counterexample when it was left out, two of them with more
output than the run keeps in that scenario: `overlap` in `ReplayComesFirst` with two chunks
where the run has one, and `late` in `StreamInOrder` with a persistent service and one
chunk where the run has none (there it holds without the exception too).  `SameHistory` is about viewers that join others: one that comes alone to an
encoder which the last viewer has just left is taken into it without a switch.
`PROJECT.json` has the hazards with their lines.

Bounds.  The windows 3 and 7 with a charge of 2 are the smallest with an odd window, a
threshold below a frame, a refund and a widening that is not a multiple of the charge; a
frame of 4 needs more than the initial window.  Five or six bytes use up the window and
bring it back.  Four accepts are a failed probe, a tunnel, its replacement and one more.
Three connections over two places are a full table, an eviction and an arrival
meanwhile, and a share of one is met by two of one address.  `MaxChanges` and
`MaxFaults` bound how often viewers and the outside interfere (leaving is bounded by
itself), `MaxQueue` how far a viewer lags.  Two viewers are an old one and a newcomer,
or two newcomers, one of whom joins during the swap.  Two connections to the terminals
are one that leaves and its successor, two ids a terminal and one to remap it to (one id
where connections overlap, so that a second shell takes the id of the first), and three
chunks overflow a channel of two and a replay of two.  Two connections are an
owner and one to be expelled, or two owners in turn.  Two servers are one that is being
solved and one that has to wait.  No run uses symmetry.  Deadlock is not checked where
the instance ends by design: a channel that is over, connections that have all gone, a
service nobody watches, shells that have all exited.

Fairness.  The runtime polls ready tasks, so single-task steps are weakly fair.
`select!` without `biased` starts at a random arm, so an arm that is ready again and
again is taken: `LookEvicted` and `Deadline` are strongly fair.  The turn lock is a
fair tokio mutex.  Applications at the sockets, users and peers owe nothing, except
that `CreditReturns` and `EndsTogether` are about applications that read.  A polling
loop comes round for ever and finds a session unlocked one day (`WF` on the loops
together and `SF` on `ProcessEnded`, both weaker than fairness of each thread); clients,
shells and handlers owe nothing.  What the sync and the IPC server have begun they finish
(`WF` on `CheckIfResendPk` and `IdSet`).  The rendezvous timer fires for ever; losses and socket failures are
bounded, and a server answers what reaches it.  The capturer must give a frame when
asked for ever (`SF` on `CaptureFrame`): on a screen that never yields one, no refresh
can be served.  Failures and outside switches are bounded, never fair.

## 4. Proofs

For every value of the constants allowed by the named assumptions:

* `CreditFlowProofs`: `NeverOverrun`, `Conservation`, `Bounded`, `StallFree`,
  `CapHarmless` from `WindowAssumption`.  The inductive invariant is `TypeOK`,
  `ClaimsCovered`, `WindowConserved`, `NoOverrun`, with two strengthenings:
  `DrainedBelow` (what is drained and not advertised is below the threshold; without it
  `StallFree` does not follow) and `HeldCovers` (an allowance is at least a minimum
  charge, or a short read could cost more than was taken).  `NoOverrun` alone is not
  inductive: it needs that claims anywhere never exceed what remains.
* `PortForwardChannelSound`: `OneClose` and `WakeupKept`; `PortForwardChannelProofs`, which
  extends it: `BytesInOrder` and `AllBeforeClose`; from `WindowAssumption` and
  `ChannelAssumption`.  Between the bytes written to one
  socket and those read from the other a direction has up to six places (frame being
  written, frames buffered while connecting, queue of the task; stream, data queue, frame
  being sent).  `Chain` says that what lies there, in this order, takes the stream from
  the one count to the other without a gap, and that an announced end stands at the last
  byte.  The way is cut for good when a map entry or a queue's reader goes (`Linked`);
  what lies beyond the cut no longer matters.  `Silence` says that an end is announced
  only by a side that reads no more, without which a later read would follow the `close`.
  Both rest on `Sound`, the invariant of the first module: types, which states of the three tasks of an end go together and
  what they hold (`Phases`, `Holds`), and that `open` goes first and finds an untouched
  controlled side (`Opening`).  A stretch of messages is described by a function that
  gives the offset at each place (`Run`), so appending, taking the head and losing a
  suffix need no induction.
* `PortForwardControllerProofs`, the listener: `TunnelsAreSingle`, `MuxedIsNeverDead`, `ModesNeverMix`,
  `LegacyIsFinal`.  A step of one tunnel's loop could disturb the state another tunnel
  published; the invariant excludes it by what the accept loop knows: while it has
  claimed the probe no tunnel lives (`Probes`), tunnels are numbered in the order they
  were published (`Numbered`), and legacy pipes exist only in the legacy state
  (`Modes`).
* `PortForwardControllerProofs`, the logins: `LoginsAreOwn` and `TypedPasswordsAreSent`.  The invariant
  says what the handler holds at each point of the turn and that only the turn's holder
  is past taking it.
* `UnauthorizedAdmissionProofs`: `AdmissionIsBounded`, `ShareIsBounded`,
  `EvictsOneAtATime`, `ShareRefusalSpares`.  The invariant ties the table to the tasks
  (a live task holds exactly one place), bounds both counts, and keeps an evicted holder
  the oldest, which is what makes `first()` find it again.
* `VideoServiceProofs`: `HistoryIsShared` (and `TablesAreDisjoint`).  `SameHistory`
  speaks of those a frame is sent to; the invariant says it of all subscribers from the
  moment an encoder is set up (`Alike`), that nobody is in both tables (`TypeOK`), and
  when the swap can bring a newcomer in (`SwapAlone`, `Subscribed`).
* `TerminalServiceProofs`: `OpenedShellsAreKept`, from `TerminalAssumption`.  A session
  that has its child is up (`Kept`), and one that is up is referred to by the map of a
  service object somebody has, or by a loop (`Reached`).  A step that lets a reference go
  either drops what it leaves without one, or lets go of nothing, because a loop has a
  service, a snapshot and a copy only in certain parts of its round (`Tidy`).  A session
  that a map or a client names was started by an open that succeeded (`Known`), so the
  shell an open lost when it failed is none of them.
* `PrivacyModeProofs`: `PrivacyAllOrNothing`, `PrivacyOwnerAnswers`,
  `PrivacyNeverTaken`, `PrivacyExpelledForOwner`.  `Neat` says that the machine is bare
  or wholly taken, whatever connection did it; `Awaits` and `Answered` tie each worker
  to the connection that waits for it and an owner to a connection that still has to
  turn off. The two action properties follow from what a step of one connection may do
  to the owner and to the other connections (`Only`).

The theorems are about the specifications without fairness, and `FairSpec`
(`LoginFairSpec` for the logins) implies them.

Only model-checked: all liveness (fairness is beyond the prover), which includes every
property of `RendezvousRegistration`; that a channel implements `CreditFlow`, whose
mapping sums the costs of the messages under way; and `StreamInOrder`,
`ReplayComesFirst` and `NothingAfterClosed`, which fold over the responses of a scan.
Sums and folds over a sequence need induction over it, which is beyond the prover too.

## 5. Findings

* `listener_removal`: a mapping removed while its listener logs in is not closed.  The
  login loop reads the `Close` and ignores it (`src/port_forward.rs:490`).
* `rendezvous_pk`: when the key changes while the registration of the old one is
  unanswered, the late OK confirms the new key (a `RegisterPkResponse` names none), and
  the registration does not send it by itself any more, against the comment at
  `src/rendezvous_mediator.rs:1695`.  Only something from outside brings it: a peer whose
  handshake fails on the old key (`src/server.rs:335`), or another id (`src/ipc.rs:1012`).
  `CheckIfResendPk` exists on macOS only.

Two more places where the code does less than one would like, without a sentence in the
repository that says otherwise, are exceptions of properties and hazards: the shell of an
open that fails after starting it, and the clean-up of a closed terminal by its id, which
can take out a session that has just got that id.

## 6. Not modelled

Left out of the modelled parts: the raw pipe's bytes and the RDP listener; the table of
channels with `MAX_CHANNELS` and ids that come round, and the socket buffers between two
tunnel loops that both wait to send; OS credentials and 2FA in the port-forward login;
encoders and capturers themselves, two video services over one display index, and the
`repeat` services; where the saved password comes from (preset, configuration, address
book, default: one `Saved`); the terminal helper process, the queue between a polling
loop and its connection, a service that is replaced between the two looks of `Fetch`, and
the two locks of one `Clean`; terminal input with its writer thread (`stop()` joins it under its
caller's locks, and is one step here), resizing, the redraw after a reconnect, the UTF-8
accumulator and `MAX_SERVICES`; the macOS privacy mode and the plumbing of virtual
displays; the several configuration reads of one `register_pk` or `register_peer`, which is
one step, and the host prefix; rendezvous over TCP, latencies, punch holes, relay requests and LAN discovery.

Whole parts without a module, each with its reason in `PROJECT.json`: the order of the
connection's login steps and its session registry, display service and QoS, the client's
remote loop, file-transfer jobs, connection manager and IPC, updater and HTTP clients.
They are state machines a model could follow; the next ones to take are the login
order (a connection is authorised at most once and only by a completed path) and the
file-transfer jobs (an overwrite answer belongs to the file it was asked for).

Foreign code, pixel data, codecs, platform calls, configuration files, translations and
the user interface have no state of the kind a model checker explores.  They are most
of the repository's 190,000 lines, so the modules map about 2 % of it.
