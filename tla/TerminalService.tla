-------------------------- MODULE TerminalService --------------------------
(***************************************************************************)
(* The terminals of one service id: the global registry entry, the service *)
(* objects registered under it one after the other, their sessions with    *)
(* shell, PTY reader and output channel, the polling loop each connection  *)
(* runs (read_outputs), the connections a client makes, the reaper and the *)
(* idle cleanup.                                                           *)
(*                                                                         *)
(* A step is one critical section.  Whoever works on the service looks it  *)
(* up under the registry's lock (get_service), lets go, and locks what it  *)
(* found: by then the object may have been taken out of the registry, and  *)
(* another put in.  The snapshot of the sessions, the work on each of them *)
(* (under its own lock), the copy made for the clean-up and each removal   *)
(* are steps too, and anything may happen in between.  A session is        *)
(* dropped, and so stopped, with its last reference.  stop() is one step:  *)
(* it joins the threads under the locks its caller holds.                  *)
(*                                                                         *)
(* Output is a numbered chunk per read.  Input, resizing and the redraw    *)
(* after a reconnect change nothing modelled here and are left out.        *)
(***************************************************************************)
EXTENDS Integers, Sequences, Folds

CONSTANTS
    Conns,      \* 1 .. N: the connections of a client, in the order it makes them
    Ids,        \* terminal ids the client uses
    Sessions,   \* identities of sessions, each used once
    CHANNEL_BUFFER_SIZE,
    RECENT,     \* chunks a replay may hold (DEFAULT_RECONNECT_BUFFER_BYTES)
    None,
    Scenarios   \* which environments an instance looks at

\* Ids are ordered, and every set of them has a lowest one.
ASSUME TerminalAssumption ==
    /\ None \notin Sessions \cup Conns /\ RECENT \in Nat
    /\ \A e \in Scenarios : e.persistent \in BOOLEAN
    /\ \A S \in SUBSET Ids : S # {} => \E u \in S : \A v \in S : u <= v

VARIABLES
    scenario,   \* see Init
    registered, \* TERMINAL_SERVICES: the service object under the id, or None
    services,   \* service object -> PersistentTerminalService; named after its maker
    ses,        \* session -> TerminalSession
    cleaner,    \* the idle cleanup: "rest" or "remove" (it has collected the id)
    conn,       \* connection -> "new", "live", "left" (by its client), "dropping", "gone"
    handler,    \* connection -> the terminal action it is at, with the object it looked up
    loop,       \* connection -> where its polling thread is
    opened,     \* connection -> id -> the session its client has open under it
    seen        \* connection -> what its client has used and been sent

vars == <<registered, services, ses, cleaner, conn, handler, loop, opened, seen>>

NoSession == [child |-> "none", holder |-> "none", up |-> FALSE, reader |-> FALSE,
              read |-> 0, chan |-> <<>>, buffer |-> <<>>,
              active |-> FALSE, pending |-> <<>>, closed_message_sent |-> FALSE]

NewSession == [NoSession EXCEPT !.child = "running", !.holder = "session", !.up = TRUE,
                                !.reader = TRUE, !.active = TRUE]

NoMap == [t \in Ids |-> None]

NoService == [persistent |-> FALSE, needs_session_sync |-> FALSE, sessions |-> NoMap]

NoAction == [kind |-> "none", id |-> None, service |-> None]

NoLoop == [at |-> "off", service |-> None, persistent |-> FALSE, snapshot |-> {},
           closed |-> {}, copy |-> NoMap, responses |-> <<>>, answered |-> {}]

NothingSeen == [last |-> [s \in Sessions |-> 0], used |-> {}, ended |-> {}, answered |-> {},
                owed |-> {}, remapped |-> FALSE]

\* persistent: the option the client logs in with.  overlap: it may connect
\* again before the server has noticed that the old connection is dead.  remap:
\* it may open an id the service does not have.  idle: the idle timeout may
\* pass.  toggle: the client may change the option.  fails: an open may fail.
\* late: the client may leave while a request of its is being worked on.  ids,
\* shells and output bound the ids it uses, the shells there are and how much each
\* writes.
Init ==
    /\ scenario \in Scenarios
    /\ registered = None /\ services = [e \in Conns |-> NoService]
    /\ ses = [s \in Sessions |-> NoSession]
    /\ cleaner = "rest"
    /\ conn = [c \in Conns |-> "new"]
    /\ handler = [c \in Conns |-> NoAction] /\ loop = [c \in Conns |-> NoLoop]
    /\ opened = [c \in Conns |-> NoMap]
    /\ seen = [c \in Conns |-> NothingSeen]

----------------------------------------------------------------------------
(* Sessions. *)

Listed(map) == {map[t] : t \in Ids} \ {None}

\* stop: the child the session has is killed and goes to the reaper; threads and
\* channels are gone.
Stopped(r) ==
    [r EXCEPT !.child = IF r.holder = "session" /\ @ = "running" THEN "exited" ELSE @,
              !.holder = IF @ = "session" THEN "reaper" ELSE @,
              !.up = FALSE, !.reader = FALSE, !.chan = <<>>, !.active = FALSE, !.pending = <<>>]

\* Drop for TerminalSession: stop, and nothing is left but the process.
Released(r) == [NoSession EXCEPT !.child = Stopped(r).child, !.holder = Stopped(r).holder]

\* The service objects somebody still has: the registry, a loop, a handler.
Alive == {e \in Conns : \/ registered = e
                        \/ \E c \in Conns : loop[c].service = e \/ handler[c].service = e}

\* The sessions a loop has references of.
HeldBy(l) == {e[2] : e \in l.snapshot} \cup Listed(l.copy)

Referenced ==
    (UNION {Listed(services[e].sessions) : e \in Alive}) \cup UNION {HeldBy(loop[c]) : c \in Conns}

\* f after the step has dropped the sessions it leaves without a reference.
Dropping(f) == [s \in Sessions |-> IF s \in Referenced' THEN f[s] ELSE Released(f[s])]

\* append of all that is in the channel; at most CHANNEL_BUFFER_SIZE chunks.
Drained(r) == [r EXCEPT !.buffer = @ \o r.chan, !.chan = <<>>]

get_recent(buf) == SubSeq(buf, IF Len(buf) > RECENT THEN Len(buf) - RECENT + 1 ELSE 1, Len(buf))

\* The shell exits; its PTY may still hold output.
ChildExits(s) ==
    /\ ses[s].child = "running"
    /\ ses' = [ses EXCEPT ![s].child = "exited"]
    /\ UNCHANGED <<registered, services, cleaner, conn, handler, loop, opened, seen>>

\* The reader gets a chunk; one that finds the channel full is dropped.
ReaderReads(s) ==
    /\ ses[s].reader /\ ses[s].read < scenario.output
    /\ ses' = [ses EXCEPT ![s].read = @ + 1,
                          ![s].chan = IF Len(@) < CHANNEL_BUFFER_SIZE
                                        THEN Append(@, ses[s].read + 1) ELSE @]
    /\ UNCHANGED <<registered, services, cleaner, conn, handler, loop, opened, seen>>

\* The reader stops: EOF, which not every platform reports when the shell has
\* exited, or an error of read, which may come while it runs.
ReaderEnds(s) ==
    /\ ses[s].reader
    /\ ses' = [ses EXCEPT ![s].reader = FALSE]
    /\ UNCHANGED <<registered, services, cleaner, conn, handler, loop, opened, seen>>

\* One round of the reaper: whoever has exited is waited for.  (An error of
\* try_wait says that there is no such child any more: the same outcome.)
check_zombie_terminals ==
    /\ \E s \in Sessions : ses[s].holder = "reaper" /\ ses[s].child # "running"
    /\ ses' = [s \in Sessions |->
                 IF ses[s].holder = "reaper" /\ ses[s].child # "running"
                   THEN [ses[s] EXCEPT !.holder = "none", !.child = "waited"] ELSE ses[s]]
    /\ UNCHANGED <<registered, services, cleaner, conn, handler, loop, opened, seen>>

----------------------------------------------------------------------------
(* The registry. *)

\* get_or_create_service: reset_status closes every session of the service,
\* new or found.
get_or_create_service(c) ==
    LET e == IF registered = None THEN c ELSE registered
    IN
    /\ registered' = e
    /\ services' = [services EXCEPT ![e] = [@ EXCEPT !.persistent = scenario.persistent,
                                                     !.needs_session_sync = TRUE]]
    /\ ses' = [s \in Sessions |-> IF s \in Listed(services[e].sessions)
                                    THEN [ses[s] EXCEPT !.active = FALSE, !.pending = <<>>]
                                    ELSE ses[s]]

\* remove_service: whatever is registered under the id is taken out and its
\* sessions stopped.  Its map stays as it is, for those who have the object.
StopAll ==
    [s \in Sessions |-> IF registered # None /\ s \in Listed(services[registered].sessions)
                          THEN Stopped(ses[s]) ELSE ses[s]]

\* cleanup_inactive_services: collect under the lock, remove after letting go.
CollectIdle ==
    /\ scenario.idle /\ cleaner = "rest" /\ registered # None
    /\ ~services[registered].persistent \/ services[registered].sessions = NoMap
    /\ cleaner' = "remove"
    /\ UNCHANGED <<registered, services, ses, conn, handler, loop, opened, seen>>

RemoveIdle ==
    /\ cleaner = "remove" /\ cleaner' = "rest"
    /\ registered' = None
    /\ UNCHANGED <<services, conn, handler, loop, opened, seen>>
    /\ ses' = Dropping(StopAll)

----------------------------------------------------------------------------
(* The client's connections and their terminal actions. *)

\* init_terminal_service: the service is found or made and the loop started.
InitService(c) ==
    /\ conn[c] = "new"
    /\ \A d \in Conns : d < c =>
          conn[d] \in IF scenario.overlap THEN {"left", "dropping", "gone"} ELSE {"gone"}
    /\ get_or_create_service(c)
    /\ conn' = [conn EXCEPT ![c] = "live"]
    /\ loop' = [loop EXCEPT ![c].at = "ready"]
    /\ UNCHANGED <<cleaner, handler, opened, seen>>

\* The client gives the connection up; the server does not know yet.  What is
\* sent on it from now on is not kept.
Leave(c) ==
    /\ conn[c] = "live" /\ (scenario.late \/ handler[c] = NoAction)
    /\ conn' = [conn EXCEPT ![c] = "left"]
    /\ opened' = [opened EXCEPT ![c] = NoMap] /\ seen' = [seen EXCEPT ![c] = NothingSeen]
    /\ loop' = [loop EXCEPT ![c].responses = <<>>]
    /\ UNCHANGED <<registered, services, ses, cleaner, handler>>

\* The Connection is dropped, which waits for the loop to end.
DropConnection(c) ==
    /\ conn[c] = "left" /\ handler[c] = NoAction
    /\ conn' = [conn EXCEPT ![c] = "dropping"]
    /\ UNCHANGED <<registered, services, ses, cleaner, handler, loop, opened, seen>>

Joined(c) ==
    /\ conn[c] = "dropping" /\ loop[c].at = "done"
    /\ conn' = [conn EXCEPT ![c] = "gone"]
    /\ UNCHANGED <<registered, services, ses, cleaner, handler, loop, opened, seen>>

\* A requested id that does not exist takes over the lowest surviving session,
\* once per connection.
Remaps(v, t) == v.sessions[t] = None /\ v.needs_session_sync /\ Listed(v.sessions) # {}

\* A request of the client: handle_action, or set_persistent, looks the service
\* up.  Without one the client is sent an error.  A client numbers its terminals:
\* in a connection it opens an id once, one the service has or the next one.
Ask(c, kind, t) ==
    /\ conn[c] = "live" /\ handler[c] = NoAction /\ registered # None
    /\ \/ /\ kind = "open" /\ t <= scenario.ids /\ t \notin seen[c].used
          /\ \/ services[registered].sessions[t] # None
             \/ \A u \in Ids : u < t => u \in seen[c].used
             \/ scenario.remap
          /\ Remaps(services[registered], t) => scenario.remap
       \/ kind = "close" /\ opened[c][t] # None
       \/ kind = "toggle" /\ scenario.toggle /\ t = None
    /\ handler' = [handler EXCEPT ![c] = [kind |-> kind, id |-> t, service |-> registered]]
    /\ UNCHANGED <<registered, services, ses, cleaner, conn, loop, opened, seen>>

\* The object handler c looked up, and the handler's end: its reference is gone.
Its(c) == services[handler[c].service]

HandlerEnds(c) == handler' = [handler EXCEPT ![c] = NoAction]

\* An answer reaches the client unless it has gone.
Answer(c, o, v) ==
    /\ opened' = IF conn[c] = "live" THEN [opened EXCEPT ![c] = o] ELSE opened
    /\ seen' = IF conn[c] = "live" THEN [seen EXCEPT ![c] = v] ELSE seen

\* update_terminal_persistence.
set_persistent(c) ==
    /\ handler[c].kind = "toggle"
    /\ services' = [services EXCEPT ![handler[c].service].persistent = ~@]
    /\ HandlerEnds(c)
    /\ UNCHANGED <<registered, cleaner, conn, loop, opened, seen>>
    /\ ses' = Dropping(ses)

Remapped(map, t) ==
    LET low == CHOOSE u \in Ids : map[u] # None /\ \A w \in Ids : map[w] # None => u <= w
    IN  [map EXCEPT ![t] = map[low], ![low] = None]

Reopened(r) ==
    LET d == Drained(r) IN [d EXCEPT !.active = TRUE, !.pending = get_recent(d.buffer)]

OpenExisting(c, t, map) ==
    LET s == map[t]
        v == seen[c]
    IN
    /\ s # None
    /\ services' = [services EXCEPT ![handler[c].service] =
                      [@ EXCEPT !.sessions = map, !.needs_session_sync = FALSE]]
    /\ Answer(c, [opened[c] EXCEPT ![t] = s],
              [v EXCEPT !.used = @ \cup {t}, !.remapped = @ \/ Its(c).sessions[t] = None,
                        !.owed = IF Reopened(ses[s]).pending = <<>> THEN @ ELSE @ \cup {t}])
    /\ ses' = Dropping([ses EXCEPT ![s] = Reopened(@)])

\* The next shell an open may start.
Fresh(s) ==
    /\ s <= scenario.shells
    /\ ses[s].child = "none" /\ \A r \in Sessions : r < s => ses[r].child # "none"

OpenNew(c, t, map) ==
    /\ map[t] = None
    /\ \E s \in Sessions :
          /\ Fresh(s)
          /\ services' = [services EXCEPT ![handler[c].service] =
                            [@ EXCEPT !.sessions = [map EXCEPT ![t] = s],
                                      !.needs_session_sync = FALSE]]
          /\ Answer(c, [opened[c] EXCEPT ![t] = s], [seen[c] EXCEPT !.used = @ \cup {t}])
          /\ ses' = Dropping([ses EXCEPT ![s] = NewSession])

\* An open that fails, before the shell is started (openpty, spawn_command: so it
\* does when the instance has no shell left) or after it (take_writer,
\* try_clone_reader).  The client is sent an error.  In the second case the Child
\* is dropped as it is: nobody kills it or waits for it.
OpenFails(c, t, map) ==
    /\ map[t] = None
    /\ scenario.fails \/ ~\E s \in Sessions : Fresh(s)
    /\ UNCHANGED services
    /\ Answer(c, opened[c], [seen[c] EXCEPT !.used = @ \cup {t}])
    /\ \/ ses' = Dropping(ses)
       \/ \E s \in Sessions :
             /\ Fresh(s)
             /\ ses' = Dropping([ses EXCEPT ![s] = [@ EXCEPT !.child = "running", !.holder = "lost"]])

handle_open(c) ==
    LET t == handler[c].id IN
    /\ handler[c].kind = "open"
    /\ HandlerEnds(c)
    /\ UNCHANGED <<registered, cleaner, conn, loop>>
    /\ LET map == IF Remaps(Its(c), t) THEN Remapped(Its(c).sessions, t) ELSE Its(c).sessions
       IN  OpenExisting(c, t, map) \/ OpenNew(c, t, map) \/ OpenFails(c, t, map)

\* take() of the child, kill and add_to_reaper.
Killed(r) ==
    IF r.holder # "session" THEN r
    ELSE [r EXCEPT !.holder = IF r.child = "waited" THEN "none" ELSE "reaper",
                   !.child = IF @ = "running" THEN "exited" ELSE @]

\* The answer is TerminalClosed; there is none when the service does not have the
\* terminal, and an error when the child cannot be killed, having been waited for.
handle_close(c) ==
    LET t == handler[c].id
        s == Its(c).sessions[t]
        v == seen[c]
        says == s # None /\ ~(ses[s].holder = "session" /\ ses[s].child = "waited")
    IN
    /\ handler[c].kind = "close"
    /\ services' = [services EXCEPT ![handler[c].service].sessions[t] = None]
    /\ HandlerEnds(c)
    /\ Answer(c, [opened[c] EXCEPT ![t] = None],
              [v EXCEPT !.answered = IF says THEN @ \cup {<<t, s>>} ELSE @, !.owed = @ \ {t}])
    /\ UNCHANGED <<registered, cleaner, conn, loop>>
    /\ ses' = Dropping(IF s = None THEN ses ELSE [ses EXCEPT ![s] = Killed(@)])

----------------------------------------------------------------------------
(* The polling loop: read_outputs and the sending of what it returns. *)

Runs(c) == conn[c] \in {"live", "left"}

\* A round begins: the proxy made for it looks whether the service is persistent,
\* and read_outputs gets the service.  One step: only an entry that is replaced in
\* between, by one with another option, would make a difference.
Fetch(c) ==
    /\ loop[c].at = "ready" /\ Runs(c) /\ registered # None
    /\ loop' = [loop EXCEPT ![c] =
                  [@ EXCEPT !.at = "fetched", !.service = registered,
                            !.persistent = services[registered].persistent]]
    /\ UNCHANGED <<registered, services, ses, cleaner, conn, handler, opened, seen>>

\* The references of the service's sessions, under its lock.  (answered is what
\* the client's own closes have been answered with so far.)
Scan(c) ==
    /\ loop[c].at = "fetched"
    /\ LET map == services[loop[c].service].sessions
       IN  loop' = [loop EXCEPT ![c] =
                      [@ EXCEPT !.at = "scan", !.answered = seen[c].answered,
                                !.snapshot = {<<t, map[t]>> : t \in {u \in Ids : map[u] # None}}]]
    /\ UNCHANGED <<registered, services, ses, cleaner, conn, handler, opened, seen>>

\* Mutation: only the end of the reader counts.
EndedByReader(r) == ~r.closed_message_sent /\ r.up /\ ~r.reader

\* The reader has finished or the child has exited, and it has not been said.
Ended(r) ==
    /\ ~r.closed_message_sent
    /\ \/ r.up /\ ~r.reader
       \/ r.holder = "session" /\ r.child # "running"

\* try_wait: called unless the reader's end told already.
Waited(r) ==
    IF r.holder = "session" /\ r.child = "exited" /\ ~r.closed_message_sent /\ (r.reader \/ ~r.up)
      THEN [r EXCEPT !.child = "waited"] ELSE r

Response(kind, t, s, chunks) == [kind |-> kind, id |-> t, session |-> s, chunks |-> chunks]

\* Mutation: the replay goes out behind what is new.
ResponsesLiveFirst(t, s, r) ==
    IF ~r.active THEN <<>>
    ELSE [i \in 1 .. Len(r.chan) |-> Response("data", t, s, <<r.chan[i]>>)]
         \o (IF r.pending = <<>> THEN <<>> ELSE <<Response("replay", t, s, r.pending)>>)

\* What an Active session has to say: the replay, then what is new.
Responses(t, s, r) ==
    IF ~r.active THEN <<>>
    ELSE (IF r.pending = <<>> THEN <<>> ELSE <<Response("replay", t, s, r.pending)>>)
         \o [i \in 1 .. Len(r.chan) |-> Response("data", t, s, <<r.chan[i]>>)]

\* One session of the snapshot, under its lock.
Process(c, t, s) ==
    LET r == ses[s]
        l == loop[c]
        next == [loop EXCEPT ![c] =
                   [l EXCEPT !.snapshot = @ \ {<<t, s>>},
                             !.closed = IF Ended(r) THEN @ \cup {<<t, s>>} ELSE @,
                             !.responses = IF conn[c] = "live" THEN @ \o Responses(t, s, r) ELSE @]]
        after == [Drained(Waited(r)) EXCEPT !.closed_message_sent = @ \/ Ended(r), !.pending = <<>>]
    IN
    /\ loop[c].at = "scan" /\ <<t, s>> \in loop[c].snapshot
    /\ loop' = next
    /\ UNCHANGED <<registered, services, cleaner, conn, handler, opened, seen>>
    /\ ses' = Dropping([ses EXCEPT ![s] = after])

\* try_lock fails: another thread is at the session.
Skip(c, t, s) ==
    /\ loop[c].at = "scan" /\ <<t, s>> \in loop[c].snapshot
    /\ loop' = [loop EXCEPT ![c].snapshot = @ \ {<<t, s>>}]
    /\ UNCHANGED <<registered, services, cleaner, conn, handler, opened, seen>>
    /\ ses' = Dropping(ses)

\* The copy the clean-up works from; without anything to clean up, read_outputs
\* is through and lets go of the service.
Scanned(c) ==
    /\ loop[c].at = "scan" /\ loop[c].snapshot = {}
    /\ loop' = [loop EXCEPT ![c] =
                  IF @.closed = {} THEN [@ EXCEPT !.at = "send", !.service = None]
                  ELSE [@ EXCEPT !.at = "clean", !.copy = services[loop[c].service].sessions]]
    /\ UNCHANGED <<registered, services, cleaner, conn, handler, opened, seen>>
    /\ ses' = Dropping(ses)

\* Mutation: the child is taken and dropped.
ToReaperForgotten(r) == IF r.holder = "session" THEN [r EXCEPT !.holder = "none"] ELSE r

\* take() of the child and add_to_reaper.
ToReaper(r) == IF r.holder = "session" THEN [r EXCEPT !.holder = "reaper"] ELSE r

\* Mutation: a persistent service keeps it.
RemovesUnlessPersistent(l, s) == s # None /\ ~l.persistent

\* Whether a closed terminal leaves the service.
Removes(l, s) == s # None /\ (~l.persistent \/ ses[s].closed_message_sent)

\* One closed terminal: by its id, in the copy and in the service.
Clean(c, t) ==
    LET l == loop[c]
        e == CHOOSE x \in l.closed : x[1] = t
        s == l.copy[t]
        rest == l.closed \ {e}
        removes == Removes(l, s)
        next == [loop EXCEPT ![c] =
                   [l EXCEPT !.closed = rest,
                             !.at = IF rest = {} THEN "send" ELSE @,
                             !.service = IF rest = {} THEN None ELSE @,
                             !.copy = IF rest = {} THEN NoMap
                                      ELSE IF removes THEN [l.copy EXCEPT ![t] = None] ELSE @,
                             !.responses = IF conn[c] = "live"
                                             THEN Append(@, Response("closed", t, e[2], <<>>)) ELSE @]]
    IN
    /\ l.at = "clean" /\ \E x \in l.closed : x[1] = t
    /\ services' = IF removes THEN [services EXCEPT ![l.service].sessions[t] = None] ELSE services
    /\ loop' = next
    /\ UNCHANGED <<registered, cleaner, conn, handler, opened, seen>>
    /\ ses' = Dropping(IF s = None THEN ses ELSE [ses EXCEPT ![s] = ToReaper(@)])

\* What the client makes of a message: data goes to the terminal, closed ends it.
Received(v, m) ==
    IF m.kind = "closed"
      THEN [v EXCEPT !.ended = @ \cup {<<m.id, m.session>>}, !.owed = @ \ {m.id}]
      ELSE [v EXCEPT !.last[m.session] = m.chunks[Len(m.chunks)], !.owed = @ \ {m.id}]

\* The messages taken one after the other, in the order they are sent.
InTurn(op(_, _), from, rs) ==
    MapThenFoldSet(LAMBDA m, v : op(v, m), from, LAMBDA i : rs[i],
                   LAMBDA S : CHOOSE i \in S : \A j \in S : j <= i, DOMAIN rs)

SendResponses(c) ==
    LET rs == loop[c].responses
        over == {rs[i].id : i \in {j \in 1 .. Len(rs) : rs[j].kind = "closed"}}
    IN
    /\ loop[c].at = "send"
    /\ loop' = [loop EXCEPT ![c] = [NoLoop EXCEPT !.at = "ready"]]
    /\ seen' = [seen EXCEPT ![c] = InTurn(Received, @, rs)]
    /\ opened' = [opened EXCEPT ![c] = [t \in Ids |-> IF t \in over THEN None ELSE @[t]]]
    /\ UNCHANGED <<registered, services, ses, cleaner, conn, handler>>

\* The loop ends with its connection: look at the service, then remove it.
ExitLoop(c) ==
    /\ loop[c].at = "ready" /\ conn[c] = "dropping"
    /\ loop' = [loop EXCEPT ![c].at =
                  IF registered # None /\ ~services[registered].persistent THEN "remove" ELSE "done"]
    /\ UNCHANGED <<registered, services, ses, cleaner, conn, handler, opened, seen>>

RemoveOwn(c) ==
    /\ loop[c].at = "remove"
    /\ loop' = [loop EXCEPT ![c].at = "done"]
    /\ registered' = None
    /\ UNCHANGED <<services, cleaner, conn, handler, opened, seen>>
    /\ ses' = Dropping(StopAll)

----------------------------------------------------------------------------
Shell(s) == ChildExits(s) \/ ReaderReads(s) \/ ReaderEnds(s)

Polling(c) ==
    \/ Fetch(c) \/ Scan(c) \/ Scanned(c) \/ SendResponses(c) \/ ExitLoop(c) \/ RemoveOwn(c)
    \/ \E t \in Ids : Clean(c, t)
    \/ \E t \in Ids, s \in Sessions : Process(c, t, s) \/ Skip(c, t, s)

Next ==
    \/ \E s \in Sessions : Shell(s)
    \/ check_zombie_terminals \/ CollectIdle \/ RemoveIdle
    \/ \E c \in Conns :
          \/ InitService(c) \/ Leave(c) \/ DropConnection(c) \/ Joined(c)
          \/ Ask(c, "toggle", None) \/ \E t \in Ids : Ask(c, "open", t) \/ Ask(c, "close", t)
          \/ set_persistent(c) \/ handle_open(c) \/ handle_close(c)
          \/ Polling(c)

Spec == Init /\ [][Next /\ UNCHANGED scenario]_<<vars, scenario>>

ProcessEnded == \E c \in Conns, t \in Ids, s \in Sessions : Ended(ses[s]) /\ Process(c, t, s)

\* The loops' threads run.  A session's lock is held for moments, so a loop that
\* comes back to a session gets it one day.  (Both follow from the fairness of each
\* thread.)  Shells, clients and their handlers owe nothing.
FairSpec ==
    Spec /\ WF_vars(\E c \in Conns : Polling(c)) /\ SF_vars(ProcessEnded)

----------------------------------------------------------------------------
(* Properties. *)

\* No shell is forgotten while it runs or is a zombie: its session is still within
\* reach, or the reaper has it.  Whoever takes a session out of a map, and whichever
\* thread drops it last, hands the child over.  The exception is the shell of an
\* open that failed after starting it (see OpenFails): nobody has it, and no client
\* has ever been told that it is open.
NoOrphan ==
    \A s \in Sessions : ses[s].child \in {"running", "exited"} =>
        \/ ses[s].holder = "reaper"
        \/ ses[s].holder = "session" /\ ses[s].up /\ s \in Referenced
        \/ ses[s].holder = "lost" /\ scenario.fails /\ \A c \in Conns : s \notin Listed(opened[c])

\* What connection c's loop is about to send of session s.
ChunksOf(c, s) ==
    InTurn(LAMBDA acc, m : IF m.session = s THEN acc \o m.chunks ELSE acc, <<>>, loop[c].responses)

\* On one connection a client never sees a piece of output twice or out of order,
\* whether it comes from the history, from what piled up while nobody polled, or
\* live.  Excepted is a client that leaves while an open of its is being worked on:
\* that open may come after the one of the next connection, and have the session
\* replay to it what it has been sent.
StreamInOrder ==
    ~scenario.late => \A c \in Conns, s \in Sessions : conn[c] = "live" =>
        LET q == <<seen[c].last[s]>> \o ChunksOf(c, s)
        IN  \A i, j \in 1 .. Len(q) : i < j => q[i] < q[j]

\* Once a loop has reported a terminal closed it sends nothing more of it.  After
\* the answer to a close of the client's own, a loop may still send what it had
\* got hold of before; but a round whose scan comes after the answer has nothing.
NothingAfterClosed ==
    \A c \in Conns : conn[c] = "live" =>
        LET rs == loop[c].responses
        IN  \A j \in 1 .. Len(rs) : rs[j].kind # "closed" =>
                /\ <<rs[j].id, rs[j].session>> \notin seen[c].ended \cup loop[c].answered
                /\ \A i \in 1 .. j - 1 : rs[i].session = rs[j].session => rs[i].kind # "closed"

\* A client looks at a terminal whose shell has exited, and has not been told.  (Not
\* when an open gave it a session that had another id: a loop may by then have
\* reported that session under the old one.)
Unreported ==
    \E c \in Conns, t \in Ids :
        /\ conn[c] = "live" /\ opened[c][t] # None /\ ~seen[c].remapped
        /\ ses[opened[c][t]].child # "running"

\* A client with one connection at a time learns of every exit of a shell it looks
\* at: there comes a time when nothing is unreported.
ExitReported ==
    (~scenario.overlap /\ ~scenario.idle) => (Unreported ~> ~Unreported)

\* "Send real-time data after historical buffer" (terminal_service.rs:2020): a
\* client whose open announced a replay is sent it before anything new.  Excepted
\* are the loop of its own older connection, which takes the replay as long as
\* nobody has dropped it, and a loop that still has the session under the id it
\* had before the open gave it another.
ReplayComesFirst ==
    ~scenario.overlap => \A c \in Conns : (conn[c] = "live" /\ ~seen[c].remapped) =>
        LET rs == loop[c].responses
        IN  \A i \in 1 .. Len(rs) :
                (rs[i].kind = "data" /\ rs[i].id \in seen[c].owed) =>
                    \E j \in 1 .. i - 1 : rs[j].kind = "replay" /\ rs[j].id = rs[i].id
============================================================================
