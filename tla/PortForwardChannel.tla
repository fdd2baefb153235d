------------------------- MODULE PortForwardChannel -------------------------
(***************************************************************************)
(* One multiplexed port-forward channel, both of its ends and the tunnel   *)
(* between them.                                                           *)
(*                                                                         *)
(*   "ctl"  the controller: TunnelHandle::open and on_frame, tunnel_loop;  *)
(*   "srv"  the controlled side: PortForwardMux::handle, on_open and       *)
(*          run_controlled_channel inside the connection's loop;           *)
(*   both   run_channel with its two relays, one per direction.            *)
(*                                                                         *)
(* Each end is three tasks (the channel task and its relays) beside the    *)
(* loop that owns the stream; every await is a point where the others run. *)
(* The controller's frames pass a bounded data queue and an unbounded      *)
(* control queue before the stream; the controlled side's one unbounded    *)
(* queue and its stream are one FIFO (net.srv).  Data frames carry the     *)
(* offset of their first byte, the bytes themselves do not matter.         *)
(***************************************************************************)
EXTENDS PortForwardWindow, Sequences

CONSTANTS
    DATA_QUEUE_FRAMES,  \* capacity of the controller's data queue
    Scenarios           \* bounds: the bytes each socket may yield, and whether the
                        \* tunnel may end while the channel is there

ASSUME ChannelAssumption ==
    /\ DATA_QUEUE_FRAMES \in Nat \ {0}
    /\ Scenarios \subseteq [ctl : Nat, srv : Nat, ends : BOOLEAN]

Sides == {"ctl", "srv"}
Peer(s) == IF s = "ctl" THEN "srv" ELSE "ctl"
RelayEnd == {"LocalEof", "PeerClosed", "Violation", "Cancelled", "TunnelGone"}

VARIABLES
    scenario,   \* what the environment of this channel may do
    \* per end: the demultiplexer and the tunnel
    loop,       \* the loop owning the stream still runs
    sink,       \* the queues into that loop still have their receiver
    entry,      \* the channel is in the end's map
    opened,     \* ChannelEntry.opened (controller)
    teardown,   \* the level raised by close_all
    \* per end: the channel task and its relays
    task, up, down, cancel,
    allow,      \* what `take` handed to the relay that is now reading
    out,        \* the frame the reading relay is sending, if any
    inbound,    \* the queue from the demultiplexer to the channel task
    pending,    \* what arrived before the target was connected
    chunk,      \* the frame being written to the socket, if any
    advert,     \* credited back, window_update not yet sent
    \* per end: SendCredit and RecvWindow
    credit, permit, remaining, drained,
    \* the way to the other end
    dataQ, controlQ, net,
    \* per end: bytes read from, written to the local socket; closes sent
    read, written, closes

tunnelVars == <<loop, sink, entry, opened, teardown>>
taskVars == <<task, up, down, cancel>>
bufferVars == <<allow, out, inbound, pending, chunk, advert>>
windowVars == <<credit, permit, remaining, drained>>
wireVars == <<dataQ, controlQ, net>>
history == <<read, written, closes>>
vars == <<tunnelVars, taskVars, bufferVars, windowVars, wireVars, history>>

Supply(s) == scenario[s]

open_msg == [kind |-> "open"]
opened_msg(success) == [kind |-> "opened", success |-> success]
data_msg(off, len) == [kind |-> "data", off |-> off, len |-> len]
close_msg == [kind |-> "close"]
window_update_msg(n) == [kind |-> "update", add |-> n]

Close == [kind |-> "close"]
Violation == [kind |-> "violation"]

SumOf(costs) ==
    LET sum[n \in 0 .. Len(costs)] == IF n = 0 THEN 0 ELSE sum[n - 1] + costs[n]
    IN  sum[Len(costs)]

\* What a message, or a sequence of them, costs its window.
Cost(m) == IF m.kind = "data" THEN charge(m.len) ELSE 0
CostOf(q) == SumOf([i \in 1 .. Len(q) |-> Cost(q[i])])

Ended(s) == up[s] \in RelayEnd /\ down[s] \in RelayEnd

\* The receiver of the inbound queue is with the channel task, then with its
\* writing relay.
InboundOpen(s) ==
    \/ task[s] \in {"opening", "connecting", "connected", "granted"}
    \/ task[s] \in {"running", "joining"} /\ down[s] \notin RelayEnd

Push(s, item) ==
    inbound' = IF InboundOpen(s) THEN [inbound EXCEPT ![s] = Append(@, item)] ELSE inbound

\* FrameSink::send_ordered: the controller's queue is bounded, so it may wait.
\* The controlled side's queue is not read once its loop has ended.
SendOrderedOrDrop(s, m) ==
    /\ sink[s]
    /\ \/ /\ s = "ctl"
          /\ dataQ' = IF Len(dataQ) < DATA_QUEUE_FRAMES THEN Append(dataQ, m) ELSE dataQ
          /\ UNCHANGED <<controlQ, net>>
       \/ /\ s = "srv"
          /\ net' = IF loop["srv"] THEN [net EXCEPT !["srv"] = Append(@, m)] ELSE net
          /\ UNCHANGED <<dataQ, controlQ>>

SendOrdered(s, m) ==
    /\ sink[s]
    /\ \/ /\ s = "ctl" /\ Len(dataQ) < DATA_QUEUE_FRAMES
          /\ dataQ' = Append(dataQ, m) /\ UNCHANGED <<controlQ, net>>
       \/ /\ s = "srv"
          /\ net' = IF loop["srv"] THEN [net EXCEPT !["srv"] = Append(@, m)] ELSE net
          /\ UNCHANGED <<dataQ, controlQ>>

\* FrameSink::send_control never waits.
SendControl(s, m) ==
    /\ sink[s]
    /\ \/ s = "ctl" /\ controlQ' = Append(controlQ, m) /\ UNCHANGED <<dataQ, net>>
       \/ s = "srv" /\ SendOrdered(s, m)

\* SendCredit::add, waking or pre-arming the one parked `take`.
AddCreditNotifyWaiters(s, n) ==
    /\ credit' = [credit EXCEPT ![s] = add(@, n)]
    /\ permit' = [permit EXCEPT ![s] = @ \/ up[s] = "parked"]

AddCreditAbsolute(s, n) ==
    /\ credit' = [credit EXCEPT ![s] = n]
    /\ permit' = [permit EXCEPT ![s] = TRUE]

AddCredit(s, n) ==
    /\ credit' = [credit EXCEPT ![s] = add(@, n)]
    /\ permit' = [permit EXCEPT ![s] = TRUE]

Init ==
    /\ scenario \in Scenarios
    /\ loop = [s \in Sides |-> TRUE] /\ sink = [s \in Sides |-> TRUE]
    /\ entry = [s \in Sides |-> FALSE] /\ opened = FALSE
    /\ teardown = [s \in Sides |-> FALSE]
    /\ task = [s \in Sides |-> "none"]
    /\ up = [s \in Sides |-> "off"] /\ down = [s \in Sides |-> "off"]
    /\ cancel = [s \in Sides |-> FALSE]
    /\ allow = [s \in Sides |-> 0] /\ advert = [s \in Sides |-> 0]
    /\ out = [s \in Sides |-> <<>>] /\ inbound = [s \in Sides |-> <<>>]
    /\ chunk = [s \in Sides |-> <<>>] /\ pending = [s \in Sides |-> <<>>]
    /\ credit = [s \in Sides |-> IF s = "ctl" THEN INITIAL_WINDOW ELSE CHANNEL_WINDOW]
    /\ remaining = [s \in Sides |-> IF s = "ctl" THEN CHANNEL_WINDOW ELSE INITIAL_WINDOW]
    /\ permit = [s \in Sides |-> FALSE] /\ drained = [s \in Sides |-> 0]
    /\ dataQ = <<>> /\ controlQ = <<>> /\ net = [s \in Sides |-> <<>>]
    /\ read = [s \in Sides |-> 0] /\ written = [s \in Sides |-> 0]
    /\ closes = [s \in Sides |-> 0]

----------------------------------------------------------------------------
(* relay_socket_to_tunnel: local socket to tunnel, under the peer's credit. *)

TakeCredit(s) ==
    /\ up[s] = "take" /\ CanTake(credit[s])
    /\ allow' = [allow EXCEPT ![s] = take(credit[s])]
    /\ credit' = [credit EXCEPT ![s] = @ - take(@)]
    /\ up' = [up EXCEPT ![s] = "read"]
    /\ UNCHANGED <<tunnelVars, task, down, cancel, out, inbound, pending, chunk, advert,
                   permit, remaining, drained, wireVars, history>>

\* The credit is looked at under its lock; the wait begins after it, and is
\* over at once if a permit was stored meanwhile.
LookAtCredit(s) ==
    /\ up[s] = "take" /\ ~CanTake(credit[s])
    /\ up' = [up EXCEPT ![s] = "looked"]
    /\ UNCHANGED <<tunnelVars, task, down, cancel, bufferVars, windowVars, wireVars, history>>

Park(s) ==
    /\ up[s] = "looked"
    /\ up' = [up EXCEPT ![s] = "parked"]
    /\ UNCHANGED <<tunnelVars, task, down, cancel, bufferVars, windowVars, wireVars, history>>

Wake(s) ==
    /\ up[s] = "parked" /\ permit[s]
    /\ permit' = [permit EXCEPT ![s] = FALSE]
    /\ up' = [up EXCEPT ![s] = "take"]
    /\ UNCHANGED <<tunnelVars, task, down, cancel, bufferVars, credit, remaining, drained,
                   wireVars, history>>

\* The socket yields len bytes: what they do not cost is refunded.
ReadSocket(s, len) ==
    /\ up[s] = "read"
    /\ len <= allow[s] /\ read[s] + len <= Supply(s)
    /\ IF charge(len) < allow[s]
         THEN AddCredit(s, allow[s] - charge(len))
         ELSE UNCHANGED <<credit, permit>>
    /\ out' = [out EXCEPT ![s] = <<data_msg(read[s], len)>>]
    /\ read' = [read EXCEPT ![s] = @ + len]
    /\ allow' = [allow EXCEPT ![s] = 0]
    /\ up' = [up EXCEPT ![s] = "send"]
    /\ UNCHANGED <<tunnelVars, task, down, cancel, inbound, pending, chunk, advert,
                   remaining, drained, wireVars, written, closes>>

\* The local application closes its socket, or reading fails.
ReadEof(s) ==
    /\ up[s] = "read"
    /\ AddCredit(s, allow[s])
    /\ allow' = [allow EXCEPT ![s] = 0]
    /\ up' = [up EXCEPT ![s] = "LocalEof"]
    /\ UNCHANGED <<tunnelVars, task, down, cancel, out, inbound, pending, chunk, advert,
                   remaining, drained, wireVars, history>>

\* Not under the select: a frame that was read is sent unless the tunnel is gone.
SendFrame(s) ==
    /\ up[s] = "send"
    /\ \/ /\ SendOrdered(s, Head(out[s]))
          /\ up' = [up EXCEPT ![s] = "take"]
       \/ /\ ~sink[s]
          /\ up' = [up EXCEPT ![s] = "TunnelGone"]
          /\ UNCHANGED wireVars
    /\ out' = [out EXCEPT ![s] = <<>>]
    /\ UNCHANGED <<tunnelVars, task, down, cancel, allow, inbound, pending, chunk, advert,
                   windowVars, history>>

CancelReading(s) ==
    /\ cancel[s]
    /\ \/ up[s] \in {"take", "parked"} /\ UNCHANGED <<credit, permit>>
       \/ up[s] = "read" /\ AddCredit(s, allow[s])
    /\ allow' = [allow EXCEPT ![s] = 0]
    /\ up' = [up EXCEPT ![s] = "Cancelled"]
    /\ UNCHANGED <<tunnelVars, task, down, cancel, out, inbound, pending, chunk, advert,
                   remaining, drained, wireVars, history>>

----------------------------------------------------------------------------
(* relay_tunnel_to_socket: tunnel to local socket. *)

\* The relay returns: its queue goes with it.
EndWriting(s, end) ==
    /\ down' = [down EXCEPT ![s] = end]
    /\ inbound' = [inbound EXCEPT ![s] = <<>>]
    /\ pending' = [pending EXCEPT ![s] = <<>>]
    /\ chunk' = [chunk EXCEPT ![s] = <<>>]

StartWrite(s, m) ==
    /\ chunk' = [chunk EXCEPT ![s] = <<m>>]
    /\ down' = [down EXCEPT ![s] = "write"]

\* What was buffered while connecting goes first, then the queue; the queue
\* ends when the map has dropped its sender.
NextChunk(s) ==
    /\ down[s] = "recv"
    /\ \/ /\ pending[s] # <<>>
          /\ StartWrite(s, Head(pending[s]))
          /\ pending' = [pending EXCEPT ![s] = Tail(@)]
          /\ UNCHANGED inbound
       \/ /\ pending[s] = <<>> /\ inbound[s] # <<>>
          /\ Head(inbound[s]).kind = "data"
          /\ StartWrite(s, Head(inbound[s]))
          /\ inbound' = [inbound EXCEPT ![s] = Tail(@)]
          /\ UNCHANGED pending
       \/ /\ pending[s] = <<>> /\ inbound[s] # <<>>
          /\ Head(inbound[s]).kind # "data"
          /\ EndWriting(s, IF Head(inbound[s]) = Close THEN "PeerClosed" ELSE "Violation")
       \/ /\ pending[s] = <<>> /\ inbound[s] = <<>> /\ ~entry[s]
          /\ EndWriting(s, "TunnelGone")
    /\ UNCHANGED <<tunnelVars, task, up, cancel, allow, out, advert, windowVars, wireVars,
                   history>>

\* write_all succeeded: RecvWindow::drained, under its lock.
WriteSocket(s) ==
    /\ down[s] = "write"
    /\ LET cost == Cost(Head(chunk[s]))
           sum  == DrainedSince(drained[s], cost)
       IN IF Advertises(drained[s], cost)
            THEN /\ drained' = [drained EXCEPT ![s] = 0]
                 /\ remaining' = [remaining EXCEPT ![s] = @ + sum]
                 /\ advert' = [advert EXCEPT ![s] = sum]
                 /\ down' = [down EXCEPT ![s] = "advertise"]
            ELSE /\ drained' = [drained EXCEPT ![s] = sum]
                 /\ down' = [down EXCEPT ![s] = "recv"]
                 /\ UNCHANGED <<remaining, advert>>
    /\ written' = [written EXCEPT ![s] = @ + Head(chunk[s]).len]
    /\ chunk' = [chunk EXCEPT ![s] = <<>>]
    /\ UNCHANGED <<tunnelVars, task, up, cancel, allow, out, inbound, pending, credit, permit,
                   wireVars, read, closes>>

\* The local application is gone.
WriteFails(s) ==
    /\ down[s] = "write"
    /\ EndWriting(s, "LocalEof")
    /\ UNCHANGED <<tunnelVars, task, up, cancel, allow, out, advert, windowVars, wireVars,
                   history>>

Advertise(s) ==
    /\ down[s] = "advertise"
    /\ \/ /\ SendControl(s, window_update_msg(advert[s]))
          /\ down' = [down EXCEPT ![s] = "recv"]
          /\ UNCHANGED <<inbound, pending, chunk>>
       \/ /\ ~sink[s]
          /\ EndWriting(s, "TunnelGone")
          /\ UNCHANGED wireVars
    /\ advert' = [advert EXCEPT ![s] = 0]
    /\ UNCHANGED <<tunnelVars, task, up, cancel, allow, out, windowVars, history>>

CancelWriting(s) ==
    /\ cancel[s]
    /\ \/ down[s] = "write"
       \/ down[s] = "recv" /\ pending[s] = <<>>
    /\ EndWriting(s, "Cancelled")
    /\ UNCHANGED <<tunnelVars, task, up, cancel, allow, out, advert, windowVars, wireVars,
                   history>>

----------------------------------------------------------------------------
(* run_channel: whichever relay ends first, or the teardown, cancels. *)

StartRelays(s) ==
    /\ task' = [task EXCEPT ![s] = "running"]
    /\ up' = [up EXCEPT ![s] = "take"]
    /\ down' = [down EXCEPT ![s] = "recv"]

CancelRelaysNoTeardown(s) ==
    /\ task[s] = "running"
    /\ up[s] \in RelayEnd \/ down[s] \in RelayEnd
    /\ task' = [task EXCEPT ![s] = "joining"]
    /\ cancel' = [cancel EXCEPT ![s] = TRUE]
    /\ UNCHANGED <<tunnelVars, up, down, bufferVars, windowVars, wireVars, history>>

CancelRelays(s) ==
    /\ task[s] = "running"
    /\ up[s] \in RelayEnd \/ down[s] \in RelayEnd \/ teardown[s]
    /\ task' = [task EXCEPT ![s] = "joining"]
    /\ cancel' = [cancel EXCEPT ![s] = TRUE]
    /\ UNCHANGED <<tunnelVars, up, down, bufferVars, windowVars, wireVars, history>>

\* `close` is owed only when the channel ended for a local reason.
OwesCloseAlways(s) == {up[s], down[s]} \cap {"LocalEof", "Violation"} # {}

OwesCloseOnReadEof(s) == up[s] = "LocalEof" /\ down[s] \notin {"PeerClosed", "TunnelGone"}

OwesClose(s) ==
    LET ends == {up[s], down[s]}
    IN  /\ ends \cap {"PeerClosed", "TunnelGone"} = {}
        /\ ends \cap {"LocalEof", "Violation"} # {}

JoinRelays(s) ==
    /\ task[s] = "joining" /\ Ended(s)
    /\ task' = [task EXCEPT ![s] = IF OwesClose(s) THEN "closing" ELSE "ended"]
    /\ UNCHANGED <<tunnelVars, up, down, cancel, bufferVars, windowVars, wireVars, history>>

SendCloseUnordered(s) ==
    /\ task[s] = "closing"
    /\ \/ /\ SendControl(s, close_msg)
          /\ closes' = [closes EXCEPT ![s] = @ + 1]
       \/ ~sink[s] /\ UNCHANGED <<wireVars, closes>>
    /\ task' = [task EXCEPT ![s] = "ended"]
    /\ UNCHANGED <<tunnelVars, up, down, cancel, bufferVars, windowVars, read, written>>

SendClose(s) ==
    /\ task[s] = "closing"
    /\ \/ /\ SendOrdered(s, close_msg)
          /\ closes' = [closes EXCEPT ![s] = @ + 1]
       \/ ~sink[s] /\ UNCHANGED <<wireVars, closes>>
    /\ task' = [task EXCEPT ![s] = "ended"]
    /\ UNCHANGED <<tunnelVars, up, down, cancel, bufferVars, windowVars, read, written>>

\* The task is over: the controller takes the channel out of its map, the
\* controlled side leaves its entry, whose queue is closed from now on.
EndTask(s) ==
    /\ task[s] = "ended"
    /\ task' = [task EXCEPT ![s] = "gone"]
    /\ entry' = IF s = "ctl" THEN [entry EXCEPT !["ctl"] = FALSE] ELSE entry
    /\ UNCHANGED <<loop, sink, opened, teardown, up, down, cancel, bufferVars, windowVars,
                   wireVars, history>>

----------------------------------------------------------------------------
(* The controller: TunnelHandle. *)

\* TunnelHandle::open.  It looks at the queue only, so it can still succeed
\* while the tunnel loop is on its way out, after close_all.
Open ==
    /\ task["ctl"] = "none" /\ sink["ctl"]
    /\ task' = [task EXCEPT !["ctl"] = "opening"]
    /\ entry' = [entry EXCEPT !["ctl"] = TRUE]
    /\ opened' = FALSE
    /\ credit' = [credit EXCEPT !["ctl"] = AtMost(INITIAL_WINDOW, MAX_SEND_CREDIT)]
    /\ remaining' = [remaining EXCEPT !["ctl"] = effective_window(CHANNEL_WINDOW)]
    /\ UNCHANGED <<loop, sink, teardown, up, down, cancel, bufferVars, permit, drained,
                   wireVars, history>>

SendOpen ==
    /\ task["ctl"] = "opening"
    /\ \/ SendOrdered("ctl", open_msg) /\ StartRelays("ctl")
       \/ /\ ~sink["ctl"]
          /\ task' = [task EXCEPT !["ctl"] = "ended"]
          /\ UNCHANGED <<up, down, wireVars>>
    /\ UNCHANGED <<tunnelVars, cancel, bufferVars, windowVars, history>>

\* TunnelHandle::on_frame, one disjunct per arm.  Every arm ignores a channel
\* the map no longer has.
OnOpened(m) ==
    /\ m.kind = "opened"
    /\ \/ /\ m.success /\ entry["ctl"] /\ ~opened
          /\ opened' = TRUE
          /\ IF raise_initial(CHANNEL_WINDOW) > 0
               THEN AddCredit("ctl", raise_initial(CHANNEL_WINDOW))
               ELSE UNCHANGED <<credit, permit>>
          /\ UNCHANGED <<entry, inbound>>
       \/ /\ ~m.success /\ entry["ctl"]
          /\ entry' = [entry EXCEPT !["ctl"] = FALSE]
          /\ Push("ctl", Close)
          /\ UNCHANGED <<opened, credit, permit>>
       \/ /\ ~entry["ctl"] \/ (m.success /\ opened)
          /\ UNCHANGED <<opened, entry, inbound, credit, permit>>
    /\ UNCHANGED <<remaining>>

\* The `data` arm of both demultiplexers: charge the window, hand the frame to
\* the channel task, and drop the channel when either does not work.
OnData(s, m) ==
    /\ m.kind = "data"
    /\ IF ~entry[s]
         THEN UNCHANGED <<entry, inbound, remaining>>
         ELSE IF accept(remaining[s], Cost(m))
           THEN /\ remaining' = [remaining EXCEPT ![s] = @ - Cost(m)]
                /\ entry' = [entry EXCEPT ![s] = InboundOpen(s)]
                /\ Push(s, m)
           ELSE /\ entry' = [entry EXCEPT ![s] = FALSE]
                /\ Push(s, Violation)
                /\ UNCHANGED remaining
    /\ UNCHANGED <<opened, credit, permit>>

OnClose(s, m) ==
    /\ m.kind = "close"
    /\ entry' = [entry EXCEPT ![s] = FALSE]
    /\ IF entry[s] THEN Push(s, Close) ELSE UNCHANGED inbound
    /\ UNCHANGED <<opened, credit, permit, remaining>>

OnWindowUpdate(s, m) ==
    /\ m.kind = "update"
    /\ IF entry[s] THEN AddCredit(s, m.add) ELSE UNCHANGED <<credit, permit>>
    /\ UNCHANGED <<opened, entry, inbound, remaining>>

OnFrame ==
    /\ loop["ctl"] /\ net["srv"] # <<>>
    /\ LET m == Head(net["srv"])
       IN  OnOpened(m) \/ OnData("ctl", m) \/ OnClose("ctl", m) \/ OnWindowUpdate("ctl", m)
    /\ net' = [net EXCEPT !["srv"] = Tail(@)]
    /\ UNCHANGED <<loop, sink, teardown, taskVars, allow, out, pending, chunk, advert, drained,
                   dataQ, controlQ, history>>

\* tunnel_loop's two writing arms, in the order select! happens to pick.
PumpData ==
    /\ loop["ctl"] /\ dataQ # <<>>
    /\ net' = [net EXCEPT !["ctl"] = Append(@, Head(dataQ))]
    /\ dataQ' = Tail(dataQ)
    /\ UNCHANGED <<tunnelVars, taskVars, bufferVars, windowVars, controlQ, history>>

PumpControl ==
    /\ loop["ctl"] /\ controlQ # <<>>
    /\ net' = [net EXCEPT !["ctl"] = Append(@, Head(controlQ))]
    /\ controlQ' = Tail(controlQ)
    /\ UNCHANGED <<tunnelVars, taskVars, bufferVars, windowVars, dataQ, history>>

----------------------------------------------------------------------------
(* The controlled side: PortForwardMux and run_controlled_channel. *)

\* PortForwardMux::on_open: refused (no permission, too many channels, a
\* target other than the login's), or a task that starts to connect.
OnOpen(m) ==
    /\ m.kind = "open"
    /\ \/ /\ net' = [net EXCEPT !["ctl"] = Tail(@), !["srv"] = Append(@, opened_msg(FALSE))]
          /\ UNCHANGED <<task, entry, credit, remaining>>
       \/ /\ net' = [net EXCEPT !["ctl"] = Tail(@)]
          /\ task' = [task EXCEPT !["srv"] = "connecting"]
          /\ entry' = [entry EXCEPT !["srv"] = TRUE]
          /\ credit' = [credit EXCEPT !["srv"] =
                          AtMost(effective_window(CHANNEL_WINDOW), MAX_SEND_CREDIT)]
          /\ remaining' = [remaining EXCEPT !["srv"] = effective_window(INITIAL_WINDOW)]
    /\ UNCHANGED <<opened, inbound, permit>>

Handle ==
    /\ loop["srv"] /\ net["ctl"] # <<>>
    /\ LET m == Head(net["ctl"])
       IN  \/ OnOpen(m)
           \/ /\ OnData("srv", m) \/ OnClose("srv", m) \/ OnWindowUpdate("srv", m)
              /\ net' = [net EXCEPT !["ctl"] = Tail(@)]
              /\ UNCHANGED task
    /\ UNCHANGED <<loop, sink, teardown, up, down, cancel, allow, out, pending, chunk, advert,
                   drained, dataQ, controlQ, history>>

pending_fits(q, m) == CostOf(q) + Cost(m) <= INITIAL_WINDOW

\* The task returns before it has relays.
Abandon(extra) ==
    /\ task' = [task EXCEPT !["srv"] = "gone"]
    /\ inbound' = [inbound EXCEPT !["srv"] = <<>>]
    /\ pending' = [pending EXCEPT !["srv"] = <<>>]
    /\ IF extra = <<>> \/ ~sink["srv"] THEN UNCHANGED wireVars ELSE SendOrdered("srv", Head(extra))
    /\ closes' = IF extra = <<close_msg>> /\ sink["srv"] THEN [closes EXCEPT !["srv"] = @ + 1]
                 ELSE closes

\* The command arm of the biased select: anything queued is looked at before
\* the connect is.
ConnectCommand ==
    /\ task["srv"] = "connecting"
    /\ \/ /\ inbound["srv"] # <<>>
          /\ LET cmd == Head(inbound["srv"])
             IN  IF cmd.kind = "data" /\ pending_fits(pending["srv"], cmd)
                   THEN /\ pending' = [pending EXCEPT !["srv"] = Append(@, cmd)]
                        /\ inbound' = [inbound EXCEPT !["srv"] = Tail(@)]
                        /\ UNCHANGED <<task, wireVars, closes>>
                   ELSE Abandon(IF cmd = Close THEN <<>> ELSE <<close_msg>>)
       \/ inbound["srv"] = <<>> /\ ~entry["srv"] /\ Abandon(<<>>)
    /\ UNCHANGED <<tunnelVars, up, down, cancel, allow, out, chunk, advert, windowVars, read,
                   written>>

CanLookAtConnect == task["srv"] = "connecting" /\ inbound["srv"] = <<>> /\ entry["srv"]

ConnectFails ==
    /\ CanLookAtConnect
    /\ Abandon(<<opened_msg(FALSE)>>)
    /\ UNCHANGED <<tunnelVars, up, down, cancel, allow, out, chunk, advert, windowVars, read,
                   written>>

ConnectSucceeds ==
    /\ CanLookAtConnect
    /\ task' = [task EXCEPT !["srv"] = "connected"]
    /\ UNCHANGED <<tunnelVars, up, down, cancel, bufferVars, windowVars, wireVars, history>>

\* Granted before `opened` leaves.
GrantWindowWhole ==
    /\ task["srv"] = "connected"
    /\ remaining' = [remaining EXCEPT !["srv"] = @ + CHANNEL_WINDOW]
    /\ task' = [task EXCEPT !["srv"] = "granted"]
    /\ UNCHANGED <<tunnelVars, up, down, cancel, bufferVars, credit, permit, drained, wireVars,
                   history>>

GrantWindow ==
    /\ task["srv"] = "connected"
    /\ remaining' = [remaining EXCEPT !["srv"] = @ + (CHANNEL_WINDOW - INITIAL_WINDOW)]
    /\ task' = [task EXCEPT !["srv"] = "granted"]
    /\ UNCHANGED <<tunnelVars, up, down, cancel, bufferVars, credit, permit, drained, wireVars,
                   history>>

SendOpened ==
    /\ task["srv"] = "granted"
    /\ \/ /\ SendOrdered("srv", opened_msg(TRUE)) /\ StartRelays("srv")
          /\ UNCHANGED <<inbound, pending, closes>>
       \/ /\ ~sink["srv"] /\ Abandon(<<>>)
          /\ up' = [up EXCEPT !["srv"] = "TunnelGone"]
          /\ down' = [down EXCEPT !["srv"] = "TunnelGone"]
    /\ UNCHANGED <<tunnelVars, cancel, allow, out, chunk, advert, windowVars, read, written>>

----------------------------------------------------------------------------
(* The tunnel ends: the stream fails or times out, the window or the session *)
(* is closed.  close_all clears the map and raises the teardown; what the    *)
(* controlled side's loop had not written to the stream is lost.             *)

EndLoop(s) ==
    /\ scenario.ends /\ loop[s]
    /\ loop' = [loop EXCEPT ![s] = FALSE]
    /\ entry' = [entry EXCEPT ![s] = FALSE]
    /\ teardown' = [teardown EXCEPT ![s] = TRUE]
    /\ \/ s = "ctl" /\ UNCHANGED net
       \/ s = "srv" /\ \E k \in 0 .. Len(net["srv"]) :
             net' = [net EXCEPT !["srv"] = SubSeq(@, 1, k)]
    /\ UNCHANGED <<sink, opened, taskVars, bufferVars, windowVars, dataQ, controlQ, history>>

\* The loop returns and drops the receivers of the queues.
DropQueues(s) ==
    /\ ~loop[s] /\ sink[s]
    /\ sink' = [sink EXCEPT ![s] = FALSE]
    /\ UNCHANGED <<loop, entry, opened, teardown, taskVars, bufferVars, windowVars, wireVars,
                   history>>

Reading(s) ==
    TakeCredit(s) \/ LookAtCredit(s) \/ Park(s) \/ Wake(s) \/ SendFrame(s) \/ CancelReading(s)
Writing(s) == NextChunk(s) \/ Advertise(s) \/ CancelWriting(s)
Channel(s) == CancelRelays(s) \/ JoinRelays(s) \/ SendClose(s) \/ EndTask(s)
Connecting == ConnectCommand \/ ConnectFails \/ ConnectSucceeds \/ GrantWindow \/ SendOpened

Next ==
    \/ Open \/ SendOpen \/ OnFrame \/ PumpData \/ PumpControl
    \/ Handle \/ Connecting
    \/ \E s \in Sides :
          \/ Reading(s) \/ Writing(s) \/ Channel(s)
          \/ ReadEof(s) \/ WriteSocket(s) \/ WriteFails(s)
          \/ \E len \in 1 .. MAX_FRAME : ReadSocket(s, len)
          \/ EndLoop(s) \/ DropQueues(s)

\* Once a channel is over or never opened the tunnel may go on without it.
Spec == Init /\ [][Next /\ UNCHANGED scenario]_<<vars, scenario>>

\* The runtime polls every task that is ready, select! is fair to its arms, a
\* connect ends within CONNECT_TIMEOUT_MS and a stream whose other end is gone
\* ends or times out.  Nothing is assumed of the applications at the sockets.
TaskFairness ==
    /\ WF_vars(SendOpen) /\ WF_vars(OnFrame) /\ WF_vars(PumpData) /\ WF_vars(PumpControl)
    /\ WF_vars(Handle) /\ WF_vars(Connecting)
    /\ \A s \in Sides :
          /\ WF_vars(Reading(s)) /\ WF_vars(Writing(s)) /\ WF_vars(Channel(s))
          /\ WF_vars(~loop[Peer(s)] /\ EndLoop(s)) /\ WF_vars(DropQueues(s))

FairSpec == Spec /\ TaskFairness

----------------------------------------------------------------------------
(* Properties *)

\* The bytes of a stream reach the other socket in order and without a gap,
\* whatever was buffered before the target was connected.
InOrder == \A s \in Sides : chunk[s] # <<>> => Head(chunk[s]).off = written[s]

\* A relay that saw the peer's `close` has written every byte the peer had read
\* from its socket ("after the last data").
NothingAfterClose == \A s \in Sides : down[s] = "PeerClosed" => written[s] = read[Peer(s)]

\* `close` leaves an end at most once, and never as an echo of the peer's.
CloseOnce == \A s \in Sides :
    /\ closes[s] <= 1
    /\ closes[s] = 1 => down[s] # "PeerClosed"

\* SendCredit's notify is not lost between the look at the credit and the wait:
\* a parked `take` whose credit suffices has a permit waiting.
NoLostWakeup == \A s \in Sides :
    up[s] \in {"looked", "parked"} /\ CanTake(credit[s]) => permit[s]

----------------------------------------------------------------------------
(* Liveness *)

\* Both applications keep reading what arrives for them.
ApplicationsRead == \A s \in Sides : WF_vars(WriteSocket(s))

\* A channel ends at both ends or at neither: as long as the applications read,
\* no end keeps a socket, a task or a place among MAX_CHANNELS for a channel the
\* other end has finished with.
EndsTogether == ApplicationsRead =>
    \A s \in Sides : task[s] = "gone" ~> task[Peer(s)] \in {"gone", "none"}

\* As long as they read, a sender without credit gets some again or its channel
\* ends.
CreditReturns == ApplicationsRead =>
    \A s \in Sides : up[s] = "parked" ~> up[s] # "parked"

\* When the tunnel ends every channel task ends, even one opened while
\* close_all was running and one parked on its socket or on a full queue,
\* whether or not the applications read.
TunnelEndsTasks == \A s \in Sides :
    ~loop[s] ~> task[s] \in {"gone", "none"}
=============================================================================
