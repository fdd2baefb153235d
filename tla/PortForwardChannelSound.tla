----------------------- MODULE PortForwardChannelSound -----------------------
(***************************************************************************)
(* What the tasks of a port-forward channel can be doing at the same time, *)
(* for every window, queue capacity and scenario: no wakeup for credit is  *)
(* lost, and `close` leaves an end at most once.                           *)
(*                                                                         *)
(* Sound is the invariant: the types, which states of the three tasks of   *)
(* an end go together (Phases) and what they hold then (Holds), and that   *)
(* `open` goes first and finds an untouched controlled side (Opening).     *)
(* What happens to the bytes is proved from it in PortForwardChannelProofs.*)
(***************************************************************************)
EXTENDS PortForwardChannel, TLAPS

\* Zenon first: in a module as long as this it takes up a leaf much sooner than SMT does.
USE ZenonT(60), SMTT(60)

\* The messages of a channel, by kind; a data message is never empty.
DataMsg == [kind : {"data"}, off : Nat, len : 1 .. MAX_FRAME]

UpdateMsg == [kind : {"update"}, add : Nat]

OpenedMsg == [kind : {"opened"}, success : BOOLEAN]

Msg == {open_msg, close_msg, Violation} \cup OpenedMsg \cup DataMsg \cup UpdateMsg

\* The receiver will read no more of the stream once it has seen m.
SaysEnd(m) == m.kind = "close" \/ (m.kind = "opened" /\ ~m.success)

\* The end of the stream is announced somewhere in q.
Says(q) == \E i \in 1 .. Len(q) : SaysEnd(q[i])

\* What appending does to a sequence: its length, its elements, its last one.
LEMMA SeqFacts ==
    ASSUME NEW S, NEW q \in Seq(S), NEW m \in S
    PROVE  /\ Append(q, m) \in Seq(S) /\ Len(Append(q, m)) = Len(q) + 1 /\ Append(q, m) # <<>>
           /\ \A i \in 1 .. Len(q) : Append(q, m)[i] = q[i]
           /\ Append(q, m)[Len(q) + 1] = m
  BY SMTT(60)

\* What taking the first element of a sequence leaves.
LEMMA TailFacts ==
    ASSUME NEW S, NEW q \in Seq(S), q # <<>>
    PROVE  /\ Head(q) \in S /\ Tail(q) \in Seq(S) /\ Len(Tail(q)) = Len(q) - 1 /\ Len(q) > 0
           /\ \A i \in 1 .. Len(q) - 1 : Tail(q)[i] = q[i + 1]
           /\ Head(q) = q[1] /\ Len(q) \in Nat
  BY SMTT(60)

\* What a prefix of a sequence holds.
LEMMA SubFacts ==
    ASSUME NEW S, NEW q \in Seq(S), NEW k \in 0 .. Len(q)
    PROVE  /\ SubSeq(q, 1, k) \in Seq(S) /\ Len(SubSeq(q, 1, k)) = k
           /\ \A i \in 1 .. k : SubSeq(q, 1, k)[i] = q[i]
  BY SMTT(60)

\* A sequence of length one is its head.
LEMMA OneFacts ==
    ASSUME NEW S, NEW q \in Seq(S), Len(q) = 1
    PROVE  q = <<Head(q)>> /\ Head(q) \in S /\ q # <<>>
<1>1. q # <<>> /\ Head(q) \in S
  BY SMTT(60)
<1>. QED BY SMTT(60), <1>1

\* The messages the two ends make are messages, and which of them announce the end: `close`
\* and a refused `opened` do, the others do not.
LEMMA Kinds ==
    /\ open_msg \in Msg /\ open_msg.kind = "open" /\ ~SaysEnd(open_msg)
    /\ close_msg \in Msg /\ close_msg.kind = "close" /\ SaysEnd(close_msg)
    /\ Close \in Msg /\ Close.kind = "close" /\ SaysEnd(Close)
    /\ Violation \in Msg /\ Violation.kind = "violation" /\ ~SaysEnd(Violation)
    /\ \A b \in BOOLEAN : /\ opened_msg(b) \in Msg /\ opened_msg(b).kind = "opened"
                          /\ SaysEnd(opened_msg(b)) <=> ~b
    /\ \A n \in Nat : window_update_msg(n) \in UpdateMsg
    /\ \A off \in Nat, len \in 1 .. MAX_FRAME : data_msg(off, len) \in DataMsg
  BY DEF Msg, DataMsg, UpdateMsg, OpenedMsg, SaysEnd, open_msg, close_msg, Close, Violation,
     opened_msg, window_update_msg, data_msg

\* The kind of a message tells which set it is from; every message has a cost.
LEMMA MsgFacts ==
    /\ \A m \in Msg : /\ m.kind = "data" => m \in DataMsg
                      /\ m.kind = "update" => m \in UpdateMsg
                      /\ Cost(m) \in Nat
    /\ \A m \in DataMsg : /\ m \in Msg /\ m.kind = "data" /\ m.off \in Nat /\ m.len \in Nat
                          /\ Cost(m) \in Nat /\ ~SaysEnd(m)
    /\ \A m \in UpdateMsg : m \in Msg /\ m.kind = "update" /\ m.add \in Nat /\ ~SaysEnd(m)
    /\ Seq(DataMsg) \subseteq Seq(Msg) /\ Seq(UpdateMsg) \subseteq Seq(Msg)
<1>1. \A m \in Msg : (m.kind = "data" => m \in DataMsg) /\ (m.kind = "update" => m \in UpdateMsg)
  BY SMTT(60) DEF Msg, DataMsg, UpdateMsg, OpenedMsg, open_msg, close_msg, Violation
<1>2. \A m \in DataMsg : /\ m \in Msg /\ m.kind = "data" /\ m.off \in Nat /\ m.len \in Nat
                          /\ ~SaysEnd(m)
  BY SMTT(60) DEF Msg, DataMsg, SaysEnd
<1>3. \A m \in UpdateMsg : m \in Msg /\ m.kind = "update" /\ m.add \in Nat /\ ~SaysEnd(m)
  BY DEF Msg, UpdateMsg, SaysEnd
<1>4. \A m \in Msg : Cost(m) \in Nat
  BY <1>1, <1>2, WindowAssumption DEF Cost, charge, AtLeast
<1>5. Seq(DataMsg) \subseteq Seq(Msg) /\ Seq(UpdateMsg) \subseteq Seq(Msg)
  BY SMTT(60), <1>2, <1>3
<1>. QED BY <1>1, <1>2, <1>3, <1>4, <1>5

\* The types of the state, by the groups of variables the specification has.
TaskState == {"none", "opening", "connecting", "connected", "granted", "running", "joining",
              "closing", "ended", "gone"}

UpState == {"off", "take", "looked", "parked", "read", "send"} \cup RelayEnd

DownState == {"off", "recv", "write", "advertise"} \cup RelayEnd

TunnelType ==
    /\ loop \in [Sides -> BOOLEAN] /\ sink \in [Sides -> BOOLEAN] /\ entry \in [Sides -> BOOLEAN]
    /\ opened \in BOOLEAN /\ teardown \in [Sides -> BOOLEAN]

TaskType ==
    /\ task \in [Sides -> TaskState] /\ up \in [Sides -> UpState] /\ down \in [Sides -> DownState]
    /\ cancel \in [Sides -> BOOLEAN]

WindowType ==
    /\ credit \in [Sides -> Nat] /\ permit \in [Sides -> BOOLEAN]
    /\ remaining \in [Sides -> Nat] /\ drained \in [Sides -> Nat]
    /\ allow \in [Sides -> Nat] /\ advert \in [Sides -> Nat]

BufferType ==
    /\ out \in [Sides -> Seq(DataMsg)] /\ pending \in [Sides -> Seq(DataMsg)]
    /\ chunk \in [Sides -> Seq(DataMsg)] /\ inbound \in [Sides -> Seq(Msg)]
    /\ dataQ \in Seq(Msg) /\ controlQ \in Seq(UpdateMsg) /\ net \in [Sides -> Seq(Msg)]

HistoryType ==
    /\ read \in [Sides -> Nat] /\ written \in [Sides -> Nat] /\ closes \in [Sides -> Nat]

TypeOK == TunnelType /\ TaskType /\ WindowType /\ BufferType /\ HistoryType

\* The task of an end before it has relays.
Early == {"none", "opening", "connecting", "connected", "granted"}

\* Where the three tasks of an end can be at the same time.
PhaseAt(s) ==
    /\ ~sink[s] => ~loop[s]
    /\ task[s] = "none" => ~entry[s]
    /\ task[s] \in Early =>
          up[s] = "off" /\ down[s] = "off" /\ read[s] = 0 /\ written[s] = 0 /\ closes[s] = 0
    /\ task[s] \in {"running", "joining"} => up[s] # "off" /\ down[s] # "off" /\ closes[s] = 0
    /\ task[s] \in {"closing", "ended", "gone"} =>
          up[s] \in RelayEnd \cup {"off"} /\ down[s] \in RelayEnd \cup {"off"}
    /\ task[s] = "closing" => down[s] # "PeerClosed" /\ closes[s] = 0
    /\ closes[s] \in {0, 1} /\ (closes[s] = 1 => down[s] # "PeerClosed")
    /\ s = "ctl" => task[s] \notin {"connecting", "connected", "granted"}
    /\ s = "srv" => task[s] # "opening"

Phases == \A s \in Sides : PhaseAt(s)

\* What they hold there.
HoldAt(s) ==
    /\ IF up[s] = "send" THEN Len(out[s]) = 1 ELSE out[s] = <<>>
    /\ IF down[s] = "write" THEN Len(chunk[s]) = 1 ELSE chunk[s] = <<>>
    /\ ~InboundOpen(s) => inbound[s] = <<>> /\ pending[s] = <<>>
    /\ s = "ctl" => pending[s] = <<>>

Holds == \A s \in Sides : HoldAt(s)

\* `open` is in the queue; it is nowhere but at the head.
Opens(q) == \E i \in 1 .. Len(q) : q[i].kind = "open"

OpensFirst(q) == \A i \in 2 .. Len(q) : q[i].kind # "open"

\* `open` has not reached the controlled side.
Coming == task["ctl"] \in {"none", "opening"} \/ Opens(dataQ) \/ Opens(net["ctl"])

\* Nothing has happened to the channel at the controlled side.
Untouched ==
    /\ task["srv"] = "none" /\ ~entry["srv"] /\ net["srv"] = <<>> /\ controlQ = <<>>
    /\ inbound["ctl"] = <<>> /\ down["ctl"] \notin {"write", "advertise"}

\* `open` goes first, once, and finds an untouched controlled side.
Opening ==
    /\ task["ctl"] \in {"none", "opening"} => dataQ = <<>> /\ net["ctl"] = <<>>
    /\ Opens(dataQ) => net["ctl"] = <<>>
    /\ OpensFirst(dataQ) /\ OpensFirst(net["ctl"])
    /\ Coming => Untouched

\* The part of the invariant that speaks of one end at a time.
Sound == TypeOK /\ Phases /\ Holds /\ Opening

\* The steps of the reading relay and of the writing relay, the sockets included.
Reads(s) == Reading(s) \/ ReadEof(s) \/ \E len \in 1 .. MAX_FRAME : ReadSocket(s, len)

Writes(s) == Writing(s) \/ WriteSocket(s) \/ WriteFails(s)

\* The steps of the system, as the lemmas below take them apart.
LEMMA NextCases ==
    ASSUME [Next]_vars
    PROVE  \/ Open \/ SendOpen \/ OnFrame \/ PumpData \/ PumpControl \/ Handle \/ Connecting
           \/ \E s \in Sides : Reads(s) \/ Writes(s) \/ Channel(s) \/ EndLoop(s) \/ DropQueues(s)
           \/ UNCHANGED vars
  BY DEF Next, Reads, Writes

\* What a step of a reading relay leaves alone, and that it does not end a relay twice.
LEMMA ReadsFrame ==
    ASSUME TypeOK, NEW s \in Sides, Reads(s)
    PROVE  /\ UNCHANGED <<tunnelVars, task, down, cancel, inbound, pending, chunk, advert,
                          remaining, drained, written, closes>>
           /\ up[s] \notin RelayEnd \cup {"off"} /\ up' \in [Sides -> UpState] /\ up'[s] # "off"
           /\ \A y \in Sides : y # s => up'[y] = up[y] /\ out'[y] = out[y] /\ read'[y] = read[y]
<1>. USE DEF TypeOK, TaskType, BufferType, HistoryType, UpState, RelayEnd
<1>1. CASE TakeCredit(s)
  BY <1>1 DEF TakeCredit, history
<1>2. CASE LookAtCredit(s) \/ Park(s)
  BY <1>2 DEF LookAtCredit, Park, bufferVars, windowVars, history
<1>3. CASE Wake(s)
  BY <1>3 DEF Wake, bufferVars, history
<1>4. CASE SendFrame(s)
  BY <1>4 DEF SendFrame, windowVars, history
<1>5. CASE CancelReading(s)
  BY <1>5 DEF CancelReading, history
<1>6. CASE ReadEof(s)
  BY <1>6 DEF ReadEof, history
<1>7. ASSUME NEW len \in 1 .. MAX_FRAME, ReadSocket(s, len)
      PROVE  /\ UNCHANGED <<tunnelVars, task, down, cancel, inbound, pending, chunk, advert,
                          remaining, drained, written, closes>>
           /\ up[s] \notin RelayEnd \cup {"off"} /\ up' \in [Sides -> UpState] /\ up'[s] # "off"
           /\ \A y \in Sides : y # s => up'[y] = up[y] /\ out'[y] = out[y] /\ read'[y] = read[y]
  BY <1>7 DEF ReadSocket
<1>. HIDE DEF TypeOK, TaskType, BufferType, HistoryType, UpState, RelayEnd
<1>. QED BY <1>1, <1>2, <1>3, <1>4, <1>5, <1>6, <1>7 DEF Reads, Reading

\* What a step of a writing relay leaves alone, and that it does not end a relay twice.
LEMMA WritesFrame ==
    ASSUME TypeOK, NEW s \in Sides, Writes(s)
    PROVE  /\ UNCHANGED <<tunnelVars, task, up, cancel, allow, out, credit, permit, read, closes>>
           /\ down[s] \notin RelayEnd \cup {"off"} /\ down' \in [Sides -> DownState] /\ down'[s] # "off"
           /\ \A y \in Sides : y # s => /\ down'[y] = down[y] /\ written'[y] = written[y]
                                        /\ inbound'[y] = inbound[y] /\ pending'[y] = pending[y]
                                        /\ chunk'[y] = chunk[y]
<1>. USE DEF TypeOK, TaskType, BufferType, HistoryType, DownState, RelayEnd
<1>1. CASE NextChunk(s)
  BY <1>1 DEF NextChunk, StartWrite, EndWriting, windowVars, history
<1>2. CASE Advertise(s)
  BY <1>2 DEF Advertise, EndWriting, windowVars, history
<1>3. CASE CancelWriting(s) \/ WriteFails(s)
  BY <1>3 DEF CancelWriting, WriteFails, EndWriting, windowVars, history
<1>4. CASE WriteSocket(s)
  BY <1>4 DEF WriteSocket
<1>. HIDE DEF TypeOK, TaskType, BufferType, HistoryType, DownState, RelayEnd
<1>. QED BY <1>1, <1>2, <1>3, <1>4 DEF Writes, Writing

\* A controlled-side task that gives up before it has relays drops its queue and what it had
\* buffered, and sends at most one message.
LEMMA AbandonFrame ==
    ASSUME TypeOK, NEW extra, Abandon(extra)
    PROVE  /\ task' = [task EXCEPT !["srv"] = "gone"] /\ UNCHANGED <<dataQ, controlQ>>
           /\ closes' = closes \/ closes' = [closes EXCEPT !["srv"] = @ + 1]
           /\ net' = net \/ (extra # <<>> /\ SendOrdered("srv", Head(extra)))
           /\ net'["ctl"] = net["ctl"]
           /\ inbound' = [inbound EXCEPT !["srv"] = <<>>] /\ pending' = [pending EXCEPT !["srv"] = <<>>]
  BY DEF Abandon, SendOrdered, wireVars, TypeOK, BufferType, Sides

\* The controlled side's connect touches nothing of the controller.
LEMMA ConnectingFrame ==
    ASSUME TypeOK, Connecting
    PROVE  /\ task["srv"] \in {"connecting", "connected", "granted"}
           /\ UNCHANGED <<tunnelVars, cancel, allow, out, chunk, advert, credit, permit, drained,
                          read, written, dataQ, controlQ>>
           /\ task'["ctl"] = task["ctl"] /\ up'["ctl"] = up["ctl"] /\ down'["ctl"] = down["ctl"]
           /\ inbound'["ctl"] = inbound["ctl"] /\ pending'["ctl"] = pending["ctl"]
           /\ net'["ctl"] = net["ctl"]
<1>. USE DEF Sides, TypeOK, TaskType, BufferType
<1>1. CASE ConnectCommand
  BY <1>1, AbandonFrame DEF ConnectCommand, windowVars, wireVars
<1>2. CASE ConnectFails
  BY <1>2, AbandonFrame DEF ConnectFails, CanLookAtConnect, windowVars
<1>3. CASE ConnectSucceeds \/ GrantWindow
  BY <1>3 DEF ConnectSucceeds, CanLookAtConnect, GrantWindow, bufferVars, windowVars, wireVars,
     history
<1>4. CASE SendOpened
  <2>1. CASE Abandon(<<>>)
    BY <1>4, <2>1, AbandonFrame DEF SendOpened, windowVars, StartRelays
  <2>2. CASE StartRelays("srv") /\ SendOrdered("srv", opened_msg(TRUE)) /\ UNCHANGED <<inbound, pending>>
    BY <1>4, <2>2 DEF SendOpened, windowVars, StartRelays, SendOrdered
  <2>. QED BY <1>4, <2>1, <2>2 DEF SendOpened
<1>. QED BY <1>1, <1>2, <1>3, <1>4 DEF Connecting

\* The four steps of run_channel: cancel, join, send `close`, leave.
LEMMA ChannelFrame ==
    ASSUME TypeOK, NEW s \in Sides, Channel(s)
    PROVE  /\ UNCHANGED <<loop, sink, opened, teardown, up, down, bufferVars, windowVars, read, written>>
           /\ \A y \in Sides : y # s => task'[y] = task[y]
           /\ \/ task[s] = "running" /\ task'[s] = "joining" /\ UNCHANGED <<entry, wireVars, closes>>
              \/ /\ task[s] = "joining" /\ task'[s] \in {"closing", "ended"} /\ Ended(s)
                 /\ (task'[s] = "closing" => down[s] # "PeerClosed")
                 /\ UNCHANGED <<entry, wireVars, closes>>
              \/ /\ task[s] = "closing" /\ task'[s] = "ended" /\ entry' = entry
                 /\ \/ SendOrdered(s, close_msg) /\ closes' = [closes EXCEPT ![s] = @ + 1]
                    \/ UNCHANGED <<wireVars, closes>>
              \/ /\ task[s] = "ended" /\ task'[s] = "gone" /\ UNCHANGED <<wireVars, closes>>
                 /\ entry' = entry \/ entry' = [entry EXCEPT ![s] = FALSE]
<1>. USE DEF TypeOK, TaskType
<1>1. CASE CancelRelays(s)
  BY <1>1 DEF CancelRelays, tunnelVars, history
<1>2. CASE JoinRelays(s)
  BY <1>2 DEF JoinRelays, OwesClose, tunnelVars, history
<1>3. CASE SendClose(s)
  BY <1>3 DEF SendClose, tunnelVars
<1>4. CASE EndTask(s)
  BY <1>4 DEF EndTask, history
<1>. QED BY <1>1, <1>2, <1>3, <1>4 DEF Channel

\* The end of a loop touches neither tasks nor buffers and never brings a loop or a map entry back.
LEMMA LoopFrame ==
    ASSUME TypeOK, NEW s \in Sides, EndLoop(s) \/ DropQueues(s)
    PROVE  /\ UNCHANGED <<taskVars, bufferVars, windowVars, dataQ, controlQ, history>>
           /\ opened' = opened /\ net'["ctl"] = net["ctl"]
           /\ TunnelType' /\ \A y \in Sides : (loop'[y] => loop[y]) /\ (entry'[y] => entry[y])
           /\ \A y \in Sides : ~sink'[y] => ~loop'[y] \/ ~sink[y]
<1>1. CASE EndLoop(s)
  <2>1. net'["ctl"] = net["ctl"]
    BY <1>1 DEF EndLoop, TypeOK, BufferType, Sides
  <2>. QED BY <1>1, <2>1 DEF EndLoop, TypeOK, TunnelType
<1>2. CASE DropQueues(s)
  BY <1>2 DEF DropQueues, TypeOK, TunnelType, wireVars
<1>. QED BY <1>1, <1>2

\* Every step preserves the type of the tunnel's state.
LEMMA TunnelTypeStep ==
    ASSUME Sound, [Next]_vars
    PROVE  TunnelType'
<1>0. TypeOK /\ TunnelType
  BY DEF Sound, TypeOK
<1>1. CASE UNCHANGED tunnelVars
  BY <1>0, <1>1 DEF TunnelType, tunnelVars
<1>2. CASE Open
  BY <1>0, <1>2 DEF Open, TunnelType, Sides
<1>3. CASE OnFrame
  <2>1. entry' \in [Sides -> BOOLEAN] /\ opened' \in BOOLEAN
    BY <1>0, <1>3 DEF OnFrame, OnOpened, OnData, OnClose, OnWindowUpdate,
       InboundOpen, TunnelType, Sides
  <2>. QED BY <1>0, <1>3, <2>1 DEF OnFrame, TunnelType
<1>4. CASE Handle
  <2>1. entry' \in [Sides -> BOOLEAN] /\ opened' \in BOOLEAN
    BY <1>0, <1>4 DEF Handle, OnOpen, OnData, OnClose, OnWindowUpdate, InboundOpen,
       TunnelType, Sides
  <2>. QED BY <1>0, <1>4, <2>1 DEF Handle, TunnelType
<1>5. ASSUME NEW s \in Sides, Reads(s) \/ Writes(s)
      PROVE  TunnelType'
  BY <1>0, <1>1, <1>5, ReadsFrame, WritesFrame
<1>6. ASSUME NEW s \in Sides, Channel(s)
      PROVE  TunnelType'
  BY <1>0, <1>6, ChannelFrame DEF TunnelType
<1>7. ASSUME NEW s \in Sides, EndLoop(s) \/ DropQueues(s)
      PROVE  TunnelType'
  BY <1>0, <1>7, LoopFrame
<1>8. SendOpen \/ PumpData \/ PumpControl \/ Connecting \/ UNCHANGED vars => UNCHANGED tunnelVars
  BY <1>0, ConnectingFrame DEF SendOpen, PumpData, PumpControl, vars
<1>. QED BY <1>1, <1>2, <1>3, <1>4, <1>5, <1>6, <1>7, <1>8, NextCases

\* Every step preserves the type of the tasks' state.
LEMMA TaskTypeStep ==
    ASSUME Sound, [Next]_vars
    PROVE  TaskType'
<1>0. TypeOK /\ TaskType
  BY DEF Sound, TypeOK
<1>1. CASE Open \/ SendOpen
  BY <1>0, <1>1 DEF Open, SendOpen, StartRelays, TaskType, TaskState, UpState, DownState, Sides
<1>2. CASE Handle
  <2>1. /\ task' = task \/ task' = [task EXCEPT !["srv"] = "connecting"]
        /\ UNCHANGED <<up, down, cancel>>
    BY <1>2 DEF Handle, OnOpen
  <2>. QED BY <1>0, <2>1 DEF TaskType, TaskState, Sides
<1>3. CASE Connecting
  <2>. USE DEF TaskType, TaskState, UpState, DownState, RelayEnd, Sides
  <2>1. CASE ConnectCommand \/ ConnectFails
    BY <1>0, <2>1 DEF ConnectCommand, ConnectFails, Abandon
  <2>2. CASE ConnectSucceeds \/ GrantWindow
    BY <1>0, <2>2 DEF ConnectSucceeds, GrantWindow
  <2>3. CASE SendOpened
    <3>1. CASE StartRelays("srv")
      BY <1>0, <2>3, <3>1 DEF SendOpened, StartRelays
    <3>2. CASE /\ Abandon(<<>>) /\ up' = [up EXCEPT !["srv"] = "TunnelGone"]
               /\ down' = [down EXCEPT !["srv"] = "TunnelGone"]
      BY <1>0, <2>3, <3>2 DEF SendOpened, Abandon
    <3>. QED BY <2>3, <3>1, <3>2 DEF SendOpened
  <2>. QED BY <1>3, <2>1, <2>2, <2>3 DEF Connecting
<1>4. ASSUME NEW s \in Sides, Reads(s)
      PROVE  TaskType'
  BY <1>0, <1>4, ReadsFrame DEF TaskType
<1>5. ASSUME NEW s \in Sides, Writes(s)
      PROVE  TaskType'
  BY <1>0, <1>5, WritesFrame DEF TaskType
<1>6. ASSUME NEW s \in Sides, Channel(s) \/ EndLoop(s) \/ DropQueues(s)
      PROVE  TaskType'
  BY <1>0, <1>6 DEF Channel, CancelRelays, JoinRelays, SendClose, EndTask, EndLoop,
     DropQueues, TaskType, TaskState, taskVars
<1>7. CASE OnFrame \/ PumpData \/ PumpControl \/ UNCHANGED vars
  BY <1>0, <1>7 DEF OnFrame, PumpData, PumpControl, TaskType, taskVars, vars
<1>. QED BY <1>1, <1>2, <1>3, <1>4, <1>5, <1>6, <1>7, NextCases

\* Every step preserves the type of the byte and `close` counts.
LEMMA HistoryTypeStep ==
    ASSUME Sound, [Next]_vars
    PROVE  HistoryType'
<1>0. TypeOK /\ HistoryType /\ BufferType /\ Holds
  BY DEF Sound, TypeOK
<1>1. CASE Connecting
  <2>1. closes' = closes \/ closes' = [closes EXCEPT !["srv"] = @ + 1]
    BY <1>0, <1>1, AbandonFrame DEF Connecting, ConnectCommand, ConnectFails,
       ConnectSucceeds, GrantWindow, SendOpened, history
  <2>. QED BY SMTT(60), <1>0, <1>1, <2>1, ConnectingFrame DEF HistoryType, Sides
<1>2. ASSUME NEW s \in Sides, Reads(s)
      PROVE  HistoryType'
  <2>1. read' \in [Sides -> Nat]
    BY SMTT(60), <1>0, <1>2
       DEF Reads, Reading, TakeCredit, LookAtCredit, Park, Wake, SendFrame,
       CancelReading, ReadEof, ReadSocket, HistoryType, history
  <2>. QED BY <1>0, <1>2, <2>1, ReadsFrame DEF HistoryType
<1>3. ASSUME NEW s \in Sides, Writes(s)
      PROVE  HistoryType'
  <2>1. CASE WriteSocket(s)
    <3>1. Head(chunk[s]).len \in Nat
      BY <1>0, <2>1, OneFacts, MsgFacts DEF WriteSocket, Holds, HoldAt, BufferType
    <3>. QED BY SMTT(60), <1>0, <2>1, <3>1 DEF WriteSocket, HistoryType
  <2>. QED BY <1>0, <1>3, <2>1 DEF Writes, Writing, NextChunk, Advertise,
              CancelWriting, WriteFails, HistoryType, history
<1>4. ASSUME NEW s \in Sides, Channel(s) \/ EndLoop(s) \/ DropQueues(s)
      PROVE  HistoryType'
  <2>1. closes' = closes \/ closes' = [closes EXCEPT ![s] = @ + 1]
    BY <1>0, <1>4, ChannelFrame, LoopFrame DEF history
  <2>. QED BY SMTT(60), <1>0, <1>4, <2>1, ChannelFrame, LoopFrame DEF HistoryType, history
<1>5. CASE Open \/ SendOpen \/ OnFrame \/ PumpData \/ PumpControl \/ Handle \/ UNCHANGED vars
  BY <1>0, <1>5 DEF Open, SendOpen, OnFrame, PumpData, PumpControl, Handle, HistoryType,
     history, vars
<1>. QED BY <1>1, <1>2, <1>3, <1>4, <1>5, NextCases

\* Every step preserves the type of the credit and the windows; in particular no subtraction
\* goes below zero.
LEMMA WindowTypeStep ==
    ASSUME Sound, [Next]_vars
    PROVE  WindowType'
<1>0. TypeOK /\ WindowType /\ BufferType /\ Holds
  BY DEF Sound, TypeOK
<1>1. ASSUME NEW c \in Nat
      PROVE  /\ CanTake(c) => take(c) \in Nat /\ c - take(c) \in Nat
             /\ \A n \in Nat : add(c, n) \in Nat
  BY SMTT(60), WindowAssumption DEF take, add, AtMost, MAX_SEND_CREDIT
<1>2. ASSUME NEW s \in Sides, NEW n \in Nat, AddCredit(s, n)
      PROVE  credit' \in [Sides -> Nat] /\ permit' \in [Sides -> BOOLEAN]
  <2>1. add(credit[s], n) \in Nat
    BY <1>0, <1>1 DEF WindowType
  <2>. QED BY <1>0, <1>2, <2>1 DEF AddCredit, WindowType
<1>3. /\ AtMost(INITIAL_WINDOW, MAX_SEND_CREDIT) \in Nat /\ effective_window(CHANNEL_WINDOW) \in Nat
      /\ AtMost(effective_window(CHANNEL_WINDOW), MAX_SEND_CREDIT) \in Nat
      /\ effective_window(INITIAL_WINDOW) \in Nat /\ raise_initial(CHANNEL_WINDOW) \in Nat
      /\ CHANNEL_WINDOW - INITIAL_WINDOW \in Nat
  BY SMTT(60), WindowAssumption
     DEF AtMost, AtLeast, effective_window, raise_initial, MAX_SEND_CREDIT
<1>4. CASE Open
  BY <1>0, <1>3, <1>4 DEF Open, WindowType, bufferVars, Sides
<1>5. ASSUME NEW s \in Sides, NEW m \in Msg,
             OnData(s, m) \/ OnClose(s, m) \/ OnWindowUpdate(s, m) \/ OnOpened(m),
             UNCHANGED <<allow, advert, drained>>
      PROVE  WindowType'
  <2>1. credit' \in [Sides -> Nat] /\ permit' \in [Sides -> BOOLEAN]
    <3>1. \/ UNCHANGED <<credit, permit>> \/ (m.kind = "update" /\ AddCredit(s, m.add))
          \/ AddCredit("ctl", raise_initial(CHANNEL_WINDOW))
      BY <1>5 DEF OnData, OnClose, OnWindowUpdate, OnOpened
    <3>2. m.kind = "update" => m.add \in Nat
      BY MsgFacts
    <3>. QED BY <1>0, <1>2, <1>3, <3>1, <3>2 DEF WindowType, Sides
  <2>2. remaining' \in [Sides -> Nat]
    <3>1. remaining' = remaining \/ (remaining' = [remaining EXCEPT ![s] = @ - Cost(m)] /\ accept(remaining[s], Cost(m)))
      BY <1>5 DEF OnData, OnClose, OnWindowUpdate, OnOpened
    <3>2. Cost(m) \in Nat
      BY MsgFacts
    <3>. QED BY SMTT(60), <1>0, <3>1, <3>2 DEF WindowType, accept
  <2>. QED BY <1>0, <1>5, <2>1, <2>2 DEF WindowType
<1>6. CASE OnFrame
  <2>1. Head(net["srv"]) \in Msg
    BY SMTT(60), <1>0, <1>6 DEF OnFrame, BufferType, Sides
  <2>. QED BY <1>5, <1>6, <2>1 DEF OnFrame, Sides
<1>7. CASE Handle
  <2>1. Head(net["ctl"]) \in Msg
    BY SMTT(60), <1>0, <1>7 DEF Handle, BufferType, Sides
  <2>2. CASE OnOpen(Head(net["ctl"]))
    <3>. DEFINE c == AtMost(effective_window(CHANNEL_WINDOW), MAX_SEND_CREDIT)
                r == effective_window(INITIAL_WINDOW)
    <3>1. /\ \/ UNCHANGED <<credit, remaining>>
             \/ /\ credit' = [credit EXCEPT !["srv"] = c]
                /\ remaining' = [remaining EXCEPT !["srv"] = r]
          /\ permit' = permit
      BY <2>2 DEF OnOpen
    <3>2. UNCHANGED <<allow, advert, drained>>
      BY <1>7 DEF Handle
    <3>3. c \in Nat /\ r \in Nat
      BY <1>3
    <3>. HIDE DEF c, r
    <3>. QED BY <1>0, <3>1, <3>2, <3>3 DEF WindowType
  <2>. QED BY <1>5, <1>7, <2>1, <2>2 DEF Handle, Sides
<1>8. CASE Connecting
  <2>1. remaining' = remaining \/ remaining' = [remaining EXCEPT !["srv"] = @ + (CHANNEL_WINDOW - INITIAL_WINDOW)]
    BY <1>8 DEF Connecting, ConnectCommand, ConnectFails, ConnectSucceeds,
       GrantWindow, SendOpened, windowVars
  <2>. QED BY SMTT(60), <1>0, <1>3, <1>8, <2>1, ConnectingFrame DEF WindowType, Sides
<1>9. ASSUME NEW s \in Sides, Reads(s)
      PROVE  WindowType'
  <2>1. credit' \in [Sides -> Nat] /\ permit' \in [Sides -> BOOLEAN] /\ allow' \in [Sides -> Nat]
    <3>1. CASE TakeCredit(s)
      <4>1. take(credit[s]) \in Nat /\ credit[s] - take(credit[s]) \in Nat
        BY <1>0, <1>1, <3>1 DEF TakeCredit, WindowType
      <4>. QED BY <1>0, <3>1, <4>1 DEF TakeCredit, WindowType
    <3>2. ASSUME NEW len \in 1 .. MAX_FRAME, ReadSocket(s, len)
          PROVE  credit' \in [Sides -> Nat] /\ permit' \in [Sides -> BOOLEAN] /\ allow' \in [Sides -> Nat]
      <4>1. charge(len) < allow[s] => allow[s] - charge(len) \in Nat
        BY SMTT(60), <1>0, WindowAssumption DEF WindowType, charge, AtLeast
      <4>2. UNCHANGED <<credit, permit>> \/ (charge(len) < allow[s] /\ AddCredit(s, allow[s] - charge(len)))
        BY <3>2 DEF ReadSocket
      <4>3. credit' \in [Sides -> Nat] /\ permit' \in [Sides -> BOOLEAN]
        BY <1>0, <1>2, <4>1, <4>2 DEF WindowType
      <4>. QED BY <1>0, <3>2, <4>3 DEF ReadSocket, WindowType
    <3>3. CASE ReadEof(s) \/ CancelReading(s)
      <4>1. UNCHANGED <<credit, permit>> \/ AddCredit(s, allow[s])
        BY <3>3 DEF ReadEof, CancelReading
      <4>2. credit' \in [Sides -> Nat] /\ permit' \in [Sides -> BOOLEAN]
        BY <1>0, <1>2, <4>1 DEF WindowType
      <4>. QED BY SMTT(60), <1>0, <3>3, <4>2 DEF ReadEof, CancelReading, WindowType
    <3>4. CASE LookAtCredit(s) \/ Park(s) \/ Wake(s) \/ SendFrame(s)
      BY <1>0, <3>4 DEF LookAtCredit, Park, Wake, SendFrame, bufferVars,
         windowVars, WindowType
    <3>. QED BY <1>9, <3>1, <3>2, <3>3, <3>4 DEF Reads, Reading
  <2>. QED BY <1>0, <1>9, <2>1, ReadsFrame DEF WindowType
<1>10. ASSUME NEW s \in Sides, Writes(s)
      PROVE  WindowType'
  <2>1. CASE WriteSocket(s)
    <3>. DEFINE cost == Cost(Head(chunk[s]))
    <3>1. cost \in Nat
      BY <1>0, <2>1, OneFacts, MsgFacts DEF WriteSocket, Holds, HoldAt, BufferType
    <3>. DEFINE sum == DrainedSince(drained[s], cost)
    <3>2. sum \in Nat
      BY SMTT(60), <1>0, <3>1 DEF DrainedSince, WindowType
    <3>3. \/ /\ drained' = [drained EXCEPT ![s] = 0] /\ advert' = [advert EXCEPT ![s] = sum]
             /\ remaining' = [remaining EXCEPT ![s] = @ + sum]
          \/ drained' = [drained EXCEPT ![s] = sum] /\ UNCHANGED <<remaining, advert>>
      BY <2>1 DEF WriteSocket
    <3>. HIDE DEF cost, sum
    <3>4. remaining' \in [Sides -> Nat] /\ drained' \in [Sides -> Nat] /\ advert' \in [Sides -> Nat]
      BY SMTT(60), <1>0, <3>2, <3>3 DEF WindowType
    <3>. QED BY <1>0, <1>10, <3>4, WritesFrame DEF WindowType
  <2>2. CASE ~WriteSocket(s)
    <3>1. UNCHANGED <<remaining, drained>> /\ (advert' = advert \/ advert' = [advert EXCEPT ![s] = 0])
      BY <1>10, <2>2 DEF Writes, Writing, NextChunk, Advertise, CancelWriting, WriteFails,
         windowVars
    <3>. QED BY SMTT(60), <1>0, <1>10, <3>1, WritesFrame DEF WindowType
  <2>. QED BY <2>1, <2>2
<1>11. ASSUME NEW s \in Sides, Channel(s) \/ EndLoop(s) \/ DropQueues(s)
      PROVE  WindowType'
  BY <1>0, <1>11, ChannelFrame, LoopFrame DEF WindowType, bufferVars, windowVars
<1>12. CASE SendOpen \/ PumpData \/ PumpControl \/ UNCHANGED vars
  BY <1>0, <1>12 DEF SendOpen, PumpData, PumpControl, vars, WindowType, bufferVars, windowVars
<1>. QED BY <1>4, <1>6, <1>7, <1>8, <1>9, <1>10, <1>11, <1>12, NextCases

\* Every step preserves the type of the queues; in particular a frame that is read has at least
\* one byte and at most MAX_FRAME.
LEMMA BufferTypeStep ==
    ASSUME Sound, [Next]_vars
    PROVE  BufferType'
<1>0. TypeOK /\ WindowType /\ BufferType /\ HistoryType /\ Holds
  BY DEF Sound, TypeOK
<1>1. ASSUME NEW s \in Sides, NEW m \in Msg, SendOrdered(s, m)
      PROVE  dataQ' \in Seq(Msg) /\ controlQ' = controlQ /\ net' \in [Sides -> Seq(Msg)]
  <2>1. Append(dataQ, m) \in Seq(Msg) /\ Append(net["srv"], m) \in Seq(Msg)
    BY SMTT(60), <1>0 DEF BufferType, Sides
  <2>. QED BY <1>0, <1>1, <2>1 DEF SendOrdered, BufferType
<1>2. ASSUME NEW s \in Sides, NEW m \in Msg,
             OnData(s, m) \/ OnClose(s, m) \/ OnWindowUpdate(s, m) \/ OnOpened(m)
      PROVE  inbound' \in [Sides -> Seq(Msg)]
  <2>1. \/ inbound' = inbound \/ Push(s, m) \/ Push(s, Close) \/ Push(s, Violation)
        \/ Push("ctl", Close)
    BY <1>2 DEF OnData, OnClose, OnWindowUpdate, OnOpened
  <2>2. \A e \in Msg, y \in Sides : Append(inbound[y], e) \in Seq(Msg)
    BY SMTT(60), <1>0 DEF BufferType
  <2>3. "ctl" \in Sides /\ Close \in Msg /\ Violation \in Msg
    BY Kinds DEF Sides
  <2>4. \A y \in Sides, e \in Msg : Push(y, e) => inbound' \in [Sides -> Seq(Msg)]
    BY <1>0, <2>2 DEF Push, BufferType
  <2>. QED BY <1>0, <2>1, <2>3, <2>4 DEF BufferType
<1>3. ASSUME NEW extra, Abandon(extra), extra # <<>> => Head(extra) \in Msg, UNCHANGED <<out, chunk>>
      PROVE  BufferType'
  <2>1. net' \in [Sides -> Seq(Msg)]
    BY <1>0, <1>1, <1>3, AbandonFrame DEF BufferType, Sides
  <2>2. inbound' = [inbound EXCEPT !["srv"] = <<>>] /\ pending' = [pending EXCEPT !["srv"] = <<>>]
        /\ UNCHANGED <<dataQ, controlQ>>
    BY <1>0, <1>3, AbandonFrame
  <2>3. inbound' \in [Sides -> Seq(Msg)]
    <3>1. inbound \in [Sides -> Seq(Msg)] /\ <<>> \in Seq(Msg)
      BY SMTT(60), <1>0 DEF BufferType
    <3>. QED BY <2>2, <3>1
  <2>4. pending' \in [Sides -> Seq(DataMsg)]
    <3>1. pending \in [Sides -> Seq(DataMsg)] /\ <<>> \in Seq(DataMsg)
      BY SMTT(60), <1>0 DEF BufferType
    <3>. QED BY <2>2, <3>1
  <2>. QED BY <1>0, <1>3, <2>1, <2>2, <2>3, <2>4 DEF BufferType
<1>4. CASE SendOpen
  <2>1. dataQ' \in Seq(Msg) /\ controlQ' = controlQ /\ net' \in [Sides -> Seq(Msg)]
    BY <1>0, <1>1, <1>4, Kinds DEF SendOpen, wireVars, BufferType, Sides
  <2>. QED BY <1>0, <1>4, <2>1 DEF SendOpen, bufferVars, BufferType
<1>5. CASE OnFrame
  <2>1. Head(net["srv"]) \in Msg /\ Tail(net["srv"]) \in Seq(Msg)
    BY SMTT(60), <1>0, <1>5 DEF OnFrame, BufferType, Sides
  <2>2. inbound' \in [Sides -> Seq(Msg)]
    BY <1>2, <1>5, <2>1 DEF OnFrame, Sides
  <2>. QED BY <1>0, <1>5, <2>1, <2>2 DEF OnFrame, BufferType
<1>6. CASE Handle
  <2>1. Head(net["ctl"]) \in Msg /\ Tail(net["ctl"]) \in Seq(Msg)
    BY SMTT(60), <1>0, <1>6 DEF Handle, BufferType, Sides
  <2>2. inbound' \in [Sides -> Seq(Msg)]
    BY <1>0, <1>2, <1>6, <2>1 DEF Handle, OnOpen, BufferType, Sides
  <2>3. PICK e \in Msg : e = opened_msg(FALSE)
    BY Kinds
  <2>4. \/ net' = [net EXCEPT !["ctl"] = Tail(@)]
        \/ net' = [net EXCEPT !["ctl"] = Tail(@), !["srv"] = Append(@, e)]
    BY <1>6, <2>3 DEF Handle, OnOpen
  <2>5. Append(net["srv"], e) \in Seq(Msg)
    BY SMTT(60), <1>0 DEF BufferType, Sides
  <2>6. net' \in [Sides -> Seq(Msg)]
    BY <1>0, <2>1, <2>4, <2>5 DEF BufferType, Sides
  <2>7. UNCHANGED <<out, pending, chunk, dataQ, controlQ>>
    BY <1>6 DEF Handle
  <2>. QED BY <1>0, <2>2, <2>6, <2>7 DEF BufferType
<1>7. CASE PumpData
  <2>1. Append(net["ctl"], Head(dataQ)) \in Seq(Msg) /\ Tail(dataQ) \in Seq(Msg)
    BY SMTT(60), <1>0, <1>7 DEF PumpData, BufferType, Sides
  <2>. QED BY <1>0, <1>7, <2>1 DEF PumpData, bufferVars, BufferType
<1>8. CASE PumpControl
  <2>1. Head(controlQ) \in UpdateMsg /\ Tail(controlQ) \in Seq(UpdateMsg)
    BY SMTT(60), <1>0, <1>8 DEF PumpControl, BufferType
  <2>2. Append(net["ctl"], Head(controlQ)) \in Seq(Msg)
    BY SMTT(60), <1>0, <2>1, MsgFacts DEF BufferType, Sides
  <2>. QED BY <1>0, <1>8, <2>1, <2>2 DEF PumpControl, bufferVars, BufferType
<1>9. CASE Connecting
  <2>1. CASE ConnectCommand
    <3>1. CASE \E extra : Abandon(extra) /\ (extra # <<>> => Head(extra) \in Msg)
      BY <1>3, <2>1, <3>1 DEF ConnectCommand
    <3>2. CASE /\ inbound["srv"] # <<>> /\ Head(inbound["srv"]).kind = "data"
               /\ pending' = [pending EXCEPT !["srv"] = Append(@, Head(inbound["srv"]))]
               /\ inbound' = [inbound EXCEPT !["srv"] = Tail(@)] /\ UNCHANGED wireVars
      <4>1. Head(inbound["srv"]) \in DataMsg /\ Tail(inbound["srv"]) \in Seq(Msg)
        <5>1. inbound["srv"] \in Seq(Msg)
          BY <1>0 DEF BufferType, Sides
        <5>2. Head(inbound["srv"]) \in Msg /\ Tail(inbound["srv"]) \in Seq(Msg)
          BY <3>2, <5>1, TailFacts
        <5>. QED BY <3>2, <5>2, MsgFacts
      <4>2. Append(pending["srv"], Head(inbound["srv"])) \in Seq(DataMsg)
        BY SMTT(60), <1>0, <4>1 DEF BufferType, Sides
      <4>. QED BY <1>0, <2>1, <3>2, <4>1, <4>2 DEF ConnectCommand, BufferType,
                  wireVars
    <3>3. <<close_msg>> # <<>> /\ Head(<<close_msg>>) \in Msg
      BY SMTT(60), Kinds
    <3>. QED BY <2>1, <3>1, <3>2, <3>3 DEF ConnectCommand
  <2>2. CASE ConnectFails
    <3>1. PICK e \in Msg : e = opened_msg(FALSE)
      BY Kinds
    <3>2. Abandon(<<e>>) /\ UNCHANGED <<out, chunk>>
      BY <2>2, <3>1 DEF ConnectFails
    <3>3. Head(<<e>>) \in Msg
      BY SMTT(60)
    <3>. QED BY <1>3, <3>2, <3>3
  <2>3. CASE ConnectSucceeds \/ GrantWindow
    BY <1>0, <2>3 DEF ConnectSucceeds, GrantWindow, bufferVars, wireVars, BufferType
  <2>4. CASE SendOpened
    <3>1. CASE Abandon(<<>>)
      BY <1>3, <2>4, <3>1 DEF SendOpened
    <3>2. CASE SendOrdered("srv", opened_msg(TRUE)) /\ UNCHANGED <<inbound, pending>>
      <4>1. dataQ' \in Seq(Msg) /\ controlQ' = controlQ /\ net' \in [Sides -> Seq(Msg)]
        BY <1>1, <3>2, Kinds DEF Sides
      <4>. QED BY <1>0, <2>4, <3>2, <4>1 DEF SendOpened, BufferType
    <3>. QED BY <2>4, <3>1, <3>2 DEF SendOpened
  <2>. QED BY <1>9, <2>1, <2>2, <2>3, <2>4 DEF Connecting
<1>10. ASSUME NEW s \in Sides, Reads(s)
      PROVE  BufferType'
  <2>1. CASE SendFrame(s)
    <3>1. Head(out[s]) \in Msg
      BY <1>0, <2>1, OneFacts, MsgFacts DEF SendFrame, Holds, HoldAt, BufferType
    <3>2. dataQ' \in Seq(Msg) /\ controlQ' = controlQ /\ net' \in [Sides -> Seq(Msg)]
      BY <1>0, <1>1, <2>1, <3>1 DEF SendFrame, wireVars, BufferType
    <3>3. out' \in [Sides -> Seq(DataMsg)]
      BY SMTT(60), <1>0, <2>1 DEF SendFrame, BufferType
    <3>. QED BY <1>0, <1>10, <3>2, <3>3, ReadsFrame DEF BufferType
  <2>2. ASSUME NEW len \in 1 .. MAX_FRAME, ReadSocket(s, len)
        PROVE  BufferType'
    <3>1. data_msg(read[s], len) \in DataMsg
      BY <1>0, Kinds DEF HistoryType
    <3>2. out' \in [Sides -> Seq(DataMsg)]
      BY SMTT(60), <1>0, <2>2, <3>1 DEF ReadSocket, BufferType
    <3>. QED BY <1>0, <2>2, <3>2 DEF ReadSocket, BufferType, wireVars
  <2>3. CASE TakeCredit(s) \/ LookAtCredit(s) \/ Park(s) \/ Wake(s) \/ CancelReading(s) \/ ReadEof(s)
    BY <1>0, <2>3 DEF TakeCredit, LookAtCredit, Park, Wake, CancelReading, ReadEof, bufferVars,
       wireVars, BufferType
  <2>. QED BY <1>10, <2>1, <2>2, <2>3 DEF Reads, Reading
<1>11. ASSUME NEW s \in Sides, Writes(s)
      PROVE  BufferType'
  <2>1. ASSUME NEW end, EndWriting(s, end), UNCHANGED <<out, wireVars>>
        PROVE  BufferType'
    BY SMTT(60), <1>0, <2>1 DEF EndWriting, wireVars, BufferType
  <2>2. CASE NextChunk(s)
    <3>1. CASE /\ pending[s] # <<>> /\ chunk' = [chunk EXCEPT ![s] = <<Head(pending[s])>>]
               /\ pending' = [pending EXCEPT ![s] = Tail(@)] /\ inbound' = inbound
      <4>1. Head(pending[s]) \in DataMsg /\ Tail(pending[s]) \in Seq(DataMsg)
        BY SMTT(60), <1>0, <3>1 DEF BufferType
      <4>. QED BY SMTT(60), <1>0, <2>2, <3>1, <4>1 DEF NextChunk, wireVars, BufferType
    <3>2. CASE /\ inbound[s] # <<>> /\ Head(inbound[s]).kind = "data"
               /\ chunk' = [chunk EXCEPT ![s] = <<Head(inbound[s])>>]
               /\ inbound' = [inbound EXCEPT ![s] = Tail(@)] /\ pending' = pending
      <4>1. Head(inbound[s]) \in DataMsg /\ Tail(inbound[s]) \in Seq(Msg)
        BY SMTT(60), <1>0, <3>2, MsgFacts DEF BufferType
      <4>. QED BY SMTT(60), <1>0, <2>2, <3>2, <4>1 DEF NextChunk, wireVars, BufferType
    <3>3. CASE \E end : EndWriting(s, end)
      BY <2>1, <2>2, <3>3 DEF NextChunk
    <3>. QED BY <2>2, <3>1, <3>2, <3>3 DEF NextChunk, StartWrite
  <2>3. CASE Advertise(s)
    <3>1. CASE EndWriting(s, "TunnelGone") /\ UNCHANGED wireVars
      BY <2>1, <2>3, <3>1 DEF Advertise
    <3>2. CASE SendControl(s, window_update_msg(advert[s])) /\ UNCHANGED <<inbound, pending, chunk>>
      <4>1. window_update_msg(advert[s]) \in UpdateMsg /\ window_update_msg(advert[s]) \in Msg
        BY <1>0, Kinds, MsgFacts DEF WindowType
      <4>2. Append(controlQ, window_update_msg(advert[s])) \in Seq(UpdateMsg)
        BY SMTT(60), <1>0, <4>1 DEF BufferType
      <4>3. dataQ' \in Seq(Msg) /\ controlQ' \in Seq(UpdateMsg) /\ net' \in [Sides -> Seq(Msg)]
        BY <1>0, <1>1, <3>2, <4>1, <4>2 DEF SendControl, BufferType
      <4>. QED BY <1>0, <2>3, <3>2, <4>3 DEF Advertise, BufferType
    <3>. QED BY <2>3, <3>1, <3>2 DEF Advertise
  <2>4. CASE CancelWriting(s) \/ WriteFails(s)
    BY <2>1, <2>4 DEF CancelWriting, WriteFails
  <2>5. CASE WriteSocket(s)
    BY SMTT(60), <1>0, <2>5 DEF WriteSocket, wireVars, BufferType
  <2>. QED BY <1>11, <2>2, <2>3, <2>4, <2>5 DEF Writes, Writing
<1>12. ASSUME NEW s \in Sides, Channel(s)
      PROVE  BufferType'
  <2>1. dataQ' \in Seq(Msg) /\ controlQ' = controlQ /\ net' \in [Sides -> Seq(Msg)]
    BY <1>0, <1>1, <1>12, ChannelFrame, Kinds DEF wireVars, BufferType
  <2>. QED BY <1>0, <1>12, <2>1, ChannelFrame DEF BufferType, bufferVars
<1>13. ASSUME NEW s \in Sides, EndLoop(s) \/ DropQueues(s)
      PROVE  BufferType'
  <2>1. \A k \in 0 .. Len(net["srv"]) : SubSeq(net["srv"], 1, k) \in Seq(Msg)
    BY <1>0, SubFacts DEF BufferType, Sides
  <2>2. net' \in [Sides -> Seq(Msg)]
    <3>1. net' = net \/ \E k \in 0 .. Len(net["srv"]) : net' = [net EXCEPT !["srv"] = SubSeq(@, 1, k)]
      BY <1>13 DEF EndLoop, DropQueues, wireVars
    <3>. QED BY <1>0, <2>1, <3>1 DEF BufferType, Sides
  <2>. QED BY <1>0, <1>13, <2>2, LoopFrame DEF BufferType, bufferVars
<1>14. CASE Open \/ UNCHANGED vars
  BY <1>0, <1>14 DEF Open, vars, bufferVars, wireVars, BufferType
<1>. QED BY <1>4, <1>5, <1>6, <1>7, <1>8, <1>9, <1>10, <1>11, <1>12, <1>13, <1>14, NextCases

\* What a step can do to the tasks of an end: nothing, a step of one relay, a step of the opening
\* handshake, the start of the relays, giving up, a step towards the end.
Stays(y) == task'[y] = task[y] /\ closes'[y] = closes[y]

Rests(y) == up'[y] = up[y] /\ down'[y] = down[y] /\ read'[y] = read[y] /\ written'[y] = written[y]

ReadMove(y) ==
    /\ up[y] \notin RelayEnd \cup {"off"} /\ up'[y] # "off" /\ Stays(y)
    /\ down'[y] = down[y] /\ written'[y] = written[y]

WriteMove(y) ==
    /\ down[y] \notin RelayEnd \cup {"off"} /\ down'[y] # "off" /\ Stays(y)
    /\ up'[y] = up[y] /\ read'[y] = read[y]

BeginMove(y) ==
    /\ Rests(y) /\ closes'[y] = closes[y]
    /\ \/ task[y] = "none" /\ task'[y] = "opening" /\ y = "ctl"
       \/ task[y] = "none" /\ task'[y] = "connecting" /\ y = "srv" /\ Coming
       \/ task[y] \in {"connecting", "connected"} /\ task'[y] \in {"connected", "granted"} /\ y = "srv"

StartMove(y) ==
    /\ task[y] \in {"opening", "granted"} /\ task'[y] = "running" /\ closes'[y] = closes[y]
    /\ up'[y] = "take" /\ down'[y] = "recv" /\ read'[y] = read[y] /\ written'[y] = written[y]

AbandonMove(y) ==
    /\ read'[y] = read[y] /\ written'[y] = written[y]
    /\ \/ /\ task[y] = "opening" /\ task'[y] = "ended" /\ y = "ctl" /\ closes'[y] = closes[y]
          /\ Rests(y)
       \/ /\ task[y] \in {"connecting", "connected", "granted"} /\ task'[y] = "gone" /\ y = "srv"
          /\ closes'[y] \in {closes[y], closes[y] + 1}
          /\ Rests(y) \/ (up'[y] = "TunnelGone" /\ down'[y] = "TunnelGone")

EndMove(y) ==
    /\ Rests(y)
    /\ \/ task[y] = "running" /\ task'[y] = "joining" /\ closes'[y] = closes[y]
       \/ /\ task[y] = "joining" /\ task'[y] \in {"closing", "ended"} /\ Ended(y)
          /\ task'[y] = "closing" => down[y] # "PeerClosed"
          /\ closes'[y] = closes[y]
       \/ task[y] = "closing" /\ task'[y] = "ended" /\ closes'[y] \in {closes[y], closes[y] + 1}
       \/ task[y] = "ended" /\ task'[y] = "gone" /\ closes'[y] = closes[y]

Moves(y) ==
    /\ \/ Stays(y) /\ Rests(y)
       \/ ReadMove(y) \/ WriteMove(y) \/ BeginMove(y) \/ StartMove(y) \/ AbandonMove(y) \/ EndMove(y)
    /\ entry'[y] => entry[y] \/ (task[y] = "none" /\ task'[y] # "none")

\* An `open` that arrives finds an untouched controlled side.
LEMMA OpenComing ==
    ASSUME TypeOK, Opening, net["ctl"] # <<>>, Head(net["ctl"]).kind = "open"
    PROVE  Coming /\ Untouched
<1>1. Len(net["ctl"]) >= 1
  BY SMTT(60) DEF TypeOK, BufferType, Sides
<1>2. Opens(net["ctl"])
  BY SMTT(60), <1>1 DEF Opens, TypeOK, BufferType, Sides
<1>. QED BY <1>2 DEF Opening, Coming

\* Every step moves the tasks of each end in one of these ways.
LEMMA MovesStep ==
    ASSUME Sound, [Next]_vars, NEW y \in Sides
    PROVE  Moves(y)
<1>0. TypeOK /\ TunnelType /\ TaskType /\ BufferType /\ HistoryType /\ Opening
  BY DEF Sound, TypeOK
<1>. USE DEF Stays, Rests, tunnelVars, taskVars, history
<1>1. CASE Open
  BY <1>0, <1>1 DEF Open, BeginMove, Moves, TaskType, TunnelType, Sides
<1>2. CASE SendOpen
  BY <1>0, <1>2 DEF SendOpen, StartRelays, StartMove, AbandonMove, Moves, TaskType, Sides
<1>3. CASE OnFrame
  <2>1. entry'[y] => entry[y]
    BY <1>0, <1>3 DEF OnFrame, OnOpened, OnData, OnClose, OnWindowUpdate, TunnelType
  <2>. QED BY <1>3, <2>1 DEF OnFrame, Moves
<1>4. CASE PumpData \/ PumpControl
  BY <1>4 DEF PumpData, PumpControl, Moves
<1>5. CASE Handle
  <2>1. CASE OnOpen(Head(net["ctl"]))
    <3>1. Coming /\ task["srv"] = "none"
      BY <1>0, <1>5, <2>1, OpenComing DEF Handle, OnOpen, Untouched
    <3>2. \/ task' = task /\ entry' = entry
          \/ /\ task' = [task EXCEPT !["srv"] = "connecting"]
             /\ entry' = [entry EXCEPT !["srv"] = TRUE]
      BY <2>1 DEF OnOpen
    <3>3. UNCHANGED <<up, down, history>>
      BY <1>5 DEF Handle
    <3>. QED BY <1>0, <3>1, <3>2, <3>3 DEF BeginMove, Moves, TaskType, TunnelType, Sides
  <2>2. CASE ~OnOpen(Head(net["ctl"]))
    <3>1. entry'[y] => entry[y]
      BY <1>0, <1>5, <2>2 DEF Handle, OnData, OnClose, OnWindowUpdate, TunnelType
    <3>. QED BY <1>5, <2>2, <3>1 DEF Handle, Moves
  <2>. QED BY <2>1, <2>2
<1>6. CASE Connecting
  <2>1. /\ task["srv"] \in {"connecting", "connected", "granted"} /\ UNCHANGED <<tunnelVars, read, written>>
        /\ task'["ctl"] = task["ctl"] /\ up'["ctl"] = up["ctl"] /\ down'["ctl"] = down["ctl"]
    BY <1>0, <1>6, ConnectingFrame
  <2>2. ASSUME NEW extra, Abandon(extra)
        PROVE  /\ task'["srv"] = "gone" /\ closes'["srv"] \in {closes["srv"], closes["srv"] + 1}
               /\ closes'["ctl"] = closes["ctl"]
    BY <1>0, <2>2, AbandonFrame DEF TaskType, HistoryType, Sides
  <2>3. CASE ConnectCommand
    BY <2>1, <2>2, <2>3 DEF ConnectCommand, AbandonMove, Moves, Sides
  <2>4. CASE ConnectFails
    BY <2>1, <2>2, <2>4 DEF ConnectFails, AbandonMove, Moves, Sides
  <2>5. CASE ConnectSucceeds \/ GrantWindow
    BY <1>0, <2>1, <2>5 DEF ConnectSucceeds, CanLookAtConnect, GrantWindow, BeginMove, Moves,
       TaskType, Sides
  <2>6. CASE SendOpened
    BY <1>0, <2>1, <2>2, <2>6 DEF SendOpened, StartRelays, StartMove, AbandonMove,
       Moves, TaskType, Sides
  <2>. QED BY <1>6, <2>3, <2>4, <2>5, <2>6 DEF Connecting
<1>7. ASSUME NEW s \in Sides, Reads(s)
      PROVE  Moves(y)
  BY <1>0, <1>7, ReadsFrame DEF ReadMove, Moves
<1>8. ASSUME NEW s \in Sides, Writes(s)
      PROVE  Moves(y)
  BY <1>0, <1>8, WritesFrame DEF WriteMove, Moves
<1>9. ASSUME NEW s \in Sides, Channel(s)
      PROVE  Moves(y)
  BY <1>0, <1>9, ChannelFrame DEF EndMove, Moves, HistoryType, TunnelType
<1>10. ASSUME NEW s \in Sides, EndLoop(s) \/ DropQueues(s)
      PROVE  Moves(y)
  BY <1>0, <1>10, LoopFrame DEF Moves
<1>11. CASE UNCHANGED vars
  BY <1>11 DEF vars, Moves
<1>. HIDE DEF Stays, Rests
<1>. QED BY <1>1, <1>2, <1>3, <1>4, <1>5, <1>6, <1>7, <1>8, <1>9, <1>10, <1>11, NextCases

\* A loop that has ended does not come back, and its queues are dropped only afterwards.
LEMMA LoopSinkStep ==
    ASSUME TypeOK, [Next]_vars, NEW y \in Sides, ~sink[y] => ~loop[y]
    PROVE  /\ ~sink'[y] => ~loop'[y]
           /\ loop'[y] => loop[y]
<1>1. CASE UNCHANGED <<loop, sink>>
  BY <1>1
<1>2. CASE \E s \in Sides : EndLoop(s) \/ DropQueues(s)
  BY <1>2, LoopFrame
<1>. USE DEF tunnelVars
<1>3. Open \/ SendOpen \/ OnFrame \/ PumpData \/ PumpControl \/ Handle => UNCHANGED <<loop, sink>>
  BY DEF Open, SendOpen, OnFrame, PumpData, PumpControl, Handle
<1>4. Connecting => UNCHANGED <<loop, sink>>
  BY ConnectingFrame
<1>5. \A s \in Sides : Reads(s) \/ Writes(s) \/ Channel(s) => UNCHANGED <<loop, sink>>
  BY ReadsFrame, WritesFrame, ChannelFrame
<1>. QED BY <1>1, <1>2, <1>3, <1>4, <1>5, NextCases DEF vars

\* Every step preserves what the tasks of an end can be doing at the same time.
LEMMA PhasesStep ==
    ASSUME Sound, [Next]_vars
    PROVE  Phases'
<1>. SUFFICES ASSUME NEW y \in Sides
              PROVE  PhaseAt(y)'
  BY DEF Phases
<1>0. Moves(y) /\ PhaseAt(y) /\ task[y] \in TaskState /\ closes[y] \in Nat
  BY MovesStep DEF Sound, TypeOK, TaskType, HistoryType, Phases
<1>1. ~sink'[y] => ~loop'[y]
  BY <1>0, LoopSinkStep DEF Sound, PhaseAt
<1>2. task'[y] = "none" => ~entry'[y]
  BY <1>0 DEF Moves, Stays, ReadMove, WriteMove, BeginMove, StartMove, AbandonMove, EndMove,
     PhaseAt
<1>. USE DEF Early, RelayEnd, TaskState
<1>3. CASE Stays(y) /\ Rests(y)
  BY <1>0, <1>1, <1>2, <1>3 DEF Stays, Rests, PhaseAt
<1>4. CASE ReadMove(y)
  BY <1>0, <1>1, <1>2, <1>4 DEF ReadMove, Stays, PhaseAt
<1>5. CASE WriteMove(y)
  BY SMTT(60), <1>0, <1>1, <1>2, <1>5 DEF WriteMove, Stays, PhaseAt
<1>6. CASE BeginMove(y)
  BY <1>0, <1>1, <1>2, <1>6 DEF BeginMove, Rests, PhaseAt
<1>7. CASE StartMove(y)
  BY <1>0, <1>1, <1>2, <1>7 DEF StartMove, PhaseAt
<1>8. CASE AbandonMove(y)
  BY SMTT(60), <1>0, <1>1, <1>2, <1>8 DEF AbandonMove, Rests, PhaseAt
<1>9. CASE EndMove(y)
  BY SMTT(60), <1>0, <1>1, <1>2, <1>9 DEF EndMove, Rests, Ended, PhaseAt
<1>. HIDE DEF Early, RelayEnd, TaskState
<1>. QED BY <1>0, <1>3, <1>4, <1>5, <1>6, <1>7, <1>8, <1>9 DEF Moves

\* Every step preserves what they hold: one frame in hand while sending or writing, no queue
\* once its reader is gone.
LEMMA HoldsStep ==
    ASSUME Sound, [Next]_vars
    PROVE  Holds'
<1>0. TypeOK /\ TaskType /\ BufferType /\ Opening /\ \A y \in Sides : HoldAt(y) /\ PhaseAt(y)
  BY DEF Sound, TypeOK, Holds, Phases
<1>. SUFFICES ASSUME NEW y \in Sides
              PROVE  HoldAt(y)'
  BY DEF Holds
<1>1. CASE UNCHANGED <<task, up, down, bufferVars>>
  BY <1>0, <1>1 DEF HoldAt, InboundOpen, bufferVars
<1>2. ASSUME UNCHANGED <<task, up, down, out, pending, chunk>>, NEW s \in Sides,
             inbound' = inbound \/ \E m : Push(s, m)
      PROVE  HoldAt(y)'
  BY <1>0, <1>2 DEF HoldAt, InboundOpen, Push, BufferType
<1>3. CASE Open
  <2>1. \A z \in Sides : InboundOpen(z) => InboundOpen(z)'
    BY <1>0, <1>3 DEF Open, InboundOpen, TaskType
  <2>. QED BY <1>0, <1>3, <2>1 DEF Open, HoldAt, bufferVars
<1>4. CASE SendOpen
  <2>1. inbound["ctl"] = <<>> /\ pending["ctl"] = <<>> /\ up["ctl"] = "off" /\ down["ctl"] = "off"
    BY <1>0, <1>4 DEF SendOpen, Opening, Coming, Untouched, HoldAt, PhaseAt, Early, Sides
  <2>2. y # "ctl" => task'[y] = task[y] /\ up'[y] = up[y] /\ down'[y] = down[y]
    BY <1>0, <1>4 DEF SendOpen, StartRelays, TaskType
  <2>3. up'["ctl"] \in {"take", "off"} /\ down'["ctl"] \in {"recv", "off"}
    BY <1>0, <1>4, <2>1 DEF SendOpen, StartRelays, TaskType, Sides
  <2>. QED BY <1>0, <1>4, <2>1, <2>2, <2>3 DEF SendOpen, HoldAt, InboundOpen, bufferVars
<1>5. CASE OnFrame
  <2>1. inbound' = inbound \/ \E m : Push("ctl", m)
    BY <1>5 DEF OnFrame, OnOpened, OnData, OnClose, OnWindowUpdate
  <2>. QED BY <1>2, <1>5, <2>1 DEF OnFrame, taskVars, Sides
<1>6. CASE Handle
  <2>1. CASE OnOpen(Head(net["ctl"]))
    <3>1. task["srv"] = "none"
      BY <1>0, <1>6, <2>1, OpenComing DEF Handle, OnOpen, Untouched
    <3>2. task' = task \/ task' = [task EXCEPT !["srv"] = "connecting"]
      BY <2>1 DEF OnOpen
    <3>3. \A z \in Sides : InboundOpen(z) => InboundOpen(z)'
      BY <1>0, <1>6, <3>1, <3>2 DEF Handle, InboundOpen, TaskType
    <3>. QED BY <1>0, <1>6, <2>1, <3>3 DEF Handle, OnOpen, HoldAt
  <2>2. CASE ~OnOpen(Head(net["ctl"]))
    <3>1. inbound' = inbound \/ \E m : Push("srv", m)
      BY <1>6, <2>2 DEF Handle, OnData, OnClose, OnWindowUpdate
    <3>. QED BY <1>2, <1>6, <2>2, <3>1 DEF Handle, Sides
  <2>. QED BY <2>1, <2>2
<1>7. CASE Connecting
  <2>1. y = "ctl" => task'[y] = task[y] /\ down'[y] = down[y] /\ up'[y] = up[y]
                     /\ inbound'[y] = inbound[y] /\ pending'[y] = pending[y]
    BY <1>0, <1>7, ConnectingFrame
  <2>2. /\ UNCHANGED <<out, chunk>> /\ task["srv"] \in {"connecting", "connected", "granted"}
        /\ up["srv"] = "off" /\ down["srv"] = "off"
    BY <1>0, <1>7, ConnectingFrame DEF PhaseAt, Early, Sides
  <2>3. ASSUME NEW extra, Abandon(extra)
        PROVE  inbound'["srv"] = <<>> /\ pending'["srv"] = <<>>
    BY <1>0, <2>3, AbandonFrame DEF BufferType, Sides
  <2>4. up'["srv"] \in {"off", "take", "TunnelGone"} /\ down'["srv"] \in {"off", "recv", "TunnelGone"}
    BY <1>0, <1>7, <2>2 DEF Connecting, ConnectCommand, ConnectFails,
       ConnectSucceeds, GrantWindow, SendOpened, StartRelays, TaskType, Sides
  <2>5. \/ inbound'["srv"] = <<>> /\ pending'["srv"] = <<>>
        \/ InboundOpen("srv")'
    <3>1. CASE ConnectCommand
      BY <2>2, <2>3, <3>1 DEF ConnectCommand, InboundOpen
    <3>2. CASE ConnectFails
      BY <2>3, <3>2 DEF ConnectFails
    <3>3. CASE ConnectSucceeds \/ GrantWindow
      BY <1>0, <3>3 DEF ConnectSucceeds, GrantWindow, InboundOpen, TaskType, Sides
    <3>4. CASE SendOpened
      BY <1>0, <2>3, <3>4 DEF SendOpened, StartRelays, InboundOpen, TaskType,
         RelayEnd, Sides
    <3>. QED BY <1>7, <3>1, <3>2, <3>3, <3>4 DEF Connecting
  <2>. QED BY <1>0, <2>1, <2>2, <2>4, <2>5 DEF HoldAt, InboundOpen, Sides
<1>8. ASSUME NEW s \in Sides, Reads(s)
      PROVE  HoldAt(y)'
  <2>1. IF up'[s] = "send" THEN Len(out'[s]) = 1 ELSE out'[s] = <<>>
    <3>1. CASE SendFrame(s)
      BY <1>0, <3>1 DEF SendFrame, TaskType, BufferType
    <3>2. ASSUME NEW len \in 1 .. MAX_FRAME, ReadSocket(s, len)
          PROVE  up'[s] = "send" /\ Len(out'[s]) = 1
      BY <1>0, <3>2 DEF ReadSocket, TaskType, BufferType
    <3>3. CASE TakeCredit(s) \/ LookAtCredit(s) \/ Park(s) \/ Wake(s) \/ CancelReading(s) \/ ReadEof(s)
      <4>1. up[s] # "send" /\ up'[s] # "send" /\ out' = out
        BY <1>0, <3>3 DEF TakeCredit, LookAtCredit, Park, Wake, CancelReading, ReadEof,
           bufferVars, TaskType
      <4>. QED BY <1>0, <4>1 DEF HoldAt
    <3>. QED BY <1>8, <3>1, <3>2, <3>3 DEF Reads, Reading
  <2>. QED BY <1>0, <1>8, <2>1, ReadsFrame DEF HoldAt, InboundOpen
<1>9. ASSUME NEW s \in Sides, Writes(s)
      PROVE  HoldAt(y)'
  <2>1. \/ /\ inbound'[s] = <<>> /\ pending'[s] = <<>> /\ chunk'[s] = <<>> /\ down'[s] \in RelayEnd
        \/ /\ down'[s] \notin RelayEnd
           /\ IF down'[s] = "write" THEN Len(chunk'[s]) = 1 ELSE chunk'[s] = <<>>
           /\ s = "ctl" => pending'[s] = <<>>
    <3>1. ASSUME NEW end \in RelayEnd, EndWriting(s, end)
          PROVE  inbound'[s] = <<>> /\ pending'[s] = <<>> /\ chunk'[s] = <<>> /\ down'[s] \in RelayEnd
      BY <1>0, <3>1 DEF EndWriting, TaskType, BufferType
    <3>2. CASE NextChunk(s)
      <4>1. CASE \E end \in RelayEnd : EndWriting(s, end)
        BY <3>1, <4>1
      <4>2. CASE /\ \E m : chunk' = [chunk EXCEPT ![s] = <<m>>]
                 /\ down' = [down EXCEPT ![s] = "write"]
                 /\ pending' = pending \/ (pending[s] # <<>> /\ pending' = [pending EXCEPT ![s] = Tail(@)])
        BY SMTT(60), <1>0, <4>2 DEF HoldAt, TaskType, BufferType, RelayEnd
      <4>. QED BY <3>2, <4>1, <4>2 DEF NextChunk, StartWrite, RelayEnd
    <3>3. CASE Advertise(s)
      BY <1>0, <3>1, <3>3 DEF Advertise, HoldAt, TaskType, BufferType, RelayEnd
    <3>4. CASE CancelWriting(s) \/ WriteFails(s)
      BY <3>1, <3>4 DEF CancelWriting, WriteFails, RelayEnd
    <3>5. CASE WriteSocket(s)
      BY <1>0, <3>5 DEF WriteSocket, HoldAt, TaskType, BufferType, RelayEnd
    <3>. QED BY <1>9, <3>2, <3>3, <3>4, <3>5 DEF Writes, Writing
  <2>2. InboundOpen(s) /\ task' = task
    BY <1>0, <1>9, WritesFrame DEF PhaseAt, InboundOpen, Early, TaskType, TaskState
  <2>. QED BY <1>0, <1>9, <2>1, <2>2, WritesFrame DEF HoldAt, InboundOpen, RelayEnd
<1>10. ASSUME NEW s \in Sides, Channel(s)
      PROVE  HoldAt(y)'
  <2>1. \A z \in Sides : InboundOpen(z) => InboundOpen(z)'
    BY <1>0, <1>10, ChannelFrame DEF InboundOpen, Ended
  <2>. QED BY <1>0, <1>10, <2>1, ChannelFrame DEF HoldAt, bufferVars
<1>11. CASE PumpData \/ PumpControl
  BY <1>1, <1>11 DEF PumpData, PumpControl, taskVars
<1>12. ASSUME NEW s \in Sides, EndLoop(s) \/ DropQueues(s)
      PROVE  HoldAt(y)'
  BY <1>0, <1>1, <1>12, LoopFrame DEF taskVars
<1>13. CASE UNCHANGED vars
  BY <1>1, <1>13 DEF vars, taskVars
<1>. QED BY <1>3, <1>4, <1>5, <1>6, <1>7, <1>8, <1>9, <1>10, <1>11, <1>12, <1>13, NextCases

\* Where `open` can be in a queue that is appended to and taken from.
LEMMA OpensLaws ==
    /\ ~Opens(<<>>) /\ OpensFirst(<<>>)
    /\ \A q \in Seq(Msg), m \in Msg :
          /\ OpensFirst(q) /\ m.kind # "open" => OpensFirst(Append(q, m))
          /\ Opens(Append(q, m)) => Opens(q) \/ m.kind = "open"
    /\ \A m \in Msg : OpensFirst(Append(<<>>, m))
    /\ \A q \in Seq(Msg) : q # <<>> /\ OpensFirst(q) =>
          /\ ~Opens(Tail(q)) /\ OpensFirst(Tail(q))
          /\ Head(q).kind = "open" <=> Opens(q)
<1>1. ASSUME NEW q \in Seq(Msg), NEW m \in Msg
      PROVE  /\ OpensFirst(q) /\ m.kind # "open" => OpensFirst(Append(q, m))
             /\ Opens(Append(q, m)) => Opens(q) \/ m.kind = "open"
  <2>1. /\ Len(Append(q, m)) = Len(q) + 1 /\ Append(q, m)[Len(q) + 1] = m
        /\ \A i \in 1 .. Len(q) : Append(q, m)[i] = q[i]
    BY SMTT(60)
  <2>. QED BY SMTT(60), <2>1 DEF Opens, OpensFirst
<1>2. ASSUME NEW q \in Seq(Msg), q # <<>>, OpensFirst(q)
      PROVE  /\ ~Opens(Tail(q)) /\ OpensFirst(Tail(q))
             /\ Head(q).kind = "open" <=> Opens(q)
  <2>1. /\ Len(q) >= 1 /\ Len(Tail(q)) = Len(q) - 1 /\ Head(q) = q[1]
        /\ \A i \in 1 .. Len(q) - 1 : Tail(q)[i] = q[i + 1] /\ i + 1 \in 2 .. Len(q)
    BY SMTT(60), <1>2
  <2>. QED BY SMTT(60), <1>2, <2>1 DEF Opens, OpensFirst
<1>3. ~Opens(<<>>) /\ OpensFirst(<<>>) /\ \A m \in Msg : OpensFirst(Append(<<>>, m))
  BY SMTT(60) DEF Opens, OpensFirst
<1>. QED BY <1>1, <1>2, <1>3

\* Every step preserves the opening handshake, and `open` never comes twice.
LEMMA OpeningStep ==
    ASSUME Sound, [Next]_vars
    PROVE  Opening' /\ (Coming' => Coming)
<1>a. /\ TypeOK /\ TaskType /\ BufferType /\ Opening
      /\ \A y \in Sides : HoldAt(y) /\ PhaseAt(y)
  BY DEF Sound, TypeOK, Holds, Phases
<1>b. "ctl" \in Sides /\ "srv" \in Sides
  BY DEF Sides
<1>c. /\ dataQ \in Seq(Msg) /\ net["ctl"] \in Seq(Msg) /\ OpensFirst(dataQ) /\ OpensFirst(net["ctl"])
      /\ Opens(dataQ) => net["ctl"] = <<>>
      /\ task["ctl"] \in {"none", "opening"} => dataQ = <<>> /\ net["ctl"] = <<>>
      /\ Coming => Untouched
  BY <1>a, <1>b DEF BufferType, Opening
<1>d. task'["ctl"] \in {"none", "opening"} => task["ctl"] \in {"none", "opening"}
  BY <1>b, MovesStep DEF Moves, Stays, ReadMove, WriteMove, BeginMove, StartMove, AbandonMove,
     EndMove
\* Steps that leave the way of `open` alone.
<1>1. ASSUME dataQ' = dataQ, net'["ctl"] = net["ctl"], Coming => Untouched'
      PROVE  Opening' /\ (Coming' => Coming)
  BY <1>c, <1>d, <1>1 DEF Opening, Coming
<1>2. ASSUME NEW m \in Msg, m.kind # "open", dataQ' = Append(dataQ, m), net'["ctl"] = net["ctl"],
             task["ctl"] \notin {"none", "opening"}, Coming => Untouched'
      PROVE  Opening' /\ (Coming' => Coming)
  <2>1. OpensFirst(dataQ') /\ (Opens(dataQ') => Opens(dataQ))
    BY <1>c, <1>2, OpensLaws
  <2>. QED BY <1>c, <1>d, <1>2, <2>1 DEF Opening, Coming
<1>3. CASE Open
  <2>1. Untouched => Untouched'
    BY <1>a, <1>3 DEF Open, Untouched, TaskType, bufferVars, wireVars, Sides, TypeOK, TunnelType
  <2>. QED BY <1>1, <1>3, <1>c, <2>1 DEF Open, wireVars
<1>4. CASE SendOpen
  <2>1. task["ctl"] = "opening" /\ dataQ = <<>> /\ net["ctl"] = <<>> /\ Untouched
    BY <1>4, <1>c DEF SendOpen, Coming
  <2>2. Untouched'
    BY <1>a, <1>4, <2>1 DEF SendOpen, SendOrdered, StartRelays, Untouched, TaskType,
       tunnelVars, bufferVars, wireVars, Sides
  <2>3. CASE SendOrdered("ctl", open_msg) /\ StartRelays("ctl")
    <3>1. dataQ' = Append(<<>>, open_msg) /\ net' = net /\ task'["ctl"] = "running"
      BY <1>a, <1>b, <2>1, <2>3 DEF SendOrdered, StartRelays, TaskType
    <3>2. OpensFirst(dataQ')
      BY <3>1, OpensLaws, Kinds
    <3>. QED BY <1>c, <2>1, <2>2, <3>1, <3>2 DEF Opening, Coming
  <2>. QED BY <1>1, <1>4, <2>2, <2>3 DEF SendOpen, wireVars
<1>5. CASE OnFrame
  BY <1>1, <1>5, <1>a, <1>b, <1>c DEF OnFrame, Untouched, BufferType
<1>6. CASE PumpData
  <2>1. Head(dataQ) \in Msg /\ dataQ' = Tail(dataQ) /\ net'["ctl"] = Append(net["ctl"], Head(dataQ))
    <3>1. dataQ \in Seq(Msg) /\ dataQ # <<>> /\ dataQ' = Tail(dataQ)
      BY <1>6, <1>a DEF PumpData, BufferType
    <3>2. net'["ctl"] = Append(net["ctl"], Head(dataQ))
      BY <1>6, <1>a, <1>b DEF PumpData, BufferType
    <3>. QED BY <3>1, <3>2, TailFacts
  <2>2. ~Opens(dataQ') /\ OpensFirst(dataQ') /\ (Head(dataQ).kind = "open" <=> Opens(dataQ))
    BY <1>6, <1>c, <2>1, OpensLaws DEF PumpData
  <2>3. OpensFirst(net'["ctl"]) /\ (Opens(net'["ctl"]) => Opens(dataQ) \/ Opens(net["ctl"]))
    <3>1. CASE Opens(dataQ)
      <4>1. net'["ctl"] = Append(<<>>, Head(dataQ))
        BY <1>c, <2>1, <3>1
      <4>2. OpensFirst(Append(<<>>, Head(dataQ)))
        BY <2>1, OpensLaws
      <4>. QED BY <3>1, <4>1, <4>2
    <3>2. CASE ~Opens(dataQ)
      BY SMTT(60), <1>c, <2>1, <2>2, <3>2, OpensLaws
    <3>. QED BY <3>1, <3>2
  <2>4. task'["ctl"] \notin {"none", "opening"}
    BY <1>6, <1>c, <1>d DEF PumpData
  <2>5. Untouched => Untouched'
    BY <1>6, <1>a, <1>b DEF PumpData, Untouched, tunnelVars, taskVars, bufferVars, BufferType
  <2>. QED BY <1>c, <2>2, <2>3, <2>4, <2>5 DEF Opening, Coming
<1>7. CASE PumpControl
  <2>1. ~Coming
    BY <1>7, <1>c DEF PumpControl, Untouched
  <2>2. PICK m \in Msg : m.kind # "open" /\ net'["ctl"] = Append(net["ctl"], m)
    <3>1. Head(controlQ) \in Msg /\ Head(controlQ).kind # "open"
      BY SMTT(60), <1>7, <1>a, MsgFacts DEF PumpControl, BufferType
    <3>2. net'["ctl"] = Append(net["ctl"], Head(controlQ))
      BY <1>7, <1>a, <1>b DEF PumpControl, BufferType
    <3>. QED BY <3>1, <3>2
  <2>3. OpensFirst(net'["ctl"]) /\ (Opens(net'["ctl"]) => Opens(net["ctl"]))
    BY SMTT(60), <1>c, <2>2, OpensLaws
  <2>4. dataQ' = dataQ
    BY <1>7 DEF PumpControl
  <2>. QED BY <1>c, <1>d, <2>1, <2>3, <2>4 DEF Opening, Coming
<1>8. CASE Handle
  <2>1. dataQ' = dataQ /\ net["ctl"] # <<>> /\ net'["ctl"] = Tail(net["ctl"])
    BY <1>8, <1>a, <1>b DEF Handle, OnOpen, BufferType
  <2>2. ~Opens(net'["ctl"]) /\ OpensFirst(net'["ctl"]) /\ ~Opens(dataQ)
    BY <1>c, <2>1, OpensLaws
  <2>. QED BY <1>c, <1>d, <2>1, <2>2 DEF Opening, Coming
<1>9. CASE Connecting
  <2>1. dataQ' = dataQ /\ net'["ctl"] = net["ctl"] /\ task["srv"] # "none"
    BY <1>9, <1>a, ConnectingFrame
  <2>. QED BY <1>1, <1>c, <2>1 DEF Untouched
<1>10. ASSUME NEW s \in Sides, task[s] # "none", Reads(s) \/ Writes(s) \/ Channel(s)
      PROVE  Opening' /\ (Coming' => Coming)
  <2>1. CASE s = "srv"
    <3>1. dataQ' = dataQ /\ net'["ctl"] = net["ctl"]
      BY <1>a, <1>b, <1>10, <2>1 DEF Reads, Reading, TakeCredit, LookAtCredit,
         Park, Wake, SendFrame, CancelReading, ReadEof, ReadSocket, Writes, Writing, NextChunk,
         Advertise, CancelWriting, WriteSocket, WriteFails, Channel, CancelRelays, JoinRelays,
         SendClose, EndTask, SendControl, SendOrdered, wireVars, BufferType
    <3>. QED BY <1>1, <1>10, <1>c, <2>1, <3>1 DEF Untouched
  <2>2. CASE s = "ctl" /\ Reads(s)
    <3>1. Untouched => Untouched'
      <4>1. /\ UNCHANGED <<tunnelVars, task, down, inbound>> /\ net' = net /\ controlQ' = controlQ
        BY <1>a, <1>b, <2>2, ReadsFrame DEF Reads, Reading, TakeCredit,
           LookAtCredit, Park, Wake, SendFrame, CancelReading, ReadEof, ReadSocket,
           SendOrdered, wireVars
      <4>. QED BY <4>1 DEF Untouched, tunnelVars
    <3>2. CASE SendFrame(s)
      <4>1. Head(out["ctl"]) \in Msg /\ Head(out["ctl"]).kind # "open" /\ task["ctl"] \notin {"none", "opening"}
        <5>1. /\ out["ctl"] \in Seq(DataMsg) /\ Len(out["ctl"]) = 1
              /\ task["ctl"] \notin {"none", "opening"}
          BY <1>a, <1>b, <2>2, <3>2 DEF SendFrame, HoldAt, PhaseAt, Early, BufferType
        <5>2. Head(out["ctl"]) \in DataMsg
          BY <5>1, OneFacts
        <5>. QED BY <5>1, <5>2, MsgFacts
      <4>2. \/ dataQ' = Append(dataQ, Head(out["ctl"])) /\ net' = net
            \/ dataQ' = dataQ /\ net' = net
        BY <2>2, <3>2 DEF SendFrame, SendOrdered, wireVars
      <4>. QED BY <1>1, <1>2, <1>c, <3>1, <4>1, <4>2
    <3>3. CASE ~SendFrame(s)
      <4>1. dataQ' = dataQ /\ net' = net
        BY <2>2, <3>3 DEF Reads, Reading, TakeCredit, LookAtCredit, Park, Wake, CancelReading,
           ReadEof, ReadSocket, wireVars
      <4>. QED BY <1>1, <1>c, <3>1, <4>1
    <3>. QED BY <3>2, <3>3
  <2>3. CASE s = "ctl" /\ Writes(s)
    <3>1. dataQ' = dataQ /\ net' = net
      BY <2>3 DEF Writes, Writing, NextChunk, Advertise, CancelWriting, WriteSocket,
         WriteFails, SendControl, wireVars
    <3>2. ASSUME Untouched
          PROVE  Untouched'
      <4>1. pending["ctl"] = <<>> /\ inbound["ctl"] = <<>> /\ down["ctl"] \notin {"write", "advertise"}
        BY <1>a, <1>b, <3>2 DEF Untouched, HoldAt
      <4>2. controlQ' = controlQ /\ \E end \in RelayEnd : EndWriting("ctl", end)
        BY <2>3, <4>1 DEF Writes, Writing, NextChunk, Advertise, CancelWriting, WriteSocket,
           WriteFails, wireVars, RelayEnd
      <4>3. inbound'["ctl"] = <<>> /\ down'["ctl"] \in RelayEnd
        BY <1>a, <1>b, <4>2 DEF EndWriting, TaskType, BufferType
      <4>4. UNCHANGED <<tunnelVars, task>>
        BY <1>a, <2>3, WritesFrame
      <4>. QED BY <3>1, <3>2, <4>2, <4>3, <4>4 DEF Untouched, tunnelVars, RelayEnd
    <3>. QED BY <1>1, <1>c, <3>1, <3>2
  <2>4. CASE s = "ctl" /\ Channel(s)
    <3>1. /\ task'["srv"] = task["srv"] /\ UNCHANGED <<down, inbound>> /\ entry'["srv"] = entry["srv"]
      BY SMTT(60), <1>a, <1>b, <2>4, ChannelFrame DEF TypeOK, TunnelType, bufferVars
    <3>2. \/ dataQ' = dataQ /\ net' = net /\ controlQ' = controlQ
          \/ /\ dataQ' = Append(dataQ, close_msg) /\ net' = net /\ controlQ' = controlQ
             /\ task["ctl"] = "closing"
      BY <1>a, <2>4, ChannelFrame DEF SendOrdered, wireVars
    <3>3. Untouched => Untouched'
      BY <3>1, <3>2 DEF Untouched
    <3>4. close_msg \in Msg /\ close_msg.kind # "open"
      BY Kinds
    <3>. QED BY <1>1, <1>2, <1>c, <3>2, <3>3, <3>4
  <2>. QED BY <1>10, <2>1, <2>2, <2>3, <2>4 DEF Sides
<1>11. ASSUME NEW s \in Sides, Reads(s) \/ Writes(s) \/ Channel(s)
      PROVE  task[s] # "none"
  BY <1>11, <1>a, ReadsFrame, WritesFrame, ChannelFrame DEF PhaseAt, Early
<1>12. ASSUME NEW s \in Sides, EndLoop(s) \/ DropQueues(s)
      PROVE  Opening' /\ (Coming' => Coming)
  <2>1. /\ UNCHANGED <<task, down, inbound, dataQ, controlQ>> /\ net'["ctl"] = net["ctl"]
        /\ (entry'["srv"] => entry["srv"])
    BY <1>12, <1>a, <1>b, LoopFrame DEF taskVars, bufferVars
  <2>2. net["srv"] = <<>> => net'["srv"] = <<>>
    <3>1. net' = net \/ \E k \in 0 .. Len(net["srv"]) : net' = [net EXCEPT !["srv"] = SubSeq(@, 1, k)]
      BY <1>12 DEF EndLoop, DropQueues, wireVars
    <3>2. \/ net'["srv"] = net["srv"]
          \/ \E k \in 0 .. Len(net["srv"]) : net'["srv"] = SubSeq(net["srv"], 1, k)
      BY <1>a, <1>b, <3>1 DEF BufferType
    <3>. QED BY SMTT(60), <3>2
  <2>3. Untouched => Untouched'
    BY <2>1, <2>2 DEF Untouched
  <2>. QED BY <1>1, <1>c, <2>1, <2>3
<1>13. CASE UNCHANGED vars
  BY <1>1, <1>13, <1>c DEF vars, tunnelVars, taskVars, bufferVars, wireVars, Untouched
<1>. QED BY <1>3, <1>4, <1>5, <1>6, <1>7, <1>8, <1>9, <1>10, <1>11, <1>12, <1>13, NextCases

\* Every step preserves the part of the invariant that speaks of one end at a time.
LEMMA SoundStep ==
    ASSUME Sound, [Next]_vars
    PROVE  Sound'
<1>1. TunnelType' /\ TaskType' /\ WindowType'
  BY TunnelTypeStep, TaskTypeStep, WindowTypeStep
<1>2. BufferType' /\ HistoryType'
  BY BufferTypeStep, HistoryTypeStep
<1>3. Phases' /\ Holds' /\ Opening'
  BY PhasesStep, HoldsStep, OpeningStep
<1>. QED BY <1>1, <1>2, <1>3 DEF Sound, TypeOK

\* What the peer of p sends can still reach p.
Linked(p) ==
    \/ entry[p] /\ InboundOpen(p)
    \/ p = "ctl" /\ task["ctl"] = "none"
    \/ p = "srv" /\ Coming

\* x reads no more from its socket.
Quiet(x) == task[x] \in {"ended", "gone"} \/ (x = "srv" /\ task["srv"] = "none" /\ ~Coming)

\* A way that is cut stays cut, an end that is quiet stays quiet, a loop that has ended stays so.
LEMMA Onward ==
    ASSUME Sound, [Next]_vars, NEW y \in Sides
    PROVE  /\ Linked(y)' => Linked(y)
           /\ Quiet(y) => Quiet(y)'
           /\ loop'[y] => loop[y]
<1>1. Moves(y) /\ PhaseAt(y) /\ (Coming' => Coming)
  BY MovesStep, OpeningStep DEF Sound, Phases
<1>2. loop'[y] => loop[y]
  BY <1>1, LoopSinkStep DEF Sound, PhaseAt
<1>. USE DEF Stays, Rests
<1>3. CASE (Stays(y) /\ Rests(y)) \/ ReadMove(y)
  BY <1>1, <1>2, <1>3 DEF Moves, ReadMove, Linked, Quiet, InboundOpen, PhaseAt
<1>4. CASE WriteMove(y)
  BY <1>1, <1>2, <1>4 DEF Moves, WriteMove, Linked, Quiet, InboundOpen, PhaseAt
<1>5. CASE BeginMove(y) \/ StartMove(y) \/ AbandonMove(y)
  BY <1>1, <1>2, <1>5 DEF Moves, BeginMove, StartMove, AbandonMove, Linked, Quiet, InboundOpen,
     PhaseAt, Sides
<1>6. CASE EndMove(y)
  BY <1>1, <1>2, <1>6 DEF Moves, EndMove, Linked, Quiet, InboundOpen, PhaseAt
<1>. QED BY <1>1, <1>3, <1>4, <1>5, <1>6 DEF Moves

\* Every step preserves NoLostWakeup: credit is added together with a permit, and Park does not
\* look at the credit again because the permit has not been used since LookAtCredit.
LEMMA NoLostWakeupStep ==
    ASSUME Sound, [Next]_vars, NoLostWakeup
    PROVE  NoLostWakeup'
<1>0. /\ TypeOK /\ TaskType /\ WindowType /\ Opening /\ \A y \in Sides : PhaseAt(y)
      /\ \A y \in Sides : up[y] \in {"looked", "parked"} /\ CanTake(credit[y]) => permit[y]
  BY DEF Sound, TypeOK, Phases, NoLostWakeup
<1>. SUFFICES ASSUME NEW y \in Sides, up'[y] \in {"looked", "parked"}, CanTake(credit'[y])
              PROVE  permit'[y]
  BY DEF NoLostWakeup
<1>1. CASE up'[y] = up[y] /\ credit'[y] = credit[y] /\ permit'[y] = permit[y]
  BY <1>0, <1>1
<1>2. ASSUME NEW s \in Sides, NEW n, AddCredit(s, n), up' = up
      PROVE  permit'[y]
  BY <1>0, <1>2 DEF AddCredit, WindowType
<1>. USE DEF taskVars, windowVars
<1>3. CASE Open
  <2>1. up["ctl"] = "off"
    BY <1>0, <1>3 DEF Open, PhaseAt, Early, Sides
  <2>. QED BY <1>0, <1>3, <2>1 DEF Open, WindowType
<1>4. CASE SendOpen
  BY <1>0, <1>4 DEF SendOpen, StartRelays, TaskType
<1>5. CASE OnFrame
  <2>1. up' = up /\ (UNCHANGED <<credit, permit>> \/ \E n : AddCredit("ctl", n))
    BY <1>5 DEF OnFrame, OnOpened, OnData, OnClose, OnWindowUpdate
  <2>. QED BY <1>1, <1>2, <2>1 DEF Sides
<1>6. CASE Handle
  <2>1. CASE OnOpen(Head(net["ctl"]))
    <3>1. up["srv"] = "off"
      BY <1>0, <1>6, <2>1, OpenComing DEF Handle, OnOpen, Untouched, PhaseAt, Early, Sides
    <3>. QED BY <1>0, <1>6, <2>1, <3>1 DEF Handle, OnOpen, WindowType
  <2>2. CASE ~OnOpen(Head(net["ctl"]))
    <3>1. up' = up /\ (UNCHANGED <<credit, permit>> \/ \E n : AddCredit("srv", n))
      BY <1>6, <2>2 DEF Handle, OnData, OnClose, OnWindowUpdate
    <3>. QED BY <1>1, <1>2, <3>1 DEF Sides
  <2>. QED BY <2>1, <2>2
<1>7. CASE Connecting
  <2>1. UNCHANGED <<credit, permit>>
    BY <1>0, <1>7, ConnectingFrame
  <2>2. up' = up \/ up' = [up EXCEPT !["srv"] = "take"] \/ up' = [up EXCEPT !["srv"] = "TunnelGone"]
    BY <1>7 DEF Connecting, ConnectCommand, ConnectFails, ConnectSucceeds,
       GrantWindow, SendOpened, StartRelays
  <2>. QED BY <1>0, <1>1, <2>1, <2>2 DEF TaskType
<1>8. ASSUME NEW s \in Sides, Reads(s)
      PROVE  permit'[y]
  <2>1. CASE TakeCredit(s) \/ SendFrame(s)
    BY <1>0, <2>1 DEF TakeCredit, SendFrame, TaskType, WindowType
  <2>2. CASE LookAtCredit(s) \/ Park(s)
    BY <1>0, <2>2 DEF LookAtCredit, Park, TaskType
  <2>3. CASE Wake(s)
    BY <1>0, <2>3 DEF Wake, TaskType, WindowType
  <2>4. ASSUME NEW v \in UpState \ {"looked", "parked"}, up' = [up EXCEPT ![s] = v],
               UNCHANGED <<credit, permit>> \/ \E n : AddCredit(s, n)
        PROVE  permit'[y]
    BY <1>0, <1>1, <2>4 DEF AddCredit, TaskType, WindowType
  <2>5. CASE ReadEof(s) \/ CancelReading(s) \/ \E len \in 1 .. MAX_FRAME : ReadSocket(s, len)
    <3>1. /\ UNCHANGED <<credit, permit>> \/ \E n : AddCredit(s, n)
          /\ \E v \in UpState \ {"looked", "parked"} : up' = [up EXCEPT ![s] = v]
      BY <2>5 DEF ReadEof, CancelReading, ReadSocket, UpState, RelayEnd
    <3>. QED BY <2>4, <3>1
  <2>. QED BY <1>8, <2>1, <2>2, <2>3, <2>5 DEF Reads, Reading
<1>9. ASSUME NEW s \in Sides, Writes(s)
      PROVE  permit'[y]
  BY <1>0, <1>1, <1>9, WritesFrame
<1>10. ASSUME NEW s \in Sides, Channel(s)
      PROVE  permit'[y]
  BY <1>0, <1>1, <1>10, ChannelFrame
<1>11. ASSUME NEW s \in Sides, EndLoop(s) \/ DropQueues(s)
      PROVE  permit'[y]
  BY <1>0, <1>1, <1>11, LoopFrame
<1>12. CASE PumpData \/ PumpControl \/ UNCHANGED vars
  BY <1>1, <1>12 DEF PumpData, PumpControl, vars
<1>. QED BY <1>3, <1>4, <1>5, <1>6, <1>7, <1>8, <1>9, <1>10, <1>11, <1>12, NextCases

\* Initially nothing is anywhere.
LEMMA InitSound == Init => Sound
<1>. SUFFICES ASSUME Init PROVE Sound
  OBVIOUS
<1>1. TunnelType /\ TaskType /\ HistoryType
  BY DEF Init, TunnelType, TaskType, TaskState, UpState, DownState, HistoryType
<1>2. WindowType
  BY WindowAssumption DEF Init, WindowType
<1>3. BufferType
  BY SMTT(60) DEF Init, BufferType
<1>4. Phases /\ Holds
  BY DEF Init, Phases, PhaseAt, Holds, HoldAt, Early
<1>5. Opening
  BY OpensLaws DEF Init, Opening, Untouched, Sides
<1>. QED BY <1>1, <1>2, <1>3, <1>4, <1>5 DEF Sound, TypeOK

\* Sound and NoLostWakeup always hold, for every window, queue size and scenario.
LEMMA SoundInv == Spec => [](Sound /\ NoLostWakeup)
<1>1. Init => NoLostWakeup
  BY DEF Init, NoLostWakeup
<1>2. Sound /\ NoLostWakeup /\ [Next /\ UNCHANGED scenario]_<<vars, scenario>> => (Sound /\ NoLostWakeup)'
  BY SoundStep, NoLostWakeupStep
<1>. QED BY <1>1, <1>2, InitSound, PTL DEF Spec

\* NoLostWakeup always holds: a relay about to wait, or waiting, for credit it could take has a
\* permit stored.
THEOREM WakeupKept == Spec => []NoLostWakeup
  BY SoundInv, PTL

\* CloseOnce always holds: an end sends `close` at most once and never in answer to one.
THEOREM OneClose == Spec => []CloseOnce
<1>1. Sound => CloseOnce
  BY SMTT(60) DEF Sound, Phases, PhaseAt, CloseOnce
<1>. QED BY <1>1, SoundInv, PTL

=============================================================================
