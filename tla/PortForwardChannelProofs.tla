----------------------- MODULE PortForwardChannelProofs -----------------------
(***************************************************************************)
(* The bytes of each direction of a port-forward channel arrive in order   *)
(* and without a gap, and `close` arrives after the last of them, for      *)
(* every window, queue capacity and scenario.                              *)
(*                                                                         *)
(* The invariant behind this is a chain, one for each direction.  Between  *)
(* the bytes written to one socket and the bytes read from the other lie   *)
(* up to six places (the frame being written, what was buffered while      *)
(* connecting, the queue of the channel task; the stream, the data queue,  *)
(* the frame being sent).  In this order their messages form a Run: each   *)
(* data message starts where the one before it stops, and a message that   *)
(* announces the end stands where the reader has stopped.  A step moves a  *)
(* message from one place to the next, or loses a suffix, or cuts the way  *)
(* for good: that the parts still meet is what the Path lemmas say.        *)
(*                                                                         *)
(* It needs Sound (PortForwardChannelSound), and that an end is announced  *)
(* only when its reader is over (Silence).                                 *)
(***************************************************************************)
EXTENDS PortForwardChannelSound

\* Zenon first: in a module as long as this it takes up a leaf much sooner than SMT does.
USE ZenonT(60), SMTT(60)

\* The end is announced in a queue iff one of its messages announces it: appending, taking the
\* head and cutting the queue change it accordingly.
LEMMA SaysLaws ==
    ASSUME NEW q \in Seq(Msg)
    PROVE  /\ ~Says(<<>>)
           /\ \A m \in Msg : Says(Append(q, m)) <=> Says(q) \/ SaysEnd(m)
           /\ q # <<>> => (Says(q) <=> SaysEnd(Head(q)) \/ Says(Tail(q)))
           /\ \A k \in 0 .. Len(q) : Says(SubSeq(q, 1, k)) => Says(q)
<1>1. ~Says(<<>>)
  BY SMTT(60) DEF Says
<1>2. ASSUME NEW m \in Msg
      PROVE  Says(Append(q, m)) <=> Says(q) \/ SaysEnd(m)
  BY SMTT(60) DEF Says
<1>3. ASSUME q # <<>>
      PROVE  Says(q) <=> SaysEnd(Head(q)) \/ Says(Tail(q))
  <2>1. Says(q) => SaysEnd(Head(q)) \/ Says(Tail(q))
    <3>. SUFFICES ASSUME NEW i \in 1 .. Len(q), SaysEnd(q[i]), i # 1
                  PROVE  Says(Tail(q))
      BY SMTT(60), <1>3 DEF Says
    <3>1. i - 1 \in 1 .. Len(Tail(q)) /\ Tail(q)[i - 1] = q[i]
      BY SMTT(60), <1>3
    <3>. QED BY <3>1 DEF Says
  <2>2. SaysEnd(Head(q)) \/ Says(Tail(q)) => Says(q)
    BY SMTT(60), <1>3 DEF Says
  <2>. QED BY <2>1, <2>2
<1>4. ASSUME NEW k \in 0 .. Len(q)
      PROVE  Says(SubSeq(q, 1, k)) => Says(q)
  BY SMTT(60), SubFacts DEF Says
<1>. QED BY <1>1, <1>2, <1>3, <1>4

\* The queue between the relay of x and its stream: the controller has one.
Queue(x) == IF x = "ctl" THEN dataQ ELSE <<>>

\* The end of x's stream is announced on its way to the peer.
Wired(x) == Says(net[x]) \/ Says(Queue(x))

\* It is announced in the peer's queue, or was seen there.
Heard(p) == Says(inbound[p]) \/ down[p] = "PeerClosed"

\* The end of x's stream is announced only once x reads no more.
Silence == \A x \in Sides : Wired(x) \/ Heard(Peer(x)) => Quiet(x)

\* Sending announces an end only when the message does, and only the sender's.
LEMMA SendSays ==
    ASSUME BufferType, NEW s \in Sides, NEW m \in Msg, SendOrdered(s, m), NEW x \in Sides
    PROVE  Wired(x)' => Wired(x) \/ (x = s /\ SaysEnd(m))
<1>1. net[x] \in Seq(Msg) /\ dataQ \in Seq(Msg)
  BY DEF BufferType
<1>2. CASE s = "ctl"
  <2>1. dataQ' = Append(dataQ, m) /\ net' = net
    BY <1>2 DEF SendOrdered
  <2>2. Says(dataQ') => Says(dataQ) \/ SaysEnd(m)
    BY <1>1, <2>1, SaysLaws
  <2>. QED BY <1>2, <2>1, <2>2 DEF Wired, Queue
<1>3. CASE s = "srv"
  <2>1. dataQ' = dataQ /\ (net'[x] = net[x] \/ (x = s /\ net'[x] = Append(net[x], m)))
    BY <1>3 DEF SendOrdered, BufferType
  <2>2. Says(net'[x]) => Says(net[x]) \/ (x = s /\ SaysEnd(m))
    BY <1>1, <2>1, SaysLaws
  <2>. QED BY <2>1, <2>2 DEF Wired, Queue
<1>. QED BY <1>2, <1>3 DEF Sides

\* A demultiplexer hands an announcement on only when it was on the way.
LEMMA DeliverSays ==
    ASSUME BufferType, NEW s \in Sides, net[Peer(s)] # <<>>, NEW m, m = Head(net[Peer(s)]),
           OnData(s, m) \/ OnClose(s, m) \/ OnWindowUpdate(s, m) \/ (OnOpened(m) /\ s = "ctl"),
           UNCHANGED down
    PROVE  \A p \in Sides : Heard(p)' => Heard(p) \/ (p = s /\ Wired(Peer(s)))
<1>1. m \in Msg /\ (SaysEnd(m) => Wired(Peer(s)))
  <2>1. Peer(s) \in Sides
    BY DEF Peer, Sides
  <2>. QED BY SMTT(60), <2>1, SaysLaws DEF BufferType, Wired
<1>2. \/ inbound' = inbound
      \/ Push(s, m) /\ m.kind = "data"
      \/ Push(s, Close) /\ SaysEnd(m)
      \/ Push(s, Violation)
  BY DEF OnData, OnClose, OnWindowUpdate, OnOpened, SaysEnd
<1>3. inbound' = inbound \/ \E e \in Msg : Push(s, e) /\ (SaysEnd(e) => SaysEnd(m))
  BY <1>1, <1>2, Kinds
<1>4. ASSUME NEW p \in Sides
      PROVE  Says(inbound'[p]) => Says(inbound[p]) \/ (p = s /\ SaysEnd(m))
  <2>1. inbound[p] \in Seq(Msg)
    BY DEF BufferType
  <2>2. \/ inbound'[p] = inbound[p]
        \/ p = s /\ \E e \in Msg : inbound'[p] = Append(inbound[p], e) /\ (SaysEnd(e) => SaysEnd(m))
    BY <1>3 DEF Push, BufferType
  <2>. QED BY <2>1, <2>2, SaysLaws
<1>. QED BY <1>1, <1>4 DEF Heard

\* What the controlled side handles while `open` is still coming is that `open`.
LEMMA HandleMeets ==
    ASSUME Sound, [Next]_vars, Handle
    PROVE  ~Coming' /\ (Coming => Head(net["ctl"]).kind = "open")
<1>1. /\ dataQ' = dataQ /\ net["ctl"] # <<>> /\ net'["ctl"] = Tail(net["ctl"])
      /\ net["ctl"] \in Seq(Msg) /\ Opening /\ "ctl" \in Sides
  BY DEF Sound, TypeOK, BufferType, Handle, OnOpen, Sides
<1>2. ~Opens(net'["ctl"]) /\ ~Opens(dataQ) /\ (Head(net["ctl"]).kind = "open" <=> Opens(net["ctl"]))
  BY <1>1, OpensLaws DEF Opening
<1>3. task["ctl"] \notin {"none", "opening"}
  BY <1>1 DEF Opening
<1>4. task'["ctl"] \notin {"none", "opening"}
  BY <1>1, <1>3, MovesStep
     DEF Moves, Stays, ReadMove, WriteMove, BeginMove, StartMove, AbandonMove, EndMove
<1>. QED BY <1>1, <1>2, <1>3, <1>4 DEF Coming

\* Every step preserves Silence: `close` and a refused `opened` leave only when the reading relay
\* is over or never was.
LEMMA SilenceStep ==
    ASSUME Sound, [Next]_vars, Silence
    PROVE  Silence'
<1>0. /\ TypeOK /\ TaskType /\ WindowType /\ BufferType /\ Opening
      /\ \A y \in Sides : HoldAt(y)
  BY DEF Sound, TypeOK, Holds
<1>a. "ctl" \in Sides /\ "srv" \in Sides /\ Peer("srv") = "ctl" /\ Peer("ctl") = "srv"
  BY DEF Sides, Peer
\* A step that announces nothing, or announces the end of a quiet end.
<1>1. ASSUME \A x \in Sides : Wired(x)' => Wired(x) \/ Quiet(x)',
             \A p \in Sides : Heard(p)' => Heard(p) \/ (Wired(Peer(p)))
      PROVE  Silence'
  <2>. SUFFICES ASSUME NEW x \in Sides, Wired(x)' \/ Heard(Peer(x))'
                PROVE  Quiet(x)'
    BY DEF Silence
  <2>1. Peer(x) \in Sides /\ Peer(Peer(x)) = x
    BY DEF Peer, Sides
  <2>. QED BY <1>1, <2>1, Onward DEF Silence
<1>2. ASSUME UNCHANGED <<dataQ, net>>
      PROVE  \A x \in Sides : Wired(x)' => Wired(x)
  BY <1>2 DEF Wired, Queue
<1>3. ASSUME UNCHANGED <<inbound, down>>
      PROVE  \A p \in Sides : Heard(p)' => Heard(p)
  BY <1>3 DEF Heard
<1>4. CASE Open
  BY <1>1, <1>2, <1>3, <1>4 DEF Open, bufferVars, wireVars
<1>5. CASE SendOpen
  <2>1. \A x \in Sides : Wired(x)' => Wired(x)
    BY <1>0, <1>2, <1>5, <1>a, SendSays, Kinds DEF SendOpen, wireVars
  <2>2. \A p \in Sides : Heard(p)' => Heard(p)
    BY <1>0, <1>5 DEF SendOpen, StartRelays, bufferVars, Heard, TaskType
  <2>. QED BY <1>1, <2>1, <2>2
<1>6. CASE OnFrame
  <2>1. \A x \in Sides : Wired(x)' => Wired(x)
    <3>1. dataQ' = dataQ /\ net["srv"] # <<>> /\ net' = [net EXCEPT !["srv"] = Tail(@)]
      BY <1>6 DEF OnFrame
    <3>2. Says(Tail(net["srv"])) => Says(net["srv"])
      BY <1>0, <1>a, <3>1, SaysLaws DEF BufferType
    <3>. QED BY <1>0, <3>1, <3>2 DEF Wired, Queue, BufferType
  <2>2. \A p \in Sides : Heard(p)' => Heard(p) \/ Wired(Peer(p))
    BY <1>0, <1>6, <1>a, DeliverSays DEF OnFrame, taskVars
  <2>. QED BY <1>1, <2>1, <2>2
<1>7. CASE PumpData
  <2>1. dataQ' = Tail(dataQ) /\ Head(dataQ) \in Msg /\ net' = [net EXCEPT !["ctl"] = Append(@, Head(dataQ))]
    BY SMTT(60), <1>0, <1>7 DEF PumpData, BufferType
  <2>2. /\ Says(dataQ) <=> SaysEnd(Head(dataQ)) \/ Says(Tail(dataQ))
        /\ Says(Append(net["ctl"], Head(dataQ))) => Says(net["ctl"]) \/ SaysEnd(Head(dataQ))
    BY <1>0, <1>7, <1>a, <2>1, SaysLaws DEF PumpData, BufferType
  <2>3. \A x \in Sides : Wired(x)' => Wired(x)
    BY <1>0, <2>1, <2>2 DEF Wired, Queue, BufferType
  <2>. QED BY <1>1, <1>3, <1>7, <2>3 DEF PumpData, taskVars, bufferVars
<1>8. CASE PumpControl
  <2>1. PICK m \in UpdateMsg : dataQ' = dataQ /\ net' = [net EXCEPT !["ctl"] = Append(@, m)]
    <3>1. Head(controlQ) \in UpdateMsg
      BY SMTT(60), <1>0, <1>8 DEF PumpControl, BufferType
    <3>. QED BY <1>8, <3>1 DEF PumpControl
  <2>2. Says(Append(net["ctl"], m)) => Says(net["ctl"])
    BY <1>0, <1>a, SaysLaws, MsgFacts DEF BufferType
  <2>3. \A x \in Sides : Wired(x)' => Wired(x)
    BY <1>0, <2>1, <2>2 DEF Wired, Queue, BufferType
  <2>. QED BY <1>1, <1>3, <1>8, <2>3 DEF PumpControl, taskVars, bufferVars
<1>9. CASE Handle
  <2>1. CASE OnOpen(Head(net["ctl"]))
    <3>1. Says(Tail(net["ctl"])) => Says(net["ctl"])
      BY <1>0, <1>9, <1>a, SaysLaws DEF Handle, BufferType
    <3>2. CASE net' = [net EXCEPT !["ctl"] = Tail(@)] /\ dataQ' = dataQ
      <4>1. \A x \in Sides : Wired(x)' => Wired(x)
        BY <1>0, <3>1, <3>2 DEF Wired, Queue, BufferType
      <4>. QED BY <1>1, <1>3, <1>9, <2>1, <4>1 DEF Handle, OnOpen
    <3>3. CASE /\ net' = [net EXCEPT !["ctl"] = Tail(@), !["srv"] = Append(@, opened_msg(FALSE))]
               /\ task' = task
      <4>1. task["srv"] = "none" /\ ~Coming'
        BY <1>0, <1>9, <2>1, OpenComing, HandleMeets DEF Handle, OnOpen, Untouched
      <4>2. Wired("ctl")' => Wired("ctl")
        BY <1>0, <1>9, <1>a, <3>1, <3>3 DEF Handle, Wired, Queue, BufferType
      <4>3. \A x \in Sides : Wired(x)' => Wired(x) \/ Quiet(x)'
        BY <3>3, <4>1, <4>2 DEF Quiet, Sides
      <4>. QED BY <1>1, <1>3, <1>9, <2>1, <4>3 DEF Handle, OnOpen
    <3>. QED BY <1>9, <2>1, <3>2, <3>3 DEF Handle, OnOpen
  <2>2. CASE ~OnOpen(Head(net["ctl"]))
    <3>1. dataQ' = dataQ /\ net["ctl"] # <<>> /\ net' = [net EXCEPT !["ctl"] = Tail(@)]
      BY <1>9, <2>2 DEF Handle
    <3>2. Says(Tail(net["ctl"])) => Says(net["ctl"])
      BY <1>0, <1>a, <3>1, SaysLaws DEF BufferType
    <3>3. \A x \in Sides : Wired(x)' => Wired(x)
      BY <1>0, <3>1, <3>2 DEF Wired, Queue, BufferType
    <3>4. \A p \in Sides : Heard(p)' => Heard(p) \/ Wired(Peer(p))
      BY <1>0, <1>9, <1>a, <2>2, DeliverSays DEF Handle
    <3>. QED BY <1>1, <3>3, <3>4
  <2>. QED BY <2>1, <2>2
<1>10. CASE Connecting
  <2>1. \A x \in Sides : Wired(x)' => Wired(x) \/ Quiet(x)'
    <3>1. ASSUME NEW extra, Abandon(extra)
          PROVE  \A x \in Sides : Wired(x)' => Wired(x) \/ Quiet(x)'
      <4>1. task'["srv"] = "gone" /\ dataQ' = dataQ /\ net'["ctl"] = net["ctl"]
        BY <1>0, <1>a, <3>1, AbandonFrame DEF TaskType
      <4>. QED BY <4>1 DEF Wired, Queue, Quiet, Sides
    <3>2. CASE UNCHANGED wireVars
      BY <1>2, <3>2 DEF wireVars
    <3>3. CASE SendOrdered("srv", opened_msg(TRUE))
      BY <1>0, <1>a, <3>3, SendSays, Kinds
    <3>4. \/ UNCHANGED wireVars \/ SendOrdered("srv", opened_msg(TRUE)) \/ Abandon(<<>>)
          \/ Abandon(<<close_msg>>) \/ Abandon(<<opened_msg(FALSE)>>)
      BY <1>10 DEF Connecting, ConnectCommand, ConnectFails, ConnectSucceeds,
         GrantWindow, SendOpened
    <3>. QED BY <3>1, <3>2, <3>3, <3>4
  <2>2. inbound'["srv"] = <<>> \/ inbound'["srv"] = inbound["srv"]
        \/ (inbound["srv"] # <<>> /\ inbound'["srv"] = Tail(inbound["srv"]))
    <3>1. ASSUME NEW extra, Abandon(extra)
          PROVE  inbound'["srv"] = <<>>
      BY <1>0, <1>a, <3>1, AbandonFrame DEF BufferType
    <3>. QED BY <1>0, <1>10, <1>a, <3>1 DEF Connecting, ConnectCommand,
                ConnectFails, ConnectSucceeds, GrantWindow, SendOpened, bufferVars, BufferType
  <2>3. Says(inbound'["srv"]) => Says(inbound["srv"])
    BY <1>0, <1>a, <2>2, SaysLaws DEF BufferType
  <2>4. down'["srv"] = "PeerClosed" => down["srv"] = "PeerClosed"
    BY <1>0, <1>10, <1>a DEF Connecting, ConnectCommand, ConnectFails,
       ConnectSucceeds, GrantWindow, SendOpened, StartRelays, TaskType
  <2>5. inbound'["ctl"] = inbound["ctl"] /\ down'["ctl"] = down["ctl"]
    BY <1>0, <1>10, ConnectingFrame
  <2>6. \A p \in Sides : Heard(p)' => Heard(p)
    BY <2>3, <2>4, <2>5 DEF Heard, Sides
  <2>. QED BY <1>1, <2>1, <2>6
<1>11. ASSUME NEW s \in Sides, Reads(s)
      PROVE  Silence'
  <2>1. \A x \in Sides : Wired(x)' => Wired(x)
    <3>1. CASE UNCHANGED wireVars
      BY <1>2, <3>1 DEF wireVars
    <3>2. CASE up[s] = "send" /\ SendOrdered(s, Head(out[s]))
      <4>1. Head(out[s]) \in Msg /\ ~SaysEnd(Head(out[s]))
        BY <1>0, <3>2, OneFacts, MsgFacts DEF HoldAt, BufferType
      <4>. QED BY <1>0, <3>2, <4>1, SendSays
    <3>3. UNCHANGED wireVars \/ (up[s] = "send" /\ SendOrdered(s, Head(out[s])))
      BY <1>11 DEF Reads, Reading, TakeCredit, LookAtCredit, Park, Wake, SendFrame,
         CancelReading, ReadEof, ReadSocket
    <3>. QED BY <3>1, <3>2, <3>3
  <2>. QED BY <1>0, <1>1, <1>3, <1>11, <2>1, ReadsFrame
<1>12. ASSUME NEW s \in Sides, Writes(s)
      PROVE  Silence'
  <2>1. \A x \in Sides : Wired(x)' => Wired(x)
    <3>1. CASE UNCHANGED <<dataQ, net>>
      BY <1>2, <3>1
    <3>2. CASE SendOrdered(s, window_update_msg(advert[s]))
      <4>1. window_update_msg(advert[s]) \in UpdateMsg
        BY <1>0, Kinds DEF WindowType
      <4>. QED BY <1>0, <3>2, <4>1, SendSays, MsgFacts
    <3>3. UNCHANGED <<dataQ, net>> \/ SendOrdered(s, window_update_msg(advert[s]))
      BY <1>12 DEF Writes, Writing, NextChunk, Advertise, CancelWriting, WriteSocket,
         WriteFails, SendControl, wireVars
    <3>. QED BY <3>1, <3>2, <3>3
  <2>2. \/ down'[s] # "PeerClosed" /\ (inbound'[s] = inbound[s] \/ inbound'[s] = <<>>)
        \/ down'[s] # "PeerClosed" /\ inbound[s] # <<>> /\ inbound'[s] = Tail(inbound[s])
        \/ inbound[s] # <<>> /\ Head(inbound[s]) = Close /\ inbound'[s] = <<>>
    <3>1. CASE NextChunk(s)
      BY <1>0, <3>1 DEF NextChunk, StartWrite, EndWriting, TaskType, BufferType
    <3>2. CASE Advertise(s) \/ CancelWriting(s) \/ WriteFails(s) \/ WriteSocket(s)
      BY <1>0, <3>2 DEF Advertise, CancelWriting, WriteSocket, WriteFails, EndWriting,
         TaskType, BufferType
    <3>. QED BY <1>12, <3>1, <3>2 DEF Writes, Writing
  <2>3. Says(inbound'[s]) \/ down'[s] = "PeerClosed" => Says(inbound[s])
    <3>1. inbound[s] \in Seq(Msg)
      BY <1>0 DEF BufferType
    <3>2. /\ ~Says(<<>>)
          /\ inbound[s] # <<>> =>
                (Says(inbound[s]) <=> SaysEnd(Head(inbound[s])) \/ Says(Tail(inbound[s])))
      BY <3>1, SaysLaws
    <3>. QED BY <2>2, <3>2, Kinds
  <2>4. \A p \in Sides : Heard(p)' => Heard(p)
    BY <1>0, <1>12, <2>3, WritesFrame DEF Heard
  <2>. QED BY <1>1, <2>1, <2>4
<1>13. ASSUME NEW s \in Sides, Channel(s)
      PROVE  Silence'
  <2>1. CASE UNCHANGED wireVars
    BY <1>0, <1>1, <1>2, <1>3, <1>13, <2>1, ChannelFrame DEF wireVars, bufferVars
  <2>2. CASE SendOrdered(s, close_msg) /\ task'[s] = "ended"
    <3>1. \A x \in Sides : Wired(x)' => Wired(x) \/ Quiet(x)'
      BY <1>0, <2>2, SendSays, Kinds DEF Quiet
    <3>. QED BY <1>0, <1>1, <1>3, <1>13, <3>1, ChannelFrame DEF bufferVars
  <2>. QED BY <1>0, <1>13, <2>1, <2>2, ChannelFrame
<1>14. ASSUME NEW s \in Sides, EndLoop(s) \/ DropQueues(s)
      PROVE  Silence'
  <2>1. net' = net \/ \E k \in 0 .. Len(net["srv"]) : net' = [net EXCEPT !["srv"] = SubSeq(@, 1, k)]
    BY <1>14 DEF EndLoop, DropQueues, wireVars
  <2>2. \A k \in 0 .. Len(net["srv"]) : Says(SubSeq(net["srv"], 1, k)) => Says(net["srv"])
    BY <1>0, <1>a, SaysLaws DEF BufferType
  <2>3. UNCHANGED <<dataQ, inbound, down>>
    BY <1>0, <1>14, LoopFrame DEF bufferVars, taskVars
  <2>4. \A x \in Sides : Wired(x)' => Wired(x)
    BY <1>0, <2>1, <2>2, <2>3 DEF Wired, Queue, BufferType
  <2>. QED BY <1>1, <1>3, <2>3, <2>4
<1>15. CASE UNCHANGED vars
  BY <1>1, <1>2, <1>3, <1>15 DEF vars, taskVars, bufferVars, wireVars
<1>. QED BY <1>4, <1>5, <1>6, <1>7, <1>8, <1>9, <1>10, <1>11, <1>12, <1>13, <1>14, <1>15,
            NextCases

\* m, met at the byte a of its stream, takes the stream to the byte b; an end
\* of the stream is met at its last byte only.
Carries(m, a, b, last) ==
    /\ IF m.kind = "data" THEN m.off = a /\ b = a + m.len ELSE b = a
    /\ SaysEnd(m) => a = last

\* The messages of q, in order and without a gap, take the stream from a to b.
Run(q, a, b, last) == \E f \in [0 .. Len(q) -> Nat] :
    /\ f[0] = a /\ f[Len(q)] = b
    /\ \A i \in 1 .. Len(q) : Carries(q[i], f[i - 1], f[i], last)

\* An empty queue takes the stream nowhere.
LEMMA RunEmpty ==
    ASSUME NEW a, NEW b, NEW last
    PROVE  Run(<<>>, a, b, last) <=> a \in Nat /\ a = b
<1>1. ASSUME a \in Nat, a = b PROVE Run(<<>>, a, b, last)
  <2>. DEFINE f == [i \in 0 .. Len(<<>>) |-> a]
  <2>1. f \in [0 .. Len(<<>>) -> Nat] /\ f[0] = a /\ f[Len(<<>>)] = b
    BY SMTT(60), <1>1
  <2>2. \A i \in 1 .. Len(<<>>) : FALSE
    BY SMTT(60)
  <2>. HIDE DEF f
  <2>. QED BY <2>1, <2>2 DEF Run
<1>. QED BY SMTT(60), <1>1 DEF Run

\* A message that goes on where a run stops extends it.
LEMMA RunAppend ==
    ASSUME NEW q \in Seq(Msg), NEW m \in Msg, NEW a, NEW b, NEW c \in Nat, NEW last,
           Run(q, a, b, last), Carries(m, b, c, last)
    PROVE  Run(Append(q, m), a, c, last)
<1>1. PICK f \in [0 .. Len(q) -> Nat] :
         /\ f[0] = a /\ f[Len(q)] = b
         /\ \A i \in 1 .. Len(q) : Carries(q[i], f[i - 1], f[i], last)
  BY DEF Run
<1>. DEFINE r == Append(q, m)
            g == [i \in 0 .. Len(r) |-> IF i <= Len(q) THEN f[i] ELSE c]
<1>2. r \in Seq(Msg) /\ Len(r) = Len(q) + 1 /\ Len(q) \in Nat
  BY SMTT(60), SeqFacts
<1>3. g \in [0 .. Len(r) -> Nat] /\ g[0] = a /\ g[Len(r)] = c
  BY SMTT(60), <1>1, <1>2
<1>4. ASSUME NEW i \in 1 .. Len(r) PROVE Carries(r[i], g[i - 1], g[i], last)
  <2>1. CASE i = Len(q) + 1
    <3>1. r[i] = m /\ g[i - 1] = b /\ g[i] = c
      BY SMTT(60), <1>1, <1>2, <2>1, SeqFacts
    <3>. QED BY <3>1
  <2>2. CASE i \in 1 .. Len(q)
    <3>1. r[i] = q[i] /\ g[i - 1] = f[i - 1] /\ g[i] = f[i]
      BY SMTT(60), <1>1, <1>2, <2>2, SeqFacts
    <3>. QED BY <1>1, <2>2, <3>1
  <2>. QED BY SMTT(60), <1>2, <2>1, <2>2
<1>. HIDE DEF g, r
<1>5. Run(r, a, c, last)
  BY <1>3, <1>4 DEF Run
<1>. QED BY <1>5 DEF r

\* Taking the first message off a run leaves a run from where that message stops.
LEMMA RunTail ==
    ASSUME NEW q \in Seq(Msg), q # <<>>, NEW a, NEW b, NEW last, Run(q, a, b, last)
    PROVE  \E c \in Nat : Carries(Head(q), a, c, last) /\ Run(Tail(q), c, b, last)
<1>1. PICK f \in [0 .. Len(q) -> Nat] :
         /\ f[0] = a /\ f[Len(q)] = b
         /\ \A i \in 1 .. Len(q) : Carries(q[i], f[i - 1], f[i], last)
  BY DEF Run
<1>. DEFINE r == Tail(q)
            g == [i \in 0 .. Len(r) |-> f[i + 1]]
<1>2. r \in Seq(Msg) /\ Len(q) = Len(r) + 1 /\ Len(r) \in Nat /\ Head(q) = q[1]
  BY SMTT(60), TailFacts
<1>3. g \in [0 .. Len(r) -> Nat] /\ g[0] = f[1] /\ g[Len(r)] = b
  BY SMTT(60), <1>1, <1>2
<1>4. ASSUME NEW i \in 1 .. Len(r) PROVE Carries(r[i], g[i - 1], g[i], last)
  <2>1. i + 1 \in 1 .. Len(q) /\ r[i] = q[i + 1] /\ g[i - 1] = f[(i + 1) - 1] /\ g[i] = f[i + 1]
    BY SMTT(60), <1>2, TailFacts
  <2>. QED BY <1>1, <2>1
<1>5. f[1] \in Nat /\ Carries(Head(q), a, f[1], last)
  BY SMTT(60), <1>1, <1>2
<1>. HIDE DEF g, r
<1>6. Run(r, f[1], b, last)
  BY <1>3, <1>4 DEF Run
<1>. QED BY <1>5, <1>6 DEF r

\* What is left of a run when its last messages are lost (the loop of the controlled side ends)
\* is a run.
LEMMA RunPrefix ==
    ASSUME NEW q \in Seq(Msg), NEW k \in 0 .. Len(q), NEW a, NEW b, NEW last, Run(q, a, b, last)
    PROVE  \E c \in Nat : Run(SubSeq(q, 1, k), a, c, last)
<1>1. PICK f \in [0 .. Len(q) -> Nat] :
         /\ f[0] = a /\ f[Len(q)] = b
         /\ \A i \in 1 .. Len(q) : Carries(q[i], f[i - 1], f[i], last)
  BY DEF Run
<1>. DEFINE r == SubSeq(q, 1, k)
            g == [i \in 0 .. Len(r) |-> f[i]]
<1>2. /\ r \in Seq(Msg) /\ Len(r) = k /\ \A i \in 1 .. k : r[i] = q[i]
      /\ Len(q) \in Nat /\ k \in Nat /\ k <= Len(q)
  BY SMTT(60), SubFacts
<1>. HIDE DEF r
<1>3. g \in [0 .. Len(r) -> Nat] /\ g[0] = a /\ g[Len(r)] = f[k] /\ f[k] \in Nat
  BY SMTT(60), <1>1, <1>2
<1>4. ASSUME NEW i \in 1 .. Len(r) PROVE Carries(r[i], g[i - 1], g[i], last)
  <2>1. r[i] = q[i] /\ g[i - 1] = f[i - 1] /\ g[i] = f[i] /\ i \in 1 .. Len(q)
    BY SMTT(60), <1>1, <1>2
  <2>. QED BY <1>1, <2>1
<1>. HIDE DEF g
<1>5. Run(r, a, f[k], last)
  BY <1>3, <1>4 DEF Run
<1>. QED BY <1>3, <1>5 DEF r

\* A run that announces no end does not depend on where the end is.
LEMMA RunLast ==
    ASSUME NEW q, NEW a, NEW b, NEW last, NEW new, Run(q, a, b, last), ~Says(q)
    PROVE  Run(q, a, b, new)
  BY DEF Run, Says, Carries

\* Three stretches of the way, one after the other.
Path(q1, q2, q3, a, b, last) == \E c, d \in Nat :
    Run(q1, a, c, last) /\ Run(q2, c, d, last) /\ Run(q3, d, b, last)

\* When the first message of one queue moves to the end of the queue before it (PumpData), the
\* two runs still meet.
LEMMA RunHandOver ==
    ASSUME NEW q \in Seq(Msg), NEW r \in Seq(Msg), r # <<>>, NEW a, NEW b, NEW c, NEW last,
           Run(q, a, b, last), Run(r, b, c, last)
    PROVE  \E d \in Nat : Run(Append(q, Head(r)), a, d, last) /\ Run(Tail(r), d, c, last)
<1>1. PICK d \in Nat : Carries(Head(r), b, d, last) /\ Run(Tail(r), d, c, last)
  BY RunTail
<1>2. Head(r) \in Msg
  BY SMTT(60)
<1>3. Run(Append(q, Head(r)), a, d, last)
  BY <1>1, <1>2, RunAppend
<1>. QED BY <1>1, <1>3

\* A message that moves on to the next queue leaves the path as it is, also past an empty one.
LEMMA PathShift ==
    ASSUME NEW q1 \in Seq(Msg), NEW q2 \in Seq(Msg), NEW q3 \in Seq(Msg), NEW a, NEW b, NEW last,
           Path(q1, q2, q3, a, b, last)
    PROVE  /\ q2 # <<>> => Path(Append(q1, Head(q2)), Tail(q2), q3, a, b, last)
           /\ q3 # <<>> => Path(q1, Append(q2, Head(q3)), Tail(q3), a, b, last)
           /\ q2 = <<>> /\ q3 # <<>> => Path(Append(q1, Head(q3)), q2, Tail(q3), a, b, last)
<1>1. PICK c \in Nat, d \in Nat : Run(q1, a, c, last) /\ Run(q2, c, d, last) /\ Run(q3, d, b, last)
  BY DEF Path
<1>2. ASSUME q2 # <<>>
      PROVE  Path(Append(q1, Head(q2)), Tail(q2), q3, a, b, last)
  BY <1>1, <1>2, RunHandOver DEF Path
<1>3. ASSUME q3 # <<>>
      PROVE  Path(q1, Append(q2, Head(q3)), Tail(q3), a, b, last)
  BY <1>1, <1>3, RunHandOver DEF Path
<1>4. ASSUME q2 = <<>>, q3 # <<>>
      PROVE  Path(Append(q1, Head(q3)), q2, Tail(q3), a, b, last)
  <2>1. c = d
    BY <1>1, <1>4, RunEmpty
  <2>2. PICK e \in Nat : Run(Append(q1, Head(q3)), a, e, last) /\ Run(Tail(q3), e, b, last)
    BY <1>1, <1>4, <2>1, RunHandOver
  <2>3. Run(q2, e, e, last)
    BY <1>4, RunEmpty
  <2>. QED BY <2>2, <2>3 DEF Path
<1>. QED BY <1>2, <1>3, <1>4

\* Taking the first message off a path leaves a path from where that message stops.
LEMMA PathFirst ==
    ASSUME NEW q1 \in Seq(Msg), q1 # <<>>, NEW q2, NEW q3, NEW a, NEW b, NEW last,
           Path(q1, q2, q3, a, b, last)
    PROVE  \E e \in Nat : Carries(Head(q1), a, e, last) /\ Path(Tail(q1), q2, q3, e, b, last)
<1>1. PICK c \in Nat, d \in Nat : Run(q1, a, c, last) /\ Run(q2, c, d, last) /\ Run(q3, d, b, last)
  BY DEF Path
<1>2. PICK e \in Nat : Carries(Head(q1), a, e, last) /\ Run(Tail(q1), e, c, last)
  BY <1>1, RunTail
<1>. QED BY <1>1, <1>2 DEF Path

\* A message that goes on where a path stops extends it.
LEMMA PathLast ==
    ASSUME NEW q1, NEW q2, NEW q3 \in Seq(Msg), NEW a, NEW b, NEW e \in Nat, NEW m \in Msg, NEW last,
           Path(q1, q2, q3, a, b, last), Carries(m, b, e, last)
    PROVE  Path(q1, q2, Append(q3, m), a, e, last)
  BY RunAppend DEF Path

\* A message without bytes may join any queue of a path; one that announces the end only when
\* no bytes are behind it.
LEMMA PathMark ==
    ASSUME NEW q1 \in Seq(Msg), NEW q2 \in Seq(Msg), NEW q3, NEW a, NEW b, NEW last,
           NEW m \in Msg, m.kind # "data", Path(q1, q2, q3, a, b, last)
    PROVE  /\ (SaysEnd(m) => b = last /\ q2 = <<>> /\ q3 = <<>>)
              => Path(Append(q1, m), q2, q3, a, b, last)
           /\ (SaysEnd(m) => b = last /\ q3 = <<>>)
              => Path(q1, Append(q2, m), q3, a, b, last)
<1>1. PICK c \in Nat, d \in Nat : Run(q1, a, c, last) /\ Run(q2, c, d, last) /\ Run(q3, d, b, last)
  BY DEF Path
<1>2. ASSUME SaysEnd(m) => b = last /\ q2 = <<>> /\ q3 = <<>>
      PROVE  Path(Append(q1, m), q2, q3, a, b, last)
  <2>1. Carries(m, c, c, last)
    BY SMTT(60), <1>1, <1>2, RunEmpty DEF Carries
  <2>. QED BY <1>1, <2>1, RunAppend DEF Path
<1>3. ASSUME SaysEnd(m) => b = last /\ q3 = <<>>
      PROVE  Path(q1, Append(q2, m), q3, a, b, last)
  <2>1. Carries(m, d, d, last)
    BY SMTT(60), <1>1, <1>3, RunEmpty DEF Carries
  <2>. QED BY <1>1, <2>1, RunAppend DEF Path
<1>. QED BY <1>2, <1>3

\* A path that announces no end does not depend on where the end is.
LEMMA PathNew ==
    ASSUME NEW q1, NEW q2, NEW q3, NEW a, NEW b, NEW last, NEW new, Path(q1, q2, q3, a, b, last),
           ~Says(q1), ~Says(q2), ~Says(q3)
    PROVE  Path(q1, q2, q3, a, b, new)
  BY RunLast DEF Path

\* A path with nothing on it takes the stream nowhere.
LEMMA PathNone ==
    ASSUME NEW a, NEW b, NEW last
    PROVE  Path(<<>>, <<>>, <<>>, a, b, last) <=> a \in Nat /\ a = b
  BY RunEmpty DEF Path

\* From the socket of Peer(x) back to its queue, and on to the socket of x.
First(x, a) ==
    Path(chunk[Peer(x)], pending[Peer(x)], inbound[Peer(x)], written[Peer(x)], a, read[x])

Rest(x, a) ==
    IF loop[x] THEN Path(net[x], Queue(x), out[x], a, read[x], read[x])
    ELSE \E b \in Nat : Run(net[x], a, b, read[x])

\* All of it, from what the peer wrote to its socket to what x read from its own.  Behind a map
\* entry that is gone nothing more is delivered, so the rest of the way no longer matters.
Chain(x) == \E a \in Nat : First(x, a) /\ (Linked(Peer(x)) => Rest(x, a))

\* The chain is kept by a step that keeps both of its parts.
LEMMA ChainKept ==
    ASSUME NEW x \in Sides, Chain(x), Linked(Peer(x))' => Linked(Peer(x)),
           \A a \in Nat : First(x, a) => First(x, a)', \A a \in Nat : Rest(x, a) => Rest(x, a)'
    PROVE  Chain(x)'
<1>1. PICK a \in Nat : First(x, a) /\ (Linked(Peer(x)) => Rest(x, a))
  BY DEF Chain
<1>2. First(x, a)' /\ (Linked(Peer(x))' => Rest(x, a)')
  BY <1>1
<1>. QED BY <1>2 DEF Chain

\* The peer's part is kept by a step that leaves its queues alone.
LEMMA FirstSame ==
    ASSUME NEW x \in Sides, read'[x] = read[x], NEW p, p = Peer(x), chunk'[p] = chunk[p],
           pending'[p] = pending[p], inbound'[p] = inbound[p], written'[p] = written[p]
    PROVE  \A a \in Nat : First(x, a) => First(x, a)'
  BY DEF First

\* The other part is kept by a step that leaves the way alone.
LEMMA RestSame ==
    ASSUME NEW x \in Sides, loop'[x] => loop[x], net'[x] = net[x], Queue(x)' = Queue(x),
           out'[x] = out[x], read'[x] = read[x]
    PROVE  \A a \in Nat : Rest(x, a) => Rest(x, a)'
<1>1. CASE loop'[x] = loop[x]
  BY <1>1 DEF Rest
<1>2. CASE loop[x] /\ ~loop'[x]
  BY <1>2 DEF Rest, Path
<1>. QED BY <1>1, <1>2 DEF Rest, Path

\* A frame without bytes joins the way at its end; a `close` only when no frame is in hand.
LEMMA RestSend ==
    ASSUME BufferType, NEW s \in Sides, NEW m \in Msg, m.kind # "data", SendOrdered(s, m),
           SaysEnd(m) => out[s] = <<>>, UNCHANGED <<loop, out, read>>, NEW x \in Sides
    PROVE  \A a \in Nat : Rest(x, a) => Rest(x, a)'
<1>0. /\ net[x] \in Seq(Msg) /\ dataQ \in Seq(Msg) /\ out[x] \in Seq(Msg)
      /\ Queue(x) \in Seq(Msg)
  BY SMTT(60), MsgFacts DEF BufferType, Queue
<1>1. CASE net'[x] = net[x] /\ (Queue(x)' = Queue(x) \/ ~loop[x])
  BY <1>1 DEF Rest
<1>2. CASE x = s /\ s = "ctl" /\ loop[x]
  <2>1. net'[x] = net[x] /\ Queue(x)' = Append(Queue(x), m)
    BY <1>2 DEF SendOrdered, Queue
  <2>2. ASSUME NEW a \in Nat, Rest(x, a)
        PROVE  Rest(x, a)'
    <3>1. Path(net[x], Queue(x), out[x], a, read[x], read[x])
      BY <1>2, <2>2 DEF Rest
    <3>2. Path(net[x], Append(Queue(x), m), out[x], a, read[x], read[x])
      BY <1>0, <1>2, <2>1, <3>1, PathMark
    <3>. QED BY <1>2, <2>1, <3>2 DEF Rest
  <2>. QED BY <2>2
<1>3. CASE x = s /\ s = "srv" /\ loop[x]
  <2>1. net'[x] = Append(net[x], m) /\ Queue(x)' = Queue(x) /\ Queue(x) = <<>>
    BY <1>3 DEF SendOrdered, Queue, BufferType
  <2>2. ASSUME NEW a \in Nat, Rest(x, a)
        PROVE  Rest(x, a)'
    <3>1. Path(net[x], Queue(x), out[x], a, read[x], read[x])
      BY <1>3, <2>2 DEF Rest
    <3>2. Path(Append(net[x], m), Queue(x), out[x], a, read[x], read[x])
      BY <1>0, <1>3, <2>1, <3>1, PathMark
    <3>. QED BY <1>3, <2>1, <3>2 DEF Rest
  <2>. QED BY <2>2
<1>4. \/ net'[x] = net[x] /\ (Queue(x)' = Queue(x) \/ ~loop[x])
      \/ x = s /\ loop[x]
  BY DEF SendOrdered, Queue, BufferType, Sides
<1>. QED BY <1>1, <1>2, <1>3, <1>4 DEF Sides

\* SendFrame: a frame of bytes moves on, or is lost with the loop.
LEMMA RestFrame ==
    ASSUME Sound, NEW x \in Sides, SendFrame(x)
    PROVE  \A a \in Nat : Rest(x, a) => Rest(x, a)'
<1>0. /\ BufferType /\ net[x] \in Seq(Msg) /\ Queue(x) \in Seq(Msg) /\ out[x] \in Seq(Msg)
      /\ out[x] # <<>> /\ Tail(out[x]) = <<>> /\ (loop[x] => sink[x])
  <2>1. Len(out[x]) = 1 /\ out[x] \in Seq(DataMsg) /\ BufferType
    BY DEF Sound, TypeOK, BufferType, Holds, HoldAt, SendFrame
  <2>2. out[x] # <<>> /\ Tail(out[x]) = <<>>
    <3>1. PICK h : out[x] = <<h>>
      BY <2>1, OneFacts
    <3>. QED BY SMTT(60), <3>1
  <2>3. net[x] \in Seq(Msg) /\ Queue(x) \in Seq(Msg) /\ out[x] \in Seq(Msg)
    BY SMTT(60), <2>1, MsgFacts DEF BufferType, Queue
  <2>4. loop[x] => sink[x]
    BY DEF Sound, Phases, PhaseAt
  <2>. QED BY <2>1, <2>2, <2>3, <2>4
<1>1. out'[x] = Tail(out[x]) /\ UNCHANGED <<loop, read>>
  BY <1>0 DEF SendFrame, BufferType, tunnelVars, history
<1>2. CASE ~loop[x]
  <2>1. net'[x] = net[x]
    BY <1>0, <1>2 DEF SendFrame, SendOrdered, wireVars, BufferType
  <2>. QED BY <1>1, <1>2, <2>1 DEF Rest
<1>3. CASE loop[x] /\ x = "ctl"
  <2>1. net'[x] = net[x] /\ Queue(x)' = Append(Queue(x), Head(out[x]))
    BY <1>0, <1>3 DEF SendFrame, SendOrdered, Queue
  <2>2. ASSUME NEW a \in Nat, Path(net[x], Queue(x), out[x], a, read[x], read[x])
        PROVE  Path(net[x], Append(Queue(x), Head(out[x])), Tail(out[x]), a, read[x], read[x])
    BY <1>0, <2>2, PathShift
  <2>. QED BY <1>1, <1>3, <2>1, <2>2 DEF Rest
<1>4. CASE loop[x] /\ x = "srv"
  <2>1. net'[x] = Append(net[x], Head(out[x])) /\ Queue(x)' = Queue(x) /\ Queue(x) = <<>>
    BY <1>0, <1>4 DEF SendFrame, SendOrdered, Queue, BufferType
  <2>. QED BY SMTT(60), <1>0, <1>1, <1>4, <2>1, PathShift DEF Rest
<1>. QED BY <1>2, <1>3, <1>4 DEF Sides

\* PumpData and PumpControl: the loop of the controller writes to the stream; a window update
\* overtakes data, which does no harm to the stream of bytes.
LEMMA RestPump ==
    ASSUME Sound, PumpData \/ PumpControl, NEW x \in Sides
    PROVE  \A a \in Nat : Rest(x, a) => Rest(x, a)'
<1>0. /\ BufferType /\ net["ctl"] \in Seq(Msg) /\ dataQ \in Seq(Msg) /\ out["ctl"] \in Seq(Msg)
      /\ loop["ctl"] /\ UNCHANGED <<loop, out, read>>
  BY MsgFacts DEF Sound, TypeOK, BufferType, Sides, PumpData, PumpControl, tunnelVars,
     bufferVars, history
<1>1. CASE x = "srv"
  <2>1. net'[x] = net[x] /\ Queue(x)' = Queue(x)
    BY <1>0, <1>1 DEF PumpData, PumpControl, BufferType, Queue
  <2>. QED BY <1>0, <2>1, RestSame
<1>2. CASE x = "ctl" /\ PumpData
  <2>1. net'[x] = Append(net[x], Head(dataQ)) /\ Queue(x)' = Tail(dataQ) /\ Queue(x) = dataQ /\ dataQ # <<>>
    BY <1>0, <1>2 DEF PumpData, BufferType, Queue
  <2>2. ASSUME NEW a \in Nat, Path(net[x], dataQ, out[x], a, read[x], read[x])
        PROVE  Path(Append(net[x], Head(dataQ)), Tail(dataQ), out[x], a, read[x], read[x])
    BY <1>0, <1>2, <2>1, <2>2, PathShift
  <2>. QED BY <1>0, <1>2, <2>1, <2>2 DEF Rest
<1>3. CASE x = "ctl" /\ PumpControl
  <2>1. Head(controlQ) \in UpdateMsg
    BY SMTT(60), <1>0, <1>3 DEF PumpControl, BufferType
  <2>2. Head(controlQ) \in Msg /\ Head(controlQ).kind # "data" /\ ~SaysEnd(Head(controlQ))
    BY <2>1, MsgFacts
  <2>3. net'[x] = Append(net[x], Head(controlQ)) /\ Queue(x)' = dataQ /\ Queue(x) = dataQ
    BY <1>0, <1>3 DEF PumpControl, BufferType, Queue
  <2>. QED BY <1>0, <1>3, <2>2, <2>3, PathMark DEF Rest
<1>. QED BY <1>1, <1>2, <1>3 DEF Sides

\* The first message on the way is taken by Peer(x): handed on, ignored, turned into Close or
\* into a Violation that cuts the way.
LEMMA ChainDeliver ==
    ASSUME NEW x \in Sides, Chain(x), NEW p, p = Peer(x), BufferType, net[x] # <<>>, NEW m, m = Head(net[x]),
           net'[x] = Tail(net[x]), Queue(x)' = Queue(x),
           out'[x] = out[x], read'[x] = read[x], loop'[x] = loop[x],
           chunk'[p] = chunk[p], pending'[p] = pending[p], written'[p] = written[p],
           Linked(p)' => Linked(p), inbound[p] \in Seq(Msg),
           \/ inbound'[p] = inbound[p] /\ (Linked(p)' => m.kind # "data")
           \/ inbound'[p] = Append(inbound[p], m) /\ m.kind = "data" /\ Linked(p)
           \/ inbound'[p] = Append(inbound[p], Close) /\ SaysEnd(m) /\ Linked(p)
           \/ inbound'[p] = Append(inbound[p], Violation) /\ ~Linked(p)'
    PROVE  Chain(x)'
<1>0. net[x] \in Seq(Msg) /\ m \in Msg
  BY SMTT(60) DEF BufferType
<1>1. PICK a \in Nat : First(x, a) /\ (Linked(p) => Rest(x, a))
  BY DEF Chain
<1>2. Linked(p) => \E c \in Nat : Carries(m, a, c, read[x]) /\ Rest(x, c)'
  <2>1. CASE loop[x]
    BY SMTT(60), <1>0, <1>1, <2>1, PathFirst DEF Rest
  <2>2. CASE ~loop[x]
    BY SMTT(60), <1>0, <1>1, <2>2, RunTail DEF Rest
  <2>. QED BY <2>1, <2>2
<1>3. CASE inbound'[p] = inbound[p] /\ (Linked(p)' => m.kind # "data")
  <2>1. First(x, a)'
    BY <1>1, <1>3 DEF First
  <2>2. Linked(p)' => Rest(x, a)'
    BY <1>2, <1>3 DEF Carries
  <2>. QED BY <2>1, <2>2 DEF Chain
<1>4. CASE inbound'[p] = Append(inbound[p], m) /\ m.kind = "data" /\ Linked(p)
  <2>1. PICK c \in Nat : Carries(m, a, c, read[x]) /\ Rest(x, c)'
    BY <1>2, <1>4
  <2>2. First(x, c)'
    BY SMTT(60), <1>0, <1>1, <1>4, <2>1, PathLast DEF First
  <2>. QED BY <2>1, <2>2 DEF Chain
<1>5. CASE inbound'[p] = Append(inbound[p], Close) /\ SaysEnd(m) /\ Linked(p)
  <2>1. PICK c \in Nat : Carries(m, a, c, read[x]) /\ Rest(x, c)'
    BY <1>2, <1>5
  <2>2. c = a /\ Carries(Close, a, a, read[x]) /\ Close \in Msg
    BY <1>5, <2>1, Kinds DEF Carries, SaysEnd
  <2>3. First(x, c)'
    BY SMTT(60), <1>1, <1>5, <2>2, PathLast DEF First
  <2>. QED BY <2>1, <2>3 DEF Chain
<1>6. CASE inbound'[p] = Append(inbound[p], Violation) /\ ~Linked(p)'
  <2>1. Carries(Violation, a, a, read[x]) /\ Violation \in Msg
    BY Kinds DEF Carries
  <2>2. First(x, a)'
    BY <1>1, <1>6, <2>1, PathLast DEF First
  <2>. QED BY <1>6, <2>2 DEF Chain
<1>. QED BY <1>3, <1>4, <1>5, <1>6

\* Peer(x) lets go of its queues and of the way.
LEMMA ChainCut ==
    ASSUME NEW x \in Sides, NEW p \in Sides, p = Peer(x), HistoryType, ~Linked(p)', written'[p] = written[p],
           chunk'[p] = <<>>, pending'[p] = <<>>, inbound'[p] = <<>>
    PROVE  Chain(x)'
<1>1. written[p] \in Nat
  BY DEF HistoryType
<1>2. First(x, written[p])'
  BY <1>1, PathNone DEF First
<1>. QED BY <1>1, <1>2 DEF Chain

\* What a demultiplexer does with a message is one of the cases of ChainDeliver.
LEMMA DeliverCases ==
    ASSUME BufferType, TunnelType, NEW s \in Sides, NEW m, Linked(s)' => entry'[s],
           OnData(s, m) \/ OnClose(s, m) \/ OnWindowUpdate(s, m) \/ (OnOpened(m) /\ s = "ctl")
    PROVE  \/ inbound'[s] = inbound[s] /\ (Linked(s)' => m.kind # "data")
           \/ inbound'[s] = Append(inbound[s], m) /\ m.kind = "data" /\ Linked(s)
           \/ inbound'[s] = Append(inbound[s], Close) /\ SaysEnd(m) /\ Linked(s)
           \/ inbound'[s] = Append(inbound[s], Violation) /\ ~Linked(s)'
<1>0. /\ entry[s] /\ InboundOpen(s) => Linked(s)
      /\ ~entry'[s] => ~Linked(s)'
  BY DEF Linked
<1>. USE DEF BufferType, TunnelType, Push, SaysEnd
<1>1. CASE OnData(s, m)
  BY <1>0, <1>1 DEF OnData
<1>2. CASE OnClose(s, m) \/ OnWindowUpdate(s, m)
  BY <1>0, <1>2 DEF OnClose, OnWindowUpdate
<1>3. CASE OnOpened(m) /\ s = "ctl"
  BY <1>0, <1>3 DEF OnOpened
<1>. QED BY <1>1, <1>2, <1>3

\* ReadSocket: x reads from its socket, so the end it would announce moves; it has not announced
\* any.
LEMMA ChainRead ==
    ASSUME Sound, [Next]_vars, Silence, NEW x \in Sides, Chain(x), NEW len \in 1 .. MAX_FRAME,
           ReadSocket(x, len), Linked(Peer(x))' => Linked(Peer(x))
    PROVE  Chain(x)'
<1>. DEFINE p == Peer(x)
            m == data_msg(read[x], len)
            new == read[x] + len
<1>0. /\ BufferType /\ HistoryType /\ p \in Sides /\ read[x] \in Nat /\ m \in DataMsg
  BY Kinds DEF Sound, TypeOK, HistoryType, Peer, Sides
<1>1. out[x] = <<>> /\ ~Quiet(x)
  BY DEF Sound, Holds, HoldAt, Phases, PhaseAt, Quiet, Early, ReadSocket, RelayEnd
<1>2. ~Says(net[x]) /\ ~Says(Queue(x)) /\ ~Says(out[x]) /\ ~Says(inbound[p])
  BY SMTT(60), <1>1 DEF Silence, Wired, Heard, Says
<1>3. ~Says(chunk[p]) /\ ~Says(pending[p])
  <2>1. chunk[p] \in Seq(DataMsg) /\ pending[p] \in Seq(DataMsg)
    BY <1>0 DEF BufferType
  <2>. QED BY SMTT(60), <2>1, MsgFacts DEF Says
<1>4. /\ out'[x] = Append(<<>>, m) /\ read'[x] = new /\ new \in Nat
      /\ UNCHANGED <<net, dataQ, loop, chunk, pending, inbound, written>>
  <2>1. out'[x] = <<m>>
    BY <1>0 DEF ReadSocket, BufferType
  <2>2. read'[x] = new /\ new \in Nat
    BY SMTT(60), <1>0 DEF ReadSocket, HistoryType
  <2>. QED BY SMTT(60), <2>1, <2>2 DEF ReadSocket, wireVars, tunnelVars
<1>5. Carries(m, read[x], new, new) /\ m \in Msg
  BY <1>0, MsgFacts DEF Carries, data_msg
<1>6. PICK a \in Nat : First(x, a) /\ (Linked(p) => Rest(x, a))
  BY DEF Chain
<1>7. First(x, a)'
  BY <1>2, <1>3, <1>4, <1>6, PathNew DEF First
<1>8. Rest(x, a) => Rest(x, a)'
  <2>1. CASE ~loop[x]
    BY <1>2, <1>4, <2>1, RunLast DEF Rest
  <2>2. ASSUME loop[x], Rest(x, a)
        PROVE  Rest(x, a)'
    <3>1. Path(net[x], Queue(x), <<>>, a, read[x], new)
      BY <1>1, <1>2, <2>2, PathNew DEF Rest
    <3>2. Path(net[x], Queue(x), Append(<<>>, m), a, new, new)
      <4>1. <<>> \in Seq(Msg) /\ new \in Nat
        BY SMTT(60), <1>4
      <4>. HIDE DEF m, new
      <4>. QED BY <1>5, <3>1, <4>1, PathLast
    <3>. QED BY <1>4, <2>2, <3>2 DEF Rest, Queue
  <2>. QED BY <2>1, <2>2
<1>. QED BY <1>6, <1>7, <1>8 DEF Chain

\* The writing relay of Peer(x) goes on with its queue: what was buffered while connecting first.
LEMMA ChainWrites ==
    ASSUME Sound, [Next]_vars, NEW x \in Sides, Chain(x), Writes(Peer(x)), Linked(Peer(x))' => Linked(Peer(x)),
           \A a \in Nat : Rest(x, a) => Rest(x, a)'
    PROVE  Chain(x)'
<1>. DEFINE p == Peer(x)
<1>0. /\ TypeOK /\ TaskType /\ BufferType /\ HistoryType /\ p \in Sides /\ HoldAt(p) /\ PhaseAt(p)
      /\ Coming' => Untouched
  BY OpeningStep DEF Sound, TypeOK, Holds, Phases, Opening, Peer, Sides
<1>1. /\ read' = read /\ chunk[p] \in Seq(Msg) /\ pending[p] \in Seq(Msg) /\ inbound[p] \in Seq(Msg)
      /\ written[p] \in Nat
  BY <1>0, WritesFrame, MsgFacts DEF BufferType, HistoryType
<1>2. ASSUME NEW end \in RelayEnd, EndWriting(p, end), UNCHANGED written
      PROVE  Chain(x)'
  <2>1. /\ down'[p] \in RelayEnd /\ task' = task /\ task[p] # "none"
        /\ inbound'[p] = <<>> /\ pending'[p] = <<>> /\ chunk'[p] = <<>>
    BY <1>0, <1>2, WritesFrame DEF EndWriting, TaskType, BufferType, PhaseAt, Early
  <2>2. ~InboundOpen(p)'
    BY <1>0, <2>1, WritesFrame DEF InboundOpen, PhaseAt, Early
  <2>3. ~Linked(p)'
    BY <1>0, <2>1, <2>2 DEF Linked, Untouched
  <2>. QED BY <1>0, <1>2, <2>1, <2>3, ChainCut
<1>3. CASE NextChunk(p)
  <2>1. CASE \E end \in RelayEnd : EndWriting(p, end)
    BY <1>2, <1>3, <2>1 DEF NextChunk, history
  <2>2. CASE /\ pending[p] # <<>> /\ chunk' = [chunk EXCEPT ![p] = <<Head(pending[p])>>]
             /\ pending' = [pending EXCEPT ![p] = Tail(@)] /\ inbound' = inbound
    <3>1. chunk'[p] = Append(chunk[p], Head(pending[p])) /\ pending'[p] = Tail(pending[p])
      <4>1. chunk[p] = <<>>
        BY <1>0, <1>3 DEF NextChunk, HoldAt
      <4>2. chunk'[p] = <<Head(pending[p])>> /\ pending'[p] = Tail(pending[p])
        BY <1>0, <2>2 DEF BufferType
      <4>. QED BY SMTT(60), <4>1, <4>2
    <3>2. ASSUME NEW a \in Nat, First(x, a)
          PROVE  First(x, a)'
      <4>1. Path(Append(chunk[p], Head(pending[p])), Tail(pending[p]), inbound[p], written[p], a, read[x])
        BY <1>1, <2>2, <3>2, PathShift DEF First
      <4>. QED BY <1>1, <1>3, <2>2, <3>1, <4>1 DEF First, NextChunk, history
    <3>. QED BY <3>2, ChainKept
  <2>3. CASE /\ pending[p] = <<>> /\ inbound[p] # <<>> /\ chunk' = [chunk EXCEPT ![p] = <<Head(inbound[p])>>]
             /\ inbound' = [inbound EXCEPT ![p] = Tail(@)] /\ pending' = pending
    <3>1. chunk'[p] = Append(chunk[p], Head(inbound[p])) /\ inbound'[p] = Tail(inbound[p])
      <4>1. chunk[p] = <<>>
        BY <1>0, <1>3 DEF NextChunk, HoldAt
      <4>2. chunk'[p] = <<Head(inbound[p])>> /\ inbound'[p] = Tail(inbound[p])
        BY <1>0, <2>3 DEF BufferType
      <4>. QED BY SMTT(60), <4>1, <4>2
    <3>2. ASSUME NEW a \in Nat, First(x, a)
          PROVE  First(x, a)'
      <4>1. Path(Append(chunk[p], Head(inbound[p])), pending[p], Tail(inbound[p]), written[p], a, read[x])
        BY <1>1, <2>3, <3>2, PathShift DEF First
      <4>. QED BY <1>1, <1>3, <2>3, <3>1, <4>1 DEF First, NextChunk, history
    <3>. QED BY <3>2, ChainKept
  <2>. QED BY <1>3, <2>1, <2>2, <2>3 DEF NextChunk, StartWrite, RelayEnd
<1>4. CASE WriteSocket(p)
  <2>1. chunk[p] # <<>> /\ Tail(chunk[p]) = <<>> /\ Head(chunk[p]) \in DataMsg
    <3>1. Len(chunk[p]) = 1 /\ chunk[p] \in Seq(DataMsg)
      BY <1>0, <1>4 DEF WriteSocket, HoldAt, BufferType
    <3>2. PICK h : chunk[p] = <<h>>
      BY <3>1, OneFacts
    <3>. QED BY SMTT(60), <3>1, <3>2
  <2>2. /\ chunk'[p] = Tail(chunk[p]) /\ written'[p] = written[p] + Head(chunk[p]).len
        /\ UNCHANGED <<pending, inbound>>
    BY <1>0, <1>4, <2>1 DEF WriteSocket, BufferType, HistoryType
  <2>3. \A e : Carries(Head(chunk[p]), written[p], e, read[x]) => e = written'[p]
    BY <2>1, <2>2, MsgFacts DEF Carries
  <2>4. ASSUME NEW a \in Nat, First(x, a)
        PROVE  First(x, a)'
    <3>1. PICK e \in Nat : /\ Carries(Head(chunk[p]), written[p], e, read[x])
                           /\ Path(Tail(chunk[p]), pending[p], inbound[p], e, a, read[x])
      BY <1>1, <2>1, <2>4, PathFirst DEF First
    <3>. QED BY <1>1, <2>2, <2>3, <3>1 DEF First
  <2>. QED BY <2>4, ChainKept
<1>5. CASE Advertise(p)
  <2>1. CASE EndWriting(p, "TunnelGone")
    BY <1>2, <1>5, <2>1 DEF Advertise, RelayEnd, history
  <2>2. CASE UNCHANGED <<inbound, pending, chunk>>
    <3>1. \A a \in Nat : First(x, a) => First(x, a)'
      BY <1>1, <1>5, <2>2, FirstSame DEF Advertise, history
    <3>. QED BY <3>1, ChainKept
  <2>. QED BY <1>5, <2>1, <2>2 DEF Advertise
<1>6. CASE CancelWriting(p) \/ WriteFails(p)
  BY <1>2, <1>6 DEF CancelWriting, WriteFails, RelayEnd, history
<1>. QED BY <1>3, <1>4, <1>5, <1>6 DEF Writes, Writing

\* Every step preserves the chain of each direction.
LEMMA ChainStep ==
    ASSUME Sound, [Next]_vars, Silence, NEW x \in Sides, Chain(x)
    PROVE  Chain(x)'
<1>. DEFINE p == Peer(x)
<1>0. /\ TypeOK /\ TunnelType /\ TaskType /\ WindowType /\ BufferType /\ HistoryType
      /\ p \in Sides /\ p = Peer(x) /\ Peer(p) = x /\ p # x /\ "ctl" \in Sides /\ "srv" \in Sides
      /\ x = "ctl" <=> p = "srv"
  BY DEF Sound, TypeOK, Peer, Sides
<1>a. (Linked(p)' => Linked(p)) /\ (loop'[x] => loop[x]) /\ (Coming' => Coming) /\ (Coming => Untouched)
  BY <1>0, Onward, OpeningStep DEF Sound, Opening
<1>b. \A y \in Sides : HoldAt(y) /\ PhaseAt(y)
  BY DEF Sound, Holds, Phases
\* Steps that only send, and steps that change nothing here.
<1>1. ASSUME UNCHANGED <<chunk, pending, inbound, written, read>>, \A a \in Nat : Rest(x, a) => Rest(x, a)'
      PROVE  Chain(x)'
  BY <1>1, <1>a, ChainKept, FirstSame
<1>2. ASSUME UNCHANGED <<out, read, dataQ>>, net'[x] = net[x]
      PROVE  \A a \in Nat : Rest(x, a) => Rest(x, a)'
  BY <1>2, <1>a, RestSame DEF Queue
<1>3. CASE UNCHANGED <<chunk, pending, inbound, written, read, out, dataQ>> /\ net'[x] = net[x]
  BY <1>1, <1>2, <1>3
<1>4. CASE Open
  BY <1>3, <1>4 DEF Open, bufferVars, wireVars, history
<1>5. CASE SendOpen
  <2>1. CASE SendOrdered("ctl", open_msg)
    <3>1. UNCHANGED <<loop, out, read>>
      BY <1>5 DEF SendOpen, tunnelVars, bufferVars, history
    <3>2. \A a \in Nat : Rest(x, a) => Rest(x, a)'
      BY <1>0, <2>1, <3>1, RestSend, Kinds
    <3>. QED BY <1>1, <1>5, <3>2 DEF SendOpen, bufferVars, history
  <2>2. CASE UNCHANGED wireVars
    BY <1>3, <1>5, <2>2 DEF SendOpen, bufferVars, wireVars, history
  <2>. QED BY <1>5, <2>1, <2>2 DEF SendOpen
<1>6. CASE OnFrame
  <2>1. CASE x = "ctl"
    <3>1. net'[x] = net[x] /\ inbound'[p] = inbound[p]
      BY <1>0, <1>6, <2>1 DEF OnFrame, OnOpened, OnData, OnClose, OnWindowUpdate, Push,
         BufferType
    <3>2. \A a \in Nat : First(x, a) => First(x, a)'
      BY <1>0, <1>6, <3>1, FirstSame DEF OnFrame, history
    <3>. QED BY <1>2, <1>6, <1>a, <3>1, <3>2, ChainKept DEF OnFrame, history
  <2>2. CASE x = "srv"
    <3>1. Linked(p)' => entry'[p]
      BY <1>0, <1>6, <1>a, <2>2 DEF OnFrame, Linked, Coming, Untouched, taskVars
    <3>2. /\ net[x] # <<>> /\ net'[x] = Tail(net[x])
          /\ UNCHANGED <<loop, out, pending, chunk, dataQ, read, written>>
      BY <1>0, <1>6, <2>2 DEF OnFrame, BufferType, history
    <3>3. PICK m : /\ m = Head(net[x])
                   /\ OnData(p, m) \/ OnClose(p, m) \/ OnWindowUpdate(p, m) \/ (OnOpened(m) /\ p = "ctl")
      BY <1>0, <1>6, <2>2 DEF OnFrame, Peer
    <3>4. \/ inbound'[p] = inbound[p] /\ (Linked(p)' => m.kind # "data")
          \/ inbound'[p] = Append(inbound[p], m) /\ m.kind = "data" /\ Linked(p)
          \/ inbound'[p] = Append(inbound[p], Close) /\ SaysEnd(m) /\ Linked(p)
          \/ inbound'[p] = Append(inbound[p], Violation) /\ ~Linked(p)'
      BY <1>0, <3>1, <3>3, DeliverCases
    <3>5. Queue(x)' = Queue(x) /\ inbound[p] \in Seq(Msg)
      BY <1>0, <3>2 DEF Queue, BufferType
    <3>. QED BY <1>0, <1>a, <3>2, <3>3, <3>4, <3>5, ChainDeliver
  <2>. QED BY <2>1, <2>2 DEF Sides
<1>7. CASE PumpData \/ PumpControl
  BY <1>1, <1>7, RestPump DEF PumpData, PumpControl, bufferVars, history
<1>8. CASE Handle
  <2>1. UNCHANGED <<loop, out, pending, chunk, dataQ, read, written>> /\ loop["srv"] /\ net["ctl"] # <<>>
    BY <1>8 DEF Handle, history
  <2>2. CASE x = "ctl"
    <3>1. net[x] # <<>> /\ net'[x] = Tail(net[x]) /\ Queue(x)' = Queue(x) /\ inbound[p] \in Seq(Msg)
      BY <1>0, <1>8, <2>1, <2>2 DEF Handle, OnOpen, BufferType, Queue
    <3>2. PICK m : m = Head(net[x])
      OBVIOUS
    <3>3. CASE OnOpen(m)
      BY <1>0, <1>a, <2>1, <3>1, <3>2, <3>3, ChainDeliver DEF OnOpen
    <3>4. CASE ~OnOpen(m)
      <4>1. OnData(p, m) \/ OnClose(p, m) \/ OnWindowUpdate(p, m)
        BY <1>0, <1>8, <2>2, <3>2, <3>4 DEF Handle, Peer
      <4>2. Linked(p)' => entry'[p]
        BY <1>8, <1>0, <2>2, HandleMeets DEF Linked
      <4>3. \/ inbound'[p] = inbound[p] /\ (Linked(p)' => m.kind # "data")
            \/ inbound'[p] = Append(inbound[p], m) /\ m.kind = "data" /\ Linked(p)
            \/ inbound'[p] = Append(inbound[p], Close) /\ SaysEnd(m) /\ Linked(p)
            \/ inbound'[p] = Append(inbound[p], Violation) /\ ~Linked(p)'
        BY <1>0, <4>1, <4>2, DeliverCases
      <4>. QED BY <1>0, <1>a, <2>1, <3>1, <3>2, <4>3, ChainDeliver
    <3>. QED BY <3>3, <3>4
  <2>3. CASE x = "srv"
    <3>1. inbound'[p] = inbound[p]
      BY <1>0, <1>8, <2>3 DEF Handle, OnOpen, OnData, OnClose, OnWindowUpdate,
         Push, BufferType
    <3>2. \A a \in Nat : First(x, a) => First(x, a)'
      BY <1>0, <2>1, <3>1, FirstSame
    <3>3. CASE net'[x] = net[x]
      BY <1>2, <1>a, <2>1, <3>2, <3>3, ChainKept
    <3>4. CASE OnOpen(Head(net["ctl"])) /\ net'[x] = Append(net[x], opened_msg(FALSE))
      <4>1. out[x] = <<>> /\ net[x] \in Seq(Msg) /\ Queue(x) = <<>> /\ Queue(x)' = <<>>
        BY <1>0, <1>b, <2>1, <2>3, <3>4, OpenComing DEF OnOpen, Sound, Untouched,
           PhaseAt, HoldAt, Early, BufferType, Queue
      <4>2. PICK e \in Msg : e = opened_msg(FALSE) /\ e.kind # "data"
        BY Kinds
      <4>3. ASSUME NEW a \in Nat, Rest(x, a)
            PROVE  Rest(x, a)'
        <5>1. Path(net[x], <<>>, <<>>, a, read[x], read[x])
          BY <2>1, <2>3, <4>1, <4>3 DEF Rest
        <5>2. <<>> \in Seq(Msg)
          BY SMTT(60)
        <5>3. Path(Append(net[x], e), <<>>, <<>>, a, read[x], read[x])
          BY <4>1, <4>2, <5>1, <5>2, PathMark
        <5>. QED BY <2>1, <2>3, <3>4, <4>1, <4>2, <5>3 DEF Rest
      <4>. QED BY <1>a, <3>2, <4>3, ChainKept
    <3>5. \/ net'[x] = net[x]
          \/ OnOpen(Head(net["ctl"])) /\ net'[x] = Append(net[x], opened_msg(FALSE))
      BY <1>0, <1>8, <2>3 DEF Handle, OnOpen, BufferType
    <3>. QED BY <3>3, <3>4, <3>5
  <2>. QED BY <2>2, <2>3 DEF Sides
<1>9. CASE Connecting
  <2>1. /\ task["srv"] \in {"connecting", "connected", "granted"}
        /\ UNCHANGED <<loop, out, chunk, read, written, dataQ>> /\ net'["ctl"] = net["ctl"]
        /\ inbound'["ctl"] = inbound["ctl"] /\ pending'["ctl"] = pending["ctl"]
    BY <1>0, <1>9, ConnectingFrame DEF tunnelVars
  <2>2. out["srv"] = <<>> /\ chunk["srv"] = <<>> /\ ~Coming'
    BY <1>0, <1>a, <1>b, <2>1 DEF PhaseAt, HoldAt, Early, Untouched
  <2>3. CASE x = "srv"
    <3>1. \A a \in Nat : First(x, a) => First(x, a)'
      <4>1. p = "ctl"
        BY <2>3 DEF Peer
      <4>. HIDE DEF p
      <4>. QED BY <1>0, <2>1, <4>1, FirstSame
    <3>2. CASE net' = net
      BY <1>2, <1>a, <2>1, <3>1, <3>2, ChainKept
    <3>3. ASSUME NEW m \in Msg, m.kind # "data", SendOrdered("srv", m)
          PROVE  Chain(x)'
      <4>1. \A a \in Nat : Rest(x, a) => Rest(x, a)'
        BY <1>0, <2>1, <2>2, <3>3, RestSend
      <4>. QED BY <1>a, <3>1, <4>1, ChainKept
    <3>4. net' = net \/ SendOrdered("srv", close_msg) \/ \E b \in BOOLEAN : SendOrdered("srv", opened_msg(b))
      <4>1. ASSUME NEW m, Abandon(<<m>>)
            PROVE  net' = net \/ SendOrdered("srv", m)
        BY SMTT(60), <4>1 DEF Abandon, wireVars
      <4>2. Abandon(<<>>) => net' = net
        BY DEF Abandon, wireVars
      <4>3. \/ net' = net \/ SendOrdered("srv", opened_msg(TRUE)) \/ Abandon(<<>>)
            \/ Abandon(<<close_msg>>) \/ Abandon(<<opened_msg(FALSE)>>)
        BY <1>9 DEF Connecting, ConnectCommand, ConnectFails, ConnectSucceeds,
           GrantWindow, SendOpened, wireVars
      <4>. QED BY <4>1, <4>2, <4>3
    <3>. QED BY <3>2, <3>3, <3>4, Kinds
  <2>4. CASE x = "ctl"
    <3>1. net'[x] = net[x]
      BY <2>1, <2>4
    <3>2. CASE \E extra : Abandon(extra)
      <4>1. inbound'["srv"] = <<>> /\ pending'["srv"] = <<>> /\ task'["srv"] = "gone"
        BY <1>0, <3>2, AbandonFrame DEF BufferType, TaskType
      <4>2. ~Linked("srv")'
        BY <2>2, <4>1 DEF Linked, InboundOpen
      <4>. QED BY <1>0, <2>1, <2>2, <2>4, <4>1, <4>2, ChainCut
    <3>3. CASE UNCHANGED <<inbound, pending>>
      BY <1>3, <2>1, <3>1, <3>3
    <3>4. CASE /\ inbound["srv"] # <<>> /\ inbound' = [inbound EXCEPT !["srv"] = Tail(@)]
               /\ pending' = [pending EXCEPT !["srv"] = Append(@, Head(inbound["srv"]))]
      <4>1. /\ inbound'[p] = Tail(inbound[p]) /\ pending'[p] = Append(pending[p], Head(inbound[p]))
            /\ inbound[p] # <<>>
        BY <1>0, <2>4, <3>4 DEF BufferType
      <4>2. chunk[p] \in Seq(Msg) /\ pending[p] \in Seq(Msg) /\ inbound[p] \in Seq(Msg)
        BY <1>0, MsgFacts DEF BufferType
      <4>3. ASSUME NEW a \in Nat, First(x, a)
            PROVE  First(x, a)'
        <5>1. Path(chunk[p], Append(pending[p], Head(inbound[p])), Tail(inbound[p]), written[p], a, read[x])
          BY <4>1, <4>2, <4>3, PathShift DEF First
        <5>. QED BY <2>1, <4>1, <5>1 DEF First
      <4>. QED BY <1>2, <1>a, <2>1, <3>1, <4>3, ChainKept
    <3>5. \/ UNCHANGED <<inbound, pending>> \/ \E extra : Abandon(extra)
          \/ /\ inbound["srv"] # <<>> /\ inbound' = [inbound EXCEPT !["srv"] = Tail(@)]
             /\ pending' = [pending EXCEPT !["srv"] = Append(@, Head(inbound["srv"]))]
      BY <1>9 DEF Connecting, ConnectCommand, ConnectFails, ConnectSucceeds,
         GrantWindow, SendOpened, bufferVars
    <3>. QED BY <3>2, <3>3, <3>4, <3>5
  <2>. QED BY <2>3, <2>4 DEF Sides
<1>10. ASSUME NEW s \in Sides, Reads(s)
      PROVE  Chain(x)'
  <2>1. UNCHANGED <<loop, chunk, pending, inbound, written>>
    BY <1>0, <1>10, ReadsFrame DEF tunnelVars
  <2>2. CASE s # x
    <3>1. net'[x] = net[x] /\ Queue(x)' = Queue(x)
      BY <1>0, <1>10, <2>2 DEF Reads, Reading, TakeCredit, LookAtCredit, Park,
         Wake, SendFrame, CancelReading, ReadEof, ReadSocket, SendOrdered, wireVars, Queue,
         Sides, BufferType
    <3>2. read'[x] = read[x] /\ out'[x] = out[x]
      BY <1>0, <1>10, <2>2, ReadsFrame
    <3>3. \A a \in Nat : Rest(x, a) => Rest(x, a)'
      BY <1>a, <3>1, <3>2, RestSame
    <3>4. \A a \in Nat : First(x, a) => First(x, a)'
      BY <1>0, <2>1, <3>2, FirstSame
    <3>. QED BY <1>a, <3>3, <3>4, ChainKept
  <2>3. CASE s = x /\ SendFrame(x)
    BY <1>1, <2>1, <2>3, RestFrame DEF SendFrame, history
  <2>4. CASE s = x /\ \E len \in 1 .. MAX_FRAME : ReadSocket(x, len)
    BY <1>a, <2>4, ChainRead
  <2>5. CASE s = x /\ UNCHANGED <<out, read, net, dataQ>>
    BY <1>3, <2>1, <2>5
  <2>6. \/ UNCHANGED <<out, read, net, dataQ>> \/ SendFrame(s)
        \/ \E len \in 1 .. MAX_FRAME : ReadSocket(s, len)
    BY <1>10 DEF Reads, Reading, TakeCredit, LookAtCredit, Park, Wake,
       CancelReading, ReadEof, bufferVars, wireVars, history
  <2>. QED BY <2>2, <2>3, <2>4, <2>5, <2>6
<1>11. ASSUME NEW s \in Sides, Writes(s)
      PROVE  Chain(x)'
  <2>1. UNCHANGED <<loop, out, read>>
    BY <1>0, <1>11, WritesFrame DEF tunnelVars
  <2>2. \A a \in Nat : Rest(x, a) => Rest(x, a)'
    <3>1. CASE UNCHANGED <<dataQ, net>>
      BY <1>2, <2>1, <3>1
    <3>2. CASE SendOrdered(s, window_update_msg(advert[s]))
      <4>1. window_update_msg(advert[s]) \in UpdateMsg
        BY <1>0, Kinds DEF WindowType
      <4>2. PICK m \in Msg : m = window_update_msg(advert[s]) /\ m.kind # "data" /\ ~SaysEnd(m)
        BY <4>1, MsgFacts
      <4>. QED BY <1>0, <2>1, <3>2, <4>2, RestSend
    <3>3. UNCHANGED <<dataQ, net>> \/ SendOrdered(s, window_update_msg(advert[s]))
      BY <1>11 DEF Writes, Writing, NextChunk, Advertise, CancelWriting, WriteSocket,
         WriteFails, SendControl, wireVars
    <3>. QED BY <3>1, <3>2, <3>3
  <2>3. CASE s = p
    BY <1>11, <1>a, <2>2, <2>3, ChainWrites
  <2>4. CASE s # p
    <3>1. \A a \in Nat : First(x, a) => First(x, a)'
      BY <1>0, <1>11, <2>1, <2>4, WritesFrame, FirstSame
    <3>. QED BY <1>a, <2>2, <3>1, ChainKept
  <2>. QED BY <2>3, <2>4
<1>12. ASSUME NEW s \in Sides, Channel(s)
      PROVE  Chain(x)'
  <2>1. UNCHANGED <<loop, out, chunk, pending, inbound, read, written>>
    BY <1>0, <1>12, ChannelFrame DEF bufferVars
  <2>2. CASE UNCHANGED wireVars
    BY <1>3, <2>1, <2>2 DEF wireVars
  <2>3. CASE task[s] = "closing" /\ SendOrdered(s, close_msg)
    <3>1. out[s] = <<>>
      BY <1>b, <2>3 DEF PhaseAt, HoldAt, RelayEnd
    <3>2. \A a \in Nat : Rest(x, a) => Rest(x, a)'
      BY <1>0, <2>1, <2>3, <3>1, RestSend, Kinds
    <3>. QED BY <1>1, <2>1, <3>2
  <2>. QED BY <1>0, <1>12, <2>2, <2>3, ChannelFrame
<1>13. ASSUME NEW s \in Sides, EndLoop(s) \/ DropQueues(s)
      PROVE  Chain(x)'
  <2>1. UNCHANGED <<out, chunk, pending, inbound, read, written, dataQ>> /\ net'["ctl"] = net["ctl"]
    BY <1>0, <1>13, LoopFrame DEF bufferVars, history
  <2>2. CASE net'[x] = net[x]
    BY <1>3, <2>1, <2>2
  <2>3. CASE x = "srv" /\ ~loop'[x] /\ \E k \in 0 .. Len(net[x]) : net'[x] = SubSeq(net[x], 1, k)
    <3>1. net[x] \in Seq(Msg)
      BY <1>0 DEF BufferType
    <3>2. ASSUME NEW a \in Nat, Rest(x, a)
          PROVE  Rest(x, a)'
      <4>1. PICK b : Run(net[x], a, b, read[x])
        BY <3>2 DEF Rest, Path
      <4>. QED BY <2>1, <2>3, <3>1, <4>1, RunPrefix DEF Rest
    <3>. QED BY <1>1, <2>1, <3>2
  <2>4. \/ net'[x] = net[x]
        \/ x = "srv" /\ ~loop'[x] /\ \E k \in 0 .. Len(net[x]) : net'[x] = SubSeq(net[x], 1, k)
    <3>1. CASE DropQueues(s)
      BY <3>1 DEF DropQueues, wireVars
    <3>2. CASE EndLoop(s) /\ s = "ctl"
      BY <3>2 DEF EndLoop
    <3>3. CASE EndLoop(s) /\ s = "srv" /\ x = "srv"
      <4>1. ~loop'[x]
        BY <1>0, <3>3 DEF EndLoop, TunnelType
      <4>2. PICK k \in 0 .. Len(net["srv"]) : net' = [net EXCEPT !["srv"] = SubSeq(@, 1, k)]
        BY <3>3 DEF EndLoop
      <4>. QED BY <1>0, <3>3, <4>1, <4>2 DEF BufferType
    <3>. QED BY <1>13, <2>1, <3>1, <3>2, <3>3 DEF Sides
  <2>. QED BY <2>2, <2>3, <2>4
<1>14. CASE UNCHANGED vars
  BY <1>3, <1>14 DEF vars, bufferVars, wireVars, history
<1>. QED BY <1>4, <1>5, <1>6, <1>7, <1>8, <1>9, <1>10, <1>11, <1>12, <1>13, <1>14, NextCases

\* A relay sees `close` at the head of its queue and with nothing else left to write.
LEMMA SeesClose ==
    ASSUME Sound, [Next]_vars, NEW s \in Sides, down'[s] = "PeerClosed", down[s] # "PeerClosed"
    PROVE  /\ down[s] = "recv" /\ pending[s] = <<>> /\ inbound[s] # <<>> /\ Head(inbound[s]) = Close
           /\ UNCHANGED history
<1>0. TypeOK /\ TaskType
  BY DEF Sound, TypeOK
<1>1. \A y \in Sides : Reads(y) \/ Channel(y) \/ EndLoop(y) \/ DropQueues(y) => down' = down
  BY <1>0, ReadsFrame, ChannelFrame, LoopFrame DEF taskVars
<1>2. Open \/ OnFrame \/ PumpData \/ PumpControl \/ Handle \/ UNCHANGED vars => down' = down
  BY DEF Open, OnFrame, PumpData, PumpControl, Handle, vars, taskVars
<1>3. SendOpen \/ Connecting => down'[s] \in {down[s], "recv", "TunnelGone"}
  BY <1>0 DEF SendOpen, Connecting, ConnectCommand, ConnectFails, ConnectSucceeds,
     GrantWindow, SendOpened, StartRelays, TaskType
<1>4. ASSUME NEW y \in Sides, Writes(y)
      PROVE  NextChunk(s) /\ pending[s] = <<>> /\ inbound[s] # <<>> /\ Head(inbound[s]) = Close
  <2>1. y = s
    BY <1>0, <1>4, WritesFrame
  <2>2. CASE NextChunk(s)
    BY <1>0, <2>2 DEF NextChunk, StartWrite, EndWriting, TaskType
  <2>3. CASE Advertise(s) \/ CancelWriting(s) \/ WriteSocket(s) \/ WriteFails(s)
    BY <1>0, <2>3 DEF Advertise, CancelWriting, WriteSocket, WriteFails, EndWriting, TaskType
  <2>. QED BY <1>4, <2>1, <2>2, <2>3 DEF Writes, Writing
<1>5. NextChunk(s) /\ pending[s] = <<>> /\ inbound[s] # <<>> /\ Head(inbound[s]) = Close
  BY <1>1, <1>2, <1>3, <1>4, NextCases
<1>. QED BY <1>5 DEF NextChunk

\* Every step preserves NothingAfterClose: a relay that sees `close` has, by the chain, written
\* all that was read, and by Silence no more is read.
LEMMA NothingAfterCloseStep ==
    ASSUME Sound, [Next]_vars, Silence, \A x \in Sides : Chain(x), NothingAfterClose
    PROVE  NothingAfterClose'
<1>. SUFFICES ASSUME NEW s \in Sides, down'[s] = "PeerClosed"
              PROVE  written'[s] = read'[Peer(s)]
  BY DEF NothingAfterClose
<1>. DEFINE x == Peer(s)
<1>0. x \in Sides /\ Peer(x) = s /\ TypeOK /\ PhaseAt(x) /\ HoldAt(s)
  BY DEF Peer, Sides, Sound, Holds, Phases
<1>1. CASE down[s] = "PeerClosed"
  <2>1. Quiet(x) /\ written[s] = read[x]
    BY <1>0, <1>1 DEF Silence, Heard, NothingAfterClose
  <2>2. up[x] \in RelayEnd \cup {"off"}
    BY <1>0, <2>1 DEF Quiet, PhaseAt, Early
  <2>3. written'[s] = written[s]
    BY <1>1, MovesStep DEF Moves, Rests, ReadMove, WriteMove, BeginMove, StartMove,
       AbandonMove, EndMove, RelayEnd
  <2>4. read'[x] = read[x]
    <3>. HIDE DEF x
    <3>. QED BY <1>0, <2>2, MovesStep DEF Moves, Rests, ReadMove, WriteMove, BeginMove,
                StartMove, AbandonMove, EndMove
  <2>. QED BY <2>1, <2>3, <2>4
<1>2. CASE down[s] # "PeerClosed"
  <2>1. /\ down[s] = "recv" /\ pending[s] = <<>> /\ inbound[s] # <<>> /\ Head(inbound[s]) = Close
        /\ UNCHANGED history
    BY <1>2, SeesClose
  <2>2. chunk[s] = <<>> /\ inbound[s] \in Seq(Msg)
    BY <1>0, <2>1 DEF HoldAt, TypeOK, BufferType
  <2>3. PICK a \in Nat : Path(<<>>, <<>>, inbound[s], written[s], a, read[x])
    BY <1>0, <2>1, <2>2 DEF Chain, First
  <2>4. Run(inbound[s], written[s], a, read[x])
    BY SMTT(60), <2>3, RunEmpty DEF Path
  <2>5. Carries(Close, written[s], written[s], read[x]) \/ \E c \in Nat : Carries(Close, written[s], c, read[x])
    BY <2>1, <2>2, <2>4, RunTail
  <2>6. written[s] = read[x]
    BY <2>5, Kinds DEF Carries
  <2>. QED BY <2>1, <2>6 DEF history
<1>. QED BY <1>1, <1>2

\* The inductive invariant.
Inv ==
    /\ Sound /\ Silence /\ NothingAfterClose
    /\ \A x \in Sides : Chain(x)

\* The invariant holds initially.
LEMMA InitInv == Init => Inv
<1>. SUFFICES ASSUME Init PROVE Inv
  OBVIOUS
<1>1. NothingAfterClose
  BY DEF Init, NothingAfterClose
<1>2. ASSUME NEW x \in Sides
      PROVE  Chain(x)
  <2>1. /\ chunk[Peer(x)] = <<>> /\ pending[Peer(x)] = <<>> /\ inbound[Peer(x)] = <<>> /\ loop[x]
        /\ written[Peer(x)] = 0 /\ read[x] = 0 /\ net[x] = <<>> /\ out[x] = <<>> /\ Queue(x) = <<>>
    BY DEF Init, Peer, Sides, Queue
  <2>2. Path(<<>>, <<>>, <<>>, 0, 0, 0)
    BY PathNone
  <2>. QED BY <2>1, <2>2 DEF Chain, First, Rest
<1>3. Silence
  <2>1. ~Says(<<>>)
    BY SMTT(60) DEF Says
  <2>. QED BY <2>1 DEF Init, Silence, Wired, Heard, Queue, Peer, Sides
<1>. QED BY <1>1, <1>2, <1>3, InitSound DEF Inv

\* Every step preserves the invariant.
LEMMA StepInv == Inv /\ [Next]_vars => Inv'
<1>. SUFFICES ASSUME Inv, [Next]_vars PROVE Inv'
  OBVIOUS
<1>1. Sound' /\ Silence'
  BY SoundStep, SilenceStep DEF Inv
<1>2. NothingAfterClose' /\ \A x \in Sides : Chain(x)'
  BY NothingAfterCloseStep, ChainStep DEF Inv
<1>. QED BY <1>1, <1>2 DEF Inv

\* The frame in the writing relay's hands starts where the bytes it has written stop.
LEMMA InvInOrder == Inv => InOrder
<1>. SUFFICES ASSUME Inv, NEW s \in Sides, chunk[s] # <<>>
              PROVE  Head(chunk[s]).off = written[s]
  BY DEF InOrder
<1>1. chunk[s] \in Seq(DataMsg) /\ Peer(s) \in Sides /\ Peer(Peer(s)) = s
  BY DEF Inv, Sound, TypeOK, BufferType, Peer, Sides
<1>2. chunk[s] \in Seq(Msg) /\ Head(chunk[s]) \in DataMsg
  BY SMTT(60), <1>1, MsgFacts
<1>3. PICK a \in Nat : Path(chunk[s], pending[s], inbound[s], written[s], a, read[Peer(s)])
  BY <1>1 DEF Inv, Chain, First
<1>4. PICK e \in Nat : Carries(Head(chunk[s]), written[s], e, read[Peer(s)])
  BY <1>2, <1>3, PathFirst
<1>. QED BY <1>2, <1>4, MsgFacts DEF Carries

\* The invariant always holds, for every window, queue size and scenario.
THEOREM Invariance == Spec => []Inv
<1>1. Inv /\ [Next /\ UNCHANGED scenario]_<<vars, scenario>> => Inv'
  BY StepInv
<1>. QED BY <1>1, InitInv, PTL DEF Spec

\* InOrder always holds: each direction of a port-forward channel delivers its bytes in order
\* and without a gap, however the two ends, the loops and the connect interleave, and whichever
\* of them ends when.
THEOREM BytesInOrder == Spec => []InOrder
  BY Invariance, InvInOrder, PTL

\* NothingAfterClose always holds: a relay that takes the peer's `close` from its queue has
\* written all the bytes the peer had read ("after the last data").
THEOREM AllBeforeClose == Spec => []NothingAfterClose
<1>1. Inv => NothingAfterClose
  BY DEF Inv
<1>. QED BY <1>1, Invariance, PTL

=============================================================================
