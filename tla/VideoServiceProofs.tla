------------------------- MODULE VideoServiceProofs -------------------------
(***************************************************************************)
(* All who are sent a frame share its encoder's history, for any set of    *)
(* viewers coming and going at any point of the service thread.            *)
(*                                                                         *)
(* SameHistory speaks of one point of the loop.  What holds throughout is  *)
(* that the subscribers stand alike to the running encoder (Alike), which  *)
(* the swap of the new subscribers keeps for one reason only: it goes on   *)
(* to the encoder when there was no old subscriber (SwapAlone), and leaves *)
(* the loop for a new encoder else.                                        *)
(***************************************************************************)
EXTENDS VideoService, TLAPS

ChainTypeOK == chain \in [Viewers -> BOOLEAN]
Subscribed == \A v \in Viewers : chain[v] => v \in subscribes
SwapAlone == pc = "swap" => subscribes = {}
Alike == pc \notin {"idle", "setup"} => \A v, w \in subscribes : chain[v] = chain[w]

SentIn == sent \subseteq Viewers
HistoryInv == TypeOK /\ SentIn /\ ChainTypeOK /\ Subscribed /\ SwapAlone /\ Alike

-----------------------------------------------------------------------------

\* A viewer that leaves the tables takes its history with it.
LEMMA LeavesTables ==
    ASSUME HistoryInv, NEW v \in Viewers, Unsubscribed(v), pc' = pc
    PROVE  /\ ChainTypeOK' /\ Subscribed' /\ SwapAlone' /\ Alike'
           /\ subscribes' \subseteq Viewers /\ new_subscribes' \subseteq Viewers
           /\ subscribes' \cap new_subscribes' = {}
           /\ subscribes' \cup new_subscribes' = (subscribes \cup new_subscribes) \ {v}
<1>1. /\ subscribes' = subscribes \ {v} /\ chain' = [chain EXCEPT ![v] = FALSE]
      /\ new_subscribes' = IF v \in subscribes THEN new_subscribes ELSE new_subscribes \ {v}
  BY DEF Unsubscribed
<1>2. chain \in [Viewers -> BOOLEAN] /\ subscribes \subseteq Viewers
      /\ new_subscribes \subseteq Viewers /\ subscribes \cap new_subscribes = {}
  BY DEF HistoryInv, TypeOK, ChainTypeOK
<1>3. ChainTypeOK'
  BY <1>1, <1>2 DEF ChainTypeOK
<1>4. \A w \in Viewers \ {v} : chain'[w] = chain[w]
  BY <1>1, <1>2
<1>5. chain'[v] = FALSE
  BY <1>1, <1>2
<1>6. Subscribed'
  BY <1>1, <1>4, <1>5 DEF HistoryInv, Subscribed
<1>7. SwapAlone' /\ Alike'
  BY <1>1, <1>2, <1>4 DEF HistoryInv, SwapAlone, Alike
<1> QED
  BY <1>1, <1>2, <1>3, <1>6, <1>7

LEMMA ViewerStep ==
    ASSUME HistoryInv, NEW v \in Viewers,
           \/ on_subscribe(v) \/ on_unsubscribe(v) \/ refresh_video_display(v)
           \/ FetchVideo(v) \/ VideoReceived(v) \/ Leave(v) \/ remove_connection(v)
    PROVE  HistoryInv'
<1>1. CASE on_unsubscribe(v)
  <2>1. Unsubscribed(v) /\ UNCHANGED <<pc, refresh, thread, display_conn_ids, notifier, conn>>
    BY <1>1 DEF on_unsubscribe, viewers
  <2>2. TypeOK' /\ SentIn'
    BY <2>1, LeavesTables DEF HistoryInv, TypeOK, SentIn, thread
  <2> QED
    BY <2>1, <2>2, LeavesTables DEF HistoryInv
<1>2. CASE remove_connection(v)
  <2>1. /\ Unsubscribed(v) /\ UNCHANGED <<pc, refresh, thread, display_conn_ids, notifier>>
        /\ conn' = [conn EXCEPT ![v] = "gone"]
    BY <1>2 DEF remove_connection
  <2>2. TypeOK' /\ SentIn'
    BY <2>1, LeavesTables DEF HistoryInv, TypeOK, SentIn, thread
  <2> QED
    BY <2>1, <2>2, LeavesTables DEF HistoryInv
<1>3. CASE on_subscribe(v)
  <2>1. /\ conn[v] = "in" /\ v \notin subscribes \cup new_subscribes
        /\ new_subscribes' = new_subscribes \cup {v}
        /\ UNCHANGED <<pc, subscribes, refresh, thread, display_conn_ids, notifier, conn, chain>>
    BY <1>3 DEF on_subscribe, viewers
  <2>2. TypeOK' /\ SentIn'
    BY <2>1 DEF HistoryInv, TypeOK, SentIn, thread
  <2> QED
    BY <2>1, <2>2 DEF HistoryInv, ChainTypeOK, Subscribed, SwapAlone, Alike
<1>4. CASE refresh_video_display(v) \/ FetchVideo(v) \/ VideoReceived(v) \/ Leave(v)
  <2>1. /\ UNCHANGED <<pc, subscribes, new_subscribes, thread, display_conn_ids, chain>>
        /\ refresh' \in {refresh, TRUE} /\ notifier' \in {notifier, notifier \cup {v}}
        /\ conn' = conn \/ (conn[v] = "in" /\ conn' = [conn EXCEPT ![v] = "leaving"])
    BY ZenonT(60), <1>4 DEF refresh_video_display, FetchVideo, VideoReceived, Leave,
         notify_video_frame_fetched, notify_video_frame_fetched_by_conn_id, viewers
  <2>2. TypeOK' /\ SentIn'
    BY ZenonT(60), <2>1 DEF HistoryInv, TypeOK, SentIn, thread
  <2> QED
    BY <2>1, <2>2 DEF HistoryInv, ChainTypeOK, Subscribed, SwapAlone, Alike
<1> QED
  BY <1>1, <1>2, <1>3, <1>4

\* The thread where it neither swaps nor sends: it moves, or leaves the loop.
LEMMA MovingStep ==
    ASSUME HistoryInv,
           \/ EnterRun \/ SetupFails \/ Check \/ OutsideSwitch \/ WouldBlock \/ CaptureFrame
           \/ Snapshot \/ EncodeFails \/ set_send \/ try_wait_next \/ WaitTimesOut
    PROVE  HistoryInv'
<1>1. /\ UNCHANGED <<subscribes, new_subscribes, conn, chain, refresh>>
      /\ encoder' \in {encoder, [encoder EXCEPT !.unfed = FALSE]}
  BY DEF EnterRun, SetupFails, Check, OutsideSwitch, WouldBlock, CaptureFrame, Snapshot,
         EncodeFails, set_send, try_wait_next, WaitTimesOut, thread, viewers
<1>2. /\ pc' \in {"idle", "setup"} \/ pc \notin {"idle", "setup"}
      /\ pc' \in {"idle", "setup", "check", "capture", "snapshot", "swap", "swap_switch",
                  "encode", "set_send", "wait"}
      /\ pc' = "swap" => subscribes = {}
  BY DEF HistoryInv, TypeOK, EnterRun, SetupFails, Check, OutsideSwitch, WouldBlock,
         CaptureFrame, Snapshot, EncodeFails, set_send, try_wait_next, WaitTimesOut, Exit, EndWait
<1>3. send_conn_ids' \subseteq Viewers /\ display_conn_ids' \subseteq Viewers
  BY DEF SentIn, HistoryInv, TypeOK, EnterRun, SetupFails, Check, OutsideSwitch, WouldBlock,
         CaptureFrame, Snapshot, EncodeFails, set_send, try_wait_next, WaitTimesOut, Exit,
         EndWait, thread
<1>4. /\ sent' \subseteq Viewers /\ fetched_conn_ids' \subseteq Viewers
      /\ notifier' \subseteq Viewers
  BY DEF SentIn, HistoryInv, TypeOK, EnterRun, SetupFails, Check, OutsideSwitch, WouldBlock,
         CaptureFrame, Snapshot, EncodeFails, set_send, try_wait_next, WaitTimesOut, Exit,
         EndWait, thread
<1>5. TypeOK' /\ SentIn'
  BY ZenonT(60), <1>1, <1>2, <1>3, <1>4 DEF HistoryInv, TypeOK, SentIn
<1> QED
  BY <1>1, <1>2, <1>5 DEF HistoryInv, ChainTypeOK, Subscribed, SwapAlone, Alike

\* A new encoder: nobody has been sent anything of it.
LEMMA SetupStep ==
    ASSUME HistoryInv, Setup PROVE HistoryInv'
<1>1. /\ pc' = "check" /\ chain' = [v \in Viewers |-> FALSE]
      /\ encoder' = [fresh |-> TRUE, unfed |-> TRUE, warmed_up |-> FALSE]
      /\ refresh' = FALSE /\ send_conn_ids' = {}
      /\ UNCHANGED <<subscribes, new_subscribes, sent, fetched_conn_ids, display_conn_ids,
                     notifier, conn>>
  BY DEF Setup, viewers
<1>2. TypeOK' /\ SentIn'
  BY ZenonT(60), <1>1 DEF HistoryInv, TypeOK, SentIn
<1>3. subscribes \subseteq Viewers
  BY DEF HistoryInv, TypeOK
<1> QED
  BY ZenonT(60), <1>1, <1>2, <1>3
     DEF HistoryInv, ChainTypeOK, Subscribed, SwapAlone, Alike

\* Taking new subscribers in.
LEMMA SwapStep ==
    ASSUME HistoryInv, SwapNewSubscribes \/ DisplayChanged PROVE HistoryInv'
<1>1. /\ subscribes' = subscribes \cup new_subscribes /\ new_subscribes' = {}
      /\ UNCHANGED <<refresh, encoder, sent, send_conn_ids, fetched_conn_ids, notifier, conn,
                     chain>>
      /\ \/ pc' = "idle" /\ display_conn_ids' = {}
         \/ pc = "swap" /\ pc' = "encode" /\ UNCHANGED display_conn_ids
  BY DEF SwapNewSubscribes, DisplayChanged, Exit, thread, viewers
<1>2. TypeOK' /\ SentIn'
  BY <1>1 DEF HistoryInv, TypeOK, SentIn
<1>3. pc = "swap" => \A v \in Viewers : chain[v] = FALSE
  BY DEF HistoryInv, SwapAlone, Subscribed, ChainTypeOK
<1>4. Alike'
  <2>1. subscribes' \subseteq Viewers
    BY <1>2 DEF TypeOK
  <2> QED
    BY ZenonT(60), <1>1, <1>3, <2>1 DEF Alike
<1> QED
  BY <1>1, <1>2, <1>4 DEF HistoryInv, ChainTypeOK, Subscribed, SwapAlone

\* Sending a frame to all subscribers.
LEMMA SendStep ==
    ASSUME HistoryInv, SendFrame PROVE HistoryInv'
<1>1. /\ pc = "encode" /\ pc' = "set_send" /\ sent' = subscribes
      /\ encoder' = [fresh |-> FALSE, unfed |-> FALSE, warmed_up |-> TRUE]
      /\ chain' = [v \in Viewers |-> v \in subscribes /\ (chain[v] \/ encoder.fresh)]
      /\ UNCHANGED <<subscribes, new_subscribes, refresh, send_conn_ids, fetched_conn_ids,
                     display_conn_ids, notifier, conn>>
  BY DEF SendFrame
<1>2. TypeOK' /\ SentIn'
  BY <1>1 DEF HistoryInv, TypeOK, SentIn
<1>3. ChainTypeOK' /\ Subscribed' /\ SwapAlone'
  <2>1. ASSUME NEW v \in Viewers PROVE (v \in subscribes /\ (chain[v] \/ encoder.fresh)) \in BOOLEAN
    OBVIOUS
  <2>2. ChainTypeOK'
    BY <1>1, <2>1, Zenon DEF ChainTypeOK
  <2>3. Subscribed'
    BY ZenonT(60), <1>1 DEF Subscribed
  <2> QED
    BY <1>1, <2>2, <2>3 DEF SwapAlone
<1>4. ASSUME NEW v \in subscribes', NEW w \in subscribes' PROVE chain'[v] = chain'[w]
  <2>1. v \in subscribes /\ w \in subscribes /\ subscribes \subseteq Viewers
    BY <1>1 DEF HistoryInv, TypeOK
  <2>2. chain[v] = chain[w]
    BY <1>1, <2>1 DEF HistoryInv, Alike
  <2>3. chain'[v] = (chain[v] \/ encoder.fresh) /\ chain'[w] = (chain[w] \/ encoder.fresh)
    BY <1>1, <2>1
  <2> QED
    BY <2>2, <2>3
<1> QED
  BY <1>2, <1>3, <1>4 DEF HistoryInv, Alike

\* The invariant holds throughout, for any viewers, refreshes and faults.
THEOREM HistoryInvariant == Spec => []HistoryInv
<1>1. Init => HistoryInv
  <2> SUFFICES ASSUME Init PROVE HistoryInv
    OBVIOUS
  <2>1. encoder \in [fresh : BOOLEAN, unfed : BOOLEAN, warmed_up : BOOLEAN]
    BY DEF Init, NoEncoder
  <2>2. TypeOK
    BY ZenonT(60), <2>1 DEF Init, TypeOK
  <2>3. ChainTypeOK /\ Subscribed
    BY DEF Init, ChainTypeOK, Subscribed
  <2> QED
    BY <2>2, <2>3 DEF Init, HistoryInv, SentIn, SwapAlone, Alike
<1>2. HistoryInv /\ [Next]_vars => HistoryInv'
  <2> SUFFICES ASSUME HistoryInv, [Next]_vars PROVE HistoryInv'
    OBVIOUS
  <2>1. CASE Next
    BY <2>1, ViewerStep, MovingStep, SetupStep, SwapStep, SendStep DEF Next, Thread, Outside
  <2>2. CASE UNCHANGED vars
    BY <2>2 DEF vars, thread, viewers, HistoryInv, TypeOK, SentIn, ChainTypeOK, Subscribed,
                SwapAlone, Alike
  <2> QED
    BY <2>1, <2>2
<1> QED
  BY <1>1, <1>2, PTL DEF Spec

\* Every reachable state has its type: nobody is in both tables of a service,
\* and nobody gone is in either (TypeOK).
THEOREM TablesAreDisjoint == Spec => []TypeOK
<1>1. HistoryInv => TypeOK
  BY DEF HistoryInv
<1> QED
  BY <1>1, HistoryInvariant, PTL

\* All who are sent a frame stand alike to its encoder (SameHistory).
THEOREM HistoryIsShared == Spec => []SameHistory
<1>1. HistoryInv => SameHistory
  BY DEF HistoryInv, Alike, SameHistory
<1> QED
  BY <1>1, HistoryInvariant, PTL
=============================================================================
