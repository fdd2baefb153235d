---------------------------- MODULE VideoService ----------------------------
(***************************************************************************)
(* One display's video service and the connections that watch it.  The     *)
(* service thread (ServiceTmpl::run and video_service::run) creates a      *)
(* capturer and an encoder, takes new subscribers in through a snapshot,   *)
(* sends each frame to the subscribers and waits until they have fetched   *)
(* it.  Anything that needs a new encoder leaves video_service::run with   *)
(* an error ("SWITCH") and enters it again.                                *)
(*                                                                         *)
(* A frame is told from others only by whether it is its encoder's first,  *)
(* the key frame, so rx_video is a count.  The notifier's channel is a set: *)
(* the thread only collects the ids in it.                                 *)
(***************************************************************************)
EXTENDS Naturals, FiniteSets

CONSTANTS
    Viewers,
    AckRequired,    \* the viewers whose login sets video_ack_required
    DefersRefresh,  \* macOS with an encoder that is not latency free
    MaxQueue,       \* bound: frames waiting in a connection
    MaxChanges,     \* bound: subscriptions, refreshes
    MaxFaults       \* bound: failures and switches the outside causes

ASSUME ViewersAssumption ==
    /\ IsFiniteSet(Viewers) /\ AckRequired \subseteq Viewers
    /\ DefersRefresh \in BOOLEAN
    /\ MaxQueue \in Nat /\ MaxChanges \in Nat /\ MaxFaults \in Nat

VARIABLES
    pc,              \* the service thread
    subscribes, new_subscribes,
    refresh,         \* OPTION_REFRESH
    encoder,         \* fresh: nothing sent yet; unfed: first_frame; warmed_up
    sent,            \* what handle_one_frame returned
    send_conn_ids, fetched_conn_ids,
    display_conn_ids,\* this display's entry of DISPLAY_CONN_IDS
    notifier,        \* this display's entry of FRAME_FETCHED_NOTIFIERS
    conn,            \* per viewer: its connection
    video,           \* per viewer: rx_video
    unacked,         \* per viewer: frames sent on whose VideoReceived is out
    chain,           \* per viewer: has been sent all the encoder's frames
    wants,           \* per viewer: asked for a refresh, no key frame since
    changes, faults  \* what the bounds count

thread == <<encoder, sent, send_conn_ids, fetched_conn_ids>>
viewers == <<conn, video, unacked>>
vars == <<pc, subscribes, new_subscribes, refresh, thread, display_conn_ids, notifier,
          viewers, chain, wants, changes, faults>>

NoEncoder == [fresh |-> FALSE, unfed |-> FALSE, warmed_up |-> FALSE]

Init ==
    /\ pc = "idle" /\ subscribes = {} /\ new_subscribes = {} /\ refresh = FALSE
    /\ encoder = NoEncoder /\ sent = {}
    /\ send_conn_ids = {} /\ fetched_conn_ids = {} /\ display_conn_ids = {} /\ notifier = {}
    /\ conn = [v \in Viewers |-> "in"] /\ video = [v \in Viewers |-> 0]
    /\ unacked = [v \in Viewers |-> 0]
    /\ chain = [v \in Viewers |-> FALSE] /\ wants = [v \in Viewers |-> FALSE]
    /\ changes = 0 /\ faults = 0

has_subscribes == subscribes \cup new_subscribes # {}

Change == changes < MaxChanges /\ changes' = changes + 1
Fault == faults < MaxFaults /\ faults' = faults + 1

----------------------------------------------------------------------------
(* The connections. *)

\* At login (add_monitor_connection) or by CaptureDisplays.
on_subscribe(v) ==
    /\ conn[v] = "in" /\ v \notin subscribes \cup new_subscribes /\ Change
    /\ new_subscribes' = new_subscribes \cup {v}
    /\ UNCHANGED <<pc, subscribes, refresh, thread, display_conn_ids, notifier, viewers,
                   chain, wants, faults>>

Unsubscribed(v) ==
    /\ subscribes' = subscribes \ {v}
    /\ new_subscribes' = IF v \in subscribes THEN new_subscribes ELSE new_subscribes \ {v}
    /\ chain' = [chain EXCEPT ![v] = FALSE] /\ wants' = [wants EXCEPT ![v] = FALSE]

on_unsubscribe(v) ==
    /\ conn[v] = "in" /\ v \in subscribes \cup new_subscribes /\ Change
    /\ Unsubscribed(v)
    /\ UNCHANGED <<pc, refresh, thread, display_conn_ids, notifier, viewers, faults>>

\* RefreshVideo, RefreshVideoDisplay, or the display list sent to this peer.
refresh_video_display(v) ==
    /\ conn[v] = "in" /\ Change
    /\ refresh' = TRUE
    /\ wants' = [wants EXCEPT ![v] = v \in subscribes \cup new_subscribes]
    /\ UNCHANGED <<pc, subscribes, new_subscribes, thread, display_conn_ids, notifier,
                   viewers, chain, faults>>

notify_video_frame_fetched(v) == notifier' = notifier \cup {v}

\* Only the displays whose current frame went to v are told.
notify_video_frame_fetched_by_conn_id(v) ==
    notifier' = IF v \in display_conn_ids THEN notifier \cup {v} ELSE notifier

\* The rx_video arm: the thread is told before the frame is sent on, or, for a
\* viewer that acknowledges, when VideoReceived comes back.
FetchVideo(v) ==
    /\ conn[v] = "in" /\ video[v] > 0
    /\ video' = [video EXCEPT ![v] = @ - 1]
    /\ IF v \in AckRequired
         THEN unacked' = [unacked EXCEPT ![v] = @ + 1] /\ UNCHANGED notifier
         ELSE notify_video_frame_fetched(v) /\ UNCHANGED unacked
    /\ UNCHANGED <<pc, subscribes, new_subscribes, refresh, thread, display_conn_ids, conn,
                   chain, wants, changes, faults>>

VideoReceived(v) ==
    /\ conn[v] = "in" /\ unacked[v] > 0
    /\ unacked' = [unacked EXCEPT ![v] = @ - 1]
    /\ notify_video_frame_fetched_by_conn_id(v)
    /\ UNCHANGED <<pc, subscribes, new_subscribes, refresh, thread, display_conn_ids, conn,
                   video, chain, wants, changes, faults>>

\* The connection's loop is left: whoever waits for this viewer is told,
Leave(v) ==
    /\ conn[v] = "in"
    /\ conn' = [conn EXCEPT ![v] = "leaving"]
    /\ notify_video_frame_fetched_by_conn_id(v)
    /\ UNCHANGED <<pc, subscribes, new_subscribes, refresh, thread, display_conn_ids, video,
                   unacked, chain, wants, changes, faults>>

\* and only then is it unsubscribed and its queue dropped.
remove_connection(v) ==
    /\ conn[v] = "leaving"
    /\ conn' = [conn EXCEPT ![v] = "gone"]
    /\ Unsubscribed(v)
    /\ video' = [video EXCEPT ![v] = 0] /\ unacked' = [unacked EXCEPT ![v] = 0]
    /\ UNCHANGED <<pc, refresh, thread, display_conn_ids, notifier, changes, faults>>

----------------------------------------------------------------------------
(* The service thread. *)

\* The end of video_service::run, Ok or SWITCH: Raii forgets the display.
Exit == pc' = "idle" /\ display_conn_ids' = {}

\* ServiceTmpl::run: with a subscriber of either kind the callback is entered.
EnterRun ==
    /\ pc = "idle" /\ has_subscribes
    /\ pc' = "setup"
    /\ UNCHANGED <<subscribes, new_subscribes, refresh, thread, display_conn_ids, notifier,
                   viewers, chain, wants, changes, faults>>

\* Mutation: the refresh that led here is not taken back.
SetupKeepsRefresh ==
    /\ pc = "setup"
    /\ pc' = "check"
    /\ encoder' = [fresh |-> TRUE, unfed |-> TRUE, warmed_up |-> FALSE]
    /\ chain' = [v \in Viewers |-> FALSE]
    /\ send_conn_ids' = {}
    /\ UNCHANGED <<subscribes, new_subscribes, refresh, sent, fetched_conn_ids,
                   display_conn_ids, notifier, viewers, wants, changes, faults>>

\* The capturer and the encoder are made; a refresh asked for until now is met
\* by this encoder.
Setup ==
    /\ pc = "setup"
    /\ pc' = "check"
    /\ encoder' = [fresh |-> TRUE, unfed |-> TRUE, warmed_up |-> FALSE]
    /\ chain' = [v \in Viewers |-> FALSE]
    /\ refresh' = FALSE
    /\ send_conn_ids' = {}
    /\ UNCHANGED <<subscribes, new_subscribes, sent, fetched_conn_ids, display_conn_ids,
                   notifier, viewers, wants, changes, faults>>

SetupFails ==
    /\ pc = "setup" /\ Fault
    /\ Exit
    /\ UNCHANGED <<subscribes, new_subscribes, refresh, thread, notifier, viewers, chain,
                   wants, changes>>

refresh_allowed == ~DefersRefresh \/ encoder.unfed \/ encoder.warmed_up

\* Mutation: the loop looks at active only, not at the subscribers.
CheckActiveOnly ==
    /\ pc = "check"
    /\ IF ~(refresh /\ refresh_allowed)
         THEN pc' = "capture" /\ send_conn_ids' = {} /\ UNCHANGED display_conn_ids
         ELSE Exit /\ UNCHANGED send_conn_ids
    /\ UNCHANGED <<subscribes, new_subscribes, refresh, encoder, sent, fetched_conn_ids,
                   notifier, viewers, chain, wants, changes, faults>>

\* The head of the loop: sp.ok(), the refresh option, frame_controller.reset().
Check ==
    /\ pc = "check"
    /\ IF has_subscribes /\ ~(refresh /\ refresh_allowed)
         THEN pc' = "capture" /\ send_conn_ids' = {} /\ UNCHANGED display_conn_ids
         ELSE Exit /\ UNCHANGED send_conn_ids
    /\ UNCHANGED <<subscribes, new_subscribes, refresh, encoder, sent, fetched_conn_ids,
                   notifier, viewers, chain, wants, changes, faults>>

\* The codec, i444, privacy mode or the desktop changed, the capturer failed, or
\* a screenshot needs another one.
OutsideSwitch ==
    /\ pc \in {"check", "capture", "wait"} /\ Fault
    /\ Exit
    /\ UNCHANGED <<subscribes, new_subscribes, refresh, thread, notifier, viewers, chain,
                   wants, changes>>

\* try_broadcast_display_changed: the message goes to old and new subscribers,
\* and its snapshot takes the new ones in.
DisplayChanged ==
    /\ pc \in {"check", "capture", "wait"} /\ Fault
    /\ subscribes' = subscribes \cup new_subscribes /\ new_subscribes' = {}
    /\ Exit
    /\ UNCHANGED <<refresh, thread, notifier, viewers, chain, wants, changes>>

\* c.frame(spf) has nothing new and nothing is encoded again,
WouldBlock ==
    /\ pc = "capture"
    /\ pc' = "wait" /\ fetched_conn_ids' = {}
    /\ UNCHANGED <<subscribes, new_subscribes, refresh, encoder, sent, send_conn_ids,
                   display_conn_ids, notifier, viewers, chain, wants, changes, faults>>

\* or there is a frame to encode.
CaptureFrame ==
    /\ pc = "capture"
    /\ \A v \in Viewers : video[v] + unacked[v] < MaxQueue
    /\ pc' = "snapshot"
    /\ UNCHANGED <<subscribes, new_subscribes, refresh, thread, display_conn_ids, notifier,
                   viewers, chain, wants, changes, faults>>

\* Mutation: new subscribers join the running encoder.
SnapshotNoSwitch ==
    /\ pc = "snapshot"
    /\ pc' = IF new_subscribes = {} THEN "encode" ELSE "swap"
    /\ UNCHANGED <<subscribes, new_subscribes, refresh, thread, display_conn_ids, notifier,
                   viewers, chain, wants, changes, faults>>

\* snapshot: with new subscribers the callback looks for old ones; both kinds
\* mean a switch, so that they share an encoder.
Snapshot ==
    /\ pc = "snapshot"
    /\ pc' = IF new_subscribes = {} THEN "encode"
             ELSE IF subscribes = {} THEN "swap" ELSE "swap_switch"
    /\ UNCHANGED <<subscribes, new_subscribes, refresh, thread, display_conn_ids, notifier,
                   viewers, chain, wants, changes, faults>>

\* Drop of the ServiceSwap: whoever is new by now is taken in.
SwapNewSubscribes ==
    /\ pc \in {"swap", "swap_switch"}
    /\ subscribes' = subscribes \cup new_subscribes /\ new_subscribes' = {}
    /\ IF pc = "swap" THEN pc' = "encode" /\ UNCHANGED display_conn_ids ELSE Exit
    /\ UNCHANGED <<refresh, thread, notifier, viewers, chain, wants, changes, faults>>

\* encode_to_message and send_video_frame, under the service's lock.
SendFrame ==
    /\ pc = "encode"
    /\ pc' = "set_send"
    /\ encoder' = [fresh |-> FALSE, unfed |-> FALSE, warmed_up |-> TRUE]
    /\ sent' = subscribes
    /\ video' = [v \in Viewers |-> IF v \in subscribes THEN video[v] + 1 ELSE video[v]]
    /\ chain' = [v \in Viewers |-> v \in subscribes /\ (chain[v] \/ encoder.fresh)]
    /\ wants' = [v \in Viewers |-> wants[v] /\ ~(v \in subscribes /\ encoder.fresh)]
    /\ UNCHANGED <<subscribes, new_subscribes, refresh, send_conn_ids, fetched_conn_ids,
                   display_conn_ids, notifier, conn, unacked, changes, faults>>

\* The encoder gives nothing, or is given up on.
EncodeFails ==
    /\ pc = "encode" /\ Fault
    /\ encoder' = [encoder EXCEPT !.unfed = FALSE]
    /\ \/ pc' = "set_send" /\ sent' = {} /\ UNCHANGED display_conn_ids
       \/ Exit /\ UNCHANGED sent
    /\ UNCHANGED <<subscribes, new_subscribes, refresh, send_conn_ids, fetched_conn_ids,
                   notifier, viewers, chain, wants, changes>>

set_send ==
    /\ pc = "set_send"
    /\ pc' = "wait" /\ fetched_conn_ids' = {} /\ sent' = {}
    /\ IF sent = {} THEN UNCHANGED <<send_conn_ids, display_conn_ids>>
       ELSE send_conn_ids' = sent /\ display_conn_ids' = sent
    /\ UNCHANGED <<subscribes, new_subscribes, refresh, encoder, notifier,
                   viewers, chain, wants, changes, faults>>

Enough(fetched) == Cardinality(fetched) >= Cardinality(send_conn_ids)

EndWait == pc' = "check" /\ display_conn_ids' = {}

\* try_wait_next: with nobody to wait for it returns at once; else it collects
\* all there is, and the caller compares counts.
try_wait_next ==
    /\ pc = "wait"
    /\ \/ /\ send_conn_ids = {}
          /\ EndWait
          /\ UNCHANGED <<fetched_conn_ids, notifier>>
       \/ /\ send_conn_ids # {} /\ notifier # {}
          /\ fetched_conn_ids' = fetched_conn_ids \cup notifier /\ notifier' = {}
          /\ IF Enough(fetched_conn_ids') THEN EndWait ELSE UNCHANGED <<pc, display_conn_ids>>
    /\ UNCHANGED <<subscribes, new_subscribes, refresh, encoder, sent, send_conn_ids,
                   viewers, chain, wants, changes, faults>>

\* timeout_millis have passed.
WaitTimesOut ==
    /\ pc = "wait" /\ send_conn_ids # {}
    /\ EndWait
    /\ UNCHANGED <<subscribes, new_subscribes, refresh, thread, notifier, viewers, chain,
                   wants, changes, faults>>

Thread ==
    \/ EnterRun \/ Setup \/ Check \/ WouldBlock \/ CaptureFrame
    \/ Snapshot \/ SwapNewSubscribes \/ SendFrame \/ set_send \/ try_wait_next \/ WaitTimesOut

Outside == SetupFails \/ OutsideSwitch \/ DisplayChanged \/ EncodeFails

Next ==
    \/ Thread \/ Outside
    \/ \E v \in Viewers :
          \/ on_subscribe(v) \/ on_unsubscribe(v) \/ refresh_video_display(v)
          \/ FetchVideo(v) \/ VideoReceived(v) \/ Leave(v) \/ remove_connection(v)

Spec == Init /\ [][Next]_vars

\* The thread never stops, a capturer that has frames gives one at last (it is
\* SF: the loop may see WouldBlock in between), and connections pump their queues.
FairSpec ==
    /\ Spec /\ WF_vars(Thread) /\ SF_vars(CaptureFrame)
    /\ \A v \in Viewers : WF_vars(FetchVideo(v)) /\ WF_vars(VideoReceived(v))
                          /\ WF_vars(remove_connection(v))

----------------------------------------------------------------------------
(* Properties. *)

\* The thread, the tables and the connections; nobody is in both tables of
\* ServiceInner, and nobody gone is in either.
TypeOK ==
    /\ pc \in {"idle", "setup", "check", "capture", "snapshot", "swap", "swap_switch",
               "encode", "set_send", "wait"}
    /\ subscribes \subseteq Viewers /\ new_subscribes \subseteq Viewers
    /\ subscribes \cap new_subscribes = {}
    /\ refresh \in BOOLEAN
    /\ encoder \in [fresh : BOOLEAN, unfed : BOOLEAN, warmed_up : BOOLEAN]
    /\ send_conn_ids \subseteq Viewers /\ fetched_conn_ids \subseteq Viewers
    /\ display_conn_ids \subseteq Viewers /\ notifier \subseteq Viewers
    /\ conn \in [Viewers -> {"in", "leaving", "gone"}]
    /\ \A v \in Viewers : conn[v] = "gone" => v \notin subscribes \cup new_subscribes

\* All who are sent a frame stand alike to its encoder: either each has been sent
\* everything it made, or none has.  A viewer that joins others never shares
\* their running encoder ("so that new sub and old sub share the same encoder
\* after switch", video_service.rs:1291).  One that comes alone, when the last
\* one has left a running encoder, is taken into it as it is.
SameHistory == pc = "set_send" => \A v, w \in sent \cap subscribes : chain[v] = chain[w]

\* A refresh is served: the viewer that asked is sent a key frame, or stops
\* watching, also when it asked while the encoder was being made, before its
\* first packet, or before the viewer itself was taken in.
RefreshServed == \A v \in Viewers : wants[v] ~> ~wants[v]

\* With nobody watching, capture stops.
StopsUnwatched == ~has_subscribes ~> (pc = "idle" \/ has_subscribes)

=============================================================================
