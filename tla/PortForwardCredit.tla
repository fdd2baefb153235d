-------------------------- MODULE PortForwardCredit --------------------------
(***************************************************************************)
(* A port-forward channel implements CreditFlow, once in each direction.   *)
(* The cost of a frame counts wherever the frame is: with the relay that   *)
(* read it, in a queue, on the stream, with the relay that writes it.      *)
(***************************************************************************)
EXTENDS PortForwardChannel

Update(m) == IF m.kind = "update" THEN m.add ELSE 0
UpdatesIn(q) == SumOf([i \in 1 .. Len(q) |-> Update(q[i])])

Has(q, m) == \E i \in 1 .. Len(q) : q[i] = m

ChannelOver ==
    \/ \E s \in Sides :
          \/ ~loop[s] \/ task[s] = "gone"
          \/ up[s] \in RelayEnd \/ down[s] \in RelayEnd
          \/ task[s] # "none" /\ ~entry[s]
    \/ Has(net["srv"], opened_msg(FALSE))

ToTarget == INSTANCE CreditFlow WITH
    credit <- credit["ctl"], held <- allow["ctl"],
    inflight <- CostOf(out["ctl"] \o dataQ \o net["ctl"]),
    updates <- advert["srv"] + UpdatesIn(net["srv"]),
    remaining <- remaining["srv"], drained <- drained["srv"],
    queued <- CostOf(pending["srv"] \o inbound["srv"] \o chunk["srv"]),
    width <- IF opened THEN "wide"
             ELSE IF task["srv"] = "granted" \/ up["srv"] # "off" THEN "granted" ELSE "narrow",
    overrun <- down["srv"] = "Violation" \/ Has(inbound["srv"], Violation),
    over <- ChannelOver

FromTarget == INSTANCE CreditFlow WITH
    credit <- credit["srv"], held <- allow["srv"],
    inflight <- CostOf(out["srv"] \o net["srv"]),
    updates <- advert["ctl"] + UpdatesIn(controlQ \o net["ctl"]),
    remaining <- remaining["ctl"], drained <- drained["ctl"],
    queued <- CostOf(inbound["ctl"] \o chunk["ctl"]),
    width <- "wide",
    overrun <- down["ctl"] = "Violation" \/ Has(inbound["ctl"], Violation),
    over <- ChannelOver

\* Both directions account for their windows as CreditFlow says: controller to
\* target with the narrow start, the grant and `opened`, target to controller
\* with window_updates that pass data in the control queue.
ImplementsCreditFlow == ToTarget!Spec /\ FromTarget!Spec
=============================================================================
