----------------------------- MODULE QdiscOrder -----------------------------
(***************************************************************************)
(* What the queueing discipline of TimeslotQdisc promises of the packets   *)
(* on their way: none is lost or doubled, and they keep their order.       *)
(***************************************************************************)
EXTENDS TimeslotQdisc, SequencesExt

\* The packets of class x, in the order in which they are to leave
line(x) ==
    LET flow(f) == IF f \in DOMAIN dst_hash_tbl THEN FlattenSeq(dst_hash_tbl[f].skb_qs) ELSE <<>>
        carried == FlattenSeq(SetToSeq({cpu[c].skbs : c \in {d \in Cpus : cpu[d].at = "append"}}))
        all == hi_prio \o reg_prio \o prequeue \o carried
               \o (IF x \in Flows THEN flow(x) ELSE <<>>) \o enqueue_tasklet.next \o enqueue_skb_q
    IN  SelectSeq(all, LAMBDA skb : skb.to = x)

\* The queues never hold more data packets than the limit.  Until the qdisc is reset no
\* packet is lost or doubled on its way through the queues and threads, and those of a
\* class leave in the order in which they came: through enqueue_skb_q, the tasklet's
\* list, the timeslots, the CPU that admits one, prequeue and reg_prio.  Only a failed
\* allocation lets a packet pass others, or two CPUs that admit timeslots of one flow
\* at once.
InLine ==
    /\ FoldFunction(+, 0, [f \in Flows |-> Len(line(f))]) <= LIMIT
    /\ resets = 0 =>
        /\ qlen = FoldFunction(+, 0, [x \in Classes |-> Len(line(x))])
        /\ \A x \in Classes :
             /\ Len(line(x)) = accepted[x] - sent[x]
             /\ x \notin unordered => \A i \in DOMAIN line(x) : line(x)[i].n = sent[x] + i
=============================================================================
