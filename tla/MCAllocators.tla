---------------------------- MODULE MCAllocators ----------------------------
(* The two allocators that run beside the pipelined one, path selection     *)
(* and edge colouring after them, and the bins of the pipelined one, each   *)
(* on its own instance: `which' says which of them moves.                   *)
(*                                                                          *)
(* PIM: three cores with a node each; two flows have a common source and    *)
(* two a common destination.  SJF: two cores; flows that share a source, a  *)
(* destination, a rack and the boundary.  Paths: up to five packets between *)
(* two racks, up to three between three.  Colouring: the degrees that the   *)
(* solver's arrays hold.  Bins: all the gaps up to the oldest bin.          *)
EXTENDS Pim

CONSTANTS N_CORES, TOR_SIZE, SJF_BATCH_SIZE, NUM_BINS, PACE, OUT_OF_BOUNDARY_NODE_ID,
          inter_rack_capacity, out_of_boundary_capacity, SJF_DEMAND, MAX_BATCHES,
          MAX_GAP

VARIABLES which, s_backlog, s_asked, s_admitted, s_admitted_out, s_stage, s_src, s_dst,
          q_head, q_urgent, q_bin, batch, bin, is_head, work, new_request_bins,
          outgoing_bins, src_rack_counts, dst_rack_counts, out_of_boundary_counts,
          allowed_mask,
          racks, traffic, path, added, neighbors, neighbor_bitmaps, step, graph, node,
          cur_node, turn,
          d, kr_step, indices, steps, bins, matchings, degree_at, done_steps,
          gap

s_vars == <<s_backlog, s_asked, s_admitted, s_admitted_out, s_stage, s_src, s_dst,
            q_head, q_urgent, q_bin, batch, bin, is_head, work, new_request_bins,
            outgoing_bins, src_rack_counts, dst_rack_counts, out_of_boundary_counts,
            allowed_mask>>
path_vars == <<racks, traffic, path, added, neighbors, neighbor_bitmaps, step, graph, node,
               cur_node, turn>>
kr_vars == <<d, kr_step, indices, steps, bins, matchings, degree_at, done_steps>>

PimFlows == {<<0, 1>>, <<2, 1>>, <<2, 0>>}
SjfFlows == {<<0, 9>>, <<2, 9>>, <<1, 4>>, <<2, 4>>}

S == INSTANCE SjfAllocator
       WITH Flows <- SjfFlows, oversubscribed <- TRUE, MAX_DEMAND <- SJF_DEMAND, BATCH_SIZE <- SJF_BATCH_SIZE,
            backlog <- s_backlog, asked <- s_asked, admitted <- s_admitted,
            q_admitted_out <- s_admitted_out, stage <- s_stage,
            src_endnodes <- s_src, dst_endnodes <- s_dst

\* Packets between two and between three racks
Packets ==
    UNION {{<<2, s>> : s \in [1 .. k -> (0 .. 1) \X (0 .. 1)]} : k \in 0 .. 5}
      \cup UNION {{<<3, s>> : s \in [1 .. k -> (0 .. 2) \X (0 .. 2)]} : k \in 1 .. 3}
EvenDegrees == {2 * i : i \in 1 .. 20}

P == INSTANCE PathSelection WITH Inputs <- Packets
K == INSTANCE KapoorRizzi WITH Degrees <- EvenDegrees
B == INSTANCE SeqBins WITH BATCH_SHIFT <- 4, NUM_BINS <- 32, TIME <- 2^30, GROUPS <- 2^16

MCInit ==
    /\ which \in {"pim", "sjf", "paths", "colours", "bins"}
    /\ \E in \in IF which = "paths" THEN Packets ELSE {<<2, <<>>>>} : racks = in[1] /\ traffic = in[2]
    /\ d \in IF which = "colours" THEN EvenDegrees ELSE {2}
    /\ gap = 0
    /\ Init /\ S!Init /\ P!Init /\ K!KrInit

\* The cores start once the flows with a common destination are on their way.
Started ==
    \A f \in {<<0, 1>>, <<2, 1>>} :
        asked[f] > 0 /\ \A i \in DOMAIN new_demands[PARTITION_OF(f[1])] : new_demands[PARTITION_OF(f[1])][i] # f

PimNext ==
    \/ \E f \in Flows, amount \in 1 .. MAX_DEMAND : pim_add_backlog(f, amount)
    \/ pim_flush_backlog
    \/ Started /\ \E p \in Partitions : Step(p)

\* Up to three flows ask once, for one packet or for more than a batch.
SjfNext ==
    \/ \E f \in SjfFlows, increase \in {1, SJF_DEMAND} :
         /\ s_asked[f] = 0 /\ Cardinality({g \in SjfFlows : s_asked[g] > 0}) < 3
         /\ S!add_backlog(f, increase)
    \/ \E c \in S!Cores : S!Step(c)

\* Every timeslot is out, every packet has a path, every split is done, every gap was looked at.
Finished ==
    /\ \/ which = "pim" /\ \A p \in Partitions : Len(q_admitted_out[p]) = MAX_SLOTS
       \/ which = "sjf" /\ \A c \in S!Cores : s_stage[c] = "idle" /\ batch[c] >= MAX_BATCHES
       \/ which = "paths" /\ step = "done"
       \/ which = "colours" /\ K!KrDone
       \/ which = "bins" /\ gap = MAX_GAP
    /\ UNCHANGED <<vars, s_vars, path_vars, kr_vars, gap>>

MCNext ==
    /\ UNCHANGED which
    /\ \/ which = "pim" /\ PimNext /\ UNCHANGED <<s_vars, path_vars, kr_vars, gap>>
       \/ which = "sjf" /\ SjfNext /\ UNCHANGED <<vars, path_vars, kr_vars, gap>>
       \/ which = "paths" /\ P!Next /\ UNCHANGED <<vars, s_vars, kr_vars, gap>>
       \/ which = "colours" /\ K!KrNext /\ UNCHANGED <<vars, s_vars, path_vars, gap>>
       \/ which = "bins" /\ gap < MAX_GAP /\ gap' = gap + 1 /\ UNCHANGED <<vars, s_vars, path_vars, kr_vars>>
       \/ Finished

MCSpec == MCInit /\ [][MCNext]_<<vars, s_vars, path_vars, kr_vars, gap, which>>

\* The shortest-job-first cores together are an allocator (SjfAllocator).
SjfAllocates == S!SjfAllocates

\* Path selection never scans an empty bitmap and gives no path more than its share (PathSelection).
PathsSound == which = "paths" => P!PathsSound

\* The planned splits end in d + 1 matchings (KapoorRizzi).
KrSolves == which = "colours" => K!KrSolves

\* Where one folded bin ends and an older one begins, by the comment in bin_index_from_timeslot: the
\* bins of group g are 2^(g+1) gaps wide, and the last group ends at BATCH_SHIFT * BATCH_SIZE
Boundary(o) == o % 2^(o \div 16 + 1) = 0

\* A flow's bin is the number of bins older than its own: the bit masks of bin_index_from_timeslot fold
\* BATCH_SIZE timeslots 2-to-1, the next BATCH_SIZE 4-to-1 and so on, and leave neither a gap nor an
\* overlap between the bins.
FoldedBins ==
    B!bin_of_gap(gap) = IF gap <= 32 THEN Cardinality(B!Bin) - 1 - gap
                        ELSE Cardinality({o \in gap - 32 .. 4 * 16 : Boundary(o)})
=============================================================================
