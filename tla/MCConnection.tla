---------------------------- MODULE MCConnection ----------------------------
(***************************************************************************)
(* Two sides of a connection for TLC: FpReset, and the arbiter's CommCore. *)
(* A behaviour is one of one of them while the other stays in its initial  *)
(* state.                                                                  *)
(*                                                                         *)
(* FpReset has two scenarios: two packets in the network and no end of the *)
(* trouble ("suffers"), or two CPUs that receive one packet each and calm  *)
(* in the end ("recovers").  The end node's reset window is twice the      *)
(* controller's, as in the code.  CommCore ("comm") has two end nodes on   *)
(* wheels of two slots.                                                    *)
(***************************************************************************)
EXTENDS FpReset, TLC

CONSTANTS n1, n2, d1, d2,
          LATEST     \* bound: watchdog packets come from the network before this time

VARIABLES
  part,
  comm_clock, pc, comm_now, saw_watchdog, lst, timeout_timers, tx_timers, end_nodes, last_rx_watchdog

comm_vars == <<comm_clock, pc, comm_now, saw_watchdog, lst, timeout_timers, tx_timers, end_nodes,
               last_rx_watchdog>>
mc_vars == <<reset_vars, comm_vars, part>>

MCRstWin == [i \in Sides |-> IF i = ENDPOINT THEN 4 ELSE 2]
NoSkew == [i \in Sides |-> 0]

Co == INSTANCE CommCore
        WITH SLOTS <- 2, GRANULARITY <- 2, Nodes <- {n1, n2}, Dsts <- {d1, d2}, WND <- 2,
             MAX_AREQ <- 1, TIMEOUT <- 2, GAPS <- {1}, I_AM_MASTER <- FALSE, THRESHOLD <- 2,
             WORD <- 64, MAX_TIME <- 4, MAX_ALLOC <- 1, now <- comm_now, clock <- comm_clock

OneCpu == {CHOOSE k \in Cpus : TRUE}

Recovering == part = "recovers" /\ ResetNext /\ Cardinality(net') <= 1

Suffering ==
    /\ part = "suffers" /\ NextOn(OneCpu)
    /\ calm' = NONE /\ \A i \in Sides : conn'[i].span # AHEAD

TimeUp ==
    /\ part # "comm" /\ clock = (IF part = "recovers" THEN CLOCK_END ELSE CHAOS_END)
    /\ UNCHANGED reset_vars

given(n, d) == end_nodes[n].alloc_to_dst[d] > 0

\* Only n1 receives packets.  Either n1 has a second destination or n2 has one, and watchdog
\* packets come from the network before that.
CommNext ==
    \/ Co!Tick \/ Co!enter_watchdog_loop
    \/ comm_clock < LATEST /\ ~given(n1, d2) /\ ~given(n2, d1) /\ Co!comm_rx_watchdog
    \/ Co!get_expired_timeouts \/ Co!handle_timeout \/ Co!get_expired_tx \/ Co!tx_end_node
    \/ Co!next_iteration \/ Co!watchdog_loop \/ Co!watchdog_rx \/ Co!watchdog_end
    \/ Co!comm_rx(n1)
    \/ Co!process_allocated_traffic(n1, d1)
    \/ ~given(n2, d1) /\ Co!process_allocated_traffic(n1, d2)
    \/ ~given(n1, d2) /\ Co!process_allocated_traffic(n2, d1)

MCInit ==
    /\ part \in {"suffers", "recovers", "comm"} /\ ResetInit /\ Co!CommInit
    /\ part = "comm" => \A i \in Sides : conn[i].last_reset_time = START

MCNext ==
    /\ UNCHANGED part
    /\ \/ (Recovering \/ Suffering \/ TimeUp) /\ UNCHANGED comm_vars
       \/ part = "comm" /\ CommNext /\ UNCHANGED reset_vars

MCSpec == MCInit /\ [][MCNext]_mc_vars

-----------------------------------------------------------------------------
\* Walking a wheel of timers misses none that is due (CommCore).
NoneMissed == [][part = "comm" => Co!none_left]_comm_vars

\* Nothing of the communication core waits for a timer that is not set (CommCore).
Armed == part = "comm" => Co!Armed

\* The total allocated to a destination is never forgotten (CommCore).
ReportPending == part = "comm" => Co!ReportPending

\* "No watchdog too long": a backup takes over only after the threshold (CommCore).
FiresOnlyLate == Co!FiresOnlyLate
=============================================================================
