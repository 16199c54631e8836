------------------------------ MODULE MCParts ------------------------------
(***************************************************************************)
(* The small components for TLC.  A behaviour is one of a single part,     *)
(* that `part' names, while the others stay in their initial states, and   *)
(* fairness is that of the part at work.                                   *)
(*                                                                         *)
(*   pacer    a bucket of two and a half events                            *)
(*   window   three words of four bits, the smallest ring in which a bulk  *)
(*            mark has a word strictly inside it                           *)
(*   wire     packets at every limit of the format                         *)
(*   setup    machines with too few and enough lcores, one or two sockets  *)
(*   load     one module and one qdisc                                     *)
(*   control  three packet descriptors, a window of two                    *)
(*   table    four flows whose hashes share cells at every table size      *)
(***************************************************************************)
EXTENDS Pacer, Window, EndnodeControl, TimeslotTable, TLC

VARIABLES
  part,
  step, input, pd, pkt, got,
  env, at, conf, pools, dev, launched, m_table, handed, freed,
  load, held, unheld, qdisc, rcu

wire_vars == <<step, input, pd, pkt, got>>
setup_vars == <<env, at, conf, pools, dev, launched, m_table, handed, freed>>
load_vars == <<load, held, unheld, qdisc, rcu>>

-----------------------------------------------------------------------------
(* What the parts are instantiated with.                                   *)

MCResetHeads == {0, 5, 11}
MCAmounts == {1, 2, 5, 8, 13}

run(t, n, gap, k) == [i \in 1 .. n |-> <<t + gap * i, 10 * (i % k)>>]

\* Allocations that meet the limits of 15 destinations and 64 timeslots, and short ones that skip.
Long ==
  {run(1048500, n, 1, k) : n \in {14, 15, 16, 31, 62, 63, 64, 100}, k \in {1, 2, 14, 15, 16}}
    \cup {run(1048500, 11, 17, k) : k \in {1, 2, 11}}
    \cup {run(1048500, 94, 2, 16), run(1048500, 64, 3, 15)}

Short ==
  {<< <<t, 1>>, <<t + g, e>>, <<t + g + h, f>> >> :
     t \in 1048575 .. 1048577, g \in {1, 15, 16, 17, 95}, h \in {1, 16, 17, 32, 33, 95},
     e \in {1, 2, 16385}, f \in {1, 2}}

reports(n) == [i \in 1 .. n |-> <<i, 65530 + 2 * i>>]

\* Timestamps of which the lower 56 bits are about to wrap, or have just done so
MCTimes == {<<6399, 65535, 65535, 65000>>, <<6400, 0, 0, 17>>}

MCHashOf(t) == <<(t[2] + 7 * t[4]) % 65536, (t[1] + 3 * t[3]) % 65536>>

\* The distances of the end node's clock: none, and the largest and smallest below 2^55
MCClocks == {<<0, 0, 0, 0>>, <<128, 0, 0, 0>>, <<65408, 0, 0, 1>>}

MCPlaces ==
  {[send_reset |-> TRUE, sent |-> s, received |-> 0, out |-> 5, acked |-> a] :
     s \in {1, 2, 65536, 65537}, a \in {0, 65535, 65536}}
  \cup {[send_reset |-> FALSE, sent |-> 90000 + s, received |-> 90000, out |-> 70000, acked |-> 70000 - a] :
     s \in {-16385, -16384, 0, 1, 49151, 49152}, a \in {0, 65535, 65536}}

numbers(place, t, d) ==
  [send_reset |-> place.send_reset, sent |-> place.sent, received |-> place.received,
   out |-> place.out, acked |-> place.acked, reset_time |-> t,
   now |-> LET carry[i \in 1 .. 4] == IF i = 4 THEN 0 ELSE (t[i + 1] + d[i + 1] + carry[i + 1]) \div 65536
           IN  [i \in 1 .. 4 |-> (t[i] + d[i] + carry[i]) % 65536]]

usual(reset) ==
  numbers([send_reset |-> reset, sent |-> 3, received |-> 2, out |-> 1, acked |-> 1],
          <<6399, 65535, 65535, 65000>>, <<0, 0, 0, 1000>>)

content(p, r, current) == [pending |-> p, reports |-> r, current |-> current]

MCInputs ==
  {content(p, reports(n), 1048500) @@ usual(r) : p \in Long, n \in {0, 12}, r \in BOOLEAN}
  \cup {content(<<>>, reports(1), 5) @@ numbers(x, t, d) : x \in MCPlaces, t \in MCTimes, d \in MCClocks}
  \cup {content(<<>>, reports(n), 5) @@ usual(r) : n \in {0, 1, 12}, r \in BOOLEAN}
  \cup {content(p, <<>>, p[1][1] + c) @@ usual(FALSE) : p \in Short, c \in {-786432, 262128}}

MCMachines ==
  {[lcores |-> l, socket |-> [c \in 0 .. 5 |-> IF c \in far THEN 1 ELSE 0], port_mask |-> m,
    dev_count |-> d, numa_on |-> numa, network |-> b[1], stress_test |-> ~b[1],
    n_controller_ports |-> b[2], n_admission |-> 2, n_path_sel |-> ps, n_log |-> 1] :
     l \in {0 .. 5, {1, 3, 4, 5}, 1 .. 2}, far \in {{}, {0, 1, 3}}, m \in {{1}, {0, 2}, 0 .. 1},
     d \in {2, 3}, numa \in BOOLEAN, b \in {<<TRUE, 1>>, <<TRUE, 2>>, <<FALSE, 0>>}, ps \in {0, 1}}

MCHash == <<0, 3, 6, 7>>

MCRequests ==
  {[log |-> l, limit |-> c, rate |-> c, mul |-> len[1], shift |-> len[2]] :
     l \in 0 .. 4, c \in 0 .. 1, len \in {<<-1, -1>>, <<-1, 2>>, <<0, -1>>, <<2, 2>>}}

Wi == INSTANCE Wire WITH Inputs <- MCInputs, time_hash <- MCHashOf
Se == INSTANCE ArbiterSetup
        WITH Machines <- MCMachines, NB_SOCKETS <- 2, MAX_RX_QUEUE_PER_LCORE <- 2,
             MAX_RX_QUEUE_PER_PORT <- 2, MAX_TX_QUEUE_PER_PORT <- 5, MAX_PKT_BURST <- 2,
             BATCH_SIZE <- 2, MAX_MBUFS <- 3
Lo == INSTANCE EndnodeLoad WITH MAX_RCU <- 2

-----------------------------------------------------------------------------
fresh == CHOOSE d \in Descs : d \notin live \/ live = Descs

\* Descriptors are interchangeable: a new one is always the same of the free ones.
FreshNext == ControlNext /\ live' \ live \subseteq {fresh}

\* A part that does not move waits in one of its initial states.
MCInit ==
  /\ part \in {"pacer", "window", "wire", "setup", "load", "control", "table"}
  /\ head \in IF part = "window" THEN RESET_HEADS ELSE {0}
  /\ input \in IF part = "wire" THEN MCInputs ELSE {CHOOSE i \in MCInputs : i.pending = <<>>}
  /\ env \in IF part = "setup" THEN MCMachines ELSE {CHOOSE e \in MCMachines : ~e.network}
  /\ hash_tbl_log \in IF part = "table" THEN 1 .. MAX_LOG ELSE {1}
  /\ Init /\ WindowInit /\ ControlInit /\ TableInit
  /\ Wi!WireInit /\ Se!SetupInit /\ Lo!LoadInit

MCNext ==
  /\ UNCHANGED part
  /\ \/ /\ part = "pacer" /\ Next
        /\ UNCHANGED <<windowvars, controlvars, wire_vars, setup_vars, load_vars, tablevars>>
     \/ /\ part = "window" /\ WindowNext
        /\ UNCHANGED <<vars, controlvars, wire_vars, setup_vars, load_vars, tablevars>>
     \/ /\ part = "wire" /\ Wi!WireNext
        /\ UNCHANGED <<vars, windowvars, controlvars, setup_vars, load_vars, tablevars>>
     \/ /\ part = "setup" /\ Se!SetupNext
        /\ UNCHANGED <<vars, windowvars, controlvars, wire_vars, load_vars, tablevars>>
     \/ /\ part = "load" /\ Lo!LoadNext
        /\ UNCHANGED <<vars, windowvars, controlvars, wire_vars, setup_vars, tablevars>>
     \/ /\ part = "control" /\ FreshNext
        /\ UNCHANGED <<vars, windowvars, wire_vars, setup_vars, load_vars, tablevars>>
     \/ /\ part = "table" /\ TableNext
        /\ UNCHANGED <<vars, windowvars, controlvars, wire_vars, setup_vars, load_vars>>

MCFairness ==
  /\ WF_controlvars(part = "control" /\ SenderNext)
  /\ WF_controlvars(part = "control" /\ retrans_tasklet_func)
  /\ \A c \in Cpus : WF_controlvars(part = "control" /\ RxNext(c))
  /\ WF_controlvars(part = "control" /\ StopNext)

mc_vars == <<part, vars, windowvars, controlvars, wire_vars, setup_vars, load_vars, tablevars>>

MCSpec == MCInit /\ [][MCNext]_mc_vars /\ MCFairness

-----------------------------------------------------------------------------
\* What fpproto_perform_rx_callbacks is given is what fill_packet filled in (Wire).
ShownAsFilled == part = "wire" => Wi!ShownAsFilled

\* Ports and queues are set up as main.h uses them, and every role has an lcore of its own (ArbiterSetup).
SetupSound == part = "setup" => Se!SetupSound

\* Error paths and teardown give back what was taken, once (EndnodeLoad).
Unwound == part = "load" => Lo!Unwound
=============================================================================
