---------------------------- MODULE ArbiterSetup ----------------------------
(***************************************************************************)
(* How the arbiter comes up (src/src/arbiter/main.c, control.c) and how    *)
(* its communication core hands packets to the ports (main.h).             *)
(*                                                                         *)
(* main runs one function after the other on the master lcore: it lists    *)
(* the enabled lcores and ports, allocates a transmit queue of every port  *)
(* to every lcore and the receive queues to the first lcore, creates the   *)
(* packet pools, sets the devices up, and launches one role per lcore.     *)
(* Then the communication core queues packets and sends them in bursts.    *)
(* Any call of the DPDK library may fail, and the program then exits.      *)
(***************************************************************************)
EXTENDS Integers, Sequences, FiniteSets, SequencesExt

CONSTANTS Machines,                \* the machines and builds considered, as records
          NB_SOCKETS, MAX_RX_QUEUE_PER_LCORE, MAX_RX_QUEUE_PER_PORT,
          MAX_TX_QUEUE_PER_PORT, MAX_PKT_BURST,
          BATCH_SIZE,
          MAX_MBUFS                \* packets the communication core makes

VARIABLES env,        \* the machine: rigid
          at,         \* where main is, with the index of its loop
          conf,       \* enabled_lcore, enabled_port, lcore_conf and port_info
          pools,      \* sockets with an RX and a TX packet pool
          dev,        \* the devices, as DPDK sees them
          launched,   \* <<lcore, role, argument>> in the order of initialisations and launches
          m_table,    \* tx_mbufs[port] of the communication core's lcore_conf
          handed,     \* packets given to a device: <<port, queue, packet>>
          freed       \* packets given back to their pool

setupvars == <<env, at, conf, pools, dev, launched, m_table, handed, freed>>
netvars == <<m_table, handed, freed>>

INVALID_PORT_QUEUEID == 255
SOME_TIMESLOT == 100          \* first_time_slot, from the clock

(* The core indices of control.h.                                          *)
N_COMM_CORES == 1
FIRST_COMM_CORE == 0
FIRST_ADMISSION_CORE == FIRST_COMM_CORE + N_COMM_CORES
FIRST_PATH_SEL_CORE == FIRST_ADMISSION_CORE + env.n_admission

FIRST_LOG_CORE == FIRST_PATH_SEL_CORE + env.n_path_sel

needed == env.n_admission + N_COMM_CORES + env.n_log + env.n_path_sel

n_enabled_lcore == Len(conf.enabled_lcore)
n_enabled_port == Len(conf.enabled_port)

(* A C array read: entries never written are 0, as in static storage.      *)
enabled_lcore(i) == IF i < n_enabled_lcore THEN conf.enabled_lcore[i + 1] ELSE 0
enabled_port(i) == conf.enabled_port[i + 1]

socket_of(lcore) == IF env.numa_on THEN env.socket[lcore] ELSE 0

goto(where) == at' = <<where, 0>>
rte_exit == goto("exit")
-----------------------------------------------------------------------------
conf_init ==
  /\ at[1] = "conf_init"
  /\ LET ls == SetToSortSeq(env.lcores, <)
         ps == SetToSortSeq(env.port_mask, <)
     IN conf' = [enabled_lcore |-> ls,
                 enabled_port |-> ps,
                 enabled_ind |-> [c \in env.lcores |-> CHOOSE i \in 0 .. Len(ls) - 1 : ls[i + 1] = c],
                 tx_queue_id |-> [c \in env.lcores |->
                                    [p \in env.port_mask |-> INVALID_PORT_QUEUEID]],
                 rx_queue_list |-> [c \in env.lcores |-> << >>],
                 n_rx_queue |-> [p \in env.port_mask |-> 0],
                 n_tx_queue |-> [p \in env.port_mask |-> 0]]
  /\ goto("queues")
  /\ UNCHANGED <<env, pools, dev, launched, netvars>>

(* What conf_alloc_rx_queue and conf_alloc_tx_queue return.                *)
alloc_rx_ret(lcore, portid) ==
  CASE Len(conf.rx_queue_list[lcore]) >= MAX_RX_QUEUE_PER_LCORE -> -1
    [] portid \notin env.port_mask -> -2
    [] conf.n_rx_queue[portid] >= MAX_RX_QUEUE_PER_PORT -> -3
    [] OTHER -> 0

conf_alloc_rx_queue(lcore, portid) ==
  [conf EXCEPT !.rx_queue_list[lcore] = Append(@, <<portid, conf.n_rx_queue[portid]>>),
               !.n_rx_queue[portid] = @ + 1]

alloc_tx_ret(lcore, portid) ==
  CASE conf.tx_queue_id[lcore][portid] # INVALID_PORT_QUEUEID -> -1
    [] portid \notin env.port_mask -> -2
    [] conf.n_tx_queue[portid] >= MAX_TX_QUEUE_PER_PORT -> -3
    [] OTHER -> 0

conf_alloc_tx_queue(lcore, portid) ==
  [conf EXCEPT !.tx_queue_id[lcore][portid] = conf.n_tx_queue[portid],
               !.n_tx_queue[portid] = @ + 1]

(* The checks at the head of control_do_queue_allocation.                  *)
control_do_queue_allocation ==
  /\ at[1] = "queues"
  /\ IF ~env.network THEN goto("init_mem")
     ELSE IF n_enabled_lcore < needed \/ n_enabled_port < env.n_controller_ports THEN rte_exit
     ELSE goto("tx_queues")
  /\ UNCHANGED <<env, conf, pools, dev, launched, netvars>>

(* The lcore and the port of the k-th call in the loop over TX queues.     *)
mut_tx_call(k) == <<enabled_lcore(n_enabled_lcore - 1 - k \div n_enabled_port), enabled_port(k % n_enabled_port)>>

tx_call(k) == <<enabled_lcore(k \div n_enabled_port), enabled_port(k % n_enabled_port)>>

(* The loop over TX queues; a failed call makes main exit.                 *)
allocate_tx_queues ==
  /\ at[1] = "tx_queues"
  /\ UNCHANGED <<env, pools, dev, launched, netvars>>
  /\ IF at[2] = n_enabled_lcore * n_enabled_port
     THEN goto("rx_queues") /\ UNCHANGED conf
     ELSE LET c == tx_call(at[2]) IN
          IF alloc_tx_ret(c[1], c[2]) # 0 THEN rte_exit /\ UNCHANGED conf
          ELSE conf' = conf_alloc_tx_queue(c[1], c[2]) /\ at' = <<"tx_queues", at[2] + 1>>

(* The loop over the controller's ports: their RX queues go to lcore 0.    *)
allocate_rx_queues ==
  /\ at[1] = "rx_queues"
  /\ UNCHANGED <<env, pools, dev, launched, netvars>>
  /\ IF at[2] = env.n_controller_ports THEN goto("init_mem") /\ UNCHANGED conf
     ELSE IF alloc_rx_ret(enabled_lcore(0), enabled_port(at[2])) # 0 THEN rte_exit /\ UNCHANGED conf
     ELSE /\ conf' = conf_alloc_rx_queue(enabled_lcore(0), enabled_port(at[2]))
          /\ at' = <<"rx_queues", at[2] + 1>>
-----------------------------------------------------------------------------
(* One turn of init_mem's loop over the lcores: the pools of its socket.   *)
init_mem ==
  /\ at[1] = "init_mem"
  /\ UNCHANGED <<env, conf, dev, launched, netvars>>
  /\ IF env.n_controller_ports = 0 \/ at[2] = n_enabled_lcore
     THEN goto("ports") /\ UNCHANGED pools
     ELSE LET s == socket_of(enabled_lcore(at[2])) IN
          \/ s < NB_SOCKETS /\ pools' = pools \cup {s} /\ at' = <<"init_mem", at[2] + 1>>
          \/ (s >= NB_SOCKETS \/ s \notin pools) /\ rte_exit /\ UNCHANGED pools

(* The queues rte_eth_tx_queue_setup is called for on a port, in order.    *)
tx_setups(portid) ==
  SelectSeq([i \in 1 .. n_enabled_lcore |-> conf.tx_queue_id[enabled_lcore(i - 1)][portid]],
            LAMBDA q : q # INVALID_PORT_QUEUEID)

(* conf_setup: configure the ports and their TX queues, port by port.      *)
setup_ports ==
  /\ at[1] = "ports"
  /\ UNCHANGED <<env, conf, pools, launched, netvars>>
  /\ IF \A p \in env.port_mask : conf.n_rx_queue[p] + conf.n_tx_queue[p] = 0
     THEN goto("launch") /\ UNCHANGED dev
     ELSE IF at[2] = n_enabled_port THEN goto("rx_setup") /\ UNCHANGED dev
     ELSE LET p == enabled_port(at[2]) IN
          \/ /\ p < env.dev_count
             /\ dev' = [dev EXCEPT ![p] = [n_rx |-> conf.n_rx_queue[p], n_tx |-> conf.n_tx_queue[p],
                                           tx |-> tx_setups(p), rx |-> << >>, started |-> FALSE]]
             /\ at' = <<"ports", at[2] + 1>>
          \/ rte_exit /\ UNCHANGED dev

(* The RX queues of one lcore, each with the pool of the lcore's socket.   *)
setup_rx_queues ==
  /\ at[1] = "rx_setup"
  /\ UNCHANGED <<env, conf, pools, launched, netvars>>
  /\ IF at[2] = n_enabled_lcore THEN goto("start") /\ UNCHANGED dev
     ELSE LET c == enabled_lcore(at[2])
              of(p) == SelectSeq(conf.rx_queue_list[c], LAMBDA e : e[1] = p)
          IN \/ /\ dev' = [p \in DOMAIN dev |->
                             [dev[p] EXCEPT !.rx = @ \o [i \in 1 .. Len(of(p)) |-> <<of(p)[i][2], socket_of(c)>>]]]
                /\ at' = <<"rx_setup", at[2] + 1>>
             \/ conf.rx_queue_list[c] # << >> /\ rte_exit /\ UNCHANGED dev

start_ports ==
  /\ at[1] = "start"
  /\ \/ dev' = [p \in DOMAIN dev |-> [dev[p] EXCEPT !.started = TRUE]] /\ goto("launch")
     \/ rte_exit /\ UNCHANGED dev
  /\ UNCHANGED <<env, conf, pools, launched, netvars>>
-----------------------------------------------------------------------------
launch(lcore, role, arg) == Append(launched, <<lcore, role, arg>>)

(* The ring the last stage of the pipeline is read from.                   *)
q_allocated == IF env.n_path_sel > 0 THEN "q_path_selected" ELSE "q_admitted"

(* The global structures of the communication and the admission cores and  *)
(* the two rings; without any one of them the program exits.               *)
launch_init ==
  /\ at[1] = "launch"
  /\ \/ goto("path_sel") /\ launched' = launch(enabled_lcore(0), "init", SOME_TIMESLOT)
     \/ rte_exit /\ UNCHANGED launched
  /\ UNCHANGED <<env, conf, pools, dev, netvars>>

launch_path_sel_core ==
  /\ at[1] = "path_sel"
  /\ goto("admission_init")
  /\ launched' = IF env.n_path_sel > 0
                 THEN launch(enabled_lcore(FIRST_PATH_SEL_CORE), "path_sel", "q_path_selected")
                 ELSE launched
  /\ UNCHANGED <<env, conf, pools, dev, netvars>>

(* The admission cores are initialised, all before the first is launched.  *)
admission_init_core ==
  /\ at[1] = "admission_init"
  /\ IF at[2] = env.n_admission THEN goto("admission") /\ UNCHANGED launched
     ELSE /\ at' = <<"admission_init", at[2] + 1>>
          /\ launched' = launch(enabled_lcore(FIRST_ADMISSION_CORE + at[2]), "admission_init", 0)
  /\ UNCHANGED <<env, conf, pools, dev, netvars>>

start_timeslot(i) == SOME_TIMESLOT + i * BATCH_SIZE

launch_admission_core ==
  /\ at[1] = "admission"
  /\ IF at[2] = env.n_admission THEN goto("log") /\ UNCHANGED launched
     ELSE /\ at' = <<"admission", at[2] + 1>>
          /\ launched' = launch(enabled_lcore(FIRST_ADMISSION_CORE + at[2]), "admission",
                                start_timeslot(at[2]))
  /\ UNCHANGED <<env, conf, pools, dev, netvars>>

launch_log_core ==
  /\ at[1] = "log"
  /\ goto("comm")
  /\ launched' = IF env.n_log > 0 THEN launch(enabled_lcore(FIRST_LOG_CORE), "log", 0) ELSE launched
  /\ UNCHANGED <<env, conf, pools, dev, netvars>>

(* launch_comm_cores runs the communication core on the master lcore.      *)
launch_comm_cores ==
  /\ at[1] = "comm"
  /\ ~env.stress_test
  /\ goto("running")
  /\ launched' = launch(enabled_lcore(0), "comm", q_allocated)
  /\ UNCHANGED <<env, conf, pools, dev, netvars>>

launch_stress_test_cores ==
  /\ at[1] = "comm"
  /\ env.stress_test
  /\ goto("stress")
  /\ launched' = launch(enabled_lcore(0), "stress", q_allocated)
  /\ UNCHANGED <<env, conf, pools, dev, netvars>>
-----------------------------------------------------------------------------
(* The queue a core sends on is its index among the enabled cores, not the *)
(* tx_queue_id that conf_alloc_tx_queue gave it.                           *)
queueid(lcore) == conf.enabled_ind[lcore]

packets(port, table) == [i \in 1 .. Len(table) |-> <<port, queueid(enabled_lcore(0)), table[i]>>]
made == Len(handed) + Len(freed) + Len(FlattenSeq([i \in 1 .. n_enabled_port |-> m_table[enabled_port(i - 1)]]))

(* The device takes the first ret packets, the others are freed.           *)
send_queued_packets(port, table) ==
  \E ret \in 0 .. Len(table) :
    /\ handed' = handed \o packets(port, SubSeq(table, 1, ret))
    /\ freed' = freed \o SubSeq(table, ret + 1, Len(table))
    /\ m_table' = [m_table EXCEPT ![port] = << >>]

send_packet_via_queue(port) ==
  /\ at[1] = "running" /\ made < MAX_MBUFS
  /\ LET table == Append(m_table[port], made + 1) IN
     IF Len(table) = MAX_PKT_BURST THEN send_queued_packets(port, table)
     ELSE m_table' = [m_table EXCEPT ![port] = table] /\ UNCHANGED <<handed, freed>>
  /\ UNCHANGED <<env, at, conf, pools, dev, launched>>

(* The flush of a port's table at the end of the communication core's loop *)
(* and in its watchdog loop.                                               *)
flush_port(port) ==
  /\ at[1] = "running" /\ m_table[port] # << >>
  /\ send_queued_packets(port, m_table[port])
  /\ UNCHANGED <<env, at, conf, pools, dev, launched>>

(* Arp, igmp and watchdog packets are not queued.                          *)
burst_single_packet(port) ==
  /\ at[1] = "running" /\ made < MAX_MBUFS
  /\ \/ handed' = handed \o packets(port, <<made + 1>>) /\ UNCHANGED freed
     \/ freed' = Append(freed, made + 1) /\ UNCHANGED handed
  /\ UNCHANGED <<env, at, conf, pools, dev, launched, m_table>>
-----------------------------------------------------------------------------
NoQueues == [n_rx |-> 0, n_tx |-> 0, tx |-> << >>, rx |-> << >>, started |-> FALSE]

SetupInit ==
  /\ env \in Machines
  /\ at = <<"conf_init", 0>>
  /\ conf = [enabled_lcore |-> << >>, enabled_port |-> << >>]
  /\ pools = {}
  /\ dev = [p \in env.port_mask |-> NoQueues]
  /\ launched = << >>
  /\ m_table = [p \in env.port_mask |-> << >>]
  /\ handed = << >>
  /\ freed = << >>

SetupNext ==
  \/ conf_init \/ control_do_queue_allocation \/ allocate_tx_queues \/ allocate_rx_queues
  \/ init_mem \/ setup_ports \/ setup_rx_queues \/ start_ports
  \/ launch_init \/ launch_path_sel_core \/ admission_init_core \/ launch_admission_core
  \/ launch_log_core \/ launch_comm_cores \/ launch_stress_test_cores
  \/ \E p \in env.port_mask : send_packet_via_queue(p) \/ flush_port(p) \/ burst_single_packet(p)

SetupSpec == SetupInit /\ [][SetupNext]_setupvars
-----------------------------------------------------------------------------
Once(s, S) == IsInjective(s) /\ ToSet(s) = S

(* Every device the communication core sends on or polls is ready for it   *)
(* (main.h, burst_single_packet and send_queued_packets; main.c,           *)
(* conf_setup). The port was started with each of its queues set up exactly *)
(* once, each receive queue with a pool that exists and polled by the core. *)
(* The core sends on the queue with its own index, which is the one         *)
(* allocated to it and to no other lcore. Its packets come from a pool that *)
(* exists, unless the machine is run without NUMA awareness and the core is *)
(* on another socket, which conf_init only warns about. Every packet is at  *)
(* one place: in the table, with a device, or freed.                        *)
PortsReady ==
  at[1] = "running" =>
    LET core == enabled_lcore(0) IN
    /\ \A p \in env.port_mask :
         /\ dev[p].started
         /\ Once(dev[p].tx, 0 .. dev[p].n_tx - 1)
         /\ Once([i \in 1 .. Len(dev[p].rx) |-> dev[p].rx[i][1]], 0 .. dev[p].n_rx - 1)
         /\ \A i \in 1 .. Len(dev[p].rx) : dev[p].rx[i][2] \in pools
         /\ \A c \in env.lcores : (conf.tx_queue_id[c][p] = queueid(core)) <=> (c = core)
         /\ \A q \in 0 .. dev[p].n_rx - 1 : \E i \in 1 .. Len(conf.rx_queue_list[core]) :
              conf.rx_queue_list[core][i] = <<p, q>>
    /\ \A i \in 1 .. Len(handed) : handed[i][2] < dev[handed[i][1]].n_tx
    /\ env.numa_on \/ env.socket[core] = 0 => env.socket[core] \in pools
    /\ LET queued == FlattenSeq([i \in 1 .. n_enabled_port |-> m_table[enabled_port(i - 1)]])
           sent == [i \in 1 .. Len(handed) |-> handed[i][3]]
       IN Once(queued \o sent \o freed, 1 .. made)

(* Every launched core runs one role, on an lcore of its own, after the    *)
(* structures it uses were initialised; the admission cores' batches tile   *)
(* the timeslots; and the last core reads the ring the pipeline ends in     *)
(* (control.c, launch_cores). A build without network does not compare the  *)
(* number of enabled lcores with the number of roles, so there it holds     *)
(* when there are enough of them.                                          *)
OwnCores ==
  env.network \/ Cardinality(env.lcores) >= needed =>
    /\ \A i, j \in 1 .. Len(launched) :
         {launched[i][2], launched[j][2]} \cap {"init", "admission_init"} = {} =>
           (i # j => launched[i][1] # launched[j][1])
    /\ \A i \in 1 .. Len(launched) :
         /\ launched[i][1] \in env.lcores
         /\ (launched[i][2] = "init") <=> (i = 1)
         /\ launched[i][2] = "admission" =>
              \A c \in 0 .. env.n_admission - 1 : \E j \in 1 .. i - 1 :
                launched[j][1] = enabled_lcore(FIRST_ADMISSION_CORE + c) /\ launched[j][2] = "admission_init"
         /\ launched[i][2] \in {"comm", "stress"} =>
              /\ launched[i][1] = enabled_lcore(0)
              /\ launched[i][3] = "q_path_selected" <=>
                   \E j \in 1 .. i : launched[j][2] = "path_sel"
    /\ at[1] \in {"running", "stress"} =>
         LET started == {launched[i][3] : i \in {i \in 1 .. Len(launched) : launched[i][2] = "admission"}}
         IN \A t \in 0 .. env.n_admission * BATCH_SIZE - 1 :
              Cardinality({s \in started : t \in (s - SOME_TIMESLOT) .. (s - SOME_TIMESLOT) + BATCH_SIZE - 1}) = 1

(* The arbiter starts as its cores assume: PortsReady and OwnCores.        *)
SetupSound == PortsReady /\ OwnCores
=============================================================================
