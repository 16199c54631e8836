---------------------------- MODULE EndnodeLoad ----------------------------
(***************************************************************************)
(* Loading and unloading of the end node's kernel module, and creation and *)
(* destruction of its queueing discipline: which kernel objects each       *)
(* function acquires, which of them it gives back when a later step fails, *)
(* and what it returns (kernel-mod/sch_fastpass.c, sch_timeslot.c and      *)
(* fastpass_proto.c).                                                      *)
(*                                                                         *)
(* Every acquisition may fail.  A function is an operator on the objects   *)
(* held and the objects released without being held; `fail' is the object  *)
(* that cannot be had in this call, or "none".  The kernel runs these      *)
(* functions one at a time (module loading and the rtnl lock).             *)
(*                                                                         *)
(* The enqueue tasklet is held while it is scheduled.  The qdisc's         *)
(* watchdog is initialised and cancelled but never scheduled, and is no    *)
(* object here.                                                            *)
(***************************************************************************)
EXTENDS Integers, FiniteSets

CONSTANT MAX_RCU    \* hash tables whose RCU callback may be pending at once

VARIABLES
  load,       \* "no", "yes", "failed" (init failed but returned >= 0) or "oops"
  held,       \* the kernel objects that are allocated or registered
  unheld,     \* objects released while they were not held
  qdisc,      \* is there a queueing discipline
  rcu         \* number of pending tsq_rcu_free callbacks

loadvars == <<load, held, unheld, qdisc, rcu>>

hashinfo_parts == {"ehash", "ehash_locks"}
protocol_parts ==
  hashinfo_parts \cup {"pktdesc_cache", "prot", "inet_protocol", "protosw"}
tsq_parts == {"proc_tsq", "dst_cache", "skb_q_cache"}
module_parts ==
  protocol_parts \cup tsq_parts \cup {"proc_fastpass", "tsq_entry", "qdisc_ops"}
table_parts == {"hash_tbl_cleanup", "dst_hash_tbl"}
timer_parts == {"maintenance_timer", "retrans_timer"}
qdisc_parts ==
  {"tsq_proc_entry", "proc_entry", "conn", "ctrl_sock", "hashed"} \cup table_parts \cup timer_parts
-----------------------------------------------------------------------------
(* The outcome of a function: the objects held and wrongly released, and   *)
(* the value returned (0 for success, as in the kernel).                   *)
outcome(h, u, r) == [held |-> h, unheld |-> u, ret |-> r]
get(s, r) == outcome(s.held \cup {r}, s.unheld, s.ret)
put(s, rs) == outcome(s.held \ rs, s.unheld \cup (rs \ s.held), s.ret)
returns(s, r) == outcome(s.held, s.unheld, r)
ENOMEM == -1
-----------------------------------------------------------------------------
(* fastpass_proto.c *)
init_hashinfo(s, fail) ==
  CASE fail = "ehash" -> returns(s, ENOMEM)
    [] fail = "ehash_locks" -> returns(put(get(s, "ehash"), {"ehash"}), ENOMEM)
    [] OTHER -> returns(get(get(s, "ehash"), "ehash_locks"), 0)

destroy_hashinfo(s) == put(s, hashinfo_parts)

(* A registration that forgets the hash tables when proto_register fails. *)
mut_fpproto_register(s, fail) ==
  LET hash == init_hashinfo(get(s, "pktdesc_cache"), fail)
  IN  CASE fail = "pktdesc_cache" -> returns(s, ENOMEM)
        [] hash.ret # 0 \/ fail = "prot" -> returns(put(hash, {"pktdesc_cache"}), ENOMEM)
        [] fail = "inet_protocol" ->
             returns(put(destroy_hashinfo(hash), {"pktdesc_cache"}), ENOMEM)
        [] OTHER -> get(get(get(hash, "prot"), "inet_protocol"), "protosw")

fpproto_register(s, fail) ==
  LET hash == init_hashinfo(get(s, "pktdesc_cache"), fail)
      prot == get(hash, "prot")
      out_destroy_cache(t) == returns(put(t, {"pktdesc_cache"}), ENOMEM)
      out_destroy_hashinfo(t) == out_destroy_cache(destroy_hashinfo(t))
      out_unregister_proto(t) == out_destroy_hashinfo(put(t, {"prot"}))
  IN  CASE fail = "pktdesc_cache" -> returns(s, ENOMEM)
        [] hash.ret # 0 -> out_destroy_cache(hash)
        [] fail = "prot" -> out_destroy_hashinfo(hash)
        [] fail = "inet_protocol" -> out_unregister_proto(prot)
        [] OTHER -> get(get(prot, "inet_protocol"), "protosw")

fpproto_unregister(s) ==
  put(destroy_hashinfo(put(s, {"protosw", "inet_protocol", "prot"})), {"pktdesc_cache"})

(* A new socket: fpproto_sk_init binds the port and hashes nothing. *)
sock_create(s) == get(s, "ctrl_sock")

(* Closing a socket takes it out of the table of established sockets. *)
fpproto_close(s) == put(s, {"ctrl_sock"} \cup (s.held \cap {"hashed"}))

(* A route is needed to connect; fpproto_rehash then enters the socket in  *)
(* the table where fpproto_rcv looks it up.                                *)
fpproto_connect(s, fail) ==
  IF fail = "hashed" THEN returns(s, ENOMEM) ELSE returns(get(s, "hashed"), 0)
-----------------------------------------------------------------------------
(* sch_timeslot.c, module level *)
tsq_init(s, fail) ==
  LET proc == get(s, "proc_tsq")
      dst == get(proc, "dst_cache")
      out_remove_proc(t) == returns(put(t, {"proc_tsq"}), ENOMEM)
  IN  CASE fail = "proc_tsq" -> returns(s, ENOMEM)
        [] fail = "dst_cache" -> out_remove_proc(proc)
        [] fail = "skb_q_cache" -> out_remove_proc(put(dst, {"dst_cache"}))
        [] OTHER -> returns(get(dst, "skb_q_cache"), 0)

tsq_exit(s) == put(s, tsq_parts)

(* Returns the entry, or NULL: here whether it is held afterwards. *)
tsq_register_qdisc(s, fail) ==
  CASE fail = "tsq_entry" -> s
    [] fail = "qdisc_ops" -> put(get(s, "tsq_entry"), {"tsq_entry"})
    [] OTHER -> get(get(s, "tsq_entry"), "qdisc_ops")

tsq_unregister_qdisc(s) == put(put(s, {"qdisc_ops"}), {"tsq_entry"})
-----------------------------------------------------------------------------
(* sch_fastpass.c, module level.  `ret' holds what in4_pton returned (1)   *)
(* when proc_mkdir fails, and 0 when the address does not parse or the     *)
(* qdisc cannot be registered: these failures are reported as successes.   *)
module_init(s, fail) ==
  LET proc == get(s, "proc_fastpass")
      proto == fpproto_register(proc, fail)
      tsq == tsq_init(proto, fail)
      reg == tsq_register_qdisc(tsq, fail)
      out_remove_proc(t) == put(t, {"proc_fastpass"})
      out_unregister_fpproto(t) == out_remove_proc(fpproto_unregister(t))
  IN  CASE fail = "ctrl_addr" -> returns(s, 0)
        [] fail = "proc_fastpass" -> returns(s, 1)
        [] proto.ret # 0 -> out_remove_proc(proto)
        [] tsq.ret # 0 -> out_unregister_fpproto(tsq)
        [] "tsq_entry" \notin reg.held -> out_unregister_fpproto(tsq_exit(reg))
        [] OTHER -> reg

module_exit(s) ==
  fpproto_unregister(tsq_exit(tsq_unregister_qdisc(put(s, {"proc_fastpass"}))))
-----------------------------------------------------------------------------
(* sch_fastpass.c, one queueing discipline *)
connect_ctrl_socket(s, fail) ==
  LET sock == sock_create(s)
      conn == fpproto_connect(sock, fail)
  IN  CASE fail = "ctrl_sock" -> returns(s, ENOMEM)
        [] conn.ret # 0 -> returns(fpproto_close(conn), conn.ret)
        [] OTHER -> conn

fpq_new_qdisc(s, fail) ==
  LET proc == get(s, "proc_entry")
      sock == connect_ctrl_socket(get(proc, "conn"), fail)
      out_destroy_conn(t) == put(put(t, {"conn"}), {"proc_entry"})
  IN  CASE fail = "proc_entry" -> returns(s, ENOMEM)
        [] sock.ret # 0 -> out_destroy_conn(sock)
        [] OTHER -> get(get(sock, "maintenance_timer"), "retrans_timer")

fpq_stop_qdisc(s) ==
  LET quiet == fpproto_close(put(s, {"maintenance_timer"}))
  IN  put(put(put(quiet, {"conn"}), {"retrans_timer"}), {"proc_entry"})
-----------------------------------------------------------------------------
(* sch_timeslot.c, one queueing discipline.  The label `out' leaves the    *)
(* file under /proc behind.                                                *)
tc_init(s, fail) ==
  LET proc == get(s, "tsq_proc_entry")
      cleanup == get(proc, "hash_tbl_cleanup")
      table == get(cleanup, "dst_hash_tbl")
      new == fpq_new_qdisc(table, fail)
      out_free_cleanup(t) == put(t, {"hash_tbl_cleanup"})
  IN  CASE fail = "tsq_proc_entry" -> returns(s, ENOMEM)
        [] fail = "hash_tbl_cleanup" -> returns(proc, ENOMEM)
        [] fail = "dst_hash_tbl" -> returns(out_free_cleanup(cleanup), ENOMEM)
        [] new.ret # 0 -> out_free_cleanup(put(new, {"dst_hash_tbl"}))
        [] OTHER -> new

tc_destroy(s) == put(fpq_stop_qdisc(s), {"tsq_proc_entry"})
-----------------------------------------------------------------------------
now == outcome(held, unheld, 0)
becomes(s) == held' = s.held /\ unheld' = s.unheld

LoadInit ==
  load = "no" /\ held = {} /\ unheld = {} /\ qdisc = FALSE /\ rcu = 0

fastpass_module_init ==
  /\ load = "no"
  /\ \E fail \in (module_parts \ {"protosw"}) \cup {"ctrl_addr", "none"} :
       LET s == module_init(now, fail)
       IN  /\ becomes(s)
           /\ load' = CASE s.ret < 0 -> "no"
                        [] s.ret >= 0 /\ fail = "none" -> "yes"
                        [] OTHER -> "failed"
  /\ UNCHANGED <<qdisc, rcu>>

(* With no qdisc registered tsq_unregister_qdisc follows a null pointer.  *)
(* The pending RCU callbacks have run when the slab of fastpass_prot is    *)
(* destroyed.                                                              *)
fastpass_module_exit ==
  /\ load \in {"yes", "failed"} /\ ~qdisc
  /\ becomes(module_exit(now))
  /\ load' = IF load = "yes" THEN "no" ELSE "oops"
  /\ rcu' = 0 /\ UNCHANGED qdisc

tsq_tc_init ==
  /\ load = "yes" /\ ~qdisc
  /\ \E fail \in (qdisc_parts \ (timer_parts \cup {"conn"})) \cup {"none"} :
       LET s == tc_init(now, fail)
       IN  becomes(s) /\ qdisc' = (s.ret = 0)
  /\ UNCHANGED <<load, rcu>>

(* The hash table is handed to an RCU callback, the rest is released. *)
tsq_tc_destroy ==
  /\ qdisc /\ rcu < MAX_RCU
  /\ becomes(put(tc_destroy(now), table_parts))
  /\ qdisc' = FALSE /\ rcu' = rcu + 1
  /\ UNCHANGED load

(* A data packet is enqueued: the tasklet is scheduled.                    *)
tsq_enqueue ==
  /\ qdisc
  /\ held' = held \cup {"enqueue_tasklet"}
  /\ UNCHANGED <<load, unheld, qdisc, rcu>>

(* The tasklet runs, which no step of tsq_tc_destroy waits for.            *)
enqueue_tasklet_func ==
  /\ "enqueue_tasklet" \in held
  /\ held' = held \ {"enqueue_tasklet"}
  /\ UNCHANGED <<load, unheld, qdisc, rcu>>

tsq_rcu_free ==
  /\ rcu > 0
  /\ rcu' = rcu - 1
  /\ UNCHANGED <<load, held, unheld, qdisc>>

LoadNext ==
  \/ fastpass_module_init \/ fastpass_module_exit
  \/ tsq_tc_init \/ tsq_tc_destroy \/ tsq_rcu_free \/ tsq_enqueue \/ enqueue_tasklet_func

LoadSpec == LoadInit /\ [][LoadNext]_loadvars
-----------------------------------------------------------------------------
(* Whatever acquisition fails, and in whatever order modules are loaded    *)
(* and qdiscs created and destroyed, exactly the objects in use are held:  *)
(* the error paths and the teardown functions give back everything they    *)
(* took, once.  Three exceptions are the code's own: a failed tsq_tc_init  *)
(* leaves the file under /proc behind, unloading a module whose init       *)
(* failed but returned 0 or 1 releases what is not there, and a scheduled  *)
(* enqueue tasklet outlives its qdisc, because tsq_tc_destroy does not     *)
(* kill it.                                                                *)
Unwound ==
  /\ held \ {"tsq_proc_entry", "enqueue_tasklet"} =
       (IF load = "yes" THEN module_parts ELSE {})
         \cup (IF qdisc THEN qdisc_parts \ {"tsq_proc_entry"} ELSE {})
  /\ qdisc => "tsq_proc_entry" \in held
  /\ load # "oops" => unheld = {}
=============================================================================
