-------------------------- MODULE EndnodeControl --------------------------
(***************************************************************************)
(* The control path of the end node while its queueing discipline is being *)
(* stopped (kernel-mod/sch_fastpass.c, fastpass_proto.c, linux-platform.h, *)
(* protocol/outwnd.h).  The maintenance tasklet sends requests, the        *)
(* receive softirqs handle control packets, the retransmission timer and   *)
(* its tasklet report timeouts, and fpq_stop_qdisc tears everything down.  *)
(*                                                                         *)
(* A packet descriptor is shared by the sender and the window of unacked   *)
(* packets and reference counted.  What a descriptor says, and sequence    *)
(* numbers, are left out (FpChannel has them): the window is the sequence  *)
(* of its slots, oldest first.                                             *)
(*                                                                         *)
(* A step is a critical section of conn_lock, except in fpq_stop_qdisc:    *)
(* that takes the lock without keeping softirqs from its CPU.              *)
(***************************************************************************)
EXTENDS Integers, Sequences

CONSTANTS
  Descs,      \* the memory of packet descriptors
  None,       \* no descriptor
  Cpus,       \* the CPUs that run receive softirqs
  WND         \* slots of the window of unacked packets

ASSUME ControlAssumption == None \notin Descs /\ WND \in Nat \ {0}

VARIABLES
  live,               \* descriptors that are allocated
  refcount,           \* their reference counts
  unacked_pkts,       \* the window: a descriptor or None in every slot
  next_timeout,       \* first slot that may still time out, WND + 1 if none
  triggered,          \* the request pacer is triggered
  is_destroyed,
  maintenance_timer,  \* is it armed
  maintenance_sched,  \* is the maintenance tasklet scheduled
  sender,             \* where send_request is
  kern_pd,            \* its descriptor
  retrans_timer,      \* is it armed
  retrans_sched,      \* is the retransmission tasklet scheduled
  hashed,             \* fpproto_rcv finds the control socket
  rx,                 \* where the receive handler of a CPU is
  stop,               \* how far fpq_stop_qdisc is
  overlap             \* two CPUs were in the window at once, one of them without conn_lock

descs == <<live, refcount, unacked_pkts, next_timeout>>
timers == <<maintenance_timer, maintenance_sched, retrans_timer, retrans_sched>>
controlvars == <<descs, timers, triggered, is_destroyed, sender, kern_pd, hashed, rx, stop, overlap>>
-----------------------------------------------------------------------------
(* Does no one spin on, or hold, conn_lock between two steps? *)
conn_lock_free == stop \notin {"locked", "stuck"}

(* An ack, a nack or a reset may find a flow with demand, put it into the  *)
(* request queue and trigger a request.                                    *)
may_trigger == triggered' \in {triggered, TRUE}

Slots == 1..WND
occupied(w) == {i \in Slots : w[i] # None}
empty_window == [i \in Slots |-> None]

(* Dropping one reference to each descriptor of D. *)
pktdesc_free(D, l, rc) ==
  [live |-> {d \in l : d \notin D \/ rc[d] > 1},
   refcount |-> [d \in Descs |-> IF d \in D THEN rc[d] - 1 ELSE rc[d]]]

(* Slots of I leave the window and their references are dropped. *)
outwnd_pop(I) ==
  LET f == pktdesc_free({unacked_pkts[i] : i \in I}, live, refcount)
  IN  /\ live' = f.live /\ refcount' = f.refcount
      /\ unacked_pkts' = [i \in Slots |-> IF i \in I THEN None ELSE unacked_pkts[i]]

(* The timer is cancelled, and set again if a slot of window w at or after *)
(* slot i holds a packet.                                                  *)
recompute_and_reset_retrans_timer(w, i) ==
  LET unacked == {j \in occupied(w) : j >= i}
  IN  /\ next_timeout' = IF unacked = {} THEN WND + 1 ELSE CHOOSE j \in unacked : \A k \in unacked : j <= k
      /\ retrans_timer' = (unacked # {})

(* do_proto_reset drops the window and leaves the timer as it is. *)
free_unacked == outwnd_pop(occupied(unacked_pkts))
do_proto_reset ==
  /\ free_unacked
  /\ next_timeout' = WND + 1
  /\ UNCHANGED retrans_timer
-----------------------------------------------------------------------------
(* The sender: the maintenance timer schedules the tasklet, which sends a  *)
(* request if the pacer asks for one.                                      *)
fpq_add_timeslot ==
  /\ stop = "no"
  /\ triggered' = TRUE
  /\ UNCHANGED <<descs, timers, is_destroyed, sender, kern_pd, hashed, rx, stop, overlap>>

maintenance_timer_func ==
  /\ maintenance_timer
  /\ maintenance_sched' = TRUE
  /\ UNCHANGED <<descs, maintenance_timer, retrans_timer, retrans_sched, triggered,
                 is_destroyed, sender, kern_pd, hashed, rx, stop, overlap>>

maintenance_tasklet_func ==
  /\ maintenance_sched /\ sender = "idle"
  /\ maintenance_sched' = FALSE
  /\ triggered' = FALSE
  /\ sender' = IF triggered THEN "alloc" ELSE "idle"
  /\ UNCHANGED <<descs, maintenance_timer, retrans_timer, retrans_sched, is_destroyed,
                 kern_pd, hashed, rx, stop, overlap>>

(* No memory: send_request triggers itself again. *)
pktdesc_alloc_fails ==
  /\ sender = "alloc"
  /\ triggered' = TRUE /\ sender' = "idle"
  /\ UNCHANGED <<descs, timers, is_destroyed, kern_pd, hashed, rx, stop, overlap>>

fpproto_pktdesc_alloc ==
  /\ sender = "alloc"
  /\ \E d \in Descs \ live :
       /\ live' = live \cup {d}
       /\ refcount' = [refcount EXCEPT ![d] = 2]
       /\ kern_pd' = d
  /\ sender' = "prepare"
  /\ UNCHANGED <<unacked_pkts, next_timeout, timers, triggered, is_destroyed, hashed, rx, stop, overlap>>

(* The request is over and its descriptor, if d, is freed at once. *)
sender_done(d) ==
  /\ live' = live \ {d}
  /\ sender' = "idle" /\ kern_pd' = None

out_conn_destroyed ==
  /\ sender_done(kern_pd)
  /\ UNCHANGED <<refcount, unacked_pkts, next_timeout, retrans_timer, triggered>>

(* The oldest slot is vacated; a packet never reported is nacked first.    *)
fpproto_prepare_to_send ==
  /\ IF unacked_pkts[1] = None THEN UNCHANGED <<descs, retrans_timer, triggered>>
     ELSE /\ outwnd_pop({1})
          /\ IF next_timeout = 1 THEN recompute_and_reset_retrans_timer(unacked_pkts, 2) /\ may_trigger
             ELSE UNCHANGED <<next_timeout, retrans_timer, triggered>>
  /\ sender' = "commit" /\ UNCHANGED kern_pd

send_request_prepare ==
  /\ sender = "prepare" /\ conn_lock_free
  /\ IF is_destroyed THEN out_conn_destroyed ELSE fpproto_prepare_to_send
  /\ UNCHANGED <<is_destroyed, maintenance_timer, maintenance_sched, retrans_sched,
                 hashed, rx, stop, overlap>>

(* The window moves by one slot and the packet takes the newest. *)
outwnd_add(d) == [i \in Slots |-> IF i = WND THEN d ELSE unacked_pkts[i + 1]]

fpproto_commit_packet ==
  /\ unacked_pkts' = outwnd_add(kern_pd)
  /\ recompute_and_reset_retrans_timer(outwnd_add(kern_pd), next_timeout - 1)
  /\ sender' = "send"
  /\ UNCHANGED <<live, refcount, kern_pd, triggered>>

send_request_commit ==
  /\ sender = "commit" /\ conn_lock_free
  /\ IF is_destroyed THEN out_conn_destroyed ELSE fpproto_commit_packet
  /\ UNCHANGED <<is_destroyed, maintenance_timer, maintenance_sched, retrans_sched,
                 hashed, rx, stop, overlap>>

(* A count of 1: the window has dropped the packet, free it unsent. *)
mut_send_pktdesc ==
  /\ sender = "send"
  /\ sender_done(None)
  /\ UNCHANGED <<refcount, unacked_pkts, next_timeout, timers, triggered, is_destroyed,
                 hashed, rx, stop, overlap>>

fpproto_send_pktdesc ==
  /\ sender = "send"
  /\ IF refcount[kern_pd] = 1 THEN sender_done(kern_pd)
     ELSE sender' = "put" /\ UNCHANGED <<live, kern_pd>>
  /\ UNCHANGED <<refcount, unacked_pkts, next_timeout, timers, triggered, is_destroyed,
                 hashed, rx, stop, overlap>>

(* The packet was encoded and sent, or could not be: either way the        *)
(* sender's reference is dropped, and more demand triggers again.          *)
fpproto_sent ==
  /\ sender = "put"
  /\ LET f == pktdesc_free({kern_pd}, live, refcount)
     IN  live' = f.live /\ refcount' = f.refcount
  /\ sender' = "idle" /\ kern_pd' = None
  /\ triggered' \in {triggered, TRUE}
  /\ UNCHANGED <<unacked_pkts, next_timeout, timers, is_destroyed, hashed, rx, stop, overlap>>
-----------------------------------------------------------------------------
(* The retransmission timer and its tasklet. *)
retrans_timer_func ==
  /\ retrans_timer
  /\ retrans_timer' = FALSE /\ retrans_sched' = TRUE
  /\ UNCHANGED <<descs, maintenance_timer, maintenance_sched, triggered, is_destroyed,
                 sender, kern_pd, hashed, rx, stop, overlap>>

(* The packets before slot i have timed out and are nacked, not freed. *)
fpproto_handle_timeout ==
  \E i \in {j \in occupied(unacked_pkts) : j >= next_timeout} \cup {WND + 1} :
    /\ next_timeout' = i
    /\ retrans_timer' = (retrans_timer \/ i <= WND)
    /\ may_trigger

retrans_tasklet_func ==
  /\ retrans_sched /\ conn_lock_free
  /\ retrans_sched' = FALSE
  /\ IF is_destroyed THEN UNCHANGED <<next_timeout, retrans_timer, triggered>> ELSE fpproto_handle_timeout
  /\ UNCHANGED <<live, refcount, unacked_pkts, maintenance_timer, maintenance_sched,
                 is_destroyed, sender, kern_pd, hashed, rx, stop, overlap>>
-----------------------------------------------------------------------------
(* Reception: lookup of the socket, the header under the lock, the         *)
(* callbacks without it, the acknowledgement under it.                     *)
rx_moves(c, to) == rx' = [rx EXCEPT ![c] = to]

fpproto_rcv(c) ==
  /\ rx[c] = "idle" /\ hashed
  /\ rx_moves(c, "found")
  /\ UNCHANGED <<descs, timers, triggered, is_destroyed, sender, kern_pd, hashed, stop, overlap>>

(* A bad packet asks for one in return and may reset the connection; a     *)
(* RESET may be applied, even if its packet is dropped; a good packet acks *)
(* slots.                                                                  *)
fpproto_handle_rx_packet(c) ==
  \/ /\ triggered' = TRUE
     /\ \/ do_proto_reset
        \/ UNCHANGED <<descs, retrans_timer>>
     /\ rx_moves(c, "idle")
  \/ /\ do_proto_reset /\ may_trigger
     /\ \E to \in {"callbacks", "idle"} : rx_moves(c, to)
  \/ /\ \E I \in SUBSET occupied(unacked_pkts) :
          IF I = {} THEN UNCHANGED <<descs, retrans_timer, triggered>>
          ELSE /\ outwnd_pop(I)
               /\ recompute_and_reset_retrans_timer(
                    [i \in Slots |-> IF i \in I THEN None ELSE unacked_pkts[i]], next_timeout)
               /\ may_trigger
     /\ \E to \in {"callbacks", "idle"} : rx_moves(c, to)

ctrl_rcv_handler(c) ==
  /\ rx[c] = "found" /\ conn_lock_free
  /\ IF is_destroyed THEN rx_moves(c, "idle") /\ UNCHANGED <<descs, retrans_timer, triggered>>
     ELSE fpproto_handle_rx_packet(c)
  /\ UNCHANGED <<maintenance_timer, maintenance_sched, retrans_sched, is_destroyed, sender,
                 kern_pd, hashed, stop, overlap>>

(* handle_alloc and handle_areq ask for a packet; a report of more than    *)
(* was requested forces a reset, under the lock but without a check that   *)
(* the connection still exists.  When fpq_stop_qdisc is in the window      *)
(* at the same time the outcome is undefined.                              *)
fpproto_perform_rx_callbacks(c) ==
  /\ rx[c] = "callbacks"
  /\ triggered' \in {triggered, TRUE}
  /\ \/ conn_lock_free /\ do_proto_reset /\ overlap' = (overlap \/ stop = "freeing")
     \/ UNCHANGED <<descs, retrans_timer, overlap>>
  /\ rx_moves(c, "successful")
  /\ UNCHANGED <<maintenance_timer, maintenance_sched, retrans_sched, is_destroyed, sender,
                 kern_pd, hashed, stop>>

fpproto_successful_rx(c) ==
  /\ rx[c] = "successful" /\ conn_lock_free
  /\ rx_moves(c, "idle")
  /\ UNCHANGED <<descs, timers, triggered, is_destroyed, sender, kern_pd, hashed, stop, overlap>>
-----------------------------------------------------------------------------
(* fpq_stop_qdisc.  tasklet_kill waits until the tasklet has run. *)
stopping(from, to) == stop = from /\ stop' = to

(* The tasklet is killed while the timer still runs. *)
mut_cancel_maintenance_timer ==
  /\ stopping("no", "timer")
  /\ UNCHANGED <<descs, timers, triggered, is_destroyed, sender, kern_pd, hashed, rx, overlap>>

cancel_maintenance_timer ==
  /\ stopping("no", "timer")
  /\ maintenance_timer' = FALSE
  /\ UNCHANGED <<descs, maintenance_sched, retrans_timer, retrans_sched, triggered,
                 is_destroyed, sender, kern_pd, hashed, rx, overlap>>

kill_maintenance_tasklet ==
  /\ stopping("timer", "tasklet")
  /\ ~maintenance_sched /\ sender = "idle"
  /\ UNCHANGED <<descs, timers, triggered, is_destroyed, sender, kern_pd, hashed, rx, overlap>>

sock_release ==
  /\ stopping("tasklet", "sock")
  /\ hashed' = FALSE
  /\ UNCHANGED <<descs, timers, triggered, is_destroyed, sender, kern_pd, rx, overlap>>

(* spin_lock, without disabling softirqs *)
take_conn_lock ==
  /\ stopping("sock", "locked")
  /\ UNCHANGED <<descs, timers, triggered, is_destroyed, sender, kern_pd, hashed, rx, overlap>>

set_is_destroyed ==
  /\ stopping("locked", "destroyed")
  /\ is_destroyed' = TRUE
  /\ UNCHANGED <<descs, timers, triggered, sender, kern_pd, hashed, rx, overlap>>

(* The retransmission tasklet interrupts fpq_stop_qdisc on its CPU while   *)
(* that holds conn_lock: the tasklet spins for ever.  (A receive handler   *)
(* cannot: none that starts after sock_release finds the socket.)          *)
retrans_tasklet_spins ==
  /\ retrans_sched
  /\ stopping("locked", "stuck")
  /\ UNCHANGED <<descs, timers, triggered, is_destroyed, sender, kern_pd, hashed, rx, overlap>>

(* fpproto_destroy_conn walks the window without conn_lock, from here on   *)
(* to the next step.                                                       *)
begin_destroy_conn ==
  /\ stopping("destroyed", "freeing")
  /\ UNCHANGED <<descs, timers, triggered, is_destroyed, sender, kern_pd, hashed, rx, overlap>>

(* A stop that leaves the window to the memory allocator. *)
mut_destroy_conn ==
  /\ stopping("freeing", "conn")
  /\ UNCHANGED <<descs, timers, triggered, is_destroyed, sender, kern_pd, hashed, rx, overlap>>

fpproto_destroy_conn ==
  /\ stopping("freeing", "conn")
  /\ free_unacked
  /\ UNCHANGED <<next_timeout, timers, triggered, is_destroyed, sender, kern_pd, hashed, rx, overlap>>

cancel_retrans_timer ==
  /\ stopping("conn", "retrans")
  /\ retrans_timer' = FALSE
  /\ UNCHANGED <<descs, maintenance_timer, maintenance_sched, retrans_sched, triggered,
                 is_destroyed, sender, kern_pd, hashed, rx, overlap>>

kill_retrans_tasklet ==
  /\ stopping("retrans", "stopped")
  /\ ~retrans_sched
  /\ UNCHANGED <<descs, timers, triggered, is_destroyed, sender, kern_pd, hashed, rx, overlap>>

(* The kernel frees the qdisc after an RCU grace period: the handlers that *)
(* were running have left.                                                 *)
free_qdisc ==
  /\ stopping("stopped", "freed")
  /\ \A c \in Cpus : rx[c] = "idle"
  /\ UNCHANGED <<descs, timers, triggered, is_destroyed, sender, kern_pd, hashed, rx, overlap>>
-----------------------------------------------------------------------------
(* After fpq_new_qdisc: the socket is connected and the maintenance timer  *)
(* runs.                                                                   *)
ControlInit ==
  /\ live = {} /\ refcount = [d \in Descs |-> 0]
  /\ unacked_pkts = empty_window /\ next_timeout = WND + 1
  /\ triggered = FALSE /\ is_destroyed = FALSE
  /\ maintenance_timer = TRUE /\ maintenance_sched = FALSE
  /\ sender = "idle" /\ kern_pd = None
  /\ retrans_timer = FALSE /\ retrans_sched = FALSE
  /\ hashed = TRUE /\ rx = [c \in Cpus |-> "idle"] /\ stop = "no"
  /\ overlap = FALSE

SenderNext ==
  \/ maintenance_tasklet_func \/ pktdesc_alloc_fails \/ fpproto_pktdesc_alloc
  \/ send_request_prepare \/ send_request_commit \/ fpproto_send_pktdesc \/ fpproto_sent

RxNext(c) ==
  \/ ctrl_rcv_handler(c) \/ fpproto_perform_rx_callbacks(c) \/ fpproto_successful_rx(c)

StopNext ==
  \/ kill_maintenance_tasklet \/ sock_release \/ take_conn_lock \/ set_is_destroyed
  \/ begin_destroy_conn \/ fpproto_destroy_conn \/ cancel_retrans_timer \/ kill_retrans_tasklet \/ free_qdisc

ControlNext ==
  \/ fpq_add_timeslot \/ maintenance_timer_func \/ SenderNext
  \/ retrans_timer_func \/ retrans_tasklet_func \/ retrans_tasklet_spins
  \/ \E c \in Cpus : fpproto_rcv(c) \/ RxNext(c)
  \/ cancel_maintenance_timer \/ StopNext

(* A tasklet or softirq that has begun, or is scheduled, is run by the     *)
(* kernel, and a stop that has begun goes on when it can.                  *)
ControlFairness ==
  /\ WF_controlvars(SenderNext)
  /\ WF_controlvars(retrans_tasklet_func)
  /\ \A c \in Cpus : WF_controlvars(RxNext(c))
  /\ WF_controlvars(StopNext)

ControlSafety == ControlInit /\ [][ControlNext]_controlvars

ControlSpec == ControlSafety /\ ControlFairness
-----------------------------------------------------------------------------
(* Packet descriptors are exact: one is allocated if and only if the       *)
(* window or the sender still points to it, it is in one slot at most, and *)
(* once committed its count is the number of those pointers.  So none is   *)
(* freed twice, used after it was freed, or leaked, whichever of a timeout,*)
(* an ack, a reset, the end of the window and a stop comes between         *)
(* committing and sending (sch_fastpass.c:681-685, fastpass_proto.c:296),  *)
(* unless a forced reset meets fpproto_destroy_conn in the window.         *)
DescsExact ==
  LET in_window == {unacked_pkts[i] : i \in occupied(unacked_pkts)}
      pointers(d) == (IF d \in in_window THEN 1 ELSE 0) + (IF d = kern_pd THEN 1 ELSE 0)
  IN  ~overlap =>
      /\ live = in_window \cup ({kern_pd} \ {None})
      /\ \A i, j \in occupied(unacked_pkts) : unacked_pkts[i] = unacked_pkts[j] => i = j
      /\ \A d \in live :
           refcount[d] = IF d = kern_pd /\ sender \in {"prepare", "commit"} THEN 2
                         ELSE pointers(d)

(* When the memory of the qdisc is freed nothing can touch it any more: no *)
(* timer is armed, no tasklet is scheduled or running, no receive handler  *)
(* is under way, and no descriptor is left (fpq_stop_qdisc), unless a      *)
(* forced reset met fpproto_destroy_conn in the window.                    *)
FreedIsQuiet ==
  stop = "freed" /\ ~overlap =>
    /\ ~maintenance_timer /\ ~maintenance_sched /\ sender = "idle"
    /\ ~retrans_timer /\ ~retrans_sched
    /\ \A c \in Cpus : rx[c] = "idle"
    /\ live = {}

(* A stop that has begun ends: the tasklets it waits for are not scheduled *)
(* for ever by the timers.  Only the retransmission tasklet can keep it    *)
(* from ending, if it comes on the same CPU between sch_fastpass.c:1080    *)
(* and 1082.                                                               *)
Stops == (stop # "no") ~> (stop \in {"freed", "stuck"})
=============================================================================
