------------------------------ MODULE FpReset ------------------------------
(***************************************************************************)
(* How the two ends of a control connection agree on a reset               *)
(* (src/protocol/fpproto.c): reset timestamps, RESET payloads, packets     *)
(* that fail the checksum, forced resets and restarts.                     *)
(*                                                                         *)
(* A reset timestamp determines the sequence numbers that follow it, so a  *)
(* timestamp names an epoch, and a sequence number is known by its epoch.  *)
(* Reconstructing a number from its 16 low bits gives the sender's number  *)
(* exactly when both ends count in the same epoch; otherwise the checksum, *)
(* which covers the full numbers, fails.                                   *)
(*                                                                         *)
(* The arbiter receives in one thread.  The end node receives on any of    *)
(* Cpus and gives up the connection lock between handling the header and   *)
(* recording the sequence number (ctrl_rcv_handler in sch_fastpass.c).     *)
(***************************************************************************)
EXTENDS Integers, FiniteSets

CONSTANTS Cpus,          \* CPUs of the end node on which packets arrive
          RST_WIN,       \* conn->rst_win_ns of each side
          RESET_WINDOW,  \* FASTPASS_RESET_WINDOW_NS
          THRESHOLD,     \* FASTPASS_BAD_PKT_RESET_THRESHOLD
          SKEW,          \* how far each side's clock is ahead of the slowest one
          CHAOS_END,     \* bound: the clock until things calm down
          CLOCK_END,     \* bound: the clock
          MAX_NET        \* bound: packets in the network

ENDPOINT == "endpoint"
CONTROLLER == "controller"
Sides == {ENDPOINT, CONTROLLER}
peer(i) == IF i = ENDPOINT THEN CONTROLLER ELSE ENDPOINT
IS_ENDPOINT(i) == i = ENDPOINT

START == RESET_WINDOW + 1
Times == 0 .. CLOCK_END + SKEW[ENDPOINT] + SKEW[CONTROLLER]
NONE == -1

(* How far the numbers of an epoch have come.  A RESET packet's number is   *)
(* reconstructed from the first number of its epoch, so past 2^16 it comes  *)
(* out wrong (LONG).  After 2^16 packets of which none arrived the peer     *)
(* reconstructs every number wrong, and its acks come out wrong too (AHEAD).*)
SHORT == "short"
LONG == "long"
AHEAD == "ahead"

ASSUME ResetAssumption ==
    /\ RST_WIN \in [Sides -> Nat \ {0}] /\ RESET_WINDOW \in Nat \ {0}
    /\ THRESHOLD \in Nat \ {0} /\ SKEW \in [Sides -> Nat]
    /\ CHAOS_END \in Nat /\ CLOCK_END \in Nat /\ MAX_NET \in Nat
    /\ START <= CLOCK_END /\ CHAOS_END <= CLOCK_END

VARIABLES clock,  \* real time
          conn,   \* of each side: the part of fpproto_conn that a reset concerns
          rx,     \* of each CPU: the epoch of the in_seq it is about to record
          net,    \* packets in the network
          begun,  \* history: how often a side started counting in an epoch
          calm,   \* time since the network and the hosts behave, or NONE
          heard   \* the sides that got a packet since the clock moved

reset_vars == <<clock, conn, rx, net, begun, calm, heard>>

now_of(i) == clock + SKEW[i]

\* The clock counts nanoseconds: a side does not read the same time for two resets.
unread(i) == begun[i][now_of(i)] = 0

-----------------------------------------------------------------------------
(* Connection state.                                                       *)

tstamp_in_window(t, middle, size) ==
    /\ t >= middle - size \div 2
    /\ t < middle + (size + 1) \div 2

\* The connection after do_proto_reset; epoch is that of in_max_seqno.
do_proto_reset(t, sync) ==
    [last_reset_time |-> t, in_sync |-> sync, consecutive_bad_pkts |-> 0, epoch |-> t,
     span |-> SHORT]

mut_never_resets(i) ==
    [conn[i] EXCEPT !.in_sync = FALSE,
                    !.consecutive_bad_pkts = IF @ + 1 < THRESHOLD THEN @ + 1 ELSE 0]

\* Too many bad packets start a new epoch, unless there was a recent reset.
got_bad_packet(i) ==
    LET c == conn[i]
        recent == c.last_reset_time \in now_of(i) - RESET_WINDOW .. now_of(i) + RESET_WINDOW
    IN  IF c.consecutive_bad_pkts + 1 < THRESHOLD
        THEN [c EXCEPT !.in_sync = FALSE, !.consecutive_bad_pkts = @ + 1]
        ELSE IF recent
        THEN [c EXCEPT !.in_sync = FALSE, !.consecutive_bad_pkts = 0]
        ELSE do_proto_reset(now_of(i), FALSE)

mut_accept_any_reset(i, t) ==
    IF t = conn[i].last_reset_time
    THEN [drop |-> FALSE, c |-> [conn[i] EXCEPT !.in_sync = IS_ENDPOINT(i)]]
    ELSE [drop |-> FALSE, c |-> do_proto_reset(t, IS_ENDPOINT(i))]

\* The connection after a RESET payload with timestamp t, and whether the packet
\* is dropped.
reset_payload_handler(i, t) ==
    LET c == conn[i]
        last_is_recent == tstamp_in_window(c.last_reset_time, now_of(i), RST_WIN[i])
        payload_is_recent == tstamp_in_window(t, now_of(i), RST_WIN[i])
        keep == [drop |-> TRUE, c |-> [c EXCEPT !.in_sync = FALSE]]
        accept == [drop |-> FALSE, c |-> do_proto_reset(t, IS_ENDPOINT(i))]
        choose_new == [drop |-> TRUE, c |-> do_proto_reset(now_of(i), IS_ENDPOINT(i))]
    IN  IF t = c.last_reset_time
        THEN [drop |-> FALSE, c |-> [c EXCEPT !.in_sync = IS_ENDPOINT(i)]]
        ELSE IF last_is_recent
        THEN IF payload_is_recent /\ t > c.last_reset_time THEN accept ELSE keep
        ELSE IF payload_is_recent THEN accept ELSE choose_new

mut_checksum_of_low_bits(i, p) == p.reset => p.ack_epoch = p.epoch

\* The checksum covers the full sequence and ack numbers: those of a RESET packet
\* are reconstructed from its timestamp, those of others from the receiver's state.
good_checksum(i, p) ==
    IF p.reset
    THEN p.ack_epoch = p.epoch /\ p.span = SHORT
    ELSE /\ p.epoch = conn[i].epoch /\ p.ack_epoch = conn[i].last_reset_time
         /\ p.span # AHEAD /\ conn[i].span # AHEAD

\* fpproto_handle_rx_packet, up to the check for duplicates.
handle_header(i, p, damaged) ==
    IF damaged \/ ~good_checksum(i, p)
    THEN [drop |-> TRUE, c |-> got_bad_packet(i)]
    ELSE LET r == IF p.reset THEN reset_payload_handler(i, p.epoch)
                  ELSE [drop |-> FALSE, c |-> [conn[i] EXCEPT !.in_sync = TRUE]]
         IN  [r EXCEPT !.c.consecutive_bad_pkts = 0]

\* update_inwnd: a number of another epoch is after in_max_seqno or before it, as
\* the hashes of the two timestamps happen to be; if it is after, it becomes the
\* maximum.
successful_rx(c, epoch) ==
    IF epoch = c.epoch THEN {c} ELSE {c, [c EXCEPT !.epoch = epoch]}

\* Sequence numbers restart when a side's connection is replaced by a reset one.
begun_after(i, c) ==
    IF c.last_reset_time = conn[i].last_reset_time THEN begun
    ELSE [begun EXCEPT ![i][c.last_reset_time] = @ + 1]

-----------------------------------------------------------------------------
(* Actions.                                                                *)

ResetInit ==
    /\ clock = START
    /\ \E t \in [Sides -> {0, 1, START}] :
         /\ conn = [i \in Sides |-> do_proto_reset(t[i] + SKEW[i], FALSE)]
         /\ begun = [i \in Sides |-> [s \in Times |-> IF s = t[i] + SKEW[i] THEN 1 ELSE 0]]
    /\ rx = [k \in Cpus |-> NONE]
    /\ net = {}
    /\ calm = NONE /\ heard = {}

\* What fpproto_commit_packet and fpproto_encode_packet put into the header.
packet_of(i) ==
    [to |-> peer(i), epoch |-> conn[i].last_reset_time, reset |-> ~conn[i].in_sync,
     ack_epoch |-> conn[i].epoch, span |-> conn[i].span]

send(i) ==
    /\ calm = NONE
    /\ net' = net \cup {packet_of(i)}
    /\ Cardinality(net') <= MAX_NET
    /\ UNCHANGED <<clock, conn, rx, begun, calm, heard>>

lose(p) ==
    /\ net' = net \ {p}
    /\ UNCHANGED <<clock, conn, rx, begun, calm, heard>>

\* Until things calm down any packet in the network arrives, as often as it likes;
\* after that the packet the peer sends now.
arrives(i, p) ==
    IF calm = NONE THEN p \in net /\ p.to = i ELSE p = packet_of(peer(i))

\* comm_rx: fpproto_handle_rx_complete.  The packet may be a duplicate, or have no
\* number to record.
controller_rx(p, damaged) ==
    LET r == handle_header(CONTROLLER, p, damaged) IN
    /\ arrives(CONTROLLER, p)
    /\ damaged => calm = NONE
    /\ \E c \in IF r.drop THEN {r.c} ELSE {r.c} \cup successful_rx(r.c, p.epoch) :
         conn' = [conn EXCEPT ![CONTROLLER] = c]
    /\ begun' = begun_after(CONTROLLER, r.c)
    /\ heard' = IF calm = NONE THEN {} ELSE heard \cup {CONTROLLER}
    /\ UNCHANGED <<clock, rx, net, calm>>

\* ctrl_rcv_handler up to the first unlock.
endpoint_rx(k, p, damaged) ==
    LET r == handle_header(ENDPOINT, p, damaged) IN
    /\ rx[k] = NONE
    /\ calm # NONE => \A other \in Cpus : rx[other] = NONE
    /\ arrives(ENDPOINT, p)
    /\ damaged => calm = NONE
    /\ conn' = [conn EXCEPT ![ENDPOINT] = r.c]
    /\ \E e \in IF r.drop THEN {NONE} ELSE {NONE, p.epoch} : rx' = [rx EXCEPT ![k] = e]
    /\ begun' = begun_after(ENDPOINT, r.c)
    /\ heard' = IF calm = NONE THEN {} ELSE heard \cup {ENDPOINT}
    /\ UNCHANGED <<clock, net, calm>>

\* handle_areq, called with the lock released, finds a report it cannot believe.
endpoint_force_reset(k) ==
    LET c == do_proto_reset(now_of(ENDPOINT), FALSE) IN
    /\ calm = NONE
    /\ rx[k] # NONE
    /\ unread(ENDPOINT)
    /\ conn' = [conn EXCEPT ![ENDPOINT] = c]
    /\ begun' = begun_after(ENDPOINT, c)
    /\ UNCHANGED <<clock, rx, net, calm, heard>>

\* ctrl_rcv_handler after the second lock, or its return when parsing failed.
endpoint_rx_done(k) ==
    /\ rx[k] # NONE
    /\ rx' = [rx EXCEPT ![k] = NONE]
    /\ \E c \in {conn[ENDPOINT]} \cup successful_rx(conn[ENDPOINT], rx[k]) :
         conn' = [conn EXCEPT ![ENDPOINT] = c]
    /\ UNCHANGED <<clock, net, begun, calm, heard>>

\* A host restarts.
fpproto_init_conn(i) ==
    LET c == do_proto_reset(now_of(i), FALSE) IN
    /\ calm = NONE
    /\ unread(i)
    /\ conn' = [conn EXCEPT ![i] = c]
    /\ begun' = begun_after(i, c)
    /\ rx' = IF i = ENDPOINT THEN [k \in Cpus |-> NONE] ELSE rx
    /\ UNCHANGED <<clock, net, calm, heard>>

\* Many packets are exchanged in an epoch.
many_packets ==
    /\ calm = NONE
    /\ conn[ENDPOINT].last_reset_time = conn[CONTROLLER].last_reset_time
    /\ \A i \in Sides : conn[i].epoch = conn[i].last_reset_time
    /\ \A i \in Sides : conn[i].span = SHORT
    /\ conn' = [i \in Sides |-> [conn[i] EXCEPT !.span = LONG]]
    /\ UNCHANGED <<clock, rx, net, begun, calm, heard>>

\* Many packets are sent and lost.
outage(i) ==
    /\ calm = NONE
    /\ conn[i].span # AHEAD
    /\ conn' = [conn EXCEPT ![i].span = AHEAD]
    /\ UNCHANGED <<clock, rx, net, begun, calm, heard>>

calm_down ==
    /\ calm = NONE
    /\ calm' = 0 /\ net' = {} /\ heard' = {}
    /\ UNCHANGED <<clock, conn, rx, begun>>

\* Once things are calm each side gets a packet in every unit of time.
ClockTick ==
    /\ clock < IF calm = NONE THEN CHAOS_END ELSE CLOCK_END
    /\ calm # NONE => heard = Sides
    /\ clock' = clock + 1
    /\ calm' = IF calm = NONE THEN NONE ELSE calm + 1
    /\ heard' = {}
    /\ UNCHANGED <<conn, rx, net, begun>>

InFlight == net \cup {packet_of(i) : i \in Sides}

NextOn(cpus) ==
    \/ ClockTick
    \/ calm_down
    \/ many_packets
    \/ \E i \in Sides : send(i) \/ fpproto_init_conn(i) \/ outage(i)
    \/ \E p \in net : lose(p)
    \/ \E p \in InFlight, damaged \in BOOLEAN : controller_rx(p, damaged)
    \/ \E k \in cpus :
         \/ \E p \in InFlight, damaged \in BOOLEAN : endpoint_rx(k, p, damaged)
         \/ endpoint_force_reset(k)
         \/ endpoint_rx_done(k)

ResetNext == NextOn(Cpus)

ResetSpec == ResetInit /\ [][ResetNext]_reset_vars

-----------------------------------------------------------------------------

\* No side counts the same sequence numbers twice: whatever RESETs are replayed,
\* delayed or crossed, an epoch that was left is not entered again.  With the
\* receiver's window this makes processing at most once hold across resets.
EnteredOnce == \A i \in Sides : \A t \in Times : begun[i][t] <= 1

\* The controller stops sending RESETs only in an epoch the end node shares.
ControllerInSync ==
    conn[CONTROLLER].in_sync => begun[ENDPOINT][conn[CONTROLLER].last_reset_time] > 0

\* The time within which the connection recovers.
RECOVERY == RESET_WINDOW + THRESHOLD + 3

\* Whatever happened before, once packets get through the two sides agree on an
\* epoch within RECOVERY, and exchange packets without RESETs.
Recovered ==
    calm > RECOVERY =>
        /\ conn[ENDPOINT].last_reset_time = conn[CONTROLLER].last_reset_time
        /\ \A i \in Sides : conn[i].epoch = conn[i].last_reset_time
        /\ conn[ENDPOINT].in_sync
=============================================================================
