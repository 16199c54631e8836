-------------------------------- MODULE Wire --------------------------------
(***************************************************************************)
(* What the arbiter puts in a control packet and what the end node takes   *)
(* from it: fill_packet_alloc and fill_packet_report (arbiter/comm_core.c) *)
(* fill a descriptor from the pending allocations and the report queue,    *)
(* fpproto_encode_packet (protocol/fpproto.c) makes the packet, and        *)
(* fpproto_handle_rx_packet, process_alloc, process_areq and the end       *)
(* node's handle_alloc (kernel-mod/sch_fastpass.c) read it.                *)
(*                                                                         *)
(* A packet is a sequence of 16-bit words, and a 64-bit number is four of  *)
(* them, the most significant first.  The ack vector is left out           *)
(* (FpChannel has it); the checksum is good when the full numbers that it  *)
(* covers are those of the sender.  Both sides count from the same reset,  *)
(* or the packet tells of it and the end node accepts it (FpReset).        *)
(***************************************************************************)
EXTENDS Integers, Sequences, SequencesExt

CONSTANTS Inputs,      \* records with the fields of input below
          time_hash(_) \* jhash_1word of a timestamp, as two words

VARIABLES
  step,    \* of the sender, then of the receiver
  input,   \* pending: sequence of <<timeslot, destination>>, by timeslot
           \* reports: sequence of <<destination, total>>
           \* reset_time, send_reset: of the arbiter; now: at the end node
           \* sent, received: how many packets to the end node, since the reset,
           \*   the arbiter has sent and the end node knows of
           \* out, acked: the same of packets to the arbiter, at the other side
           \* current: the timeslot at the end node when it receives
  pd,      \* the packet descriptor
  pkt,     \* the packet
  got      \* what the end node's handlers were called with

wirevars == <<step, input, pd, pkt, got>>

MAX_ALLOC_TSLOTS == 64
MAX_DSTS == 15
MAX_AREQ == 10
HDR_LEN == 8
RESET_LEN == 8
ALLOC_LEN == 2 + 2 * 15 + MAX_ALLOC_TSLOTS
AREQ_LEN == 2 + 4 * MAX_AREQ
MAX_PAYLOAD == HDR_LEN + RESET_LEN + AREQ_LEN + ALLOC_LEN
MIN_SIZE == 26

PTYPE_PADDING == 0
PTYPE_RESET == 1
PTYPE_AREQ == 2
PTYPE_ALLOC == 3
PTYPE_ACK == 4

u16(x) == x % 2^16

(* The number at or above low, within 2^bits of it, with the given low bits. *)
reconstruct(bits, low, x) == low + ((x - low) % 2^bits)

u64(n) == <<0, 0, n \div 2^16, n % 2^16>>

plus(a, b) ==
  LET carry[i \in 1 .. 4] == IF i = 4 THEN 0 ELSE (a[i + 1] + b[i + 1] + carry[i + 1]) \div 2^16
  IN  [i \in 1 .. 4 |-> u16(a[i] + b[i] + carry[i])]

minus(a, b) == plus(a, plus([i \in 1 .. 4 |-> 2^16 - 1 - b[i]], u64(1)))

(* The same as reconstruct, for 64-bit numbers and 16 or 56 bits. *)
from_low_16(low, x) == plus(low, <<0, 0, 0, minus(x, low)[4]>>)
from_low_56(low, x) == plus(low, [minus(x, low) EXCEPT ![1] = @ % 2^8])

TO_CONTROLLER_SEQNO_OFFSET == u64(0)
TO_ENDPOINT_SEQNO_OFFSET == <<0, 0, 57005, 48879>>

(* reset_time + time_hash + (time_hash << 32) *)
base_seqno_from_timestamp(t) == plus(t, time_hash(t) \o time_hash(t))
-----------------------------------------------------------------------------
mut_skip_of(gap) == IF gap > 16 THEN gap \div 16 ELSE 0

(* How many times 16 timeslots a skip byte passes over before the gap fits. *)
skip_of(gap) == IF gap > 16 THEN (gap - 1) \div 16 ELSE 0

(* The slot of pd->dsts that alloc_enc_space has for d.  It holds zero for a *)
(* destination not seen yet, and for the one in slot zero.                   *)
alloc_enc_space(dsts, d) ==
  LET S == {i \in DOMAIN dsts : dsts[i] = d} IN IF S = {} THEN 0 ELSE Max(S) - 1

(* fill_packet_alloc starts at the multiple of 16 below the first timeslot. *)
new_pd ==
  LET prev == IF input.pending = <<>> THEN 0 ELSE ((input.pending[1][1] - 1) \div 16) * 16
  IN  [prev_tslot |-> prev, base_tslot |-> u16(prev \div 16), left |-> input.pending,
       dsts |-> <<>>, tslot_desc |-> <<>>, areq |-> <<>>]

(* One timeslot: a skip byte if the gap is large, and the allocation byte. *)
next_alloc ==
  LET tslot == Head(pd.left)[1]
      dst == Head(pd.left)[2]
      gap == tslot - pd.prev_tslot
      skip == skip_of(gap)
      skipped == IF skip > 0 THEN Append(pd.tslot_desc, skip - 1) ELSE pd.tslot_desc
      first == alloc_enc_space(pd.dsts, dst) = 0
      known == IF first THEN Append(pd.dsts, dst) ELSE pd.dsts
      spec == (alloc_enc_space(known, dst) + 1) * 16 + (gap - 16 * skip - 1)
  IN  /\ step = "alloc" /\ pd.left # <<>>
      /\ IF first /\ Len(pd.dsts) = MAX_DSTS
         THEN pd' = [pd EXCEPT !.tslot_desc = skipped] /\ step' = "report"
         ELSE /\ pd' = [pd EXCEPT !.left = Tail(@), !.prev_tslot = tslot, !.dsts = known,
                                  !.tslot_desc = Append(skipped, spec)]
              /\ step' = IF Len(skipped) + 1 <= MAX_ALLOC_TSLOTS - 2 THEN "alloc" ELSE "report"
      /\ UNCHANGED <<input, pkt, got>>

nothing_left == step = "alloc" /\ pd.left = <<>> /\ step' = "report" /\ UNCHANGED <<input, pd, pkt, got>>

(* The bytes are padded to an even number; then the first of the reports. *)
fill_packet_report ==
  /\ step = "report"
  /\ pd' = [pd EXCEPT !.tslot_desc = IF Len(@) % 2 = 1 THEN Append(@, 0) ELSE @,
                      !.areq = SubSeq(input.reports, 1, Min({MAX_AREQ, Len(input.reports)}))]
  /\ step' = "encode"
  /\ UNCHANGED <<input, pkt, got>>
-----------------------------------------------------------------------------
(* The number of the nth packet since the reset; none has that of the 0th. *)
nth(offset, n) == minus(plus(plus(base_seqno_from_timestamp(input.reset_time), offset), u64(n)), u64(1))

seqno == nth(TO_ENDPOINT_SEQNO_OFFSET, input.sent)
ack_seq == nth(TO_CONTROLLER_SEQNO_OFFSET, input.acked)
in_max_seqno == nth(TO_ENDPOINT_SEQNO_OFFSET, input.received)
outwnd_head == nth(TO_CONTROLLER_SEQNO_OFFSET, input.out)

hdr_words == <<seqno[4], ack_seq[4], 0, 0>>

(* The lower 56 bits of the timestamp *)
reset_words == [input.reset_time EXCEPT ![1] = PTYPE_RESET * 2^12 + (@ % 2^8)]

alloc_words ==
  <<PTYPE_ALLOC * 2^12 + Len(pd.dsts) * 2^8 + (Len(pd.tslot_desc) + 1) \div 2, pd.base_tslot>>
    \o pd.dsts
    \o [i \in 1 .. Len(pd.tslot_desc) \div 2 |->
          pd.tslot_desc[2 * i - 1] * 2^8 + pd.tslot_desc[2 * i]]

areq_words ==
  <<PTYPE_AREQ * 2^12 + Len(pd.areq)>>
    \o FlattenSeq([i \in DOMAIN pd.areq |-> <<pd.areq[i][1], u16(pd.areq[i][2])>>])

(* The A-REQ comes after the allocations. *)
encoded ==
  LET words == hdr_words
               \o (IF input.send_reset THEN reset_words ELSE <<>>)
               \o (IF pd.tslot_desc # <<>> THEN alloc_words ELSE <<>>)
               \o (IF pd.areq # <<>> THEN areq_words ELSE <<>>)
  IN  words \o [i \in 1 .. Max({0, MIN_SIZE \div 2 - Len(words)}) |-> 0]

(* A packet that is too long is an error of the encoder, and make_packet     *)
(* sends a truncated one that the end node finds too short.                  *)
fpproto_encode_packet ==
  /\ step = "encode" /\ step' = "receive"
  /\ pkt' = IF 2 * Len(encoded) > MAX_PAYLOAD THEN <<0>> ELSE encoded
  /\ UNCHANGED <<input, pd, got>>
-----------------------------------------------------------------------------
has_reset == Len(pkt) > 4 /\ pkt[5] \div 2^12 = PTYPE_RESET

(* All 64 bits of the reset timestamp *)
rst_tstamp ==
  from_low_56(minus(input.now, <<2^7, 0, 0, 0>>), [SubSeq(pkt, 5, 8) EXCEPT ![1] = @ % 2^8])

(* The full numbers: of a packet with a RESET they are those that follow its *)
(* timestamp, of another one those around the end node's own.                *)
in_seq ==
  from_low_16(IF has_reset THEN plus(base_seqno_from_timestamp(rst_tstamp), TO_ENDPOINT_SEQNO_OFFSET)
              ELSE minus(in_max_seqno, u64(2^14)),
              u64(pkt[1]))

rx_ack_seq ==
  from_low_16(IF has_reset
              THEN minus(plus(base_seqno_from_timestamp(rst_tstamp), TO_CONTROLLER_SEQNO_OFFSET), u64(1))
              ELSE plus(minus(outwnd_head, u64(2^16)), u64(1)),
              u64(pkt[2]))

(* A packet with a bad checksum is dropped; so is one without payloads or with *)
(* an incomplete ACK.  The payloads start at word 5.                           *)
fpproto_handle_rx_packet ==
  LET too_short == 2 * Len(pkt) < HDR_LEN + IF has_reset THEN RESET_LEN ELSE 0
      first == IF has_reset THEN 9 ELSE 5
      no_more == \/ first > Len(pkt)
                 \/ pkt[first] \div 2^12 = PTYPE_ACK /\ first + 2 > Len(pkt)
  IN  /\ step = "receive"
      /\ CASE too_short -> step' = "done" /\ UNCHANGED got
           [] ~too_short /\ (in_seq # seqno \/ rx_ack_seq # ack_seq) ->
                step' = "bad checksum" /\ UNCHANGED got
           [] OTHER -> /\ got' = [reset |-> IF has_reset THEN rst_tstamp ELSE <<>>, calls |-> <<>>, curp |-> 5]
                       /\ step' = IF no_more THEN "done" ELSE "payload"
      /\ UNCHANGED <<input, pd, pkt>>

curp == got.curp
payload_type == pkt[curp] \div 2^12
n_dst == (pkt[curp] \div 2^8) % 16
n_tslots == 2 * (pkt[curp] % 64)
alloc_byte(i) ==
  LET w == pkt[curp + 1 + n_dst + (i + 1) \div 2] IN IF i % 2 = 1 THEN w \div 2^8 ELSE w % 2^8

(* An ALLOC that is complete goes to handle_alloc, which reads its bytes. *)
process_alloc ==
  /\ payload_type = PTYPE_ALLOC
  /\ IF curp + 1 + n_dst + n_tslots \div 2 > Len(pkt) THEN step' = "done" /\ UNCHANGED got
     ELSE /\ step' = "tslots"
          /\ got' = [reset |-> got.reset, curp |-> curp, i |-> 1,
                     calls |-> Append(got.calls, <<>>),
                     full_tslot |-> reconstruct(20, input.current - 2^18, pkt[curp + 1] * 16)]

process_areq ==
  LET n == pkt[curp] % 64
  IN  /\ payload_type = PTYPE_AREQ
      /\ IF curp + 2 * n > Len(pkt) THEN step' = "done" /\ UNCHANGED got
         ELSE /\ UNCHANGED step
              /\ got' = [got EXCEPT !.curp = @ + 1 + 2 * n,
                           !.calls = Append(@, [i \in 1 .. n |-> <<pkt[curp + 2 * i - 1], pkt[curp + 2 * i]>>])]

(* The length in words of the payloads that were handled with the header *)
handled_len == (PTYPE_RESET :> 4) @@ (PTYPE_ACK :> 3)

(* One payload after another; padding or an unknown type ends the packet. *)
fpproto_perform_rx_callbacks ==
  /\ step = "payload"
  /\ IF curp > Len(pkt) THEN step' = "done" /\ UNCHANGED got
     ELSE \/ process_alloc
          \/ process_areq
          \/ /\ payload_type \in DOMAIN handled_len
             /\ got' = [got EXCEPT !.curp = @ + handled_len[payload_type]] /\ UNCHANGED step
          \/ /\ payload_type \notin {PTYPE_ALLOC, PTYPE_AREQ} \cup DOMAIN handled_len
             /\ step' = "done" /\ UNCHANGED got
  /\ UNCHANGED <<input, pd, pkt>>

(* handle_alloc reads byte i: a skip, an index that is out of bounds, or a  *)
(* timeslot for the destination of the index.                               *)
handle_alloc ==
  LET index == alloc_byte(got.i) \div 16
      low == alloc_byte(got.i) % 16
      tslot == got.full_tslot + 1 + low
      done == [got EXCEPT !.curp = @ + 2 + n_dst + n_tslots \div 2]
  IN  /\ step = "tslots"
      /\ IF got.i > n_tslots \/ index > n_dst THEN got' = done /\ step' = "payload"
         ELSE /\ UNCHANGED step
              /\ got' = IF index = 0
                        THEN [got EXCEPT !.i = @ + 1, !.full_tslot = @ + 16 * (1 + low)]
                        ELSE [got EXCEPT !.i = @ + 1, !.full_tslot = tslot,
                                !.calls[Len(got.calls)] = Append(@, <<tslot, pkt[curp + 1 + index]>>)]
      /\ UNCHANGED <<input, pd, pkt>>

WireInit ==
  /\ input \in Inputs
  /\ step = "alloc" /\ pd = new_pd /\ pkt = <<>> /\ got = <<>>

WireNext ==
  \/ next_alloc \/ nothing_left \/ fill_packet_report
  \/ fpproto_encode_packet \/ fpproto_handle_rx_packet
  \/ fpproto_perform_rx_callbacks \/ handle_alloc
-----------------------------------------------------------------------------
(* Is the packet one of the 2^16 whose numbers the end node can reconstruct? *)
in_range ==
  IF input.send_reset THEN input.sent <= 2^16 /\ input.acked < 2^16
  ELSE /\ input.sent - (input.received - 2^14) \in 0 .. 2^16 - 1
       /\ input.out - input.acked \in 0 .. 2^16 - 1

(* The end node's handlers see what the arbiter took from its state, the    *)
(* allocations before the reports: every timeslot with its destination at   *)
(* the full timeslot number and the totals modulo 2^16, whatever the gaps,  *)
(* the repeated destinations and the limits of a packet; what is not in the *)
(* packet is still pending.  All bits of the reset timestamp are restored,  *)
(* and the checksum fails just for the packets too far from the numbers the *)
(* end node starts from: those that follow the RESET's timestamp, or its    *)
(* own.  One other packet is not shown: that with a RESET and all parts at  *)
(* their largest, two bytes more than FASTPASS_MAX_PAYLOAD.                 *)
ShownAsFilled ==
  /\ step = "bad checksum" => ~in_range
  /\ step = "done" =>
      LET taken == SubSeq(input.pending, 1, Len(input.pending) - Len(pd.left))
          reports == [i \in DOMAIN pd.areq |-> <<input.reports[i][1], u16(input.reports[i][2])>>]
          parts == SelectSeq(<<taken, reports>>, LAMBDA s : s # <<>>)
      IN  \/ /\ got # <<>> /\ in_range
             /\ got.reset = IF input.send_reset THEN input.reset_time ELSE <<>>
             /\ got.calls = parts
             /\ pd.left = SubSeq(input.pending, Len(taken) + 1, Len(input.pending))
             /\ input.pending # <<>> => taken # <<>>
          \/ /\ got = <<>>
             /\ input.send_reset /\ Len(pd.dsts) = MAX_DSTS
             /\ Len(pd.tslot_desc) = MAX_ALLOC_TSLOTS /\ Len(pd.areq) = MAX_AREQ
=============================================================================
