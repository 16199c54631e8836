------------------------------- MODULE Window -------------------------------
(***************************************************************************)
(* The bitmap window of src/protocol/window.h: WORDS machine words of BITS *)
(* bits used as a ring, a summary word with one bit per non-empty word     *)
(* counted back from the head's word, and the number of marks.             *)
(*                                                                         *)
(* A machine word is the set of its one bits.  Sequence numbers are u64,   *)
(* counted modulo SEQ_MOD (2^64 in the code).                              *)
(***************************************************************************)
EXTENDS Integers, FiniteSets, FiniteSetsExt

CONSTANTS BITS,         \* BITS_PER_LONG
          WORDS,        \* FASTPASS_WND_WORDS
          SEQ_MOD,      \* the modulus of sequence numbers
          HEAD_MAX,     \* bound: the head is not advanced past this
          RESET_HEADS,  \* the heads wnd_reset is called with
          AMOUNTS       \* the amounts wnd_mark_bulk and wnd_advance are called with

ASSUME WindowAssumption ==
    /\ BITS \in Nat /\ WORDS \in 2 .. BITS
    /\ SEQ_MOD % (BITS * WORDS) = 0 /\ SEQ_MOD >= 2 * BITS * WORDS
    /\ HEAD_MAX \in Nat
    /\ RESET_HEADS \subseteq 0 .. SEQ_MOD - 1 /\ RESET_HEADS # {}
    /\ AMOUNTS \subseteq 1 .. SEQ_MOD - 1

VARIABLES marked,      \* marked[w]: the one bits of word w
          summary,     \* the one bits of the summary word
          head,        \* latest sequence number of the window
          head_word,   \* the word the head is in
          num_marked,  \* number of marks
          bug          \* a FASTPASS_BUG_ON fired

windowvars == <<marked, summary, head, head_word, num_marked, bug>>

LEN == BITS * WORDS - BITS
Seqno == 0 .. SEQ_MOD - 1
Bits == 0 .. BITS - 1
Words == 0 .. WORDS - 1

-----------------------------------------------------------------------------
(* Machine arithmetic: u64 sums, comparisons by the sign of a difference,  *)
(* shifts and bit scans of a word.                                         *)

plus(a, b) == (a + b) % SEQ_MOD
minus(a, b) == (a - b) % SEQ_MOD
time_after64(a, b) == minus(b, a) >= SEQ_MOD \div 2
time_before64(a, b) == time_after64(b, a)
time_before_eq64(a, b) == ~time_after64(a, b)
time_after_eq64(a, b) == ~time_after64(b, a)

shl(S, k) == {i + k : i \in S} \cap Bits
shr(S, k) == {i - k : i \in S} \cap Bits
fls(S) == Max(S)
ffs(S) == Min(S)

BIT_WORD(n) == n \div BITS
BIT_OFFSET(n) == n % BITS
wnd_pos(s) == s % (BITS * WORDS)
summary_pos(pos) == (head_word - BIT_WORD(pos)) % WORDS
wnd_empty == num_marked = 0
wnd_edge == plus(minus(head, LEN), 1)
wnd_seq_before(s) == time_before64(s, wnd_edge)
wnd_seq_after(s) == time_after64(s, head)
wnd_is_marked(s) == BIT_OFFSET(wnd_pos(s)) \in marked[BIT_WORD(wnd_pos(s))]

-----------------------------------------------------------------------------
(* Queries.                                                                *)

\* How far before s the nearest mark at or before s is, or -1 if there is none.
wnd_at_or_before(s) ==
    LET idx == wnd_pos(s)
        here == shl(marked[BIT_WORD(idx)], BITS - 1 - BIT_OFFSET(idx))
        older == shr(summary, summary_pos(idx)) \ {0}
    IN  IF time_before_eq64(s, minus(head, LEN)) THEN -1
        ELSE IF here # {} THEN BITS - 1 - fls(here)
        ELSE IF older = {} THEN -1
        ELSE LET k == ffs(older) IN
             BITS * k + BIT_OFFSET(idx) - fls(marked[(BIT_WORD(idx) - k) % WORDS])

wnd_earliest_marked ==
    LET k == fls(summary)
    IN  plus(minus(head - BIT_OFFSET(head), BITS * k),
             ffs(marked[(head_word - k) % WORDS]))

\* The earliest mark not before s, as a set: empty when there is none.
wnd_at_or_after(s) ==
    LET idx == wnd_pos(s)
        here == shr(marked[BIT_WORD(idx)], BIT_OFFSET(idx))
        newer == shl(summary, BITS - 1 - summary_pos(idx)) \ {BITS - 1}
    IN  CASE wnd_seq_after(s) -> {}
          [] wnd_seq_before(s) -> IF wnd_empty THEN {} ELSE {wnd_earliest_marked}
          [] ~wnd_seq_after(s) /\ ~wnd_seq_before(s) ->
               IF here # {} THEN {plus(s, ffs(here))}
               ELSE IF newer = {} THEN {}
               ELSE LET k == BITS - 1 - fls(newer)
                        w == marked[(BIT_WORD(idx) + k) % WORDS]
                    IN  {plus(minus(s, BIT_OFFSET(idx)), BITS * k + ffs(w))}

wnd_get_mask_unsafe(p) ==
    LET w == BIT_WORD(wnd_pos(p))
        o == BIT_OFFSET(wnd_pos(p))
    IN  IF o = BITS - 1 THEN marked[w]
        ELSE shl(marked[w], BITS - 1 - o) \cup shr(marked[(w - 1) % WORDS], o + 1)

\* Bit i of the result stands for sequence number p - (BITS-1) + i.
wnd_get_mask(p) ==
    IF \/ time_before_eq64(p, minus(head, LEN))
       \/ time_after_eq64(p, plus(head, BITS))
    THEN {}
    ELSE wnd_get_mask_unsafe(p)

-----------------------------------------------------------------------------
(* Updates.  The guards are the contracts of the callers.                  *)

wnd_mark(s) ==
    LET idx == wnd_pos(s) IN
    /\ bug' = wnd_is_marked(s)
    /\ marked' = [marked EXCEPT ![BIT_WORD(idx)] = @ \cup {BIT_OFFSET(idx)}]
    /\ summary' = summary \cup {summary_pos(idx)}
    /\ num_marked' = num_marked + 1
    /\ UNCHANGED <<head, head_word>>

\* The words from the one of s on, each with the part of it the stretch covers.
bulk_part(s, amount, w) ==
    LET first == wnd_pos(s)
        final == wnd_pos(plus(s, amount - 1))
        after == (w - BIT_WORD(first)) % WORDS
        span == (BIT_WORD(final) - BIT_WORD(first)) % WORDS
        low == IF after = 0 THEN BIT_OFFSET(first) ELSE 0
        high == IF after = span THEN BIT_OFFSET(final) ELSE BITS - 1
    IN  IF after <= span THEN low .. high ELSE {}

wnd_mark_bulk(s, amount) ==
    LET first == wnd_pos(s)
        final == wnd_pos(plus(s, amount - 1))
    IN
    /\ bug' = \/ time_before_eq64(s, minus(head, LEN))
              \/ time_after64(plus(s, amount - 1), head)
              \/ \E w \in Words : marked[w] \cap bulk_part(s, amount, w) # {}
    /\ marked' = [w \in Words |-> marked[w] \cup bulk_part(s, amount, w)]
    /\ summary' = summary \cup (summary_pos(final) .. summary_pos(first))
    /\ num_marked' = num_marked + amount
    /\ UNCHANGED <<head, head_word>>

wnd_clear(s) ==
    LET idx == wnd_pos(s) IN
    /\ bug' = ~wnd_is_marked(s)
    /\ marked' = [marked EXCEPT ![BIT_WORD(idx)] = @ \ {BIT_OFFSET(idx)}]
    /\ summary' = IF marked'[BIT_WORD(idx)] = {}
                  THEN summary \ {summary_pos(idx)} ELSE summary
    /\ num_marked' = num_marked - 1
    /\ UNCHANGED <<head, head_word>>

mut_reset_keeps_bits(h) ==
    /\ head' = h
    /\ head_word' = BIT_WORD(wnd_pos(h))
    /\ summary' = {}
    /\ num_marked' = 0
    /\ UNCHANGED <<marked, bug>>

wnd_reset(h) ==
    /\ marked' = [w \in Words |-> {}]
    /\ head' = h
    /\ head_word' = BIT_WORD(wnd_pos(h))
    /\ summary' = {}
    /\ num_marked' = 0
    /\ UNCHANGED bug

\* word_shift is a u64 difference of two word numbers.
wnd_advance(amount) ==
    LET word_shift == minus(BIT_WORD(plus(head, amount)), BIT_WORD(head)) IN
    /\ IF word_shift >= WORDS
       THEN /\ bug' = (num_marked # 0)
            /\ marked' = [w \in Words |-> {}]
            /\ summary' = {}
       ELSE /\ bug' = /\ ~wnd_empty
                      /\ time_before_eq64(wnd_earliest_marked,
                                          minus(plus(head, amount), LEN))
            /\ summary' = shl(summary, word_shift)
            /\ UNCHANGED marked
    /\ head' = plus(head, amount)
    /\ head_word' = (head_word + word_shift) % WORDS
    /\ UNCHANGED num_marked

-----------------------------------------------------------------------------

Ago(s) == minus(head, s)
WindowSeqnos == {minus(head, i) : i \in 0 .. LEN - 1}

\* The abstract content: the sequence numbers of the window whose bit is set.
marks == {s \in WindowSeqnos : wnd_is_marked(s)}

WindowInit ==
    /\ head \in RESET_HEADS
    /\ marked = [w \in Words |-> {}]
    /\ head_word = BIT_WORD(wnd_pos(head))
    /\ summary = {} /\ num_marked = 0 /\ bug = FALSE

Mark == \E s \in WindowSeqnos \ marks : wnd_mark(s)

MarkBulk ==
    \E s \in WindowSeqnos, amount \in AMOUNTS :
        /\ amount <= Ago(s) + 1
        /\ {plus(s, i) : i \in 0 .. amount - 1} \cap marks = {}
        /\ wnd_mark_bulk(s, amount)

Clear == \E s \in marks : wnd_clear(s)

\* The caller unmarks whatever would fall off first.
Advance ==
    \E amount \in AMOUNTS :
        /\ head + amount <= HEAD_MAX
        /\ \A s \in marks : Ago(s) + amount < LEN
        /\ wnd_advance(amount)

Reset == \E h \in RESET_HEADS : wnd_reset(h)

WindowNext == ~bug /\ (Mark \/ MarkBulk \/ Clear \/ Advance \/ Reset)

WindowSpec == WindowInit /\ [][WindowNext]_windowvars

-----------------------------------------------------------------------------

WindowTypeOK ==
    /\ marked \in [Words -> SUBSET Bits]
    /\ summary \subseteq Words
    /\ head \in Seqno /\ head_word \in Words
    /\ num_marked \in 0 .. LEN
    /\ bug \in BOOLEAN

\* The redundant fields agree with the bitmap: the summary has exactly the bits of
\* the non-empty words, the count is the number of marks, and no bit outside the
\* window is set (wnd_get_mask relies on those zeros).
\* No FASTPASS_BUG_ON of window.h fires while the callers keep their contracts.
Representation ==
    /\ WindowTypeOK /\ ~bug
    /\ head_word = BIT_WORD(wnd_pos(head))
    /\ summary = {(head_word - w) % WORDS : w \in {v \in Words : marked[v] # {}}}
    /\ num_marked = Cardinality(marks)
    /\ \A w \in Words : \A o \in marked[w] : \E s \in WindowSeqnos : wnd_pos(s) = BITS * w + o

\* wnd_at_or_before, wnd_at_or_after and wnd_earliest_marked find the nearest mark,
\* wherever in the ring of words it lies.
NearestMark ==
    LET M == marks IN
    /\ \A s \in WindowSeqnos :
         LET before == {Ago(m) - Ago(s) : m \in {x \in M : Ago(x) >= Ago(s)}}
         IN  wnd_at_or_before(s) = IF before = {} THEN -1 ELSE Min(before)
    /\ \A s \in {plus(wnd_edge, i) : i \in -BITS .. LEN} :
         LET fresh == {m \in M : wnd_seq_before(s) \/ Ago(m) <= Ago(s)}
         IN  wnd_at_or_after(s) =
               IF fresh = {} \/ wnd_seq_after(s) THEN {}
               ELSE {CHOOSE m \in fresh : \A x \in fresh : Ago(m) >= Ago(x)}

\* wnd_get_mask returns the marks of [p-(BITS-1), p] and zeros outside the window,
\* also when p is after the head or the mask straddles two words.
MaskExact ==
    LET M == marks IN
    \A i \in -BITS .. LEN + 2 * BITS :
        LET p == plus(wnd_edge, i) IN
        wnd_get_mask(p) = {b \in Bits : minus(p, BITS - 1 - b) \in M}

Abs == INSTANCE WindowAbs WITH head <- head, marks <- marks

\* The bitmap implements a set of marks within the window: every step of window.h is
\* one of WindowAbs or leaves the head and the marks alone, the redundant fields agree,
\* and the queries find what they would find in the set.
ImplementsWindow ==
    /\ Abs!AInit
    /\ [][Abs!ANext \/ (head' = head /\ marks' = marks)]_windowvars
    /\ [](Representation /\ NearestMark /\ MaskExact)
=============================================================================
