----------------------------- MODULE WindowAbs -----------------------------
(***************************************************************************)
(* What a sliding window promises its callers: a set of marked sequence    *)
(* numbers, all of them among the LEN numbers up to the head.              *)
(***************************************************************************)
EXTENDS Integers

CONSTANTS LEN,      \* length of the window
          SEQ_MOD   \* sequence numbers are counted modulo this

VARIABLES head, marks

avars == <<head, marks>>

Seqno == 0 .. SEQ_MOD - 1

Ago(s) == (head - s) % SEQ_MOD

InWindow(s) == Ago(s) < LEN

AInit == head \in Seqno /\ marks = {}

\* Marking adds numbers of the window that were not marked.
AMark ==
    /\ marks \subseteq marks'
    /\ \A s \in marks' \ marks : InWindow(s)
    /\ UNCHANGED head

AClear ==
    /\ \E s \in marks : marks' = marks \ {s}
    /\ UNCHANGED head

\* Moving the head never drops a mark.
AAdvance ==
    /\ head' \in Seqno
    /\ \A s \in marks : Ago(s) + ((head' - head) % SEQ_MOD) < LEN
    /\ UNCHANGED marks

AReset == head' \in Seqno /\ marks' = {}

ANext == AMark \/ AClear \/ AAdvance \/ AReset

ASpec == AInit /\ [][ANext]_avars
=============================================================================
