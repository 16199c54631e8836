--------------------------- MODULE TimeslotTable ---------------------------
(***************************************************************************)
(* The flow table of the end node's queueing discipline and the change of  *)
(* its configuration (kernel-mod/sch_timeslot.c).                          *)
(*                                                                         *)
(* The table is an array of 2^hash_tbl_log trees; a flow is in the tree    *)
(* that the highest bits of its key's hash select.  tsq_tc_change runs     *)
(* under the kernel's root lock, while the tasklet and the CPUs that       *)
(* receive allocations look flows up under hash_tbl_lock alone.  Moving    *)
(* the flows to a new array is one critical section of that lock; freeing  *)
(* the old array and switching to the new one come after it.               *)
(***************************************************************************)
EXTENDS Integers

CONSTANTS Keys,          \* src_dst_keys of flows
          HASH_BITS,     \* 32 in the code
          src_dst_key_hash,  \* of each key
          MAX_LOG,       \* ilog2(256 * 1024)
          Requests,      \* configurations that are asked for
          MAX_CHANGES

VARIABLES dst_hash_tbl,  \* the array in use: its trees, each a set of keys
          hash_tbl_log,
          array,         \* the new array of a resize; <<>> when there is none
          config,        \* sch->limit, data_rate, tslot_mul and tslot_shift
          change,        \* the change at work: what it asked for and where it is
          flows,         \* history: the keys that a flow was created for
          raced,         \* a lookup ran on an array that was not in order
          oops,          \* the kernel stopped
          changes

tablevars == <<dst_hash_tbl, hash_tbl_log, array, config, change, flows, raced, oops, changes>>

NO_ARRAY == [i \in {} |-> {}]
IDLE == [at |-> "idle"]
ABSENT == -1          \* tslot_mul or tslot_shift is not asked for

\* The tree of a key in an array of 2^log trees
cell(key, log) == src_dst_key_hash[key] \div 2 ^ (HASH_BITS - log)

\* A hash has HASH_BITS bits.
ASSUME HashInRange == \A key \in Keys, log \in 1 .. MAX_LOG : cell(key, log) \in 0 .. 2 ^ log - 1

empty(log) == [i \in 0 .. 2 ^ log - 1 |-> {}]
keys_in(a) == UNION {a[i] : i \in DOMAIN a}

\* tsq_tc_init, with the default size
TableInit ==
    /\ \E log \in 1 .. MAX_LOG : hash_tbl_log = log /\ dst_hash_tbl = empty(log)
    /\ array = NO_ARRAY
    /\ config = [limit |-> 1, rate |-> 1, mul |-> 1, shift |-> 1]
    /\ change = IDLE
    /\ flows = {} /\ raced = FALSE /\ oops = FALSE /\ changes = 0

-----------------------------------------------------------------------------
\* From the end of the rehash until the size is switched, the fields that a lookup
\* reads describe an array that is empty, then freed, then of the other size.
in_order == change.at \in {"idle", "alloc", "rehash", "tslot"}

\* dst_lookup by the tasklet, which creates a flow that is missing, or by tsq_admit_now.
dst_lookup(key, create_if_missing) ==
    /\ ~raced /\ ~oops
    /\ IF ~in_order THEN raced' = TRUE /\ UNCHANGED <<dst_hash_tbl, flows>>
       ELSE LET i == cell(key, hash_tbl_log) IN
            /\ create_if_missing /\ key \notin dst_hash_tbl[i]
            /\ dst_hash_tbl' = [dst_hash_tbl EXCEPT ![i] = @ \cup {key}]
            /\ flows' = flows \cup {key}
            /\ UNCHANGED raced
    /\ UNCHANGED <<hash_tbl_log, array, config, change, oops, changes>>

\* What may be asked for: a wrong value is not taken, but what else was asked for is.
accepted(req) ==
    [config EXCEPT !.limit = IF req.limit > 0 THEN req.limit ELSE @,
                   !.rate = IF req.rate > 0 THEN req.rate ELSE @]

fp_log(req) == IF req.log \in 1 .. MAX_LOG THEN req.log ELSE hash_tbl_log

\* The first part of tsq_tc_change, up to the test in tsq_tc_resize: with the size in
\* use there is nothing to resize.
tsq_tc_change(req) ==
    /\ change = IDLE /\ changes < MAX_CHANGES /\ ~raced /\ ~oops
    /\ changes' = changes + 1
    /\ config' = accepted(req)
    /\ change' = [at |-> IF fp_log(req) = hash_tbl_log THEN "tslot" ELSE "alloc",
                  log |-> fp_log(req), mul |-> req.mul, shift |-> req.shift]
    /\ UNCHANGED <<dst_hash_tbl, hash_tbl_log, array, flows, raced, oops>>

at_change(pc) == change.at = pc /\ ~raced /\ ~oops /\ UNCHANGED <<flows, raced, changes>>

\* tsq_tc_resize allocates the array, or the change fails.
resize_alloc ==
    /\ at_change("alloc")
    /\ \/ array' = empty(change.log) /\ change' = [change EXCEPT !.at = "rehash"]
       \/ change' = IDLE /\ UNCHANGED array
    /\ UNCHANGED <<dst_hash_tbl, hash_tbl_log, config, oops>>

\* rehash_dst_table holds hash_tbl_lock throughout; meeting a key twice is a BUG.
rehash_dst_table ==
    /\ at_change("rehash")
    /\ array' = [i \in DOMAIN array |-> {k \in keys_in(dst_hash_tbl) : cell(k, change.log) = i}]
    /\ oops' = (\E i, j \in DOMAIN dst_hash_tbl : i # j /\ dst_hash_tbl[i] \cap dst_hash_tbl[j] # {})
    /\ dst_hash_tbl' = empty(hash_tbl_log)
    /\ change' = [change EXCEPT !.at = "free"]
    /\ UNCHANGED <<hash_tbl_log, config>>

free_old_table ==
    /\ at_change("free")
    /\ dst_hash_tbl' = NO_ARRAY
    /\ change' = [change EXCEPT !.at = "switch"]
    /\ UNCHANGED <<hash_tbl_log, array, config, oops>>

switch_table ==
    /\ at_change("switch")
    /\ dst_hash_tbl' = array
    /\ array' = NO_ARRAY
    /\ change' = [change EXCEPT !.at = "size"]
    /\ UNCHANGED <<hash_tbl_log, config, oops>>

mut_switch_size == UNCHANGED hash_tbl_log

switch_size == hash_tbl_log' = change.log

switch_log ==
    /\ at_change("size")
    /\ switch_size
    /\ change' = [change EXCEPT !.at = "tslot"]
    /\ UNCHANGED <<dst_hash_tbl, array, config, oops>>

\* A value that is not asked for stays.
changed_to(asked, old) == IF asked = ABSENT THEN old ELSE asked

\* The end of tsq_tc_change: err is what the resize returned, so a multiplier of zero
\* is taken like any other, and dividing by it stops the kernel.  current_timeslot and
\* the window of allocations, which are set anew, are not part of this module.
change_timeslot ==
    LET mul == changed_to(change.mul, config.mul) IN
    /\ at_change("tslot")
    /\ config' = [config EXCEPT !.mul = mul, !.shift = changed_to(change.shift, @)]
    /\ oops' = ({change.mul, change.shift} # {ABSENT} /\ mul = 0)
    /\ change' = IDLE
    /\ UNCHANGED <<dst_hash_tbl, hash_tbl_log, array>>

TableNext ==
    \/ \E key \in Keys, create \in BOOLEAN : dst_lookup(key, create)
    \/ \E req \in Requests : tsq_tc_change(req)
    \/ resize_alloc \/ rehash_dst_table \/ free_old_table \/ switch_table \/ switch_log
    \/ change_timeslot

TableSpec == TableInit /\ [][TableNext]_tablevars

-----------------------------------------------------------------------------
\* Through every sequence of resizes, failed ones included, a flow once created is
\* where dst_lookup looks for it and nowhere else, so rehash_dst_table's BUG_ON never
\* fires; whatever is asked for, the size, the limit and the rate stay in range; and
\* only a multiplier of zero stops the kernel.  This is so until a lookup runs between
\* the rehash and the switch of the size, which no lock prevents.
FlowsFindable ==
    ~raced =>
        /\ oops <=> (config.mul = 0)
        /\ hash_tbl_log \in 1 .. MAX_LOG /\ config.limit > 0 /\ config.rate > 0
        /\ in_order =>
             \A key \in Keys, i \in DOMAIN dst_hash_tbl :
                 key \in dst_hash_tbl[i] <=> key \in flows /\ i = cell(key, hash_tbl_log)
=============================================================================
