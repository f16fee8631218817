---------------------------- MODULE GcmCounter ----------------------------
(***************************************************************************)
(* The CTR block sequence of AES-GCM, from                                 *)
(* scripts/gcm_ctr_sweep_derivation.py: the counter kept in memory and     *)
(* incremented per block, and the register form that emits four blocks at  *)
(* a time.  The counter wraps at CtrMod (2^32 in the script).  A block is  *)
(* its counter: the twelve bytes of the IV never change.                   *)
(***************************************************************************)
EXTENDS Integers, Sequences

CONSTANT CtrMod

ASSUME CounterAssumption == CtrMod \in Nat \ {0}

current_seq(n, start) ==
    LET jbuf[i \in 0..(n + 1)] == IF i = 0 THEN start % CtrMod
                                  ELSE (jbuf[i - 1] + 1) % CtrMod
    IN  [j0 |-> jbuf[0], blocks |-> [i \in 1..n |-> jbuf[i]], tail |-> jbuf[n + 1]]

\* Mutant: the offsets inside a group do not wrap.
UnwrappedGroups(n, start) ==
    LET groups == n \div 4
        ctr[g \in 0..groups] == IF g = 0 THEN (start + 1) % CtrMod
                                ELSE (ctr[g - 1] + 4) % CtrMod
        rest[k \in 0..(n % 4)] == IF k = 0 THEN ctr[groups]
                                  ELSE (rest[k - 1] + 1) % CtrMod
    IN  [j0     |-> start % CtrMod,
         blocks |-> [i \in 1..n |->
                        IF i <= 4 * groups THEN ctr[(i - 1) \div 4] + ((i - 1) % 4)
                        ELSE rest[i - 1 - 4 * groups]],
         tail   |-> rest[n % 4]]

(* Groups of four at offsets 0 to 3 from a counter that moves on by four,   *)
(* then the blocks left over one by one; every sum wraps.                   *)
unrolled_seq(n, start) ==
    LET groups == n \div 4
        ctr[g \in 0..groups] == IF g = 0 THEN (start + 1) % CtrMod
                                ELSE (ctr[g - 1] + 4) % CtrMod
        rest[k \in 0..(n % 4)] == IF k = 0 THEN ctr[groups]
                                  ELSE (rest[k - 1] + 1) % CtrMod
    IN  [j0     |-> start % CtrMod,
         blocks |-> [i \in 1..n |->
                        IF i <= 4 * groups THEN (ctr[(i - 1) \div 4] + ((i - 1) % 4)) % CtrMod
                        ELSE rest[i - 1 - 4 * groups]],
         tail   |-> rest[n % 4]]

(* The counters seal encrypts, in order: the whole blocks, the partial one, *)
(* and j0 for the tag.                                                      *)
seal(n, partial) ==
    LET s == unrolled_seq(n, 1)
    IN  s.blocks \o (IF partial THEN <<s.tail>> ELSE <<>>) \o <<s.j0>>
=============================================================================
