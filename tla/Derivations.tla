---------------------------- MODULE Derivations ----------------------------
(***************************************************************************)
(* The derivation scripts as a machine: pick one case of one script, run   *)
(* the register-faithful algorithm on it, compare with the reference.  The *)
(* straight-line algorithms take one step; the addition chain takes one    *)
(* step per instruction and the comb one per block, so what holds in the   *)
(* middle of them can be stated too.                                       *)
(***************************************************************************)
EXTENDS P256Field, P256Scalar, P256Comb, GcmCounter

CONSTANTS MulOperands,   \* pairs <<a, b>> below B^8
          WideInputs,    \* integers below B^16 given to the reduction alone
          MontOperands,  \* pairs <<a, b>> below N
          LowParts,      \* bit sequences ending the exponent
          Scalars,       \* scalars below 2^(Window * BLOCKS)
          Counters       \* pairs <<blocks, start>>

ASSUME CasesAssumption ==
    /\ MulOperands \subseteq (0..(Power(L, 4) - 1)) \X (0..(Power(L, 4) - 1))
    /\ WideInputs \subseteq 0..(Power(L, 8) - 1)
    /\ MontOperands \subseteq (0..(N - 1)) \X (0..(N - 1))
ASSUME CountersAssumption == Counters \subseteq Nat \X Nat

VARIABLES job,   \* the script and its case
          pc,    \* steps taken
          st     \* what the algorithm has computed so far
vars == <<job, pc, st>>

Case(kind, arg) == [kind |-> kind, arg |-> arg]

ChainStart == [s \in {ACC} \cup SLOT |-> IF s = 1 THEN 1 ELSE 0]
CombStart == [acc |-> [x |-> 0, y |-> 0, z |-> 0], degenerate |-> FALSE]

Init ==
    /\ pc = 0
    /\ \/ job \in {Case("mul", a) : a \in MulOperands} /\ st = <<>>
       \/ job \in {Case("reduce", a) : a \in WideInputs} /\ st = <<>>
       \/ job \in {Case("mont", a) : a \in MontOperands} /\ st = MontStart
       \/ job \in {Case("chain", a) : a \in {l \in LowParts : Buildable(l)}} /\ st = ChainStart
       \/ job \in {Case("comb", k) : k \in Scalars} /\ st = CombStart
       \/ job \in {Case("counter", a) : a \in Counters} /\ st = <<>>

(* p256_fe_mul_derivation.py check: one pair. *)
CheckMul ==
    /\ job.kind = "mul" /\ pc = 0
    /\ st' = fe_mul_hw(job.arg[1], job.arg[2])
    /\ pc' = 1 /\ UNCHANGED job

(* p256_reduce_derivation.py check: one 16-word input. *)
CheckReduce ==
    /\ job.kind = "reduce" /\ pc = 0
    /\ st' = reduce_full(LimbsOf(job.arg, L, 8))
    /\ pc' = 1 /\ UNCHANGED job

(* p256_scalar_inv_derivation.py: a Montgomery product, row by row.         *)
CheckMont ==
    /\ job.kind = "mont" /\ pc < 8
    /\ st' = MontStep(st, pc, LimbsOf(job.arg[1], M, 4), LimbsOf(job.arg[2], M, 4))
    /\ pc' = pc + 1 /\ UNCHANGED job

CheckMontFinal ==
    /\ job.kind = "mont" /\ pc = 8
    /\ st' = FinalSubtract(st)
    /\ pc' = 9 /\ UNCHANGED job

(* One instruction of the chain, replayed on exponents. *)
ChainStep ==
    /\ job.kind = "chain" /\ pc < Len(build_chain(job.arg))
    /\ st' = RunInsn(st, build_chain(job.arg)[pc + 1])
    /\ pc' = pc + 1 /\ UNCHANGED job

(* One block of the comb. *)
CombStep ==
    /\ job.kind = "comb" /\ pc < BLOCKS
    /\ st' = [acc |-> CombBlock(st.acc, job.arg, pc),
              degenerate |-> st.degenerate \/ Degenerate(st.acc, job.arg, pc)]
    /\ pc' = pc + 1 /\ UNCHANGED job

(* gcm_ctr_sweep_derivation.py check_counter_model: one length and start. *)
CheckCounter ==
    /\ job.kind = "counter" /\ pc = 0
    /\ st' = unrolled_seq(job.arg[1], job.arg[2])
    /\ pc' = 1 /\ UNCHANGED job

Next == CheckMul \/ CheckReduce \/ CheckMont \/ CheckMontFinal \/ ChainStep \/ CombStep \/ CheckCounter

Spec == Init /\ [][Next]_vars

-----------------------------------------------------------------------------
(* The first fold's carry stays in the range cmd_bound computes.            *)
CarryInRange(T) == FirstFold(T).carry \in CarryMin..CarryMax

(* The field multiplication is exact: no row of the product carries out of  *)
(* its last limb (the instruction the assembly leaves out), the eight limbs *)
(* are a * b, and one addition and two subtractions of p after two folds    *)
(* leave the canonical residue with nothing in the fifth limb, for products *)
(* and for every other 16-word input.  The fold table is congruent to the   *)
(* words it replaces and the carry it folds stays in cmd_bound's range.     *)
FieldExact ==
    /\ job.kind = "mul" /\ pc = 1 =>
          LET a == job.arg[1]
              b == job.arg[2]
          IN  /\ RowBound /\ TableExact /\ CarryInRange(st.product)
              /\ st.fits /\ Eight(st.product, L) = a * b
              /\ st.ext = 0 /\ st.out = (a * b) % P
    /\ job.kind = "reduce" /\ pc = 1 => st.ext = 0 /\ value(st.r) = job.arg % P

(* A Montgomery product of two residues keeps every bound the assembly has  *)
(* no instruction for (rows, a fifth word of at most one, a result below    *)
(* 2n); the product is complete after four rows, each round clears one more *)
(* limb without changing the residue, and one subtraction whose borrow is   *)
(* taken from the fifth word leaves a * b / R mod n.                        *)
MontExact ==
    job.kind = "mont" =>
        LET ab == job.arg[1] * job.arg[2]
        IN  /\ st.ok
            /\ pc = 4 => Eight(st.t, M) = ab
            /\ pc \in 4..8 => /\ (Eight(st.t, M) + st.ext * R * R - ab) % N = 0
                              /\ \A k \in 0..(pc - 5) : st.t[k] = 0
            /\ pc = 9 => Number(st.out) = ((ab % N) * RInverse) % N

(* How many bits of the exponent the accumulator has taken in. *)
BitsTaken ==
    LET prog == build_chain(job.arg)
    IN  Run + MapThenSumSet(LAMBDA i : prog[i].nsq,
                            {i \in 1..pc : prog[i].dst = ACC})

(* The addition chain never reads a slot before it is written, a slot holds *)
(* as many ones as its name says, and after every main instruction the      *)
(* accumulator is exactly the leading bits of the exponent: at the end, all *)
(* of n - 2.                                                                *)
ChainFollowsExponent ==
    job.kind = "chain" =>
        LET prog == build_chain(job.arg)
            bits == ExponentBits(job.arg)
        IN  /\ \A s \in SLOT : st[s] \in {0, 2^s - 1}
            /\ pc < Len(prog) => /\ st[prog[pc + 1].src] # 0
                                 /\ prog[pc + 1].mul # NO_MUL => st[prog[pc + 1].mul] # 0
            /\ BitsTaken <= Len(bits)
            /\ pc > 0 /\ prog[pc].dst = ACC =>
                  st[ACC] = ValueOfBits(SubSeq(bits, 1, BitsTaken))
            /\ pc = Len(prog) => BitsTaken = Len(bits)

(* The integer formed by the digits taken so far. *)
LowDigits == job.arg % 2^(Window * pc)

(* Every entry of the precomputed table is the multiple it stands for, and  *)
(* after every block of the comb the accumulator is the oracle's multiple   *)
(* of the generator for the digits read so far, scalars at and above the    *)
(* order included, and the addition without fallbacks meets an equal or     *)
(* opposite point only when the whole scalar is a multiple of the order.    *)
CombExact ==
    job.kind = "comb" =>
        /\ pc = 0 => verify_table
        /\ to_affine(st.acc) = oracle_mul_base(LowDigits)
        /\ st.degenerate => job.arg % Order = 0 /\ pc = BLOCKS

(* Four blocks at a time give the sequence of one at a time wherever the    *)
(* counter wraps inside a group, and no counter is encrypted twice by one   *)
(* seal, the tag's included, while the message is shorter than a wrap.      *)
CountersAgree ==
    job.kind = "counter" /\ pc = 1 =>
        /\ st = current_seq(job.arg[1], job.arg[2])
        /\ job.arg[1] + 2 <= CtrMod => IsInjective(seal(job.arg[1], TRUE))
=============================================================================
