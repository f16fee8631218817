----------------------------- MODULE P256Scalar -----------------------------
(***************************************************************************)
(* The reference arithmetic behind p256_scalar_inv, from                   *)
(* scripts/p256_scalar_inv_derivation.py: the four-limb Montgomery         *)
(* multiplication and the addition chain for n - 2.  A limb is below M     *)
(* (2^64 in the script).  The chain is built for any exponent with the     *)
(* shape build_chain asserts: Run ones, Run zeros, 2 Run + 1 ones (Run is  *)
(* 32 in the script), then a low part whose runs of ones are short.        *)
(***************************************************************************)
EXTENDS Limbs, Sequences, FiniteSetsExt, SequencesExt

CONSTANTS M,          \* the base of a limb (2^64)
          N,          \* the modulus, of four limbs and with an inverse modulo M
          Run,        \* the length of the long runs (32)
          Ladder,     \* run lengths built one bit at a time (2..6)
          Doubling    \* run lengths built by doubling, in order (8, 16, 32)

ASSUME LimbAssumption ==
    /\ M \in Nat /\ M > 1
    /\ N \in Nat /\ N > 1 /\ N < Power(M, 4)
    /\ \E x \in 0..(M - 1) : (x * N) % M = M - 1
ASSUME ScalarAssumption == Run \in {Doubling[i] : i \in DOMAIN Doubling}

R == Power(M, 4)
RInverse == CHOOSE x \in 1..(N - 1) : (x * (R % N)) % N = 1
N0INV == CHOOSE x \in 0..(M - 1) : (x * N) % M = M - 1

Number(w) == Four(w, M, 0)
NW == LimbsOf(N, M, 4)

-----------------------------------------------------------------------------
(* mont_mul_hw.  A row adds a * bi at limb i: low halves, then high halves. *)

ProductRow(s, i, aw, bi) ==
    LET c1 == Chain([j \in 0..3 |-> s.t[i + j] + ((aw[j] * bi) % M)], M, 4)
        t1 == [k \in 0..7 |-> IF k \in i..(i + 3) THEN c1.digit[k - i]
                              ELSE IF k = i + 4 THEN c1.carry ELSE s.t[k]]
        c2 == Chain([j \in 0..3 |-> t1[i + 1 + j] + ((aw[j] * bi) \div M)], M, 4)
    IN  [s EXCEPT !.t = [k \in 0..7 |-> IF k \in (i + 1)..(i + 4)
                                        THEN c2.digit[k - i - 1] ELSE t1[k]],
                  !.ok = @ /\ c2.carry = 0]

(* A reduction round zeroes limb i by adding m * n there, and carries the   *)
(* two words left over up to limb 7 and into ext.                           *)
ReduceRound(s, i) ==
    LET m  == (s.t[i] * N0INV) % M
        c1 == Chain([j \in 0..3 |-> s.t[i + j] + ((m * NW[j]) % M)], M, 4)
        t1 == [k \in 0..7 |-> IF k \in i..(i + 3) THEN c1.digit[k - i] ELSE s.t[k]]
        c2 == Chain([j \in 0..2 |-> t1[i + 1 + j] + ((m * NW[j]) \div M)], M, 3)
        up == c1.carry + ((m * NW[3]) \div M) + c2.carry
        \* the words above: limb i+4 takes up mod M, limb i+5 up div M
        n  == 4 - i
        hi == Chain([j \in 0..(n - 1) |->
                        s.t[i + 4 + j] + (IF j = 0 THEN up % M ELSE 0)
                                       + (IF j = 1 THEN up \div M ELSE 0)], M, n)
        e  == s.ext + hi.carry + (IF n = 1 THEN up \div M ELSE 0)
    IN  [t   |-> [k \in 0..7 |-> CASE k \in (i + 1)..(i + 3) -> c2.digit[k - i - 1]
                                   [] k >= i + 4 -> hi.digit[k - i - 4]
                                   [] OTHER -> t1[k]],
         ext |-> e,
         ok  |-> s.ok /\ t1[i] = 0 /\ up \div M <= 1 /\ e <= 1]

\* Mutant: the fifth word is ignored.
FinalSubtractFourLimbs(s) ==
    LET res == [k \in 0..3 |-> s.t[k + 4]]
        d   == Chain([k \in 0..3 |-> res[k] - NW[k]], M, 4)
    IN  [out |-> IF d.carry < 0 THEN res ELSE d.digit,
         ok  |-> s.ok /\ Number(res) + s.ext * R < 2 * N]

(* One conditional subtraction; the borrow out of the fifth word decides.   *)
FinalSubtract(s) ==
    LET res == [k \in 0..3 |-> s.t[k + 4]]
        d   == Chain([k \in 0..3 |-> res[k] - NW[k]], M, 4)
    IN  [out |-> IF s.ext + d.carry < 0 THEN res ELSE d.digit,
         ok  |-> s.ok /\ Number(res) + s.ext * R < 2 * N]

(* mont_mul_hw step by step: rows 0 to 3 of the product, then the rounds.   *)
MontStart == [t |-> [k \in 0..7 |-> 0], ext |-> 0, ok |-> TRUE]
MontStep(s, k, aw, bw) ==
    IF k < 4 THEN ProductRow(s, k, aw, bw[k]) ELSE ReduceRound(s, k - 4)

-----------------------------------------------------------------------------
(* The addition chain.  A slot is named by the run length it holds; an      *)
(* instruction squares src nsq times, multiplies by slot mul and stores.    *)

ACC == 0
NO_MUL == -1
SLOT == {1} \cup Ladder \cup {Doubling[i] : i \in DOMAIN Doubling}

Insn(dst, src, nsq, mul) == [dst |-> dst, src |-> src, nsq |-> nsq, mul |-> mul]

LadderProg ==
    [i \in 1..Cardinality(Ladder) |-> Insn(i + 1, i, 1, 1)]
    \o [i \in DOMAIN Doubling |->
            Insn(Doubling[i], Doubling[i] \div 2, Doubling[i] \div 2, Doubling[i] \div 2)]

LongRuns ==
    << Insn(ACC, Run, Run, NO_MUL), Insn(ACC, ACC, Run, Run),
       Insn(ACC, ACC, Run, Run), Insn(ACC, ACC, 1, 1) >>

(* The end of the run of ones that starts at position i of low.             *)
RunEnd(low, i) ==
    CHOOSE j \in i..(Len(low) + 1) : /\ j = Len(low) + 1 \/ low[j] = 0
                                     /\ \A k \in i..(j - 1) : low[k] = 1

\* Mutant: the zeros before a run are counted again before the next.
LowProgKeepsPending(low) ==
    LET f[i \in 1..(Len(low) + 1), pending \in 0..Len(low)] ==
          IF i > Len(low) THEN <<>>
          ELSE IF low[i] = 0 THEN f[i + 1, pending + 1]
          ELSE LET j == RunEnd(low, i)
               IN  <<Insn(ACC, ACC, pending + (j - i), j - i)>> \o f[j, pending]
    IN  f[1, 0]

(* One instruction per run of ones of the low part: shift past the zeros    *)
(* before it and the run itself, then multiply by that many ones.           *)
LowProg(low) ==
    LET f[i \in 1..(Len(low) + 1), pending \in 0..Len(low)] ==
          IF i > Len(low) THEN <<>>
          ELSE IF low[i] = 0 THEN f[i + 1, pending + 1]
          ELSE LET j == RunEnd(low, i)
               IN  <<Insn(ACC, ACC, pending + (j - i), j - i)>> \o f[j, 0]
    IN  f[1, 0]

build_chain(low) == LadderProg \o LongRuns \o LowProg(low)

(* What build_chain asserts of the low part: its last bit is one and its    *)
(* runs are in the ladder.                                                  *)
Buildable(low) ==
    /\ low[Len(low)] = 1
    /\ \A i \in DOMAIN low : low[i] = 1 /\ (i = 1 \/ low[i - 1] = 0)
                                => RunEnd(low, i) - i \in SLOT

(* The bits of the exponent, most significant first. *)
ExponentBits(low) ==
    [i \in 1..Run |-> 1] \o [i \in 1..Run |-> 0] \o [i \in 1..(2 * Run + 1) |-> 1] \o low
ValueOfBits(bits) == FoldLeft(LAMBDA v, b : 2 * v + b, 0, bits)

(* run_chain's step, on exponents: a squaring doubles, a multiply adds.     *)
RunInsn(slots, insn) ==
    [slots EXCEPT ![insn.dst] =
        slots[insn.src] * 2^insn.nsq + (IF insn.mul = NO_MUL THEN 0 ELSE slots[insn.mul])]
=============================================================================
