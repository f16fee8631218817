----------------------------- MODULE P256Field -----------------------------
(***************************************************************************)
(* The reference arithmetic behind p256_fe_mul: the unrolled 4x4 limb      *)
(* product of scripts/p256_fe_mul_derivation.py and the Solinas folding    *)
(* reduction of scripts/p256_reduce_derivation.py, carry by carry.         *)
(*                                                                         *)
(* The scripts fix a word at 32 bits and a limb at two words.  Both        *)
(* algorithms are uniform in the base B of a word: the prime is            *)
(*     B^8 - B^7 + B^6 + B^3 - 1,  B = 2^32,                               *)
(* and the fold table does not depend on B.  With B = 2 the prime is 199   *)
(* and every operand can be enumerated.                                    *)
(***************************************************************************)
EXTENDS Limbs, Sequences

CONSTANTS B,         \* the base of a word (2^32 in the scripts)
          AccHalf    \* a signed accumulator is below this (2^63 in the scripts)

ASSUME FieldAssumption == /\ B \in Nat /\ B > 1
                          /\ AccHalf \in Nat /\ AccHalf >= 16 * B

L == B * B                     \* one limb
P == Power(B, 8) - Power(B, 7) + Power(B, 6) + Power(B, 3) - 1

-----------------------------------------------------------------------------
words(v) == LimbsOf(v, L, 4)
value(w) == Four(w, L, 0)

-----------------------------------------------------------------------------
(* The product.  Row 0 sets t[0..4]; rows 1 to 3 accumulate the low halves  *)
(* into t[i..i+3], set t[i+4] from the carry, and add the high halves from  *)
(* t[i+1] on.  The last addition of a row has no carry out in the assembly: *)
(* fits records that none was needed.                                       *)

Low(a, b)  == [j \in 0..3 |-> (a[j] * b) % L]
High(a, b) == [j \in 0..3 |-> (a[j] * b) \div L]

RowZero(aw, b) ==
    LET lo  == Low(aw, b)
        hi  == High(aw, b)
        c   == Chain([j \in 0..2 |-> hi[j] + lo[j + 1]], L, 3)
        top == hi[3] + c.carry
    IN  [t    |-> [k \in 0..7 |-> CASE k = 0     -> lo[0]
                                    [] k \in 1..3 -> c.digit[k - 1]
                                    [] k = 4      -> top
                                    [] OTHER      -> 0],
         fits |-> hi[3] <= L - 2 /\ top < L]

RowAccumulate(s, i, aw, b) ==
    LET lo  == Low(aw, b)
        hi  == High(aw, b)
        c1  == Chain([j \in 0..3 |-> s.t[i + j] + lo[j]], L, 4)
        t1  == [k \in 0..7 |-> IF k \in i..(i + 3) THEN c1.digit[k - i]
                               ELSE IF k = i + 4 THEN c1.carry ELSE s.t[k]]
        c2  == Chain([j \in 0..2 |-> t1[i + 1 + j] + hi[j]], L, 3)
        top == t1[i + 4] + hi[3] + c2.carry
    IN  [t    |-> [k \in 0..7 |-> IF k \in (i + 1)..(i + 3) THEN c2.digit[k - i - 1]
                                  ELSE IF k = i + 4 THEN top ELSE t1[k]],
         fits |-> s.fits /\ top < L]

mul4x4_hw(aw, bw) ==
    LET one == RowAccumulate(RowZero(aw, bw[0]), 1, aw, bw[1])
        two == RowAccumulate(one, 2, aw, bw[2])
    IN  RowAccumulate(two, 3, aw, bw[3])

(* prove's row bound: after row i the accumulator is a times the low i + 1  *)
(* limbs of b, which fits i + 5 limbs, and a high half leaves room for one. *)
RowBound ==
    /\ \A i \in 0..3 : (Power(L, 4) - 1) * (Power(L, i + 1) - 1) < Power(L, i + 5)
    /\ ((L - 1) * (L - 1)) \div L = L - 2

-----------------------------------------------------------------------------
(* The fold table.  2^(8W) = p + B^7 - B^6 - B^3 + 1, so a term at word e   *)
(* >= 8 moves to words e-1, e-2, e-5 and e-8 with the signs of Delta.       *)

Delta(d) == CASE d = -1 -> 1 [] d = -2 -> -1 [] d = -5 -> -1 [] d = -8 -> 1
              [] OTHER -> 0

RewriteTerm(terms, e) ==
    [k \in 0..15 |-> IF k = e THEN 0 ELSE terms[k] + terms[e] * Delta(k - e)]

rewrite_high_word(i) ==
    LET r15 == RewriteTerm([k \in 0..15 |-> IF k = i THEN 1 ELSE 0], 15)
        r13 == RewriteTerm(RewriteTerm(r15, 14), 13)
        r11 == RewriteTerm(RewriteTerm(r13, 12), 11)
        r9  == RewriteTerm(RewriteTerm(r11, 10), 9)
    IN  RewriteTerm(r9, 8)

TABLE == [i \in 8..15 |-> rewrite_high_word(i)]

FoldValue(i) == Eight(TABLE[i], B)

(* cmd_derive's check: a row of the table is congruent to the word it folds. *)
TableExact == \A i \in 8..15 : (FoldValue(i) - Power(B, i)) % P = 0

(* cmd_bound: the extreme carries of the first fold, at the vertices. *)
SumHigh(x) == x[8] + x[9] + x[10] + x[11] + x[12] + x[13] + x[14] + x[15]
CarryMin ==
    SumHigh([i \in 8..15 |-> IF FoldValue(i) < 0 THEN (B - 1) * FoldValue(i) ELSE 0])
      \div Power(B, 8)
CarryMax ==
    (Power(B, 8) - 1
     + SumHigh([i \in 8..15 |-> IF FoldValue(i) > 0 THEN (B - 1) * FoldValue(i) ELSE 0]))
      \div Power(B, 8)

-----------------------------------------------------------------------------
(* The reduction: fold the high words, propagate, fold the final carry,     *)
(* propagate again, then correct by one addition and two subtractions of p. *)

s64(x) == LET m == x % (2 * AccHalf)
          IN  IF m >= AccHalf THEN m - 2 * AccHalf ELSE m

WordOf(T, k) == IF k % 2 = 0 THEN T[k \div 2] % B ELSE T[k \div 2] \div B

Propagate(vals) ==
    LET s[j \in 0..7] == s64(vals[j] + (IF j = 0 THEN 0 ELSE s[j - 1] \div B))
    IN  [digit |-> [j \in 0..7 |-> s[j] % B], carry |-> s[7] \div B]

FirstFold(T) ==
    Propagate([j \in 0..7 |->
        WordOf(T, j) + SumHigh([i \in 8..15 |-> TABLE[i][j] * WordOf(T, i)])])

reduce_hw(T) ==
    LET one == FirstFold(T)
        two == Propagate([j \in 0..7 |-> one.digit[j] + TABLE[8][j] * one.carry])
    IN  [r   |-> [k \in 0..3 |-> two.digit[2 * k] + B * two.digit[2 * k + 1]],
         ext |-> two.carry]

pl == [k \in 0..3 |-> <<L - 1, B - 1, 0, L - B + 1>>[k + 1]]

AddBack(x) ==
    LET c == Chain([k \in 0..3 |-> x.r[k] + pl[k]], L, 4)
    IN  IF x.ext < 0 THEN [r |-> c.digit, ext |-> x.ext + c.carry] ELSE x

\* Mutant: the borrow out of four limbs decides, not the one out of ext.
SubtractRoundFourLimbs(x) ==
    LET c == Chain([k \in 0..3 |-> x.r[k] - pl[k]], L, 4)
    IN  IF c.carry >= 0 THEN [r |-> c.digit, ext |-> x.ext + c.carry] ELSE x

(* The subtraction is five limbs wide: its last borrow is taken from ext.   *)
SubtractRound(x) ==
    LET c == Chain([k \in 0..3 |-> x.r[k] - pl[k]], L, 4)
    IN  IF x.ext + c.carry >= 0 THEN [r |-> c.digit, ext |-> x.ext + c.carry] ELSE x

canonicalize(x) == SubtractRound(SubtractRound(AddBack(x)))

reduce_full(T) == canonicalize(reduce_hw(T))

(* p256_fe_mul: the product and its reduction. *)
fe_mul_hw(a, b) ==
    LET m == mul4x4_hw(words(a), words(b))
        x == reduce_full(m.t)
    IN  [product |-> m.t, fits |-> m.fits, ext |-> x.ext, out |-> value(x.r)]
=============================================================================
