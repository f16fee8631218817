------------------------------ MODULE P256Comb ------------------------------
(***************************************************************************)
(* Fixed-base scalar multiplication by a comb, from                        *)
(* scripts/p256_comb_derivation.py: the affine oracle, the precomputed     *)
(* table, the mixed addition without fallbacks, and the masked loop of     *)
(* p256_point_mul_base.  The script's curve is P-256 with 4-bit digits in  *)
(* 64 blocks; the model takes any curve y^2 = x^3 - 3x + b and any window  *)
(* for which the two inequalities prove() asserts hold.                    *)
(***************************************************************************)
EXTENDS Integers, Sequences, FiniteSetsExt, SequencesExt

CONSTANTS Prime,      \* the field
          Order,      \* the prime order of the generator
          Generator,  \* <<x, y>>
          Window,     \* bits of a digit (4)
          BLOCKS      \* digits of a scalar (64)

ENTRIES == 2^Window - 1

(* What prove() asserts of the parameters: the largest table point is a     *)
(* multiple below the order, and only the last block can reach the order.   *)
TopBlockFits ==
    /\ ENTRIES * 2^(Window * (BLOCKS - 1)) < Order
    /\ 2^(Window * (BLOCKS - 1)) <= Order
    /\ 2^(Window * BLOCKS) > Order
ASSUME CombAssumption == TopBlockFits

Infinity == <<>>       \* None in the script
Neg3 == Prime - 3      \* A
Inverse_(x) == CHOOSE y \in 1..(Prime - 1) : ((x % Prime) * y) % Prime = 1

aff_add(p, q) ==
    IF p = Infinity THEN q
    ELSE IF q = Infinity THEN p
    ELSE IF p[1] = q[1] /\ (p[2] + q[2]) % Prime = 0 THEN Infinity
    ELSE LET lam == IF p[1] = q[1]
                    THEN ((3 * p[1] * p[1] + Neg3) * Inverse_(2 * p[2])) % Prime
                    ELSE ((q[2] - p[2]) * Inverse_(q[1] - p[1])) % Prime
             x3  == (lam * lam - p[1] - q[1]) % Prime
         IN  <<x3, (lam * (p[1] - x3) - p[2]) % Prime>>

(* The oracle: left-to-right double and add. *)
aff_mul(k, p) ==
    LET f[n \in 0..k] ==
          IF n = 0 THEN Infinity
          ELSE LET d == aff_add(f[n \div 2], f[n \div 2])
               IN  IF n % 2 = 1 THEN aff_add(d, p) ELSE d
    IN  f[k]

Doublings(p, n) == FoldLeft(LAMBDA q, i : aff_add(q, q), p, [i \in 1..n |-> i])

(* table[i][j] is j * 2^(Window i) * G: each row repeated addition of its   *)
(* base, each base Window doublings of the one before.                      *)
build_table ==
    LET base[i \in 0..(BLOCKS - 1)] ==
          IF i = 0 THEN Generator ELSE Doublings(base[i - 1], Window)
        row[i \in 0..(BLOCKS - 1), j \in 1..ENTRIES] ==
          aff_add(IF j = 1 THEN Infinity ELSE row[i, j - 1], base[i])
    IN  [i \in 0..(BLOCKS - 1), j \in 1..ENTRIES |-> row[i, j]]

(* The curve's b is the one that puts the generator on it.                  *)
CurveB == (Generator[2]^2 - Generator[1]^3 - Neg3 * Generator[1]) % Prime
on_curve(p) == p # Infinity => (p[2]^2 - (p[1]^3 + Neg3 * p[1] + CurveB)) % Prime = 0

verify_table ==
    \A i \in 0..(BLOCKS - 1), j \in 1..ENTRIES :
        /\ build_table[i, j] = aff_mul(j * 2^(Window * i), Generator)
        /\ on_curve(build_table[i, j])

-----------------------------------------------------------------------------
(* Jacobian + affine addition, with no case for equal or opposite points.   *)
madd(p, x2, y2) ==
    LET z1z1 == (p.z * p.z) % Prime
        h    == (x2 * z1z1 - p.x) % Prime
        r    == (y2 * ((p.z * z1z1) % Prime) - p.y) % Prime
        hh   == (h * h) % Prime
        hhh  == (h * hh) % Prime
        v    == (p.x * hh) % Prime
        x3   == (r * r - hhh - 2 * v) % Prime
    IN  [x |-> x3, y |-> (r * ((v - x3) % Prime) - p.y * hhh) % Prime,
         z |-> (h * p.z) % Prime]

to_affine(p) ==
    IF p.z = 0 THEN <<0, 0>>
    ELSE LET zi  == Inverse_(p.z)
             zi2 == (zi * zi) % Prime
         IN  <<(p.x * zi2) % Prime, (((p.y * zi2) % Prime) * zi) % Prime>>

Digit(k, i) == (k \div 2^(Window * i)) % 2^Window

(* The constant-time read of a row: every entry is masked, one is kept, and *)
(* digit 0 keeps none.                                                      *)
Select(i, d) == IF d = 0 THEN <<0, 0>> ELSE build_table[i, d]

\* Mutant: no select of the table point while the accumulator is infinity.
CombBlockFromInfinity(acc, k, i) ==
    LET d == Digit(k, i)
        a == Select(i, d)
    IN  IF d = 0 THEN acc ELSE madd(acc, a[1], a[2])

(* One block: add, then cmov the table point in if the accumulator is       *)
(* infinity, then cmov the accumulator back if the digit is zero.           *)
CombBlock(acc, k, i) ==
    LET d    == Digit(k, i)
        a    == Select(i, d)
        cand == madd(acc, a[1], a[2])
        mix  == IF acc.z = 0 THEN [x |-> a[1], y |-> a[2], z |-> 1] ELSE cand
    IN  IF d = 0 THEN acc ELSE mix

(* checked_madd's condition: a contributing addition whose operands share   *)
(* an x-coordinate, where the formula has no answer.                        *)
Degenerate(acc, k, i) ==
    LET a == Select(i, Digit(k, i))
    IN  /\ acc.z # 0 /\ Digit(k, i) # 0
        /\ (a[1] * ((acc.z * acc.z) % Prime) - acc.x) % Prime = 0

oracle_mul_base(k) ==
    LET r == aff_mul(k % Order, Generator) IN IF r = Infinity THEN <<0, 0>> ELSE r
=============================================================================
