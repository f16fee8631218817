------------------------------- MODULE Limbs -------------------------------
(***************************************************************************)
(* Numbers as rows of limbs, least significant first, as the derivation    *)
(* scripts hold them: splitting, joining and the carry chain.  The base is *)
(* a parameter; in the scripts it is a power of two.                       *)
(***************************************************************************)
EXTENDS Integers

(* b to the n-th, spelt out so that it can be reasoned about.               *)
Power(b, n) ==
    LET p[i \in 0..n] == IF i = 0 THEN 1 ELSE b * p[i - 1]
    IN  p[n]

LimbsOf(v, b, n) == [i \in 0..(n - 1) |-> (v \div Power(b, i)) % b]

(* What four limbs from limb i on, and eight, stand for.                    *)
Four(w, b, i) == w[i] + b * (w[i + 1] + b * (w[i + 2] + b * w[i + 3]))
Eight(w, b) == Four(w, b, 0) + Power(b, 4) * Four(w, b, 4)

(* A chain of additions with carry: digit i is x[i] plus the carry of digit *)
(* i - 1; the carry is an arithmetic shift, so digits may be negative.      *)
Chain(x, base, n) ==
    LET s[i \in 0..(n - 1)] == x[i] + (IF i = 0 THEN 0 ELSE s[i - 1] \div base)
    IN  [digit |-> [i \in 0..(n - 1) |-> s[i] % base],
         carry |-> s[n - 1] \div base]
=============================================================================
