--------------------------- MODULE MCDerivations ---------------------------
(* Words of one bit (p = 199), limbs of two bits modulo 251, a curve of     *)
(* order 61 over F_59 with two-bit digits, and a counter that wraps at 16.  *)
EXTENDS Derivations

MCMulOperands  == (0..255) \X {0, 1, 3, 4, 15, 16, 85, 127, 128, 170, 192, 195, 198, 199, 200, 252, 254, 255}
MCWideInputs   == {x * 256 + y : x \in 0..255, y \in {0, 1, 63, 128, 198, 199, 254, 255}}
MCMontOperands == (0..250) \X {0, 1, 63, 64, 192, 201, 250}
MCLadder       == {2, 3}
MCDoubling     == <<4>>
MCLowParts     == [1..7 -> {0, 1}]
MCScalars      == 0..63
MCCounters     == (0..14) \X (0..15)
MCGenerator    == <<0, 3>>
=============================================================================
