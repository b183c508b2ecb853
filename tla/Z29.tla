-------------------------------- MODULE Z29 --------------------------------
(***************************************************************************)
(* Arithmetic of rune indices, the residues mod 29.                        *)
(***************************************************************************)
EXTENDS Integers

Index29 == 0..28

Add(x, y) == (x + y) % 29
Neg(x) == IF x = 0 THEN 0 ELSE 29 - x
Sub(x, y) == Add(x, Neg(y))
Mul(x, y) == (x * y) % 29
Atbash(x) == 28 - x

(***************************************************************************)
(* inv_table: the inverse of 1..28, one entry each; Inv(0) is an error.    *)
(***************************************************************************)
InvTable == << 1, 15, 10, 22, 6, 5, 25, 11, 13, 3, 8, 17, 9, 27,
               2, 20, 12, 21, 26, 16, 18, 4, 24, 23, 7, 19, 14, 28 >>

Inv(x) == InvTable[x]
=============================================================================
