--------------------------- MODULE MCCountAndSize ---------------------------
(***************************************************************************)
(* Small trees for CountAndSize:   /        and   /a                       *)
(*                                 /a             /a/b   /a/c              *)
(*                                 /a/b                                    *)
(***************************************************************************)
EXTENDS CountAndSize

A == << "a" >>
AB == << "a", "b" >>
AC == << "a", "c" >>
ABX == << "a", "b", "x" >>

Fork == { Root, A, AB, AC }
Chain == { Root, A, AB, ABX }
ABXY == << "a", "b", "x", "y" >>
Deep == Chain \cup { ABXY }
Tree == Fork \cup Chain

None == {}
OnlyA == { A }
OnlyRoot == { Root }
OnlyB == { AB }
OnlyC == { AC }
AandB == { A, AB }
AandX == { A, ABX }
BandC == { AB, AC }
=============================================================================
