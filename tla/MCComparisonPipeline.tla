------------------------ MODULE MCComparisonPipeline ------------------------
(***************************************************************************)
(* Two trees side by side, /l /l/x and /r /r/x, that may also be compared   *)
(* with themselves; and a pair where one side lies inside the other, /l     *)
(* with /l/x.                                                              *)
(***************************************************************************)
EXTENDS ComparisonPipeline

L == << "l" >>
LX == << "l", "x" >>
R == << "r" >>
RX == << "r", "x" >>

Sides == { Root, L, LX, R, RX }

None == {}
Tops == Pair(L, R)
Subs == Pair(LX, RX)
Same == Pair(L, L)
AndInside == { Tops, Subs, Same, Pair(L, LX) }
OnlySubs == { Subs }
Both == { Tops, Subs }
OnlyRX == { RX }
=============================================================================
