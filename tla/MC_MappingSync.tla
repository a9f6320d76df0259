--------------------------- MODULE MC_MappingSync ---------------------------
(* A block tree forking at the genesis and at block 1:                    *)
(*   g <- b1 <- b2,  b1 <- b3,  g <- c1.                                  *)
EXTENDS MappingSync

CONSTANTS g, b1, b2, b3, c1

MCBlocks == {g, b1, b2, b3, c1}
MCParent == (b1 :> g) @@ (b2 :> b1) @@ (b3 :> b1) @@ (c1 :> g)
MCNumber == (g :> 0) @@ (b1 :> 1) @@ (b2 :> 2) @@ (b3 :> 2) @@ (c1 :> 1)
====
