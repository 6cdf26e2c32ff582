----------------------------- MODULE MCChainLocks -----------------------------
(* Two branches of two blocks; the quorums lock branch a, whose first block may *)
(* be contested by an islock.                                                   *)
EXTENDS ChainLocks

CONSTANTS g, a1, a2, b1, b2

MCBlocks == {g, a1, a2, b1, b2}
MCParent == [b \in {a1, a2, b1, b2} |->
               CASE b \in {a1, b1} -> g [] b = a2 -> a1 [] b = b2 -> b1]
MCHeight == [b \in MCBlocks |->
               CASE b = g -> 0 [] b \in {a1, b1} -> 1 [] b \in {a2, b2} -> 2]
MCPath == [b \in MCBlocks |->
               {b, g} \cup (CASE b = a2 -> {a1} [] b = b2 -> {b1} [] OTHER -> {})]
MCLocks == {a1, a2}
MCOwnLocks == {a1}
MCContested == {a1}
=============================================================================
