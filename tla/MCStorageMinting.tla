------------------------ MODULE MCStorageMinting ------------------------
(***************************************************************************)
(* Two proof-of-stake heights above one proof-of-work block, and two       *)
(* storage nodes.  The proof of height 2 lists two chunkservers at the     *)
(* address sn1, so with SCORE_INCREASE = 50 that address has the full      *)
(* score, and must be paid, at height 3.  The proof of height 3 finds sn1  *)
(* down; the other proof of that height comes from a key that is not the   *)
(* network's and reports other space for sn1.                              *)
(***************************************************************************)
EXTENDS StorageMinting, TLC

CONSTANTS sn1, sn2

On(ip, space) == [ip |-> ip, space |-> space, live |-> TRUE]
Off(ip, space) == [ip |-> ip, space |-> space, live |-> FALSE]

MCProof ==
    "p2" :> [height |-> 2, signed |-> TRUE,
             nodes |-> <<On(sn1, 25), On(sn1, 25), On(sn2, 25)>>]
    @@ "p3" :> [height |-> 3, signed |-> TRUE,
                nodes |-> <<Off(sn1, 25), On(sn2, 25)>>]
    @@ "q3" :> [height |-> 3, signed |-> FALSE, nodes |-> <<On(sn1, 50)>>]

MCPayee == <<None, sn1, sn1, sn2>>
============================================================================
