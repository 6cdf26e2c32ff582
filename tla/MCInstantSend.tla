---------------------------- MODULE MCInstantSend ----------------------------
(***************************************************************************)
(* A payment p, its child c and a double spend d of p.  The branch x1, x2  *)
(* has p and c, the branch y1, y2 has d.                                   *)
(***************************************************************************)
EXTENDS InstantSend, TLC

MCTxs == {"p", "c", "d"}
MCOutpoints == {"coin", "change"}
MCInputs == "p" :> {"coin"} @@ "d" :> {"coin"} @@ "c" :> {"change"}
MCCreator == "coin" :> None @@ "change" :> "p"

MCLocks == {"lp", "lpdet", "lc", "ld"}
MCTxid == "lp" :> "p" @@ "lpdet" :> "p" @@ "lc" :> "c" @@ "ld" :> "d"

MCBlocks == {"g", "x1", "x2", "y1", "y2"}
MCParent == "g" :> None @@ "x1" :> "g" @@ "x2" :> "x1" @@ "y1" :> "g" @@ "y2" :> "y1"
MCHeight == "g" :> 0 @@ "x1" :> 1 @@ "x2" :> 2 @@ "y1" :> 1 @@ "y2" :> 2
MCPath == "g" :> {"g"} @@ "x1" :> {"g", "x1"} @@ "x2" :> {"g", "x1", "x2"}
              @@ "y1" :> {"g", "y1"} @@ "y2" :> {"g", "y1", "y2"}
MCBlockTxs == "g" :> {} @@ "x1" :> {"p"} @@ "x2" :> {"c"} @@ "y1" :> {"d"} @@ "y2" :> {}

World(txs, blocks, islocks, chainlocks, evictable, restarts_) ==
    [txs |-> txs, blocks |-> blocks, islocks |-> islocks, chainlocks |-> chainlocks,
     evictable |-> evictable, restarts |-> restarts_]

MCWorlds ==
    { \* chained locks, a payment that is evicted
      World({"p", "c"}, {}, {"lp", "lc"}, {}, {"p"}, 0),
      \* the double spend is mined first, the payment's branch wins and is chain locked
      World({"p", "d"}, {"x1", "x2", "y1"}, {"lp"}, {"x2"}, {}, 0),
      \* the locked payment's branch and a longer one with the double spend
      World({"p", "d"}, {"x1", "x2", "y1", "y2"}, {"lp"}, {}, {}, 0),
      \* a chain lock overrides the islock
      World({"p", "d"}, {"x1", "y1", "y2"}, {"ld"}, {"x1"}, {}, 0),
      \* the block of the locked payment is reorganised away under a chain lock
      World({"p"}, {"x1", "y1", "y2"}, {"lp"}, {"y1"}, {}, 0),
      \* two locks of one transaction
      World({"p", "d"}, {"y1"}, {"lp", "lpdet"}, {}, {}, 0),
      World({"p"}, {"x1"}, {"lp", "lpdet"}, {"x1"}, {}, 0),
      World({"p"}, {}, {"lp", "lpdet"}, {}, {"p"}, 0),
      \* a restart
      World({"p", "d"}, {"x1", "y1"}, {"lp"}, {"x1"}, {}, 1) }
=============================================================================
