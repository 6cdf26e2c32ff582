--------------------------- MODULE TokenRegistry ---------------------------
(***************************************************************************)
(* The token layer of one node: the vector KnownIssuances                  *)
(* (src/token/issuances.cpp), the checks that read and extend it           *)
(* (src/token/verify.cpp), the rescan that rebuilds it at startup          *)
(* (src/token/index.cpp), and the places of src/validation.cpp that call   *)
(* them: AcceptToMemoryPool, ConnectBlock, ConnectTip, DisconnectTip,      *)
(* ActivateBestChainStep and UpdateMempoolForReorg.                        *)
(*                                                                         *)
(* cs_main makes the connection of a block atomic for other users of the   *)
(* chain, but KnownIssuances is changed transaction by transaction and     *)
(* nothing rolls it back: a block is therefore connected one transaction   *)
(* per step here, and it may be refused between any two of them.           *)
(*                                                                         *)
(* A transaction is a row of the constant table Tx: the outpoints it       *)
(* spends and its outputs, each with a token type, a name, an identifier   *)
(* and a value.  Coinbases and coinstakes, which CheckTxInputs does not    *)
(* hold to the value of their inputs, are not rows of the table.  The coin *)
(* view is derived from the chain: an output is unspent when its           *)
(* transaction is in the chain and no transaction there spends it.         *)
(***************************************************************************)
EXTENDS Integers, Sequences, FiniteSets, Functions

CONSTANTS
    Tx,              \* the transactions: id -> [vin, vout]
    Base,            \* ids buried in the chain before the model starts
    TokenHeight,     \* consensus.nTokenHeight
    TOKEN_MINCONFS,  \* confirmations a token transaction wants of its inputs
    IdRange,         \* the identifiers IsIdentifierInRange accepts
    MaxOffers,       \* bound: blocks handed to ConnectBlock
    MaxDisconnects,  \* bound: blocks disconnected
    MaxRefusals,     \* bound: blocks refused, or only checked
    MaxRestarts,     \* bound: restarts of the node
    MaxBlockTxs,     \* bound: token or spending transactions of one block
    MaxIndexLag      \* bound: blocks the transaction index may lag behind

TxIds == DOMAIN Tx

Outputs == [type : {"plain", "issuance", "transfer", "malformed"},
            name : STRING, id : Nat, value : Nat]

\* COutPoint: a transaction and the index of one of its outputs.
OutPoints == UNION {{<<t, i>> : i \in DOMAIN Tx[t].vout} : t \in TxIds}

ASSUME TxAssumption ==
    \A t \in TxIds : /\ Tx[t].vout \in Seq(Outputs)
                     /\ Tx[t].vin \subseteq OutPoints /\ IsFiniteSet(Tx[t].vin)
\* CheckTransaction refuses a transaction without inputs.
ASSUME VinAssumption == \A t \in TxIds \ Base : Tx[t].vin # {}
\* What was buried before nTokenHeight holds no token: ConnectBlock refuses
\* token outputs while AreTokensActive is false.
ASSUME BaseAssumption ==
    /\ Base \subseteq TxIds
    /\ \A t \in Base : \A i \in DOMAIN Tx[t].vout : Tx[t].vout[i].type = "plain"
ASSUME TokenHeightAssumption == TokenHeight \in Nat \ {0}
ASSUME MinConfsAssumption == TOKEN_MINCONFS \in Nat \ {0}
ASSUME BoundsAssumption ==
    /\ MaxOffers \in Nat /\ MaxDisconnects \in Nat /\ MaxRestarts \in Nat
    /\ MaxRefusals \in Nat
    /\ MaxBlockTxs \in Nat /\ MaxIndexLag \in Nat

VARIABLES
    chain,       \* the active chain above Base: block i has height i
    mempool,     \* CTxMemPool::mapTx
    known,       \* KnownIssuances
    indexed,     \* the transactions g_txindex can find
    stage,       \* what the thread that holds cs_main is doing
    blk,         \* the block being connected, checked or scanned
    pos,         \* the next transaction of blk
    scanHeight,  \* the height ScanForTokenMetadata has reached
    pending,     \* disconnectpool, earliest transaction first
    reorging,    \* ActivateBestChainStep has disconnected blocks
    loaded,      \* BlockUntilTokenMetadataSynced has returned true
    offers, refusals, disconnects, restarts

vars == <<chain, mempool, known, indexed, stage, blk, pos, scanHeight,
          pending, reorging, loaded, offers, refusals, disconnects, restarts>>

----------------------------------------------------------------------------
(* Transactions and their outputs.                                         *)

Vin(t) == Tx[t].vin
Vout(t) == Tx[t].vout
PrevOut(op) == Vout(op[1])[op[2]]

\* CScript::IsPayToToken, and the decoded type ContextualCheckToken accepts.
IsPayToToken(out) == out.type # "plain"
ContextualCheckToken(out) == out.type \in {"issuance", "transfer"}
IsIssuance(out) == out.type = "issuance"

TokenOutputs(t) == {i \in DOMAIN Vout(t) : IsPayToToken(Vout(t)[i])}
IssuanceOutputs(t) == {i \in DOMAIN Vout(t) : IsIssuance(Vout(t)[i])}
HasTokenOutput(t) == TokenOutputs(t) # {}
IssuedBy(t) == Vout(t)[CHOOSE i \in IssuanceOutputs(t) : TRUE]

Value == [op \in OutPoints |-> PrevOut(op).value]
ValueIn(t) == SumFunctionOnSet(Value, Vin(t))
ValueOut(t) == SumFunctionOnSet(Value, {<<t, i>> : i \in DOMAIN Vout(t)})

----------------------------------------------------------------------------
(* The coin view: CoinsTip, extended by the transactions of the block that *)
(* is being connected (prefix).                                            *)

Height == Len(chain)
ChainTxs == UNION {Range(chain[h]) : h \in DOMAIN chain}
Prefix == {blk[i] : i \in 1 .. pos - 1}

SpentIn(txs) == UNION {Vin(t) : t \in txs}
Unspent(op, prefix) ==
    /\ op[1] \in Base \cup ChainTxs \cup prefix
    /\ op \notin SpentIn(ChainTxs \cup prefix)

HeightOf(t, prefix) ==
    IF t \in prefix THEN Height + 1
    ELSE IF t \in ChainTxs THEN CHOOSE h \in DOMAIN chain : t \in Range(chain[h])
    ELSE 0

\* view.AccessCoin(op).nHeight: a coin that is missing or spent is the empty
\* coin, whose height is 0.
CoinHeight(op, prefix) == IF Unspent(op, prefix) THEN HeightOf(op[1], prefix) ELSE 0

----------------------------------------------------------------------------
(* The checks of src/token/verify.cpp.                                     *)

Names == {known[i].name : i \in DOMAIN known}
Ids == {known[i].id : i \in DOMAIN known}

\* AreTokensActive(height); height 0 stands for the height of the tip.
AreTokensActive(height) == (IF height = 0 THEN Height ELSE height) >= TokenHeight

\* Mistaken variant: one confirmation too many.
CheckTokenInputsStrict(t, height, prefix) ==
    \A op \in Vin(t) : height - CoinHeight(op, prefix) > TOKEN_MINCONFS

CheckTokenInputs(t, height, prefix) ==
    \A op \in Vin(t) : height - CoinHeight(op, prefix) >= TOKEN_MINCONFS

\* Mistaken variant: identifiers are not compared.
IssuanceUniqueByName(t, onlyCheck) ==
    LET token == IssuedBy(t) IN
    /\ \A i \in DOMAIN known : known[i].origin # t => known[i].name # token.name
    /\ onlyCheck \/ token.id \in IdRange

\* CheckTokenIssuance: the verdict.  Entries with the same origin are skipped.
IssuanceUnique(t, onlyCheck) ==
    LET token == IssuedBy(t) IN
    /\ \A i \in DOMAIN known :
         known[i].origin # t => known[i].name # token.name /\ known[i].id # token.id
    /\ onlyCheck \/ token.id \in IdRange

\* Mistaken variant: the entry is added without looking for it.
AddToIssuancesAgain(t) ==
    LET token == IssuedBy(t) IN
    Append(known, [name |-> token.name, id |-> token.id, origin |-> t])

\* CheckTokenIssuance: the entry it adds when it is not called onlyCheck.
AddToIssuances(t) ==
    LET token == IssuedBy(t) IN
    IF token.name \in Names \/ token.id \in Ids
    THEN known
    ELSE Append(known, [name |-> token.name, id |-> token.id, origin |-> t])

\* GetTransaction: the memory pool first, then the transaction index.
GetTransaction(t) == t \in mempool \/ t \in indexed

\* Mistaken variant: a transfer may spend coins that carry no token.
PrevoutsMatchLoose(t, i) ==
    LET out == Vout(t)[i] IN
    \A op \in Vin(t) :
        /\ GetTransaction(op[1])
        /\ IsPayToToken(PrevOut(op)) => PrevOut(op).name = out.name /\ PrevOut(op).id = out.id

\* The loop over the inputs, for one token output.
PrevoutsMatch(t, i) ==
    LET out == Vout(t)[i] IN
    \A op \in Vin(t) :
        /\ GetTransaction(op[1])
        /\ IF IsIssuance(out)
           THEN ~ IsPayToToken(PrevOut(op))
           ELSE /\ ContextualCheckToken(PrevOut(op))
                /\ PrevOut(op).name = out.name
                /\ PrevOut(op).id = out.id

\* The part of CheckToken before the loop over the outputs.
WellFormed(t, height, prefix) ==
    /\ CheckTokenInputs(t, height, prefix)
    /\ \A i \in TokenOutputs(t) : ContextualCheckToken(Vout(t)[i])
    /\ Cardinality(IssuanceOutputs(t)) <= 1

\* CheckToken reaches CheckTokenIssuance: the outputs before the issuance pass.
ReachesIssuance(t, height, prefix) ==
    /\ WellFormed(t, height, prefix)
    /\ \E i \in IssuanceOutputs(t) :
         \A j \in TokenOutputs(t) : j < i => PrevoutsMatch(t, j)

\* The value CheckToken returns.
CheckToken(t, height, prefix, onlyCheck) ==
    /\ WellFormed(t, height, prefix)
    /\ IssuanceOutputs(t) # {} => IssuanceUnique(t, onlyCheck)
    /\ \A i \in TokenOutputs(t) : PrevoutsMatch(t, i)

\* What CheckToken, called with onlyCheck = false, leaves in KnownIssuances,
\* whether or not it then fails on the inputs of the issuance.
Registered(t, height, prefix) ==
    IF ReachesIssuance(t, height, prefix) /\ IssuanceUnique(t, FALSE)
    THEN AddToIssuances(t)
    ELSE known

----------------------------------------------------------------------------
(* The memory pool (src/txmempool.cpp).                                    *)

\* removeRecursive: every pool transaction that is one of txs or, directly
\* or not, spends an output of one of txs.
RemoveRecursive(pool, txs) ==
    LET ChildOf(t, S) == \E op \in Vin(t) : op[1] \in S
        Closed(D) == \A t \in pool : t \in txs \/ ChildOf(t, txs \cup D) => t \in D
        gone == {t \in pool : \A D \in SUBSET pool : Closed(D) => t \in D}
    IN  pool \ gone

\* removeForBlock: the block's transactions leave the pool, and what spends
\* one of their inputs leaves with its descendants.
RemoveForBlock(pool, txs) ==
    LET left == pool \ txs
    IN  RemoveRecursive(left, {t \in left : Vin(t) \cap SpentIn(txs) # {}})

\* DisconnectedBlockTransactions::removeForBlock: the others keep their order.
DisconnectPoolRemove(queued, txs) ==
    LET left[n \in 0 .. Len(queued)] ==
          IF n = 0 THEN <<>>
          ELSE IF queued[n] \in txs THEN left[n - 1] ELSE Append(left[n - 1], queued[n])
    IN  left[Len(queued)]

\* Mistaken variant: the names of the pool are not looked at.
CheckTokenMempoolInputsOnly(t) == CheckTokenInputs(t, Height, {})

\* CheckTokenMempool: inputs against the tip, and no second issuance of a
\* name the pool already issues.
CheckTokenMempool(t) ==
    /\ CheckTokenInputs(t, Height, {})
    /\ \A m \in mempool : \A i \in IssuanceOutputs(m), j \in IssuanceOutputs(t) :
         Vout(m)[i].name # Vout(t)[j].name

\* AcceptToMemoryPool accepts t: token checks, inputs unspent in the chain or
\* created in the pool, none of them spent in the pool, values not exceeded.
PoolAccepts(t) ==
    /\ t \notin mempool
    /\ HasTokenOutput(t) => /\ AreTokensActive(0)
                            /\ CheckTokenMempool(t)
                            /\ CheckToken(t, Height, {}, TRUE)
    /\ t \notin Base \cup ChainTxs
    /\ \A op \in Vin(t) : Unspent(op, {}) \/ op[1] \in mempool
    /\ Vin(t) \cap SpentIn(mempool) = {}
    /\ ValueIn(t) >= ValueOut(t)

----------------------------------------------------------------------------
Init ==
    /\ chain = <<>> /\ mempool = {} /\ known = <<>> /\ indexed = Base
    /\ stage = "idle" /\ blk = <<>> /\ pos = 1 /\ scanHeight = 0
    /\ pending = <<>> /\ reorging = FALSE /\ loaded = TRUE
    /\ offers = 0 /\ refusals = 0 /\ disconnects = 0 /\ restarts = 0

\* A peer, the wallet or LoadMempool submits t and the pool takes it.
AcceptToMemoryPool(t) ==
    /\ stage = "idle" /\ ~ reorging
    /\ PoolAccepts(t)
    /\ mempool' = mempool \cup {t}
    /\ UNCHANGED <<chain, known, indexed, stage, blk, pos, scanHeight, pending,
                   reorging, loaded, offers, disconnects, restarts, refusals>>

\* BaseIndex::BlockConnected, on the scheduler thread: the index writes the
\* next block of the chain it has not seen.
IndexBlock ==
    /\ \E h \in DOMAIN chain :
         /\ ~ Range(chain[h]) \subseteq indexed
         /\ \A g \in 1 .. h - 1 : Range(chain[g]) \subseteq indexed
         /\ indexed' = indexed \cup Range(chain[h])
    /\ UNCHANGED <<chain, mempool, known, stage, blk, pos, scanHeight, pending,
                   reorging, loaded, offers, disconnects, restarts, refusals>>

IndexLag == Cardinality({h \in DOMAIN chain : ~ Range(chain[h]) \subseteq indexed})

Blocks == {b \in UNION {[1 .. n -> TxIds \ Base] : n \in 0 .. MaxBlockTxs} :
              IsInjective(b)}

\* ConnectTip hands a block to ConnectBlock; TestBlockValidity does the same
\* with fJustCheck, for a template of getblocktemplate or a proposal.
StartBlock(b, kind) ==
    /\ stage = "idle" /\ offers < MaxOffers
    /\ kind = "check" => ~ reorging
    /\ IndexLag <= MaxIndexLag
    /\ stage' = kind /\ blk' = b /\ pos' = 1 /\ offers' = offers + 1
    /\ UNCHANGED <<chain, mempool, known, indexed, scanHeight, pending,
                   reorging, loaded, disconnects, restarts, refusals>>

\* Consensus::CheckTxInputs for the next transaction of the block.
InputsValid(t) ==
    /\ t \notin ChainTxs
    /\ \A op \in Vin(t) : Unspent(op, Prefix)
    /\ ValueIn(t) >= ValueOut(t)

\* AreTokensActive and CheckToken for the next transaction of the block.
TokensValid(t) ==
    HasTokenOutput(t) =>
        AreTokensActive(Height + 1) /\ CheckToken(t, Height + 1, Prefix, FALSE)

\* ConnectBlock passes one transaction.
ConnectTx ==
    /\ stage \in {"connect", "check"} /\ pos <= Len(blk)
    /\ InputsValid(blk[pos])
    /\ TokensValid(blk[pos])
    /\ known' = IF HasTokenOutput(blk[pos])
                THEN Registered(blk[pos], Height + 1, Prefix) ELSE known
    /\ pos' = pos + 1
    /\ UNCHANGED <<chain, mempool, indexed, stage, blk, scanHeight, pending,
                   reorging, loaded, offers, disconnects, restarts, refusals>>

\* A token check fails: ConnectBlock returns error() without a DoS score, so
\* the block is not marked invalid and ActivateBestChainStep takes the system
\* error branch, UpdateMempoolForReorg(disconnectpool, false).  A pool
\* transaction whose issuance was refused is removed by CheckToken.
TokenRefused ==
    /\ refusals < MaxRefusals /\ refusals' = refusals + 1
    /\ stage \in {"connect", "check"} /\ pos <= Len(blk)
    /\ InputsValid(blk[pos])
    /\ ~ TokensValid(blk[pos])
    /\ LET t == blk[pos]
           active == AreTokensActive(Height + 1)
           purge == /\ active
                    /\ ReachesIssuance(t, Height + 1, Prefix)
                    /\ ~ IssuanceUnique(t, FALSE)
           pool == IF purge /\ t \in mempool THEN RemoveRecursive(mempool, {t}) ELSE mempool
       IN  /\ known' = IF active THEN Registered(t, Height + 1, Prefix) ELSE known
           /\ mempool' = RemoveRecursive(pool, Range(pending))
    /\ stage' = "idle" /\ blk' = <<>> /\ pos' = 1
    /\ pending' = <<>> /\ reorging' = FALSE
    /\ UNCHANGED <<chain, indexed, scanHeight, loaded, offers, disconnects, restarts>>

\* Another check fails, before, between or after the token checks: inputs,
\* sigops, scripts, block value, payee.  The block is marked invalid and the
\* disconnected transactions are resubmitted.
BlockInvalid ==
    /\ refusals < MaxRefusals /\ refusals' = refusals + 1
    /\ stage \in {"connect", "check"}
    /\ stage' = IF reorging THEN "resubmit" ELSE "idle"
    /\ blk' = <<>> /\ pos' = 1
    /\ UNCHANGED <<chain, mempool, known, indexed, scanHeight, pending,
                   reorging, loaded, offers, disconnects, restarts>>

\* TestBlockValidity returns: the view is dropped.
CheckDone ==
    /\ refusals < MaxRefusals /\ refusals' = refusals + 1
    /\ stage = "check" /\ pos > Len(blk)
    /\ stage' = "idle" /\ blk' = <<>> /\ pos' = 1
    /\ UNCHANGED <<chain, mempool, known, indexed, scanHeight, pending,
                   reorging, loaded, offers, disconnects, restarts>>

\* Mistaken variant: the cursor is left before the first transaction.
ConnectDoneCursor ==
    /\ stage = "connect" /\ pos > Len(blk)
    /\ chain' = Append(chain, blk)
    /\ mempool' = RemoveForBlock(mempool, Range(blk))
    /\ pending' = DisconnectPoolRemove(pending, Range(blk))
    /\ stage' = "idle" /\ blk' = <<>> /\ pos' = 0
    /\ UNCHANGED <<known, indexed, scanHeight, reorging, loaded, offers,
                   disconnects, restarts, refusals>>

\* The end of ConnectTip.
ConnectDone ==
    /\ stage = "connect" /\ pos > Len(blk)
    /\ chain' = Append(chain, blk)
    /\ mempool' = RemoveForBlock(mempool, Range(blk))
    /\ pending' = DisconnectPoolRemove(pending, Range(blk))
    /\ stage' = "idle" /\ blk' = <<>> /\ pos' = 1
    /\ UNCHANGED <<known, indexed, scanHeight, reorging, loaded, offers,
                   disconnects, restarts, refusals>>

\* Mistaken variant: the newest entry is erased, whatever the block issued.
UndoLastIssuance(b) == IF known = <<>> THEN known ELSE SubSeq(known, 1, Len(known) - 1)

\* UndoTokenIssuancesInBlock: the CToken it asks isIssuance() of is never
\* decoded from the script, its type is NONE, and no entry is removed.
UndoTokenIssuancesInBlock(b) == known

\* DisconnectTip, with DisconnectBlock.
DisconnectTip ==
    /\ stage = "idle" /\ chain # <<>> /\ disconnects < MaxDisconnects
    /\ chain' = SubSeq(chain, 1, Height - 1)
    /\ known' = UndoTokenIssuancesInBlock(chain[Height])
    /\ pending' = chain[Height] \o pending
    /\ reorging' = TRUE /\ disconnects' = disconnects + 1
    /\ UNCHANGED <<mempool, indexed, stage, blk, pos, scanHeight, loaded,
                   offers, restarts, refusals>>

\* ActivateBestChainStep or InvalidateBlock calls
\* UpdateMempoolForReorg(disconnectpool, true).
EndReorg ==
    /\ stage = "idle" /\ reorging
    /\ stage' = "resubmit"
    /\ UNCHANGED <<chain, mempool, known, indexed, blk, pos, scanHeight, pending,
                   reorging, loaded, offers, disconnects, restarts, refusals>>

\* UpdateMempoolForReorg: one disconnected transaction is accepted again, or
\* its descendants leave the pool.
Resubmit ==
    /\ stage = "resubmit" /\ pending # <<>>
    /\ LET t == Head(pending) IN
       \/ PoolAccepts(t) /\ mempool' = mempool \cup {t}
       \/ ~ PoolAccepts(t) /\ mempool' = RemoveRecursive(mempool, {t})
    /\ pending' = Tail(pending)
    /\ UNCHANGED <<chain, known, indexed, stage, blk, pos, scanHeight, reorging,
                   loaded, offers, disconnects, restarts, refusals>>

ResubmitDone ==
    /\ stage = "resubmit" /\ pending = <<>>
    /\ stage' = "idle" /\ reorging' = FALSE
    /\ UNCHANGED <<chain, mempool, known, indexed, blk, pos, scanHeight, pending,
                   loaded, offers, disconnects, restarts, refusals>>

----------------------------------------------------------------------------
(* Startup.  The chain and the transaction index are on disk, the vector   *)
(* is not.  init.cpp starts the network before it scans.                   *)

\* The process ends, in whatever it was doing, and starts again.
Restart ==
    /\ restarts < MaxRestarts
    /\ restarts' = restarts + 1
    /\ mempool' = {} /\ known' = <<>> /\ pending' = <<>> /\ reorging' = FALSE
    /\ stage' = "idle" /\ blk' = <<>> /\ pos' = 1 /\ loaded' = FALSE
    /\ UNCHANGED <<chain, indexed, scanHeight, offers, disconnects, refusals>>

\* BlockUntilTokenMetadataSynced: holds cs_main until it returns.
ScanStart ==
    /\ stage = "idle" /\ ~ reorging /\ ~ loaded
    /\ stage' = "scan" /\ scanHeight' = TokenHeight /\ pos' = 1
    /\ UNCHANGED <<chain, mempool, known, indexed, blk, pending, reorging,
                   loaded, offers, disconnects, restarts, refusals>>

\* The heights ScanForTokenMetadata visits: nTokenHeight up to, and without,
\* the height of the tip.
ScanCovers(h) == h < Height

\* One transaction of the block at scanHeight, or the next height.
ScanStep ==
    /\ stage = "scan" /\ ScanCovers(scanHeight)
    /\ IF pos > Len(chain[scanHeight])
       THEN /\ scanHeight' = scanHeight + 1 /\ pos' = 1
            /\ UNCHANGED <<known, stage>>
       ELSE LET t == chain[scanHeight][pos] IN
            /\ pos' = pos + 1
            /\ known' = IF HasTokenOutput(t) THEN Registered(t, scanHeight, {}) ELSE known
            /\ stage' = IF HasTokenOutput(t) => CheckToken(t, scanHeight, {}, FALSE)
                        THEN stage ELSE "failed"
            /\ UNCHANGED scanHeight
    /\ UNCHANGED <<chain, mempool, indexed, blk, pending, reorging, loaded,
                   offers, disconnects, restarts, refusals>>

ScanDone ==
    /\ stage = "scan" /\ ~ ScanCovers(scanHeight)
    /\ stage' = "idle" /\ loaded' = TRUE /\ pos' = 1
    /\ UNCHANGED <<chain, mempool, known, indexed, blk, scanHeight, pending,
                   reorging, offers, disconnects, restarts, refusals>>

Next ==
    \/ \E t \in TxIds \ Base : AcceptToMemoryPool(t)
    \/ IndexBlock
    \/ \E b \in Blocks, kind \in {"connect", "check"} : StartBlock(b, kind)
    \/ ConnectTx \/ TokenRefused \/ BlockInvalid \/ CheckDone \/ ConnectDone
    \/ DisconnectTip \/ EndReorg \/ Resubmit \/ ResubmitDone
    \/ Restart \/ ScanStart \/ ScanStep \/ ScanDone

Spec == Init /\ [][Next]_vars

----------------------------------------------------------------------------
(* Properties.                                                             *)

\* The part of the type invariant the registry depends on.
RegistryType ==
    /\ known \in Seq([name : STRING, id : Nat, origin : TxIds])
    /\ chain \in Seq(Seq(TxIds))
    /\ blk \in Seq(TxIds) /\ pos \in Nat \ {0}
    /\ scanHeight \in Nat /\ (stage = "scan" => scanHeight # 0)
    /\ restarts \in Nat

\* Types of the node's token state (KnownIssuances, pool, index, the block in
\* work) and of the bounds.
TypeOK ==
    /\ RegistryType
    /\ mempool \subseteq TxIds /\ indexed \subseteq TxIds
    /\ stage \in {"idle", "connect", "check", "resubmit", "scan", "failed"}
    /\ pending \in Seq(TxIds) /\ reorging \in BOOLEAN /\ loaded \in BOOLEAN
    /\ offers \in Nat /\ refusals \in Nat /\ disconnects \in Nat

IssuesSame(t, u) ==
    /\ IssuanceOutputs(t) # {} /\ IssuanceOutputs(u) # {}
    /\ \/ IssuedBy(t).name = IssuedBy(u).name
       \/ IssuedBy(t).id = IssuedBy(u).id

\* No two entries of KnownIssuances share a name or an identifier, whatever
\* blocks are connected, refused, disconnected or scanned: lookups by name
\* (GetIdForTokenName) have one answer.
KnownUnique ==
    \A i, j \in DOMAIN known :
        i # j => known[i].name # known[j].name /\ known[i].id # known[j].id

\* No two transactions of the memory pool issue the same name, also after a
\* reorganisation has put transactions back (CheckTokenMempool).
MempoolNamesUnique ==
    \A t, u \in mempool : \A i \in IssuanceOutputs(t), j \in IssuanceOutputs(u) :
        t # u => Vout(t)[i].name # Vout(u)[j].name

\* The active chain never issues a name or an identifier twice: the check of
\* ConnectBlock that an issuance token is unique, taken over whole histories.
ChainIssuancesUnique ==
    \A t, u \in ChainTxs : t # u => ~ IssuesSame(t, u)

\* The same, for a node that has run since before the first token block:
\* refused blocks and reorganisations do not let a second issuance in.
ChainUniqueUntilRestart == restarts = 0 => ChainIssuancesUnique

Entry(t) == [name |-> IssuedBy(t).name, id |-> IssuedBy(t).id, origin |-> t]

Covered(t) ==
    IssuanceOutputs(t) # {} => \E i \in DOMAIN known : known[i] = Entry(t)

\* The inductive invariant behind the uniqueness results.  Entries repeat what
\* their origin issued, so an entry that is already there for a transaction
\* that is connected again is the right one; until a restart empties the
\* vector, the chain and the part of the block already passed are covered.
RegistryInv ==
    /\ RegistryType
    /\ KnownUnique
    /\ \A i \in DOMAIN known : known[i] = Entry(known[i].origin)
    /\ restarts = 0 => \A t \in ChainTxs : Covered(t)
    /\ restarts = 0 /\ stage \in {"connect", "check"} =>
         \A i \in 1 .. pos - 1 : i \in DOMAIN blk => Covered(blk[i])

\* Unspent outputs of the token that t issued, after the transactions txs.
Circulating(t, txs) ==
    {op \in OutPoints : /\ op[1] \in txs /\ op \notin SpentIn(txs)
                       /\ IsPayToToken(PrevOut(op))
                       /\ PrevOut(op).name = IssuedBy(t).name
                       /\ PrevOut(op).id = IssuedBy(t).id}

\* They are worth no more than what was issued.
SupplyKept(txs) ==
    \A t \in txs : IssuanceOutputs(t) # {} =>
        SumFunctionOnSet(Value, Circulating(t, txs)) <= IssuedBy(t).value

\* No sequence of issuances, transfers and spends makes more of a token than
\* its issuance made: the unspent outputs of a token never exceed what
\* tokeninfo shows as maxsupply (until a restart, which may let a second
\* issuance in).
SupplyBounded == restarts = 0 => SupplyKept(ChainTxs)

\* Whether t may follow the chain and the transactions before it in the
\* block, said of the chain alone: its inputs are confirmed, it issues at most
\* one token and a new one, and transfers spend outputs of the same token.
ValidToken(t) ==
    /\ Height + 1 >= TokenHeight
    /\ \A op \in Vin(t) : (Height + 1) - HeightOf(op[1], Prefix) >= TOKEN_MINCONFS
    /\ Cardinality(IssuanceOutputs(t)) <= 1
    /\ \A u \in ChainTxs \cup Prefix : ~ IssuesSame(t, u)
    /\ \A i \in IssuanceOutputs(t) : Vout(t)[i].id \in IdRange
    /\ \A i \in TokenOutputs(t), op \in Vin(t) :
         LET out == Vout(t)[i]  prev == PrevOut(op) IN
         CASE out.type = "issuance" -> prev.type = "plain"
           [] out.type = "transfer" ->
                /\ prev.type \in {"issuance", "transfer"}
                /\ prev.name = out.name /\ prev.id = out.id
           [] OTHER -> FALSE

\* The token verdict on a block is a function of the chain: ConnectBlock
\* passes a token transaction exactly when the chain allows it, so nodes with
\* the same chain agree ("Perform token consensus checks").
VerdictFollowsChain ==
    stage = "connect" /\ pos <= Len(blk) /\ HasTokenOutput(blk[pos]) /\ InputsValid(blk[pos])
        => (TokensValid(blk[pos]) <=> ValidToken(blk[pos]))

\* The same for a node that has connected every block it was offered, has not
\* restarted, and whose transaction index has caught up: these four together
\* are what the agreement of nodes on token blocks depends on.
VerdictFollowsChainWhenClean ==
    refusals = 0 /\ disconnects = 0 /\ restarts = 0 /\ ChainTxs \subseteq indexed
        => VerdictFollowsChain

\* Token transactions of the pool spend confirmed outputs only.
MempoolInputsConfirmed ==
    \A t \in mempool : HasTokenOutput(t) =>
        \A op \in Vin(t) : op[1] \in Base \cup ChainTxs
====
