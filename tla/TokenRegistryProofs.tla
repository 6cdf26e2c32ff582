------------------------ MODULE TokenRegistryProofs ------------------------
(* Proofs that issuances stay unique (in KnownIssuances, in the memory     *)
(* pool and, until a restart, in the active chain), that the state is well *)
(* typed, that the verdict on a block follows the chain on a node on which *)
(* nothing has gone wrong, and that no token grows beyond its issuance.    *)
EXTENDS TokenRegistry, DataInduction, TLAPS

Entries == [name : STRING, id : Nat, origin : TxIds]

\* The token a transaction issues is one of its outputs.
LEMMA IssuedType ==
    ASSUME NEW t \in TxIds, IssuanceOutputs(t) # {}
    PROVE  IssuedBy(t) \in Outputs
<1>1. Vout(t) \in Seq(Outputs)
  BY TxAssumption DEF Vout
<1>2. (CHOOSE i \in IssuanceOutputs(t) : TRUE) \in IssuanceOutputs(t)
  OBVIOUS
<1> QED
  BY <1>1, <1>2 DEF IssuedBy, IssuanceOutputs

\* So it has a name and an identifier (CToken::getName, getId).
LEMMA EntryType ==
    ASSUME NEW t \in TxIds, IssuanceOutputs(t) # {}
    PROVE  Entry(t) \in Entries
<1>1. IssuedBy(t).name \in STRING /\ IssuedBy(t).id \in Nat
  BY IssuedType DEF Outputs
<1> QED
  BY <1>1 DEF Entry, Entries

\* AddToIssuances keeps the vector well typed, free of repeated names and
\* identifiers and honest, and keeps every entry in its place.
LEMMA AddStep ==
    ASSUME RegistryType, KnownUnique,
           \A i \in DOMAIN known : known[i] = Entry(known[i].origin),
           NEW t \in TxIds, IssuanceOutputs(t) # {},
           known' = AddToIssuances(t)
    PROVE  /\ known' \in Seq(Entries)
           /\ KnownUnique'
           /\ \A i \in DOMAIN known' : known'[i] = Entry(known'[i].origin)
           /\ \A i \in DOMAIN known : i \in DOMAIN known' /\ known'[i] = known[i]
           /\ IssuanceUnique(t, FALSE) => \E i \in DOMAIN known' : known'[i] = Entry(t)
<1> DEFINE e == [name |-> IssuedBy(t).name, id |-> IssuedBy(t).id, origin |-> t]
<1>0. known \in Seq(Entries)
  BY DEF RegistryType, Entries
<1>1. e = Entry(t) /\ e \in Entries /\ e.name = IssuedBy(t).name /\ e.id = IssuedBy(t).id /\ e.origin = t
  BY EntryType DEF Entry
<1>2. CASE IssuedBy(t).name \in Names \/ IssuedBy(t).id \in Ids
  <2>1. known' = known
    BY <1>2 DEF AddToIssuances
  <2>2. PICK i \in DOMAIN known : known[i].name = IssuedBy(t).name \/ known[i].id = IssuedBy(t).id
    BY <1>2 DEF Names, Ids
  <2>3. IssuanceUnique(t, FALSE) => known[i].origin = t
    BY <2>2 DEF IssuanceUnique
  <2>4. IssuanceUnique(t, FALSE) => known'[i] = Entry(t)
    BY <2>1, <2>3
  <2> QED
    BY <1>0, <2>1, <2>2, <2>4 DEF KnownUnique
<1>3. CASE ~ (IssuedBy(t).name \in Names \/ IssuedBy(t).id \in Ids)
  <2>1. known' = Append(known, e)
    BY <1>3 DEF AddToIssuances
  <2>2. /\ known' \in Seq(Entries)
        /\ DOMAIN known' = 1 .. Len(known) + 1
        /\ \A i \in DOMAIN known : i \in DOMAIN known' /\ known'[i] = known[i]
        /\ known'[Len(known) + 1] = e
        /\ DOMAIN known = 1 .. Len(known)
        /\ Len(known) \in Nat
    BY <1>0, <1>1, <2>1
  <2>3. \A i \in DOMAIN known : known[i].name # e.name /\ known[i].id # e.id
    BY <1>1, <1>3 DEF Names, Ids
  <2>4. \A i \in DOMAIN known' : i \in DOMAIN known \/ i = Len(known) + 1
    BY <2>2
  <2>5. KnownUnique'
    <3> SUFFICES ASSUME NEW i \in DOMAIN known', NEW j \in DOMAIN known', i # j
                 PROVE  known'[i].name # known'[j].name /\ known'[i].id # known'[j].id
      BY DEF KnownUnique
    <3>1. CASE i \in DOMAIN known /\ j \in DOMAIN known
      BY <3>1, <2>2 DEF KnownUnique
    <3>2. CASE i \in DOMAIN known /\ j = Len(known) + 1
      BY <3>2, <2>2, <2>3
    <3>3. CASE i = Len(known) + 1 /\ j \in DOMAIN known
      BY <3>3, <2>2, <2>3
    <3> QED
      BY <3>1, <3>2, <3>3, <2>4
  <2>6. \A i \in DOMAIN known' : known'[i] = Entry(known'[i].origin)
    BY <1>1, <2>2, <2>4
  <2>7. Len(known) + 1 \in DOMAIN known' /\ known'[Len(known) + 1] = Entry(t)
    BY <1>1, <2>2
  <2> QED
    BY <2>2, <2>5, <2>6, <2>7
<1> QED
  BY <1>2, <1>3

Honest == \A i \in DOMAIN known : known[i] = Entry(known[i].origin)

\* What every change of the vector other than a restart respects.
Grows ==
    /\ known' \in Seq(Entries)
    /\ KnownUnique'
    /\ Honest'
    /\ \A i \in DOMAIN known : i \in DOMAIN known' /\ known'[i] = known[i]

\* A step that leaves KnownIssuances alone respects it.
LEMMA GrowsUnchanged ==
    ASSUME RegistryType, KnownUnique, Honest, known' = known
    PROVE  Grows
BY DEF Grows, RegistryType, Entries, KnownUnique, Honest

\* CheckToken with onlyCheck = false respects it, and when CheckToken passes
\* the issuance of the transaction is in the vector.
LEMMA RegisterStep ==
    ASSUME RegistryType, KnownUnique, Honest, NEW t \in TxIds, NEW h, NEW p,
           known' = IF HasTokenOutput(t) THEN Registered(t, h, p) ELSE known
    PROVE  /\ Grows
           /\ (HasTokenOutput(t) => CheckToken(t, h, p, FALSE)) => Covered(t)'
<1>1. IssuanceOutputs(t) # {} => HasTokenOutput(t)
  BY DEF IssuanceOutputs, HasTokenOutput, TokenOutputs, IsIssuance, IsPayToToken
<1>2. CASE /\ HasTokenOutput(t)
           /\ ReachesIssuance(t, h, p) /\ IssuanceUnique(t, FALSE)
  <2>1. known' = AddToIssuances(t) /\ IssuanceOutputs(t) # {}
    BY <1>2 DEF Registered, ReachesIssuance
  <2> QED
    BY <1>2, <2>1, AddStep DEF Grows, Honest, Covered
<1>3. CASE ~ (/\ HasTokenOutput(t)
              /\ ReachesIssuance(t, h, p) /\ IssuanceUnique(t, FALSE))
  <2>1. known' = known
    BY <1>3 DEF Registered
  <2>2. Grows
    BY <2>1, GrowsUnchanged
  <2>3. ASSUME HasTokenOutput(t) => CheckToken(t, h, p, FALSE)
        PROVE  IssuanceOutputs(t) = {}
    BY <1>1, <1>3, <2>3 DEF CheckToken, ReachesIssuance
  <2> QED
    BY <2>2, <2>3 DEF Covered
<1> QED
  BY <1>2, <1>3

\* Entries keep their place, so what was covered stays covered.
LEMMA CoveredStays ==
    ASSUME Grows, NEW t, Covered(t)
    PROVE  Covered(t)'
BY DEF Grows, Covered

\* The transactions of the chain after ConnectTip appends a block.
LEMMA ChainTxsAppend ==
    ASSUME RegistryType, chain' = Append(chain, blk)
    PROVE  ChainTxs' = ChainTxs \cup Range(blk)
<1>1. /\ DOMAIN chain' = 1 .. Len(chain) + 1 /\ DOMAIN chain = 1 .. Len(chain)
      /\ \A h \in DOMAIN chain : chain'[h] = chain[h]
      /\ chain'[Len(chain) + 1] = blk /\ Len(chain) \in Nat
  BY DEF RegistryType
<1>2. ChainTxs' \subseteq ChainTxs \cup Range(blk)
  <2> SUFFICES ASSUME NEW h \in DOMAIN chain', NEW t \in Range(chain'[h])
               PROVE  t \in ChainTxs \cup Range(blk)
    BY DEF ChainTxs
  <2>1. h \in DOMAIN chain \/ h = Len(chain) + 1
    BY <1>1
  <2> QED
    BY <1>1, <2>1 DEF ChainTxs
<1>3. ChainTxs \subseteq ChainTxs'
  BY <1>1 DEF ChainTxs
<1>4. Range(blk) \subseteq ChainTxs'
  BY <1>1 DEF ChainTxs
<1> QED
  BY <1>2, <1>3, <1>4

\* The transactions of the chain after DisconnectTip.
LEMMA ChainTxsFront ==
    ASSUME RegistryType, chain # <<>>, chain' = SubSeq(chain, 1, Height - 1)
    PROVE  ChainTxs' \subseteq ChainTxs /\ chain' \in Seq(Seq(TxIds))
<1>1. /\ chain' \in Seq(Seq(TxIds))
      /\ DOMAIN chain' \subseteq DOMAIN chain
      /\ \A h \in DOMAIN chain' : chain'[h] = chain[h]
  BY DEF RegistryType, Height
<1> QED
  BY <1>1 DEF ChainTxs

Connecting == stage \in {"connect", "check"}
PrefixCovered == \A i \in 1 .. pos - 1 : i \in DOMAIN blk => Covered(blk[i])

\* A step that lets the vector only grow, adds nothing to the chain and
\* passes no transaction keeps the invariant.
LEMMA Keep ==
    ASSUME RegistryInv, Grows, RegistryType', restarts' = restarts,
           ChainTxs' \subseteq ChainTxs,
           Connecting' => pos' = 1 \/ (Connecting /\ blk' = blk /\ pos' = pos)
    PROVE  RegistryInv'
<1>1. KnownUnique' /\ Honest'
  BY DEF Grows
<1>2. restarts' = 0 => \A t \in ChainTxs' : Covered(t)'
  BY CoveredStays DEF RegistryInv
<1>3. ASSUME restarts' = 0, Connecting', NEW i \in 1 .. pos' - 1, i \in DOMAIN blk'
      PROVE  Covered(blk[i])'
  <2>1. Connecting /\ blk' = blk /\ pos' = pos
    BY <1>3
  <2>2. PICK t : t = blk[i]
    OBVIOUS
  <2>3. Covered(t)
    BY <1>3, <2>1, <2>2 DEF RegistryInv, Connecting
  <2>4. Covered(t)' /\ blk'[i] = t
    BY <2>1, <2>2, <2>3, CoveredStays
  <2> QED
    BY <2>4 DEF Covered
<1> QED
  BY <1>1, <1>2, <1>3 DEF RegistryInv, Honest, Connecting

\* ConnectTx passes one more transaction and registers its issuance.
LEMMA ConnectTxKeeps ==
    ASSUME RegistryInv, ConnectTx
    PROVE  RegistryInv'
<1>1. pos \in Nat \ {0} /\ pos \in DOMAIN blk /\ blk[pos] \in TxIds
  BY DEF RegistryInv, RegistryType, ConnectTx
<1>2. RegistryType /\ KnownUnique /\ Honest
  BY DEF RegistryInv, Honest
<1>3. PICK t, h, p : t \in TxIds /\ t = blk[pos] /\ h = Height + 1 /\ p = Prefix
  BY <1>1
<1>4. /\ known' = IF HasTokenOutput(t) THEN Registered(t, h, p) ELSE known
      /\ HasTokenOutput(t) => CheckToken(t, h, p, FALSE)
  BY <1>3 DEF ConnectTx, TokensValid
<1>5. Grows /\ Covered(t)'
  BY <1>2, <1>3, <1>4, RegisterStep
<1>6. RegistryType'
  BY <1>2, <1>5 DEF RegistryType, ConnectTx, Grows, Entries
<1>7. /\ chain' = chain /\ ChainTxs' = ChainTxs /\ blk' = blk /\ pos' = pos + 1
      /\ restarts' = restarts /\ stage' = stage
  BY DEF ConnectTx, ChainTxs
<1>8. restarts' = 0 => \A u \in ChainTxs' : Covered(u)'
  BY <1>5, <1>7, CoveredStays DEF RegistryInv
<1>9. ASSUME restarts' = 0, NEW i \in 1 .. pos' - 1, i \in DOMAIN blk'
      PROVE  Covered(blk[i])'
  <2>1. PICK u : u = blk[i]
    OBVIOUS
  <2>2. Covered(u)'
    <3>1. CASE i = pos
      BY <1>3, <1>5, <2>1, <3>1
    <3>2. CASE i # pos
      <4>1. i \in 1 .. pos - 1 /\ i \in DOMAIN blk
        BY <1>1, <1>7, <1>9, <3>2
      <4>2. Covered(u)
        BY <1>7, <1>9, <2>1, <4>1 DEF RegistryInv, ConnectTx
      <4> QED
        BY <1>5, <4>2, CoveredStays
    <3> QED
      BY <3>1, <3>2
  <2>3. blk'[i] = u
    BY <1>7, <2>1
  <2> QED
    BY <2>2, <2>3 DEF Covered
<1> QED
  BY <1>5, <1>6, <1>8, <1>9 DEF RegistryInv, Grows, Honest

\* ConnectTip appends a block all of whose transactions have been passed.
LEMMA ConnectDoneKeeps ==
    ASSUME RegistryInv, ConnectDone
    PROVE  RegistryInv'
<1>1. /\ RegistryType /\ KnownUnique /\ Honest /\ known' = known
      /\ chain' = Append(chain, blk) /\ stage' = "idle" /\ blk' = <<>> /\ pos' = 1
      /\ scanHeight' = scanHeight /\ restarts' = restarts
  BY DEF RegistryInv, Honest, ConnectDone
<1>2. Grows
  BY <1>1, GrowsUnchanged
<1>3. RegistryType'
  BY <1>1 DEF RegistryType
<1>4. ChainTxs' = ChainTxs \cup Range(blk)
  BY <1>1, ChainTxsAppend
<1>5. ASSUME restarts = 0, NEW t \in Range(blk)
      PROVE  Covered(t)
  <2>1. PICK i \in DOMAIN blk : t = blk[i]
    BY <1>5 DEF Range
  <2>2. i \in 1 .. pos - 1
    BY <2>1, <1>1 DEF ConnectDone, RegistryType
  <2> QED
    BY <1>5, <2>1, <2>2 DEF RegistryInv, ConnectDone
<1>6. ASSUME restarts' = 0, NEW t \in ChainTxs'
      PROVE  Covered(t)'
  <2>1. Covered(t)
    BY <1>1, <1>4, <1>5, <1>6 DEF RegistryInv
  <2> QED
    BY <1>2, <2>1, CoveredStays
<1> QED
  BY <1>1, <1>2, <1>3, <1>6 DEF RegistryInv, Grows, Honest

\* Actions that leave the vector, the chain and the number of restarts alone.
Quiet ==
    /\ known' = known /\ chain' = chain /\ restarts' = restarts
    /\ \/ blk' = blk /\ pos' = pos /\ scanHeight' = scanHeight
          /\ (stage' = stage \/ stage' \in {"idle", "resubmit"})
       \/ blk' \in Seq(TxIds) /\ pos' = 1 /\ scanHeight' = scanHeight /\ stage' # "scan"
       \/ blk' = blk /\ pos' = 1 /\ stage' = "scan" /\ scanHeight' = TokenHeight

\* Such an action keeps the invariant.
LEMMA QuietKeeps ==
    ASSUME RegistryInv, Quiet
    PROVE  RegistryInv'
<1>1. Grows
  BY GrowsUnchanged DEF RegistryInv, Honest, Quiet
<1>2. RegistryType'
  BY TokenHeightAssumption DEF RegistryInv, RegistryType, Quiet
<1>3. ChainTxs' = ChainTxs /\ restarts' = restarts
  BY DEF ChainTxs, Quiet
<1>4. Connecting' => pos' = 1 \/ (Connecting /\ blk' = blk /\ pos' = pos)
  BY DEF Connecting, Quiet
<1> QED
  BY <1>1, <1>2, <1>3, <1>4, Keep

\* A step that calls CheckToken and does not advance a block under connection
\* (TokenRefused, ScanStep) keeps the invariant.
LEMMA RegisterKeeps ==
    ASSUME RegistryInv, NEW t \in TxIds, NEW h, NEW p,
           known' = IF HasTokenOutput(t) THEN Registered(t, h, p) ELSE known,
           chain' = chain, restarts' = restarts, ~ Connecting',
           blk' \in Seq(TxIds), pos' \in Nat \ {0}, scanHeight' = scanHeight,
           stage' = "scan" => stage = "scan"
    PROVE  RegistryInv'
<1>1. Grows
  BY RegisterStep DEF RegistryInv, Honest
<1>2. RegistryType'
  BY <1>1 DEF RegistryInv, RegistryType, Grows, Entries
<1>3. ChainTxs' = ChainTxs
  BY DEF ChainTxs
<1> QED
  BY <1>1, <1>2, <1>3, Keep

\* TokenRefused may leave the issuance of the refused transaction behind.
LEMMA TokenRefusedKeeps ==
    ASSUME RegistryInv, TokenRefused
    PROVE  RegistryInv'
<1>1. blk[pos] \in TxIds
  BY DEF RegistryInv, RegistryType, TokenRefused
<1>2. PICK t, h, p : t \in TxIds /\ t = blk[pos] /\ h = Height + 1 /\ p = Prefix
  BY <1>1
<1>3. HasTokenOutput(t)
  BY <1>2 DEF TokenRefused, TokensValid
<1>4. /\ chain' = chain /\ restarts' = restarts /\ stage' = "idle"
      /\ blk' = <<>> /\ pos' = 1 /\ scanHeight' = scanHeight
  BY DEF TokenRefused
<1>5. CASE AreTokensActive(Height + 1)
  <2>1. known' = IF HasTokenOutput(t) THEN Registered(t, h, p) ELSE known
    BY <1>2, <1>3, <1>5 DEF TokenRefused
  <2>2. ~ Connecting'
    BY <1>4 DEF Connecting
  <2> QED
    BY <1>2, <1>4, <2>1, <2>2, RegisterKeeps
<1>6. CASE ~ AreTokensActive(Height + 1)
  <2>1. known' = known
    BY <1>6 DEF TokenRefused
  <2> QED
    BY <1>4, <2>1, QuietKeeps DEF Quiet
<1> QED
  BY <1>5, <1>6

\* The rescan registers one transaction, or moves to the next height.
LEMMA ScanStepKeeps ==
    ASSUME RegistryInv, ScanStep
    PROVE  RegistryInv'
<1>1. /\ chain' = chain /\ restarts' = restarts /\ blk' = blk /\ stage = "scan"
      /\ RegistryType /\ KnownUnique /\ Honest
  BY DEF ScanStep, RegistryInv, Honest
<1>2. CASE pos > Len(chain[scanHeight])
  <2>1. known' = known /\ stage' = stage /\ pos' = 1 /\ scanHeight' = scanHeight + 1
    BY <1>2 DEF ScanStep
  <2>2. Grows
    BY <1>1, <2>1, GrowsUnchanged
  <2>3. RegistryType'
    BY <1>1, <2>1 DEF RegistryType
  <2>4. ChainTxs' = ChainTxs /\ ~ Connecting'
    BY <1>1, <2>1 DEF ChainTxs, Connecting
  <2> QED
    BY <1>1, <2>2, <2>3, <2>4, Keep
<1>3. CASE ~ (pos > Len(chain[scanHeight]))
  <2>1. scanHeight \in DOMAIN chain /\ chain[scanHeight] \in Seq(TxIds)
    BY <1>1 DEF ScanStep, ScanCovers, Height, RegistryType
  <2>2. chain[scanHeight][pos] \in TxIds
    BY <1>1, <1>3, <2>1 DEF RegistryType
  <2>3. PICK t, h, p : t \in TxIds /\ t = chain[scanHeight][pos] /\ h = scanHeight /\ p = {}
    BY <2>2
  <2>4. known' = IF HasTokenOutput(t) THEN Registered(t, h, p) ELSE known
    BY <1>3, <2>3 DEF ScanStep
  <2>5. pos' = pos + 1 /\ scanHeight' = scanHeight /\ stage' \in {"scan", "failed"}
    BY <1>1, <1>3 DEF ScanStep
  <2>6. blk' \in Seq(TxIds) /\ pos' \in Nat \ {0} /\ ~ Connecting'
    BY <1>1, <2>5 DEF RegistryType, Connecting
  <2> QED
    BY <1>1, <2>3, <2>4, <2>5, <2>6, RegisterKeeps
<1> QED
  BY <1>2, <1>3

\* The inductive invariant holds throughout (for every transaction table and
\* every bound).
THEOREM RegistryInvariant == Spec => []RegistryInv
<1>1. Init => RegistryInv
  <2> SUFFICES ASSUME Init PROVE RegistryInv
    OBVIOUS
  <2>1. RegistryType
    BY DEF Init, RegistryType
  <2>2. KnownUnique /\ Honest
    BY DEF Init, KnownUnique, Honest
  <2>3. ChainTxs = {}
    BY DEF Init, ChainTxs
  <2> QED
    BY <2>1, <2>2, <2>3 DEF Init, RegistryInv, Honest
<1>2. RegistryInv /\ [Next]_vars => RegistryInv'
  <2> SUFFICES ASSUME RegistryInv, [Next]_vars PROVE RegistryInv'
    OBVIOUS
  <2>1. CASE \E t \in TxIds \ Base : AcceptToMemoryPool(t)
    BY <2>1, QuietKeeps DEF AcceptToMemoryPool, Quiet
  <2>2. CASE IndexBlock
    BY <2>2, QuietKeeps DEF IndexBlock, Quiet
  <2>3. CASE \E b \in Blocks, kind \in {"connect", "check"} : StartBlock(b, kind)
    <3>1. PICK b \in Blocks, kind \in {"connect", "check"} : StartBlock(b, kind)
      BY <2>3
    <3>2. b \in Seq(TxIds)
      BY BoundsAssumption DEF Blocks
    <3> QED
      BY <3>1, <3>2, QuietKeeps DEF StartBlock, Quiet
  <2>4. CASE ConnectTx
    BY <2>4, ConnectTxKeeps
  <2>5. CASE TokenRefused
    BY <2>5, TokenRefusedKeeps
  <2>6. CASE BlockInvalid
    BY <2>6, QuietKeeps DEF BlockInvalid, Quiet
  <2>7. CASE CheckDone
    BY <2>7, QuietKeeps DEF CheckDone, Quiet
  <2>8. CASE ConnectDone
    BY <2>8, ConnectDoneKeeps
  <2>9. CASE DisconnectTip
    <3>1. RegistryType /\ KnownUnique /\ Honest /\ known' = known
      BY <2>9 DEF RegistryInv, Honest, DisconnectTip, UndoTokenIssuancesInBlock
    <3>2. Grows
      BY <3>1, GrowsUnchanged
    <3>3. ChainTxs' \subseteq ChainTxs /\ chain' \in Seq(Seq(TxIds))
      BY <2>9, <3>1, ChainTxsFront DEF DisconnectTip
    <3>4. RegistryType' /\ restarts' = restarts /\ ~ Connecting'
      BY <2>9, <3>1, <3>3 DEF RegistryType, DisconnectTip, Connecting
    <3> QED
      BY <3>2, <3>3, <3>4, Keep
  <2>10. CASE EndReorg
    BY <2>10, QuietKeeps DEF EndReorg, Quiet
  <2>11. CASE Resubmit
    BY <2>11, QuietKeeps DEF Resubmit, Quiet
  <2>12. CASE ResubmitDone
    BY <2>12, QuietKeeps DEF ResubmitDone, Quiet
  <2>13. CASE Restart
    <3>1. restarts' # 0
      BY <2>13 DEF Restart, RegistryInv, RegistryType
    <3>2. RegistryType'
      BY <2>13 DEF Restart, RegistryInv, RegistryType
    <3>3. KnownUnique' /\ Honest'
      BY <2>13 DEF Restart, KnownUnique, Honest
    <3> QED
      BY <3>1, <3>2, <3>3 DEF RegistryInv, Honest
  <2>14. CASE ScanStart
    BY <2>14, QuietKeeps DEF ScanStart, Quiet
  <2>15. CASE ScanStep
    BY <2>15, ScanStepKeeps
  <2>16. CASE ScanDone
    BY <2>16, QuietKeeps DEF ScanDone, Quiet, RegistryInv, RegistryType
  <2>17. CASE UNCHANGED vars
    BY <2>17, QuietKeeps DEF vars, Quiet
  <2> QED
    BY <2>1, <2>2, <2>3, <2>4, <2>5, <2>6, <2>7, <2>8, <2>9, <2>10, <2>11, <2>12,
       <2>13, <2>14, <2>15, <2>16, <2>17 DEF Next
<1> QED
  BY <1>1, <1>2, PTL DEF Spec

\* KnownIssuances never holds a name or an identifier twice, whatever blocks
\* are connected, refused half way, disconnected or scanned after a restart.
THEOREM RegistryUnique == Spec => []KnownUnique
<1>1. RegistryInv => KnownUnique
  BY DEF RegistryInv
<1> QED
  BY <1>1, RegistryInvariant, PTL

\* Until the node restarts, the active chain never issues a name or an
\* identifier twice: refused blocks, proposals and reorganisations cannot let
\* a second issuance past the check of ConnectBlock.
THEOREM ChainUnique == Spec => []ChainUniqueUntilRestart
<1>1. RegistryInv => ChainUniqueUntilRestart
  <2> SUFFICES ASSUME RegistryInv, restarts = 0,
                      NEW t \in ChainTxs, NEW u \in ChainTxs, t # u, IssuesSame(t, u)
               PROVE  FALSE
    BY DEF ChainUniqueUntilRestart, ChainIssuancesUnique
  <2>1. Covered(t) /\ Covered(u)
    BY DEF RegistryInv
  <2>2. PICK i \in DOMAIN known : known[i] = Entry(t)
    BY <2>1 DEF Covered, IssuesSame
  <2>3. PICK j \in DOMAIN known : known[j] = Entry(u)
    BY <2>1 DEF Covered, IssuesSame
  <2>4. i # j
    BY <2>2, <2>3 DEF Entry
  <2>5. known[i].name # known[j].name /\ known[i].id # known[j].id
    BY <2>4 DEF RegistryInv, KnownUnique
  <2> QED
    BY <2>2, <2>3, <2>5 DEF Entry, IssuesSame
<1> QED
  BY <1>1, RegistryInvariant, PTL

\* A pool that shrinks keeps its names distinct (removeRecursive,
\* removeForBlock and a restart only remove).
LEMMA PoolShrinks ==
    ASSUME MempoolNamesUnique, mempool' \subseteq mempool
    PROVE  MempoolNamesUnique'
BY DEF MempoolNamesUnique

\* A pool that takes an accepted transaction keeps its names distinct.
LEMMA PoolGrows ==
    ASSUME MempoolNamesUnique, NEW t, PoolAccepts(t), mempool' = mempool \cup {t}
    PROVE  MempoolNamesUnique'
<1> SUFFICES ASSUME NEW u \in mempool', NEW v \in mempool', u # v,
                    NEW i \in IssuanceOutputs(u), NEW j \in IssuanceOutputs(v)
             PROVE  Vout(u)[i].name # Vout(v)[j].name
  BY DEF MempoolNamesUnique
<1>1. \A x \in {u, v} : IssuanceOutputs(x) # {} => HasTokenOutput(x)
  BY DEF IssuanceOutputs, HasTokenOutput, TokenOutputs, IsIssuance, IsPayToToken
<1>2. CASE u \in mempool /\ v \in mempool
  BY <1>2 DEF MempoolNamesUnique
<1>3. CASE u = t /\ v \in mempool
  BY <1>1, <1>3 DEF PoolAccepts, CheckTokenMempool
<1>4. CASE u \in mempool /\ v = t
  BY <1>1, <1>4 DEF PoolAccepts, CheckTokenMempool
<1> QED
  BY <1>2, <1>3, <1>4

\* The memory pool never holds two issuances of one name, also while a
\* reorganisation resubmits transactions.
THEOREM PoolUnique == Spec => []MempoolNamesUnique
<1>1. Init => MempoolNamesUnique
  BY DEF Init, MempoolNamesUnique
<1>2. MempoolNamesUnique /\ [Next]_vars => MempoolNamesUnique'
  <2> SUFFICES ASSUME MempoolNamesUnique, [Next]_vars PROVE MempoolNamesUnique'
    OBVIOUS
  <2>1. ASSUME NEW pool, NEW txs PROVE RemoveRecursive(pool, txs) \subseteq pool
    BY DEF RemoveRecursive
  <2>2. ASSUME NEW pool, NEW txs PROVE RemoveForBlock(pool, txs) \subseteq pool
    BY <2>1 DEF RemoveForBlock
  <2>3. CASE \E t \in TxIds \ Base : AcceptToMemoryPool(t)
    BY <2>3, PoolGrows DEF AcceptToMemoryPool
  <2>4. CASE TokenRefused
    <3>1. mempool' \subseteq mempool
      BY <2>1, <2>4 DEF TokenRefused
    <3> QED
      BY <3>1, PoolShrinks
  <2>5. CASE ConnectDone
    BY <2>2, <2>5, PoolShrinks DEF ConnectDone
  <2>6. CASE Resubmit
    <3>1. PICK t : t = Head(pending)
      OBVIOUS
    <3>2. CASE PoolAccepts(t) /\ mempool' = mempool \cup {t}
      BY <3>2, PoolGrows
    <3>3. CASE mempool' = RemoveRecursive(mempool, {t})
      BY <2>1, <3>3, PoolShrinks
    <3> QED
      BY <2>6, <3>1, <3>2, <3>3 DEF Resubmit
  <2>7. CASE Restart
    BY <2>7, PoolShrinks DEF Restart
  <2>8. CASE mempool' = mempool
    BY <2>8, PoolShrinks
  <2> QED
    BY <2>3, <2>4, <2>5, <2>6, <2>7, <2>8
    DEF Next, vars, IndexBlock, StartBlock, ConnectTx, BlockInvalid, CheckDone,
        DisconnectTip, EndReorg, ResubmitDone, ScanStart, ScanStep, ScanDone
<1> QED
  BY <1>1, <1>2, PTL DEF Spec

-----------------------------------------------------------------------------
(* Types of the rest of the state.                                          *)

\* The pool only loses transactions in removeRecursive and removeForBlock.
LEMMA RemoveOnly ==
    ASSUME NEW pool, NEW txs
    PROVE  /\ RemoveRecursive(pool, txs) \subseteq pool
           /\ RemoveForBlock(pool, txs) \subseteq pool
<1>1. ASSUME NEW q, NEW gone PROVE RemoveRecursive(q, gone) \subseteq q
  BY DEF RemoveRecursive
<1> QED
  BY <1>1 DEF RemoveForBlock

\* What is left in disconnectpool are transactions.
LEMMA DisconnectPoolType ==
    ASSUME NEW q \in Seq(TxIds), NEW txs
    PROVE  DisconnectPoolRemove(q, txs) \in Seq(TxIds)
<1>1. PICK n \in Nat : n = Len(q)
  OBVIOUS
<1>2. PICK X : X = Seq(TxIds)
  OBVIOUS
<1>3. PICK base \in X : base = <<>>
  <2>1. <<>> \in Seq(TxIds)
    OBVIOUS
  <2> QED
    BY <1>2, <2>1, Zenon
<1>4. PICK F : F = [k \in 1 .. n |-> [x \in X |-> IF q[k] \in txs THEN x ELSE Append(x, q[k])]]
  OBVIOUS
<1>5. F \in Rounds(n, X)
  <2>1. \A k \in 1 .. n : \A x \in X : (IF q[k] \in txs THEN x ELSE Append(x, q[k])) \in X
    BY <1>1, <1>2
  <2> QED
    BY <1>4, <2>1 DEF Rounds
<1>6. PICK g : Runs(g, n, X, base, F)
  BY <1>5, LoopExists
<1> DEFINE Left(t) == t = [k \in 0 .. Len(q) |->
                            IF k = 0 THEN <<>>
                            ELSE IF q[k] \in txs THEN t[k - 1] ELSE Append(t[k - 1], q[k])]
<1>7. Left(g)
  <2>1. g \in [0 .. n -> X] /\ g[0] = <<>>
    BY <1>3, <1>6 DEF Runs
  <2>2. ASSUME NEW k \in 0 .. n, k # 0
        PROVE  g[k] = IF q[k] \in txs THEN g[k - 1] ELSE Append(g[k - 1], q[k])
    <3>0. k \in 1 .. n
      BY <2>2
    <3>1. g[k] = F[k][g[k - 1]] /\ g[k - 1] \in X
      BY <1>6, <2>1, <3>0 DEF Runs
    <3> QED
      BY <1>4, <3>0, <3>1
  <2>3. g = [k \in 0 .. n |-> g[k]]
    BY <2>1
  <2>4. \A k \in 0 .. n : g[k] = IF k = 0 THEN <<>> ELSE
            IF q[k] \in txs THEN g[k - 1] ELSE Append(g[k - 1], q[k])
    BY <2>1, <2>2, Zenon
  <2> QED
    BY <1>1, <2>3, <2>4, Zenon
<1>8. PICK t : t = CHOOSE s : Left(s)
  OBVIOUS
<1>9. Left(t)
  BY <1>7, <1>8
<1>10. DisconnectPoolRemove(q, txs) = t[n]
  BY <1>1, <1>8 DEF DisconnectPoolRemove
<1> DEFINE S == {k \in 0 .. n : t[k] \in Seq(TxIds)}
<1> HIDE DEF S
<1>0. \A k \in 0 .. n : t[k] = IF k = 0 THEN <<>> ELSE
          IF q[k] \in txs THEN t[k - 1] ELSE Append(t[k - 1], q[k])
  BY <1>1, <1>9, Zenon
<1> HIDE DEF Left
<1>11. 0 \in S
  <2>1. 0 \in 0 .. n /\ t[0] = <<>>
    BY <1>0
  <2>2. t[0] \in Seq(TxIds)
    BY <2>1
  <2> QED
    BY <2>1, <2>2 DEF S
<1>12. ASSUME NEW k \in 1 .. n, k - 1 \in S PROVE k \in S
  <2>1. t[k] = IF q[k] \in txs THEN t[k - 1] ELSE Append(t[k - 1], q[k])
    <3>1. k \in 0 .. n /\ k # 0
      OBVIOUS
    <3> QED
      BY <1>0, <3>1, Zenon
  <2>2. q[k] \in TxIds /\ t[k - 1] \in Seq(TxIds)
    BY <1>1, <1>12 DEF S
  <2>3. Append(t[k - 1], q[k]) \in Seq(TxIds)
    BY <2>2
  <2>4. t[k] \in Seq(TxIds) /\ k \in 0 .. n
    BY <2>1, <2>2, <2>3
  <2> QED
    BY <2>4 DEF S
<1>13. \A k \in 1 .. n : k - 1 \in S => k \in S
  BY <1>12
<1>14. n \in S
  <2>1. 0 .. n \subseteq S
    BY <1>11, <1>13, LoopInduction
  <2> QED
    BY <2>1
<1> QED
  BY <1>10, <1>14 DEF S

\* The types that RegistryType leaves out.
TypeRest ==
    /\ mempool \subseteq TxIds /\ indexed \subseteq TxIds
    /\ stage \in {"idle", "connect", "check", "resubmit", "scan", "failed"}
    /\ pending \in Seq(TxIds) /\ reorging \in BOOLEAN /\ loaded \in BOOLEAN
    /\ offers \in Nat /\ refusals \in Nat /\ disconnects \in Nat

\* Every step keeps them.
LEMMA TypeRestStep ==
    ASSUME RegistryType, TypeRest, Next
    PROVE  TypeRest'
<1> USE DEF TypeRest
<1>1. CASE \E t \in TxIds \ Base : AcceptToMemoryPool(t)
  BY <1>1 DEF AcceptToMemoryPool
<1>2. CASE IndexBlock
  <2>1. PICK h \in DOMAIN chain : indexed' = indexed \cup Range(chain[h])
    BY <1>2 DEF IndexBlock
  <2>2. chain[h] \in Seq(TxIds)
    BY DEF RegistryType
  <2>3. Range(chain[h]) \subseteq TxIds
    BY <2>2 DEF Range
  <2> QED
    BY <1>2, <2>1, <2>3 DEF IndexBlock
<1>3. CASE \E b \in Blocks, kind \in {"connect", "check"} : StartBlock(b, kind)
  BY <1>3 DEF StartBlock
<1>4. CASE ConnectTx
  BY <1>4 DEF ConnectTx
<1>5. CASE TokenRefused
  <2>1. mempool' \subseteq mempool
    BY <1>5, RemoveOnly DEF TokenRefused
  <2>2. /\ indexed' = indexed /\ stage' = "idle" /\ pending' = <<>> /\ reorging' = FALSE
        /\ loaded' = loaded /\ offers' = offers /\ refusals' = refusals + 1
        /\ disconnects' = disconnects
    BY <1>5 DEF TokenRefused
  <2>3. pending' \in Seq(TxIds) /\ refusals' \in Nat
    BY <2>2
  <2>4. stage' \in {"idle", "connect", "check", "resubmit", "scan", "failed"}
    BY <2>2
  <2>5. reorging' \in BOOLEAN /\ loaded' \in BOOLEAN
    BY <2>2, Zenon
  <2> QED
    BY <2>1, <2>2, <2>3, <2>4, <2>5, Zenon
<1>6. CASE BlockInvalid
  BY <1>6 DEF BlockInvalid
<1>7. CASE CheckDone
  BY <1>7 DEF CheckDone
<1>8. CASE ConnectDone
  <2>1. mempool' \subseteq mempool
    BY <1>8, RemoveOnly DEF ConnectDone
  <2>2. pending' \in Seq(TxIds)
    BY <1>8, DisconnectPoolType DEF ConnectDone
  <2> QED
    BY <1>8, <2>1, <2>2 DEF ConnectDone
<1>9. CASE DisconnectTip
  <2>1. chain[Height] \in Seq(TxIds)
    BY <1>9 DEF DisconnectTip, RegistryType, Height
  <2>2. pending' \in Seq(TxIds)
    BY <1>9, <2>1 DEF DisconnectTip
  <2> QED
    BY <1>9, <2>2 DEF DisconnectTip
<1>10. CASE EndReorg
  BY <1>10 DEF EndReorg
<1>11. CASE Resubmit
  <2>1. Head(pending) \in TxIds /\ Tail(pending) \in Seq(TxIds)
    BY <1>11 DEF Resubmit
  <2>2. mempool' \subseteq TxIds
    BY <1>11, <2>1, RemoveOnly DEF Resubmit
  <2> QED
    BY <1>11, <2>1, <2>2 DEF Resubmit
<1>12. CASE ResubmitDone
  BY <1>12 DEF ResubmitDone
<1>13. CASE Restart
  <2>1. /\ mempool' = {} /\ indexed' = indexed /\ stage' = "idle" /\ pending' = <<>>
        /\ reorging' = FALSE /\ loaded' = FALSE /\ offers' = offers
        /\ refusals' = refusals /\ disconnects' = disconnects
    BY <1>13 DEF Restart
  <2>2. pending' \in Seq(TxIds)
    BY <2>1
  <2>3. reorging' \in BOOLEAN /\ loaded' \in BOOLEAN
    BY <2>1, Zenon
  <2>4. stage' \in {"idle", "connect", "check", "resubmit", "scan", "failed"}
    BY <2>1
  <2>5. mempool' \subseteq TxIds
    BY <2>1
  <2> QED
    BY <2>1, <2>2, <2>3, <2>4, <2>5, Zenon
<1>14. CASE ScanStart
  BY <1>14 DEF ScanStart
<1>15. CASE ScanStep
  BY <1>15 DEF ScanStep
<1>16. CASE ScanDone
  BY <1>16 DEF ScanDone
<1> QED
  BY <1>1, <1>2, <1>3, <1>4, <1>5, <1>6, <1>7, <1>8, <1>9, <1>10, <1>11, <1>12,
     <1>13, <1>14, <1>15, <1>16, Zenon DEF Next

\* They hold at the start.
LEMMA TypeInit ==
    ASSUME Init
    PROVE  TypeRest
<1>1. pending \in Seq(TxIds) /\ offers \in Nat /\ refusals \in Nat /\ disconnects \in Nat
  BY DEF Init
<1>2. reorging \in BOOLEAN /\ loaded \in BOOLEAN
  BY Zenon DEF Init
<1>3. /\ mempool \subseteq TxIds /\ indexed \subseteq TxIds
      /\ stage \in {"idle", "connect", "check", "resubmit", "scan", "failed"}
  BY BaseAssumption DEF Init
<1> QED
  BY <1>1, <1>2, <1>3, Zenon DEF TypeRest

\* The node's token state is well typed throughout: vector, pool, index,
\* disconnected transactions, the block in work and the flags.
THEOREM TypeCorrect == Spec => []TypeOK
<1>1. Init => TypeRest
  BY TypeInit
<1>2. RegistryInv /\ TypeRest /\ [Next]_vars => TypeRest'
  <2>1. TypeRest /\ UNCHANGED vars => TypeRest'
    BY DEF TypeRest, vars
  <2> QED
    BY <2>1, TypeRestStep DEF RegistryInv
<1>3. RegistryInv /\ TypeRest => TypeOK
  BY DEF RegistryInv, TypeRest, TypeOK
<1> QED
  BY <1>1, <1>2, <1>3, RegistryInvariant, PTL DEF Spec

-----------------------------------------------------------------------------
(* The verdict on a block of a node on which nothing has gone wrong.        *)

\* The vector holds nothing but issuances of the chain and of the part of the
\* block already passed.
NoLeftovers ==
    \A i \in DOMAIN known : /\ known[i].origin \in ChainTxs \cup Prefix
                            /\ IssuanceOutputs(known[i].origin) # {}

Clean == refusals = 0 /\ disconnects = 0 /\ restarts = 0

\* The inductive invariant behind the verdict: blocks hold no transaction
\* twice, the index holds what was buried, a node that has not restarted does
\* not scan, and while no block was refused, only checked or disconnected
\* nothing is left behind in the vector.
VerdictInv ==
    /\ Base \subseteq indexed
    /\ IsInjective(blk) /\ Range(blk) \cap Base = {}
    /\ Connecting => pos <= Len(blk) + 1
    /\ ~ Connecting /\ stage \notin {"scan", "failed"} => pos = 1
    /\ restarts = 0 => loaded /\ stage \notin {"scan", "failed"}
    /\ Clean => NoLeftovers

\* An action that leaves vector, chain and block alone.
LEMMA VerdictQuiet ==
    ASSUME VerdictInv, indexed \subseteq indexed', stage \in {"idle", "resubmit"},
           stage' \in {"idle", "resubmit"},
           UNCHANGED <<known, chain, blk, pos, loaded, refusals, disconnects, restarts>>
    PROVE  VerdictInv'
<1>1. ChainTxs' = ChainTxs /\ Prefix' = Prefix /\ Clean' = Clean
  BY DEF ChainTxs, Prefix, Clean
<1>2. (Clean => NoLeftovers)'
  BY <1>1 DEF VerdictInv, NoLeftovers
<1>3. ~ Connecting /\ ~ Connecting' /\ pos = 1
  BY DEF Connecting, VerdictInv
<1> QED
  BY <1>2, <1>3 DEF VerdictInv

\* An action that ends the work on a block and counts what happened.
LEMMA VerdictCounted ==
    ASSUME VerdictInv, ~ Clean', indexed' = indexed, stage' \in {"idle", "resubmit"},
           pos' = 1, blk' = <<>> \/ blk' = blk, restarts' = 0 => loaded'
    PROVE  VerdictInv'
<1>1. IsInjective(<<>>) /\ Range(<<>>) = {}
  BY DEF IsInjective, Range
<1>2. ~ Connecting'
  BY DEF Connecting
<1> QED
  BY <1>1, <1>2 DEF VerdictInv

\* CheckToken adds at most the issuance of the transaction it passes.
LEMMA RegisterOrigin ==
    ASSUME RegistryType, NEW t \in TxIds, NEW h, NEW p,
           known' = (IF HasTokenOutput(t) THEN Registered(t, h, p) ELSE known),
           NEW i \in DOMAIN known'
    PROVE  \/ i \in DOMAIN known /\ known'[i] = known[i]
           \/ known'[i].origin = t /\ IssuanceOutputs(t) # {}
<1>1. CASE known' = known
  BY <1>1
<1>2. CASE known' # known
  <2>1. IssuanceOutputs(t) # {} /\ known' = AddToIssuances(t)
    BY <1>2 DEF Registered, ReachesIssuance
  <2>2. PICK e : e = [name |-> IssuedBy(t).name, id |-> IssuedBy(t).id, origin |-> t]
    OBVIOUS
  <2>3. known' = Append(known, e) /\ e.origin = t
    BY <1>2, <2>1, <2>2 DEF AddToIssuances
  <2>4. e \in Entries
    BY <2>1, <2>2, EntryType DEF Entry
  <2>5. known \in Seq(Entries)
    BY DEF RegistryType, Entries
  <2>6. (i \in DOMAIN known /\ known'[i] = known[i]) \/ known'[i] = e
    BY <2>3, <2>4, <2>5
  <2> QED
    BY <2>1, <2>3, <2>6
<1> QED
  BY <1>1, <1>2

\* ConnectTx: what it registers is in the part of the block now passed.
LEMMA VerdictConnectTx ==
    ASSUME RegistryInv, VerdictInv, ConnectTx
    PROVE  VerdictInv'
<1>1. pos \in Nat \ {0} /\ pos \in DOMAIN blk /\ pos <= Len(blk) /\ blk[pos] \in TxIds /\ Len(blk) \in Nat
  BY DEF RegistryInv, RegistryType, ConnectTx
<1>2. PICK t, h, p : t \in TxIds /\ t = blk[pos] /\ h = Height + 1 /\ p = Prefix
  BY <1>1
<1>3. known' = IF HasTokenOutput(t) THEN Registered(t, h, p) ELSE known
  BY <1>2 DEF ConnectTx
<1>4. /\ UNCHANGED <<chain, indexed, stage, blk, loaded, refusals, disconnects, restarts>>
      /\ pos' = pos + 1 /\ Connecting
  BY DEF ConnectTx, Connecting
<1>5. ChainTxs' = ChainTxs /\ Clean' = Clean /\ Connecting' = Connecting
  BY <1>4 DEF ChainTxs, Clean, Connecting
<1>6. Prefix \subseteq Prefix' /\ t \in Prefix'
  BY <1>1, <1>2, <1>4 DEF Prefix
<1>7. ASSUME Clean PROVE NoLeftovers'
  <2> SUFFICES ASSUME NEW i \in DOMAIN known'
               PROVE  /\ known'[i].origin \in ChainTxs' \cup Prefix'
                      /\ IssuanceOutputs(known'[i].origin) # {}
    BY DEF NoLeftovers
  <2>1. NoLeftovers /\ RegistryType
    BY <1>7 DEF VerdictInv, RegistryInv
  <2>2. \/ i \in DOMAIN known /\ known'[i] = known[i]
        \/ known'[i].origin = t /\ IssuanceOutputs(t) # {}
    BY <1>2, <1>3, <2>1, RegisterOrigin
  <2> QED
    BY <1>5, <1>6, <2>1, <2>2 DEF NoLeftovers
<1> QED
  BY <1>1, <1>4, <1>5, <1>7 DEF VerdictInv

\* ConnectDone: the block's transactions become transactions of the chain.
LEMMA VerdictConnectDone ==
    ASSUME RegistryInv, VerdictInv, ConnectDone
    PROVE  VerdictInv'
<1>1. /\ known' = known /\ chain' = Append(chain, blk) /\ stage' = "idle" /\ blk' = <<>> /\ pos' = 1
      /\ UNCHANGED <<indexed, loaded, refusals, disconnects, restarts>> /\ Connecting
  BY DEF ConnectDone, Connecting
<1>2. ChainTxs' = ChainTxs \cup Range(blk)
  BY <1>1, ChainTxsAppend DEF RegistryInv
<1>3. Prefix \subseteq Range(blk)
  <2>1. pos \in Nat /\ pos <= Len(blk) + 1 /\ DOMAIN blk = 1 .. Len(blk) /\ Len(blk) \in Nat
    BY <1>1 DEF VerdictInv, RegistryInv, RegistryType
  <2> QED
    BY <2>1 DEF Prefix, Range
<1>4. IsInjective(<<>>) /\ Range(<<>>) = {} /\ ~ Connecting' /\ Clean' = Clean
  BY <1>1 DEF IsInjective, Range, Connecting, Clean
<1>5. Clean => NoLeftovers'
  BY <1>1, <1>2, <1>3 DEF VerdictInv, NoLeftovers
<1> QED
  BY <1>1, <1>4, <1>5 DEF VerdictInv

\* StartBlock: nothing of the new block is passed.
LEMMA VerdictStartBlock ==
    ASSUME RegistryInv, VerdictInv, NEW b \in Blocks, NEW kind \in {"connect", "check"},
           StartBlock(b, kind)
    PROVE  VerdictInv'
<1>1. /\ stage = "idle" /\ stage' = kind /\ blk' = b /\ pos' = 1
      /\ UNCHANGED <<chain, known, indexed, loaded, refusals, disconnects, restarts>>
  BY DEF StartBlock
<1>2. IsInjective(b) /\ b \in Seq(TxIds) /\ Range(b) \cap Base = {}
  <2>1. PICK n \in 0 .. MaxBlockTxs : b \in [1 .. n -> TxIds \ Base]
    BY DEF Blocks
  <2> QED
    BY <2>1, BoundsAssumption DEF Blocks, Range
<1>3. ChainTxs' = ChainTxs /\ Clean' = Clean /\ Connecting'
  BY <1>1 DEF ChainTxs, Clean, Connecting
<1>4. Prefix = {}
  BY <1>1 DEF VerdictInv, Connecting, Prefix
<1>5. Clean => NoLeftovers'
  BY <1>1, <1>3, <1>4 DEF VerdictInv, NoLeftovers
<1>6. pos' <= Len(blk') + 1
  BY <1>1, <1>2
<1> QED
  BY <1>1, <1>2, <1>3, <1>5, <1>6 DEF VerdictInv

\* Every step keeps the invariant.
LEMMA VerdictStep ==
    ASSUME RegistryInv, TypeRest, VerdictInv, Next
    PROVE  VerdictInv'
<1>0. refusals \in Nat /\ disconnects \in Nat /\ restarts \in Nat
  BY DEF RegistryInv, RegistryType, TypeRest
<1>1. CASE \E t \in TxIds \ Base : AcceptToMemoryPool(t)
  BY <1>1, VerdictQuiet DEF AcceptToMemoryPool
<1>2. CASE IndexBlock
  <2>1. indexed \subseteq indexed'
    BY <1>2 DEF IndexBlock
  <2>2. /\ UNCHANGED <<known, chain, blk, pos, loaded, refusals, disconnects, restarts, stage>>
    BY <1>2 DEF IndexBlock
  <2>3. ChainTxs' = ChainTxs /\ Prefix' = Prefix /\ Clean' = Clean /\ Connecting' = Connecting
    BY <2>2 DEF ChainTxs, Prefix, Clean, Connecting
  <2>4. (Clean => NoLeftovers)'
    BY <2>2, <2>3 DEF VerdictInv, NoLeftovers
  <2> QED
    BY <2>1, <2>2, <2>3, <2>4 DEF VerdictInv
<1>3. CASE \E b \in Blocks, kind \in {"connect", "check"} : StartBlock(b, kind)
  BY <1>3, VerdictStartBlock
<1>4. CASE ConnectTx
  BY <1>4, VerdictConnectTx
<1>5. CASE TokenRefused
  <2>1. /\ refusals' = refusals + 1 /\ stage' = "idle" /\ blk' = <<>> /\ pos' = 1
        /\ UNCHANGED <<indexed, loaded, restarts>>
    BY <1>5 DEF TokenRefused
  <2> QED
    BY <1>0, <2>1, VerdictCounted DEF VerdictInv, Clean
<1>6. CASE BlockInvalid
  BY <1>0, <1>6, VerdictCounted DEF BlockInvalid, VerdictInv, Clean
<1>7. CASE CheckDone
  BY <1>0, <1>7, VerdictCounted DEF CheckDone, VerdictInv, Clean
<1>8. CASE ConnectDone
  BY <1>8, VerdictConnectDone
<1>9. CASE DisconnectTip
  <2>1. /\ stage = "idle" /\ disconnects' = disconnects + 1
        /\ UNCHANGED <<indexed, loaded, restarts, stage, blk, pos>>
    BY <1>9 DEF DisconnectTip
  <2>2. pos' = 1
    BY <2>1 DEF VerdictInv, Connecting
  <2> QED
    BY <1>0, <2>1, <2>2, VerdictCounted DEF VerdictInv, Clean
<1>10. CASE EndReorg
  BY <1>10, VerdictQuiet DEF EndReorg
<1>11. CASE Resubmit
  BY <1>11, VerdictQuiet DEF Resubmit
<1>12. CASE ResubmitDone
  BY <1>12, VerdictQuiet DEF ResubmitDone
<1>13. CASE Restart
  <2>1. /\ restarts' = restarts + 1 /\ stage' = "idle" /\ blk' = <<>> /\ pos' = 1
        /\ indexed' = indexed
    BY <1>13 DEF Restart
  <2> QED
    BY <1>0, <2>1, VerdictCounted DEF Clean
<1>14. CASE ScanStart \/ ScanStep \/ ScanDone
  <2>1. restarts # 0
    BY <1>14 DEF ScanStart, ScanStep, ScanDone, VerdictInv
  <2>2. UNCHANGED <<indexed, blk, restarts>>
    BY <1>14 DEF ScanStart, ScanStep, ScanDone
  <2>3. stage' \in {"scan", "failed"} \/ (stage' = "idle" /\ pos' = 1)
    BY <1>14 DEF ScanStart, ScanStep, ScanDone
  <2> QED
    BY <2>1, <2>2, <2>3 DEF VerdictInv, Clean, Connecting
<1> QED
  BY <1>1, <1>2, <1>3, <1>4, <1>5, <1>6, <1>7, <1>8, <1>9, <1>10, <1>11, <1>12,
     <1>13, <1>14, Zenon DEF Next

\* A transaction that WellFormed lets through issues at most one token.
LEMMA OneIssuance ==
    ASSUME NEW t \in TxIds, Cardinality(IssuanceOutputs(t)) <= 1, NEW i \in IssuanceOutputs(t)
    PROVE  IssuanceOutputs(t) = {i} /\ IssuedBy(t) = Vout(t)[i]
<1>1. IsFiniteSet(DOMAIN Vout(t))
  <2>1. DOMAIN Vout(t) = 1 .. Len(Vout(t)) /\ Len(Vout(t)) \in Nat
    BY TxAssumption DEF Vout
  <2> QED
    BY <2>1, FS_Interval
<1>2. IsFiniteSet(IssuanceOutputs(t))
  BY <1>1, FS_Subset DEF IssuanceOutputs
<1>3. Cardinality(IssuanceOutputs(t)) = 1
  <2>1. Cardinality(IssuanceOutputs(t)) \in Nat /\ Cardinality(IssuanceOutputs(t)) # 0
    BY <1>2, FS_CardinalityType, FS_EmptySet
  <2> QED
    BY <2>1
<1>4. PICK x : IssuanceOutputs(t) = {x}
  BY <1>2, <1>3, FS_Singleton
<1> QED
  BY <1>4 DEF IssuedBy

\* An input is an outpoint of the table.
LEMMA InputType ==
    ASSUME NEW t \in TxIds, NEW op \in Vin(t)
    PROVE  /\ op \in OutPoints /\ op[1] \in TxIds /\ op = <<op[1], op[2]>>
           /\ op[2] \in DOMAIN Vout(op[1]) /\ PrevOut(op) \in Outputs
<1>1. op \in OutPoints
  BY TxAssumption DEF Vin
<1>2. PICK u \in TxIds : \E i \in DOMAIN Tx[u].vout : op = <<u, i>>
  BY <1>1 DEF OutPoints
<1>3. Tx[u].vout \in Seq(Outputs)
  BY TxAssumption
<1> QED
  BY <1>1, <1>2, <1>3 DEF Vout, PrevOut

\* The registry and the chain agree on whether an issuance is new.
LEMMA UniqueFollowsChain ==
    ASSUME RegistryInv, restarts = 0, Connecting, NoLeftovers, NEW t \in TxIds,
           IssuanceOutputs(t) # {}, t \notin ChainTxs \cup Prefix,
           pos <= Len(blk) + 1
    PROVE  /\ (\A u \in ChainTxs \cup Prefix : ~ IssuesSame(t, u))
           <=> (\A i \in DOMAIN known :
                  known[i].origin # t => /\ known[i].name # IssuedBy(t).name
                                         /\ known[i].id # IssuedBy(t).id)
<1>1. ASSUME NEW u \in ChainTxs \cup Prefix, IssuanceOutputs(u) # {}
      PROVE  \E i \in DOMAIN known : known[i] = Entry(u)
  <2>1. CASE u \in ChainTxs
    BY <1>1, <2>1 DEF RegistryInv, Covered
  <2>2. CASE u \in Prefix
    <3>1. PICK i \in 1 .. pos - 1 : u = blk[i]
      BY <2>2 DEF Prefix
    <3>2. i \in DOMAIN blk
      BY <3>1 DEF RegistryInv, RegistryType
    <3> QED
      BY <1>1, <3>1, <3>2 DEF RegistryInv, Covered, Connecting
  <2> QED
    BY <2>1, <2>2
<1>2. \A i \in DOMAIN known : known[i] = Entry(known[i].origin)
  BY DEF RegistryInv
<1>3. ASSUME NEW u \in ChainTxs \cup Prefix, IssuesSame(t, u)
      PROVE  \E i \in DOMAIN known :
               known[i].origin # t /\ ~ (/\ known[i].name # IssuedBy(t).name
                                         /\ known[i].id # IssuedBy(t).id)
  <2>1. PICK i \in DOMAIN known : known[i] = Entry(u)
    BY <1>1, <1>3 DEF IssuesSame
  <2>2. known[i].origin = u /\ known[i].name = IssuedBy(u).name /\ known[i].id = IssuedBy(u).id
    BY <2>1 DEF Entry
  <2> QED
    BY <1>3, <2>2 DEF IssuesSame
<1>4. ASSUME NEW i \in DOMAIN known,
             ~ (known[i].name # IssuedBy(t).name /\ known[i].id # IssuedBy(t).id)
      PROVE  \E u \in ChainTxs \cup Prefix : IssuesSame(t, u)
  <2>1. PICK u \in ChainTxs \cup Prefix : u = known[i].origin /\ IssuanceOutputs(u) # {}
    BY DEF NoLeftovers
  <2>2. known[i].name = IssuedBy(u).name /\ known[i].id = IssuedBy(u).id
    BY <1>2, <2>1 DEF Entry
  <2> QED
    BY <1>4, <2>1, <2>2 DEF IssuesSame
<1> QED
  BY <1>3, <1>4

\* An input that ConnectBlock finds unspent and confirmed is one GetTransaction
\* finds, when the index has caught up.
LEMMA InputsFound ==
    ASSUME NEW t, ChainTxs \subseteq indexed, Base \subseteq indexed, RegistryType,
           NEW op \in Vin(t), Unspent(op, Prefix),
           (Height + 1) - HeightOf(op[1], Prefix) >= TOKEN_MINCONFS
    PROVE  GetTransaction(op[1])
<1>1. Height \in Nat
  BY DEF Height, RegistryType
<1>2. op[1] \notin Prefix
  BY <1>1, MinConfsAssumption DEF HeightOf
<1> QED
  BY <1>2 DEF Unspent, GetTransaction

\* The verdict of ConnectBlock on a token transaction is the one the chain
\* determines.
LEMMA VerdictAgrees ==
    ASSUME RegistryInv, VerdictInv, Clean, ChainTxs \subseteq indexed
    PROVE  VerdictFollowsChain
<1> SUFFICES ASSUME stage = "connect", pos <= Len(blk), HasTokenOutput(blk[pos]), InputsValid(blk[pos])
             PROVE  TokensValid(blk[pos]) <=> ValidToken(blk[pos])
  BY DEF VerdictFollowsChain
<1>1. /\ pos \in Nat \ {0} /\ pos \in DOMAIN blk /\ blk[pos] \in TxIds /\ RegistryType
      /\ DOMAIN blk = 1 .. Len(blk) /\ Len(blk) \in Nat /\ Height \in Nat
  BY SMTT(30) DEF RegistryInv, RegistryType, Height
<1>2. PICK t \in TxIds : t = blk[pos]
  BY <1>1
<1>3. t \notin ChainTxs \cup Prefix
  <2>1. t \notin ChainTxs
    BY <1>2 DEF InputsValid
  <2>2. \A i \in 1 .. pos - 1 : i \in DOMAIN blk /\ i # pos
    BY <1>1
  <2>3. IsInjective(blk)
    BY DEF VerdictInv
  <2>4. t \notin Prefix
    BY <1>1, <1>2, <2>2, <2>3 DEF IsInjective, Prefix
  <2> QED
    BY <2>1, <2>4
<1>4. Base \subseteq indexed /\ NoLeftovers /\ restarts = 0 /\ Connecting /\ pos <= Len(blk) + 1
  BY <1>1 DEF VerdictInv, Clean, Connecting
<1>5. AreTokensActive(Height + 1) <=> Height + 1 >= TokenHeight
  BY <1>1 DEF AreTokensActive
<1>6. CheckTokenInputs(t, Height + 1, Prefix)
        <=> \A op \in Vin(t) : (Height + 1) - HeightOf(op[1], Prefix) >= TOKEN_MINCONFS
  <2>1. \A op \in Vin(t) : CoinHeight(op, Prefix) = HeightOf(op[1], Prefix)
    BY <1>2 DEF CoinHeight, InputsValid
  <2>2. \A op \in Vin(t) : (Height + 1) - CoinHeight(op, Prefix) >= TOKEN_MINCONFS
            <=> (Height + 1) - HeightOf(op[1], Prefix) >= TOKEN_MINCONFS
    BY <2>1
  <2> QED
    BY <2>2, Zenon DEF CheckTokenInputs
<1>7. ASSUME CheckTokenInputs(t, Height + 1, Prefix), NEW op \in Vin(t)
      PROVE  GetTransaction(op[1])
  <2>1. Unspent(op, Prefix)
    BY <1>2, <1>7 DEF InputsValid
  <2>2. (Height + 1) - HeightOf(op[1], Prefix) >= TOKEN_MINCONFS
    BY <1>6, <1>7
  <2> QED
    BY <1>1, <1>4, <1>7, <2>1, <2>2, InputsFound
<1>8. Vin(t) # {}
  <2>1. t \notin Base
    BY <1>1, <1>2 DEF VerdictInv, Range
  <2> QED
    BY <2>1, VinAssumption DEF Vin
<1>9. ASSUME TokensValid(t) PROVE ValidToken(t)
  <2>1. AreTokensActive(Height + 1) /\ CheckToken(t, Height + 1, Prefix, FALSE)
    BY <1>2, <1>9 DEF TokensValid
  <2>2. /\ CheckTokenInputs(t, Height + 1, Prefix)
        /\ \A i \in TokenOutputs(t) : ContextualCheckToken(Vout(t)[i])
        /\ Cardinality(IssuanceOutputs(t)) <= 1
        /\ IssuanceOutputs(t) # {} => IssuanceUnique(t, FALSE)
        /\ \A i \in TokenOutputs(t) : PrevoutsMatch(t, i)
    BY <2>1 DEF CheckToken, WellFormed
  <2>3. \A u \in ChainTxs \cup Prefix : ~ IssuesSame(t, u)
    <3>1. CASE IssuanceOutputs(t) = {}
      BY <3>1 DEF IssuesSame
    <3>2. CASE IssuanceOutputs(t) # {}
      BY <1>3, <1>4, <2>2, <3>2, UniqueFollowsChain DEF IssuanceUnique
    <3> QED
      BY <3>1, <3>2
  <2>4. \A i \in IssuanceOutputs(t) : Vout(t)[i].id \in IdRange
    BY <2>2, OneIssuance DEF IssuanceUnique
  <2>5. ASSUME NEW i \in TokenOutputs(t), NEW op \in Vin(t)
        PROVE  LET out == Vout(t)[i]  prev == PrevOut(op) IN
               CASE out.type = "issuance" -> prev.type = "plain"
                 [] out.type = "transfer" ->
                      /\ prev.type \in {"issuance", "transfer"}
                      /\ prev.name = out.name /\ prev.id = out.id
                 [] OTHER -> FALSE
    <3>1. PICK out, prev : out = Vout(t)[i] /\ prev = PrevOut(op)
      OBVIOUS
    <3>2. /\ out.type \in {"issuance", "transfer"}
          /\ IF out.type = "issuance" THEN prev.type = "plain"
             ELSE /\ prev.type \in {"issuance", "transfer"}
                  /\ prev.name = out.name /\ prev.id = out.id
      BY <2>2, <3>1 DEF PrevoutsMatch, ContextualCheckToken, IsIssuance, IsPayToToken
    <3> QED
      BY <3>1, <3>2
  <2> QED
    BY <1>5, <1>6, <2>1, <2>2, <2>3, <2>4, <2>5 DEF ValidToken
<1>10. ASSUME ValidToken(t) PROVE TokensValid(t)
  <2>1. AreTokensActive(Height + 1) /\ CheckTokenInputs(t, Height + 1, Prefix)
    BY <1>5, <1>6, <1>10 DEF ValidToken
  <2>2. ASSUME NEW i \in TokenOutputs(t), NEW op \in Vin(t)
        PROVE  /\ Vout(t)[i].type \in {"issuance", "transfer"}
               /\ IF Vout(t)[i].type = "issuance" THEN PrevOut(op).type = "plain"
                  ELSE /\ PrevOut(op).type \in {"issuance", "transfer"}
                       /\ PrevOut(op).name = Vout(t)[i].name /\ PrevOut(op).id = Vout(t)[i].id
    <3>1. PICK out, prev : out = Vout(t)[i] /\ prev = PrevOut(op)
      OBVIOUS
    <3>2. (CASE out.type = "issuance" -> prev.type = "plain"
             [] out.type = "transfer" ->
                  /\ prev.type \in {"issuance", "transfer"}
                  /\ prev.name = out.name /\ prev.id = out.id
             [] OTHER -> FALSE)
      BY <1>10, <3>1 DEF ValidToken
    <3> QED
      BY <3>1, <3>2
  <2>3. \A i \in TokenOutputs(t) : ContextualCheckToken(Vout(t)[i])
    BY <1>8, <2>2 DEF ContextualCheckToken
  <2>4. \A i \in TokenOutputs(t) : PrevoutsMatch(t, i)
    BY <1>7, <2>1, <2>2 DEF PrevoutsMatch, ContextualCheckToken, IsIssuance, IsPayToToken
  <2>5. Cardinality(IssuanceOutputs(t)) <= 1
    BY <1>10 DEF ValidToken
  <2>6. ASSUME IssuanceOutputs(t) # {} PROVE IssuanceUnique(t, FALSE)
    <3>1. \A u \in ChainTxs \cup Prefix : ~ IssuesSame(t, u)
      BY <1>10 DEF ValidToken
    <3>2. IssuedBy(t).id \in IdRange
      BY <1>10, <2>5, <2>6, OneIssuance DEF ValidToken
    <3> QED
      BY <1>3, <1>4, <2>6, <3>1, <3>2, UniqueFollowsChain DEF IssuanceUnique
  <2> QED
    BY <2>1, <2>3, <2>4, <2>5, <2>6 DEF TokensValid, CheckToken, WellFormed
<1> QED
  BY <1>2, <1>9, <1>10

\* Blocks, index and vector stay as VerdictInv says, whatever happens.
THEOREM VerdictInvariant == Spec => []VerdictInv
<1>1. Init => TypeRest /\ VerdictInv
  <2> SUFFICES ASSUME Init PROVE TypeRest /\ VerdictInv
    OBVIOUS
  <2>1. TypeRest
    BY TypeInit
  <2>2. IsInjective(<<>>) /\ Range(<<>>) = {}
    BY DEF IsInjective, Range
  <2>3. ~ Connecting /\ NoLeftovers
    BY DEF Init, Connecting, NoLeftovers
  <2> QED
    BY <2>1, <2>2, <2>3 DEF Init, VerdictInv
<1>2. RegistryInv /\ TypeRest /\ VerdictInv /\ [Next]_vars => TypeRest' /\ VerdictInv'
  <2> SUFFICES ASSUME RegistryInv, TypeRest, VerdictInv, UNCHANGED vars PROVE TypeRest' /\ VerdictInv'
    BY TypeRestStep, VerdictStep DEF RegistryInv
  <2>1. TypeRest'
    BY DEF TypeRest, vars
  <2>2. ChainTxs' = ChainTxs /\ Prefix' = Prefix /\ Clean' = Clean /\ Connecting' = Connecting
    BY DEF vars, ChainTxs, Prefix, Clean, Connecting
  <2>3. NoLeftovers => NoLeftovers'
    BY <2>2 DEF vars, NoLeftovers
  <2> QED
    BY <2>1, <2>2, <2>3 DEF VerdictInv, vars
<1> QED
  BY <1>1, <1>2, RegistryInvariant, PTL DEF Spec

\* A node that connected every block it was offered, has not restarted and
\* whose index has caught up passes a token transaction exactly when the chain
\* allows it: whatever the interleaving of pool, index and blocks, what
\* CheckToken reads from KnownIssuances and GetTransaction is what the chain
\* says.
THEOREM VerdictAlwaysFollowsChain == Spec => []VerdictFollowsChainWhenClean
<1>1. RegistryInv /\ VerdictInv => VerdictFollowsChainWhenClean
  BY VerdictAgrees DEF VerdictFollowsChainWhenClean, Clean
<1> QED
  BY <1>1, RegistryInvariant, VerdictInvariant, PTL

-----------------------------------------------------------------------------
(* The supply of a token.                                                   *)

Own(t) == {<<t, i>> : i \in DOMAIN Vout(t)}
Worth(ops) == SumFunctionOnSet(Value, ops)

\* Outputs have a value (CTxOut::nValue), and a transaction has finitely many.
LEMMA OutPointFacts ==
    /\ \A op \in OutPoints : Value[op] \in Nat /\ Value[op] = PrevOut(op).value
    /\ \A t \in TxIds : /\ IsFiniteSet(Own(t)) /\ Own(t) \subseteq OutPoints
                        /\ IsFiniteSet(Vin(t)) /\ Vin(t) \subseteq OutPoints
                        /\ ValueIn(t) = Worth(Vin(t)) /\ ValueOut(t) = Worth(Own(t))
<1>1. ASSUME NEW op \in OutPoints PROVE Value[op] \in Nat /\ Value[op] = PrevOut(op).value
  <2>1. PICK u \in TxIds : \E i \in DOMAIN Tx[u].vout : op = <<u, i>>
    BY DEF OutPoints
  <2>2. PICK i \in DOMAIN Tx[u].vout : op = <<u, i>>
    BY <2>1
  <2>3. Tx[u].vout \in Seq(Outputs)
    BY TxAssumption
  <2>4. Tx[u].vout[i] \in Outputs /\ PrevOut(op) = Tx[u].vout[i]
    BY <2>2, <2>3 DEF PrevOut, Vout
  <2> QED
    BY <2>4 DEF Value, Outputs
<1>2. ASSUME NEW t \in TxIds PROVE IsFiniteSet(Own(t)) /\ Own(t) \subseteq OutPoints
  <2>1. DOMAIN Vout(t) = 1 .. Len(Vout(t)) /\ Len(Vout(t)) \in Nat
    BY TxAssumption DEF Vout
  <2>2. IsFiniteSet(DOMAIN Vout(t))
    BY <2>1, FS_Interval
  <2>3. PICK f : f = [i \in DOMAIN Vout(t) |-> <<t, i>>]
    OBVIOUS
  <2>4. f \in Surjection(DOMAIN Vout(t), Own(t))
    BY <2>3 DEF Surjection, Own
  <2>5. IsFiniteSet(Own(t))
    BY <2>2, <2>4, FS_Surjection
  <2> QED
    BY <2>5 DEF Own, OutPoints, Vout
<1> QED
  BY <1>1, <1>2, TxAssumption DEF Vin, ValueIn, ValueOut, Worth, Own

\* Sums of values, for sets of outpoints.
LEMMA WorthFacts ==
    ASSUME NEW S, IsFiniteSet(S), S \subseteq OutPoints
    PROVE  /\ Worth(S) \in Nat
           /\ \A T \in SUBSET S : IsFiniteSet(T) /\ Worth(T) \in Nat /\ Worth(T) <= Worth(S)
<1>1. \A op \in S : Value[op] \in Nat
  BY OutPointFacts
<1>2. Worth(S) \in Nat
  BY <1>1, SumTake DEF Worth
<1>3. ASSUME NEW T \in SUBSET S
      PROVE  IsFiniteSet(T) /\ Worth(T) \in Nat /\ Worth(T) <= Worth(S)
  <2>1. IsFiniteSet(T)
    BY FS_Subset
  <2>2. Worth(T) <= Worth(S)
    BY <1>1, SumMonotone DEF Worth
  <2>3. Worth(T) \in Nat
    BY <1>1, <2>1, SumTake DEF Worth
  <2> QED
    BY <2>1, <2>2, <2>3
<1> QED
  BY <1>2, <1>3

\* The sum over two sets of outpoints that share none.
LEMMA WorthUnion ==
    ASSUME NEW S, IsFiniteSet(S), S \subseteq OutPoints,
           NEW T, IsFiniteSet(T), T \subseteq OutPoints, S \cap T = {}
    PROVE  Worth(S \cup T) = Worth(S) + Worth(T) /\ IsFiniteSet(S \cup T)
<1>1. \A op \in S \cup T : Value[op] \in Nat
  BY OutPointFacts
<1> QED
  BY <1>1, SumUnion, FS_Union DEF Worth

\* The value of one output.
LEMMA WorthOne ==
    ASSUME NEW op \in OutPoints
    PROVE  IsFiniteSet({op}) /\ Worth({op}) = PrevOut(op).value
<1>1. Value[op] \in Nat /\ Value[op] = PrevOut(op).value
  BY OutPointFacts
<1>2. PICK S : S = {} /\ IsFiniteSet(S) /\ op \notin S /\ S \cup {op} = {op}
  BY FS_EmptySet
<1>3. Worth(S) = 0
  BY <1>2, SumTake DEF Worth
<1>4. Worth(S \cup {op}) = Value[op] + Worth(S)
  <2>1. \A y \in S \cup {op} : Value[y] \in Nat
    BY <1>1, <1>2
  <2> QED
    BY <1>2, <2>1, SumAdd DEF Worth
<1>5. IsFiniteSet({op})
  BY FS_Singleton
<1>6. Worth({op}) = Value[op] + 0
  BY <1>2, <1>3, <1>4, Zenon
<1> QED
  BY <1>1, <1>5, <1>6

\* Every token output of txs is of a token that one of txs issued.
Issued(txs) ==
    \A u \in txs : \A i \in TokenOutputs(u) : \E t \in txs :
        /\ IssuanceOutputs(t) # {}
        /\ IssuedBy(t).name = Vout(u)[i].name /\ IssuedBy(t).id = Vout(u)[i].id

\* What holds of the transactions of every piece of the chain.
Sound(txs) ==
    /\ txs \subseteq TxIds \ Base
    /\ Issued(txs)
    /\ \A t \in txs : IssuanceOutputs(t) # {} =>
         IsFiniteSet(Circulating(t, txs)) /\ Worth(Circulating(t, txs)) <= IssuedBy(t).value

\* The token rules CheckToken leaves standing for a transaction it passes.
Checked(u) ==
    /\ Cardinality(IssuanceOutputs(u)) <= 1
    /\ \A i \in TokenOutputs(u) : \A op \in Vin(u) :
         IF IsIssuance(Vout(u)[i]) THEN ~ IsPayToToken(PrevOut(op))
         ELSE /\ IsPayToToken(PrevOut(op))
              /\ PrevOut(op).name = Vout(u)[i].name /\ PrevOut(op).id = Vout(u)[i].id

\* u may follow the transactions txs.
Follows(u, txs) ==
    /\ u \in TxIds \ Base /\ u \notin txs
    /\ \A op \in Vin(u) : op[1] \in Base \cup txs /\ op \notin SpentIn(txs)
    /\ ValueIn(u) >= ValueOut(u)
    /\ HasTokenOutput(u) => Checked(u)
    /\ \A t \in txs : ~ IssuesSame(t, u)

\* An input that carries a token was made above the buried blocks.
LEMMA TokenInputAbove ==
    ASSUME NEW txs, NEW u, Follows(u, txs), NEW op \in Vin(u), IsPayToToken(PrevOut(op))
    PROVE  /\ op[1] \in txs /\ op[1] \in TxIds /\ op \in OutPoints
           /\ op[2] \in TokenOutputs(op[1]) /\ PrevOut(op) = Vout(op[1])[op[2]]
<1>1. u \in TxIds /\ op[1] \in Base \cup txs
  BY DEF Follows
<1>2. op \in OutPoints /\ op[1] \in TxIds /\ op[2] \in DOMAIN Vout(op[1])
  BY <1>1, InputType
<1>3. op[1] \notin Base
  BY <1>2, BaseAssumption DEF Vout, PrevOut, IsPayToToken
<1> QED
  BY <1>1, <1>2, <1>3 DEF TokenOutputs, PrevOut

\* A transaction that issues a token has no other token output: its inputs
\* would have to carry a token and to carry none.
LEMMA IssuanceAlone ==
    ASSUME NEW txs, NEW u, Follows(u, txs), NEW i \in IssuanceOutputs(u), NEW j \in TokenOutputs(u)
    PROVE  j = i /\ IssuedBy(u) = Vout(u)[i]
<1>1. u \in TxIds \ Base /\ Checked(u) /\ i \in TokenOutputs(u) /\ IsIssuance(Vout(u)[i])
  BY DEF Follows, HasTokenOutput, TokenOutputs, IssuanceOutputs, IsIssuance, IsPayToToken
<1>2. PICK op \in Vin(u) : TRUE
  BY <1>1, VinAssumption DEF Vin
<1>3. j \in IssuanceOutputs(u)
  BY <1>1, <1>2 DEF Checked, TokenOutputs, IssuanceOutputs
<1> QED
  BY <1>1, <1>3, OneIssuance DEF Checked

\* One more transaction: the unspent outputs of the token of t are old ones
\* that it does not spend, and its own.
LEMMA CirculatingStep ==
    ASSUME NEW txs, NEW u, Follows(u, txs), NEW t
    PROVE  LET old == Circulating(t, txs) \ Vin(u)
               own == {op \in Own(u) : /\ IsPayToToken(PrevOut(op))
                                       /\ PrevOut(op).name = IssuedBy(t).name
                                       /\ PrevOut(op).id = IssuedBy(t).id}
           IN  Circulating(t, txs \cup {u}) \subseteq old \cup own /\ old \cap own = {}
<1> DEFINE own == {op \in Own(u) : /\ IsPayToToken(PrevOut(op))
                                   /\ PrevOut(op).name = IssuedBy(t).name
                                   /\ PrevOut(op).id = IssuedBy(t).id}
<1>1. ASSUME NEW op \in Circulating(t, txs \cup {u}), op[1] # u
      PROVE  op \in Circulating(t, txs) \ Vin(u)
  BY <1>1 DEF Circulating, SpentIn
<1>2. ASSUME NEW op \in Circulating(t, txs \cup {u}), op[1] = u
      PROVE  op \in own
  <2>1. op \in OutPoints
    BY DEF Circulating
  <2>2. PICK v \in TxIds : \E i \in DOMAIN Tx[v].vout : op = <<v, i>>
    BY <2>1 DEF OutPoints
  <2>3. op \in Own(u)
    BY <1>2, <2>2 DEF Own, Vout
  <2> QED
    BY <2>3 DEF Circulating
<1>3. \A op \in own : op[1] = u
  BY DEF Own
<1>4. \A op \in Circulating(t, txs) : op[1] # u
  BY DEF Circulating, Follows
<1> QED
  BY <1>1, <1>2, <1>3, <1>4

\* The token outputs of u are of tokens that u or one of txs issued.
LEMMA IssuedStep ==
    ASSUME NEW txs, Sound(txs), NEW u, Follows(u, txs)
    PROVE  Issued(txs \cup {u})
<1> SUFFICES ASSUME NEW v \in txs \cup {u}, NEW i \in TokenOutputs(v)
             PROVE  \E t \in txs \cup {u} :
                      /\ IssuanceOutputs(t) # {}
                      /\ IssuedBy(t).name = Vout(v)[i].name /\ IssuedBy(t).id = Vout(v)[i].id
  BY DEF Issued
<1>1. CASE v \in txs
  BY <1>1 DEF Sound, Issued
<1>2. CASE v = u /\ i \in IssuanceOutputs(u)
  <2>1. IssuedBy(u) = Vout(u)[i]
    BY <1>2, IssuanceAlone
  <2> QED
    BY <1>2, <2>1
<1>3. CASE v = u /\ i \notin IssuanceOutputs(u)
  <2>1. u \in TxIds \ Base /\ Checked(u) /\ ~ IsIssuance(Vout(u)[i])
    BY <1>3 DEF Follows, HasTokenOutput, TokenOutputs, IssuanceOutputs
  <2>2. PICK op \in Vin(u) : TRUE
    BY <2>1, VinAssumption DEF Vin
  <2>3. /\ IsPayToToken(PrevOut(op))
        /\ PrevOut(op).name = Vout(u)[i].name /\ PrevOut(op).id = Vout(u)[i].id
    BY <1>3, <2>1, <2>2 DEF Checked
  <2>4. /\ op[1] \in txs /\ op[2] \in TokenOutputs(op[1])
        /\ PrevOut(op) = Vout(op[1])[op[2]]
    BY <2>2, <2>3, TokenInputAbove
  <2>5. PICK w, k : w = op[1] /\ k = op[2]
    OBVIOUS
  <2>6. w \in txs /\ k \in TokenOutputs(w) /\ PrevOut(op) = Vout(w)[k]
    BY <2>4, <2>5
  <2>7. PICK t \in txs : /\ IssuanceOutputs(t) # {}
                         /\ IssuedBy(t).name = Vout(w)[k].name /\ IssuedBy(t).id = Vout(w)[k].id
    BY <2>6 DEF Sound, Issued
  <2> QED
    BY <1>3, <2>3, <2>6, <2>7
<1> QED
  BY <1>1, <1>2, <1>3

\* A token issued before u: u makes none of it, or spends at least as much
\* of it as it makes.
LEMMA SupplyOfOld ==
    ASSUME NEW txs, Sound(txs), NEW u, Follows(u, txs), NEW t \in txs, IssuanceOutputs(t) # {}
    PROVE  /\ IsFiniteSet(Circulating(t, txs \cup {u}))
           /\ Worth(Circulating(t, txs \cup {u})) <= IssuedBy(t).value
<1>1. PICK all : all = Circulating(t, txs)
  OBVIOUS
<1>2. PICK now : now = Circulating(t, txs \cup {u})
  OBVIOUS
<1>3. PICK old : old = all \ Vin(u)
  OBVIOUS
<1>4. PICK own : own = {op \in Own(u) : /\ IsPayToToken(PrevOut(op))
                                        /\ PrevOut(op).name = IssuedBy(t).name
                                        /\ PrevOut(op).id = IssuedBy(t).id}
  OBVIOUS
<1>5. now \subseteq old \cup own /\ old \cap own = {}
  BY <1>1, <1>2, <1>3, <1>4, CirculatingStep
<1>6. u \in TxIds \ Base /\ t \in TxIds \ Base /\ IssuedBy(t).value \in Nat
  <2>1. u \in TxIds \ Base /\ t \in TxIds \ Base
    BY DEF Follows, Sound
  <2>2. IssuedBy(t) \in Outputs
    BY <2>1, IssuedType
  <2> QED
    BY <2>1, <2>2 DEF Outputs
<1>7. /\ IsFiniteSet(all) /\ all \subseteq OutPoints /\ Worth(all) \in Nat
      /\ Worth(all) <= IssuedBy(t).value
  <2>1. IsFiniteSet(all) /\ Worth(all) <= IssuedBy(t).value
    BY <1>1 DEF Sound
  <2>2. all \subseteq OutPoints
    BY <1>1 DEF Circulating
  <2> QED
    BY <2>1, <2>2, WorthFacts
<1>8. CASE own = {}
  <2>1. now \subseteq all
    BY <1>3, <1>5, <1>8
  <2>2. IsFiniteSet(now) /\ Worth(now) \in Nat /\ Worth(now) <= Worth(all)
    BY <1>7, <2>1, WorthFacts
  <2> QED
    BY <1>2, <1>6, <1>7, <2>2
<1>9. CASE own # {}
  <2>1. PICK i \in TokenOutputs(u) : /\ Vout(u)[i].name = IssuedBy(t).name
                                     /\ Vout(u)[i].id = IssuedBy(t).id
    <3>1. PICK op \in own : TRUE
      BY <1>9
    <3>2. PICK i \in DOMAIN Vout(u) : op = <<u, i>>
      BY <1>4, <3>1 DEF Own
    <3>3. PrevOut(op) = Vout(u)[i]
      BY <3>2 DEF PrevOut
    <3> QED
      BY <1>4, <3>1, <3>2, <3>3 DEF TokenOutputs
  <2>2. ~ IsIssuance(Vout(u)[i])
    <3> SUFFICES ASSUME IsIssuance(Vout(u)[i]) PROVE FALSE
      OBVIOUS
    <3>1. i \in IssuanceOutputs(u)
      BY <2>1 DEF TokenOutputs, IssuanceOutputs
    <3>2. IssuedBy(u) = Vout(u)[i]
      BY <2>1, <3>1, IssuanceAlone
    <3>3. IssuesSame(t, u)
      BY <2>1, <3>1, <3>2 DEF IssuesSame
    <3> QED
      BY <3>3 DEF Follows
  <2>3. Vin(u) \subseteq all
    <3> SUFFICES ASSUME NEW op \in Vin(u) PROVE op \in all
      OBVIOUS
    <3>1. Checked(u)
      BY <2>1 DEF Follows, HasTokenOutput
    <3>2. /\ IsPayToToken(PrevOut(op))
          /\ PrevOut(op).name = IssuedBy(t).name /\ PrevOut(op).id = IssuedBy(t).id
      BY <2>1, <2>2, <3>1 DEF Checked
    <3>3. op[1] \in txs /\ op \in OutPoints
      BY <3>2, TokenInputAbove
    <3>4. op \notin SpentIn(txs)
      BY DEF Follows
    <3> QED
      BY <1>1, <3>2, <3>3, <3>4 DEF Circulating
  <2>4. IsFiniteSet(old) /\ old \subseteq OutPoints /\ Worth(old) \in Nat
    BY <1>3, <1>7, WorthFacts
  <2>5. /\ IsFiniteSet(Vin(u)) /\ Vin(u) \subseteq OutPoints
        /\ IsFiniteSet(Own(u)) /\ Own(u) \subseteq OutPoints
        /\ Worth(Vin(u)) >= Worth(Own(u))
    BY <1>6, OutPointFacts DEF Follows
  <2>6. IsFiniteSet(own) /\ own \subseteq OutPoints /\ Worth(own) \in Nat /\ Worth(own) <= Worth(Own(u))
    BY <1>4, <2>5, WorthFacts
  <2>7. Worth(all) = Worth(old) + Worth(Vin(u))
    <3>1. all = old \cup Vin(u) /\ old \cap Vin(u) = {}
      BY <1>3, <2>3
    <3> QED
      BY <2>4, <2>5, <3>1, WorthUnion
  <2>8. Worth(old \cup own) = Worth(old) + Worth(own) /\ IsFiniteSet(old \cup own)
    BY <1>5, <2>4, <2>6, WorthUnion
  <2>9. IsFiniteSet(now) /\ Worth(now) \in Nat /\ Worth(now) <= Worth(old \cup own)
    <3>1. old \cup own \subseteq OutPoints
      BY <2>4, <2>6
    <3> QED
      BY <1>5, <2>8, <3>1, WorthFacts
  <2>10. Worth(Vin(u)) \in Nat /\ Worth(Own(u)) \in Nat
    BY <2>5, WorthFacts
  <2>11. Worth(now) <= IssuedBy(t).value
    BY <1>6, <1>7, <2>4, <2>5, <2>6, <2>7, <2>8, <2>9, <2>10
  <2> QED
    BY <1>2, <2>9, <2>11
<1> QED
  BY <1>8, <1>9

\* The token that u itself issues: its one token output is all there is of it.
LEMMA SupplyOfNew ==
    ASSUME NEW txs, Sound(txs), NEW u, Follows(u, txs), IssuanceOutputs(u) # {}
    PROVE  /\ IsFiniteSet(Circulating(u, txs \cup {u}))
           /\ Worth(Circulating(u, txs \cup {u})) <= IssuedBy(u).value
<1>1. PICK i \in IssuanceOutputs(u) : TRUE
  OBVIOUS
<1>2. u \in TxIds /\ i \in DOMAIN Vout(u) /\ IsIssuance(Vout(u)[i])
  BY DEF Follows, IssuanceOutputs
<1>3. IssuedBy(u) = Vout(u)[i] /\ \A j \in TokenOutputs(u) : j = i
  <2>1. i \in TokenOutputs(u)
    BY <1>2 DEF TokenOutputs, IsIssuance, IsPayToToken
  <2> QED
    BY <2>1, IssuanceAlone
<1>4. PICK one : one = <<u, i>>
  OBVIOUS
<1>5. one \in OutPoints /\ PrevOut(one) = Vout(u)[i]
  BY <1>2, <1>4 DEF OutPoints, PrevOut, Vout
<1>6. ASSUME NEW op \in Circulating(u, txs) PROVE FALSE
  <2>1. /\ op \in OutPoints /\ op[1] \in txs /\ IsPayToToken(PrevOut(op))
        /\ PrevOut(op).name = IssuedBy(u).name /\ PrevOut(op).id = IssuedBy(u).id
    BY DEF Circulating
  <2>2. PICK v \in TxIds : \E k \in DOMAIN Tx[v].vout : op = <<v, k>>
    BY <2>1 DEF OutPoints
  <2>3. PICK k \in DOMAIN Tx[v].vout : op = <<v, k>>
    BY <2>2
  <2>4. v \in txs /\ k \in TokenOutputs(v) /\ PrevOut(op) = Vout(v)[k]
    BY <2>1, <2>3 DEF TokenOutputs, PrevOut, Vout
  <2>5. PICK t \in txs : /\ IssuanceOutputs(t) # {}
                         /\ IssuedBy(t).name = Vout(v)[k].name /\ IssuedBy(t).id = Vout(v)[k].id
    BY <2>4 DEF Sound, Issued
  <2>6. IssuesSame(t, u)
    BY <2>1, <2>4, <2>5 DEF IssuesSame
  <2> QED
    BY <2>6 DEF Follows
<1>7. Circulating(u, txs \cup {u}) \subseteq {one}
  <2> SUFFICES ASSUME NEW op \in Circulating(u, txs \cup {u}) PROVE op = one
    OBVIOUS
  <2>1. op \in Own(u) /\ IsPayToToken(PrevOut(op))
    BY <1>6, CirculatingStep
  <2>2. PICK j \in DOMAIN Vout(u) : op = <<u, j>>
    BY <2>1 DEF Own
  <2>3. j \in TokenOutputs(u)
    BY <2>1, <2>2 DEF TokenOutputs, PrevOut
  <2> QED
    BY <1>3, <1>4, <2>2, <2>3
<1>8. IsFiniteSet({one}) /\ Worth({one}) = IssuedBy(u).value
  BY <1>3, <1>5, WorthOne
<1>9. {one} \subseteq OutPoints
  BY <1>5
<1>10. PICK now : now = Circulating(u, txs \cup {u})
  OBVIOUS
<1>11. IsFiniteSet(now) /\ Worth(now) <= Worth({one})
  BY <1>7, <1>8, <1>9, <1>10, WorthFacts
<1> QED
  BY <1>8, <1>10, <1>11

\* So a transaction that may follow keeps every supply.
LEMMA SoundStep ==
    ASSUME NEW txs, Sound(txs), NEW u, Follows(u, txs)
    PROVE  Sound(txs \cup {u})
<1>1. txs \cup {u} \subseteq TxIds \ Base
  BY DEF Sound, Follows
<1>2. Issued(txs \cup {u})
  BY IssuedStep
<1>3. ASSUME NEW t \in txs \cup {u}, IssuanceOutputs(t) # {}
      PROVE  /\ IsFiniteSet(Circulating(t, txs \cup {u}))
             /\ Worth(Circulating(t, txs \cup {u})) <= IssuedBy(t).value
  <2>1. CASE t \in txs
    BY <1>3, <2>1, SupplyOfOld
  <2>2. CASE t = u
    BY <1>3, <2>2, SupplyOfNew
  <2> QED
    BY <2>1, <2>2
<1> QED
  BY <1>1, <1>2, <1>3 DEF Sound

\* What ConnectBlock has checked when it passes a transaction.
LEMMA PassedFollows ==
    ASSUME RegistryInv, VerdictInv, restarts = 0, ConnectTx
    PROVE  Follows(blk[pos], ChainTxs \cup Prefix)
<1>1. pos \in Nat \ {0} /\ pos \in DOMAIN blk /\ blk[pos] \in TxIds /\ Connecting
  BY DEF RegistryInv, RegistryType, ConnectTx, Connecting
<1>2. PICK u : u = blk[pos]
  OBVIOUS
<1>3. u \in TxIds \ Base /\ u \notin ChainTxs
  BY <1>1, <1>2 DEF VerdictInv, Range, ConnectTx, InputsValid
<1>4. u \notin Prefix
  <2> SUFFICES ASSUME NEW i \in 1 .. pos - 1, u = blk[i] PROVE FALSE
    BY DEF Prefix
  <2>1. i \in DOMAIN blk /\ i # pos
    BY <1>1 DEF RegistryInv, RegistryType
  <2> QED
    BY <1>1, <1>2, <2>1 DEF VerdictInv, IsInjective
<1>5. \A op \in Vin(u) : op[1] \in Base \cup (ChainTxs \cup Prefix) /\ op \notin SpentIn(ChainTxs \cup Prefix)
  BY <1>2 DEF ConnectTx, InputsValid, Unspent
<1>6. ValueIn(u) >= ValueOut(u)
  BY <1>2 DEF ConnectTx, InputsValid
<1>7. HasTokenOutput(u) => /\ Cardinality(IssuanceOutputs(u)) <= 1
                           /\ IssuanceOutputs(u) # {} => IssuanceUnique(u, FALSE)
                           /\ \A i \in TokenOutputs(u) : PrevoutsMatch(u, i)
  BY <1>2 DEF ConnectTx, TokensValid, CheckToken, WellFormed
<1>8. HasTokenOutput(u) => Checked(u)
  BY <1>7 DEF Checked, PrevoutsMatch, ContextualCheckToken, IsPayToToken
<1>9. ASSUME NEW t \in ChainTxs \cup Prefix, IssuesSame(t, u) PROVE FALSE
  <2>1. IssuanceOutputs(t) # {} /\ IssuanceOutputs(u) # {} /\ t # u
    BY <1>3, <1>4, <1>9 DEF IssuesSame
  <2>2. HasTokenOutput(u)
    BY <2>1 DEF HasTokenOutput, TokenOutputs, IssuanceOutputs, IsIssuance, IsPayToToken
  <2>3. Covered(t)
    <3>1. CASE t \in ChainTxs
      BY <3>1 DEF RegistryInv
    <3>2. CASE t \in Prefix
      <4>1. PICK i \in 1 .. pos - 1 : t = blk[i]
        BY <3>2 DEF Prefix
      <4>2. i \in DOMAIN blk
        BY <1>1, <4>1 DEF RegistryInv, RegistryType
      <4> QED
        BY <1>1, <4>1, <4>2 DEF RegistryInv, Connecting
    <3> QED
      BY <3>1, <3>2
  <2>4. PICK k \in DOMAIN known : known[k] = Entry(t)
    BY <2>1, <2>3 DEF Covered
  <2>5. known[k].origin # u /\ known[k].name = IssuedBy(t).name /\ known[k].id = IssuedBy(t).id
    <3>1. Entry(t).origin = t /\ Entry(t).name = IssuedBy(t).name /\ Entry(t).id = IssuedBy(t).id
      BY DEF Entry
    <3> QED
      BY <2>1, <2>4, <3>1
  <2>6. IssuedBy(t).name # IssuedBy(u).name /\ IssuedBy(t).id # IssuedBy(u).id
    BY <1>7, <2>1, <2>2, <2>5 DEF IssuanceUnique
  <2> QED
    BY <1>9, <2>6 DEF IssuesSame
<1>10. Follows(u, ChainTxs \cup Prefix)
  BY <1>3, <1>4, <1>5, <1>6, <1>8, <1>9 DEF Follows
<1> QED
  BY <1>2, <1>10

\* The transactions of the first h blocks of a chain.
TxsUpTo(c, h) == UNION {Range(c[g]) : g \in 1 .. h}

\* The inductive invariant behind the supply: it is sound after every block
\* of the chain, so disconnecting blocks leaves it sound, and after every
\* transaction already passed of the block in work.
SupplyInv ==
    restarts = 0 =>
        /\ \A h \in 0 .. Height : Sound(TxsUpTo(chain, h))
        /\ Connecting => Sound(ChainTxs \cup Prefix)

\* Nothing circulates before the first block above the buried ones.
LEMMA SoundEmpty == Sound({})
BY DEF Sound, Issued

\* Chains that agree up to h have the same transactions up to h.
LEMMA TxsUpToAgree ==
    ASSUME NEW c, NEW d, NEW h, \A g \in 1 .. h : c[g] = d[g]
    PROVE  TxsUpTo(c, h) = TxsUpTo(d, h)
BY DEF TxsUpTo

\* All the blocks give all the transactions.
LEMMA TxsUpToTip ==
    ASSUME RegistryType
    PROVE  ChainTxs = TxsUpTo(chain, Height)
<1>1. DOMAIN chain = 1 .. Height
  BY DEF RegistryType, Height
<1> QED
  BY <1>1 DEF ChainTxs, TxsUpTo

\* A step that leaves the chain alone, and leaves the block in work alone or
\* ends or begins the work on one.
LEMMA SupplyQuiet ==
    ASSUME RegistryType, SupplyInv, chain' = chain, restarts' = restarts,
           \/ ~ Connecting'
           \/ Connecting' /\ pos' = 1
           \/ Connecting /\ blk' = blk /\ pos' = pos
    PROVE  SupplyInv'
<1> SUFFICES ASSUME restarts = 0
             PROVE  /\ \A h \in 0 .. Height' : Sound(TxsUpTo(chain', h))
                    /\ Connecting' => Sound(ChainTxs' \cup Prefix')
  BY DEF SupplyInv
<1>1. Height' = Height /\ ChainTxs' = ChainTxs /\ Height \in Nat
  BY DEF Height, ChainTxs, RegistryType
<1>2. \A h \in 0 .. Height : Sound(TxsUpTo(chain, h))
  BY DEF SupplyInv
<1>3. ASSUME Connecting' PROVE Sound(ChainTxs' \cup Prefix')
  <2>1. CASE pos' = 1
    <3>1. Prefix' = {}
      BY <2>1 DEF Prefix
    <3>2. Sound(ChainTxs)
      BY <1>1, <1>2, TxsUpToTip
    <3>3. ChainTxs' \cup Prefix' = ChainTxs
      BY <1>1, <3>1
    <3> QED
      BY <3>2, <3>3
  <2>2. CASE Connecting /\ blk' = blk /\ pos' = pos
    <3>1. ChainTxs' \cup Prefix' = ChainTxs \cup Prefix
      BY <1>1, <2>2 DEF Prefix
    <3> QED
      BY <2>2, <3>1 DEF SupplyInv
  <2> QED
    BY <1>3, <2>1, <2>2
<1> QED
  BY <1>1, <1>2, <1>3

\* ConnectTx: one more transaction that may follow.
LEMMA SupplyConnectTx ==
    ASSUME RegistryInv, VerdictInv, SupplyInv, ConnectTx
    PROVE  SupplyInv'
<1>1. UNCHANGED <<chain, stage, blk, restarts>> /\ pos' = pos + 1 /\ Connecting /\ pos \in Nat \ {0}
  BY DEF ConnectTx, Connecting, RegistryInv, RegistryType
<1> SUFFICES ASSUME restarts = 0
             PROVE  /\ \A h \in 0 .. Height' : Sound(TxsUpTo(chain', h))
                    /\ Sound(ChainTxs' \cup Prefix')
  BY <1>1 DEF SupplyInv
<1>2. Height' = Height /\ ChainTxs' = ChainTxs
  BY <1>1 DEF Height, ChainTxs
<1>3. \A h \in 0 .. Height' : Sound(TxsUpTo(chain', h))
  BY <1>1, <1>2 DEF SupplyInv
<1>4. Prefix' = Prefix \cup {blk[pos]}
  BY <1>1 DEF Prefix
<1>5. PICK txs : txs = ChainTxs \cup Prefix
  OBVIOUS
<1>6. Sound(txs) /\ Follows(blk[pos], txs)
  BY <1>1, <1>5, PassedFollows DEF SupplyInv
<1>7. Sound(txs \cup {blk[pos]})
  BY <1>6, SoundStep
<1>8. ChainTxs' \cup Prefix' = txs \cup {blk[pos]}
  BY <1>2, <1>4, <1>5
<1> QED
  BY <1>3, <1>7, <1>8

\* ConnectDone: the block has been passed whole.
LEMMA SupplyConnectDone ==
    ASSUME RegistryInv, VerdictInv, SupplyInv, ConnectDone
    PROVE  SupplyInv'
<1>1. chain' = Append(chain, blk) /\ stage' = "idle" /\ restarts' = restarts /\ Connecting
  BY DEF ConnectDone, Connecting
<1>2. ~ Connecting' /\ RegistryType
  BY <1>1 DEF Connecting, RegistryInv
<1> SUFFICES ASSUME restarts = 0, NEW h \in 0 .. Height'
             PROVE  Sound(TxsUpTo(chain', h))
  BY <1>1, <1>2 DEF SupplyInv
<1>3. /\ Height \in Nat /\ Height' = Height + 1 /\ DOMAIN chain' = 1 .. Height'
      /\ \A g \in 1 .. Height : chain'[g] = chain[g]
  BY <1>1, <1>2 DEF Height, RegistryType
<1>4. CASE h \in 0 .. Height
  <2>1. \A g \in 1 .. h : chain'[g] = chain[g]
    BY <1>3, <1>4
  <2>2. TxsUpTo(chain', h) = TxsUpTo(chain, h)
    BY <2>1, TxsUpToAgree
  <2> QED
    BY <1>4, <2>2 DEF SupplyInv
<1>5. CASE h = Height'
  <2>1. Prefix = Range(blk)
    <3>1. pos > Len(blk) /\ pos <= Len(blk) + 1 /\ pos \in Nat /\ Len(blk) \in Nat /\ DOMAIN blk = 1 .. Len(blk)
      BY <1>1, <1>2 DEF ConnectDone, VerdictInv, RegistryType
    <3>2. pos - 1 = Len(blk)
      BY <3>1
    <3> QED
      BY <3>1, <3>2 DEF Prefix, Range
  <2>2. ChainTxs' = ChainTxs \cup Prefix
    BY <1>1, <1>2, <2>1, ChainTxsAppend
  <2>3. TxsUpTo(chain', h) = ChainTxs'
    BY <1>3, <1>5 DEF TxsUpTo, ChainTxs
  <2> QED
    BY <1>1, <2>2, <2>3 DEF SupplyInv
<1> QED
  BY <1>3, <1>4, <1>5

\* DisconnectTip: the chain is an earlier one again.
LEMMA SupplyDisconnectTip ==
    ASSUME RegistryInv, SupplyInv, DisconnectTip
    PROVE  SupplyInv'
<1>1. /\ stage = "idle" /\ chain # <<>> /\ chain' = SubSeq(chain, 1, Height - 1)
      /\ stage' = stage /\ restarts' = restarts /\ RegistryType
  BY DEF DisconnectTip, RegistryInv
<1>2. ~ Connecting'
  BY <1>1 DEF Connecting
<1> SUFFICES ASSUME restarts = 0, NEW h \in 0 .. Height'
             PROVE  Sound(TxsUpTo(chain', h))
  BY <1>1, <1>2 DEF SupplyInv
<1>3. /\ Height \in Nat /\ Height' = Height - 1
      /\ \A g \in 1 .. Height' : chain'[g] = chain[g]
  <2>1. PICK n \in Nat : n = Len(chain) /\ n > 0
    BY <1>1 DEF RegistryType
  <2>2. chain \in Seq(Seq(TxIds)) /\ chain' = SubSeq(chain, 1, n - 1) /\ n - 1 \in 0 .. n
    BY <1>1, <2>1 DEF Height, RegistryType
  <2>3. Len(chain') = n - 1 /\ \A g \in 1 .. n - 1 : chain'[g] = chain[g]
    BY <2>1, <2>2
  <2> QED
    BY <2>1, <2>3 DEF Height
<1>4. h \in 0 .. Height /\ \A g \in 1 .. h : chain'[g] = chain[g]
  BY <1>3
<1>5. TxsUpTo(chain', h) = TxsUpTo(chain, h)
  BY <1>4, TxsUpToAgree
<1> QED
  BY <1>4, <1>5 DEF SupplyInv

\* Every step keeps the supply sound.
LEMMA SupplyStep ==
    ASSUME RegistryInv, VerdictInv, SupplyInv, Next
    PROVE  SupplyInv'
<1>0. RegistryType /\ restarts \in Nat
  BY DEF RegistryInv, RegistryType
<1>1. CASE \/ \E t \in TxIds \ Base : AcceptToMemoryPool(t)
           \/ CheckDone \/ EndReorg \/ Resubmit \/ ResubmitDone
  <2>1. chain' = chain /\ restarts' = restarts /\ stage' \in {"idle", "resubmit"}
    BY <1>1 DEF AcceptToMemoryPool, CheckDone, EndReorg, Resubmit, ResubmitDone
  <2> QED
    BY <1>0, <2>1, SupplyQuiet DEF Connecting
<1>2. CASE TokenRefused \/ BlockInvalid
  <2>1. chain' = chain /\ restarts' = restarts /\ stage' \in {"idle", "resubmit"}
    BY <1>2 DEF TokenRefused, BlockInvalid
  <2> QED
    BY <1>0, <2>1, SupplyQuiet DEF Connecting
<1>3. CASE IndexBlock
  <2>1. UNCHANGED <<chain, restarts, stage, blk, pos>>
    BY <1>3 DEF IndexBlock
  <2> QED
    BY <1>0, <2>1, SupplyQuiet DEF Connecting
<1>4. CASE \E b \in Blocks, kind \in {"connect", "check"} : StartBlock(b, kind)
  <2>1. chain' = chain /\ restarts' = restarts /\ pos' = 1
    BY <1>4 DEF StartBlock
  <2> QED
    BY <1>0, <2>1, SupplyQuiet
<1>5. CASE ConnectTx
  BY <1>5, SupplyConnectTx
<1>6. CASE ConnectDone
  BY <1>6, SupplyConnectDone
<1>7. CASE DisconnectTip
  BY <1>7, SupplyDisconnectTip
<1>8. CASE Restart
  <2>1. restarts' = restarts + 1
    BY <1>8 DEF Restart
  <2> QED
    BY <1>0, <2>1 DEF SupplyInv
<1>9. CASE ScanStart \/ ScanStep \/ ScanDone
  <2>1. restarts # 0 /\ restarts' = restarts
    BY <1>9 DEF ScanStart, ScanStep, ScanDone, VerdictInv
  <2> QED
    BY <2>1 DEF SupplyInv
<1> QED
  BY <1>1, <1>2, <1>3, <1>4, <1>5, <1>6, <1>7, <1>8, <1>9, Zenon DEF Next

\* No sequence of blocks, refused blocks and reorganisations makes more of a
\* token than its issuance made, whatever ordinary transactions there are: the
\* checks of CheckToken on inputs and issuances and the value check of
\* CheckTxInputs suffice.
THEOREM SupplyAlwaysBounded == Spec => []SupplyBounded
<1>1. Init => SupplyInv
  <2> SUFFICES ASSUME Init PROVE SupplyInv
    OBVIOUS
  <2>1. Height = 0 /\ ~ Connecting
    BY DEF Init, Height, Connecting
  <2>2. \A h \in 0 .. Height : TxsUpTo(chain, h) = {}
    BY <2>1 DEF TxsUpTo
  <2> QED
    BY <2>1, <2>2, SoundEmpty DEF SupplyInv
<1>2. RegistryInv /\ VerdictInv /\ SupplyInv /\ [Next]_vars => SupplyInv'
  <2>1. SupplyInv /\ UNCHANGED vars => SupplyInv'
    BY DEF SupplyInv, TxsUpTo, Height, ChainTxs, Prefix, Connecting, vars
  <2> QED
    BY <2>1, SupplyStep
<1>3. RegistryInv /\ SupplyInv => SupplyBounded
  <2> SUFFICES ASSUME RegistryInv, SupplyInv, restarts = 0
               PROVE  SupplyKept(ChainTxs)
    BY DEF SupplyBounded
  <2>1. Height \in Nat /\ ChainTxs = TxsUpTo(chain, Height)
    BY TxsUpToTip DEF RegistryInv, RegistryType, Height
  <2>2. Sound(ChainTxs)
    BY <2>1 DEF SupplyInv
  <2> QED
    BY <2>2 DEF Sound, SupplyKept, Worth
<1> QED
  BY <1>1, <1>2, <1>3, RegistryInvariant, VerdictInvariant, PTL DEF Spec
=============================================================================
