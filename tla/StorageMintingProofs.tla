----------------------- MODULE StorageMintingProofs -----------------------
(***************************************************************************)
(* Every proof-of-stake block of the active chain carries a proof of its   *)
(* own height that is signed or was submitted here, for any table of       *)
(* proofs, any payees, any scoring constants and any bounds.               *)
(*                                                                         *)
(* ChainProofs is not inductive: ConnectBlock accepts a proof it already   *)
(* has without looking at its signature, so the invariant must also say    *)
(* where the proofs of the cache came from.                                *)
(*                                                                         *)
(* The second half is about the scores.  AddProof is a loop over the       *)
(* entries of a proof and Init a loop over the blocks of the chain; what   *)
(* they compute is shown by the inductions of DataInduction.               *)
(***************************************************************************)
EXTENDS StorageMinting, DataInduction, TLAPS

MaybeProof == ProofIds \cup {Null}

\* What the argument needs of the shape of a block.
HoldsProof(b) == b.netProof \in MaybeProof

Vouched(p, local) == Proof[p].signed \/ p \in local

Cache == [Heights -> Seq(ProofIds)]

CacheVouched(cache, local) ==
    \A h \in Heights : \A i \in DOMAIN cache[h] : Vouched(cache[h][i], local)

AnyBlock == [nProof : MaybeProof, netProof : MaybeProof, paid : Payments]

Templates == [prev : Seq(AnyBlock), nProof : MaybeProof,
              netProof : MaybeProof, paid : Payments]

ChainShape ==
    /\ chain \in Seq(AnyBlock)
    /\ Len(chain) \in nLastPoWBlock..MaxHeight

StorageInv ==
    /\ ChainShape
    /\ proofs \in Cache
    /\ submitted \subseteq ProofIds
    /\ CacheVouched(proofs, submitted)
    /\ nBestHeight \in 0..MaxHeight
    /\ block \in Templates
    /\ verifying \in 0..Len(chain)
    /\ ChainProofs

----------------------------------------------------------------------------
(* The proof cache.                                                        *)

\* The heights of proofs, and of the empty one.
LEMMA HeightFacts ==
    /\ MaxHeight \in Nat /\ nLastPoWBlock \in 1..MaxHeight
    /\ \A p \in ProofIds : /\ ProofHeight(p) = Proof[p].height
                           /\ ProofHeight(p) \in 1..MaxHeight
                           /\ ProofHeight(p) \in Heights
    /\ ProofHeight(Null) = 0
    /\ Null \notin ProofIds
BY ProofAssumption, HeightAssumption, StorageBoundsAssumption
   DEF ProofHeight, Heights

\* push_back of a proof that is signed, or submitted here, keeps every proof
\* of the cache signed or submitted here.
LEMMA PushKeeps ==
    ASSUME NEW cache \in Cache, NEW local \in SUBSET ProofIds,
           CacheVouched(cache, local),
           NEW p \in ProofIds, Vouched(p, local)
    PROVE  /\ PushProof(cache, p) \in Cache
           /\ CacheVouched(PushProof(cache, p), local)
<1> DEFINE h == ProofHeight(p)
<1>1. h \in Heights
  BY HeightFacts
<1>2. cache[h] \in Seq(ProofIds) /\ Append(cache[h], p) \in Seq(ProofIds)
  BY <1>1 DEF Cache
<1>3. PushProof(cache, p) \in Cache
  BY <1>1, <1>2 DEF PushProof, Cache
<1>4. ASSUME NEW k \in Heights, NEW i \in DOMAIN PushProof(cache, p)[k]
      PROVE  Vouched(PushProof(cache, p)[k][i], local)
  <2>1. CASE k = h
    <3>1. PushProof(cache, p)[k] = Append(cache[h], p)
      BY <1>1, <2>1 DEF PushProof, Cache
    <3>2. \A j \in DOMAIN cache[h] : Vouched(cache[h][j], local)
      BY <1>1 DEF CacheVouched
    <3> QED BY <1>2, <1>4, <3>1, <3>2
  <2>2. CASE k # h
    <3>1. PushProof(cache, p)[k] = cache[k]
      BY <2>2 DEF PushProof, Cache
    <3> QED BY <1>4, <3>1 DEF CacheVouched
  <2> QED BY <2>1, <2>2
<1> QED BY <1>3, <1>4 DEF CacheVouched

\* A required proof that Validate accepts is signed or submitted here.
LEMMA ValidVouched ==
    ASSUME NEW cache \in Cache, NEW local \in SUBSET ProofIds,
           CacheVouched(cache, local),
           NEW p \in MaybeProof, Validate(cache, p),
           IsProofRequired(ProofHeight(p))
    PROVE  p \in ProofIds /\ Vouched(p, local)
<1>1. p \in ProofIds
  BY HeightFacts DEF Validate, MaybeProof
<1>2. CASE AlreadyHave(cache, p)
  <2>1. PICK i \in DOMAIN cache[ProofHeight(p)] : cache[ProofHeight(p)][i] = p
    BY <1>2 DEF AlreadyHave
  <2>2. cache[ProofHeight(p)] \in Seq(ProofIds) /\ ProofHeight(p) \in Heights
    BY <1>1, HeightFacts DEF Cache
  <2> QED BY <1>1, <2>1, <2>2 DEF CacheVouched
<1>3. CASE Proof[p].signed
  BY <1>1, <1>3 DEF Vouched
<1> QED BY <1>2, <1>3 DEF Validate

\* Whatever Validate is given, the proofs of the cache stay vouched for.
LEMMA ValidatedKeeps ==
    ASSUME NEW cache \in Cache, NEW local \in SUBSET ProofIds,
           CacheVouched(cache, local), NEW p \in MaybeProof
    PROVE  /\ Validated(cache, p) \in Cache
           /\ CacheVouched(Validated(cache, p), local)
<1>1. CASE /\ Validate(cache, p)
           /\ IsProofRequired(ProofHeight(p))
           /\ ~AlreadyHave(cache, p)
  <2>1. p \in ProofIds /\ Vouched(p, local)
    BY <1>1, ValidVouched
  <2>2. Validated(cache, p) = PushProof(cache, p)
    BY <1>1 DEF Validated
  <2> QED BY <2>1, <2>2, PushKeeps
<1>2. CASE ~ /\ Validate(cache, p)
             /\ IsProofRequired(ProofHeight(p))
             /\ ~AlreadyHave(cache, p)
  BY <1>2 DEF Validated
<1> QED BY <1>1, <1>2

\* The proof a block brings to ConnectBlock leaves the cache vouched for.
LEMMA BlockCacheKeeps ==
    ASSUME NEW cache \in Cache, NEW local \in SUBSET ProofIds,
           CacheVouched(cache, local),
           NEW b, HoldsProof(b), NEW h
    PROVE  /\ BlockCache(cache, b, h) \in Cache
           /\ CacheVouched(BlockCache(cache, b, h), local)
<1>1. CASE IsProofRequired(h)
  BY <1>1, ValidatedKeeps DEF BlockCache, HoldsProof
<1>2. CASE ~IsProofRequired(h)
  BY <1>2 DEF BlockCache
<1> QED BY <1>1, <1>2

----------------------------------------------------------------------------
(* The actions.                                                            *)

\* Every block has a proof of the table or the empty one.
LEMMA AnyBlockHolds ==
    /\ \A b \in AnyBlock : HoldsProof(b)
    /\ Blocks \subseteq AnyBlock
BY DEF AnyBlock, HoldsProof, Blocks, MaybeProof

\* The payment asked for is one of the payments a block can hold.
LEMMA PaymentType ==
    \A known, h : GetMasternodePayment(known, h) \in Payments
BY DEF GetMasternodePayment, CalculateNodeReward, Payments

\* A block that ConnectBlock accepts brings a vouched proof of its height.
LEMMA ConnectKeeps ==
    ASSUME StorageInv, NEW b \in AnyBlock, ConnectTip(b),
           UNCHANGED submitted
    PROVE  /\ ChainShape' /\ ChainProofs'
           /\ proofs' \in Cache /\ CacheVouched(proofs, submitted)'
           /\ Len(chain') = Len(chain) + 1
<1> DEFINE h == Len(chain) + 1
           p == b.netProof
<1> USE DEF ChainShape
<1>1. chain \in Seq(AnyBlock) /\ Len(chain) \in nLastPoWBlock..MaxHeight
  BY DEF StorageInv
<1>2. IsProofRequired(h)
  BY <1>1, HeightFacts DEF IsProofRequired
<1>3. ProofValid(proofs, b, h)
  BY <1>2 DEF ConnectTip, BlockValid, Height
<1>4. p \in MaybeProof /\ Validate(proofs, p) /\ ProofHeight(p) = h
  BY <1>3 DEF ProofValid, AnyBlock
<1>5. p \in ProofIds /\ Vouched(p, submitted)
  BY <1>2, <1>4, ValidVouched DEF StorageInv
<1>6. h \in 1..MaxHeight
  BY <1>4, <1>5, HeightFacts
<1>7. /\ chain' = Append(chain, b)
      /\ chain' \in Seq(AnyBlock)
      /\ Len(chain') = h
      /\ chain'[h] = b
      /\ \A k \in 1..Len(chain) : chain'[k] = chain[k]
  BY <1>1 DEF ConnectTip
<1>8. ChainShape'
  BY <1>1, <1>6, <1>7, HeightFacts
<1>9. ChainProofs'
  <2> SUFFICES ASSUME NEW k \in nLastPoWBlock + 1 .. h
               PROVE  /\ ProofHeight(chain'[k].netProof) = k
                      /\ Vouched(chain'[k].netProof, submitted)
    BY <1>7 DEF ChainProofs, PoSHeights, Height, Vouched
  <2>1. CASE k = h
    BY <2>1, <1>4, <1>5, <1>7
  <2>2. CASE k # h
    <3>1. k \in 1..Len(chain) /\ k \in nLastPoWBlock + 1 .. Len(chain)
      BY <1>1, <2>2, HeightFacts
    <3> QED BY <1>7, <3>1 DEF StorageInv, ChainProofs, PoSHeights, Height, Vouched
  <2> QED BY <2>1, <2>2
<1>10. proofs' \in Cache /\ CacheVouched(proofs', submitted)
  BY BlockCacheKeeps, AnyBlockHolds DEF ConnectTip, StorageInv
<1> QED BY <1>7, <1>8, <1>9, <1>10 DEF CacheVouched

\* A block that it refuses leaves at most its proof in the cache.
LEMMA FailKeeps ==
    ASSUME StorageInv, NEW b \in AnyBlock, ConnectFails(b),
           UNCHANGED submitted
    PROVE  /\ ChainShape' /\ ChainProofs'
           /\ proofs' \in Cache /\ CacheVouched(proofs, submitted)'
           /\ Len(chain') = Len(chain)
<1>1. UNCHANGED <<chain, submitted>>
  BY DEF ConnectFails
<1>2. proofs' \in Cache /\ CacheVouched(proofs', submitted)
  BY BlockCacheKeeps, AnyBlockHolds DEF ConnectFails, StorageInv
<1> QED
  BY <1>1, <1>2 DEF StorageInv, ChainShape, ChainProofs, PoSHeights, Height,
                    CacheVouched

\* A step that changes neither the chain nor where proofs came from.
LEMMA QuietKeeps ==
    ASSUME StorageInv, UNCHANGED <<chain, proofs, submitted>>
    PROVE  /\ ChainShape' /\ ChainProofs'
           /\ proofs' \in Cache /\ CacheVouched(proofs, submitted)'
           /\ (submitted \subseteq ProofIds)'
           /\ Len(chain') = Len(chain)
BY DEF StorageInv, ChainShape, ChainProofs, PoSHeights, Height, CacheVouched

\* A block of a peer, connected or refused.
LEMMA PeerBlockKeeps ==
    ASSUME StorageInv, NEW b \in Blocks, PeerBlock(b)
    PROVE  StorageInv'
<1>1. b \in AnyBlock
  BY AnyBlockHolds
<1>2. UNCHANGED <<submitted, nBestHeight, block, verifying>> /\ verifying = 0
  BY DEF PeerBlock, minting, submission, verify, CsMainFree
<1>3. /\ ChainShape' /\ ChainProofs'
      /\ proofs' \in Cache /\ CacheVouched(proofs, submitted)'
  <2>1. CASE ConnectTip(b)
    BY <1>1, <1>2, <2>1, ConnectKeeps
  <2>2. CASE ConnectFails(b)
    BY <1>1, <1>2, <2>2, FailKeeps
  <2> QED BY <2>1, <2>2 DEF PeerBlock
<1> QED BY <1>2, <1>3, HeightFacts DEF StorageInv, ChainShape

\* A disconnected block takes its proof off the chain and leaves the cache.
LEMMA DisconnectTipKeeps ==
    ASSUME StorageInv, DisconnectTip
    PROVE  StorageInv'
<1>1. chain \in Seq(AnyBlock) /\ Len(chain) \in nLastPoWBlock..MaxHeight
  BY DEF StorageInv, ChainShape
<1>2. Len(chain) > nLastPoWBlock /\ verifying = 0
  BY DEF DisconnectTip, Height, CsMainFree
<1>3. /\ chain' = SubSeq(chain, 1, Len(chain) - 1)
      /\ UNCHANGED <<proofs, submitted, nBestHeight, block, verifying>>
  BY DEF DisconnectTip, Height, minting, submission, verify
<1>4. /\ chain' \in Seq(AnyBlock)
      /\ Len(chain') = Len(chain) - 1
      /\ \A k \in 1..Len(chain) - 1 : chain'[k] = chain[k]
  BY <1>1, <1>2, <1>3, HeightFacts
<1>5. ChainShape'
  BY <1>1, <1>2, <1>4, HeightFacts DEF ChainShape
<1>6. ChainProofs'
  <2> SUFFICES ASSUME NEW k \in nLastPoWBlock + 1 .. Len(chain) - 1
               PROVE  /\ ProofHeight(chain'[k].netProof) = k
                      /\ Vouched(chain'[k].netProof, submitted)
    BY <1>3, <1>4 DEF ChainProofs, PoSHeights, Height, Vouched
  <2>1. k \in 1..Len(chain) - 1 /\ k \in nLastPoWBlock + 1 .. Len(chain)
    BY <1>1, HeightFacts
  <2> QED BY <1>4, <2>1 DEF StorageInv, ChainProofs, PoSHeights, Height, Vouched
<1> QED
  BY <1>1, <1>2, <1>3, <1>4, <1>5, <1>6, HeightFacts
     DEF StorageInv, CacheVouched

\* The start of verifychain changes no proof.
LEMMA VerifyStartKeeps ==
    ASSUME StorageInv, NEW d \in 1..Height, VerifyStart(d)
    PROVE  StorageInv'
<1>1. UNCHANGED <<chain, proofs, submitted, nBestHeight, block>>
  BY DEF VerifyStart, minting, submission
<1>2. verifying' \in 0..Len(chain)
  BY DEF VerifyStart, StorageInv, ChainShape, Height
<1> QED BY <1>1, <1>2, QuietKeeps DEF StorageInv

\* A block that verifychain connects again.
LEMMA VerifyStepKeeps ==
    ASSUME StorageInv, VerifyStep
    PROVE  StorageInv'
<1>1. UNCHANGED <<chain, submitted, nBestHeight, block>>
  BY DEF VerifyStep, minting, submission
<1>2. verifying \in 1..Len(chain) /\ chain[verifying] \in AnyBlock
  BY DEF VerifyStep, StorageInv, ChainShape
<1>3. proofs' \in Cache /\ CacheVouched(proofs', submitted)
  BY <1>2, BlockCacheKeeps, AnyBlockHolds DEF VerifyStep, StorageInv
<1>4. verifying' \in 0..Len(chain)
  <2>1. CASE verifying = Len(chain)
    BY <1>2, <2>1 DEF VerifyStep, Height, StorageInv, ChainShape
  <2>2. CASE verifying # Len(chain)
    BY <1>2, <2>2 DEF VerifyStep, Height, StorageInv, ChainShape
  <2> QED BY <2>1, <2>2
<1> QED
  BY <1>1, <1>3, <1>4
     DEF StorageInv, ChainShape, ChainProofs, PoSHeights, Height, CacheVouched

\* A proof of submitproof is vouched for by having been submitted.
LEMMA SubmitPushKeeps ==
    ASSUME StorageInv, NEW p \in ProofIds, SubmitPush(p)
    PROVE  StorageInv'
<1> DEFINE local == submitted \cup {p}
<1>1. /\ submitted' = local
      /\ proofs' = PushProof(proofs, p)
      /\ UNCHANGED <<chain, nBestHeight, block, verifying>>
  BY DEF SubmitPush, minting, submission, verify
<1>2. local \in SUBSET ProofIds /\ submitted \subseteq local
  BY DEF StorageInv
<1>3. CacheVouched(proofs, local) /\ Vouched(p, local)
  BY <1>2 DEF StorageInv, CacheVouched, Vouched
<1>4. proofs' \in Cache /\ CacheVouched(proofs', local)
  <2> HIDE DEF local
  <2> QED BY <1>1, <1>2, <1>3, PushKeeps DEF StorageInv
<1>5. ChainProofs'
  BY <1>1, <1>2 DEF StorageInv, ChainProofs, PoSHeights, Height
<1> QED
  BY <1>1, <1>2, <1>4, <1>5 DEF StorageInv, ChainShape, CacheVouched

\* A proof of a peer is stored only when Validate accepts it.
LEMMA ReceiveProofKeeps ==
    ASSUME StorageInv, NEW p \in ProofIds, NetProof(p) \/ AnswerAsk(p)
    PROVE  StorageInv'
<1>1. UNCHANGED <<chain, submitted, nBestHeight, block, verifying>>
  BY DEF NetProof, AnswerAsk, minting, submission, verify
<1>2. proofs' = Validated(proofs, p)
  BY DEF NetProof, AnswerAsk, ReceiveProof
<1>3. proofs' \in Cache /\ CacheVouched(proofs', submitted)
  BY <1>2, ValidatedKeeps DEF StorageInv, MaybeProof
<1> QED
  BY <1>1, <1>3
     DEF StorageInv, ChainShape, ChainProofs, PoSHeights, Height, CacheVouched

\* A restart leaves the chain and an empty cache.
LEMMA RestartKeeps ==
    ASSUME StorageInv, Restart
    PROVE  StorageInv'
<1>1. /\ UNCHANGED <<chain, submitted>>
      /\ proofs' = EmptyCache
      /\ nBestHeight' = 0 /\ block' = NoTemplate /\ verifying' = 0
  BY DEF Restart
<1>2. EmptyCache \in Cache /\ \A h \in Heights : EmptyCache[h] = << >>
  BY DEF EmptyCache, Cache
<1>3. CacheVouched(proofs', submitted)
  BY <1>1, <1>2 DEF CacheVouched
<1>4. NoTemplate \in Templates
  BY DEF NoTemplate, Templates, MaybeProof, Payments
<1> QED
  BY <1>1, <1>2, <1>3, <1>4, HeightFacts
     DEF StorageInv, ChainShape, ChainProofs, PoSHeights, Height, CacheVouched

\* The steps of the staking thread up to the submission of its block touch
\* neither the chain nor the cache.
LEMMA RoundKeeps ==
    ASSUME StorageInv,
           \/ MintHeight \/ MintTemplate \/ MintProof \/ MintAsk
           \/ MintSign \/ MintNoKernel \/ MintCheck
    PROVE  StorageInv'
<1>1. UNCHANGED <<chain, proofs, submitted, verifying>>
  BY DEF MintHeight, MintTemplate, MintProof, MintAsk, MintSign,
         MintNoKernel, MintCheck, node, submission, verify
<1>2. nBestHeight' \in 0..MaxHeight
  BY HeightFacts DEF MintHeight, MintTemplate, MintProof, MintAsk, MintSign,
         MintNoKernel, MintCheck, EndRound, StorageInv, ChainShape, Height
<1>3. NoTemplate \in Templates
  BY DEF NoTemplate, Templates, MaybeProof, Payments
<1>4. block' \in Templates
  <2>1. CASE MintTemplate
    <3> DEFINE pay == GetMasternodePayment(nodes, Height + 1)
    <3>1. pay \in Payments
      BY PaymentType
    <3>2. block' = [NoTemplate EXCEPT !.prev = chain, !.paid = pay]
      BY <2>1 DEF MintTemplate
    <3>3. chain \in Seq(AnyBlock)
      BY DEF StorageInv, ChainShape
    <3> HIDE DEF pay
    <3> QED BY <3>1, <3>2, <3>3 DEF NoTemplate, MaybeProof, Templates
  <2>2. CASE MintProof
    <3> DEFINE p == Head(proofs[nBestHeight + 1])
    <3>1. nBestHeight + 1 \in Heights
      BY HeightFacts DEF StorageInv, Heights
    <3>2. p \in ProofIds
      BY <2>2, <3>1 DEF MintProof, StorageInv, Cache
    <3>3. block' = [block EXCEPT !.nProof = p, !.netProof = p]
      BY <2>2 DEF MintProof, GetProofByHeight
    <3>4. block \in Templates
      BY DEF StorageInv
    <3> HIDE DEF p
    <3> QED BY <3>2, <3>3, <3>4 DEF MaybeProof, Templates
  <2>3. CASE MintHeight \/ MintAsk \/ MintSign \/ MintNoKernel \/ MintCheck
    BY <1>3, <2>3 DEF MintHeight, MintAsk, MintSign, MintNoKernel, MintCheck,
                      EndRound, StorageInv
  <2> QED BY <2>1, <2>2, <2>3
<1> QED BY <1>1, <1>2, <1>4, QuietKeeps DEF StorageInv

\* A minted block, accepted or refused by its own node.
LEMMA MintSubmitKeeps ==
    ASSUME StorageInv, MintSubmit
    PROVE  StorageInv'
<1> DEFINE b == [nProof |-> block.nProof, netProof |-> block.netProof,
                 paid |-> block.paid]
<1>1. b \in AnyBlock
  BY DEF StorageInv, Templates, AnyBlock
<1>2. /\ UNCHANGED <<submitted, verifying>>
      /\ verifying = 0
      /\ nBestHeight' = 0 /\ block' = NoTemplate
  BY DEF MintSubmit, EndRound, submission, verify, CsMainFree
<1>3. \/ ConnectTip(b) \/ ConnectFails(b)
      \/ UNCHANGED <<chain, proofs>>
  BY DEF MintSubmit
<1> HIDE DEF b
<1>4. /\ ChainShape' /\ ChainProofs'
      /\ proofs' \in Cache /\ CacheVouched(proofs, submitted)'
  <2>1. CASE ConnectTip(b)
    BY <1>1, <1>2, <2>1, ConnectKeeps
  <2>2. CASE ConnectFails(b)
    BY <1>1, <1>2, <2>2, FailKeeps
  <2>3. CASE UNCHANGED <<chain, proofs>>
    BY <1>2, <2>3, QuietKeeps
  <2> QED BY <1>3, <2>1, <2>2, <2>3
<1>5. NoTemplate \in Templates
  BY DEF NoTemplate, Templates, MaybeProof, Payments
<1> QED BY <1>2, <1>4, <1>5, HeightFacts DEF StorageInv, ChainShape

----------------------------------------------------------------------------
(* The theorems.                                                           *)

\* StorageInv is an inductive invariant: the chain has the shape ConnectBlock
\* gives it, every cached proof is signed or was submitted here, and so is
\* every proof of the chain, at its own height.
THEOREM StorageInvariant == Spec => []StorageInv
<1>1. Init => StorageInv
  <2> SUFFICES ASSUME Init PROVE StorageInv
    OBVIOUS
  <2>1. PoWBlock \in AnyBlock /\ NoTemplate \in Templates
    BY DEF PoWBlock, AnyBlock, NoTemplate, Templates, MaybeProof, Payments
  <2>2. /\ chain = [h \in 1..nLastPoWBlock |-> PoWBlock]
        /\ proofs = EmptyCache /\ nBestHeight = 0 /\ block = NoTemplate
        /\ submitted = {} /\ verifying = 0
    BY DEF Init
  <2>3. chain \in Seq(AnyBlock) /\ Len(chain) = nLastPoWBlock
    BY <2>1, <2>2, HeightFacts
  <2>4. ChainShape
    BY <2>3, HeightFacts DEF ChainShape
  <2>5. ChainProofs
    BY <2>3, HeightFacts DEF ChainProofs, PoSHeights, Height
  <2>6. proofs \in Cache /\ CacheVouched(proofs, submitted)
    BY <2>2 DEF EmptyCache, Cache, CacheVouched
  <2> QED BY <2>1, <2>2, <2>3, <2>4, <2>5, <2>6, HeightFacts DEF StorageInv
<1>2. StorageInv /\ [Next]_vars => StorageInv'
  <2> SUFFICES ASSUME StorageInv, [Next]_vars PROVE StorageInv'
    OBVIOUS
  <2>1. CASE Mint \/ MintSign \/ MintNoKernel
    BY <2>1, RoundKeeps, MintSubmitKeeps DEF Mint
  <2>2. ASSUME NEW b \in Blocks, PeerBlock(b) PROVE StorageInv'
    BY <2>2, PeerBlockKeeps
  <2>3. ASSUME NEW p \in ProofIds,
               SubmitSign(p) \/ SubmitPush(p) \/ NetProof(p) \/ AnswerAsk(p)
        PROVE  StorageInv'
    <3>1. CASE SubmitSign(p)
      <4>1. UNCHANGED <<chain, proofs, submitted, nBestHeight, block, verifying>>
        BY <3>1 DEF SubmitSign, minting, verify
      <4> QED BY <4>1, QuietKeeps DEF StorageInv
    <3> QED BY <2>3, <3>1, SubmitPushKeeps, ReceiveProofKeeps
  <2>4. CASE LoseAsk \/ UNCHANGED vars
    <3>1. UNCHANGED <<chain, proofs, submitted, nBestHeight, block, verifying>>
      BY <2>4 DEF LoseAsk, vars, minting, submission, verify
    <3> QED BY <3>1, QuietKeeps DEF StorageInv
  <2>5. CASE DisconnectTip \/ Restart
    BY <2>5, DisconnectTipKeeps, RestartKeeps
  <2>6. CASE (\E d \in 1..Height : VerifyStart(d)) \/ VerifyStep
    BY <2>6, VerifyStartKeeps, VerifyStepKeeps
  <2> QED BY <2>1, <2>2, <2>3, <2>4, <2>5, <2>6 DEF Next
<1> QED BY <1>1, <1>2, PTL DEF Spec

\* Every proof-of-stake block of the active chain carries a proof of its own
\* height, signed by the network's key or submitted here: the check of
\* ConnectBlock is enough although the staking thread's height may be stale
\* and Validate does not look at the signature of a proof it already has.
THEOREM ChainProofsHold == Spec => []ChainProofs
<1>1. StorageInv => ChainProofs
  BY DEF StorageInv
<1> QED BY <1>1, StorageInvariant, PTL

----------------------------------------------------------------------------
(* The loops of AddProof and Init.                                         *)

History == [space : Nat, health : 0..100]
Scores == UNION {[D -> History] : D \in SUBSET Ips}

\* A map of scores, by its domain and its values.
LEMMA ScoresFacts ==
    ASSUME NEW known
    PROVE  known \in Scores <=>
             /\ known = [n \in DOMAIN known |-> known[n]]
             /\ DOMAIN known \subseteq Ips
             /\ \A n \in DOMAIN known : known[n] \in History
BY DEF Scores

\* The empty vector of CNodeBehavior::Init.
LEMMA NoScores == << >> \in Scores /\ DOMAIN << >> = {}
<1>1. << >> \in [{} -> History]
  OBVIOUS
<1> QED BY <1>1 DEF Scores

\* One entry keeps a health within 0..100; only a live entry raises it, and
\* an entry that reports other space brings it to 0.
LEMMA EntryFacts ==
    ASSUME NEW old \in History, NEW r \in Reports
    PROVE  /\ Entry(old, r) \in History
           /\ Entry(old, r).space = r.space
           /\ Entry(old, r).health = 100 =>
                old.space = r.space /\ (r.live \/ old.health = 100)
<1>1. r.space \in Nat /\ r.live \in BOOLEAN
  BY DEF Reports
<1>2. old.health \in 0..100 /\ old.space \in Nat
  BY DEF History
<1>3. CASE r.space # old.space
  <2>1. Entry(old, r) = [space |-> r.space, health |-> 0]
    BY <1>3 DEF Entry
  <2> QED BY <1>1, <2>1 DEF History
<1>4. CASE r.space = old.space /\ ~r.live
  <2>1. Entry(old, r) = [space |-> r.space, health |-> old.health]
    BY <1>4 DEF Entry
  <2> QED BY <1>1, <1>2, <1>4, <2>1 DEF History
<1>5. CASE r.space = old.space /\ r.live
  <2> DEFINE h == Least(old.health + SCORE_INCREASE, 100)
  <2>1. Entry(old, r) = [space |-> r.space, health |-> h]
    BY <1>5 DEF Entry
  <2>2. h \in 0..100
    BY <1>2, ScoreAssumption DEF Least
  <2> HIDE DEF h
  <2> QED BY <1>1, <1>5, <2>1, <2>2 DEF History
<1> QED BY <1>1, <1>3, <1>4, <1>5

\* A miss keeps a health within 0..100 and ends the full score.
LEMMA MissFacts ==
    ASSUME NEW old \in History
    PROVE  Miss(old) \in History /\ Miss(old).health # 100
<1> DEFINE h == IF old.health < SCORE_DECREASE THEN 0 ELSE old.health - SCORE_DECREASE
<1>1. h \in 0..99
  BY ScoreAssumption DEF History
<1>2. Miss(old) = [old EXCEPT !.health = h]
  BY DEF Miss, History
<1> HIDE DEF h
<1> QED BY <1>1, <1>2 DEF History

\* The record AddEntry updates: the node's own, or a new one.
OldOf(known, r) ==
    IF r.ip \in DOMAIN known THEN known[r.ip] ELSE [space |-> r.space, health |-> 0]

\* A round of the loop keeps a map of scores, and touches one node.
LEMMA AddEntryFacts ==
    ASSUME NEW known \in Scores, NEW r \in Reports
    PROVE  /\ AddEntry(known, r) \in Scores
           /\ OldOf(known, r) \in History
           /\ DOMAIN AddEntry(known, r) = DOMAIN known \cup {r.ip}
           /\ AddEntry(known, r)[r.ip] = Entry(OldOf(known, r), r)
           /\ \A n \in DOMAIN known : n # r.ip => AddEntry(known, r)[n] = known[n]
<1> DEFINE old == OldOf(known, r)
<1>1. r.ip \in Ips /\ r.space \in Nat
  BY DEF Reports
<1>2. DOMAIN known \subseteq Ips /\ \A n \in DOMAIN known : known[n] \in History
  BY ScoresFacts
<1>3. old \in History
  BY <1>1, <1>2 DEF OldOf, History
<1>4. Entry(old, r) \in History
  BY <1>3, EntryFacts
<1>5. AddEntry(known, r) = [n \in DOMAIN known \cup {r.ip} |->
                              IF n = r.ip THEN Entry(old, r) ELSE known[n]]
  <2>1. CASE r.ip \in DOMAIN known
    <3>1. DOMAIN known \cup {r.ip} = DOMAIN known /\ old = known[r.ip]
      BY <2>1 DEF OldOf
    <3>2. AddEntry(known, r) = [known EXCEPT ![r.ip] = Entry(old, r)]
      BY <2>1, <3>1 DEF AddEntry
    <3> HIDE DEF old
    <3> QED BY <2>1, <3>1, <3>2
  <2>2. CASE r.ip \notin DOMAIN known
    BY <2>2 DEF AddEntry, OldOf
  <2> QED BY <2>1, <2>2
<1> HIDE DEF old
<1>6. AddEntry(known, r) \in [DOMAIN known \cup {r.ip} -> History]
  BY <1>2, <1>4, <1>5
<1>7. DOMAIN known \cup {r.ip} \in SUBSET Ips
  BY <1>1, <1>2
<1> QED BY <1>3, <1>5, <1>6, <1>7 DEF Scores, old

\* The entries of a proof.
LEMMA NodesType ==
    ASSUME NEW p \in MaybeProof
    PROVE  Nodes(p) \in Seq(Reports) /\ Len(Nodes(p)) \in Nat
           /\ DOMAIN Nodes(p) = 1..Len(Nodes(p))
           /\ \A k \in 1..Len(Nodes(p)) : Nodes(p)[k] \in Reports
<1>1. Nodes(p) \in Seq(Reports)
  BY ProofAssumption DEF Nodes, MaybeProof
<1> QED BY <1>1

\* What a history of the loop of AddProof is.
Tells(g, known, p) ==
    /\ g \in [0..Len(Nodes(p)) -> Scores]
    /\ g[0] = known
    /\ \A k \in 1..Len(Nodes(p)) : g[k] = AddEntry(g[k - 1], Nodes(p)[k])

\* The loop has one, and AddProof is what its end leaves, with the misses.
LEMMA AddProofLoop ==
    ASSUME NEW known \in Scores, NEW p \in MaybeProof
    PROVE  \E g : /\ Tells(g, known, p)
                  /\ AddProof(known, p) =
                       [n \in DOMAIN g[Len(Nodes(p))] |->
                          IF n \in Live(p) THEN g[Len(Nodes(p))][n]
                          ELSE Miss(g[Len(Nodes(p))][n])]
<1> DEFINE N == Len(Nodes(p))
           Rec(t) == t = [k \in 0..N |-> IF k = 0 THEN known
                                         ELSE AddEntry(t[k - 1], Nodes(p)[k])]
           told == CHOOSE t : Rec(t)
<1>1. N \in Nat /\ \A k \in 1..N : Nodes(p)[k] \in Reports
  BY NodesType
<1>2. \A k \in 1..N : \A m \in Scores : AddEntry(m, Nodes(p)[k]) \in Scores
  BY <1>1, AddEntryFacts
<1>3. PICK F \in [1..N -> [Scores -> Scores]] :
        \A k \in 1..N : \A m \in Scores : F[k][m] = AddEntry(m, Nodes(p)[k])
  <2> DEFINE G == [k \in 1..N |-> [m \in Scores |-> AddEntry(m, Nodes(p)[k])]]
  <2>1. G \in [1..N -> [Scores -> Scores]]
    BY <1>2
  <2> QED BY <2>1
<1>5. AddProof(known, p) = [n \in DOMAIN told[N] |->
                              IF n \in Live(p) THEN told[N][n] ELSE Miss(told[N][n])]
  BY DEF AddProof
<1> HIDE DEF N
<1>6. PICK g \in [0..N -> Scores] : g[0] = known /\ \A k \in 1..N : g[k] = F[k][g[k - 1]]
  <2>1. N \in Nat /\ F \in Rounds(N, Scores)
    BY <1>1 DEF Rounds
  <2>2. \E g : Runs(g, N, Scores, known, F)
    BY <2>1, LoopExists
  <2> QED BY <2>2 DEF Runs
<1>7. \A k \in 1..N : k - 1 \in 0..N /\ g[k] = AddEntry(g[k - 1], Nodes(p)[k])
  BY <1>1, <1>3, <1>6
<1>8. Rec(g)
  BY <1>1, <1>6, <1>7
<1>9. Rec(told)
  BY <1>8
<1> HIDE DEF told
<1>10. /\ told[0] = known
       /\ \A k \in 1..N : told[k] = AddEntry(told[k - 1], Nodes(p)[k])
  BY <1>1, <1>9
<1>11. \A k \in 0..N : told[k] \in Scores
  <2> DEFINE S == {k \in 0..N : told[k] \in Scores}
  <2>1. 0 \in S
    BY <1>1, <1>10
  <2>2. \A k \in 1..N : k - 1 \in S => k \in S
    BY <1>1, <1>2, <1>10
  <2> HIDE DEF S
  <2>3. 0..N \subseteq S
    BY <1>1, <2>1, <2>2, LoopInduction
  <2> QED BY <2>3 DEF S
<1>12. told \in [0..N -> Scores]
  BY <1>9, <1>11
<1> QED BY <1>5, <1>10, <1>12 DEF Tells, N

\* While the entries are told, a node with the full score either was found
\* live with its present space by one of them, or has kept the space it had
\* before through all of them.
LEMMA ToldScores ==
    ASSUME NEW known \in Scores, NEW p \in MaybeProof, NEW g, Tells(g, known, p),
           NEW n \in DOMAIN g[Len(Nodes(p))], g[Len(Nodes(p))][n].health = 100
    PROVE  \/ \E i \in 1..Len(Nodes(p)) :
                Nodes(p)[i] = [ip |-> n, space |-> g[Len(Nodes(p))][n].space, live |-> TRUE]
           \/ \A i \in 1..Len(Nodes(p)) :
                Nodes(p)[i].ip = n => Nodes(p)[i].space = g[Len(Nodes(p))][n].space
<1> DEFINE N == Len(Nodes(p))
           Seen(k) == \E i \in 1..k :
                        Nodes(p)[i] = [ip |-> n, space |-> g[k][n].space, live |-> TRUE]
           Same(k) == \A i \in 1..k : Nodes(p)[i].ip = n => Nodes(p)[i].space = g[k][n].space
           S == {k \in 0..N : n \in DOMAIN g[k] /\ g[k][n].health = 100 => Seen(k) \/ Same(k)}
<1>1. N \in Nat /\ \A k \in 1..N : Nodes(p)[k] \in Reports
  BY NodesType
<1>2. 0 \in S
  BY <1>1
<1>3. ASSUME NEW k \in 1..N, k - 1 \in S PROVE k \in S
  <2>0. k \in 0..N
    BY <1>1
  <2> HIDE DEF Seen, Same
  <2> SUFFICES ASSUME n \in DOMAIN g[k], g[k][n].health = 100
               PROVE  Seen(k) \/ Same(k)
    BY <2>0
  <2> USE DEF Seen, Same
  <2>1. PICK m \in Scores, r \in Reports :
             m = g[k - 1] /\ r = Nodes(p)[k] /\ g[k] = AddEntry(m, r)
    BY <1>1 DEF Tells
  <2>2. k \in Nat /\ k - 1 \in Nat /\ \A i \in 1..k : i = k \/ i \in 1..k - 1
    BY <1>1
  <2>3. r.ip \in Ips /\ r.space \in Nat /\ r.live \in BOOLEAN
        /\ r = [ip |-> r.ip, space |-> r.space, live |-> r.live]
    BY <2>1 DEF Reports
  <2>9. /\ OldOf(m, r) \in History
        /\ DOMAIN AddEntry(m, r) = DOMAIN m \cup {r.ip}
        /\ AddEntry(m, r)[r.ip] = Entry(OldOf(m, r), r)
        /\ \A x \in DOMAIN m : x # r.ip => AddEntry(m, r)[x] = m[x]
    BY AddEntryFacts, ZenonT(30)
  <2>4. CASE n # r.ip
    <3>1. n \in DOMAIN m /\ g[k][n] = m[n]
      BY <2>1, <2>4, <2>9
    <3>2. Seen(k - 1) \/ Same(k - 1)
      BY <1>3, <2>1, <3>1
    <3>3. CASE Seen(k - 1)
      BY <2>1, <2>2, <3>1, <3>3, SMTT(30)
    <3>4. CASE Same(k - 1)
      BY <2>1, <2>2, <2>4, <3>1, <3>4
    <3> QED BY <3>2, <3>3, <3>4
  <2>5. CASE n = r.ip
    <3>1. /\ OldOf(m, r) \in History
          /\ g[k][n] = Entry(OldOf(m, r), r)
      BY <2>1, <2>5, <2>9
    <3>2. /\ g[k][n].space = r.space
          /\ OldOf(m, r).space = r.space
          /\ r.live \/ OldOf(m, r).health = 100
      BY <2>1, <3>1, EntryFacts
    <3>3. CASE r.live
      <4>1. r = [ip |-> n, space |-> g[k][n].space, live |-> TRUE]
        BY <2>3, <2>5, <3>2, <3>3
      <4>2. k \in 1..k /\ Nodes(p)[k] = r
        BY <2>1, <2>2
      <4> QED BY <4>1, <4>2, Zenon
    <3>4. CASE ~r.live
      <4>1. n \in DOMAIN m /\ m[n].health = 100 /\ m[n].space = r.space
        BY <2>5, <3>2, <3>4 DEF OldOf
      <4>2. Seen(k - 1) \/ Same(k - 1)
        BY <1>3, <2>1, <4>1
      <4>3. CASE Seen(k - 1)
        BY <2>1, <2>2, <3>2, <4>1, <4>3
      <4>4. CASE Same(k - 1)
        BY <2>1, <2>2, <3>2, <4>1, <4>4
      <4> QED BY <4>2, <4>3, <4>4
    <3> QED BY <3>3, <3>4
  <2> QED BY <2>4, <2>5
<1>4. \A k \in 1..N : k - 1 \in S => k \in S
  BY <1>3
<1> HIDE DEF S
<1>5. 0..N \subseteq S
  BY <1>1, <1>2, <1>4, LoopInduction
<1>6. N \in S
  BY <1>1, <1>5
<1> QED BY <1>6 DEF S

\* AddProof gives scores, and the full score only to a node that this proof
\* found live with the space it has now.
LEMMA AddProofFacts ==
    ASSUME NEW known \in Scores, NEW p \in MaybeProof
    PROVE  /\ AddProof(known, p) \in Scores
           /\ \A n \in DOMAIN AddProof(known, p) :
                AddProof(known, p)[n].health = 100 =>
                    \E i \in DOMAIN Nodes(p) :
                        Nodes(p)[i] = [ip |-> n, space |-> AddProof(known, p)[n].space,
                                       live |-> TRUE]
<1>1. PICK g : /\ Tells(g, known, p)
               /\ AddProof(known, p) =
                    [n \in DOMAIN g[Len(Nodes(p))] |->
                       IF n \in Live(p) THEN g[Len(Nodes(p))][n]
                       ELSE Miss(g[Len(Nodes(p))][n])]
  BY AddProofLoop
<1>2. Len(Nodes(p)) \in Nat /\ DOMAIN Nodes(p) = 1..Len(Nodes(p))
      /\ \A k \in 1..Len(Nodes(p)) : Nodes(p)[k] \in Reports
  BY NodesType
<1>3. PICK m \in Scores : m = g[Len(Nodes(p))]
  BY <1>1, <1>2 DEF Tells
<1>4. PICK new : new = AddProof(known, p)
  OBVIOUS
<1>5. new = [n \in DOMAIN m |-> IF n \in Live(p) THEN m[n] ELSE Miss(m[n])]
  BY <1>1, <1>3, <1>4
<1>6. DOMAIN m \in SUBSET Ips /\ \A n \in DOMAIN m : m[n] \in History /\ Miss(m[n]) \in History
  BY <1>3, ScoresFacts, MissFacts
<1>7. new \in Scores
  <2>1. new \in [DOMAIN m -> History]
    BY <1>5, <1>6
  <2> QED BY <1>6, <2>1 DEF Scores
<1>8. ASSUME NEW n \in DOMAIN new, new[n].health = 100
      PROVE  \E i \in DOMAIN Nodes(p) :
               Nodes(p)[i] = [ip |-> n, space |-> new[n].space, live |-> TRUE]
  <2>1. n \in DOMAIN m /\ m[n] \in History
    BY <1>5, <1>6, <1>8
  <2>2. n \in Live(p) /\ new[n] = m[n]
    <3>1. CASE n \in Live(p)
      BY <1>5, <2>1, <3>1
    <3>2. CASE n \notin Live(p)
      BY <1>5, <1>8, <2>1, <3>2, MissFacts
    <3> QED BY <3>1, <3>2
  <2>3. PICK j \in DOMAIN Nodes(p) : Nodes(p)[j].live /\ Nodes(p)[j].ip = n
    BY <2>2 DEF Live
  <2>4. Nodes(p)[j] \in Reports
    BY <1>2
  <2>5. Nodes(p)[j].space = m[n].space => Nodes(p)[j] = [ip |-> n, space |-> m[n].space, live |-> TRUE]
    BY <2>3, <2>4 DEF Reports
  <2>6. \/ \E i \in 1..Len(Nodes(p)) :
             Nodes(p)[i] = [ip |-> n, space |-> m[n].space, live |-> TRUE]
        \/ \A i \in 1..Len(Nodes(p)) :
             Nodes(p)[i].ip = n => Nodes(p)[i].space = m[n].space
    <3>1. n \in DOMAIN g[Len(Nodes(p))] /\ g[Len(Nodes(p))][n].health = 100
      BY <1>3, <1>8, <2>1, <2>2
    <3>2. \/ \E i \in 1..Len(Nodes(p)) :
               Nodes(p)[i] = [ip |-> n, space |-> g[Len(Nodes(p))][n].space, live |-> TRUE]
          \/ \A i \in 1..Len(Nodes(p)) :
               Nodes(p)[i].ip = n => Nodes(p)[i].space = g[Len(Nodes(p))][n].space
      BY <1>1, <3>1, ToldScores, SMTT(30)
    <3> QED BY <1>3, <3>2
  <2>7. \E i \in DOMAIN Nodes(p) : Nodes(p)[i] = [ip |-> n, space |-> m[n].space, live |-> TRUE]
    BY <1>2, <2>3, <2>5, <2>6
  <2> QED BY <2>2, <2>7
<1> QED BY <1>4, <1>7, <1>8, Zenon

\* What the history of CNodeBehavior::Init over a chain is.
Scored(g, c) ==
    /\ g \in [0..Len(c) -> Scores]
    /\ \A h \in 0..Len(c) :
         g[h] = IF h <= nLastPoWBlock THEN << >> ELSE AddProof(g[h - 1], c[h].netProof)

\* Init has one, and its end is what Init leaves.
LEMMA ReplayLoop ==
    ASSUME NEW c \in Seq(AnyBlock)
    PROVE  \E g : Scored(g, c) /\ Replay(c) = g[Len(c)]
<1> DEFINE N == Len(c)
           Rec(t) == t = [h \in 0..N |-> IF h <= nLastPoWBlock THEN << >>
                                         ELSE AddProof(t[h - 1], c[h].netProof)]
           scored == CHOOSE t : Rec(t)
<1>1. N \in Nat /\ \A k \in 1..N : c[k].netProof \in MaybeProof
  <2>1. N \in Nat /\ \A k \in 1..N : c[k] \in AnyBlock
    OBVIOUS
  <2>2. \A b \in AnyBlock : b.netProof \in MaybeProof
    BY DEF AnyBlock
  <2> QED BY <2>1, <2>2
<1>2. \A k \in 1..N : \A m \in Scores : AddProof(m, c[k].netProof) \in Scores
  BY <1>1, AddProofFacts
<1>3. PICK F \in [1..N -> [Scores -> Scores]] :
        \A k \in 1..N : \A m \in Scores :
          F[k][m] = IF k <= nLastPoWBlock THEN << >> ELSE AddProof(m, c[k].netProof)
  <2> DEFINE G == [k \in 1..N |-> [m \in Scores |->
                     IF k <= nLastPoWBlock THEN << >> ELSE AddProof(m, c[k].netProof)]]
  <2>1. G \in [1..N -> [Scores -> Scores]]
    BY <1>2, NoScores
  <2> QED BY <2>1
<1>4. Replay(c) = scored[N]
  BY DEF Replay
<1>5. << >> \in Scores /\ nLastPoWBlock \in Nat /\ 0 <= nLastPoWBlock
  BY NoScores, HeightFacts
<1> HIDE DEF N
<1>6. PICK g \in [0..N -> Scores] :
        g[0] = << >> /\ \A k \in 1..N : g[k] = F[k][g[k - 1]]
  <2>1. N \in Nat /\ F \in Rounds(N, Scores)
    BY <1>1 DEF Rounds
  <2>2. \E g : Runs(g, N, Scores, << >>, F)
    BY <1>5, <2>1, LoopExists
  <2> QED BY <2>2 DEF Runs
<1>7. ASSUME NEW h \in 0..N
      PROVE  g[h] = IF h <= nLastPoWBlock THEN << >> ELSE AddProof(g[h - 1], c[h].netProof)
  <2>1. CASE h = 0
    BY <1>5, <1>6, <2>1
  <2>2. CASE h # 0
    <3>1. h \in 1..N /\ h - 1 \in 0..N /\ g[h - 1] \in Scores
      BY <1>1, <2>2
    <3> QED BY <1>3, <1>6, <3>1
  <2> QED BY <2>1, <2>2
<1>8. Rec(g)
  BY <1>7
<1>9. Rec(scored)
  BY <1>8
<1> HIDE DEF scored
<1>10. \A h \in 0..N :
         scored[h] = IF h <= nLastPoWBlock THEN << >> ELSE AddProof(scored[h - 1], c[h].netProof)
  BY <1>9
<1>11. 0..N \subseteq {h \in 0..N : scored[h] \in Scores}
  <2> DEFINE S == {h \in 0..N : scored[h] \in Scores}
  <2>1. 0 \in S
    BY <1>1, <1>5, <1>10
  <2>2. ASSUME NEW k \in 1..N, k - 1 \in S PROVE k \in S
    <3>1. k \in 0..N /\ scored[k - 1] \in Scores
      BY <1>1, <2>2
    <3>2. CASE k <= nLastPoWBlock
      BY <1>5, <1>10, <3>1, <3>2
    <3>3. CASE ~(k <= nLastPoWBlock)
      <4>1. scored[k] = AddProof(scored[k - 1], c[k].netProof)
        BY <1>10, <3>1, <3>3
      <4> QED BY <1>2, <3>1, <4>1
    <3> QED BY <3>2, <3>3
  <2>3. \A k \in 1..N : k - 1 \in S => k \in S
    BY <2>2
  <2> HIDE DEF S
  <2>4. 0..N \subseteq S
    BY <1>1, <2>1, <2>3, LoopInduction
  <2> QED BY <2>4 DEF S
<1>12. scored \in [0..N -> Scores]
  BY <1>9, <1>11
<1> QED BY <1>4, <1>10, <1>12 DEF Scored, N

\* The scores of a chain are scores; one that ends before proofs of stake has
\* none; and a block adds its proof to them.
LEMMA ReplayFacts ==
    ASSUME NEW c \in Seq(AnyBlock)
    PROVE  /\ Replay(c) \in Scores
           /\ Len(c) <= nLastPoWBlock => Replay(c) = << >>
<1>1. PICK g : Scored(g, c) /\ Replay(c) = g[Len(c)]
  BY ReplayLoop
<1>2. Len(c) \in 0..Len(c)
  OBVIOUS
<1> QED BY <1>1, <1>2 DEF Scored

\* Init over a longer chain goes through the scores of the shorter one.
LEMMA ReplayAppend ==
    ASSUME NEW c \in Seq(AnyBlock), NEW b \in AnyBlock, Len(c) >= nLastPoWBlock
    PROVE  Replay(Append(c, b)) = AddProof(Replay(c), b.netProof)
<1> DEFINE d == Append(c, b)
<1>1. /\ Len(c) \in Nat /\ d \in Seq(AnyBlock) /\ Len(d) = Len(c) + 1
      /\ d[Len(c) + 1] = b /\ \A h \in 1..Len(c) : d[h] = c[h]
  OBVIOUS
<1> HIDE DEF d
<1>2. PICK g : Scored(g, c) /\ Replay(c) = g[Len(c)]
  BY ReplayLoop
<1>3. PICK f : Scored(f, d) /\ Replay(d) = f[Len(d)]
  BY <1>1, ReplayLoop
<1>4. \A h \in 0..Len(c) :
        g[h] = IF h <= nLastPoWBlock THEN << >> ELSE AddProof(g[h - 1], c[h].netProof)
  BY <1>2 DEF Scored
<1>5. \A h \in 0..Len(c) + 1 :
        f[h] = IF h <= nLastPoWBlock THEN << >> ELSE AddProof(f[h - 1], d[h].netProof)
  BY <1>1, <1>3 DEF Scored
<1>6. nLastPoWBlock \in Nat
  BY HeightFacts
<1>7. f[Len(c)] = g[Len(c)]
  <2> DEFINE S == {h \in 0..Len(c) : f[h] = g[h]}
  <2>1. 0 \in S
    BY <1>1, <1>4, <1>5, <1>6
  <2>2. ASSUME NEW h \in 1..Len(c), h - 1 \in S PROVE h \in S
    <3>1. h \in 0..Len(c) /\ h \in 0..Len(c) + 1 /\ f[h - 1] = g[h - 1] /\ d[h] = c[h]
      BY <1>1, <2>2
    <3>2. f[h] = IF h <= nLastPoWBlock THEN << >> ELSE AddProof(g[h - 1], c[h].netProof)
      BY <1>5, <3>1
    <3>3. g[h] = IF h <= nLastPoWBlock THEN << >> ELSE AddProof(g[h - 1], c[h].netProof)
      BY <1>4, <3>1
    <3> QED BY <3>1, <3>2, <3>3
  <2>3. \A h \in 1..Len(c) : h - 1 \in S => h \in S
    BY <2>2
  <2> HIDE DEF S
  <2>4. 0..Len(c) \subseteq S
    BY <1>1, <2>1, <2>3, LoopInduction
  <2>5. Len(c) \in S
    BY <1>1, <2>4
  <2> QED BY <2>5 DEF S
<1>8. f[Len(c) + 1] = AddProof(f[Len(c)], b.netProof)
  <2>1. Len(c) + 1 \in 0..Len(c) + 1 /\ ~(Len(c) + 1 <= nLastPoWBlock) /\ (Len(c) + 1) - 1 = Len(c)
    BY <1>1, <1>6
  <2>2. f[Len(c) + 1] = AddProof(f[(Len(c) + 1) - 1], d[Len(c) + 1].netProof)
    BY <1>5, <2>1
  <2> QED BY <1>1, <2>1, <2>2
<1> QED BY <1>1, <1>2, <1>3, <1>7, <1>8 DEF d

----------------------------------------------------------------------------
(* The scores of the node.                                                 *)

\* FullScoreWasLive, of any scores and the proof they were last given.
FullWasLive(known, p) ==
    \A n \in DOMAIN known :
        known[n].health = 100 =>
            \E i \in DOMAIN Nodes(p) :
                Nodes(p)[i] = [ip |-> n, space |-> known[n].space, live |-> TRUE]

\* The payments of the chain c, asked for block by block from its start.
PaysAsFresh(c) ==
    \A h \in nLastPoWBlock + 1 .. Len(c) :
        IsBlockPayeeValid(Replay(SubSeq(c, 1, h - 1)), c[h], h)

\* The inductive invariant of the scores.  FreshNodeAccepts needs the
\* conjuncts between: only a disconnected block or verifychain, which is
\* counted before it scores, makes the scores leave the chain, and a restart
\* brings them back.
ScoreInv ==
    /\ nodes \in Scores
    /\ lastScored \in MaybeProof
    /\ FullWasLive(nodes, lastScored)
    /\ ScoresFollowChain
    /\ disconnects \in Nat /\ verifies \in Nat
    /\ verifying # 0 => verifies # 0
    /\ disconnects = 0 /\ verifies = 0 => ~dirty
    /\ disconnects = 0 /\ verifies = 0 => PaysAsFresh(chain)

\* A scored proof leaves scores that have what FullScoreWasLive says.
LEMMA ScoredWell ==
    ASSUME NEW known \in Scores, NEW p \in MaybeProof
    PROVE  AddProof(known, p) \in Scores /\ FullWasLive(AddProof(known, p), p)
BY AddProofFacts DEF FullWasLive

\* A beginning of the chain is a beginning of the longer chain.
LEMMA Beginnings ==
    ASSUME NEW c \in Seq(AnyBlock), NEW b \in AnyBlock, NEW k \in 0..Len(c)
    PROVE  SubSeq(Append(c, b), 1, k) = SubSeq(c, 1, k) /\ SubSeq(c, 1, Len(c)) = c
<1>1. SubSeq(c, 1, Len(c)) = c
  OBVIOUS
<1>2. SubSeq(c, 1, k) = [i \in 1..k |-> c[i]]
  OBVIOUS
<1>3. SubSeq(Append(c, b), 1, k) = [i \in 1..k |-> Append(c, b)[i]]
  OBVIOUS
<1>4. \A i \in 1..k : Append(c, b)[i] = c[i]
  OBVIOUS
<1> QED BY <1>1, <1>2, <1>3, <1>4

\* A block whose payment the scores of the chain ask for may follow it.
LEMMA FreshAppend ==
    ASSUME NEW c \in Seq(AnyBlock), NEW b \in AnyBlock, PaysAsFresh(c),
           IsBlockPayeeValid(Replay(c), b, Len(c) + 1)
    PROVE  PaysAsFresh(Append(c, b))
<1> DEFINE d == Append(c, b)
<1>1. /\ Len(c) \in Nat /\ Len(d) = Len(c) + 1
      /\ d[Len(c) + 1] = b /\ \A h \in 1..Len(c) : d[h] = c[h]
  OBVIOUS
<1>2. \A k \in 0..Len(c) : SubSeq(d, 1, k) = SubSeq(c, 1, k)
  BY Beginnings
<1>3. SubSeq(c, 1, Len(c)) = c
  OBVIOUS
<1>4. nLastPoWBlock \in Nat
  BY HeightFacts
<1> SUFFICES ASSUME NEW h \in nLastPoWBlock + 1 .. Len(d)
             PROVE  IsBlockPayeeValid(Replay(SubSeq(d, 1, h - 1)), d[h], h)
  BY DEF PaysAsFresh
<1> HIDE DEF d
<1>5. h - 1 \in 0..Len(c)
  BY <1>1, <1>4
<1>6. CASE h = Len(c) + 1
  <2>1. SubSeq(d, 1, h - 1) = c
    BY <1>1, <1>2, <1>3, <1>5, <1>6
  <2> QED BY <1>1, <1>6, <2>1
<1>7. CASE h # Len(c) + 1
  <2>1. h \in nLastPoWBlock + 1 .. Len(c) /\ h \in 1..Len(c)
    BY <1>1, <1>4, <1>7
  <2>2. IsBlockPayeeValid(Replay(SubSeq(c, 1, h - 1)), c[h], h)
    BY <2>1 DEF PaysAsFresh
  <2> QED BY <1>1, <1>2, <1>5, <2>1, <2>2
<1> QED BY <1>6, <1>7

\* ConnectTip scores the proof of the block it appends.
LEMMA ConnectScores ==
    ASSUME StorageInv, ScoreInv, NEW b \in AnyBlock, ConnectTip(b),
           UNCHANGED <<dirty, verifying, disconnects, verifies>>
    PROVE  ScoreInv'
<1>1. chain \in Seq(AnyBlock) /\ Len(chain) >= nLastPoWBlock
  BY HeightFacts DEF StorageInv, ChainShape
<1>2. b.netProof \in MaybeProof
  BY DEF AnyBlock
<1>3. /\ chain' = Append(chain, b) /\ nodes' = AddProof(nodes, b.netProof)
      /\ lastScored' = b.netProof
      /\ IsBlockPayeeValid(nodes, b, Len(chain) + 1)
  BY DEF ConnectTip, BlockValid, Height
<1>4. nodes' \in Scores /\ FullWasLive(nodes', lastScored')
  BY <1>2, <1>3, ScoredWell DEF ScoreInv
<1>5. Replay(Append(chain, b)) = AddProof(Replay(chain), b.netProof)
  BY <1>1, ReplayAppend
<1>6. ScoresFollowChain'
  BY <1>3, <1>5 DEF ScoreInv, ScoresFollowChain
<1>7. ASSUME disconnects = 0, verifies = 0 PROVE PaysAsFresh(chain')
  <2>1. nodes = Replay(chain) /\ PaysAsFresh(chain)
    BY <1>7 DEF ScoreInv, ScoresFollowChain
  <2> QED BY <1>1, <1>3, <2>1, FreshAppend
<1> QED BY <1>2, <1>3, <1>4, <1>6, <1>7 DEF ScoreInv

\* A step that leaves the chain and the scores alone.
LEMMA QuietScores ==
    ASSUME ScoreInv, UNCHANGED <<chain, scores, dirty, verifying, disconnects, verifies>>
    PROVE  ScoreInv'
<1>1. UNCHANGED <<chain, nodes, lastScored, dirty, verifying, disconnects, verifies>>
  BY DEF scores
<1> QED BY <1>1 DEF ScoreInv, ScoresFollowChain

\* A disconnected block leaves its score behind, and the scores are dirty.
LEMMA DisconnectScores ==
    ASSUME ScoreInv, DisconnectTip
    PROVE  ScoreInv'
<1>1. /\ UNCHANGED <<nodes, lastScored, verifying, verifies>> /\ dirty' = TRUE
      /\ disconnects' = disconnects + 1
  BY DEF DisconnectTip, scores, verify
<1>2. disconnects' \in Nat /\ disconnects' # 0
  BY <1>1 DEF ScoreInv
<1> QED BY <1>1, <1>2 DEF ScoreInv, ScoresFollowChain

\* verifychain is counted before it scores anything.
LEMMA VerifyStartScores ==
    ASSUME ScoreInv, NEW d, VerifyStart(d)
    PROVE  ScoreInv'
<1>1. UNCHANGED <<chain, nodes, lastScored, dirty, disconnects>> /\ verifies' = verifies + 1
  BY DEF VerifyStart, scores
<1>2. verifies' \in Nat /\ verifies' # 0
  BY <1>1 DEF ScoreInv
<1> QED BY <1>1, <1>2 DEF ScoreInv, ScoresFollowChain

\* A block that verifychain connects again is scored again.
LEMMA VerifyStepScores ==
    ASSUME StorageInv, ScoreInv, VerifyStep
    PROVE  ScoreInv'
<1> DEFINE b == chain[verifying]
<1>1. verifying \in 1..Len(chain) /\ b \in AnyBlock
  BY DEF VerifyStep, StorageInv, ChainShape
<1>2. b.netProof \in MaybeProof
  BY <1>1 DEF AnyBlock
<1>3. UNCHANGED <<chain, disconnects, verifies>> /\ verifies # 0
  BY <1>1 DEF VerifyStep, bounds, ScoreInv
<1>4. CASE /\ nodes' = AddProof(nodes, b.netProof)
           /\ lastScored' = b.netProof /\ dirty' = TRUE
  <2>1. nodes' \in Scores /\ FullWasLive(nodes', lastScored')
    BY <1>2, <1>4, ScoredWell DEF ScoreInv
  <2> QED BY <1>2, <1>3, <1>4, <2>1 DEF ScoreInv, ScoresFollowChain
<1>5. CASE UNCHANGED <<scores, dirty>>
  <2>1. UNCHANGED <<nodes, lastScored, dirty>>
    BY <1>5 DEF scores
  <2> QED BY <1>3, <2>1 DEF ScoreInv, ScoresFollowChain
<1> QED BY <1>4, <1>5 DEF VerifyStep

\* A restart scores the chain again, from nothing.
LEMMA RestartScores ==
    ASSUME StorageInv, ScoreInv, Restart
    PROVE  ScoreInv'
<1>1. chain \in Seq(AnyBlock) /\ Len(chain) \in nLastPoWBlock..MaxHeight /\ nLastPoWBlock \in Nat
      /\ 1 <= nLastPoWBlock
  BY HeightFacts DEF StorageInv, ChainShape
<1>2. /\ UNCHANGED <<chain, disconnects, verifies>> /\ nodes' = Replay(chain)
      /\ lastScored' = chain[Len(chain)].netProof /\ dirty' = FALSE /\ verifying' = 0
  BY DEF Restart, Height
<1>3. nodes' \in Scores
  BY <1>1, <1>2, ReplayFacts
<1>4. chain[Len(chain)] \in AnyBlock /\ lastScored' \in MaybeProof
  <2>1. chain[Len(chain)] \in AnyBlock
    BY <1>1
  <2> QED BY <1>2, <2>1 DEF AnyBlock
<1>5. FullWasLive(nodes', lastScored')
  <2>1. CASE Len(chain) = nLastPoWBlock
    <3>1. DOMAIN nodes' = {}
      BY <1>1, <1>2, <2>1, ReplayFacts, NoScores
    <3> QED BY <3>1 DEF FullWasLive
  <2>2. CASE Len(chain) # nLastPoWBlock
    <3>1. PICK c, e : c = SubSeq(chain, 1, Len(chain) - 1) /\ e = chain[Len(chain)]
      OBVIOUS
    <3>2. /\ c \in Seq(AnyBlock) /\ e \in AnyBlock /\ Len(c) >= nLastPoWBlock
          /\ chain = Append(c, e)
      BY <1>1, <1>4, <2>2, <3>1
    <3>3. nodes' = AddProof(Replay(c), lastScored') /\ Replay(c) \in Scores
      BY <1>2, <3>1, <3>2, ReplayAppend, ReplayFacts
    <3> QED BY <1>4, <3>3, ScoredWell
  <2> QED BY <2>1, <2>2
<1> QED BY <1>2, <1>3, <1>4, <1>5 DEF ScoreInv, ScoresFollowChain

\* A minted block, connected or not.
LEMMA MintSubmitScores ==
    ASSUME StorageInv, ScoreInv, MintSubmit
    PROVE  ScoreInv'
<1> DEFINE b == [nProof |-> block.nProof, netProof |-> block.netProof,
                 paid |-> block.paid]
<1>1. b \in AnyBlock
  BY DEF StorageInv, Templates, AnyBlock
<1>2. UNCHANGED <<dirty, verifying, disconnects, verifies>>
  BY DEF MintSubmit, verify, bounds
<1>3. ConnectTip(b) \/ UNCHANGED <<chain, scores>>
  BY DEF MintSubmit, ConnectFails
<1> HIDE DEF b
<1> QED BY <1>1, <1>2, <1>3, ConnectScores, QuietScores

\* Every step keeps the invariant of the scores.
LEMMA StepScores == StorageInv /\ ScoreInv /\ [Next]_vars => ScoreInv'
<1> SUFFICES ASSUME StorageInv, ScoreInv, [Next]_vars PROVE ScoreInv'
  OBVIOUS
<1>1. CASE UNCHANGED <<chain, scores, dirty, verify, bounds>>
  <2>1. UNCHANGED <<chain, scores, dirty, verifying, disconnects, verifies>>
    BY <1>1, Zenon DEF verify, bounds
  <2> QED BY <2>1, QuietScores
<1>2. CASE Mint \/ MintSign \/ MintNoKernel
  <2>1. CASE MintSubmit
    BY <2>1, MintSubmitScores
  <2>2. CASE \/ MintHeight \/ MintTemplate \/ MintProof \/ MintAsk \/ MintCheck
             \/ MintSign \/ MintNoKernel
    BY <1>1, <2>2, Zenon
       DEF MintHeight, MintTemplate, MintProof, MintAsk, MintCheck, MintSign,
           MintNoKernel, node
  <2> QED BY <1>2, <2>1, <2>2, Zenon DEF Mint
<1>3. ASSUME NEW b \in Blocks, PeerBlock(b) PROVE ScoreInv'
  <2>1. b \in AnyBlock
    BY AnyBlockHolds
  <2>2. UNCHANGED <<dirty, verify, bounds>>
    BY <1>3, Zenon DEF PeerBlock
  <2>3. CASE ConnectTip(b)
    <3>1. UNCHANGED <<dirty, verifying, disconnects, verifies>>
      BY <2>2, Zenon DEF verify, bounds
    <3> QED BY <2>1, <2>3, <3>1, ConnectScores
  <2>4. CASE ConnectFails(b)
    BY <1>1, <2>2, <2>4, Zenon DEF ConnectFails
  <2> QED BY <1>3, <2>3, <2>4, Zenon DEF PeerBlock
<1>4. ASSUME NEW p \in ProofIds,
             SubmitSign(p) \/ SubmitPush(p) \/ NetProof(p) \/ AnswerAsk(p)
      PROVE  ScoreInv'
  <2>1. UNCHANGED <<chain, scores, dirty, verifying, disconnects, verifies>>
    BY <1>4, Zenon DEF SubmitSign, SubmitPush, NetProof, AnswerAsk, verify, bounds
  <2> QED BY <2>1, QuietScores
<1>5. CASE LoseAsk \/ UNCHANGED vars
  BY <1>1, <1>5, Zenon DEF LoseAsk, vars
<1>6. CASE DisconnectTip \/ Restart
  BY <1>6, DisconnectScores, RestartScores
<1>7. CASE (\E d \in 1..Height : VerifyStart(d)) \/ VerifyStep
  BY <1>7, VerifyStartScores, VerifyStepScores
<1> QED BY <1>2, <1>3, <1>4, <1>5, <1>6, <1>7, Zenon DEF Next

\* The scores keep their invariant, for every table of proofs, payees and
\* scoring constants: health within 0..100, the full score only for a node the
\* last scored proof found live, and the chain's own scores until they are
\* dirty.
THEOREM ScoreInvariant == Spec => []ScoreInv
<1>1. Init => ScoreInv
  <2> SUFFICES ASSUME Init PROVE ScoreInv
    OBVIOUS
  <2>1. PoWBlock \in AnyBlock
    BY DEF PoWBlock, AnyBlock, MaybeProof, Payments
  <2>2. /\ chain = [h \in 1..nLastPoWBlock |-> PoWBlock]
        /\ nodes = << >> /\ lastScored = Null /\ verifying = 0
        /\ disconnects = 0 /\ verifies = 0 /\ dirty = FALSE
    BY DEF Init
  <2>3. chain \in Seq(AnyBlock) /\ Len(chain) = nLastPoWBlock /\ nLastPoWBlock \in Nat
    BY <2>1, <2>2, HeightFacts
  <2>4. nodes \in Scores /\ DOMAIN nodes = {}
    BY <2>2, NoScores
  <2>5. nodes = Replay(chain)
    BY <2>2, <2>3, ReplayFacts
  <2>6. PaysAsFresh(chain)
    BY <2>3 DEF PaysAsFresh
  <2>7. FullWasLive(nodes, lastScored)
    BY <2>4 DEF FullWasLive
  <2> QED BY <2>2, <2>4, <2>5, <2>6, <2>7 DEF ScoreInv, ScoresFollowChain, MaybeProof
<1> QED BY <1>1, StepScores, StorageInvariant, PTL DEF Spec

\* Until a block is disconnected or verified again, the scores are the ones
\* Init rebuilds from the chain: refused blocks leave no mark, and a restart
\* changes no score.
THEOREM ScoresAlwaysFollowChain == Spec => []ScoresFollowChain
<1>1. ScoreInv => ScoresFollowChain
  BY DEF ScoreInv
<1> QED BY <1>1, ScoreInvariant, PTL

\* A node that connects this chain from its start asks for the payments that
\* this node accepted, unless it disconnected or verified blocks.
THEOREM FreshNodeAlwaysAccepts == Spec => []FreshNodeAccepts
<1>1. ScoreInv => FreshNodeAccepts
  BY DEF ScoreInv, FreshNodeAccepts, PaysAsFresh, PoSHeights, Height
<1> QED BY <1>1, ScoreInvariant, PTL

\* The full score, the only one that is paid, belongs to nodes the last scored
\* proof found live with their present space.
THEOREM FullScoreWasAlwaysLive == Spec => []FullScoreWasLive
<1>1. ScoreInv => FullScoreWasLive
  BY DEF ScoreInv, FullScoreWasLive, FullWasLive
<1> QED BY <1>1, ScoreInvariant, PTL

----------------------------------------------------------------------------
(* Types.                                                                  *)

ChainBlocks == Blocks \cup {PoWBlock}

\* What TypeOK says and the other two invariants do not.
OtherTypes ==
    /\ chain \in Seq(ChainBlocks) /\ block.prev \in Seq(ChainBlocks)
    /\ step \in {"height", "template", "proof", "sign", "check", "submit"}
    /\ asked \in {0} \cup Heights
    /\ signing \in MaybeProof
    /\ dirty \in BOOLEAN
    /\ verdict \in {"none", "verified", "unconnectable"}

\* A block ConnectBlock accepts has a proof, once in its header and once in
\* its body.
LEMMA ConnectType ==
    ASSUME StorageInv, OtherTypes, NEW b \in AnyBlock, ConnectTip(b)
    PROVE  chain' \in Seq(ChainBlocks)
<1>1. Len(chain) \in Nat /\ IsProofRequired(Len(chain) + 1)
  BY HeightFacts DEF StorageInv, ChainShape, IsProofRequired
<1>2. ProofValid(proofs, b, Len(chain) + 1)
  BY <1>1 DEF ConnectTip, BlockValid, Height
<1>3. b.netProof \in ProofIds /\ b.nProof = b.netProof
  BY <1>1, <1>2, ValidVouched DEF ProofValid, StorageInv, AnyBlock
<1>4. b \in Blocks
  BY <1>3 DEF Blocks, AnyBlock
<1> QED BY <1>4 DEF ConnectTip, ChainBlocks, OtherTypes

\* A block of a peer or of the staking thread leaves the other types alone.
LEMMA ConnectOrNot ==
    ASSUME StorageInv, OtherTypes, NEW b \in AnyBlock, ConnectTip(b) \/ UNCHANGED chain
    PROVE  chain' \in Seq(ChainBlocks)
BY ConnectType DEF OtherTypes

\* The template of no round.
LEMMA NoTemplatePrev == NoTemplate.prev \in Seq(ChainBlocks)
BY DEF NoTemplate

\* The steps of the staking thread.
LEMMA MintTypes ==
    ASSUME StorageInv, OtherTypes, Mint \/ MintSign \/ MintNoKernel
    PROVE  OtherTypes'
<1>1. nBestHeight + 1 \in Heights
  BY HeightFacts DEF StorageInv, Heights
<1>2. UNCHANGED <<signing, dirty, verdict>>
  BY Zenon DEF Mint, MintHeight, MintTemplate, MintProof, MintAsk, MintSign, MintNoKernel,
               MintCheck, MintSubmit, node, submission, verify
<1>3. asked' \in {0} \cup Heights
  <2>1. CASE MintAsk
    BY <1>1, <2>1 DEF MintAsk
  <2>2. CASE ~MintAsk
    <3>1. UNCHANGED asked
      BY <2>2, Zenon DEF Mint, MintHeight, MintTemplate, MintProof, MintSign, MintNoKernel,
                         MintCheck, MintSubmit
    <3> QED BY <3>1 DEF OtherTypes
  <2> QED BY <2>1, <2>2
<1>4. step' \in {"height", "template", "proof", "sign", "check", "submit"}
  BY DEF Mint, MintHeight, MintTemplate, MintProof, MintAsk, MintSign, MintNoKernel,
         MintCheck, MintSubmit, EndRound
<1>5. chain' \in Seq(ChainBlocks)
  <2>1. CASE MintSubmit
    <3> DEFINE b == [nProof |-> block.nProof, netProof |-> block.netProof,
                     paid |-> block.paid]
    <3>1. b \in AnyBlock
      BY DEF StorageInv, Templates, AnyBlock
    <3>2. ConnectTip(b) \/ UNCHANGED chain
      BY <2>1 DEF MintSubmit, ConnectFails
    <3> HIDE DEF b
    <3> QED BY <3>1, <3>2, ConnectOrNot
  <2>2. CASE ~MintSubmit
    <3>1. UNCHANGED chain
      BY <2>2, Zenon DEF Mint, MintHeight, MintTemplate, MintProof, MintAsk, MintSign,
                         MintNoKernel, MintCheck, node
    <3> QED BY <3>1 DEF OtherTypes
  <2> QED BY <2>1, <2>2
<1>6. block'.prev \in Seq(ChainBlocks)
  <2>1. CASE block' = NoTemplate
    BY <2>1, NoTemplatePrev
  <2>2. CASE UNCHANGED block
    BY <2>2 DEF OtherTypes
  <2>3. CASE MintTemplate
    <3>1. PICK pay : block' = [NoTemplate EXCEPT !.prev = chain, !.paid = pay]
      BY <2>3 DEF MintTemplate
    <3> QED BY <3>1 DEF NoTemplate, OtherTypes
  <2>4. CASE MintProof
    <3>1. PICK p : block' = [block EXCEPT !.nProof = p, !.netProof = p]
      BY <2>4 DEF MintProof
    <3>2. block'.prev = block.prev
      BY <3>1 DEF StorageInv, Templates
    <3> QED BY <3>2 DEF OtherTypes
  <2> QED BY <2>1, <2>2, <2>3, <2>4, Zenon
          DEF Mint, MintHeight, MintAsk, MintSign, MintNoKernel, MintCheck, MintSubmit, EndRound
<1> QED BY <1>2, <1>3, <1>4, <1>5, <1>6 DEF OtherTypes

\* Every step keeps the types.
LEMMA StepTypes == StorageInv /\ OtherTypes /\ [Next]_vars => OtherTypes'
<1> SUFFICES ASSUME StorageInv, OtherTypes, [Next]_vars PROVE OtherTypes'
  OBVIOUS
<1>1. CASE Mint \/ MintSign \/ MintNoKernel
  BY <1>1, MintTypes
<1>2. ASSUME NEW b \in Blocks, PeerBlock(b) PROVE OtherTypes'
  <2>1. UNCHANGED <<step, block, asked, signing, dirty, verdict>>
    BY <1>2, Zenon DEF PeerBlock, minting, submission, verify
  <2>2. ConnectTip(b) \/ UNCHANGED chain
    BY <1>2, Zenon DEF PeerBlock, ConnectFails
  <2>3. chain' \in Seq(ChainBlocks)
    BY <2>2, ConnectOrNot, AnyBlockHolds
  <2> QED BY <2>1, <2>3 DEF OtherTypes
<1>3. ASSUME NEW p \in ProofIds,
             SubmitSign(p) \/ SubmitPush(p) \/ NetProof(p) \/ AnswerAsk(p)
      PROVE  OtherTypes'
  <2>1. UNCHANGED <<chain, step, block, dirty, verdict>>
    BY <1>3, Zenon DEF SubmitSign, SubmitPush, NetProof, AnswerAsk, minting, verify
  <2>2. signing' \in {signing, p, Null} /\ asked' \in {asked, 0}
    BY <1>3, Zenon DEF SubmitSign, SubmitPush, NetProof, AnswerAsk, submission
  <2> QED BY <2>1, <2>2 DEF OtherTypes, MaybeProof
<1>4. CASE LoseAsk \/ UNCHANGED vars
  <2>1. UNCHANGED <<chain, step, block, dirty, verdict, signing>> /\ asked' \in {asked, 0}
    BY <1>4, Zenon DEF LoseAsk, vars, minting, submission, verify
  <2> QED BY <2>1 DEF OtherTypes
<1>5. CASE DisconnectTip
  <2>1. UNCHANGED <<step, block, asked, signing, verdict>> /\ dirty' = TRUE
        /\ chain' = SubSeq(chain, 1, Len(chain) - 1)
    BY <1>5 DEF DisconnectTip, Height, minting, submission, verify
  <2>2. Len(chain) \in Nat /\ Len(chain) > 0
    BY HeightFacts DEF StorageInv, ChainShape
  <2>3. chain' \in Seq(ChainBlocks)
    BY <2>1, <2>2 DEF OtherTypes
  <2> QED BY <2>1, <2>3 DEF OtherTypes
<1>6. CASE Restart
  <2>1. /\ UNCHANGED chain /\ step' = "height" /\ block' = NoTemplate /\ asked' = 0
        /\ signing' = Null /\ dirty' = FALSE /\ verdict' = "none"
    BY <1>6, Zenon DEF Restart
  <2> QED BY <2>1, NoTemplatePrev DEF OtherTypes, MaybeProof
<1>7. CASE (\E d \in 1..Height : VerifyStart(d)) \/ VerifyStep
  <2>1. UNCHANGED <<chain, step, block, asked, signing>>
    BY <1>7, Zenon DEF VerifyStart, VerifyStep, minting, submission
  <2>2. dirty' \in BOOLEAN /\ verdict' \in {"none", "verified", "unconnectable"}
    BY <1>7 DEF VerifyStart, VerifyStep, OtherTypes
  <2> QED BY <2>1, <2>2 DEF OtherTypes
<1> QED BY <1>1, <1>2, <1>3, <1>4, <1>5, <1>6, <1>7, Zenon DEF Next

\* Every variable keeps its type; the health of a storage node stays within
\* 0..100 although a proof may list one address any number of times.
THEOREM TypeCorrect == Spec => []TypeOK
<1>1. Init => OtherTypes
  <2> SUFFICES ASSUME Init PROVE OtherTypes
    OBVIOUS
  <2>1. chain \in Seq(ChainBlocks)
    BY HeightFacts DEF Init, ChainBlocks
  <2> QED BY <2>1, NoTemplatePrev DEF Init, OtherTypes, MaybeProof
<1>2. StorageInv /\ ScoreInv /\ OtherTypes => TypeOK
  <2> SUFFICES ASSUME StorageInv, ScoreInv, OtherTypes PROVE TypeOK
    OBVIOUS
  <2>1. DOMAIN nodes \subseteq Ips /\ \A n \in DOMAIN nodes : nodes[n] \in History
    BY ScoresFacts DEF ScoreInv
  <2>2. proofs \in [Heights -> Seq(ProofIds)] /\ submitted \subseteq ProofIds
        /\ nBestHeight \in 0..MaxHeight /\ verifying \in 0..Height
    BY DEF StorageInv, Cache, Height
  <2>3. lastScored \in ProofIds \cup {Null}
    BY DEF ScoreInv, MaybeProof
  <2> QED BY <2>1, <2>2, <2>3 DEF TypeOK, OtherTypes, ChainBlocks, History, MaybeProof
<1> QED BY <1>1, <1>2, StepTypes, StorageInvariant, ScoreInvariant, PTL DEF Spec

============================================================================
