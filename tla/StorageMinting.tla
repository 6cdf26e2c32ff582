-------------------------- MODULE StorageMinting --------------------------
(***************************************************************************)
(* Storage proofs on one staking node: the cache of network proofs         *)
(* (src/storage/manager.cpp), the health score of every storage node       *)
(* (src/storage/behavior.cpp) and the reward it earns                      *)
(* (src/storage/rewards.cpp), the messages and calls that carry proofs     *)
(* (src/net_processing.cpp, src/storage/rpc.cpp), the places of            *)
(* src/validation.cpp that read and write them, and the round of           *)
(* ThreadStakeMiner that puts a proof into a new block                     *)
(* (src/pos/minter.cpp).                                                   *)
(*                                                                         *)
(* A network proof is a row of the constant table Proof; its identifier    *)
(* stands for its hash.  Block h of the active chain is chain[h].  The     *)
(* first nLastPoWBlock blocks are proof-of-work blocks, without a proof.   *)
(* cs_main makes ConnectBlock one step; the staking thread reads the tip   *)
(* four times in a round and holds cs_main for none of the time between,   *)
(* so its round is cut there.                                              *)
(***************************************************************************)
EXTENDS Integers, Sequences

CONSTANTS
    Proof,           \* id -> [height, nodes, signed]
    Null,            \* the empty CNetworkProof of a proof-of-work block
    Ips,             \* addresses of storage nodes
    None,            \* no masternode to pay
    Payee,           \* height -> the masternode GetMNPayee selects
    nLastPoWBlock,
    SCORE_INCREASE, SCORE_DECREASE,
    BaseReward,      \* GetBaseReward
    MaxHeight,       \* bound: the greatest height a proof is made for
    MaxSubmits,      \* bound: calls of submitproof
    MaxEvents        \* bound: blocks disconnected, calls of verifychain at
                     \* level 4 and restarts of the node, together

ProofIds == DOMAIN Proof
Heights == 1..MaxHeight + 1

\* One chunkserver as a proof lists it: live abstracts the four tests
\* mode > 0, stat > 0, reg > 0 and chunks > 0.
Reports == [ip : Ips, space : Nat, live : BOOLEAN]

ASSUME ProofAssumption ==
    /\ Null \notin ProofIds
    /\ \A p \in ProofIds : Proof[p] \in
         [height : 1..MaxHeight, nodes : Seq(Reports), signed : BOOLEAN]
ASSUME PayeeAssumption == \A h \in Heights : Payee[h] \in Ips \cup {None}
ASSUME HeightAssumption == nLastPoWBlock \in 1..MaxHeight
ASSUME ScoreAssumption ==
    SCORE_INCREASE \in 1..100 /\ SCORE_DECREASE \in 1..100 /\ BaseReward \in Nat
ASSUME StorageBoundsAssumption ==
    MaxHeight \in Nat /\ MaxSubmits \in Nat /\ MaxEvents \in Nat

VARIABLES
    chain,       \* the active chain
    proofs,      \* the vector proofs, split by the height of the proof
    nodes,       \* CNodeBehavior::nodes: ip -> [space, health]
    step,        \* where the staking thread is in its round
    nBestHeight, \* the height the round started from
    block,       \* the block template of the round
    asked,       \* the height of the last ASKPROOF the peers got, or 0
    signing,     \* the proof submitproof has signed and not stored yet
    submitted,   \* history: the proofs submitproof stored here
    lastScored,  \* history: the last proof AddProof was given
    dirty,       \* history: scored blocks left the chain, or came twice,
                 \* since the scores were last rebuilt
    verifying,   \* the height verifychain connects again next, or 0
    verdict,     \* what the last verifychain returned
    submits, disconnects, verifies, restarts

minting == <<step, nBestHeight, block>>
scores == <<nodes, lastScored>>
verify == <<verifying, verdict>>
submission == <<signing, submitted>>
bounds == <<submits, disconnects, verifies, restarts>>
vars == <<chain, proofs, minting, scores, asked, submission, dirty, verify,
          bounds>>

\* No other holder of cs_main runs while verifychain does.
CsMainFree == verifying = 0

Height == Len(chain)
EventsLeft == disconnects + verifies + restarts < MaxEvents

----------------------------------------------------------------------------
(* The proof cache.                                                        *)

\* A proof is looked up by its hash or by its height, so the vector is kept
\* as one sequence per height.  The null proofs Initialise pushes have
\* height 0 and the null hash, which no lookup of a required proof matches:
\* they are left out.
ProofHeight(p) == IF p = Null THEN 0 ELSE Proof[p].height
Least(i, j) == IF i < j THEN i ELSE j
Nodes(p) == IF p = Null THEN << >> ELSE Proof[p].nodes

IsProofRequired(h) == h > nLastPoWBlock

EmptyCache == [h \in Heights |-> << >>]

AlreadyHave(cache, p) ==
    \E i \in DOMAIN cache[ProofHeight(p)] : cache[ProofHeight(p)][i] = p

PushProof(cache, p) == [cache EXCEPT ![ProofHeight(p)] = Append(@, p)]

\* Validate: whether the proof is good, and the cache it leaves behind.
Validate(cache, p) ==
    /\ ProofHeight(p) # 0
    /\ \/ ~IsProofRequired(ProofHeight(p))
       \/ AlreadyHave(cache, p)
       \/ Proof[p].signed

Validated(cache, p) ==
    IF /\ Validate(cache, p)
       /\ IsProofRequired(ProofHeight(p))
       /\ ~AlreadyHave(cache, p)
    THEN PushProof(cache, p)
    ELSE cache

\* GetProofByHeight returns the first proof of that height.
GetProofByHeight(cache, h) == Head(cache[h])

----------------------------------------------------------------------------
(* The health scores and the reward they earn.                             *)

\* The addresses a proof finds live (seen_nodes).
Live(p) == {Nodes(p)[i].ip : i \in {j \in DOMAIN Nodes(p) : Nodes(p)[j].live}}

\* Entry without the limit of 100.
EntryUncapped(old, r) ==
    [space |-> r.space,
     health |-> IF r.space # old.space THEN 0
                ELSE old.health + (IF r.live THEN SCORE_INCREASE ELSE 0)]

\* One entry: a live node gains, one whose space changed starts again.
Entry(old, r) ==
    [space |-> r.space,
     health |-> CASE r.space # old.space -> 0
                  [] r.space = old.space /\ ~r.live -> old.health
                  [] OTHER -> Least(old.health + SCORE_INCREASE, 100)]

\* Miss without the loss.
MissNothing(old) == old

Miss(old) == [old EXCEPT !.health = IF @ < SCORE_DECREASE THEN 0
                                    ELSE @ - SCORE_DECREASE]

\* One round of the loop of AddProof over the proof's entries: an unknown
\* node starts at health 0 with the space the entry reports.
AddEntry(known, r) ==
    IF r.ip \in DOMAIN known
    THEN [known EXCEPT ![r.ip] = Entry(@, r)]
    ELSE [n \in DOMAIN known \cup {r.ip} |->
             IF n = r.ip THEN Entry([space |-> r.space, health |-> 0], r) ELSE known[n]]

\* AddProof: the entries in their order, and then every known node that is
\* not live in the proof loses.  HaveSeen is never true (nothing calls
\* SetSeen), so a proof is scored every time it is given.
AddProof(known, p) ==
    LET told[k \in 0..Len(Nodes(p))] ==
            IF k = 0 THEN known ELSE AddEntry(told[k - 1], Nodes(p)[k])
        after == told[Len(Nodes(p))]
    IN  [n \in DOMAIN after |->
            IF n \in Live(p) THEN after[n] ELSE Miss(after[n])]

\* CNodeBehavior::Init: the scores of a chain, from nothing.
Replay(c) ==
    LET scored[h \in 0..Len(c)] ==
            IF h <= nLastPoWBlock THEN << >>
            ELSE AddProof(scored[h - 1], c[h].netProof)
    IN  scored[Len(c)]

GetNodeScore(known, ip) ==
    IF ip \in DOMAIN known THEN known[ip].health ELSE 0

\* Every case of the switch on the space mode falls through to the last, so
\* the space has no influence.
CalculateNodeReward(score) ==
    IF score < 100 THEN 0 ELSE (BaseReward * 17) \div 100

GetMasternodePayment(known, h) ==
    IF Payee[h] = None THEN 0
    ELSE CalculateNodeReward(GetNodeScore(known, Payee[h]))

Payments == {0, CalculateNodeReward(100)}

\* The coinbase must hold the masternode's output, when there is one.
IsBlockPayeeValid(known, b, h) ==
    GetMasternodePayment(known, h) \in {0, b.paid}

----------------------------------------------------------------------------
(* Blocks.                                                                 *)

Blocks == [nProof : ProofIds, netProof : ProofIds, paid : Payments]
PoWBlock == [nProof |-> Null, netProof |-> Null, paid |-> 0]

\* ProofValid without the comparison of heights.
ProofValidAnyHeight(cache, b, h) ==
    Validate(cache, b.netProof) /\ b.netProof = b.nProof

\* ConnectBlock's verdict on a proof-of-stake block at height h: the proof
\* it carries, then (after everything else) the masternode payment.
ProofValid(cache, b, h) ==
    /\ Validate(cache, b.netProof)
    /\ ProofHeight(b.netProof) = h
    /\ b.netProof = b.nProof

BlockValid(cache, known, b, h) ==
    /\ IsProofRequired(h) => ProofValid(cache, b, h)
    /\ IsBlockPayeeValid(known, b, h)

\* The cache ConnectBlock leaves behind, whatever its verdict.
BlockCache(cache, b, h) ==
    IF IsProofRequired(h) THEN Validated(cache, b.netProof) ELSE cache

\* ConnectTip with a ConnectBlock that succeeds: the block joins the chain
\* and its proof is scored.
ConnectTip(b) ==
    /\ BlockValid(proofs, nodes, b, Height + 1)
    /\ proofs' = BlockCache(proofs, b, Height + 1)
    /\ chain' = Append(chain, b)
    /\ nodes' = AddProof(nodes, b.netProof)
    /\ lastScored' = b.netProof

\* ConnectFails with the proof scored where it is checked.
ConnectFailsScored(b) ==
    /\ proofs' = BlockCache(proofs, b, Height + 1)
    /\ IF ProofValid(proofs, b, Height + 1)
       THEN nodes' = AddProof(nodes, b.netProof) /\ lastScored' = b.netProof
       ELSE UNCHANGED scores
    /\ UNCHANGED chain

\* ConnectBlock that fails once the proof was looked at (in that check, in
\* one of the checks after it, or at the payment), or that only checks.
ConnectFails(b) ==
    /\ proofs' = BlockCache(proofs, b, Height + 1)
    /\ UNCHANGED <<chain, scores>>

PeerBlock(b) ==
    /\ CsMainFree
    /\ Height < MaxHeight
    /\ ConnectTip(b) \/ ConnectFails(b)
    /\ UNCHANGED <<minting, asked, submission, dirty, verify, bounds>>

\* DisconnectTip: the scores are not taken back.
DisconnectTip ==
    /\ CsMainFree
    /\ Height > nLastPoWBlock
    /\ EventsLeft
    /\ chain' = SubSeq(chain, 1, Height - 1)
    /\ dirty' = TRUE
    /\ disconnects' = disconnects + 1
    /\ UNCHANGED <<proofs, minting, scores, asked, submission, verify,
                   submits, verifies, restarts>>

\* verifychain at level 4 disconnects d blocks in a scratch coin view and
\* connects them again, with a ConnectBlock that is not told it only checks.
\* It holds cs_main throughout; the staking thread's other steps go on.
VerifyStart(d) ==
    /\ CsMainFree
    /\ EventsLeft
    /\ verifying' = Height - d + 1
    /\ verifies' = verifies + 1
    /\ verdict' = "none"
    /\ UNCHANGED <<chain, proofs, minting, scores, asked, submission, dirty,
                   submits, disconnects, restarts>>

VerifyStep ==
    LET b == chain[verifying]
    IN  /\ verifying # 0
        /\ proofs' = BlockCache(proofs, b, verifying)
        /\ \/ /\ BlockValid(proofs, nodes, b, verifying)
              /\ nodes' = AddProof(nodes, b.netProof)
              /\ lastScored' = b.netProof
              /\ dirty' = TRUE
              /\ verifying' = IF verifying = Height THEN 0 ELSE verifying + 1
              /\ verdict' = IF verifying = Height THEN "verified" ELSE "none"
           \/ /\ ~BlockValid(proofs, nodes, b, verifying)
              /\ verifying' = 0
              /\ verdict' = "unconnectable"
              /\ UNCHANGED <<scores, dirty>>
        /\ UNCHANGED <<chain, minting, asked, submission, bounds>>

----------------------------------------------------------------------------
(* Proofs arriving.                                                        *)

\* submitproof signs a proof for the next height with the key it is given.
SubmitSign(p) ==
    /\ CsMainFree
    /\ submits < MaxSubmits /\ signing = Null
    /\ ProofHeight(p) = Height + 1
    /\ signing' = p
    /\ submits' = submits + 1
    /\ UNCHANGED <<chain, proofs, minting, scores, asked, submitted, dirty,
                   verify, disconnects, verifies, restarts>>

\* It stores the proof without validating it, once it has let go of cs_main:
\* the tip may have moved, and verifychain may be running.
SubmitPush(p) ==
    /\ signing = p
    /\ proofs' = PushProof(proofs, p)
    /\ submitted' = submitted \cup {p}
    /\ signing' = Null
    /\ UNCHANGED <<chain, minting, scores, asked, dirty, verify, bounds>>

\* The NETPROOF message: an empty or a bad proof changes nothing.
ReceiveProof(p) ==
    /\ CsMainFree
    /\ Nodes(p) # << >>
    /\ Validate(proofs, p)
    /\ proofs' = Validated(proofs, p)

NetProof(p) ==
    /\ ReceiveProof(p)
    /\ UNCHANGED <<chain, minting, scores, asked, submission, dirty, verify,
                   bounds>>

\* A peer that has a proof of the height asked for sends it.
AnswerAsk(p) ==
    /\ asked # 0
    /\ Proof[p].signed /\ ProofHeight(p) = asked
    /\ ReceiveProof(p)
    /\ asked' = 0
    /\ UNCHANGED <<chain, minting, scores, submission, dirty, verify, bounds>>

\* No peer has it, or the message or its answer is lost.
LoseAsk ==
    /\ asked # 0
    /\ asked' = 0
    /\ UNCHANGED <<chain, proofs, minting, scores, submission, dirty, verify,
                   bounds>>

----------------------------------------------------------------------------
(* One round of ThreadStakeMiner, for a wallet that is synced, unlocked    *)
(* and has coins to stake.                                                 *)

node == <<chain, scores, submission, dirty, verify, bounds>>

NoTemplate == [prev |-> << >>, nProof |-> Null, netProof |-> Null, paid |-> 0]

\* The round is over: its height and template are not read again.
EndRound == step' = "height" /\ nBestHeight' = 0 /\ block' = NoTemplate

\* The height of the round, read under cs_main.
MintHeight ==
    /\ step = "height" /\ CsMainFree
    /\ nBestHeight' = Height
    /\ step' = "template"
    /\ UNCHANGED <<node, proofs, asked, block>>

\* CreateNewBlock takes cs_main again: the template stands on the tip of
\* now, and pays what the scores of now ask for.
MintTemplate ==
    /\ step = "template" /\ CsMainFree
    /\ block' = [NoTemplate EXCEPT !.prev = chain,
                     !.paid = GetMasternodePayment(nodes, Height + 1)]
    /\ step' = "proof"
    /\ UNCHANGED <<node, proofs, asked, nBestHeight>>

\* The proof is looked up by the height of the round.
MintProof ==
    /\ step = "proof"
    /\ proofs[nBestHeight + 1] # << >>
    /\ LET p == GetProofByHeight(proofs, nBestHeight + 1)
       IN  block' = [block EXCEPT !.nProof = p, !.netProof = p]
    /\ step' = "sign"
    /\ UNCHANGED <<node, proofs, asked, nBestHeight>>

\* MintAsk that only waits.
MintAskNobody ==
    /\ step = "proof"
    /\ proofs[nBestHeight + 1] = << >>
    /\ EndRound
    /\ UNCHANGED <<node, proofs, asked>>

\* Without one the peers are asked and the round ends.
MintAsk ==
    /\ step = "proof"
    /\ proofs[nBestHeight + 1] = << >>
    /\ asked' = nBestHeight + 1
    /\ EndRound
    /\ UNCHANGED <<node, proofs>>

\* SignBlock finds a kernel, or does not.
MintSign ==
    /\ step = "sign"
    /\ step' = "check"
    /\ UNCHANGED <<node, proofs, asked, nBestHeight, block>>

MintNoKernel ==
    /\ step = "sign"
    /\ EndRound
    /\ UNCHANGED <<node, proofs, asked>>

\* CheckStake compares the template with the tip, without cs_main.
MintCheck ==
    /\ step = "check"
    /\ \/ /\ block.prev = chain
          /\ step' = "submit"
          /\ UNCHANGED <<nBestHeight, block>>
       \/ /\ block.prev # chain
          /\ EndRound
    /\ UNCHANGED <<node, proofs, asked>>

\* ProcessNewBlock: a block that no longer stands on the tip is stored as
\* a side branch.  The round ends whatever becomes of the block.
MintSubmit ==
    LET b == [nProof |-> block.nProof, netProof |-> block.netProof,
              paid |-> block.paid]
    IN  /\ step = "submit" /\ CsMainFree
        /\ \/ /\ block.prev = chain
              /\ \/ ConnectTip(b)
                 \/ ~BlockValid(proofs, nodes, b, Height + 1) /\ ConnectFails(b)
           \/ /\ block.prev # chain
              /\ UNCHANGED <<chain, proofs, scores>>
        /\ EndRound
        /\ UNCHANGED <<asked, submission, dirty, verify, bounds>>

----------------------------------------------------------------------------

\* Restart without CNodeBehavior::Init.
RestartUnscored ==
    /\ EventsLeft
    /\ restarts' = restarts + 1
    /\ proofs' = EmptyCache
    /\ nodes' = << >> /\ lastScored' = Null
    /\ dirty' = FALSE
    /\ step' = "height" /\ nBestHeight' = 0 /\ block' = NoTemplate
    /\ asked' = 0
    /\ verifying' = 0 /\ verdict' = "none"
    /\ signing' = Null
    /\ UNCHANGED <<chain, submitted, submits, disconnects, verifies>>

\* The chain survives a restart; proofs and scores are memory.  Initialise
\* fills the cache from CBlockIndex::netProof, which nothing sets, and Init
\* scores the blocks of the chain again.
Restart ==
    /\ EventsLeft
    /\ restarts' = restarts + 1
    /\ proofs' = EmptyCache
    /\ nodes' = Replay(chain)
    /\ lastScored' = chain[Height].netProof
    /\ dirty' = FALSE
    /\ step' = "height" /\ nBestHeight' = 0 /\ block' = NoTemplate
    /\ asked' = 0
    /\ verifying' = 0 /\ verdict' = "none"
    /\ signing' = Null
    /\ UNCHANGED <<chain, submitted, submits, disconnects, verifies>>

Init ==
    /\ chain = [h \in 1..nLastPoWBlock |-> PoWBlock]
    /\ proofs = EmptyCache
    /\ nodes = << >> /\ lastScored = Null
    /\ step = "height" /\ nBestHeight = 0 /\ block = NoTemplate
    /\ asked = 0
    /\ signing = Null /\ submitted = {} /\ dirty = FALSE /\ verifying = 0 /\ verdict = "none"
    /\ submits = 0 /\ disconnects = 0 /\ verifies = 0 /\ restarts = 0

Mint == MintHeight \/ MintTemplate \/ MintProof \/ MintAsk \/ MintCheck
          \/ MintSubmit

Next ==
    \/ Mint \/ MintSign \/ MintNoKernel
    \/ \E b \in Blocks : PeerBlock(b)
    \/ \E p \in ProofIds : SubmitSign(p) \/ SubmitPush(p) \/ NetProof(p) \/ AnswerAsk(p)
    \/ LoseAsk \/ DisconnectTip \/ Restart
    \/ (\E d \in 1..Height : VerifyStart(d)) \/ VerifyStep

\* The staking thread and verifychain keep running; a kernel is found again and again; of
\* the requests repeated every round, some are answered.
Fairness ==
    /\ WF_vars(Mint) /\ WF_vars(VerifyStep)
    /\ SF_vars(MintSign)
    /\ SF_vars(\E p \in ProofIds : AnswerAsk(p))

Spec == Init /\ [][Next]_vars /\ Fairness

----------------------------------------------------------------------------
(* Properties.                                                             *)

PoSHeights == nLastPoWBlock + 1 .. Height

\* Types; in particular every health is within 0..100, also when a proof lists
\* one address several times (AddProof).
TypeOK ==
    /\ chain \in Seq(Blocks \cup {PoWBlock})
    /\ proofs \in [Heights -> Seq(ProofIds)]
    /\ DOMAIN nodes \subseteq Ips
    /\ \A n \in DOMAIN nodes : nodes[n] \in [space : Nat, health : 0..100]
    /\ step \in {"height", "template", "proof", "sign", "check", "submit"}
    /\ nBestHeight \in 0..MaxHeight
    /\ block.prev \in Seq(Blocks \cup {PoWBlock})
    /\ asked \in {0} \cup Heights
    /\ signing \in ProofIds \cup {Null} /\ submitted \subseteq ProofIds
    /\ lastScored \in ProofIds \cup {Null}
    /\ dirty \in BOOLEAN
    /\ verifying \in 0..Height
    /\ verdict \in {"none", "verified", "unconnectable"}

\* Every proof-of-stake block of the active chain carries a proof made for
\* its own height (ConnectBlock, "blockproof-height"), although the staking
\* thread looks its proof up by a height that may be older than the tip its
\* template stands on; and that proof has the network's signature, unless
\* submitproof stored it here under another key.
ChainProofs ==
    \A h \in PoSHeights :
        LET p == chain[h].netProof
        IN  ProofHeight(p) = h /\ (Proof[p].signed \/ p \in submitted)

\* As long as no scored block was disconnected and none was connected again
\* by verifychain since the node started, the scores AddProof accumulated are
\* the ones Init would rebuild from the chain: blocks that ConnectBlock
\* refused leave no mark, and a restart changes no score.
ScoresFollowChain == ~dirty => nodes = Replay(chain)

\* The masternode payments this node accepted are the ones a node that
\* connects the same chain from its start asks for, as long as this node
\* never disconnected a block and never ran verifychain at level 4.
FreshNodeAccepts ==
    disconnects = 0 /\ verifies = 0 =>
        \A h \in PoSHeights :
            IsBlockPayeeValid(Replay(SubSeq(chain, 1, h - 1)), chain[h], h)

\* A storage node with the full score, the only one that is paid, was listed
\* as live and with its present space in the last proof that was scored,
\* whatever was connected, disconnected and replayed before (AddProof).
FullScoreWasLive ==
    \A n \in DOMAIN nodes :
        nodes[n].health = 100 =>
            \E i \in DOMAIN Nodes(lastScored) :
                Nodes(lastScored)[i] =
                    [ip |-> n, space |-> nodes[n].space, live |-> TRUE]

\* A round that misses its proof asks the peers for it and is tried again
\* (ThreadStakeMiner, AskForProofByHeight), so the chain reaches the last
\* height there are proofs for, and comes back to it when blocks are
\* disconnected, when messages are lost and when the node restarts.
MintingContinues == []<>(Height = MaxHeight)

\* The blocks in the active chain are ones this node connected, so
\* verifychain reports them verified (rpc/blockchain.cpp: "Verified or not").
\* Refuted: the payments of old blocks are judged by the scores of the tip.
OwnChainVerifies == verdict # "unconnectable"

============================================================================
