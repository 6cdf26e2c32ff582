-------------------------- MODULE LLMQSigningProofs --------------------------
(***************************************************************************)
(* Proofs about LLMQSigning, for every number of masternodes, quorums, ids *)
(* and messages and every bound.  The argument: a share follows the vote   *)
(* of its maker, everything held verifies, and two sets of signers share   *)
(* an honest member, which has one vote.                                   *)
(***************************************************************************)
EXTENDS LLMQSigning, FiniteSetTheorems, TLAPS

\* A vote waiting to be signed is for a quorum the node is a valid member of:
\* AsyncSignIfMember returns before it when IsValidMember fails.
PendingOfMembers == \A n \in Honest : \A session \in pendingSigns[n] : n \in Members[session.quorum]

\* The inductive invariant.
IInv == TypeOK /\ PendingOfMembers /\ SharesFollowVotes /\ HoldsOnlyValid

------------------------------------------------------------------------------
(* Signers *)

\* More signers are still enough.
LEMMA MoreSigners ==
    ASSUME NEW q \in Quorums, NEW S, NEW T, S \subseteq T, T \subseteq Members[q], Enough(S, q)
    PROVE  Enough(T, q)
<1>1. T \subseteq Nodes
  BY QuorumAssumption
<1>2. IsFiniteSet(T)
  BY <1>1, FS_Subset, QuorumAssumption
<1>3. IsFiniteSet(S) /\ Cardinality(S) <= Cardinality(T)
  BY <1>2, FS_Subset
<1>4. Cardinality(S) \in Nat /\ Cardinality(T) \in Nat
  BY <1>2, <1>3, FS_CardinalityType
<1> QED
  BY <1>3, <1>4, QuorumAssumption DEF Enough

\* A signature that verifies keeps verifying: shares that were sent stay sent.
LEMMA StaysValid ==
    ASSUME \A n \in Honest : sent[n] \subseteq sent'[n],
           NEW session \in Sessions
    PROVE  /\ Signers(session) \subseteq Signers(session)'
           /\ VerifyRecoveredSig(session) => VerifyRecoveredSig(session)'
<1>1. Signers(session) \subseteq Signers(session)'
  BY DEF Signers, Signed
<1>2. session.quorum \in Quorums
  BY DEF Sessions
<1>3. Signers(session)' \subseteq Members[session.quorum]
  BY DEF Signers
<1>4. ASSUME VerifyRecoveredSig(session)
      PROVE  VerifyRecoveredSig(session)'
  <2>1. Enough(Signers(session), session.quorum)
    BY <1>4 DEF VerifyRecoveredSig
  <2>2. Enough(Signers(session)', session.quorum)
    BY <1>1, <1>2, <1>3, <2>1, MoreSigners
  <2> QED
    BY <2>2 DEF VerifyRecoveredSig
<1> QED
  BY <1>1, <1>4

\* Shares that follow votes cannot make two messages of one id signable: two sets
\* of signers share an honest member.
LEMMA OneVoteOneMessage ==
    ASSUME TypeOK, SharesFollowVotes
    PROVE  OneMessagePerId
<1> SUFFICES ASSUME NEW id \in Ids \ aged, NEW m1 \in Signable(id), NEW m2 \in Signable(id)
             PROVE  m1 = m2
  BY DEF OneMessagePerId
<1>0. m1 \in Msgs /\ m2 \in Msgs
  BY DEF Signable
<1>1. PICK p \in Quorums : VerifyRecoveredSig([quorum |-> p, id |-> id, msg |-> m1])
  BY DEF Signable
<1>2. PICK q \in Quorums : VerifyRecoveredSig([quorum |-> q, id |-> id, msg |-> m2])
  BY DEF Signable
<1> DEFINE s == [quorum |-> p, id |-> id, msg |-> m1]
           t == [quorum |-> q, id |-> id, msg |-> m2]
<1>3. Enough(Signers(s), p) /\ Enough(Signers(t), q)
  BY <1>1, <1>2 DEF VerifyRecoveredSig
<1>4. Signers(s) \in SUBSET Members[p] /\ Signers(t) \in SUBSET Members[q]
  BY DEF Signers
<1>5. (Signers(s) \cap Signers(t)) \ Faulty # {}
  BY <1>3, <1>4, OverlapAssumption
<1>6. PICK n : n \in Signers(s) /\ n \in Signers(t) /\ n \notin Faulty
  BY <1>5
<1>7. n \in Honest
  BY <1>4, <1>6, QuorumAssumption DEF Honest
<1>8. s \in sent[n] /\ t \in sent[n]
  BY <1>6, <1>7 DEF Signers, Signed
<1>9. votes[n][id] = m1 /\ votes[n][id] = m2
  BY <1>7, <1>8 DEF SharesFollowVotes
<1> QED
  BY <1>9

------------------------------------------------------------------------------
(* Types *)

\* A processed share leaves signatures, hashes, cache and shares of their types.
LEMMA ProcessSigShareTypes ==
    ASSUME TypeOK, NEW n \in Honest, NEW share \in Shares, ProcessSigShare(n, share)
    PROVE  /\ recSigs' \in [Honest -> [Ids -> Sessions \cup {None}]]
           /\ hashes' \in [Honest -> SUBSET Sessions]
           /\ idCache' \in [Honest -> [Ids -> {"unknown", "yes", "no"}]]
           /\ sigShares' \in [Honest -> SUBSET Shares]
<1> DEFINE session == share.session
           held == sigShares[n] \cup {share}
           signers == {s.node : s \in {h \in held : h.session = session}}
<1>1. session \in Sessions /\ session.id \in Ids
  BY DEF Shares, Sessions
<1>2. held \in SUBSET Shares
  BY DEF TypeOK
<1>3. RemoveSigSharesForSession(held, session) \in SUBSET Shares
  BY <1>2 DEF RemoveSigSharesForSession
<1>4. Cached(n, session.id) \in [Honest -> [Ids -> {"unknown", "yes", "no"}]]
  BY <1>1 DEF TypeOK, Cached
<1>5. CASE idCache' = Cached(n, session.id) /\ UNCHANGED <<recSigs, hashes, sigShares>>
  BY <1>4, <1>5 DEF TypeOK
<1>6. CASE /\ WriteRecoveredSig(n, session)
           /\ sigShares' = [sigShares EXCEPT ![n] = RemoveSigSharesForSession(held, session)]
  <2> HIDE DEF session, held
  <2> QED
    BY <1>1, <1>3, <1>6 DEF TypeOK, WriteRecoveredSig
<1>7. CASE /\ idCache' = Cached(n, session.id)
           /\ sigShares' = [sigShares EXCEPT ![n] = held]
           /\ UNCHANGED <<recSigs, hashes>>
  <2> HIDE DEF session, held
  <2> QED
    BY <1>2, <1>4, <1>7 DEF TypeOK
<1> QED
  BY <1>5, <1>6, <1>7 DEF ProcessSigShare

\* Every action keeps the types.
LEMMA TypeStep ==
    ASSUME TypeOK, [Next]_vars
    PROVE  TypeOK'
<1>1. CASE UNCHANGED vars
  BY <1>1 DEF TypeOK, vars
<1>2. ASSUME NEW id \in Ids, Age(id) PROVE TypeOK'
  BY <1>2, QuorumAssumption DEF TypeOK, Age, Lose
<1>3. ASSUME NEW n \in Honest, LookupInsert(n) PROVE TypeOK'
  BY <1>3 DEF TypeOK, LookupInsert
<1>4. ASSUME NEW n \in Honest, Restart(n) PROVE TypeOK'
  BY <1>4, QuorumAssumption DEF TypeOK, Restart, Lose
<1>5. ASSUME NEW n \in Honest, NEW id \in Ids, LookupRead(n, id) PROVE TypeOK'
  BY <1>5, QuorumAssumption DEF TypeOK, LookupRead, Lose
<1>6. ASSUME NEW n \in Honest, NEW id \in Ids, TruncateRecoveredSig(n, id) PROVE TypeOK'
  BY <1>6, QuorumAssumption DEF TypeOK, TruncateRecoveredSig, Lose
<1>7. ASSUME NEW n \in Honest, NEW id \in Ids, Cleanup(n, id) PROVE TypeOK'
  <2>1. losses' \in 0 .. MaxLosses
    BY <1>7, QuorumAssumption DEF TypeOK, Cleanup, Lose
  <2>2. votes' \in [Honest -> [Ids -> Msgs \cup {None}]]
    <3>1. CASE votes' = [votes EXCEPT ![n][id] = None]
      BY <1>7, <3>1 DEF TypeOK
    <3>2. CASE UNCHANGED votes
      BY <3>2 DEF TypeOK
    <3> QED
      BY <1>7, <3>1, <3>2 DEF Cleanup
  <2>3. /\ recSigs' \in [Honest -> [Ids -> Sessions \cup {None}]]
        /\ hashes' \in [Honest -> SUBSET Sessions]
        /\ idCache' \in [Honest -> [Ids -> {"unknown", "yes", "no"}]]
    <3>1. CASE UNCHANGED <<recSigs, hashes, idCache>>
      BY <3>1 DEF TypeOK
    <3>2. CASE /\ recSigs' = [recSigs EXCEPT ![n][id] = None]
               /\ hashes' = [hashes EXCEPT ![n] = @ \ {recSigs[n][id]}]
               /\ idCache' = [idCache EXCEPT ![n][id] = "unknown"]
      BY <1>7, <3>2 DEF TypeOK
    <3> QED
      BY <1>7, <3>1, <3>2 DEF Cleanup
  <2> QED
    BY <1>7, <2>1, <2>2, <2>3 DEF TypeOK, Cleanup
<1>8. ASSUME NEW n \in Honest, NEW session \in Sessions, AsyncSignIfMember(n, session) PROVE TypeOK'
  <2>1. session.id \in Ids /\ session.msg \in Msgs
    BY DEF Sessions
  <2>2. idCache' \in [Honest -> [Ids -> {"unknown", "yes", "no"}]]
    BY <1>8, <2>1 DEF TypeOK, AsyncSignIfMember, Cached
  <2>3. votes' \in [Honest -> [Ids -> Msgs \cup {None}]] /\ pendingSigns' \in [Honest -> SUBSET Sessions]
    <3>1. CASE UNCHANGED <<votes, pendingSigns>>
      BY <3>1 DEF TypeOK
    <3>2. CASE /\ votes' = [votes EXCEPT ![n][session.id] = session.msg]
               /\ pendingSigns' = [pendingSigns EXCEPT ![n] = @ \cup {session}]
      BY <2>1, <3>2 DEF TypeOK
    <3> QED
      BY <1>8, <3>1, <3>2 DEF AsyncSignIfMember
  <2> QED
    BY <1>8, <2>2, <2>3 DEF TypeOK, AsyncSignIfMember
<1>9. ASSUME NEW n \in Honest, NEW session \in Sessions, SignPendingSigShares(n, session) PROVE TypeOK'
  <2>1. pendingSigns' \in [Honest -> SUBSET Sessions]
    BY <1>9 DEF TypeOK, SignPendingSigShares
  <2>2. Share(n, session) \in Shares
    BY DEF Share, Shares, Honest
  <2>3. CASE ProcessSigShare(n, Share(n, session)) /\ sent' = [sent EXCEPT ![n] = @ \cup {session}]
    <3>1. sent' \in [Honest -> SUBSET Sessions]
      BY <2>3 DEF TypeOK
    <3> QED
      BY <1>9, <2>1, <2>2, <2>3, <3>1, ProcessSigShareTypes DEF TypeOK, SignPendingSigShares
  <2>4. CASE UNCHANGED <<recSigs, hashes, idCache, sigShares, sent>>
    BY <1>9, <2>1, <2>4 DEF TypeOK, SignPendingSigShares
  <2> QED
    BY <1>9, <2>3, <2>4 DEF SignPendingSigShares
<1>10. ASSUME NEW n \in Honest, NEW session \in Sessions, ProcessPendingRecoveredSigs(n, session) PROVE TypeOK'
  <2>1. session.id \in Ids
    BY DEF Sessions
  <2>2. CASE idCache' = Cached(n, session.id) /\ UNCHANGED <<recSigs, hashes, sigShares>>
    <3>1. idCache' \in [Honest -> [Ids -> {"unknown", "yes", "no"}]]
      BY <2>1, <2>2 DEF TypeOK, Cached
    <3> QED
      BY <1>10, <2>2, <3>1 DEF TypeOK, ProcessPendingRecoveredSigs
  <2>3. CASE /\ WriteRecoveredSig(n, session)
             /\ sigShares' = [sigShares EXCEPT ![n] = RemoveSigSharesForSession(@, session)]
    <3>1. sigShares' \in [Honest -> SUBSET Shares]
      BY <2>3 DEF TypeOK, RemoveSigSharesForSession
    <3>2. /\ recSigs' \in [Honest -> [Ids -> Sessions \cup {None}]]
          /\ hashes' \in [Honest -> SUBSET Sessions]
          /\ idCache' \in [Honest -> [Ids -> {"unknown", "yes", "no"}]]
      BY <2>1, <2>3 DEF TypeOK, WriteRecoveredSig
    <3> QED
      BY <1>10, <3>1, <3>2 DEF TypeOK, ProcessPendingRecoveredSigs
  <2> QED
    BY <1>10, <2>2, <2>3 DEF ProcessPendingRecoveredSigs
<1>11. ASSUME NEW n \in Honest, NEW session \in Sessions, SessionTimeout(n, session) PROVE TypeOK'
  BY <1>11, QuorumAssumption DEF TypeOK, SessionTimeout, RemoveSigSharesForSession, Lose
<1>12. ASSUME NEW n \in Honest, NEW share \in Shares, ProcessPendingSigShares(n, share) PROVE TypeOK'
  BY <1>12, ProcessSigShareTypes DEF TypeOK, ProcessPendingSigShares
<1> QED
  BY <1>1, <1>2, <1>3, <1>4, <1>5, <1>6, <1>7, <1>8, <1>9, <1>10, <1>11, <1>12 DEF Next

------------------------------------------------------------------------------
(* Shares follow votes *)

\* Only signing sends a share, and only time makes an id old.
LEMMA StepKinds ==
    ASSUME [Next]_vars
    PROVE  \/ \E id \in Ids : Age(id)
           \/ \E n \in Honest : \E session \in Sessions : SignPendingSigShares(n, session)
           \/ UNCHANGED <<sent, aged>>
<1>1. ASSUME NEW m \in Honest, LookupInsert(m) \/ Restart(m) PROVE UNCHANGED <<sent, aged>>
  BY <1>1 DEF LookupInsert, Restart
<1>2. ASSUME NEW m \in Honest, NEW id \in Ids,
             LookupRead(m, id) \/ TruncateRecoveredSig(m, id) \/ Cleanup(m, id)
      PROVE  UNCHANGED <<sent, aged>>
  BY <1>2 DEF LookupRead, TruncateRecoveredSig, Cleanup
<1>3. ASSUME NEW m \in Honest, NEW session \in Sessions,
             \/ AsyncSignIfMember(m, session) \/ ProcessPendingRecoveredSigs(m, session)
             \/ SessionTimeout(m, session)
      PROVE  UNCHANGED <<sent, aged>>
  BY <1>3 DEF AsyncSignIfMember, ProcessPendingRecoveredSigs, SessionTimeout
<1>4. ASSUME NEW m \in Honest, NEW share \in Shares, ProcessPendingSigShares(m, share)
      PROVE  UNCHANGED <<sent, aged>>
  BY <1>4 DEF ProcessPendingSigShares
<1> QED
  BY <1>1, <1>2, <1>3, <1>4 DEF Next, vars

\* A share that was sent stays sent, whatever a node does.
LEMMA SentGrows ==
    ASSUME TypeOK, [Next]_vars
    PROVE  \A n \in Honest : sent[n] \subseteq sent'[n]
<1>1. CASE UNCHANGED sent
  BY <1>1
<1>2. ASSUME NEW m \in Honest, NEW session \in Sessions, SignPendingSigShares(m, session)
      PROVE  \A n \in Honest : sent[n] \subseteq sent'[n]
  <2>1. sent' = [sent EXCEPT ![m] = @ \cup {session}] \/ sent' = sent
    BY <1>2 DEF SignPendingSigShares
  <2> QED
    BY <2>1 DEF TypeOK
<1>3. ASSUME NEW id \in Ids, Age(id) PROVE UNCHANGED sent
  BY <1>3 DEF Age
<1> QED
  BY <1>1, <1>2, <1>3, StepKinds

\* The steps that neither vote nor sign change nothing the two invariants speak of.
LEMMA FollowFrame ==
    ASSUME PendingOfMembers, SharesFollowVotes, UNCHANGED <<votes, pendingSigns, sent>>, aged \subseteq aged'
    PROVE  PendingOfMembers' /\ SharesFollowVotes'
BY DEF PendingOfMembers, SharesFollowVotes

\* Every action keeps shares to the message voted for: the vote is stored before the
\* share exists, and goes only once the id is old.
LEMMA FollowStep ==
    ASSUME TypeOK, PendingOfMembers, SharesFollowVotes, [Next]_vars
    PROVE  PendingOfMembers' /\ SharesFollowVotes'
<1>1. CASE UNCHANGED <<votes, pendingSigns, sent>> /\ aged \subseteq aged'
  BY <1>1, FollowFrame
<1>2. ASSUME NEW n \in Honest, Restart(n) PROVE PendingOfMembers' /\ SharesFollowVotes'
  <2>1. \A m \in Honest : pendingSigns'[m] \subseteq pendingSigns[m]
    BY <1>2 DEF TypeOK, Restart
  <2>2. UNCHANGED <<votes, sent, aged>>
    BY <1>2 DEF Restart
  <2> QED
    BY <2>1, <2>2 DEF PendingOfMembers, SharesFollowVotes
<1>3. ASSUME NEW n \in Honest, NEW id \in Ids, Cleanup(n, id) PROVE PendingOfMembers' /\ SharesFollowVotes'
  <2>1. id \in aged /\ UNCHANGED <<pendingSigns, sent, aged>>
    BY <1>3 DEF Cleanup
  <2>2. \A m \in Honest : \A i \in Ids : i # id => votes'[m][i] = votes[m][i]
    BY <1>3 DEF TypeOK, Cleanup
  <2>3. \A m \in Honest : \A session \in pendingSigns[m] \cup sent[m] : session.id \in Ids
    BY DEF TypeOK, Sessions
  <2> QED
    BY <2>1, <2>2, <2>3 DEF PendingOfMembers, SharesFollowVotes
<1>4. ASSUME NEW n \in Honest, NEW session \in Sessions, AsyncSignIfMember(n, session)
      PROVE  PendingOfMembers' /\ SharesFollowVotes'
  <2>1. CASE UNCHANGED <<votes, pendingSigns>>
    BY <1>4, <2>1, FollowFrame DEF AsyncSignIfMember
  <2>2. CASE /\ votes' = [votes EXCEPT ![n][session.id] = session.msg]
             /\ pendingSigns' = [pendingSigns EXCEPT ![n] = @ \cup {session}]
    <3>1. session.id \in Ids /\ session.msg \in Msgs /\ None \notin Msgs
      BY QuorumAssumption DEF Sessions
    <3>2. /\ n \in Members[session.quorum] /\ votes[n][session.id] \in {None, session.msg}
          /\ UNCHANGED <<sent, aged>>
      BY <1>4 DEF AsyncSignIfMember
    <3>3. /\ \A m \in Honest : pendingSigns'[m] \subseteq pendingSigns[m] \cup (IF m = n THEN {session} ELSE {})
          /\ \A m \in Honest : \A s \in pendingSigns[m] \cup sent[m] : s.id \in Ids /\ s.msg \in Msgs
      BY <2>2 DEF TypeOK, Sessions
    <3>4. votes'[n][session.id] = session.msg
      BY <2>2, <3>1 DEF TypeOK
    <3>5. \A m \in Honest : \A i \in Ids : votes[m][i] # None => votes'[m][i] = votes[m][i]
      BY <2>2, <3>1, <3>2 DEF TypeOK
    <3>6. PendingOfMembers'
      BY <3>2, <3>3 DEF PendingOfMembers
    <3>7. ASSUME NEW m \in Honest, NEW s \in pendingSigns'[m] \cup sent'[m], s.id \notin aged'
          PROVE  votes'[m][s.id] = s.msg
      <4>1. CASE s \in pendingSigns[m] \cup sent[m]
        <5>1. votes[m][s.id] = s.msg /\ s.id \in Ids /\ s.msg # None
          BY <3>1, <3>2, <3>3, <3>7, <4>1 DEF SharesFollowVotes
        <5> QED
          BY <3>5, <5>1
      <4>2. CASE m = n /\ s = session
        BY <3>4, <4>2
      <4> QED
        BY <3>2, <3>3, <4>1, <4>2
    <3> QED
      BY <3>6, <3>7 DEF SharesFollowVotes
  <2> QED
    BY <1>4, <2>1, <2>2 DEF AsyncSignIfMember
<1>5. ASSUME NEW n \in Honest, NEW session \in Sessions, SignPendingSigShares(n, session)
      PROVE  PendingOfMembers' /\ SharesFollowVotes'
  <2>1. /\ session \in pendingSigns[n]
        /\ pendingSigns' = [pendingSigns EXCEPT ![n] = @ \ {session}]
        /\ sent' = [sent EXCEPT ![n] = @ \cup {session}] \/ sent' = sent
        /\ UNCHANGED <<votes, aged>>
    BY <1>5 DEF SignPendingSigShares
  <2>2. \A m \in Honest : pendingSigns'[m] \subseteq pendingSigns[m] /\ sent'[m] \subseteq sent[m] \cup pendingSigns[m]
    BY <2>1 DEF TypeOK
  <2> QED
    BY <2>1, <2>2 DEF PendingOfMembers, SharesFollowVotes
<1> QED
  BY <1>1, <1>2, <1>3, <1>4, <1>5 DEF Next, vars, Age, LookupInsert, LookupRead, TruncateRecoveredSig,
     ProcessPendingRecoveredSigs, SessionTimeout, ProcessPendingSigShares

------------------------------------------------------------------------------
(* What a node holds verifies *)

\* What was held stays valid, so only what a step adds has to be looked at.
LEMMA OnlyNewMatters ==
    ASSUME TypeOK, HoldsOnlyValid, \A n \in Honest : sent[n] \subseteq sent'[n],
           \A n \in Honest : \A share \in sigShares'[n] :
                share \in sigShares[n] \/ share.node \in Signers(share.session)',
           \A n \in Honest : \A sig \in hashes'[n] : sig \in hashes[n] \/ VerifyRecoveredSig(sig)',
           \A n \in Honest : \A id \in Ids :
                \/ recSigs'[n][id] \in {None, recSigs[n][id]}
                \/ recSigs'[n][id].id = id /\ VerifyRecoveredSig(recSigs[n][id])'
    PROVE  HoldsOnlyValid'
<1>1. ASSUME NEW n \in Honest, NEW share \in sigShares[n] PROVE share.node \in Signers(share.session)'
  <2>1. share.session \in Sessions
    BY DEF TypeOK, Shares
  <2>2. share.node \in Signers(share.session)
    BY DEF HoldsOnlyValid
  <2> QED
    BY <2>1, <2>2, StaysValid
<1>2. ASSUME NEW n \in Honest, NEW sig \in hashes[n] PROVE VerifyRecoveredSig(sig)'
  <2>1. sig \in Sessions
    BY DEF TypeOK
  <2>2. VerifyRecoveredSig(sig)
    BY DEF HoldsOnlyValid
  <2> QED
    BY <2>1, <2>2, StaysValid
<1>3. ASSUME NEW n \in Honest, NEW id \in Ids, recSigs'[n][id] # None
      PROVE  recSigs'[n][id].id = id /\ VerifyRecoveredSig(recSigs[n][id])'
  <2>1. CASE recSigs'[n][id] = recSigs[n][id]
    <3> DEFINE sig == recSigs[n][id]
    <3>1. sig \in Sessions
      BY <1>3, <2>1 DEF TypeOK
    <3>2. sig.id = id /\ VerifyRecoveredSig(sig)
      BY <1>3, <2>1 DEF HoldsOnlyValid
    <3>3. PICK old \in Sessions : old = sig
      BY <3>1
    <3>4. VerifyRecoveredSig(old)'
      BY <3>2, <3>3, StaysValid
    <3> QED
      BY <2>1, <3>2, <3>3, <3>4
  <2> QED
    BY <1>3, <2>1
<1> QED
  BY <1>1, <1>2, <1>3 DEF HoldsOnlyValid

\* A share of a signer, once processed, leaves a node with valid shares and signatures:
\* a signature is recovered only from enough of them.
LEMMA ProcessSigShareValid ==
    ASSUME TypeOK, HoldsOnlyValid, \A n \in Honest : sent[n] \subseteq sent'[n],
           NEW n \in Honest, NEW share \in Shares, share.node \in Signers(share.session)',
           ProcessSigShare(n, share)
    PROVE  HoldsOnlyValid'
<1> DEFINE session == share.session
           held == sigShares[n] \cup {share}
           signers == {s.node : s \in {h \in held : h.session = session}}
<1>1. session \in Sessions /\ session.id \in Ids /\ session.quorum \in Quorums
  BY DEF Shares, Sessions
<1>2. \A m \in Honest : \A h \in sigShares'[m] : h \in sigShares[m] \/ h = share
  <2>1. CASE UNCHANGED sigShares
    BY <2>1
  <2>2. ASSUME NEW kept \in SUBSET held, sigShares' = [sigShares EXCEPT ![n] = kept]
        PROVE  \A m \in Honest : \A h \in sigShares'[m] : h \in sigShares[m] \/ h = share
    BY <2>2 DEF TypeOK
  <2>3. RemoveSigSharesForSession(held, session) \in SUBSET held
    BY DEF RemoveSigSharesForSession
  <2> QED
    BY <2>1, <2>2, <2>3 DEF ProcessSigShare
<1>3. CASE UNCHANGED <<recSigs, hashes>>
  BY <1>2, <1>3, OnlyNewMatters
<1>4. CASE Enough(signers, session.quorum) /\ WriteRecoveredSig(n, session)
  <2>1. signers \subseteq Signers(session)'
    <3>1. \A h \in sigShares[n] : h.session = session => h.node \in Signers(session)
      BY DEF HoldsOnlyValid
    <3>2. Signers(session) \subseteq Signers(session)'
      BY <1>1, StaysValid
    <3> QED
      BY <3>1, <3>2
  <2>2. Signers(session)' \subseteq Members[session.quorum]
    BY DEF Signers
  <2>3. VerifyRecoveredSig(session)'
    <3>1. Enough(Signers(session)', session.quorum)
      BY <1>1, <1>4, <2>1, <2>2, MoreSigners
    <3> QED
      BY <3>1 DEF VerifyRecoveredSig
  <2>4. \A m \in Honest : \A sig \in hashes'[m] : sig \in hashes[m] \/ sig = session
    BY <1>4 DEF TypeOK, WriteRecoveredSig
  <2>5. \A m \in Honest : \A id \in Ids :
            recSigs'[m][id] = recSigs[m][id] \/ (id = session.id /\ recSigs'[m][id] = session)
    BY <1>1, <1>4 DEF TypeOK, WriteRecoveredSig
  <2> HIDE DEF session
  <2>6. \A m \in Honest : \A id \in Ids :
            \/ recSigs'[m][id] \in {None, recSigs[m][id]}
            \/ recSigs'[m][id].id = id /\ VerifyRecoveredSig(recSigs[m][id])'
    BY <2>3, <2>5
  <2>7. \A m \in Honest : \A sig \in hashes'[m] : sig \in hashes[m] \/ VerifyRecoveredSig(sig)'
    BY <2>3, <2>4
  <2> QED
    BY <1>2, <2>6, <2>7, OnlyNewMatters
<1> QED
  BY <1>3, <1>4 DEF ProcessSigShare

\* Every action keeps what nodes hold valid; what was sent stays sent.
LEMMA ValidStep ==
    ASSUME TypeOK, PendingOfMembers, HoldsOnlyValid, [Next]_vars
    PROVE  HoldsOnlyValid'
<1>0. \A n \in Honest : sent[n] \subseteq sent'[n]
  BY SentGrows
<1>1. CASE UNCHANGED <<recSigs, hashes, sigShares>>
  BY <1>0, <1>1, OnlyNewMatters
<1>2. ASSUME NEW n \in Honest, Restart(n) PROVE HoldsOnlyValid'
  <2>1. UNCHANGED <<recSigs, hashes>> /\ \A m \in Honest : sigShares'[m] \subseteq sigShares[m]
    BY <1>2 DEF TypeOK, Restart
  <2> QED
    BY <1>0, <2>1, OnlyNewMatters
<1>3. ASSUME NEW n \in Honest, NEW session \in Sessions, SessionTimeout(n, session) PROVE HoldsOnlyValid'
  <2>1. UNCHANGED <<recSigs, hashes>> /\ \A m \in Honest : sigShares'[m] \subseteq sigShares[m]
    BY <1>3 DEF TypeOK, SessionTimeout, RemoveSigSharesForSession
  <2> QED
    BY <1>0, <2>1, OnlyNewMatters
<1>4. ASSUME NEW n \in Honest, NEW id \in Ids, TruncateRecoveredSig(n, id) \/ Cleanup(n, id)
      PROVE  HoldsOnlyValid'
  <2>1. /\ UNCHANGED sigShares
        /\ \A m \in Honest : hashes'[m] \subseteq hashes[m]
    BY <1>4 DEF TypeOK, TruncateRecoveredSig, Cleanup
  <2>2. \A m \in Honest : \A i \in Ids : recSigs'[m][i] \in {None, recSigs[m][i]}
    BY <1>4 DEF TypeOK, TruncateRecoveredSig, Cleanup
  <2> QED
    BY <1>0, <2>1, <2>2, OnlyNewMatters
<1>5. ASSUME NEW n \in Honest, NEW session \in Sessions, SignPendingSigShares(n, session)
      PROVE  HoldsOnlyValid'
  <2>1. CASE ProcessSigShare(n, Share(n, session)) /\ sent' = [sent EXCEPT ![n] = @ \cup {session}]
    <3>1. Share(n, session) \in Shares
      BY DEF Share, Shares, Honest
    <3>2. session \in sent'[n]
      BY <2>1 DEF TypeOK
    <3>3. n \in Members[session.quorum]
      BY <1>5 DEF PendingOfMembers, SignPendingSigShares
    <3>4. n \in Signers(session)'
      BY <3>2, <3>3 DEF Signers, Signed
    <3>5. Share(n, session).node = n /\ Share(n, session).session = session
      BY DEF Share
    <3> QED
      BY <1>0, <2>1, <3>1, <3>4, <3>5, ProcessSigShareValid
  <2> QED
    BY <1>1, <1>5, <2>1 DEF SignPendingSigShares
<1>6. ASSUME NEW n \in Honest, NEW sig \in Sessions, ProcessPendingRecoveredSigs(n, sig)
      PROVE  HoldsOnlyValid'
  <2>1. VerifyRecoveredSig(sig)'
    BY <1>0, <1>6, StaysValid DEF ProcessPendingRecoveredSigs
  <2>2. CASE /\ WriteRecoveredSig(n, sig)
             /\ sigShares' = [sigShares EXCEPT ![n] = RemoveSigSharesForSession(@, sig)]
    <3>1. \A m \in Honest : sigShares'[m] \subseteq sigShares[m]
      BY <2>2 DEF TypeOK, RemoveSigSharesForSession
    <3>2. \A m \in Honest : \A g \in hashes'[m] : g \in hashes[m] \/ g = sig
      BY <2>2 DEF TypeOK, WriteRecoveredSig
    <3>3. \A m \in Honest : \A id \in Ids :
            recSigs'[m][id] = recSigs[m][id] \/ (id = sig.id /\ recSigs'[m][id] = sig)
      BY <2>2 DEF TypeOK, WriteRecoveredSig, Sessions
    <3>4. \A m \in Honest : \A id \in Ids :
            \/ recSigs'[m][id] \in {None, recSigs[m][id]}
            \/ recSigs'[m][id].id = id /\ VerifyRecoveredSig(recSigs[m][id])'
      BY <2>1, <3>3
    <3>5. \A m \in Honest : \A g \in hashes'[m] : g \in hashes[m] \/ VerifyRecoveredSig(g)'
      BY <2>1, <3>2
    <3> QED
      BY <1>0, <3>1, <3>4, <3>5, OnlyNewMatters
  <2> QED
    BY <1>1, <1>6, <2>2 DEF ProcessPendingRecoveredSigs
<1>7. ASSUME NEW n \in Honest, NEW share \in Shares, ProcessPendingSigShares(n, share)
      PROVE  HoldsOnlyValid'
  <2>1. share.session \in Sessions /\ share.node \in Signers(share.session)
    BY <1>7 DEF ProcessPendingSigShares, Shares, Signers
  <2>2. share.node \in Signers(share.session)'
    BY <1>0, <2>1, StaysValid
  <2> QED
    BY <1>0, <1>7, <2>2, ProcessSigShareValid DEF ProcessPendingSigShares
<1> QED
  BY <1>1, <1>2, <1>3, <1>4, <1>5, <1>6, <1>7 DEF Next, vars, Age, LookupInsert, LookupRead, AsyncSignIfMember

------------------------------------------------------------------------------
(* Theorems *)

\* Nothing is voted, sent or stored at the start.
LEMMA InitHolds == Init => IInv
<1> SUFFICES ASSUME Init PROVE IInv
  OBVIOUS
<1>1. TypeOK
  <2>1. /\ votes \in [Honest -> [Ids -> Msgs \cup {None}]]
        /\ recSigs \in [Honest -> [Ids -> Sessions \cup {None}]]
    BY DEF Init
  <2>2. /\ hashes \in [Honest -> SUBSET Sessions]
        /\ pendingSigns \in [Honest -> SUBSET Sessions]
        /\ sent \in [Honest -> SUBSET Sessions]
    BY DEF Init
  <2>3. sigShares \in [Honest -> SUBSET Shares] /\ aged \subseteq Ids
    BY DEF Init
  <2>4. /\ idCache \in [Honest -> [Ids -> {"unknown", "yes", "no"}]]
        /\ lookup \in [Honest -> [id : Ids, answer : {"yes", "no"}] \cup {None}]
    BY DEF Init
  <2>5. losses \in 0 .. MaxLosses
    BY QuorumAssumption DEF Init
  <2> QED
    BY <2>1, <2>2, <2>3, <2>4, <2>5 DEF TypeOK
<1>2. PendingOfMembers /\ SharesFollowVotes /\ HoldsOnlyValid
  BY DEF Init, PendingOfMembers, SharesFollowVotes, HoldsOnlyValid
<1> QED
  BY <1>1, <1>2 DEF IInv

\* The invariant is inductive.
LEMMA StepHolds == IInv /\ [Next]_vars => IInv'
BY TypeStep, FollowStep, ValidStep DEF IInv

\* The inductive invariant holds in every reachable state.
THEOREM Invariance == Spec => []IInv
<1> QED
  BY InitHolds, StepHolds, PTL DEF Spec

\* Every share manager and every recovered signature database keeps its shape.
THEOREM TypeCorrect == Spec => []TypeOK
<1>1. IInv => TypeOK
  BY DEF IInv
<1> QED
  BY <1>1, Invariance, PTL

\* An honest member's share is for the message it voted for, as long as the
\* vote is kept: AsyncSignIfMember writes the vote before the share exists.
THEOREM SharesAlwaysFollowVotes == Spec => []SharesFollowVotes
<1>1. IInv => SharesFollowVotes
  BY DEF IInv
<1> QED
  BY <1>1, Invariance, PTL

\* Whatever a node stores verifies: shares are checked before they are added,
\* and recovered signatures before they are written.
THEOREM HoldsOnlyValidAlways == Spec => []HoldsOnlyValid
<1>1. IInv => HoldsOnlyValid
  BY DEF IInv
<1> QED
  BY <1>1, Invariance, PTL

\* While votes are kept, an id has signatures on one message only.
THEOREM OneMessagePerIdAlways == Spec => []OneMessagePerId
<1>1. IInv => OneMessagePerId
  BY OneVoteOneMessage DEF IInv
<1> QED
  BY <1>1, Invariance, PTL

\* A signature that verifies makes its message signable.
LEMMA ValidIsSignable ==
    ASSUME NEW sig \in Sessions, VerifyRecoveredSig(sig)
    PROVE  sig.msg \in Signable(sig.id)
<1>1. sig = [quorum |-> sig.quorum, id |-> sig.id, msg |-> sig.msg] /\ sig.quorum \in Quorums /\ sig.msg \in Msgs
  BY DEF Sessions
<1> QED
  BY <1>1 DEF Signable

\* Stored signatures are valid, and only one message is signable: so nodes agree.
LEMMA ValidNodesAgree ==
    ASSUME IInv
    PROVE  NodesAgree
<1>1. OneMessagePerId /\ TypeOK /\ HoldsOnlyValid
  BY OneVoteOneMessage DEF IInv
<1>2. \A n \in Honest : \A id \in Ids : recSigs[n][id] # None => recSigs[n][id].msg \in Signable(id)
  <2> SUFFICES ASSUME NEW n \in Honest, NEW id \in Ids, recSigs[n][id] # None
               PROVE  recSigs[n][id].msg \in Signable(id)
    OBVIOUS
  <2>1. recSigs[n][id] \in Sessions
    BY <1>1 DEF TypeOK
  <2>2. recSigs[n][id].id = id /\ VerifyRecoveredSig(recSigs[n][id])
    BY <1>1 DEF HoldsOnlyValid
  <2> QED
    BY <2>1, <2>2, ValidIsSignable
<1>3. \A n \in Honest : \A sig \in hashes[n] : sig.msg \in Signable(sig.id)
  BY <1>1, ValidIsSignable DEF TypeOK, HoldsOnlyValid
<1> QED
  BY <1>1, <1>2, <1>3 DEF NodesAgree, OneMessagePerId

\* All nodes agree on the message of an id.
THEOREM NodesAgreeAlways == Spec => []NodesAgree
BY ValidNodesAgree, Invariance, PTL

------------------------------------------------------------------------------
(* Refinement *)

\* What can be signed stays so, since no share is taken back.
LEMMA SignableGrows ==
    ASSUME \A n \in Honest : sent[n] \subseteq sent'[n], NEW id \in Ids
    PROVE  Signable(id) \subseteq Signable(id)'
<1> SUFFICES ASSUME NEW msg \in Signable(id) PROVE msg \in Signable(id)'
  OBVIOUS
<1>1. PICK q \in Quorums : VerifyRecoveredSig([quorum |-> q, id |-> id, msg |-> msg])
  BY DEF Signable
<1>2. msg \in Msgs /\ [quorum |-> q, id |-> id, msg |-> msg] \in Sessions
  BY DEF Signable, Sessions
<1>3. VerifyRecoveredSig([quorum |-> q, id |-> id, msg |-> msg])'
  BY <1>1, <1>2, StaysValid
<1> QED
  BY <1>2, <1>3 DEF Signable

\* A stored message is never replaced by another while the votes are kept.
THEOREM StoredMessageKeptAlways == Spec => StoredMessageKept
<1> DEFINE Kept == \A n \in Honest : \A id \in Ids \ aged' :
                      recSigs[n][id] # None /\ recSigs'[n][id] # None =>
                          recSigs'[n][id].msg = recSigs[n][id].msg
<1>1. ASSUME IInv, IInv', OneMessagePerId', [Next]_vars PROVE Kept
  <2> SUFFICES ASSUME NEW n \in Honest, NEW id \in Ids \ aged',
                      recSigs[n][id] # None, recSigs'[n][id] # None
               PROVE  recSigs'[n][id].msg = recSigs[n][id].msg
    OBVIOUS
  <2>1. \A m \in Honest : sent[m] \subseteq sent'[m]
    BY <1>1, SentGrows DEF IInv
  <2>2. PICK old \in Sessions : old = recSigs[n][id]
    BY <1>1 DEF IInv, TypeOK
  <2>3. PICK new \in Sessions : new = recSigs'[n][id]
    BY <1>1 DEF IInv, TypeOK
  <2>4. old.id = id /\ VerifyRecoveredSig(old)
    BY <1>1, <2>2 DEF IInv, HoldsOnlyValid
  <2>5. new.id = id /\ VerifyRecoveredSig(new)'
    BY <1>1, <2>3 DEF IInv, HoldsOnlyValid
  <2>6. old.msg \in Signable(id)'
    BY <2>1, <2>4, ValidIsSignable, SignableGrows
  <2>7. new.msg \in Signable(id)'
    <3>1. new = [quorum |-> new.quorum, id |-> new.id, msg |-> new.msg] /\ new.quorum \in Quorums /\ new.msg \in Msgs
      BY DEF Sessions
    <3> QED
      BY <2>5, <3>1 DEF Signable
  <2> QED
    BY <1>1, <2>2, <2>3, <2>6, <2>7 DEF OneMessagePerId
<1>2. IInv /\ IInv' /\ OneMessagePerId' /\ [Next]_vars => [Kept]_vars
  BY <1>1
<1> QED
  BY <1>2, Invariance, OneMessagePerIdAlways, PTL DEF Spec, StoredMessageKept

\* Nothing is signable before anyone has signed: faulty members alone are too few.
LEMMA NothingSignable ==
    ASSUME Init, NEW id \in Ids
    PROVE  Signable(id) = {}
<1> SUFFICES ASSUME NEW msg \in Msgs, NEW q \in Quorums,
                    VerifyRecoveredSig([quorum |-> q, id |-> id, msg |-> msg])
             PROVE  FALSE
  BY DEF Signable
<1> DEFINE S == Signers([quorum |-> q, id |-> id, msg |-> msg])
<1>1. S \in SUBSET Members[q] /\ Enough(S, q)
  BY DEF VerifyRecoveredSig, Signers
<1>2. PICK n : n \in S /\ n \notin Faulty
  <2>1. (S \cap S) \ Faulty # {}
    BY <1>1, OverlapAssumption
  <2> QED
    BY <2>1
<1>3. n \in Honest
  BY <1>1, <1>2, QuorumAssumption DEF Honest
<1>4. sent[n] = {}
  BY <1>3 DEF Init
<1> QED
  BY <1>2, <1>3, <1>4 DEF Signers, Signed

\* The message chosen for the abstract state is one of the set.
LEMMA SomeInSet ==
    ASSUME NEW msgs
    PROVE  (msgs = {} => Some(msgs) = None) /\ (msgs # {} => Some(msgs) \in msgs)
BY DEF Some

\* A step in which nothing new is sent or grows old leaves the abstract state alone.
LEMMA RefinementFrame ==
    ASSUME UNCHANGED <<sent, aged>>
    PROVE  UNCHANGED Promise!vars
<1>1. \A id \in Ids : Signable(id)' = Signable(id)
  BY DEF Signable, VerifyRecoveredSig, Signers, Signed
<1>2. SignedMessage' = [id \in Ids |-> Some(IF id \in aged' THEN {} ELSE Signable(id)')]
  BY DEF SignedMessage
<1>3. SignedMessage' = SignedMessage
  BY <1>1, <1>2 DEF SignedMessage
<1> QED
  BY <1>3 DEF Promise!vars

\* An id that grows old does so in the abstract specification.
LEMMA RefinementAge ==
    ASSUME NEW id \in Ids, Age(id)
    PROVE  Promise!Age(id)
<1>1. id \notin aged /\ aged' = aged \cup {id} /\ sent' = sent
  BY DEF Age
<1>2. \A i \in Ids : Signable(i)' = Signable(i)
  BY <1>1 DEF Signable, VerifyRecoveredSig, Signers, Signed
<1>3. SignedMessage' = [i \in Ids |-> Some(IF i \in aged' THEN {} ELSE Signable(i)')]
  BY DEF SignedMessage
<1>4. SignedMessage' = [SignedMessage EXCEPT ![id] = None]
  <2>1. Some({}) = None
    BY SomeInSet
  <2>2. \A i \in Ids : SignedMessage'[i] = IF i = id THEN None ELSE SignedMessage[i]
    BY <1>1, <1>2, <1>3, <2>1 DEF SignedMessage
  <2> QED
    BY <1>3, <2>2 DEF SignedMessage
<1> QED
  BY <1>1, <1>4 DEF Promise!Age

\* A share completes at most one signature, of an id that had none or had the same
\* message.
LEMMA RefinementSign ==
    ASSUME TypeOK, OneMessagePerId', NEW n \in Honest, NEW session \in Sessions,
           sent' = [sent EXCEPT ![n] = @ \cup {session}], aged' = aged
    PROVE  \/ \E msg \in Msgs : Promise!Recover(session.id, msg)
           \/ UNCHANGED Promise!vars
<1> DEFINE id == session.id
           Now(i) == IF i \in aged THEN {} ELSE Signable(i)
           Then(i) == IF i \in aged THEN {} ELSE Signable(i)'
<1>1. id \in Ids
  BY DEF Sessions
<1>2. \A m \in Honest : sent[m] \subseteq sent'[m]
  BY DEF TypeOK
<1>3. \A i \in Ids : i # id => Signable(i)' = Signable(i)
  <2> SUFFICES ASSUME NEW i \in Ids, i # id PROVE Signable(i)' = Signable(i)
    OBVIOUS
  <2>1. ASSUME NEW q \in Quorums, NEW msg \in Msgs
        PROVE  Signers([quorum |-> q, id |-> i, msg |-> msg])' = Signers([quorum |-> q, id |-> i, msg |-> msg])
    <3>1. [quorum |-> q, id |-> i, msg |-> msg] # session
      OBVIOUS
    <3>2. \A m \in Honest : [quorum |-> q, id |-> i, msg |-> msg] \in sent'[m]
                              <=> [quorum |-> q, id |-> i, msg |-> msg] \in sent[m]
      BY <3>1 DEF TypeOK
    <3> QED
      BY <3>2 DEF Signers, Signed
  <2> QED
    BY <2>1 DEF Signable, VerifyRecoveredSig
<1>4. /\ SignedMessage = [i \in Ids |-> Some(Now(i))]
      /\ SignedMessage' = [i \in Ids |-> Some(Then(i))]
  BY DEF SignedMessage
<1>5. \A i \in Ids : i # id => Then(i) = Now(i)
  BY <1>3
<1>6. Now(id) \subseteq Then(id) /\ Then(id) \subseteq Msgs /\ \A m1, m2 \in Then(id) : m1 = m2
  <2>1. Signable(id) \subseteq Signable(id)'
    BY <1>1, <1>2, SignableGrows
  <2>2. Signable(id)' \subseteq Msgs
    BY DEF Signable
  <2>3. id \notin aged => \A m1, m2 \in Signable(id)' : m1 = m2
    BY <1>1 DEF OneMessagePerId
  <2> QED
    BY <2>1, <2>2, <2>3
<1> HIDE DEF Now, Then, id
<1>7. CASE Now(id) = Then(id)
  <2>1. SignedMessage' = SignedMessage
    BY <1>4, <1>5, <1>7
  <2> QED
    BY <2>1 DEF Promise!vars
<1>8. CASE Now(id) # Then(id)
  <2>1. Now(id) = {} /\ Then(id) # {}
    BY <1>6, <1>8
  <2>2. id \notin aged
    BY <2>1 DEF Then
  <2>3. SignedMessage[id] = None
    BY <1>1, <1>4, <2>1, SomeInSet
  <2>4. PICK msg \in Msgs : msg = Some(Then(id))
    BY <1>6, <2>1, SomeInSet
  <2>5. SignedMessage' = [SignedMessage EXCEPT ![id] = msg]
    BY <1>1, <1>4, <1>5, <2>4
  <2> QED
    BY <2>2, <2>3, <2>5 DEF Promise!Recover, id
<1> QED
  BY <1>7, <1>8

\* Every step is a step of the abstract specification or leaves its state alone.
LEMMA RefinementStep ==
    ASSUME IInv, OneMessagePerId', [Next]_vars
    PROVE  [Promise!Next]_(Promise!vars)
<1>1. CASE UNCHANGED <<sent, aged>>
  BY <1>1, RefinementFrame
<1>2. ASSUME NEW id \in Ids, Age(id) PROVE [Promise!Next]_(Promise!vars)
  BY <1>2, RefinementAge DEF Promise!Next
<1>3. ASSUME NEW n \in Honest, NEW session \in Sessions, SignPendingSigShares(n, session)
      PROVE  [Promise!Next]_(Promise!vars)
  <2>1. /\ sent' = [sent EXCEPT ![n] = @ \cup {session}] \/ sent' = sent
        /\ aged' = aged
    BY <1>3 DEF SignPendingSigShares
  <2>2. session.id \in Ids
    BY DEF Sessions
  <2>3. CASE sent' = [sent EXCEPT ![n] = @ \cup {session}]
    <3>1. \/ \E msg \in Msgs : Promise!Recover(session.id, msg)
          \/ UNCHANGED Promise!vars
      BY <2>1, <2>3, RefinementSign DEF IInv
    <3> QED
      BY <2>2, <3>1 DEF Promise!Next
  <2> QED
    BY <1>1, <2>1, <2>3
<1> QED
  BY <1>1, <1>2, <1>3, StepKinds

\* The managers of all members together implement RecoveredSigs.
THEOREM Refinement == Spec => KeepsPromise
<1>1. Init => Promise!Init
  <2> SUFFICES ASSUME Init PROVE Promise!Init
    OBVIOUS
  <2>1. aged = {}
    BY DEF Init
  <2>2. \A id \in Ids : Signable(id) = {}
    BY NothingSignable
  <2>3. Some({}) = None
    BY SomeInSet
  <2>4. SignedMessage = [id \in Ids |-> None]
    BY <2>1, <2>2, <2>3 DEF SignedMessage
  <2> QED
    BY <2>1, <2>4 DEF Promise!Init
<1>2. IInv /\ OneMessagePerId' /\ [Next]_vars => [Promise!Next]_(Promise!vars)
  BY RefinementStep
<1> QED
  BY <1>1, <1>2, Invariance, OneMessagePerIdAlways, PTL DEF Spec, KeepsPromise, Promise!Spec
==============================================================================
