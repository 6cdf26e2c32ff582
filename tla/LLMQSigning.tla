----------------------------- MODULE LLMQSigning -----------------------------
(***************************************************************************)
(* Threshold signing by the members of a long-living masternode quorum:    *)
(* CSigningManager, its database of votes and recovered signatures, and    *)
(* the share manager that feeds it (llmq/signing.cpp, signing_shares.cpp). *)
(*                                                                         *)
(* Every member votes on a request id at most once and sends a signature   *)
(* share; whoever holds a threshold of shares of one session (quorum, id,  *)
(* message) recovers the quorum's signature.  A signature is a session:    *)
(* BLS signatures are unique, so its hash is the session too.  A share is  *)
(* a session with the member that signed.  The network keeps every share   *)
(* that was sent and delivers it any number of times, in any order, or     *)
(* never.  Faulty members sign anything.  Which quorum a call selects      *)
(* depends on the caller's tip, so it is chosen freely.                    *)
(*                                                                         *)
(* Votes and recovered signatures are in the database and survive a        *)
(* restart of the process; shares, queues and the cache do not.  The       *)
(* worker thread is the only one to write recovered signatures; the        *)
(* message thread looks ids up through the cache, and reads the database   *)
(* and fills the cache in two steps.                                       *)
(***************************************************************************)
EXTENDS Integers, FiniteSets

CONSTANTS
    Nodes, Faulty,          \* the masternodes, and those that follow no rule
    Quorums, Members,       \* active quorums and the valid members of each
    Threshold,              \* shares needed to recover a quorum's signature
    Collectors,             \* members the shares of others reach; the code excludes none
    Ids, Msgs, None,
    MaxLosses               \* bound on what is lost, dropped or deleted

Enough(S, q) == S \subseteq Members[q] /\ Cardinality(S) >= Threshold[q]

ASSUME QuorumAssumption ==
    /\ IsFiniteSet(Nodes) /\ Faulty \subseteq Nodes
    /\ Members \in [Quorums -> SUBSET Nodes]
    /\ Threshold \in [Quorums -> Nat]
    /\ None \notin Msgs
    /\ MaxLosses \in Nat

\* What "a majority is only possible on one quorum and one msgHash per id" rests
\* on: two sets of signers, of one quorum or of two, share a member that follows
\* the rules.
ASSUME OverlapAssumption ==
    \A p, q \in Quorums : \A S \in SUBSET Members[p], T \in SUBSET Members[q] :
        Enough(S, p) /\ Enough(T, q) => (S \cap T) \ Faulty # {}

Honest == Nodes \ Faulty
Sessions == [quorum : Quorums, id : Ids, msg : Msgs]
Shares == [node : Nodes, session : Sessions]
Share(n, session) == [node |-> n, session |-> session]

VARIABLES
    votes,          \* rs_v: the message a node has voted for, by id
    recSigs,        \* rs_r: the recovered signature of an id
    hashes,         \* rs_h: signatures known by hash
    idCache,        \* hasSigForIdCache: "unknown", "yes" or "no"
    lookup,         \* the message thread's answer on its way to the cache
    pendingSigns,   \* votes whose share is not made yet
    sigShares,      \* the valid shares a node holds
    sent,           \* sessions a node has sent its share of
    aged,           \* ids whose votes are older than -maxrecsigsage
    losses          \* steps that lose something so far, bounds the instance

vars == <<votes, recSigs, hashes, idCache, lookup, pendingSigns, sigShares, sent, aged, losses>>

\* Every variable has its type: a node stores votes for messages, signatures of
\* sessions under their id, and shares of members, and loses no more than allowed.
TypeOK ==
    /\ votes \in [Honest -> [Ids -> Msgs \cup {None}]]
    /\ recSigs \in [Honest -> [Ids -> Sessions \cup {None}]]
    /\ hashes \in [Honest -> SUBSET Sessions]
    /\ idCache \in [Honest -> [Ids -> {"unknown", "yes", "no"}]]
    /\ lookup \in [Honest -> [id : Ids, answer : {"yes", "no"}] \cup {None}]
    /\ pendingSigns \in [Honest -> SUBSET Sessions]
    /\ sigShares \in [Honest -> SUBSET Shares]
    /\ sent \in [Honest -> SUBSET Sessions]
    /\ aged \subseteq Ids
    /\ losses \in 0 .. MaxLosses

Init ==
    /\ votes = [n \in Honest |-> [id \in Ids |-> None]]
    /\ recSigs = [n \in Honest |-> [id \in Ids |-> None]]
    /\ hashes = [n \in Honest |-> {}]
    /\ idCache = [n \in Honest |-> [id \in Ids |-> "unknown"]]
    /\ lookup = [n \in Honest |-> None]
    /\ pendingSigns = [n \in Honest |-> {}]
    /\ sigShares = [n \in Honest |-> {}]
    /\ sent = [n \in Honest |-> {}]
    /\ aged = {} /\ losses = 0

------------------------------------------------------------------------------
(* Signatures.  BLS is external: a share verifies when its member made it,  *)
(* a signature verifies when enough members made their share of it.         *)

Signed(n, session) == n \in Honest => session \in sent[n]

Signers(session) == {n \in Members[session.quorum] : Signed(n, session)}

VerifyRecoveredSig(session) == Enough(Signers(session), session.quorum)

\* Bounds the steps in which something is lost, dropped, deleted or grows
\* old, and the lookups another step may interrupt.
Lose == losses < MaxLosses /\ losses' = losses + 1

------------------------------------------------------------------------------
(* The database and its cache *)

\* The answer of a node's cache, or of its database when the id is not cached.
HasRecoveredSigForId(n, id) ==
    IF idCache[n][id] = "unknown" THEN recSigs[n][id] # None ELSE idCache[n][id] = "yes"

\* The cache after a lookup that was not interrupted.
Cached(n, id) ==
    [idCache EXCEPT ![n][id] = IF HasRecoveredSigForId(n, id) THEN "yes" ELSE "no"]

\* Variant: the message is stored in the place of the signature.
WriteMessageOnly(n, sig) ==
    /\ recSigs' = [recSigs EXCEPT ![n][sig.id] = sig.msg]
    /\ hashes' = [hashes EXCEPT ![n] = @ \cup {sig}]
    /\ idCache' = [idCache EXCEPT ![n][sig.id] = "yes"]

WriteRecoveredSig(n, sig) ==
    /\ recSigs' = [recSigs EXCEPT ![n][sig.id] = sig]
    /\ hashes' = [hashes EXCEPT ![n] = @ \cup {sig}]
    /\ idCache' = [idCache EXCEPT ![n][sig.id] = "yes"]

RemoveSigSharesForSession(shares, session) == {s \in shares : s.session # session}

\* The message thread looks up the id of an arriving share: the database is read without the
\* lock, and the answer goes into the cache whatever happened in between.
LookupRead(n, id) ==
    /\ Lose
    /\ n \in Collectors
    /\ lookup[n] = None
    /\ idCache[n][id] = "unknown"
    /\ lookup' = [lookup EXCEPT ![n] =
                    [id |-> id, answer |-> IF recSigs[n][id] # None THEN "yes" ELSE "no"]]
    /\ UNCHANGED <<votes, recSigs, hashes, idCache, pendingSigns, sigShares, sent, aged>>

LookupInsert(n) ==
    /\ lookup[n] # None
    /\ idCache' = [idCache EXCEPT ![n][lookup[n].id] = lookup[n].answer]
    /\ lookup' = [lookup EXCEPT ![n] = None]
    /\ UNCHANGED <<votes, recSigs, hashes, pendingSigns, sigShares, sent, aged, losses>>

------------------------------------------------------------------------------
(* Voting and signing *)

\* Variant: an earlier vote is not looked at.
SignAnyMessage(n, session) ==
    LET id == session.id
    IN  /\ n \in Members[session.quorum]
        /\ idCache' = Cached(n, id)
        /\ IF HasRecoveredSigForId(n, id)
           THEN UNCHANGED <<votes, pendingSigns>>
           ELSE /\ votes' = [votes EXCEPT ![n][id] = session.msg]
                /\ pendingSigns' = [pendingSigns EXCEPT ![n] = @ \cup {session}]
        /\ UNCHANGED <<recSigs, hashes, lookup, sigShares, sent, aged, losses>>

\* A conflicting vote is refused whatever the quorum; the vote is in the database
\* before the share is asked for.  A vote for the same message signs again when the
\* caller allows it, as InstantSend does, and is refused otherwise.  The announcement of known shares again
\* (ForceReAnnouncement) only resends what is in sent.
AsyncSignIfMember(n, session) ==
    LET id == session.id
    IN  /\ n \in Members[session.quorum]
        /\ votes[n][id] \in {None, session.msg}
        /\ idCache' = Cached(n, id)
        /\ IF HasRecoveredSigForId(n, id)
           THEN UNCHANGED <<votes, pendingSigns>>
           ELSE /\ votes' = [votes EXCEPT ![n][id] = session.msg]
                /\ pendingSigns' = [pendingSigns EXCEPT ![n] = @ \cup {session}]
        /\ UNCHANGED <<recSigs, hashes, lookup, sigShares, sent, aged, losses>>

\* A verified share, own or received: kept, and with the one that completes the
\* threshold the signature is recovered, stored, and the session's shares dropped
\* by the listener.  A signature whose hash is known is not stored again.
ProcessSigShare(n, share) ==
    LET session == share.session
        held == sigShares[n] \cup {share}
        signers == {s.node : s \in {h \in held : h.session = session}}
    IN  \/ /\ HasRecoveredSigForId(n, session.id) \/ share \in sigShares[n]
           /\ idCache' = Cached(n, session.id)
           /\ UNCHANGED <<recSigs, hashes, sigShares>>
        \/ /\ ~HasRecoveredSigForId(n, session.id) /\ share \notin sigShares[n]
           /\ IF Enough(signers, session.quorum) /\ session \notin hashes[n]
              THEN /\ WriteRecoveredSig(n, session)
                   /\ sigShares' = [sigShares EXCEPT ![n] = RemoveSigSharesForSession(held, session)]
              ELSE /\ idCache' = Cached(n, session.id)
                   /\ sigShares' = [sigShares EXCEPT ![n] = held]
                   /\ UNCHANGED <<recSigs, hashes>>

\* The worker takes up a pending vote.  The share reaches other members even when
\* the signature turns out to be known.  Without its secret key share a member
\* makes no share, and the vote stays.
SignPendingSigShares(n, session) ==
    /\ session \in pendingSigns[n]
    /\ pendingSigns' = [pendingSigns EXCEPT ![n] = @ \ {session}]
    /\ \/ /\ ProcessSigShare(n, Share(n, session))
          /\ sent' = [sent EXCEPT ![n] = @ \cup {session}]
       \/ UNCHANGED <<recSigs, hashes, idCache, sigShares, sent>>
    /\ UNCHANGED <<votes, lookup, aged, losses>>

\* Variant: shares are not verified.
ProcessUnverifiedShares(n, share) ==
    /\ n \in Collectors
    /\ {n, share.node} \subseteq Members[share.session.quorum]
    /\ share \notin sigShares[n]
    /\ ProcessSigShare(n, share)
    /\ UNCHANGED <<votes, lookup, pendingSigns, sent, aged, losses>>

\* The worker takes up a received share that verifies.
ProcessPendingSigShares(n, share) ==
    /\ n \in Collectors
    /\ {n, share.node} \subseteq Members[share.session.quorum]
    /\ Signed(share.node, share.session) /\ share \notin sigShares[n]
    /\ ProcessSigShare(n, share)
    /\ UNCHANGED <<votes, lookup, pendingSigns, sent, aged, losses>>

\* Variant: recovered signatures of peers are not verified.
ProcessUnverifiedSigs(n, sig) ==
    /\ sig \notin hashes[n]
    /\ IF HasRecoveredSigForId(n, sig.id) /\ recSigs[n][sig.id] # None
       THEN idCache' = Cached(n, sig.id) /\ UNCHANGED <<recSigs, hashes, sigShares>>
       ELSE /\ WriteRecoveredSig(n, sig)
            /\ sigShares' = [sigShares EXCEPT ![n] = RemoveSigSharesForSession(@, sig)]
    /\ UNCHANGED <<votes, lookup, pendingSigns, sent, aged, losses>>

\* The worker takes up a recovered signature: from a peer, and verified, or
\* rebuilt by InstantSend from a lock it has verified.
ProcessPendingRecoveredSigs(n, sig) ==
    /\ VerifyRecoveredSig(sig)
    /\ sig \notin hashes[n]
    /\ IF HasRecoveredSigForId(n, sig.id) /\ recSigs[n][sig.id] # None
       THEN idCache' = Cached(n, sig.id) /\ UNCHANGED <<recSigs, hashes, sigShares>>
       ELSE /\ WriteRecoveredSig(n, sig)
            /\ sigShares' = [sigShares EXCEPT ![n] = RemoveSigSharesForSession(@, sig)]
    /\ UNCHANGED <<votes, lookup, pendingSigns, sent, aged, losses>>

------------------------------------------------------------------------------
(* Forgetting *)

\* No new share for SESSION_NEW_SHARES_TIMEOUT, or the quorum is not active any more.
SessionTimeout(n, session) ==
    /\ Lose
    /\ \E s \in sigShares[n] : s.session = session
    /\ sigShares' = [sigShares EXCEPT ![n] = RemoveSigSharesForSession(@, session)]
    /\ UNCHANGED <<votes, recSigs, hashes, idCache, lookup, pendingSigns, sent, aged>>

\* Variant: truncation removes the vote too.
TruncateVote(n, id) ==
    /\ Lose
    /\ recSigs[n][id] # None
    /\ recSigs' = [recSigs EXCEPT ![n][id] = None]
    /\ idCache' = [idCache EXCEPT ![n][id] = "unknown"]
    /\ votes' = [votes EXCEPT ![n][id] = None]
    /\ UNCHANGED <<hashes, lookup, pendingSigns, sigShares, sent, aged>>

\* InstantSend: the signature of an id it does not need any more.  The hash stays.
TruncateRecoveredSig(n, id) ==
    /\ Lose
    /\ recSigs[n][id] # None
    /\ recSigs' = [recSigs EXCEPT ![n][id] = None]
    /\ idCache' = [idCache EXCEPT ![n][id] = "unknown"]
    /\ UNCHANGED <<votes, hashes, lookup, pendingSigns, sigShares, sent, aged>>

\* -maxrecsigsage passes for the first vote on an id.
Age(id) ==
    /\ Lose
    /\ id \notin aged
    /\ aged' = aged \cup {id}
    /\ UNCHANGED <<votes, recSigs, hashes, idCache, lookup, pendingSigns, sigShares, sent>>

\* Variant: cleanup does not look at the age.
CleanupYoung(n, id) ==
    /\ Lose
    /\ \/ /\ recSigs[n][id] # None
          /\ recSigs' = [recSigs EXCEPT ![n][id] = None]
          /\ hashes' = [hashes EXCEPT ![n] = @ \ {recSigs[n][id]}]
          /\ idCache' = [idCache EXCEPT ![n][id] = "unknown"]
       \/ UNCHANGED <<recSigs, hashes, idCache>>
    /\ votes' = [votes EXCEPT ![n][id] = None] \/ UNCHANGED votes
    /\ UNCHANGED <<lookup, pendingSigns, sigShares, sent, aged>>

\* Votes and recovered signatures are deleted each by its own age.  The hash goes
\* with the signature it belongs to, so the hash of a truncated one stays.
Cleanup(n, id) ==
    /\ Lose
    /\ id \in aged
    /\ \/ /\ recSigs[n][id] # None
          /\ recSigs' = [recSigs EXCEPT ![n][id] = None]
          /\ hashes' = [hashes EXCEPT ![n] = @ \ {recSigs[n][id]}]
          /\ idCache' = [idCache EXCEPT ![n][id] = "unknown"]
       \/ UNCHANGED <<recSigs, hashes, idCache>>
    /\ votes' = [votes EXCEPT ![n][id] = None] \/ UNCHANGED votes
    /\ UNCHANGED <<lookup, pendingSigns, sigShares, sent, aged>>

\* Variant: votes are kept in memory only.
RestartWithoutVotes(n) ==
    /\ Lose
    /\ idCache' = [idCache EXCEPT ![n] = [id \in Ids |-> "unknown"]]
    /\ lookup' = [lookup EXCEPT ![n] = None]
    /\ pendingSigns' = [pendingSigns EXCEPT ![n] = {}]
    /\ sigShares' = [sigShares EXCEPT ![n] = {}]
    /\ votes' = [votes EXCEPT ![n] = [id \in Ids |-> None]]
    /\ UNCHANGED <<recSigs, hashes, sent, aged>>

\* The process stops and starts again with what is in its database.
Restart(n) ==
    /\ Lose
    /\ idCache' = [idCache EXCEPT ![n] = [id \in Ids |-> "unknown"]]
    /\ lookup' = [lookup EXCEPT ![n] = None]
    /\ pendingSigns' = [pendingSigns EXCEPT ![n] = {}]
    /\ sigShares' = [sigShares EXCEPT ![n] = {}]
    /\ UNCHANGED <<votes, recSigs, hashes, sent, aged>>

Next ==
    \/ \E id \in Ids : Age(id)
    \/ \E n \in Honest :
        \/ LookupInsert(n) \/ Restart(n)
        \/ \E id \in Ids : LookupRead(n, id) \/ TruncateRecoveredSig(n, id) \/ Cleanup(n, id)
        \/ \E session \in Sessions :
            \/ AsyncSignIfMember(n, session)
            \/ SignPendingSigShares(n, session)
            \/ ProcessPendingRecoveredSigs(n, session)
            \/ SessionTimeout(n, session)
        \/ \E share \in Shares : ProcessPendingSigShares(n, share)

Spec == Init /\ [][Next]_vars

------------------------------------------------------------------------------
(* Properties *)

\* The messages a quorum signature of an id could be put together for.
Signable(id) ==
    {msg \in Msgs : \E q \in Quorums : VerifyRecoveredSig([quorum |-> q, id |-> id, msg |-> msg])}

\* A share on its way or already sent is for the message its maker's database has
\* a vote for, until the vote may be forgotten: AsyncSignIfMember writes the vote
\* before it asks for the share, no restart and no truncation removes it, and a
\* later call with another message or another quorum cannot change it.
SharesFollowVotes ==
    \A n \in Honest : \A session \in pendingSigns[n] \cup sent[n] :
        session.id \notin aged => votes[n][session.id] = session.msg

\* "It shouldn't be possible to get conflicting recovered signatures" (the comment
\* in AsyncSignIfMember), although members may select different quorums, sign
\* again, restart, and faulty members sign every message in every quorum: while
\* the votes are kept, all signatures that could be put together for an id are on
\* one message.
OneMessagePerId == \A id \in Ids \ aged : \A m1, m2 \in Signable(id) : m1 = m2

\* Everything a node holds would verify: what TryRecoverSig puts together without
\* verifying it, what a peer sent, and the shares themselves.
HoldsOnlyValid ==
    \A n \in Honest :
        /\ \A share \in sigShares[n] : share.node \in Signers(share.session)
        /\ \A sig \in hashes[n] : VerifyRecoveredSig(sig)
        /\ \A id \in Ids : recSigs[n][id] # None =>
            recSigs[n][id].id = id /\ VerifyRecoveredSig(recSigs[n][id])

\* Two nodes that hold a recovered signature of one id hold it on one message, and
\* a hash a node kept after truncation is of a signature on that message too.
NodesAgree ==
    \A m, n \in Honest : \A id \in Ids \ aged :
        /\ recSigs[m][id] # None /\ recSigs[n][id] # None => recSigs[m][id].msg = recSigs[n][id].msg
        /\ \A sig \in hashes[n] : recSigs[m][id] # None /\ sig.id = id => sig.msg = recSigs[m][id].msg

\* The message stored for an id is never replaced by another one while the votes
\* are kept, even when a stale answer in the cache lets ProcessRecoveredSig
\* overwrite a signature it did not see.
StoredMessageKept ==
    [][\A n \in Honest : \A id \in Ids \ aged' :
        recSigs[n][id] # None /\ recSigs'[n][id] # None =>
            recSigs'[n][id].msg = recSigs[n][id].msg]_vars

\* The message of an id's quorum signature, as the users of the manager see it.
Some(msgs) == IF msgs = {} THEN None ELSE CHOOSE msg \in msgs : TRUE
SignedMessage == [id \in Ids |-> Some(IF id \in aged THEN {} ELSE Signable(id))]

Promise == INSTANCE RecoveredSigs WITH signed <- SignedMessage

\* The managers of all members together keep the promise of RecoveredSigs: a
\* message appears once per id, stays, and no step of any node changes it.
KeepsPromise == Promise!Spec
==============================================================================
