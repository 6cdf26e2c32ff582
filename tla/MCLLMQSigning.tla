---------------------------- MODULE MCLLMQSigning ----------------------------
(* Instances of LLMQSigning for TLC. *)
EXTENDS LLMQSigning, TLC

CONSTANTS q1, q2

\* Every masternode is a member of q1.  The member that collects shares is not in
\* q2, whose signatures reach it recovered by others.
MCMembers == [q \in Quorums |-> IF q = q1 THEN Nodes ELSE Nodes \ Collectors]
MCThreshold == [q \in Quorums |-> IF q = q1 THEN 3 ELSE 2]

MCSymmetry == Permutations(Msgs)
==============================================================================
