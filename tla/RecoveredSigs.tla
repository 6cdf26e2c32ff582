---------------------------- MODULE RecoveredSigs ----------------------------
(***************************************************************************)
(* What the signing manager promises the parts that use it (ChainLocks,    *)
(* InstantSend): a request id gets a quorum signature on at most one       *)
(* message, for as long as the members keep their votes on that id.  After *)
(* that (-maxrecsigsage, a week) nothing is promised about the id.         *)
(***************************************************************************)
CONSTANTS Ids, Msgs, None

VARIABLES
    signed,     \* the message the quorum signature of an id is on, or None
    aged        \* ids old enough for a member to have forgotten its vote

vars == <<signed, aged>>

Init == signed = [id \in Ids |-> None] /\ aged = {}

Recover(id, msg) ==
    /\ id \notin aged
    /\ signed[id] = None
    /\ signed' = [signed EXCEPT ![id] = msg]
    /\ UNCHANGED aged

Age(id) ==
    /\ id \notin aged
    /\ aged' = aged \cup {id}
    /\ signed' = [signed EXCEPT ![id] = None]

Next == \E id \in Ids : Age(id) \/ \E msg \in Msgs : Recover(id, msg)

Spec == Init /\ [][Next]_vars
==============================================================================
