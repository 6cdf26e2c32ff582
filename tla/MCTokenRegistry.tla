-------------------------- MODULE MCTokenRegistry --------------------------
(* A small token economy: two issuances of one name (I1, I2), one that     *)
(* reuses an identifier (I3), a transfer with change (T1), and a           *)
(* transaction that mixes an issuance with a transfer of coins that carry  *)
(* no token (X1).                                                          *)
EXTENDS TokenRegistry

Plain(v) == [type |-> "plain", name |-> "", id |-> 0, value |-> v]
Issue(n, i, v) == [type |-> "issuance", name |-> n, id |-> i, value |-> v]
Transfer(n, i, v) == [type |-> "transfer", name |-> n, id |-> i, value |-> v]

Tx_def ==
    [F0 |-> [vin |-> {}, vout |-> <<Plain(2), Plain(2), Plain(2), Plain(2)>>],
     I1 |-> [vin |-> {<<"F0", 1>>}, vout |-> <<Issue("A", 20, 2)>>],
     I2 |-> [vin |-> {<<"F0", 2>>}, vout |-> <<Issue("A", 21, 2)>>],
     I3 |-> [vin |-> {<<"F0", 3>>}, vout |-> <<Issue("B", 20, 1)>>],
     T1 |-> [vin |-> {<<"I1", 1>>}, vout |-> <<Transfer("A", 20, 1), Transfer("A", 20, 1)>>],
     X1 |-> [vin |-> {<<"F0", 4>>}, vout |-> <<Issue("B", 22, 1), Transfer("A", 20, 1)>>]]
Base_def == {"F0"}
IdRange_def == 17 .. 100
=============================================================================
