-------------------------- MODULE MCAccountIndex ---------------------------
(* Model-checking instances of AccountIndex: a Ripple Custody signer, whose  *)
(* primary may be listed on two networks, and a Palisade signer.  Either may *)
(* come to claim the other's primary.                                        *)
EXTENDS AccountIndex, TLC

CONSTANTS custody, palisade, a1, a2, main, test

OnMain  == [address |-> a1, owner |-> custody, net |-> main]
OnTest  == [address |-> a1, owner |-> custody, net |-> test]
Claimed == [address |-> a2, owner |-> custody, net |-> main]
Wallet  == [address |-> a2, owner |-> palisade, net |-> NoNetwork]
Shared  == [address |-> a1, owner |-> palisade, net |-> NoNetwork]

MCRecords == {OnMain, OnTest, Claimed, Wallet, Shared}
MCPrimary == (custody :> a1 @@ palisade :> a2)
=============================================================================
