---------------------------- MODULE MCDiscovery ----------------------------
(* Two accounts of a domain, each on a ledger of its own, and an account of  *)
(* another domain that may hold the primary address as well.                 *)
EXTENDS Discovery

MCEntries == {
  [id |-> 1, account |-> 1, domain |-> "d1", ledger |-> 1, primary |-> TRUE],
  [id |-> 2, account |-> 2, domain |-> "d1", ledger |-> 2, primary |-> FALSE],
  [id |-> 3, account |-> 3, domain |-> "d2", ledger |-> 1, primary |-> TRUE]}
=============================================================================
