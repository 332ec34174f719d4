---------------------------- MODULE MCInboxQueue ----------------------------
(* Values of the constants of InboxQueue for TLC. *)
EXTENDS InboxQueue, TLC

NoOrders == {}
OneOrder == {<<3, 2>>}
ClientSymmetry == Permutations(Clients)
=============================================================================
