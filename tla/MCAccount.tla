----------------------------- MODULE MCAccount -----------------------------
(* The record of one account, whose two nodes write it.  One has a pod of   *)
(* the account, the other an entry of a pod it could not read.              *)
EXTENDS Account, TLC

CONSTANTS n1, n2, p1, p2, x

MCAccountOf == n1 :> x @@ n2 :> x
MCPodsAt == n1 :> {p1} @@ n2 :> {p2}
MCOwner == p1 :> x @@ p2 :> NoAccount
=============================================================================
