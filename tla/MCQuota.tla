------------------------------ MODULE MCQuota ------------------------------
(***************************************************************************)
(* Model values for checking Quota with TLC: two users of the tenant with  *)
(* a rule each.                                                            *)
(***************************************************************************)
EXTENDS Quota, TLC

CONSTANTS u1, u2, r1, r2, h1, h2
OneRuleEach == [r \in {r1, r2} |-> IF r = r1 THEN u1 ELSE u2]
OneByteEach == [a \in {u1, u2, Tenant} |-> 1]
Swap == [x \in {u1, u2, r1, r2} |-> CASE x = u1 -> u2 [] x = u2 -> u1
                                      [] x = r1 -> r2 [] x = r2 -> r1]

\* Bound: a behaviour ends when every rule is an exception to QuotasAgree.
SomeUncrossed == crossed # Rules
Interchangeable == Permutations({h1, h2}) \cup {Swap}
=============================================================================
