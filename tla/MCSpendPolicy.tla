--------------------------- MODULE MCSpendPolicy ---------------------------
\* A small instance of SpendPolicy: the refund and the payment of one job, the
\* top-ups of one seller.
EXTENDS SpendPolicyInv, TLC
CONSTANTS s1, s2, r, p, d
MCKindOf == (r :> "refund") @@ (p :> "payment") @@ (d :> "deposit")
MCAmountsOf == (r :> {5, 10}) @@ (p :> {5}) @@ (d :> {5})
Symmetric == Permutations(Senders)
=============================================================================
