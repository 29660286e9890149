----------------------------- MODULE MCIdentity -----------------------------
EXTENDS Identity, TLC

MCAccounts == {NoUser, [NoUser EXCEPT !.exists = TRUE, !.verified = TRUE, !.password = 1]}

MCSymmetry == Permutations(Requests)
=============================================================================
