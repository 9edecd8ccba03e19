-------------------------- MODULE MCAdministrators --------------------------
EXTENDS Administrators, TLC

CONSTANTS u1, u2, u3, r1, r2

MCUser    == {u1, u2, u3}
TwoUsers  == {u1, u2}
MCRequest == {r1, r2}

\* Everything that runs the lock, and signing in to begin it.
LifecycleOperations == LockOps \cup {"signIn"}
\* Accounts may be created with any role, but no existing account is promoted.
NoPromotion == (LockOps \ {"promote"}) \cup InsertOps \cup {"signIn"}

Symmetry == Permutations(MCUser) \cup Permutations(MCRequest)
=============================================================================
