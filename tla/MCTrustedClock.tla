--------------------------- MODULE MCTrustedClock ---------------------------
(* Instances of TrustedClock for TLC. *)
EXTENDS TrustedClock, TLC

CONSTANTS t1, t2, p1, p2

OneThread == (t1 :> p1)
TwoProcesses == (t1 :> p1) @@ (t2 :> p2)
OneProcess == (t1 :> p1) @@ (t2 :> p1)

\* A premise with one lease and an access authorization.
Plain(lease, access) == [access |-> access, leases |-> {lease}, grants |-> {}, refs |-> {}]

FarPremises == {Plain(MaxTime + 1, MaxTime + 1)}

\* Leases, access, consent seconds and references at and around the bounds,
\* and premises that leave an expiry unknown.
BoundaryPremises ==
  { [access |-> MaxTime + 1, leases |-> {Window + 1, MaxTime + 1}, grants |-> {0}, refs |-> {}],
    [access |-> Window + 1, leases |-> {MaxTime + 1}, grants |-> {}, refs |-> {}],
    [access |-> MaxTime + 1, leases |-> {MaxTime + 1}, grants |-> {0, 2}, refs |-> {}],
    [access |-> MaxTime + 1, leases |-> {MaxTime + 1}, grants |-> {}, refs |-> {Window + 2}],
    [access |-> NoAccess, leases |-> {MaxTime + 1}, grants |-> {}, refs |-> {}],
    [access |-> MaxTime + 1, leases |-> {}, grants |-> {}, refs |-> {}] }

SmallMarks == 0..3
OneMark == {0}

=============================================================================
