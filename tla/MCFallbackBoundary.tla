------------------------- MODULE MCFallbackBoundary -------------------------
(***************************************************************************)
(* Small instances of FallbackBoundary.                                    *)
(***************************************************************************)
EXTENDS FallbackBoundary, TLC

E(chain, mode, triggers) == [chain |-> chain, mode |-> mode, triggers |-> triggers]
One(e) == [k \in {1} |-> e]

\* A chain with two candidates, which may be declared twice.
LongChain == {One(E(<<0, 1, 2>>, "automatic", {"limit", "missing"}))}

\* A chain with one candidate, one that makes the candidate the primary, and the
\* withdrawal.
ShortChains == {One(E(<<0, 1>>, "automatic", {"limit", "missing"})),
                One(E(<<1, 0>>, "manual", {"limit"})), <<>>}

\* Two entries with one candidate each, which may be declared twice.
TwoEntries == {[k \in {1, 2} |-> E(<<0, 1>>, "automatic", {"limit"})]}

\* Hosts differ only by name.
HostSymmetry == Permutations(Hosts)

=============================================================================
