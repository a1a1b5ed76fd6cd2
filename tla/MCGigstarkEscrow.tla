-------------------------- MODULE MCGigstarkEscrow --------------------------
(* Small instances of GigstarkEscrow for TLC; the configurations say which. *)
EXTENDS GigstarkEscrow, TLC

CONSTANTS alice, bob, n1, n2, n3, e1, e2

MCOneEscrow == {e1}
MCTwoEscrows == {e1, e2}
MCCommitments == {alice, bob}
MCTwoNullifiers == {n1, n2}
MCThreeNullifiers == {n1, n2, n3}

MCOneWindow == {<<0, 4>>}

\* Parties, nullifiers and escrow ids are interchangeable: no definition names
\* one of them.
MCSymmetry == Permutations({alice, bob}) \cup Permutations({n1, n2, n3})
              \cup Permutations({e1, e2})

=============================================================================
