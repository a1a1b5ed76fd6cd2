---------------------- MODULE MCGigstarkSubscriptions ----------------------
(* Small instances of GigstarkSubscriptions for TLC. *)
EXTENDS GigstarkSubscriptions, TLC

CONSTANTS alice, bob, n1, n2, n3, s1, s2

MCOneSubscription == {s1}
MCTwoSubscriptions == {s1, s2}
MCCommitments == {alice, bob}
MCTwoNullifiers == {n1, n2}
MCThreeNullifiers == {n1, n2, n3}
MCOneWindow == {<<0, 4>>}

\* Parties, nullifiers and subscription ids are interchangeable: no definition
\* names one of them.
MCSymmetry == Permutations({alice, bob}) \cup Permutations({n1, n2, n3})
              \cup Permutations({s1, s2})

=============================================================================
