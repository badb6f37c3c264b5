-------------------------- MODULE MCLiveFederation --------------------------
(* Three nodes and what their kernels may decide, with and without drift.  *)
EXTENDS LiveFederation

CONSTANTS n1, n2, n3, s1, s2

MCNodes == {n1, n2, n3}
MCRank  == (n1 :> 1) @@ (n2 :> 2) @@ (n3 :> 3)

\* Either all have the same rules, or the last node has others.
Aligned  == [n \in MCNodes |-> "d1"]
Drifted  == [Aligned EXCEPT ![n3] = "d2"]
MCStarts == { [digest |-> Aligned, entry |-> (s1 :> n1) @@ (s2 :> n2)],
              [digest |-> Drifted, entry |-> (s1 :> n3) @@ (s2 :> n1)] }

\* One kernel allows or denies, as its tables have it; one may raise.
MCVerdicts == (n1 :> {"allowed"}) @@ (n2 :> {"allowed", "denied"}) @@ (n3 :> {"allowed", "raises"})

MCMasks == {{}, {n1}, {n2, n3}}
=============================================================================
