-------------------------- MODULE MCQuorumCluster ---------------------------
(* Three nodes, one of which denies or fails and one of which may raise.   *)
EXTENDS QuorumCluster

MCNodes    == <<"n1", "n2", "n3">>
MCVerdicts == ("n1" :> {"allowed"}) @@ ("n2" :> {"allowed", "denied", "raises"})
              @@ ("n3" :> {"allowed", "failed"})
=============================================================================
