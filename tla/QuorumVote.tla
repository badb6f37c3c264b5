----------------------------- MODULE QuorumVote -----------------------------
(***************************************************************************)
(* What a federation promises to whoever submits a request, whatever its   *)
(* transport: each node's kernel decides a request at most once, and the   *)
(* request is allowed only when enough kernels have allowed it.  Once      *)
(* published an outcome stays, though kernels may still decide after it.   *)
(***************************************************************************)
EXTENDS Naturals, FiniteSets

CONSTANTS Nodes,         \* nodes with a kernel
          Submissions,   \* requests submitted
          Statuses,      \* what a kernel may decide, "allowed" among them
          Needed         \* approvals that allow a request

VARIABLES logged,        \* each node's decisions
          outcome        \* what was published of each submission

voteVars == <<logged, outcome>>

Approvers(s) == {n \in Nodes : [sub |-> s, status |-> "allowed"] \in logged[n]}

VoteInit == /\ logged = [n \in Nodes |-> {}]
            /\ outcome = [s \in Submissions |-> "none"]

\* A kernel decides a request it has not decided before.
Handle(n, s) ==
    /\ \A d \in logged[n] : d.sub # s
    /\ \E status \in Statuses :
         logged' = [logged EXCEPT ![n] = @ \cup {[sub |-> s, status |-> status]}]
    /\ UNCHANGED outcome

\* The request is allowed, by at least Needed kernels, or refused.
Publish(s) ==
    /\ outcome[s] = "none"
    /\ \/ /\ Cardinality(Approvers(s)) >= Needed
          /\ outcome' = [outcome EXCEPT ![s] = "allowed"]
       \/ outcome' = [outcome EXCEPT ![s] = "refused"]
    /\ UNCHANGED logged

VoteNext == \E s \in Submissions : Publish(s) \/ \E n \in Nodes : Handle(n, s)

VoteSpec == VoteInit /\ [][VoteNext]_voteVars
=============================================================================
