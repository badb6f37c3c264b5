--------------------------- MODULE LiveFederation ---------------------------
(***************************************************************************)
(* LiveCluster: nodes that run their own kernel and ask each other for     *)
(* votes over HTTP.  FederationNode.submit runs the entry's kernel, asks   *)
(* its peers one after the other and tallies; each peer's server runs its  *)
(* kernel on a thread of its own, so an ask that the client gave up on may *)
(* still be handled.  set_partition replaces the node objects one by one,  *)
(* while a submission goes on with the object it started from.             *)
(*                                                                         *)
(* A kernel's handling of a request is one step here (module KernelServer  *)
(* has its inside): it gives one of the verdicts its tables allow, or      *)
(* raises.  A policy digest is a value that two nodes share exactly when   *)
(* their rules are the same.  start_heartbeats assigns to a field of a     *)
(* frozen dataclass and raises before its thread starts, so a heartbeat    *)
(* comes only from a caller of FederationClient.post_heartbeat.            *)
(***************************************************************************)
EXTENDS Naturals, FiniteSets, Sequences, SequencesExt

CONSTANTS Nodes,          \* node ids
          Rank,           \* the slot of each node, which orders every loop
          Verdicts,       \* what the kernel of each node may make of a request
          Submissions,    \* requests submitted to the cluster
          Starts,         \* the nodes' policy digests and the entries of the
                          \* submissions, as they may be at the start
          Masks,          \* arguments of set_partition
          MaxEvents       \* bound: calls of set_partition, peers that fall
                          \* silent, heartbeats and asks that fail, together

ASSUME FederationAssumption ==
    /\ IsFiniteSet(Nodes)
    /\ Rank \in [Nodes -> Nat]
    /\ \A n, m \in Nodes : Rank[n] = Rank[m] => n = m
    /\ Masks \subseteq SUBSET Nodes
    /\ \A start \in Starts : /\ start.digest \in [Nodes -> STRING]
                               /\ start.entry \in [Submissions -> Nodes]
    /\ MaxEvents \in Nat
    /\ Verdicts \in [Nodes -> SUBSET {"allowed", "denied", "failed", "raises"}]

VARIABLES digest,     \* the policy digest of each node, which nothing changes
          objects,    \* the FederationNode objects of each slot, current last
          swap,       \* the set_partition that is under way
          stage,      \* how far each submission is
          held,       \* its entry, and which of the entry's objects it uses
          todo,       \* the peers its loop has still to visit
          votes,      \* node_decisions, with the node of each
          refused,    \* drift_refusals
          approvals, denials,
          result,
          asks,       \* the ask of a submission to a peer
          ran,        \* the decisions in each kernel's audit log
          digestsSeen,\* peer_digests of each server: the senders recorded
          events      \* how much of MaxEvents is used up

tally   == <<votes, refused, approvals, denials>>
cluster == <<digest, objects, swap>>
vars    == <<digest, objects, swap, stage, held, todo, votes, refused, approvals,
             denials, result, asks, ran, digestsSeen, events>>

Statuses == {"allowed", "denied", "failed"}
Vote     == [node : Nodes, status : Statuses]
Object   == [mask : SUBSET Nodes, seen : SUBSET Nodes, drift : SUBSET Nodes]
Stages   == {"new", "local", "peers", "waiting", "done"}
Results  == {"none", "allowed", "denied", "unreachable", "aborted"}
AskState == Statuses \cup {"none", "sent", "refused", "error"}

\* len(peers) + 1 is the number of nodes, whoever is visible.
ConfiguredQuorum == Cardinality(Nodes) \div 2 + 1

Current(n)   == Len(objects[n])
Held(s)      == objects[held[s].entry][held[s].gen]
Entry(s)     == held[s].entry
IsNext(s, p) == p \in todo[s] /\ \A q \in todo[s] : Rank[p] <= Rank[q]

\* Mistake: only the peer's heartbeat is looked at.
AskableIfSeen(s, p) == p \in Held(s).seen

\* The loop asks a peer that is outside the mask and was heard of lately.
Askable(s, p) == p \notin Held(s).mask /\ p \in Held(s).seen

Approving(s) == {v \in votes[s] : v.status = "allowed"}

\* 1 + len(node_decisions[1:]): the first entry counts as the node itself.
Visible(s) == IF votes[s] = {} THEN 1 ELSE Cardinality(votes[s])

-----------------------------------------------------------------------------
NoAsk == [p \in Nodes |-> "none"]

Init == /\ \E start \in Starts :
             /\ digest = start.digest
             /\ held = [s \in Submissions |-> [entry |-> start.entry[s], gen |-> 1]]
        /\ objects = [n \in Nodes |->
                        <<[mask |-> {}, seen |-> Nodes \ {n}, drift |-> {}]>>]
        /\ swap = [mask |-> {}, left |-> {}]
        /\ stage = [s \in Submissions |-> "new"]
        /\ todo      = [s \in Submissions |-> {}]
        /\ votes     = [s \in Submissions |-> {}]
        /\ refused   = [s \in Submissions |-> {}]
        /\ approvals = [s \in Submissions |-> 0]
        /\ denials   = [s \in Submissions |-> 0]
        /\ result    = [s \in Submissions |-> "none"]
        /\ asks      = [s \in Submissions |-> NoAsk]
        /\ ran         = [n \in Nodes |-> {}]
        /\ digestsSeen = [n \in Nodes |-> {}]
        /\ events = 0

\* Something outside the submissions happens.
Happens == events < MaxEvents /\ events' = events + 1

Goto(s, where) == stage' = [stage EXCEPT ![s] = where]

Finish(s, outcome) ==
    /\ Goto(s, "done")
    /\ result' = [result EXCEPT ![s] = outcome]

\* LiveCluster.submit reads the entry's current object and calls its submit.
Begin(s) ==
    /\ stage[s] = "new"
    /\ held' = [held EXCEPT ![s].gen = Current(Entry(s))]
    /\ Goto(s, "local")
    /\ UNCHANGED <<cluster, todo, tally, result, asks, ran, digestsSeen, events>>

\* One vote is counted.
Count(s, n, status) ==
    /\ votes' = [votes EXCEPT ![s] = @ \cup {[node |-> n, status |-> status]}]
    /\ IF status = "allowed"
         THEN /\ approvals' = [approvals EXCEPT ![s] = @ + 1]
              /\ UNCHANGED denials
         ELSE /\ denials' = [denials EXCEPT ![s] = @ + 1]
              /\ UNCHANGED approvals
    /\ UNCHANGED refused

\* The entry's kernel handles the request; its decision is a vote unless the
\* entry is in its own partition mask.
DecideLocally(s) ==
    /\ stage[s] = "local"
    /\ \E status \in Verdicts[Entry(s)] \ {"raises"} :
         /\ ran' = [ran EXCEPT ![Entry(s)] = @ \cup {[sub |-> s, status |-> status]}]
         /\ IF Entry(s) \in Held(s).mask
              THEN UNCHANGED tally
              ELSE Count(s, Entry(s), status)
    /\ todo' = [todo EXCEPT ![s] = Nodes \ {Entry(s)}]
    /\ Goto(s, "peers")
    /\ UNCHANGED <<cluster, held, result, asks, digestsSeen, events>>

\* The entry's kernel raises, and so does submit.
LocalRaises(s) ==
    /\ stage[s] = "local"
    /\ "raises" \in Verdicts[Entry(s)]
    /\ Finish(s, "aborted")
    /\ UNCHANGED <<cluster, held, todo, tally, asks, ran, digestsSeen, events>>

\* The loop passes over a peer in the mask or not heard of for too long.
SkipPeer(s) ==
    /\ stage[s] = "peers"
    /\ \E p \in todo[s] :
         /\ IsNext(s, p)
         /\ ~Askable(s, p)
         /\ todo' = [todo EXCEPT ![s] = @ \ {p}]
    /\ UNCHANGED <<cluster, stage, held, tally, result, asks, ran, digestsSeen, events>>

\* Otherwise it posts an ask and waits.
AskPeer(s) ==
    /\ stage[s] = "peers"
    /\ \E p \in todo[s] :
         /\ IsNext(s, p)
         /\ Askable(s, p)
         /\ asks' = [asks EXCEPT ![s][p] = "sent"]
    /\ Goto(s, "waiting")
    /\ UNCHANGED <<cluster, held, todo, tally, result, ran, digestsSeen, events>>

\* Mistake: the 409 goes out before the sender's digest is recorded.
PeerRefusesFirst(s, p) ==
    /\ asks[s][p] = "sent"
    /\ digest[Entry(s)] # digest[p]
    /\ asks' = [asks EXCEPT ![s][p] = "refused"]
    /\ UNCHANGED <<cluster, stage, held, todo, tally, result, ran, digestsSeen, events>>

\* The peer's server answers 409 when the ask's digest is not its own; its
\* kernel does not run.
PeerRefuses(s, p) ==
    /\ asks[s][p] = "sent"
    /\ digest[Entry(s)] # digest[p]
    /\ digestsSeen' = [digestsSeen EXCEPT ![p] = @ \cup {Entry(s)}]
    /\ asks' = [asks EXCEPT ![s][p] = "refused"]
    /\ UNCHANGED <<cluster, stage, held, todo, tally, result, ran, events>>

\* Mistake: the digest of the ask is not compared.
PeerHandlesAny(s, p) ==
    /\ asks[s][p] = "sent"
    /\ digestsSeen' = [digestsSeen EXCEPT ![p] = @ \cup {Entry(s)}]
    /\ \E status \in Verdicts[p] \ {"raises"} :
         /\ asks' = [asks EXCEPT ![s][p] = status]
         /\ ran' = [ran EXCEPT ![p] = @ \cup {[sub |-> s, status |-> status]}]
    /\ UNCHANGED <<cluster, stage, held, todo, tally, result, events>>

\* Otherwise its kernel handles the request, whether or not the client still
\* waits, and the answer is its vote, or 500 when the kernel raises.
PeerHandles(s, p) ==
    /\ asks[s][p] = "sent"
    /\ digest[Entry(s)] = digest[p]
    /\ digestsSeen' = [digestsSeen EXCEPT ![p] = @ \cup {Entry(s)}]
    /\ \E verdict \in Verdicts[p] :
         IF verdict = "raises"
           THEN /\ asks' = [asks EXCEPT ![s][p] = "error"]
                /\ UNCHANGED ran
           ELSE /\ asks' = [asks EXCEPT ![s][p] = verdict]
                /\ ran' = [ran EXCEPT ![p] = @ \cup {[sub |-> s, status |-> verdict]}]
    /\ UNCHANGED <<cluster, stage, held, todo, tally, result, events>>

\* The loop leaves the peer it waited for.
LeavePeer(s, p) ==
    /\ stage[s] = "waiting"
    /\ IsNext(s, p)
    /\ todo' = [todo EXCEPT ![s] = @ \ {p}]

\* A vote comes back and is counted.
TakeVote(s) ==
    /\ \E p \in todo[s] :
         /\ LeavePeer(s, p)
         /\ asks[s][p] \in Statuses
         /\ Count(s, p, asks[s][p])
    /\ Goto(s, "peers")
    /\ UNCHANGED <<cluster, held, result, asks, ran, digestsSeen, events>>

\* set_partition copies the drift map of the slot it is at without the lock: a
\* key that comes or goes meanwhile raises in the copy, and set_partition ends
\* there, with the old mask in the slots that are left.
Interrupts(n, g) ==
    /\ n \in swap.left /\ \A m \in swap.left : Rank[n] <= Rank[m]
    /\ g = Current(n)
    /\ swap' = [swap EXCEPT !.left = {}]

\* A 409 comes back: the drift is recorded in the object the submission holds
\* and counted as a denial.
TakeRefusal(s) ==
    /\ \E p \in todo[s] :
         /\ LeavePeer(s, p)
         /\ asks[s][p] = "refused"
         /\ refused' = [refused EXCEPT ![s] = @ \cup {p}]
         /\ objects' = [objects EXCEPT ![Entry(s)][held[s].gen].drift = @ \cup {p}]
         /\ \/ UNCHANGED swap
            \/ p \notin Held(s).drift /\ Interrupts(Entry(s), held[s].gen)
    /\ denials' = [denials EXCEPT ![s] = @ + 1]
    /\ Goto(s, "peers")
    /\ UNCHANGED <<digest, held, votes, approvals, result, asks, ran, digestsSeen, events>>

\* A 500 comes back: the loop goes on without counting anything.
TakeError(s) ==
    /\ \E p \in todo[s] :
         /\ LeavePeer(s, p)
         /\ asks[s][p] = "error"
    /\ Goto(s, "peers")
    /\ UNCHANGED <<cluster, held, tally, result, asks, ran, digestsSeen, events>>

\* Mistake: after a timeout the peer is asked again.
CallFailsRetried(s) ==
    /\ Happens
    /\ stage[s] = "waiting"
    /\ \E p \in todo[s] : IsNext(s, p) /\ asks' = [asks EXCEPT ![s][p] = "sent"]
    /\ UNCHANGED <<cluster, stage, held, todo, tally, result, ran, digestsSeen>>

\* Mistake: after a broken connection the loop still waits for an answer.
CallFailsStuck(s) ==
    /\ Happens
    /\ stage[s] = "waiting"
    /\ \E p \in todo[s] : IsNext(s, p) /\ asks' = [asks EXCEPT ![s][p] = "none"]
    /\ UNCHANGED <<cluster, stage, held, todo, tally, result, ran, digestsSeen>>

\* The call times out or the connection breaks, at any point of the peer's
\* handling: again nothing is counted.
CallFails(s) ==
    /\ Happens
    /\ \E p \in todo[s] : LeavePeer(s, p)
    /\ Goto(s, "peers")
    /\ UNCHANGED <<cluster, held, tally, result, asks, ran, digestsSeen>>

\* The answer, a vote or an error, is cut short or is not what it should be:
\* what reading it raises is no FederationError, and submit ends with it.
CallBreaks(s) ==
    /\ Happens
    /\ \E p \in todo[s] : LeavePeer(s, p) /\ asks[s][p] \notin {"none", "sent"}
    /\ Finish(s, "aborted")
    /\ UNCHANGED <<cluster, held, tally, asks, ran, digestsSeen>>

\* Mistake: a majority of the votes cast allows.
TallyOfCast(s) ==
    /\ stage[s] = "peers"
    /\ todo[s] = {}
    /\ Finish(s, IF approvals[s] > denials[s] THEN "allowed" ELSE "denied")
    /\ UNCHANGED <<cluster, held, todo, tally, asks, ran, digestsSeen, events>>

\* After the loop: too few visible, enough approvals, or neither.
Tally(s) ==
    /\ stage[s] = "peers"
    /\ todo[s] = {}
    /\ Finish(s, IF Visible(s) < ConfiguredQuorum         THEN "unreachable"
                 ELSE IF approvals[s] >= ConfiguredQuorum THEN "allowed"
                 ELSE "denied")
    /\ UNCHANGED <<cluster, held, todo, tally, asks, ran, digestsSeen, events>>

-----------------------------------------------------------------------------
\* LiveCluster.set_partition is called: it will replace every slot's object.
SetPartition ==
    /\ Happens
    /\ swap.left = {}
    /\ \E mask \in Masks : swap' = [mask |-> mask, left |-> Nodes]
    /\ UNCHANGED <<digest, objects, stage, held, todo, tally, result, asks, ran, digestsSeen>>

\* Its loop replaces one: with_partition copies what was seen and the drift.
SwapSlot ==
    /\ \E n \in swap.left :
         /\ \A m \in swap.left : Rank[n] <= Rank[m]
         /\ objects' = [objects EXCEPT ![n] = Append(@, [Last(@) EXCEPT !.mask = swap.mask])]
         /\ swap' = [swap EXCEPT !.left = @ \ {n}]
    /\ UNCHANGED <<digest, stage, held, todo, tally, result, asks, ran, digestsSeen, events>>

\* An operator calls clear_drift on a slot's current object.
ClearDrift(n, p) ==
    /\ p \in Last(objects[n]).drift
    /\ objects' = [objects EXCEPT ![n][Current(n)].drift = @ \ {p}]
    /\ UNCHANGED swap \/ Interrupts(n, Current(n))
    /\ UNCHANGED <<digest, stage, held, todo, tally, result, asks, ran, digestsSeen, events>>

\* heartbeat_timeout_seconds pass since object g of node n heard of p.  The
\* times in an older object are no later than those copied from it.
Expire(n, p) ==
    /\ Happens
    /\ \E g \in 1..Current(n) :
         /\ p \in objects[n][g].seen
         /\ \A h \in 1..(g - 1) : p \notin objects[n][h].seen
         /\ objects' = [objects EXCEPT ![n][g].seen = @ \ {p}]
    /\ UNCHANGED <<digest, swap, stage, held, todo, tally, result, asks, ran, digestsSeen>>

\* Someone posts p's heartbeat to a server: the handler, which is the same for
\* every server, refreshes p in the current object of every other node.
Heartbeat(p) ==
    /\ Happens
    /\ objects' = [n \in Nodes |->
                     IF n = p THEN objects[n]
                     ELSE [objects[n] EXCEPT ![Current(n)].seen = @ \cup {p}]]
    /\ UNCHANGED <<digest, swap, stage, held, todo, tally, result, asks, ran, digestsSeen>>

-----------------------------------------------------------------------------
Submit(s) == \/ Begin(s) \/ DecideLocally(s) \/ LocalRaises(s)
             \/ SkipPeer(s) \/ AskPeer(s)
             \/ TakeVote(s) \/ TakeRefusal(s) \/ TakeError(s)
             \/ CallFails(s) \/ CallBreaks(s)
             \/ Tally(s)

Answer(s, p) == PeerRefuses(s, p) \/ PeerHandles(s, p)

Next == \/ \E s \in Submissions : Submit(s)
        \/ \E s \in Submissions, p \in Nodes : Answer(s, p)
        \/ SetPartition
        \/ SwapSlot
        \/ \E n, p \in Nodes : ClearDrift(n, p) \/ Expire(n, p)
        \/ \E p \in Nodes : Heartbeat(p)

Spec == Init /\ [][Next]_vars

\* The threads of a submission and of a peer that got an ask keep running.
\* Nothing is assumed of partitions, expiry or callers.
FairSpec == /\ Spec
            /\ \A s \in Submissions : WF_vars(Submit(s))
            /\ \A s \in Submissions, p \in Nodes : WF_vars(Answer(s, p))

-----------------------------------------------------------------------------
TypeOK ==
    /\ digest \in [Nodes -> STRING]
    /\ objects \in [Nodes -> Seq(Object)]
    /\ swap \in [mask : SUBSET Nodes, left : SUBSET Nodes]
    /\ stage \in [Submissions -> Stages]
    /\ held \in [Submissions -> [entry : Nodes, gen : Nat \ {0}]]
    /\ \A s \in Submissions : held[s].gen <= Current(Entry(s))
    /\ todo \in [Submissions -> SUBSET Nodes]
    /\ votes \in [Submissions -> SUBSET Vote]
    /\ refused \in [Submissions -> SUBSET Nodes]
    /\ approvals \in [Submissions -> Nat]
    /\ denials \in [Submissions -> Nat]
    /\ result \in [Submissions -> Results]
    /\ asks \in [Submissions -> [Nodes -> AskState]]
    /\ ran \in [Nodes -> SUBSET [sub : Submissions, status : Statuses]]
    /\ digestsSeen \in [Nodes -> SUBSET Nodes]
    /\ events \in Nat

Allowed(n, s) == [sub |-> s, status |-> "allowed"] \in ran[n]
Ran(n, s)     == \E d \in ran[n] : d.sub = s

\* ALLOWED is told only when a majority of the configured nodes, all with the
\* entry's policies, have it allowed in their own audit logs, whatever timed
\* out, drifted or was repartitioned on the way (FederationNode.submit).
AllowedHasQuorum ==
    \A s \in Submissions : result[s] = "allowed" =>
        Cardinality({n \in Nodes : Allowed(n, s) /\ digest[n] = digest[Entry(s)]})
          >= ConfiguredQuorum

\* "A dead node's vote is a dead vote": what is allowed is allowed in the logs
\* of a majority of the configured nodes that the partition has left alive, the
\* mask being that of the object the submission started with; a partitioned
\* node adds nothing, whether it is a peer or the entry (FederationNode.submit).
DeadVotesDoNotCount ==
    \A s \in Submissions : result[s] = "allowed" =>
        Cardinality({n \in Nodes \ Held(s).mask : Allowed(n, s)}) >= ConfiguredQuorum

\* What cluster_live.py says of set_partition, "the entry node, if it is in the
\* partition set, must deny", and node.py of submit.  The code drops the
\* entry's own vote and still allows on those of its peers.
PartitionedEntryDenies ==
    \A s \in Submissions : result[s] = "allowed" => Entry(s) \notin Held(s).mask

\* The numbers and decisions of a ClusterDecision agree with one another and
\* with the logs: a node votes once, with what its log says, an approval is a
\* vote that allows, a denial one that does not or a drift refusal.
TallyIsHonest ==
    \A s \in Submissions :
        /\ \A v \in votes[s] : [sub |-> s, status |-> v.status] \in ran[v.node]
        /\ \A v, w \in votes[s] : v.node = w.node => v = w
        /\ \A v \in votes[s] : v.node \notin refused[s]
        /\ approvals[s] = Cardinality(Approving(s))
        /\ approvals[s] + denials[s] = Cardinality(votes[s]) + Cardinality(refused[s])

\* Any two requests that are allowed, from whichever entries and on whichever
\* sides of a partition, share a node whose kernel allowed both.
QuorumsIntersect ==
    \A s, u \in Submissions :
        result[s] = "allowed" /\ result[u] = "allowed" =>
            \E n \in Nodes : Allowed(n, s) /\ Allowed(n, u)

\* What an entry has recorded as drift the peer has recorded too, so operators
\* of both see the same pair (drifted_peers and peer_digests).
DriftAttribution ==
    \A n \in Nodes : \A g \in DOMAIN objects[n] : \A p \in objects[n][g].drift :
        n \in digestsSeen[p] /\ digest[n] # digest[p]

\* Every submission ends, whatever its peers answer or fail to.
SubmissionsEnd ==
    \A s \in Submissions : stage[s] = "local" ~> stage[s] = "done"

\* The federation keeps the promise of QuorumVote.
Promise == INSTANCE QuorumVote WITH
    logged  <- ran,
    outcome <- [s \in Submissions |->
                  IF result[s] \in {"none", "allowed"} THEN result[s] ELSE "refused"],
    Needed  <- ConfiguredQuorum
PromiseRefinement == Promise!VoteSpec
=============================================================================
