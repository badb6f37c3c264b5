--------------------------- MODULE QuorumCluster ----------------------------
(***************************************************************************)
(* The in-process cluster: QuorumCluster.submit hands a request to each    *)
(* node's kernel in turn and tallies, FederationVerifier checks the audit  *)
(* log of each node and merges them.  Several callers may share a cluster; *)
(* nothing in it takes a lock.                                             *)
(*                                                                         *)
(* A node handles a submission once, so the submission stands for the hash *)
(* of its event there.  Between the read of the last hash and the append a *)
(* kernel can be at work for another caller (module KernelServer has those *)
(* steps one by one).                                                      *)
(***************************************************************************)
EXTENDS Naturals, FiniteSets, Sequences, SequencesExt

CONSTANTS Nodes,         \* the nodes, in the order of the list
          Quorum,        \* approvals that allow, given or the default
          Verdicts,      \* what the kernel of each node may make of a request
          Submissions,   \* requests submitted
          Genesis,       \* GENESIS_HASH
          MaxReports     \* bound: verifications

NodeSet  == {Nodes[i] : i \in DOMAIN Nodes}
Statuses == {"allowed", "denied", "failed"}

ASSUME ClusterAssumption ==
    /\ Nodes \in Seq(NodeSet) /\ IsInjective(Nodes)
    /\ Quorum \in 1..Len(Nodes)
    /\ \A n \in NodeSet : Verdicts[n] \subseteq Statuses \cup {"raises"}
    /\ Genesis \notin Submissions
    /\ MaxReports \in Nat

VARIABLES logs,        \* audit_log.events of each node
          turn,        \* the node each submission is at, 0 before it begins
          draft,       \* the event its kernel is about to append, if any
          decisions,   \* the decisions it has collected
          result,      \* what its caller was told
          report,      \* the verification under way, or the last one
          reports      \* verifications begun

submitting == <<turn, draft, decisions, result>>
vars       == <<logs, turn, draft, decisions, result, report, reports>>

Event    == [sub : Submissions, status : Statuses, previous : Submissions \cup {Genesis}]
NoEvent  == [sub |-> Genesis, status |-> "denied", previous |-> Genesis]

LastHash(log) == IF log = <<>> THEN Genesis ELSE Last(log).sub

\* ReplayVerifier.verify: each event names the hash of the one before.
Verifies(log) ==
    \A i \in DOMAIN log : log[i].previous = LastHash(SubSeq(log, 1, i - 1))

Published == {s \in Submissions : result[s] # "none"}

-----------------------------------------------------------------------------
NoReport == [node |-> 0, phase |-> "none", merged |-> [n \in NodeSet |-> <<>>],
             since |-> {}]

Init == /\ logs      = [n \in NodeSet |-> <<>>]
        /\ turn      = [s \in Submissions |-> 0]
        /\ draft     = [s \in Submissions |-> NoEvent]
        /\ decisions = [s \in Submissions |-> <<>>]
        /\ result    = [s \in Submissions |-> "none"]
        /\ report    = NoReport
        /\ reports   = 0

Asking(s) == turn[s] \in DOMAIN Nodes /\ result[s] = "none"
NodeOf(s) == Nodes[turn[s]]

Begin(s) ==
    /\ turn[s] = 0
    /\ turn' = [turn EXCEPT ![s] = 1]
    /\ UNCHANGED <<logs, draft, decisions, result, report, reports>>

\* The node's kernel decides and reads what its event has to commit to.
Decide(s) ==
    /\ Asking(s)
    /\ draft[s] = NoEvent
    /\ \E status \in Verdicts[NodeOf(s)] \ {"raises"} :
         draft' = [draft EXCEPT ![s] = [sub |-> s, status |-> status,
                                        previous |-> LastHash(logs[NodeOf(s)])]]
    /\ UNCHANGED <<logs, turn, decisions, result, report, reports>>

\* The kernel raises: so does submit, though earlier nodes have decided.
KernelRaises(s) ==
    /\ Asking(s)
    /\ draft[s] = NoEvent
    /\ "raises" \in Verdicts[NodeOf(s)]
    /\ result' = [result EXCEPT ![s] = "aborted"]
    /\ UNCHANGED <<logs, turn, draft, decisions, report, reports>>

\* The event is appended; the decision is the next of the tuple.
Record(s) ==
    /\ Asking(s)
    /\ draft[s] # NoEvent
    /\ logs' = [logs EXCEPT ![NodeOf(s)] = Append(@, draft[s])]
    /\ decisions' = [decisions EXCEPT ![s] = Append(@, draft[s].status)]
    /\ turn' = [turn EXCEPT ![s] = @ + 1]
    /\ draft' = [draft EXCEPT ![s] = NoEvent]
    /\ UNCHANGED <<result, report, reports>>

Count(s, status) == Cardinality({i \in DOMAIN decisions[s] : decisions[s][i] = status})

\* Mistake: whatever is not denied is an approval.
TallyUndenied(s) ==
    /\ turn[s] = Len(Nodes) + 1
    /\ result[s] = "none"
    /\ result' = [result EXCEPT ![s] =
                    IF Len(Nodes) - Count(s, "denied") >= Quorum THEN "allowed" ELSE "denied"]
    /\ UNCHANGED <<logs, turn, draft, decisions, report, reports>>

\* Every node has decided: approvals against the quorum.
Tally(s) ==
    /\ turn[s] = Len(Nodes) + 1
    /\ result[s] = "none"
    /\ result' = [result EXCEPT ![s] =
                    IF Count(s, "allowed") >= Quorum THEN "allowed" ELSE "denied"]
    /\ UNCHANGED <<logs, turn, draft, decisions, report, reports>>

-----------------------------------------------------------------------------
\* FederationVerifier.verify is called.
StartVerify ==
    /\ report.phase \in {"none", "valid", "invalid"}
    /\ reports < MaxReports
    /\ reports' = reports + 1
    /\ report' = [NoReport EXCEPT !.node = 1, !.phase = "check", !.since = Published]
    /\ UNCHANGED <<logs, submitting>>

\* Mistake: the last event of a log is not looked at.
CheckNodeButLast ==
    /\ report.phase = "check"
    /\ LET log == logs[Nodes[report.node]]
       IN  report' = [report EXCEPT !.phase = IF log = <<>> \/ Verifies(Front(log))
                                                THEN "merge" ELSE "invalid"]
    /\ UNCHANGED <<logs, submitting, reports>>

\* Mistake: the hash expected next is not reset from one node to the next.
CheckNodeContinued ==
    /\ report.phase = "check"
    /\ LET log    == logs[Nodes[report.node]]
           before == IF report.node = 1 THEN Genesis
                     ELSE LastHash(report.merged[Nodes[report.node - 1]])
       IN  report' = [report EXCEPT !.phase =
                        IF \A i \in DOMAIN log : log[i].previous =
                             IF i = 1 THEN before ELSE log[i - 1].sub
                          THEN "merge" ELSE "invalid"]
    /\ UNCHANGED <<logs, submitting, reports>>

\* The events of the next node are read and replayed.
CheckNode ==
    /\ report.phase = "check"
    /\ report' = [report EXCEPT !.phase = IF Verifies(logs[Nodes[report.node]])
                                            THEN "merge" ELSE "invalid"]
    /\ UNCHANGED <<logs, submitting, reports>>

\* Mistake: an event is merged only once another has committed to it.
MergeNodeButLast ==
    /\ report.phase = "merge"
    /\ LET n   == Nodes[report.node]
           log == logs[n]
       IN  report' = [report EXCEPT !.merged[n] = IF log = <<>> THEN <<>> ELSE Front(log),
                                    !.node  = @ + 1,
                                    !.phase = IF report.node = Len(Nodes) THEN "valid" ELSE "check"]
    /\ UNCHANGED <<logs, submitting, reports>>

\* They are read once more and merged; after the last node the report is valid.
MergeNode ==
    /\ report.phase = "merge"
    /\ LET n == Nodes[report.node]
       IN  report' = [report EXCEPT !.merged[n] = logs[n],
                                    !.node  = @ + 1,
                                    !.phase = IF report.node = Len(Nodes) THEN "valid" ELSE "check"]
    /\ UNCHANGED <<logs, submitting, reports>>

-----------------------------------------------------------------------------
Submit(s) == Begin(s) \/ Decide(s) \/ KernelRaises(s) \/ Record(s) \/ Tally(s)
Verify    == StartVerify \/ CheckNode \/ MergeNode

Next == Verify \/ \E s \in Submissions : Submit(s)

Spec == Init /\ [][Next]_vars

-----------------------------------------------------------------------------
\* "federation audit verified" leaves nothing out that was decided before the
\* verification began, though the logs of the nodes are read one after the
\* other while callers go on (FederationVerifier.verify).
ReportIsComplete ==
    report.phase = "valid" =>
        \A s \in report.since : \A i \in DOMAIN decisions[s] :
            \E k \in DOMAIN report.merged[Nodes[i]] : report.merged[Nodes[i]][k].sub = s

\* The node an invalid report names has a broken chain, whatever its callers
\* append while it is read (FederationVerifier.verify, ReplayVerifier.verify).
BlameIsJust ==
    report.phase = "invalid" => ~Verifies(logs[Nodes[report.node]])

\* In a valid report every event that was there before the verification began
\* commits to the one before it: a break cannot slip in between the two reads
\* of a log, except with an event of a caller that was not yet answered.
BrokenIsFound ==
    report.phase = "valid" =>
        \A n \in NodeSet : \A i \in DOMAIN report.merged[n] :
            \/ report.merged[n][i].previous = LastHash(SubSeq(report.merged[n], 1, i - 1))
            \/ report.merged[n][i].sub \notin report.since

\* The cluster keeps the promise of QuorumVote with its own quorum.
Promise == INSTANCE QuorumVote WITH
    Nodes   <- NodeSet,
    logged  <- [n \in NodeSet |-> {[sub |-> logs[n][i].sub, status |-> logs[n][i].status] :
                                      i \in DOMAIN logs[n]}],
    outcome <- [s \in Submissions |->
                  IF result[s] \in {"none", "allowed"} THEN result[s] ELSE "refused"],
    Needed  <- Quorum
PromiseRefinement == Promise!VoteSpec
=============================================================================
