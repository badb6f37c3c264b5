------------------------ MODULE QuorumCluster_proofs ------------------------
(***************************************************************************)
(* The in-process cluster and its verifier, for any nodes, quorum,         *)
(* verdicts and number of submissions, reports and callers: what a report  *)
(* says, and that the cluster keeps the promise of QuorumVote.             *)
(***************************************************************************)
EXTENDS QuorumCluster, FiniteSetTheorems, TLAPS

Results == {"none", "aborted", "allowed", "denied"}
Phases  == {"none", "check", "merge", "valid", "invalid"}

TypeInv ==
    /\ logs \in [NodeSet -> Seq(Event)]
    /\ turn \in [Submissions -> 0..(Len(Nodes) + 1)]
    /\ draft \in [Submissions -> Event \cup {NoEvent}]
    /\ decisions \in [Submissions -> Seq(Statuses)]
    /\ result \in [Submissions -> Results]
    /\ report \in [node : 0..(Len(Nodes) + 1), phase : Phases,
                   merged : [NodeSet -> Seq(Event)], since : SUBSET Submissions]

Logged(log, s, status) == \E k \in 1..Len(log) : log[k].sub = s /\ log[k].status = status

\* A submission has the decisions of the nodes it has passed, as their logs
\* have them, and a draft only for the node it is at.
SubInv(s) ==
    /\ Len(decisions[s]) = (IF turn[s] = 0 THEN 0 ELSE turn[s] - 1)
    /\ draft[s] # NoEvent => draft[s].sub = s /\ Asking(s)
    /\ \A i \in 1..Len(decisions[s]) : Logged(logs[Nodes[i]], s, decisions[s][i])

\* A log has no event of a submission that has not passed its node.
OnceInv ==
    \A i \in 1..Len(Nodes) : \A k \in 1..Len(logs[Nodes[i]]) :
        logs[Nodes[i]][k].sub \in Submissions => i < turn[logs[Nodes[i]][k].sub]

CallInv == TypeInv /\ OnceInv /\ \A s \in Submissions : SubInv(s)

\* Every event links to the one before it, but for those of late submissions.
Links(log, k) == log[k].previous = LastHash(SubSeq(log, 1, k - 1))
Tight(log, since) == \A k \in 1..Len(log) : Links(log, k) \/ log[k].sub \notin since
Whole(log, i, since) ==
    \A s \in since : i \in 1..Len(decisions[s]) => \E k \in 1..Len(log) : log[k].sub = s

\* What the verifier has found out of the nodes it has passed, and of its own.
ReportInv ==
    /\ report.phase \in {"check", "merge", "invalid"} => report.node \in 1..Len(Nodes)
    /\ report.phase = "valid" => report.node = Len(Nodes) + 1
    /\ \A s \in report.since : result[s] # "none"
    /\ report.phase \in {"check", "merge", "valid"} =>
         \A i \in 1..Len(Nodes) : i < report.node =>
            /\ Tight(report.merged[Nodes[i]], report.since)
            /\ Whole(report.merged[Nodes[i]], i, report.since)
    /\ report.phase = "merge" => Tight(logs[Nodes[report.node]], report.since)
    /\ report.phase = "invalid" => ~Verifies(logs[Nodes[report.node]])

ClusterInv == CallInv /\ ReportInv

-----------------------------------------------------------------------------
(* Nodes and logs *)

\* The nodes are a sequence without repetition.
LEMMA NodeFacts ==
    /\ Len(Nodes) \in Nat \ {0} /\ DOMAIN Nodes = 1..Len(Nodes)
    /\ \A i \in 1..Len(Nodes) : Nodes[i] \in NodeSet
    /\ \A n \in NodeSet : \E i \in 1..Len(Nodes) : n = Nodes[i]
    /\ \A i, j \in 1..Len(Nodes) : Nodes[i] = Nodes[j] => i = j
<1>1. Nodes \in Seq(NodeSet) /\ Quorum \in 1..Len(Nodes) /\ IsInjective(Nodes)
  BY ClusterAssumption
<1>2. Len(Nodes) \in Nat /\ DOMAIN Nodes = 1..Len(Nodes)
  BY <1>1
<1> QED BY <1>1, <1>2 DEF NodeSet, IsInjective

\* What was in a log stays as it was when an event is appended.
LEMMA AppendKeeps ==
    ASSUME NEW log \in Seq(Event), NEW e \in Event
    PROVE  /\ Append(log, e) \in Seq(Event) /\ Len(Append(log, e)) = Len(log) + 1
           /\ Len(log) \in Nat /\ Append(log, e)[Len(log) + 1] = e
           /\ \A k \in 1..Len(log) :
                Append(log, e)[k] = log[k] /\ (Links(Append(log, e), k) <=> Links(log, k))
<1>1. /\ Append(log, e) \in Seq(Event) /\ Len(Append(log, e)) = Len(log) + 1
      /\ Len(log) \in Nat /\ Append(log, e)[Len(log) + 1] = e
      /\ \A k \in 1..Len(log) : Append(log, e)[k] = log[k]
  OBVIOUS
<1>2. ASSUME NEW k \in 1..Len(log)
      PROVE  SubSeq(Append(log, e), 1, k - 1) = SubSeq(log, 1, k - 1)
  BY <1>1
<1> QED BY <1>1, <1>2 DEF Links

\* A log verifies when its events link.
LEMMA VerifiesLinks ==
    ASSUME NEW log \in Seq(Event)
    PROVE  Verifies(log) <=> \A k \in 1..Len(log) : Links(log, k)
BY DEF Verifies, Links

\* An appended event of a late submission disturbs no finding.
LEMMA AppendFindings ==
    ASSUME NEW log \in Seq(Event), NEW e \in Event, NEW since, e.sub \notin since
    PROVE  /\ Tight(log, since) => Tight(Append(log, e), since)
           /\ ~Verifies(log) => ~Verifies(Append(log, e))
<1> DEFINE longer == Append(log, e)
<1>1. /\ longer \in Seq(Event) /\ Len(longer) = Len(log) + 1 /\ Len(log) \in Nat
      /\ longer[Len(log) + 1] = e
      /\ \A k \in 1..Len(log) : longer[k] = log[k] /\ (Links(longer, k) <=> Links(log, k))
  BY AppendKeeps
<1> HIDE DEF longer
<1>2. Tight(log, since) => Tight(longer, since)
  BY <1>1 DEF Tight
<1>3. ~Verifies(log) => ~Verifies(longer)
  BY <1>1, VerifiesLinks
<1> QED BY <1>2, <1>3 DEF longer

-----------------------------------------------------------------------------
(* The callers *)

\* No log and nothing decided at first.
LEMMA CallInit == Init => ClusterInv
<1> SUFFICES ASSUME Init PROVE ClusterInv
  OBVIOUS
<1>1. TypeInv
  BY NodeFacts DEF Init, TypeInv, NoReport, Results, Phases
<1>2. OnceInv /\ \A s \in Submissions : SubInv(s)
  BY NodeFacts DEF Init, OnceInv, SubInv
<1>3. ReportInv
  BY DEF Init, ReportInv, NoReport
<1> QED BY <1>1, <1>2, <1>3 DEF ClusterInv, CallInv

\* The event a submission is about to append.
LEMMA DraftIsEvent ==
    ASSUME CallInv, NEW s \in Submissions, draft[s] # NoEvent
    PROVE  /\ draft[s] \in Event /\ draft[s].sub = s /\ draft[s].status \in Statuses
           /\ turn[s] \in 1..Len(Nodes) /\ result[s] = "none" /\ NodeOf(s) \in NodeSet
           /\ NodeOf(s) = Nodes[turn[s]] /\ Len(decisions[s]) = turn[s] - 1
BY NodeFacts DEF CallInv, TypeInv, SubInv, Asking, NodeOf, Event

\* A recorded decision is the next of its submission and the last of its log.
LEMMA RecordCalls == ASSUME CallInv, NEW s \in Submissions, Record(s) PROVE CallInv'
<1> DEFINE n == NodeOf(s)  e == draft[s]
<1>1. /\ logs' = [logs EXCEPT ![n] = Append(@, e)]
      /\ decisions' = [decisions EXCEPT ![s] = Append(@, e.status)]
      /\ turn' = [turn EXCEPT ![s] = @ + 1]
      /\ draft' = [draft EXCEPT ![s] = NoEvent]
      /\ UNCHANGED <<result, report>> /\ e # NoEvent
  BY DEF Record
<1>2. /\ e \in Event /\ e.sub = s /\ e.status \in Statuses /\ turn[s] \in 1..Len(Nodes)
      /\ n \in NodeSet /\ n = Nodes[turn[s]] /\ Len(decisions[s]) = turn[s] - 1
  BY <1>1, DraftIsEvent
<1> HIDE DEF n, e
<1>3. /\ logs[n] \in Seq(Event) /\ logs'[n] = Append(logs[n], e)
      /\ \A m \in NodeSet : m # n => logs'[m] = logs[m]
  BY <1>1, <1>2 DEF CallInv, TypeInv
<1>4. /\ logs'[n] \in Seq(Event) /\ Len(logs'[n]) = Len(logs[n]) + 1 /\ Len(logs[n]) \in Nat
      /\ logs'[n][Len(logs[n]) + 1] = e
      /\ \A k \in 1..Len(logs[n]) : logs'[n][k] = logs[n][k]
  BY <1>2, <1>3, AppendKeeps
<1>5. /\ turn'[s] = turn[s] + 1 /\ decisions'[s] = Append(decisions[s], e.status)
      /\ \A u \in Submissions \ {s} :
           turn'[u] = turn[u] /\ decisions'[u] = decisions[u] /\ draft'[u] = draft[u]
      /\ draft'[s] = NoEvent
  BY <1>1 DEF CallInv, TypeInv
<1>6. decisions[s] \in Seq(Statuses) /\ Len(Nodes) \in Nat /\ turn[s] \in Nat
  BY <1>2, NodeFacts DEF CallInv, TypeInv
<1>7. TypeInv'
  <2>1. logs' \in [NodeSet -> Seq(Event)]
    BY <1>1, <1>3, <1>4 DEF CallInv, TypeInv
  <2>2. turn' \in [Submissions -> 0..(Len(Nodes) + 1)]
    BY <1>1, <1>2, <1>6 DEF CallInv, TypeInv
  <2>3. draft' \in [Submissions -> Event \cup {NoEvent}]
    BY <1>1 DEF CallInv, TypeInv
  <2>4. decisions' \in [Submissions -> Seq(Statuses)]
    BY <1>1, <1>2, <1>6 DEF CallInv, TypeInv
  <2> QED BY <1>1, <2>1, <2>2, <2>3, <2>4 DEF CallInv, TypeInv
<1>8. OnceInv'
  <2> SUFFICES ASSUME NEW i \in 1..Len(Nodes), NEW k \in 1..Len(logs'[Nodes[i]]),
                      logs'[Nodes[i]][k].sub \in Submissions
               PROVE  i < turn'[logs'[Nodes[i]][k].sub]
    BY DEF OnceInv
  <2>1. \A u \in Submissions : turn[u] \in Nat /\ turn[u] <= turn'[u]
    <3>1. \A u \in Submissions : turn[u] \in Nat
      BY NodeFacts DEF CallInv, TypeInv
    <3> QED BY <1>5, <3>1
  <2>2. CASE k \in 1..Len(logs[Nodes[i]]) /\ logs'[Nodes[i]][k] = logs[Nodes[i]][k]
    <3>1. i < turn[logs[Nodes[i]][k].sub]
      BY <2>2 DEF CallInv, OnceInv
    <3>2. i \in Nat /\ \A u \in Submissions : turn'[u] \in Nat
      BY <1>7, NodeFacts DEF TypeInv
    <3> QED BY <2>1, <2>2, <3>1, <3>2
  <2>3. CASE Nodes[i] = n /\ k = Len(logs[n]) + 1
    <3>1. i = turn[s]
      BY <1>2, <2>3, NodeFacts
    <3>2. logs'[Nodes[i]][k] = e
      BY <1>4, <2>3
    <3>3. logs'[Nodes[i]][k].sub = s
      BY <1>2, <3>2
    <3>4. i < turn'[s]
      BY <1>5, <1>6, <3>1
    <3> QED BY <3>3, <3>4
  <2>4. CASE Nodes[i] # n
    <3>1. logs'[Nodes[i]] = logs[Nodes[i]]
      BY <1>3, <2>4, NodeFacts
    <3> QED BY <2>2, <3>1
  <2>5. CASE Nodes[i] = n
    <3>1. k \in 1..Len(logs[n]) \/ k = Len(logs[n]) + 1
      BY <1>4, <2>5
    <3> QED BY <1>4, <2>2, <2>3, <2>5, <3>1
  <2> QED BY <2>4, <2>5
<1>9. ASSUME NEW u \in Submissions PROVE SubInv(u)'
  <2>1. \A m \in NodeSet : \A status : Logged(logs[m], u, status) => Logged(logs'[m], u, status)
    BY <1>3, <1>4 DEF Logged
  <2>2. CASE u # s
    <3>1. \A i \in 1..Len(decisions[u]) : Logged(logs'[Nodes[i]], u, decisions[u][i])
      <4>1. \A i \in 1..Len(decisions[u]) : i \in 1..Len(Nodes)
        BY NodeFacts DEF CallInv, SubInv, TypeInv
      <4> QED BY <2>1, <4>1, NodeFacts DEF CallInv, SubInv
    <3> QED BY <1>1, <1>5, <2>2, <3>1 DEF CallInv, SubInv, Asking
  <2>3. CASE u = s
    <3>1. Logged(logs'[n], s, e.status)
      <4>1. Len(logs[n]) + 1 \in 1..Len(logs'[n])
        BY <1>4
      <4> QED BY <1>2, <1>4, <4>1 DEF Logged
    <3>2. /\ Len(decisions'[s]) = turn[s] /\ decisions'[s][turn[s]] = e.status
          /\ \A i \in 1..(turn[s] - 1) : decisions'[s][i] = decisions[s][i] /\ i \in 1..Len(Nodes)
      BY <1>2, <1>5, <1>6
    <3>3. \A i \in 1..(turn[s] - 1) : Logged(logs'[Nodes[i]], s, decisions'[s][i])
      BY <1>2, <2>1, <2>3, <3>2, NodeFacts DEF CallInv, SubInv
    <3>4. \A i \in 1..turn[s] : Logged(logs'[Nodes[i]], s, decisions'[s][i])
      BY <1>2, <1>6, <3>1, <3>2, <3>3
    <3>5. Len(decisions'[s]) = (IF turn'[s] = 0 THEN 0 ELSE turn'[s] - 1)
      BY <1>2, <1>5, <1>6, <3>2
    <3>6. SubInv(s)'
      BY <1>5, <3>2, <3>4, <3>5 DEF SubInv
    <3> QED BY <2>3, <3>6
  <2> QED BY <2>2, <2>3
<1> QED BY <1>7, <1>8, <1>9 DEF CallInv

\* The other steps of a submission leave the logs and the decisions alone.
LEMMA OtherCalls ==
    ASSUME CallInv, NEW s \in Submissions, Begin(s) \/ Decide(s) \/ KernelRaises(s) \/ Tally(s)
    PROVE  CallInv'
<1>1. UNCHANGED <<logs, decisions, report>>
  BY DEF Begin, Decide, KernelRaises, Tally
<1>2. Len(Nodes) \in Nat \ {0}
  BY NodeFacts
<1>3. CASE Begin(s)
  <2>1. /\ turn[s] = 0 /\ turn' = [turn EXCEPT ![s] = 1] /\ UNCHANGED <<draft, result>>
    BY <1>3 DEF Begin
  <2>2. TypeInv'
    BY <1>1, <1>2, <2>1 DEF CallInv, TypeInv
  <2>3. OnceInv'
    <3>1. \A u \in Submissions : turn[u] \in Nat /\ turn'[u] \in Nat /\ turn[u] <= turn'[u]
      BY <1>2, <2>1 DEF CallInv, TypeInv
    <3> QED BY <1>1, <1>2, <3>1 DEF CallInv, OnceInv
  <2>4. ASSUME NEW u \in Submissions PROVE SubInv(u)'
    BY <1>1, <1>2, <2>1, NodeFacts DEF CallInv, TypeInv, SubInv, Asking
  <2> QED BY <2>2, <2>3, <2>4 DEF CallInv
<1>4. CASE Decide(s)
  <2>1. PICK status \in Verdicts[NodeOf(s)] \ {"raises"} :
          draft' = [draft EXCEPT ![s] = [sub |-> s, status |-> status,
                                         previous |-> LastHash(logs[NodeOf(s)])]]
    BY <1>4 DEF Decide
  <2> DEFINE e == [sub |-> s, status |-> status, previous |-> LastHash(logs[NodeOf(s)])]
  <2>2. UNCHANGED <<turn, result>> /\ Asking(s) /\ NodeOf(s) \in NodeSet
    BY <1>4, NodeFacts DEF Decide, Asking, NodeOf
  <2>3. status \in Statuses
    BY <2>2, ClusterAssumption
  <2>4. LastHash(logs[NodeOf(s)]) \in Submissions \cup {Genesis}
    <3>1. logs[NodeOf(s)] \in Seq(Event)
      BY <2>2 DEF CallInv, TypeInv
    <3> DEFINE log == logs[NodeOf(s)]
    <3>2. CASE log = <<>>
      BY <3>2 DEF LastHash
    <3>3. CASE log # <<>>
      <4>1. log[Len(log)] \in Event
        BY <3>1, <3>3
      <4>2. log[Len(log)].sub \in Submissions
        BY <4>1 DEF Event
      <4> QED BY <3>3, <4>2 DEF LastHash, Last
    <3> QED BY <3>2, <3>3
  <2>5. e \in Event /\ e.sub = s
    BY <2>3, <2>4 DEF Event
  <2>6. draft' = [draft EXCEPT ![s] = e]
    BY <2>1
  <2> HIDE DEF e
  <2>7. TypeInv' /\ OnceInv'
    BY <1>1, <2>2, <2>5, <2>6 DEF CallInv, TypeInv, OnceInv
  <2>8. ASSUME NEW u \in Submissions PROVE SubInv(u)'
    BY <1>1, <2>2, <2>5, <2>6 DEF CallInv, TypeInv, SubInv, Asking
  <2> QED BY <2>7, <2>8 DEF CallInv
<1>5. CASE KernelRaises(s) \/ Tally(s)
  <2>1. /\ UNCHANGED <<turn, draft>> /\ draft[s] = NoEvent
        /\ \E r \in Results : result' = [result EXCEPT ![s] = r]
    BY <1>5, NodeFacts DEF KernelRaises, Tally, CallInv, SubInv, Asking, Results
  <2>2. TypeInv' /\ OnceInv'
    BY <1>1, <2>1 DEF CallInv, TypeInv, OnceInv
  <2>3. ASSUME NEW u \in Submissions PROVE SubInv(u)'
    BY <1>1, <2>1 DEF CallInv, TypeInv, SubInv, Asking
  <2> QED BY <2>2, <2>3 DEF CallInv
<1> QED BY <1>3, <1>4, <1>5

-----------------------------------------------------------------------------
(* The verifier *)

\* What a caller does leaves the findings of the verifier as they are.
LEMMA SubmitReport ==
    ASSUME ClusterInv, NEW s \in Submissions, Submit(s)
    PROVE  ReportInv'
<1> USE DEF ClusterInv
<1>1. report' = report
  BY DEF Submit, Begin, Decide, KernelRaises, Record, Tally
<1>2. \A u \in report.since : result'[u] # "none" /\ decisions'[u] = decisions[u] /\ u \in Submissions
  <2>1. \A u \in report.since : u \in Submissions /\ result[u] # "none"
    BY DEF CallInv, TypeInv, ReportInv
  <2>2. CASE Record(s)
    <3>1. result[s] = "none" /\ decisions' = [decisions EXCEPT ![s] = Append(@, draft[s].status)]
          /\ result' = result
      BY <2>2 DEF Record, Asking
    <3> QED BY <2>1, <3>1 DEF CallInv, TypeInv
  <2>3. CASE ~Record(s)
    <3>1. decisions' = decisions
      BY <2>3 DEF Submit, Begin, Decide, KernelRaises, Tally
    <3>2. result' = result \/ \E r \in Results \ {"none"} : result' = [result EXCEPT ![s] = r]
      BY <2>3 DEF Submit, Begin, Decide, KernelRaises, Tally, Results
    <3> QED BY <2>1, <3>1, <3>2 DEF CallInv, TypeInv
  <2> QED BY <2>2, <2>3
<1>3. ASSUME NEW n \in NodeSet
      PROVE  /\ Tight(logs[n], report.since) => Tight(logs'[n], report.since)
             /\ ~Verifies(logs[n]) => ~Verifies(logs'[n])
  <2>1. CASE Record(s)
    <3>1. logs' = [logs EXCEPT ![NodeOf(s)] = Append(@, draft[s])] /\ draft[s] # NoEvent
      BY <2>1 DEF Record
    <3>2. draft[s] \in Event /\ draft[s].sub = s /\ s \notin report.since
      BY <3>1, DraftIsEvent DEF ReportInv
    <3>3. logs[n] \in Seq(Event) /\ (logs'[n] = logs[n] \/ logs'[n] = Append(logs[n], draft[s]))
      BY <3>1 DEF CallInv, TypeInv
    <3> QED BY <3>2, <3>3, AppendFindings
  <2>2. CASE ~Record(s)
    BY <2>2 DEF Submit, Begin, Decide, KernelRaises, Tally
  <2> QED BY <2>1, <2>2
<1>4. \A log, i : Whole(log, i, report.since) => Whole(log, i, report.since)'
  BY <1>1, <1>2 DEF Whole
<1>5. report.phase \in {"merge", "invalid"} => Nodes[report.node] \in NodeSet
  BY NodeFacts DEF ReportInv
<1> QED BY <1>1, <1>2, <1>3, <1>4, <1>5 DEF ReportInv

\* The steps of the verifier.
LEMMA VerifyReport == ASSUME ClusterInv, Verify PROVE ClusterInv'
<1> USE DEF ClusterInv
<1>1. UNCHANGED <<logs, turn, draft, decisions, result>>
  BY DEF Verify, StartVerify, CheckNode, MergeNode, submitting
<1>2. /\ DOMAIN report = {"node", "phase", "merged", "since"}
      /\ report.node \in 0..(Len(Nodes) + 1) /\ report.merged \in [NodeSet -> Seq(Event)]
      /\ report.since \in SUBSET Submissions /\ Len(Nodes) \in Nat \ {0}
      /\ report \in [node : 0..(Len(Nodes) + 1), phase : Phases,
                     merged : [NodeSet -> Seq(Event)], since : SUBSET Submissions]
  BY NodeFacts DEF CallInv, TypeInv
<1>3. CASE StartVerify
  <2>1. /\ report'.node = 1 /\ report'.phase = "check" /\ report'.since = Published
        /\ report' \in [node : 0..(Len(Nodes) + 1), phase : Phases,
                        merged : [NodeSet -> Seq(Event)], since : SUBSET Submissions]
    <3> DEFINE empty == [n \in NodeSet |-> <<>>]
    <3>1. empty \in [NodeSet -> Seq(Event)] /\ Published \in SUBSET Submissions
      BY DEF Published
    <3>2. report' = [[node |-> 0, phase |-> "none", merged |-> empty, since |-> {}]
                        EXCEPT !.node = 1, !.phase = "check", !.since = Published]
      BY <1>3 DEF StartVerify, NoReport
    <3> HIDE DEF empty
    <3>3. report' = [node |-> 1, phase |-> "check", merged |-> empty, since |-> Published]
      BY <3>2
    <3> QED BY <1>2, <3>1, <3>3 DEF Phases
  <2>2. ReportInv'
    BY <1>1, <1>2, <2>1 DEF ReportInv, Published
  <2> QED BY <1>1, <2>1, <2>2 DEF CallInv, TypeInv, OnceInv, SubInv, Asking
<1>4. CASE CheckNode
  <2>1. /\ report.phase = "check" /\ report'.node = report.node /\ report'.since = report.since
        /\ report'.merged = report.merged
        /\ report'.phase = (IF Verifies(logs[Nodes[report.node]]) THEN "merge" ELSE "invalid")
        /\ report' \in [node : 0..(Len(Nodes) + 1), phase : Phases,
                        merged : [NodeSet -> Seq(Event)], since : SUBSET Submissions]
    BY <1>2, <1>4 DEF CheckNode, Phases
  <2>2. logs[Nodes[report.node]] \in Seq(Event)
    BY <2>1, NodeFacts DEF CallInv, TypeInv, ReportInv
  <2>3. report'.phase = "merge" => Tight(logs[Nodes[report.node]], report.since)
    BY <2>1, <2>2, VerifiesLinks DEF Tight
  <2>4. ReportInv'
    BY <1>1, <2>1, <2>3 DEF ReportInv, Whole
  <2> QED BY <1>1, <2>1, <2>4 DEF CallInv, TypeInv, OnceInv, SubInv, Asking
<1>5. CASE MergeNode
  <2> DEFINE n == Nodes[report.node]
  <2>1. /\ report.phase = "merge" /\ report.node \in 1..Len(Nodes) /\ n \in NodeSet
        /\ logs[n] \in Seq(Event)
    BY <1>5, NodeFacts DEF MergeNode, CallInv, TypeInv, ReportInv
  <2>2. /\ report'.node = report.node + 1 /\ report'.since = report.since
        /\ report'.merged = [report.merged EXCEPT ![n] = logs[n]]
        /\ report'.phase = (IF report.node = Len(Nodes) THEN "valid" ELSE "check")
        /\ DOMAIN report' = {"node", "phase", "merged", "since"}
    BY <1>2, <1>5 DEF MergeNode
  <2>3. report' \in [node : 0..(Len(Nodes) + 1), phase : Phases,
                     merged : [NodeSet -> Seq(Event)], since : SUBSET Submissions]
    <3>1. report' = [report EXCEPT !.merged[n] = logs[n], !.node = @ + 1,
                            !.phase = IF report.node = Len(Nodes) THEN "valid" ELSE "check"]
      BY <1>5 DEF MergeNode
    <3> DEFINE merged == [report.merged EXCEPT ![n] = logs[n]]
               phase == IF report.node = Len(Nodes) THEN "valid" ELSE "check"
    <3>2. merged \in [NodeSet -> Seq(Event)] /\ phase \in Phases
          /\ report.node + 1 \in 0..(Len(Nodes) + 1)
      BY <1>2, <2>1 DEF Phases
    <3>3. report' = [report EXCEPT !.merged = merged, !.node = report.node + 1, !.phase = phase]
      BY <1>2, <3>1
    <3> HIDE DEF merged, phase
    <3> QED BY <1>2, <3>2, <3>3
  <2>4. Whole(logs[n], report.node, report.since)
    <3> SUFFICES ASSUME NEW s \in report.since, report.node \in 1..Len(decisions[s])
                 PROVE  \E k \in 1..Len(logs[n]) : logs[n][k].sub = s
      BY DEF Whole
    <3>1. s \in Submissions
      BY <1>2
    <3>2. Logged(logs[n], s, decisions[s][report.node])
      BY <3>1 DEF CallInv, SubInv
    <3> QED BY <3>2 DEF Logged
  <2>5. ASSUME NEW i \in 1..Len(Nodes), i < report'.node
        PROVE  /\ Tight(report'.merged[Nodes[i]], report.since)
               /\ Whole(report'.merged[Nodes[i]], i, report.since)
    <3>1. CASE i = report.node
      <4>1. report'.merged[Nodes[i]] = logs[n]
        BY <1>2, <2>1, <2>2, <3>1
      <4> QED BY <2>1, <2>4, <3>1, <4>1 DEF ReportInv
    <3>2. CASE i # report.node
      <4>1. Nodes[i] # n /\ Nodes[i] \in NodeSet /\ i < report.node
        BY <2>1, <2>2, <2>5, <3>2, NodeFacts
      <4>2. report'.merged[Nodes[i]] = report.merged[Nodes[i]]
        BY <1>2, <2>2, <4>1
      <4> QED BY <2>1, <4>1, <4>2 DEF ReportInv
    <3> QED BY <3>1, <3>2
  <2>6. ReportInv'
    BY <1>1, <1>2, <2>1, <2>2, <2>5 DEF ReportInv, Whole
  <2> QED BY <1>1, <2>3, <2>6 DEF CallInv, TypeInv, OnceInv, SubInv, Asking
<1> QED BY <1>3, <1>4, <1>5 DEF Verify

\* Every step keeps the invariant.
LEMMA ClusterStep == ClusterInv /\ [Next]_vars => ClusterInv'
<1> SUFFICES ASSUME ClusterInv, [Next]_vars PROVE ClusterInv'
  OBVIOUS
<1>1. ASSUME NEW s \in Submissions, Submit(s) PROVE ClusterInv'
  BY <1>1, RecordCalls, OtherCalls, SubmitReport DEF ClusterInv, Submit
<1>2. CASE UNCHANGED vars
  BY <1>2 DEF vars, ClusterInv, CallInv, TypeInv, OnceInv, SubInv, ReportInv, Whole, Asking
<1> QED BY <1>1, <1>2, VerifyReport DEF Next

\* What every reachable state satisfies.
LEMMA ClusterInvariant == Spec => []ClusterInv
  BY CallInit, ClusterStep, PTL DEF Spec

-----------------------------------------------------------------------------
(* What a report says *)

\* A valid report has every decision that was published before it was begun.
THEOREM ReportIsCompleteCorrect == Spec => []ReportIsComplete
<1>1. ASSUME ClusterInv, report.phase = "valid", NEW s \in report.since, NEW i \in DOMAIN decisions[s]
      PROVE  \E k \in DOMAIN report.merged[Nodes[i]] : report.merged[Nodes[i]][k].sub = s
  <2>1. s \in Submissions
    BY <1>1 DEF ClusterInv, CallInv, TypeInv
  <2>2. decisions[s] \in Seq(Statuses) /\ SubInv(s) /\ turn[s] \in 0..(Len(Nodes) + 1)
    BY <1>1, <2>1 DEF ClusterInv, CallInv, TypeInv
  <2>3. i \in 1..Len(decisions[s]) /\ i \in 1..Len(Nodes)
    BY <1>1, <2>2, NodeFacts DEF SubInv
  <2>4. report.merged[Nodes[i]] \in Seq(Event) /\ Whole(report.merged[Nodes[i]], i, report.since)
    <3>1. i < report.node /\ Nodes[i] \in NodeSet
      BY <1>1, <2>3, NodeFacts DEF ClusterInv, ReportInv
    <3>2. report.merged \in [NodeSet -> Seq(Event)]
      BY <1>1 DEF ClusterInv, CallInv, TypeInv
    <3> QED BY <1>1, <2>3, <3>1, <3>2 DEF ClusterInv, ReportInv
  <2> QED BY <1>1, <2>3, <2>4 DEF Whole
<1>2. ClusterInv => ReportIsComplete
  BY <1>1 DEF ReportIsComplete
<1> QED BY <1>2, ClusterInvariant, PTL

\* The node an invalid report names has a broken chain ever after.
THEOREM BlameIsJustCorrect == Spec => []BlameIsJust
<1>1. ClusterInv => BlameIsJust
  BY DEF ClusterInv, ReportInv, BlameIsJust
<1> QED BY <1>1, ClusterInvariant, PTL

\* No break slips in between the two reads of a log, but with an event of a
\* submission that was not published when the verification began.
THEOREM BrokenIsFoundCorrect == Spec => []BrokenIsFound
<1>1. ASSUME ClusterInv, report.phase = "valid", NEW n \in NodeSet, NEW i \in DOMAIN report.merged[n]
      PROVE  \/ report.merged[n][i].previous = LastHash(SubSeq(report.merged[n], 1, i - 1))
             \/ report.merged[n][i].sub \notin report.since
  <2>1. PICK j \in 1..Len(Nodes) : n = Nodes[j]
    BY NodeFacts
  <2>2. report.merged[n] \in Seq(Event) /\ Tight(report.merged[n], report.since)
    BY <1>1, <2>1, NodeFacts DEF ClusterInv, CallInv, TypeInv, ReportInv
  <2> QED BY <1>1, <2>2 DEF Tight, Links
<1>2. ClusterInv => BrokenIsFound
  BY <1>1 DEF BrokenIsFound
<1> QED BY <1>2, ClusterInvariant, PTL

-----------------------------------------------------------------------------
(* The promise *)

\* What the promise sees of a log, and of a result.
DecisionsOf(log) == {[sub |-> log[i].sub, status |-> log[i].status] : i \in DOMAIN log}
Told(r) == IF r \in {"none", "allowed"} THEN r ELSE "refused"

\* A decision that is recorded is the first of its node on that submission.
LEMMA HandleKept == ASSUME CallInv, NEW s \in Submissions, Record(s) PROVE Promise!VoteNext
<1> DEFINE e == draft[s]  mine == [sub |-> e.sub, status |-> e.status]
           seen == [m \in NodeSet |-> DecisionsOf(logs[m])]
<1>0. PICK n \in NodeSet : n = NodeOf(s)
  BY DraftIsEvent DEF Record
<1>1. /\ logs' = [logs EXCEPT ![n] = Append(@, e)] /\ UNCHANGED result /\ e # NoEvent
  BY <1>0 DEF Record
<1>2. /\ e \in Event /\ e.sub = s /\ e.status \in Statuses /\ turn[s] \in 1..Len(Nodes)
      /\ n \in NodeSet /\ n = Nodes[turn[s]]
  BY <1>0, <1>1, DraftIsEvent
<1> HIDE DEF e
<1>3. /\ logs[n] \in Seq(Event) /\ logs'[n] = Append(logs[n], e)
      /\ \A m \in NodeSet : m # n => logs'[m] = logs[m]
  BY <1>1, <1>2 DEF CallInv, TypeInv
<1>4. DecisionsOf(logs'[n]) = DecisionsOf(logs[n]) \cup {mine}
  <2>1. /\ DOMAIN logs[n] = 1..Len(logs[n]) /\ DOMAIN logs'[n] = 1..(Len(logs[n]) + 1)
        /\ Len(logs[n]) \in Nat /\ logs'[n][Len(logs[n]) + 1] = e
        /\ \A k \in 1..Len(logs[n]) : logs'[n][k] = logs[n][k]
    BY <1>2, <1>3
  <2>2. 1..(Len(logs[n]) + 1) = 1..Len(logs[n]) \cup {Len(logs[n]) + 1}
    BY <2>1
  <2> DEFINE told(x) == [sub |-> x.sub, status |-> x.status]
  <2>3. \A d : d \in DecisionsOf(logs[n]) <=> \E k \in 1..Len(logs[n]) : d = told(logs[n][k])
    BY <2>1 DEF DecisionsOf
  <2>4. \A d : d \in DecisionsOf(logs'[n])
                <=> d = told(e) \/ \E k \in 1..Len(logs[n]) : d = told(logs'[n][k])
    <3>1. \A d : d \in DecisionsOf(logs'[n]) <=> \E k \in DOMAIN logs'[n] : d = told(logs'[n][k])
      BY DEF DecisionsOf
    <3> HIDE DEF told
    <3> QED BY <2>1, <2>2, <3>1
  <2>5. mine = told(e)
    OBVIOUS
  <2> HIDE DEF told, mine
  <2>6. \A d : d \in DecisionsOf(logs'[n]) <=> d = mine \/ d \in DecisionsOf(logs[n])
    BY <2>1, <2>3, <2>4, <2>5
  <2> QED BY <2>6
<1>5. \A d \in seen[n] : d.sub # s
  <2>1. ASSUME NEW k \in DOMAIN logs[n] PROVE logs[n][k].sub # s
    <3>1. k \in 1..Len(logs[n]) /\ turn[s] \in Nat
      BY <1>2, <1>3, NodeFacts
    <3> QED BY <1>2, <3>1 DEF CallInv, OnceInv
  <2> QED BY <1>2, <2>1 DEF DecisionsOf
<1>6. [m \in NodeSet |-> DecisionsOf(logs'[m])]
        = [seen EXCEPT ![n] = @ \cup {[sub |-> s, status |-> e.status]}]
  <2>1. \A m \in NodeSet : DecisionsOf(logs'[m]) =
            IF m = n THEN seen[m] \cup {[sub |-> s, status |-> e.status]} ELSE seen[m]
    BY <1>2, <1>3, <1>4
  <2> QED BY <1>2, <2>1
<1>7. Promise!Handle(n, s)
  <2>1. seen = [m \in NodeSet |-> {[sub |-> logs[m][i].sub, status |-> logs[m][i].status] :
                                      i \in DOMAIN logs[m]}]
    BY DEF DecisionsOf
  <2>2. [m \in NodeSet |-> DecisionsOf(logs'[m])]
          = [m \in NodeSet |-> {[sub |-> logs'[m][i].sub, status |-> logs'[m][i].status] :
                                      i \in DOMAIN logs'[m]}]
    BY DEF DecisionsOf
  <2>3. \E status \in Statuses : [m \in NodeSet |-> DecisionsOf(logs'[m])]
                                   = [seen EXCEPT ![n] = @ \cup {[sub |-> s, status |-> status]}]
    BY <1>2, <1>6
  <2> HIDE DEF seen
  <2> QED BY <1>1, <1>5, <2>1, <2>2, <2>3, Zenon DEF Promise!Handle
<1> QED BY <1>7 DEF Promise!VoteNext

\* The approvals that are counted are of as many nodes, whose logs say so.
LEMMA ApprovalsAreLogged ==
    ASSUME CallInv, NEW s \in Submissions
    PROVE  /\ Count(s, "allowed") \in Nat /\ Cardinality(Promise!Approvers(s)) \in Nat
           /\ Count(s, "allowed") <= Cardinality(Promise!Approvers(s))
<1> DEFINE places == {i \in DOMAIN decisions[s] : decisions[s][i] = "allowed"}
           nodes == Promise!Approvers(s)
           of == [i \in places |-> Nodes[i]]
<1>1. /\ decisions[s] \in Seq(Statuses) /\ DOMAIN decisions[s] = 1..Len(decisions[s])
      /\ SubInv(s) /\ turn[s] \in 0..(Len(Nodes) + 1) /\ Len(Nodes) \in Nat
  BY NodeFacts DEF CallInv, TypeInv
<1>2. \A i \in places : i \in 1..Len(Nodes) /\ i \in 1..Len(decisions[s])
  BY <1>1 DEF SubInv
<1>3. \A i \in places : Nodes[i] \in nodes
  <2> SUFFICES ASSUME NEW i \in places PROVE Nodes[i] \in nodes
    OBVIOUS
  <2>1. Logged(logs[Nodes[i]], s, "allowed") /\ Nodes[i] \in NodeSet
    BY <1>1, <1>2, NodeFacts DEF SubInv
  <2>2. DOMAIN logs[Nodes[i]] = 1..Len(logs[Nodes[i]])
    BY <2>1 DEF CallInv, TypeInv
  <2>3. [sub |-> s, status |-> "allowed"] \in DecisionsOf(logs[Nodes[i]])
    BY <2>1, <2>2 DEF Logged, DecisionsOf
  <2> QED BY <2>1, <2>3 DEF Promise!Approvers, DecisionsOf
<1>4. nodes \in SUBSET NodeSet
  BY DEF Promise!Approvers
<1>5. IsFiniteSet(NodeSet) /\ IsFiniteSet(nodes)
  <2>1. IsFiniteSet(1..Len(Nodes))
    BY <1>1, FS_Interval
  <2>2. Nodes \in [1..Len(Nodes) -> NodeSet]
    BY <1>1, ClusterAssumption
  <2>3. Nodes \in Surjection(1..Len(Nodes), NodeSet)
    BY <2>2, NodeFacts DEF Surjection
  <2>4. IsFiniteSet(NodeSet)
    BY <2>1, <2>3, FS_Surjection
  <2> QED BY <1>4, <2>4, FS_Subset
<1>6. of \in Injection(places, nodes)
  <2>1. of \in [places -> nodes]
    BY <1>3
  <2>2. \A i, j \in places : of[i] = of[j] => i = j
    BY <1>2, NodeFacts
  <2> QED BY <2>1, <2>2 DEF Injection, IsInjective
<1> HIDE DEF nodes, places, of
<1>7. Cardinality(places) <= Cardinality(nodes) /\ IsFiniteSet(places)
  BY <1>5, <1>6, FS_Injection DEF ExistsInjection
<1> QED BY <1>5, <1>7, FS_CardinalityType DEF Count, places, nodes

\* A submission that ends is published, as allowed only with its quorum.
LEMMA PublishKept ==
    ASSUME CallInv, NEW s \in Submissions, KernelRaises(s) \/ Tally(s)
    PROVE  Promise!VoteNext
<1> DEFINE told == [u \in Submissions |-> Told(result[u])]
<1>1. PICK r \in Results \ {"none"} :
        result' = [result EXCEPT ![s] = r] /\ (r = "allowed" => Count(s, "allowed") >= Quorum)
  BY DEF KernelRaises, Tally, Results
<1>2. logs' = logs /\ result[s] = "none" /\ result \in [Submissions -> Results]
  BY DEF KernelRaises, Tally, Asking, CallInv, TypeInv
<1>3. told[s] = "none"
  BY <1>2 DEF Told
<1>4. [u \in Submissions |-> Told(result'[u])]
        = [told EXCEPT ![s] = IF r = "allowed" THEN "allowed" ELSE "refused"]
  <2>1. \A u \in Submissions :
          Told(result'[u]) = IF u = s THEN IF r = "allowed" THEN "allowed" ELSE "refused" ELSE told[u]
    BY <1>1, <1>2 DEF Told
  <2> QED BY <2>1
<1>5. \A S : Promise!Cardinality(S) = Cardinality(S)
  BY DEF Promise!Cardinality, Cardinality
<1>6. r = "allowed" => Promise!Cardinality(Promise!Approvers(s)) >= Quorum
  BY <1>1, <1>5, ApprovalsAreLogged, ClusterAssumption
<1>7. told = [u \in Submissions |-> IF result[u] \in {"none", "allowed"} THEN result[u] ELSE "refused"]
  BY DEF Told
<1>8. [u \in Submissions |-> Told(result'[u])]
        = [u \in Submissions |-> IF result'[u] \in {"none", "allowed"} THEN result'[u] ELSE "refused"]
  BY DEF Told
<1>9. \/ r = "allowed" /\ [u \in Submissions |-> Told(result'[u])] = [told EXCEPT ![s] = "allowed"]
      \/ [u \in Submissions |-> Told(result'[u])] = [told EXCEPT ![s] = "refused"]
  BY <1>4
<1> HIDE DEF told
<1>10. Promise!Publish(s)
  BY <1>2, <1>3, <1>6, <1>7, <1>8, <1>9 DEF Promise!Publish
<1> QED BY <1>10 DEF Promise!VoteNext

\* Every step is one of the promise, or none that it sees.
LEMMA PromiseStep == ClusterInv /\ [Next]_vars => [Promise!VoteNext]_Promise!voteVars
<1> SUFFICES ASSUME ClusterInv, [Next]_vars PROVE Promise!VoteNext \/ UNCHANGED Promise!voteVars
  OBVIOUS
<1>1. UNCHANGED <<logs, result>> => UNCHANGED Promise!voteVars
  BY DEF Promise!voteVars
<1>2. ASSUME NEW s \in Submissions, Submit(s) PROVE Promise!VoteNext \/ UNCHANGED <<logs, result>>
  <2>1. CASE Record(s)
    BY <2>1, HandleKept DEF ClusterInv
  <2>2. CASE KernelRaises(s) \/ Tally(s)
    BY <2>2, PublishKept DEF ClusterInv
  <2>3. CASE Begin(s) \/ Decide(s)
    BY <2>3 DEF Begin, Decide
  <2> QED BY <1>2, <2>1, <2>2, <2>3 DEF Submit
<1>3. CASE Verify
  BY <1>1, <1>3 DEF Verify, StartVerify, CheckNode, MergeNode, submitting
<1>4. CASE UNCHANGED vars
  BY <1>1, <1>4 DEF vars
<1> QED BY <1>1, <1>2, <1>3, <1>4 DEF Next

\* For every cluster and any number of callers at once: a kernel decides a
\* submission once, what a caller was told stays, and "allowed" has its quorum.
THEOREM PromiseRefinementCorrect == Spec => PromiseRefinement
<1>1. Init => Promise!VoteInit
  BY DEF Init, Promise!VoteInit
<1> QED BY <1>1, PromiseStep, ClusterInvariant, PTL DEF Spec, PromiseRefinement, Promise!VoteSpec
=============================================================================
