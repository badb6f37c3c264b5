--------------------------- MODULE CliHome_proofs ---------------------------
(***************************************************************************)
(* The safety properties of CliHome, for any command lines, logs, names,   *)
(* keys and values, and any bounds on turns and kills.  ShapeInv types     *)
(* what the others look into; ApprovedInv and PromotedInv follow a draft   *)
(* on its way to the live skills; LogsInv and DistillInv follow the turns  *)
(* of the logs into the drafts; SetsInv follows a value set alone.         *)
(***************************************************************************)
EXTENDS CliHome, SequenceTheorems, FiniteSetTheorems, TLAPS

-----------------------------------------------------------------------------
(* Types and places.                                                       *)

Steps == {"idle", "begun", "turn", "save", "read", "open", "fill", "remove", "done", "dead"}

ShapeInv ==
    /\ cmd \in Plans
    /\ pc \in [Procs -> Steps]
    /\ DOMAIN held = Procs /\ DOMAIN todo = Procs /\ DOMAIN read = Procs
    /\ DOMAIN drafts = Names /\ DOMAIN skills = Names
    /\ \A p \in Procs : pc[p] \in {"turn", "save"} => cmd[p].op \in {"repl", "oneshot"}
    /\ \A p \in Procs : cmd[p].op = "set" => pc[p] \in {"idle", "begun", "fill", "done", "dead"}

LEMMA InitShape == Init => ShapeInv
  BY DEF Init, ShapeInv, Steps

LEMMA ShapeStep == ASSUME ShapeInv, [Next]_vars PROVE ShapeInv'
  <1>1. CASE UNCHANGED vars
    BY <1>1 DEF ShapeInv, vars, home, local
  <1>2. ASSUME NEW p \in Procs, Begin(p) \/ Configures(p) PROVE ShapeInv'
    BY <1>2 DEF ShapeInv, Steps, Begin, Configures, SetRefused, SetOpens, SetFills, At, GoTo, Hold,
                Running, home, local, history
  <1>3. ASSUME NEW p \in Procs, Talks(p) PROVE ShapeInv'
    BY <1>3 DEF ShapeInv, Steps, Talks, Launch, OneTurn, TurnDies, Quit, Save, At, GoTo, Hold,
                home, local, history
  <1>4. ASSUME NEW p \in Procs, Distills(p) PROVE ShapeInv'
    BY <1>4 DEF ShapeInv, Steps, Distills, DistillLists, DistillReads, DistillCounts, DistillOpens,
                DistillFills, At, GoTo, home, local, history
  <1>5. ASSUME NEW p \in Procs, Promotes(p) PROVE ShapeInv'
    BY <1>5 DEF ShapeInv, Steps, Promotes, ApproveReads, SkillOpens, SkillFills, RemoveDraft, NewLooks,
                Edit, At, GoTo, Hold, home, local, history
  <1>6. ASSUME NEW p \in Procs, Kill(p) PROVE ShapeInv'
    BY <1>6 DEF ShapeInv, Steps, Kill, home, local
  <1> QED BY <1>1, <1>2, <1>3, <1>4, <1>5, <1>6 DEF Next

-----------------------------------------------------------------------------
(* The way of a draft to the live skills.                                  *)

\* A text that is live, loaded or about to be live is approved, if it is a draft.
ApprovedInv ==
    /\ OnlyApprovedLoad
    /\ \A n \in Names : IsDraft(skills[n]) => <<n, skills[n]>> \in approved
    /\ \A p \in Procs : cmd[p].op = "approve" /\ pc[p] \in {"open", "fill", "remove"} =>
         <<cmd[p].name, held[p]>> \in approved
    /\ \A p \in Procs : cmd[p].op = "new" /\ pc[p] \in {"open", "fill"} => held[p] = Todo

\* An approve that is about to remove the draft has written it.
PromotedInv ==
    \A p \in Procs : cmd[p].op = "approve" /\ pc[p] = "remove" =>
        <<cmd[p].name, held[p]>> \in promoted

LEMMA NoDrafts == ~IsDraft(Absent) /\ ~IsDraft(Blank) /\ ~IsDraft(Mixed) /\ ~IsDraft(Todo) /\ ~IsDraft(Edited)
  BY DEF IsDraft, Absent, Blank, Mixed, Todo, Edited

LEMMA InitApproved == Init => ApprovedInv /\ PromotedInv
  BY NoDrafts DEF Init, ApprovedInv, PromotedInv, OnlyApprovedLoad

\* A step of p that has no part in approving: it neither makes a text live nor
\* loads one, and p does not come to where an approve or a new writes.
LEMMA ApprovedElsewhere ==
    ASSUME ShapeInv, ApprovedInv, PromotedInv, NEW p \in Procs, cmd' = cmd,
           \A q \in Procs \ {p} : pc'[q] = pc[q] /\ held'[q] = held[q],
           cmd[p].op \in {"approve", "new"} => pc'[p] \notin {"open", "fill", "remove"},
           \A n \in Names : IsDraft(skills'[n]) => skills'[n] = skills[n],
           UNCHANGED <<loaded, approved, promoted>>
    PROVE  ApprovedInv' /\ PromotedInv'
  BY DEF ApprovedInv, PromotedInv, OnlyApprovedLoad

LEMMA ApprovedStep == ASSUME ShapeInv, ApprovedInv, PromotedInv, [Next]_vars
                      PROVE  ApprovedInv' /\ PromotedInv'
  <1>1. CASE UNCHANGED vars
    BY <1>1 DEF ApprovedInv, PromotedInv, OnlyApprovedLoad, vars, home, local, history
  <1>2. ASSUME NEW p \in Procs, Begin(p) \/ Configures(p) PROVE ApprovedInv' /\ PromotedInv'
    BY <1>2, ApprovedElsewhere
       DEF ShapeInv, Begin, Configures, SetRefused, SetOpens, SetFills, At, GoTo, Hold, home, local, history
  <1>3. ASSUME NEW p \in Procs, Launch(p) PROVE ApprovedInv' /\ PromotedInv'
    <2>1. \A n \in Names : IsDraft(skills[n]) => <<n, skills[n]>> \in approved
      BY DEF ApprovedInv
    <2>2. \A l \in loaded' : IsDraft(l[2]) => l \in approved'
      BY <1>3, <2>1 DEF Launch, ApprovedInv, OnlyApprovedLoad
    <2> QED BY <1>3, <2>2 DEF Launch, ShapeInv, At, GoTo, home, local, ApprovedInv, PromotedInv, OnlyApprovedLoad
  <1>4. ASSUME NEW p \in Procs, OneTurn(p) \/ TurnDies(p) \/ Quit(p) \/ Save(p) PROVE ApprovedInv' /\ PromotedInv'
    BY <1>4, ApprovedElsewhere
       DEF ShapeInv, OneTurn, TurnDies, Quit, Save, At, GoTo, Hold, home, local, history
  <1>5. ASSUME NEW p \in Procs, Distills(p) PROVE ApprovedInv' /\ PromotedInv'
    BY <1>5, ApprovedElsewhere
       DEF ShapeInv, Distills, DistillLists, DistillReads, DistillCounts, DistillOpens, DistillFills,
           At, GoTo, home, local, history
  <1>6. ASSUME NEW p \in Procs, ApproveReads(p) PROVE ApprovedInv' /\ PromotedInv'
    BY <1>6 DEF ShapeInv, ApproveReads, At, GoTo, Hold, home, local, ApprovedInv, PromotedInv, OnlyApprovedLoad
  <1>7. ASSUME NEW p \in Procs, SkillOpens(p) PROVE ApprovedInv' /\ PromotedInv'
    BY <1>7, NoDrafts DEF ShapeInv, SkillOpens, At, GoTo, local, history, ApprovedInv, PromotedInv, OnlyApprovedLoad
  <1>8. ASSUME NEW p \in Procs, SkillFills(p) PROVE ApprovedInv' /\ PromotedInv'
    <2>1. PICK t \in Written(skills[cmd[p].name], held[p]) : skills' = [skills EXCEPT ![cmd[p].name] = t]
      BY <1>8 DEF SkillFills
    <2>2. IsDraft(t) => <<cmd[p].name, t>> \in approved
      BY <1>8, <2>1, NoDrafts DEF SkillFills, At, Written, ApprovedInv
    <2>3. \A n \in Names : IsDraft(skills'[n]) => <<n, skills'[n]>> \in approved
      BY <2>1, <2>2 DEF ShapeInv, ApprovedInv
    <2> QED BY <1>8, <2>3 DEF ShapeInv, SkillFills, At, GoTo, local, ApprovedInv, PromotedInv, OnlyApprovedLoad
  <1>9. ASSUME NEW p \in Procs, RemoveDraft(p) \/ Edit(p) PROVE ApprovedInv' /\ PromotedInv'
    BY <1>9, ApprovedElsewhere, NoDrafts DEF ShapeInv, RemoveDraft, Edit, At, GoTo, local, history
  <1>10. ASSUME NEW p \in Procs, NewLooks(p) PROVE ApprovedInv' /\ PromotedInv'
    BY <1>10 DEF ShapeInv, NewLooks, At, GoTo, Hold, home, history, ApprovedInv, PromotedInv, OnlyApprovedLoad
  <1>11. ASSUME NEW p \in Procs, Kill(p) PROVE ApprovedInv' /\ PromotedInv'
    BY <1>11, ApprovedElsewhere DEF ShapeInv, Kill, home, local
  <1> QED BY <1>1, <1>2, <1>3, <1>4, <1>5, <1>6, <1>7, <1>8, <1>9, <1>10, <1>11
             DEF Next, Talks, Promotes

\* A distilled text that a REPL has loaded was read by an approve, whatever
\* distill, approve, new, edit and reject do at once.
THEOREM OnlyApprovedLoadCorrect == Spec => []OnlyApprovedLoad
  <1>1. Init => ShapeInv /\ ApprovedInv /\ PromotedInv
    BY InitShape, InitApproved
  <1>2. ShapeInv /\ ApprovedInv /\ PromotedInv /\ [Next]_vars => (ShapeInv /\ ApprovedInv /\ PromotedInv)'
    BY ShapeStep, ApprovedStep
  <1>3. ApprovedInv => OnlyApprovedLoad
    BY DEF ApprovedInv
  <1> QED BY <1>1, <1>2, <1>3, PTL DEF Spec

\* The processes that may take a complete draft away.
LEMMA DraftsSurviveStep ==
    ASSUME ShapeInv, PromotedInv, [Next]_vars,
           NEW n \in Names, IsDraft(drafts[n]), drafts'[n] # drafts[n]
    PROVE  \E p \in Procs :
                /\ pc'[p] # pc[p]
                /\ \/ cmd[p].op = "reject" /\ cmd[p].name = n
                   \/ cmd[p].op = "distill" /\ Head(todo[p]).name = n
                   \/ /\ cmd[p].op = "approve" /\ cmd[p].name = n
                      /\ <<n, drafts[n]>> \in promoted \/ held[p] # drafts[n]
  <1>1. CASE UNCHANGED vars
    BY <1>1 DEF vars, home
  <1>2. ASSUME NEW p \in Procs, Begin(p) \/ Configures(p) \/ Talks(p) \/ Kill(p) PROVE FALSE
    BY <1>2 DEF Begin, Configures, SetRefused, SetOpens, SetFills, Talks, Launch, OneTurn, TurnDies, Quit,
                Save, Kill, home
  <1>3. ASSUME NEW p \in Procs, DistillLists(p) \/ DistillReads(p) \/ DistillCounts(p) PROVE FALSE
    BY <1>3 DEF DistillLists, DistillReads, DistillCounts, home
  <1>4. ASSUME NEW p \in Procs, DistillOpens(p) \/ DistillFills(p)
        PROVE  pc'[p] # pc[p] /\ cmd[p].op = "distill" /\ Head(todo[p]).name = n
    BY <1>4 DEF ShapeInv, DistillOpens, DistillFills, At, GoTo
  <1>5. ASSUME NEW p \in Procs, ApproveReads(p) \/ SkillOpens(p) \/ SkillFills(p) \/ NewLooks(p) \/ Edit(p)
        PROVE  FALSE
    BY <1>5 DEF ApproveReads, SkillOpens, SkillFills, NewLooks, Edit, home
  <1>6. ASSUME NEW p \in Procs, RemoveDraft(p)
        PROVE  /\ pc'[p] # pc[p] /\ cmd[p].name = n
               /\ \/ cmd[p].op = "reject"
                  \/ cmd[p].op = "approve" /\ (<<n, drafts[n]>> \in promoted \/ held[p] # drafts[n])
    BY <1>6 DEF ShapeInv, PromotedInv, RemoveDraft, At, GoTo
  <1> QED BY <1>1, <1>2, <1>3, <1>4, <1>5, <1>6 DEF Next, Distills, Promotes

\* A complete draft is lost only to a reject, to a distill that writes its name
\* again, or to an approve that has made it live or read it before it was
\* written again.
THEOREM DraftsSurviveCorrect == Spec => DraftsSurvive
  <1>1. Init => ShapeInv /\ ApprovedInv /\ PromotedInv
    BY InitShape, InitApproved
  <1>2. ShapeInv /\ ApprovedInv /\ PromotedInv /\ [Next]_vars => (ShapeInv /\ ApprovedInv /\ PromotedInv)'
    BY ShapeStep, ApprovedStep
  <1>3. ASSUME ShapeInv, PromotedInv, [Next]_vars
        PROVE  [\A n \in Names : IsDraft(drafts[n]) /\ drafts'[n] # drafts[n] =>
            \E p \in Procs :
                /\ pc'[p] # pc[p]
                /\ \/ cmd[p].op = "reject" /\ cmd[p].name = n
                   \/ cmd[p].op = "distill" /\ Head(todo[p]).name = n
                   \/ /\ cmd[p].op = "approve" /\ cmd[p].name = n
                      /\ <<n, drafts[n]>> \in promoted \/ held[p] # drafts[n]]_vars
    BY <1>3, DraftsSurviveStep
  <1> QED BY <1>1, <1>2, <1>3, PTL DEF Spec, DraftsSurvive

-----------------------------------------------------------------------------
(* The session logs.                                                       *)

\* A log has a file of its own, whole once its process has written it.
LogsInv ==
    /\ sessions \in Seq(Log)
    /\ \A i, j \in DOMAIN sessions : sessions[i].id = sessions[j].id => i = j
    /\ \A p \in Procs : pc[p] \in {"idle", "begun", "turn"} =>
         \A i \in DOMAIN sessions : sessions[i].id # p
    /\ \A p \in Procs : pc[p] = "save" =>
         \A i \in DOMAIN sessions : sessions[i].id = p => ~IsWhole(sessions[i])
    /\ \A p \in Procs : pc[p] \in {"turn", "save"} => held[p] \in Seq(Turn)
    /\ \A p \in Procs : cmd[p].op \in {"repl", "oneshot"} /\ pc[p] = "begun" => held[p] = <<>>

\* A whole log stays in its file as it is.
WholeStay == \A i \in DOMAIN sessions : IsWhole(sessions[i]) =>
                \E j \in DOMAIN sessions' : sessions'[j] = sessions[i]

LEMMA LogShape == ASSUME NEW log \in Log
                  PROVE  log.id \in LogIds /\ (IsWhole(log) => log.turns \in Seq(Turn))
  BY DEF Log, IsWhole

LEMMA InitLogs == Init => LogsInv
  <1> SUFFICES ASSUME Init PROVE LogsInv
    OBVIOUS
  <1>1. \A i \in DOMAIN sessions : sessions[i].id \notin Procs
    BY SessionsAssumption DEF Init
  <1>2. \A i, j \in DOMAIN sessions : sessions[i].id = sessions[j].id => i = j
    BY SessionsAssumption DEF Init
  <1>3. sessions \in Seq(Log)
    BY SessionsAssumption DEF Init
  <1> QED BY <1>1, <1>2, <1>3 DEF Init, LogsInv

\* Dropping an element of a sequence and appending another.
LEMMA RemoveProperties ==
    ASSUME NEW S, NEW seq \in Seq(S), NEW i \in DOMAIN seq
    PROVE  /\ RemoveAt(seq, i) \in Seq(S)
           /\ Len(RemoveAt(seq, i)) = Len(seq) - 1
           /\ \A j \in 1..(Len(seq) - 1) : RemoveAt(seq, i)[j] = IF j < i THEN seq[j] ELSE seq[j + 1]
  <1> DEFINE front == SubSeq(seq, 1, i - 1)
             back == SubSeq(seq, i + 1, Len(seq))
  <1>1. i \in 1..Len(seq) /\ Len(seq) \in Nat /\ \A k \in 1..Len(seq) : seq[k] \in S
    BY LenProperties, ElementOfSeq
  <1>2. /\ front \in Seq(S) /\ Len(front) = i - 1
        /\ \A k \in 1..(i - 1) : front[k] = seq[k]
    <2>1. 1 \in Int /\ i - 1 \in Int /\ \A k \in 1..(i - 1) : seq[k] \in S
      BY <1>1
    <2>2. /\ front \in Seq(S) /\ Len(front) = IF 1 <= i - 1 THEN (i - 1) - 1 + 1 ELSE 0
          /\ \A k \in 1..((i - 1) - 1 + 1) : front[k] = seq[1 + k - 1]
      BY <2>1, SubSeqProperties
    <2> QED BY <1>1, <2>2
  <1>3. /\ back \in Seq(S) /\ Len(back) = Len(seq) - i
        /\ \A k \in 1..(Len(seq) - i) : back[k] = seq[i + k]
    <2>1. i + 1 \in Int /\ Len(seq) \in Int /\ \A k \in (i + 1)..Len(seq) : seq[k] \in S
      BY <1>1
    <2>2. /\ back \in Seq(S) /\ Len(back) = IF i + 1 <= Len(seq) THEN Len(seq) - (i + 1) + 1 ELSE 0
          /\ \A k \in 1..(Len(seq) - (i + 1) + 1) : back[k] = seq[(i + 1) + k - 1]
      BY <2>1, SubSeqProperties
    <2> QED BY <1>1, <2>2
  <1> HIDE DEF front, back
  <1>4. /\ front \o back \in Seq(S)
        /\ Len(front \o back) = Len(front) + Len(back)
        /\ \A k \in 1..(Len(front) + Len(back)) :
             (front \o back)[k] = IF k <= Len(front) THEN front[k] ELSE back[k - Len(front)]
    BY <1>2, <1>3, ConcatProperties
  <1>5. RemoveAt(seq, i) = front \o back
    BY DEF RemoveAt, front, back
  <1>6. Len(front) + Len(back) = Len(seq) - 1
    BY <1>1, <1>2, <1>3
  <1>7. ASSUME NEW j \in 1..(Len(seq) - 1)
        PROVE  (front \o back)[j] = IF j < i THEN seq[j] ELSE seq[j + 1]
    <2>1. CASE j < i
      BY <1>1, <1>2, <1>4, <1>6, <2>1
    <2>2. CASE ~(j < i)
      <3>1. j - (i - 1) \in 1..(Len(seq) - i) /\ i + (j - (i - 1)) = j + 1 /\ ~(j <= i - 1)
        BY <1>1, <2>2
      <3>2. back[j - (i - 1)] = seq[j + 1]
        BY <1>3, <3>1
      <3> QED BY <1>2, <1>4, <1>6, <2>2, <3>1, <3>2
    <2> QED BY <2>1, <2>2
  <1> QED BY <1>4, <1>5, <1>6, <1>7

\* A log that is written whole moves to the end.
LEMMA SaveMoves ==
    ASSUME LogsInv, NEW p \in Procs, Save(p)
    PROVE  /\ sessions' \in Seq(Log) /\ WholeStay
           /\ \A i, j \in DOMAIN sessions' : sessions'[i].id = sessions'[j].id => i = j
           /\ \A j \in DOMAIN sessions' :
                sessions'[j].id = p \/ \E i \in DOMAIN sessions : sessions[i] = sessions'[j]
  <1>1. PICK i \in DOMAIN sessions :
           sessions[i].id = p /\ sessions' = Append(RemoveAt(sessions, i), [id |-> p, turns |-> held[p]])
    BY DEF Save
  <1> DEFINE rest == RemoveAt(sessions, i)
             log == [id |-> p, turns |-> held[p]]
             n == Len(sessions)
  <1>2. sessions \in Seq(Log) /\ n \in Nat /\ DOMAIN sessions = 1..n /\ i \in 1..n /\ n = Len(sessions)
    BY LenProperties DEF LogsInv
  <1>3. /\ rest \in Seq(Log) /\ Len(rest) = n - 1
        /\ \A j \in 1..(n - 1) : rest[j] = IF j < i THEN sessions[j] ELSE sessions[j + 1]
    BY <1>2, RemoveProperties
  <1>4. log \in Log /\ log.id = p
    BY DEF LogsInv, Save, Log, LogIds
  <1> HIDE DEF rest, log, n
  <1>5. /\ sessions' \in Seq(Log) /\ Len(sessions') = n
        /\ \A j \in 1..(n - 1) : sessions'[j] = rest[j]
        /\ sessions'[n] = log
    <2>1. sessions' = Append(rest, log)
      BY <1>1 DEF rest, log
    <2>2. /\ Append(rest, log) \in Seq(Log) /\ Len(Append(rest, log)) = Len(rest) + 1
          /\ \A j \in 1..Len(rest) : Append(rest, log)[j] = rest[j]
          /\ Append(rest, log)[Len(rest) + 1] = log
      BY <1>3, <1>4, AppendProperties
    <2>3. Len(rest) + 1 = n
      BY <1>2, <1>3
    <2> QED BY <1>3, <2>1, <2>2, <2>3
  <1>6. DOMAIN sessions' = 1..n
    BY <1>2, <1>5, LenProperties
  <1>7. WholeStay
    <2> SUFFICES ASSUME NEW k \in 1..n, IsWhole(sessions[k]) PROVE \E j \in 1..n : sessions'[j] = sessions[k]
      BY <1>2, <1>6 DEF WholeStay
    <2>1. k # i
      BY <1>1 DEF LogsInv, Save
    <2>2. CASE k < i
      BY <1>2, <1>3, <1>5, <2>2
    <2>3. CASE k > i
      <3>1. k - 1 \in 1..(n - 1) /\ ~(k - 1 < i) /\ (k - 1) + 1 = k
        BY <1>2, <2>3
      <3>2. sessions'[k - 1] = sessions[k]
        BY <1>3, <1>5, <3>1
      <3> QED BY <3>1, <3>2, <1>2
    <2> QED BY <1>2, <2>1, <2>2, <2>3
  <1>8. \A j \in 1..n : j = n \/ j \in 1..(n - 1)
    <2>1. n \in Nat
      BY <1>2
    <2> QED BY <2>1
  <1> DEFINE from(j) == IF j < i THEN j ELSE j + 1
  <1>9. ASSUME NEW j \in 1..(n - 1)
        PROVE  from(j) \in 1..n /\ from(j) # i /\ sessions'[j] = sessions[from(j)]
    BY <1>2, <1>3, <1>5
  <1>10. ASSUME NEW j \in 1..(n - 1) PROVE sessions'[j].id # p
    BY <1>1, <1>2, <1>9 DEF LogsInv
  <1>11. ASSUME NEW j \in 1..n, NEW k \in 1..n, sessions'[j].id = sessions'[k].id PROVE j = k
    <2>1. CASE j \in 1..(n - 1) /\ k \in 1..(n - 1)
      <3>1. from(j) = from(k)
        BY <1>2, <1>9, <1>11, <2>1 DEF LogsInv
      <3> QED BY <1>2, <2>1, <3>1
    <2>2. CASE j = n /\ k \in 1..(n - 1)
      BY <1>4, <1>5, <1>10, <1>11, <2>2
    <2>3. CASE k = n /\ j \in 1..(n - 1)
      BY <1>4, <1>5, <1>10, <1>11, <2>3
    <2> QED BY <1>8, <2>1, <2>2, <2>3
  <1>12. ASSUME NEW j \in 1..n
         PROVE  sessions'[j].id = p \/ \E k \in 1..n : sessions[k] = sessions'[j]
    <2>1. CASE j = n
      BY <1>4, <1>5, <2>1
    <2>2. CASE j \in 1..(n - 1)
      BY <1>9, <2>2
    <2> QED BY <1>8, <2>1, <2>2
  <1> QED BY <1>2, <1>5, <1>6, <1>7, <1>11, <1>12

\* A step that leaves the logs as they are.
LEMMA LogsElsewhere ==
    ASSUME LogsInv, NEW p \in Procs, cmd' = cmd, sessions' = sessions,
           \A q \in Procs \ {p} : pc'[q] = pc[q] /\ held'[q] = held[q],
           pc'[p] \in {"idle", "begun", "turn"} => pc[p] \in {"idle", "begun", "turn"},
           pc'[p] # "save",
           pc'[p] = "turn" => held'[p] \in Seq(Turn),
           cmd[p].op \in {"repl", "oneshot"} /\ pc'[p] = "begun" => held'[p] = <<>>
    PROVE  LogsInv' /\ WholeStay
  BY DEF LogsInv, WholeStay

LEMMA LogsStep == ASSUME ShapeInv, LogsInv, [Next]_vars PROVE LogsInv' /\ WholeStay
  <1>1. CASE UNCHANGED vars
    BY <1>1 DEF LogsInv, WholeStay, vars, home, local
  <1>2. ASSUME NEW p \in Procs, Begin(p) \/ Configures(p) PROVE LogsInv' /\ WholeStay
    BY <1>2, LogsElsewhere
       DEF ShapeInv, Begin, Configures, SetRefused, SetOpens, SetFills, At, GoTo, Hold, home, local, history
  <1>3. ASSUME NEW p \in Procs, Launch(p) PROVE LogsInv' /\ WholeStay
    <2>1. held[p] = <<>>
      BY <1>3 DEF Launch, At, LogsInv
    <2>2. <<>> \in Seq(Turn)
      BY EmptySeq
    <2> QED BY <1>3, <2>1, <2>2, LogsElsewhere DEF ShapeInv, Launch, At, GoTo, home, local
  <1>4. ASSUME NEW p \in Procs, OneTurn(p) PROVE LogsInv' /\ WholeStay
    <2>1. held[p] \in Seq(Turn) /\ <<>> \in Turn
      BY <1>4, EmptySeq DEF OneTurn, At, LogsInv, Turn
    <2>2. held'[p] \in Seq(Turn)
      BY <1>4, <2>1, AppendProperties DEF ShapeInv, OneTurn, Hold
    <2> QED BY <1>4, <2>2, LogsElsewhere DEF ShapeInv, OneTurn, At, GoTo, Hold, home
  <1>5. ASSUME NEW p \in Procs, TurnDies(p) PROVE LogsInv' /\ WholeStay
    BY <1>5, LogsElsewhere DEF ShapeInv, TurnDies, At, GoTo, home, local
  <1>6. ASSUME NEW p \in Procs, Quit(p) PROVE LogsInv' /\ WholeStay
    <2> DEFINE log == [id |-> p]
               n == Len(sessions)
    <2>1. log \in Log /\ ~IsWhole(log) /\ log.id = p
      BY DEF Log, LogIds, IsWhole
    <2>2. sessions \in Seq(Log) /\ n \in Nat /\ DOMAIN sessions = 1..n
      BY LenProperties DEF LogsInv
    <2>3. /\ sessions' \in Seq(Log) /\ Len(sessions') = n + 1
          /\ \A i \in 1..n : sessions'[i] = sessions[i]
          /\ sessions'[n + 1] = log
      BY <1>6, <2>1, <2>2, AppendProperties DEF Quit
    <2> HIDE DEF log
    <2>4. DOMAIN sessions' = 1..(n + 1)
      BY <2>2, <2>3, LenProperties
    <2>5. WholeStay
      BY <2>2, <2>3, <2>4 DEF WholeStay
    <2>6. pc[p] = "turn" /\ \A i \in 1..n : sessions[i].id # p
      BY <1>6, <2>2 DEF Quit, At, LogsInv
    <2>7. ASSUME NEW i \in 1..(n + 1), NEW j \in 1..(n + 1), sessions'[i].id = sessions'[j].id PROVE i = j
      BY <2>1, <2>2, <2>3, <2>6, <2>7 DEF LogsInv
    <2>8. ASSUME NEW i \in 1..(n + 1) PROVE i \in 1..n \/ sessions'[i] = log
      BY <2>2, <2>3
    <2>9. /\ \A q \in Procs : pc'[q] = IF q = p THEN "save" ELSE pc[q]
          /\ held' = held /\ cmd' = cmd
      BY <1>6 DEF Quit, GoTo, ShapeInv, local
    <2>10. ASSUME NEW q \in Procs, pc'[q] \in {"idle", "begun", "turn"}, NEW i \in 1..(n + 1)
           PROVE  sessions'[i].id # q
      BY <2>1, <2>2, <2>3, <2>8, <2>9, <2>10 DEF LogsInv
    <2>11. ASSUME NEW q \in Procs, pc'[q] = "save", NEW i \in 1..(n + 1), sessions'[i].id = q
           PROVE  ~IsWhole(sessions'[i])
      BY <2>1, <2>2, <2>3, <2>6, <2>8, <2>9, <2>11 DEF LogsInv
    <2>12. ASSUME NEW q \in Procs
           PROVE  /\ pc'[q] \in {"turn", "save"} => held'[q] \in Seq(Turn)
                  /\ cmd'[q].op \in {"repl", "oneshot"} /\ pc'[q] = "begun" => held'[q] = <<>>
      BY <2>6, <2>9 DEF LogsInv
    <2> QED BY <2>3, <2>4, <2>5, <2>7, <2>10, <2>11, <2>12 DEF LogsInv
  <1>7. ASSUME NEW p \in Procs, Save(p) PROVE LogsInv' /\ WholeStay
    <2>1. /\ \A q \in Procs : pc'[q] = IF q = p THEN "done" ELSE pc[q]
          /\ held' = held /\ cmd' = cmd
      BY <1>7 DEF Save, GoTo, ShapeInv, local
    <2>2. ASSUME NEW q \in Procs, pc'[q] \in {"idle", "begun", "turn"}, NEW j \in DOMAIN sessions'
          PROVE  sessions'[j].id # q
      BY <1>7, <2>1, <2>2, SaveMoves DEF LogsInv
    <2>3. ASSUME NEW q \in Procs, pc'[q] = "save", NEW j \in DOMAIN sessions', sessions'[j].id = q
          PROVE  ~IsWhole(sessions'[j])
      BY <1>7, <2>1, <2>3, SaveMoves DEF LogsInv
    <2> QED BY <1>7, <2>1, <2>2, <2>3, SaveMoves DEF LogsInv
  <1>8. ASSUME NEW p \in Procs, Distills(p) PROVE LogsInv' /\ WholeStay
    BY <1>8, LogsElsewhere
       DEF ShapeInv, Distills, DistillLists, DistillReads, DistillCounts, DistillOpens, DistillFills,
           At, GoTo, home, local, history
  <1>9. ASSUME NEW p \in Procs, Promotes(p) PROVE LogsInv' /\ WholeStay
    BY <1>9, LogsElsewhere
       DEF ShapeInv, Promotes, ApproveReads, SkillOpens, SkillFills, RemoveDraft, NewLooks, Edit,
           At, GoTo, Hold, home, local, history
  <1>10. ASSUME NEW p \in Procs, Kill(p) PROVE LogsInv' /\ WholeStay
    BY <1>10, LogsElsewhere DEF ShapeInv, Kill, home, local
  <1> QED BY <1>1, <1>2, <1>3, <1>4, <1>5, <1>6, <1>7, <1>8, <1>9, <1>10 DEF Next, Talks

-----------------------------------------------------------------------------
(* Counting the sightings of a pattern.                                    *)

LEMMA PlacesProperties ==
    ASSUME NEW logs \in Seq(Log), NEW place \in Places(logs)
    PROVE  /\ place = <<place[1], place[2]>>
           /\ place[1] \in DOMAIN logs /\ IsWhole(logs[place[1]])
           /\ place[2] \in DOMAIN logs[place[1]].turns
           /\ logs[place[1]].turns[place[2]] # <<>>
  BY DEF Places

LEMMA PlacesIntro ==
    ASSUME NEW logs \in Seq(Log), NEW i \in DOMAIN logs, IsWhole(logs[i]),
           NEW j \in DOMAIN logs[i].turns, logs[i].turns[j] # <<>>
    PROVE  <<i, j>> \in Places(logs)
  BY DEF Places

LEMMA PlacesAreFinite == ASSUME NEW logs \in Seq(Log) PROVE IsFiniteSet(Places(logs))
  <1> DEFINE whole == {i \in DOMAIN logs : IsWhole(logs[i])}
             calls(i) == {j \in DOMAIN logs[i].turns : logs[i].turns[j] # <<>>}
             of(i) == {i} \X calls(i)
  <1>1. IsFiniteSet(whole)
    <2>1. IsFiniteSet(DOMAIN logs)
      BY LenProperties, FS_Interval
    <2> QED BY <2>1, FS_Subset
  <1>2. ASSUME NEW i \in whole PROVE IsFiniteSet(of(i))
    <2>1. logs[i] \in Log
      BY LenProperties
    <2>2. logs[i].turns \in Seq(Turn)
      BY <2>1, LogShape
    <2>3. IsFiniteSet(DOMAIN logs[i].turns)
      <3>1. Len(logs[i].turns) \in Nat /\ DOMAIN logs[i].turns = 1..Len(logs[i].turns)
        BY <2>2, LenProperties
      <3> QED BY <3>1, FS_Interval
    <2>4. IsFiniteSet(calls(i))
      BY <2>3, FS_Subset
    <2> QED BY <2>4, FS_Singleton, FS_Product
  <1> DEFINE f == [i \in whole |-> of(i)]
             all == {of(i) : i \in whole}
  <1>3. IsFiniteSet(all)
    <2>1. f \in Surjection(whole, all)
      BY DEF Surjection
    <2> QED BY <1>1, <2>1, FS_Surjection
  <1>4. \A T \in all : IsFiniteSet(T)
    BY <1>2
  <1> HIDE DEF all
  <1>5. IsFiniteSet(UNION all)
    BY <1>3, <1>4, FS_UNION
  <1> QED BY <1>5 DEF all, Places

LEMMA CountIsNat == ASSUME NEW logs \in Seq(Log), NEW seq
                    PROVE  IsFiniteSet(Sighted(logs, seq)) /\ Count(logs, seq) \in Nat
  <1>1. Sighted(logs, seq) \in SUBSET Places(logs)
    BY DEF Sighted
  <1>2. IsFiniteSet(Sighted(logs, seq))
    BY <1>1, PlacesAreFinite, FS_Subset
  <1> QED BY <1>2, FS_CardinalityType DEF Count

\* Logs that hold the whole logs of others hold their sightings, if those are
\* different logs.
LEMMA CountGrows ==
    ASSUME NEW logs \in Seq(Log), NEW more \in Seq(Log), NEW seq,
           \A i, j \in DOMAIN logs : logs[i].id = logs[j].id => i = j,
           \A i \in DOMAIN logs : IsWhole(logs[i]) => \E j \in DOMAIN more : more[j] = logs[i]
    PROVE  Count(logs, seq) <= Count(more, seq)
  <1> DEFINE at(place) == CHOOSE j \in DOMAIN more : more[j] = logs[place[1]]
             to == [place \in Sighted(logs, seq) |-> <<at(place), place[2]>>]
  <1>1. ASSUME NEW place \in Sighted(logs, seq)
        PROVE  /\ place \in Places(logs)
               /\ at(place) \in DOMAIN more /\ more[at(place)] = logs[place[1]]
    BY PlacesProperties DEF Sighted
  <1> HIDE DEF at
  <1>2. ASSUME NEW place \in Sighted(logs, seq)
        PROVE  <<at(place), place[2]>> \in Sighted(more, seq)
    <2>1. <<at(place), place[2]>> \in Places(more)
      BY <1>1, PlacesProperties, PlacesIntro
    <2>2. PatternAt(more, <<at(place), place[2]>>) = PatternAt(logs, place)
      BY <1>1 DEF PatternAt
    <2>3. PatternAt(logs, place) = seq
      BY DEF Sighted
    <2> QED BY <2>1, <2>2, <2>3 DEF Sighted
  <1>3. ASSUME NEW p \in Sighted(logs, seq), NEW q \in Sighted(logs, seq),
               <<at(p), p[2]>> = <<at(q), q[2]>>
        PROVE  p = q
    <2>1. at(p) = at(q) /\ p[2] = q[2]
      BY <1>3
    <2>2. p[1] = q[1]
      BY <1>1, <2>1, PlacesProperties
    <2> QED BY <1>1, <2>1, <2>2, PlacesProperties
  <1>4. to \in Injection(Sighted(logs, seq), Sighted(more, seq))
    BY <1>2, <1>3 DEF Injection, IsInjective
  <1> QED BY <1>4, CountIsNat, FS_Injection DEF Count

LEMMA SightingsGrow ==
    ASSUME LogsInv, LogsInv', WholeStay, NEW seq
    PROVE  Sightings(seq) <= Sightings(seq)' /\ Sightings(seq) \in Nat /\ Sightings(seq)' \in Nat
  <1>1. Count(sessions, seq) <= Count(sessions', seq)
    BY CountGrows DEF LogsInv, WholeStay
  <1>2. Count(sessions, seq) \in Nat /\ Count(sessions', seq) \in Nat
    BY CountIsNat DEF LogsInv
  <1>3. Sightings(seq)' = Count(sessions', seq)
    BY DEF Sightings, Count, Sighted, Places, PatternAt
  <1> QED BY <1>1, <1>2, <1>3 DEF Sightings

-----------------------------------------------------------------------------
(* Distilling.                                                             *)

\* The logs a distill has read are in their files, each read once, and none of
\* those it has yet to read is among them.
Reads(p) ==
    /\ todo[p] \in Seq(LogIds)
    /\ \A k, l \in DOMAIN todo[p] : todo[p][k] = todo[p][l] => k = l
    /\ read[p] \in Seq(Log)
    /\ \A k, l \in DOMAIN read[p] : read[p][k].id = read[p][l].id => k = l
    /\ \A k \in DOMAIN read[p] : \A l \in DOMAIN todo[p] : read[p][k].id # todo[p][l]
    /\ \A k \in DOMAIN read[p] : IsWhole(read[p][k]) /\ \E i \in DOMAIN sessions : sessions[i] = read[p][k]

\* A text with no more sightings than the logs hold, and as many as were asked for.
Supported(text) ==
    /\ text[3] \in Nat /\ text[3] <= Sightings(text[2])
    /\ \E p \in Procs : cmd[p].op = "distill" /\ cmd[p].min <= text[3]

Kinds == {"path", "pattern", "any"}
Item == [name : Nat \X STRING, text : {"draft"} \X Seq(STRING \X Kinds) \X Nat]

\* What a distill has yet to write is supported, and what is written is.
DistillInv ==
    /\ \A p \in Procs : pc[p] \in {"idle", "begun"} => read[p] = <<>>
    /\ \A p \in Procs : cmd[p].op = "distill" /\ pc[p] = "read" => Reads(p)
    /\ \A p \in Procs : cmd[p].op = "distill" /\ pc[p] \in {"open", "fill"} =>
         /\ todo[p] \in Seq(Item) /\ todo[p] # <<>>
         /\ \A k \in DOMAIN todo[p] : Supported(todo[p][k].text)
    /\ \A n \in Names : IsDraft(drafts[n]) => Supported(drafts[n])

LEMMA InitDistill == Init => DistillInv
  BY NoDrafts DEF Init, DistillInv

\* What is supported stays so, and what was read stays in its file.
LEMMA SupportedStays ==
    ASSUME LogsInv, LogsInv', WholeStay, cmd' = cmd, NEW text, Supported(text)
    PROVE  Supported(text)'
  <1>1. Sightings(text[2]) <= Sightings(text[2])' /\ Sightings(text[2]) \in Nat /\ Sightings(text[2])' \in Nat
    BY SightingsGrow
  <1> QED BY <1>1 DEF Supported

LEMMA ReadsStay ==
    ASSUME WholeStay, NEW p, Reads(p), todo'[p] = todo[p], read'[p] = read[p]
    PROVE  Reads(p)'
  <1>1. \A k \in DOMAIN read[p] : \E i \in DOMAIN sessions' : sessions'[i] = read[p][k]
    BY DEF Reads, WholeStay
  <1> QED BY <1>1 DEF Reads

\* A step of another command, or of p before it lists and after it ends.
LEMMA DistillElsewhere ==
    ASSUME ShapeInv, LogsInv, LogsInv', WholeStay, DistillInv, NEW p \in Procs, cmd' = cmd,
           \A q \in Procs \ {p} : pc'[q] = pc[q],
           todo' = todo, read' = read,
           pc'[p] \in {"idle", "begun"} => pc[p] \in {"idle", "begun"},
           cmd[p].op = "distill" => pc'[p] \notin {"read", "open", "fill"},
           \A n \in Names : IsDraft(drafts'[n]) => drafts'[n] = drafts[n]
    PROVE  DistillInv'
  <1>1. \A q \in Procs : pc'[q] \in {"idle", "begun"} => read'[q] = <<>>
    BY DEF DistillInv
  <1>2. ASSUME NEW q \in Procs, cmd'[q].op = "distill", pc'[q] = "read" PROVE Reads(q)'
    <2>1. Reads(q)
      BY <1>2 DEF DistillInv
    <2> QED BY <2>1, ReadsStay
  <1>3. ASSUME NEW q \in Procs, cmd'[q].op = "distill", pc'[q] \in {"open", "fill"}
        PROVE  (/\ todo[q] \in Seq(Item) /\ todo[q] # <<>>
                /\ \A k \in DOMAIN todo[q] : Supported(todo[q][k].text))'
    <2>1. /\ todo[q] \in Seq(Item) /\ todo[q] # <<>>
          /\ \A k \in DOMAIN todo[q] : Supported(todo[q][k].text)
      BY <1>3 DEF DistillInv
    <2> QED BY <2>1, SupportedStays
  <1>4. ASSUME NEW n \in Names, IsDraft(drafts'[n]) PROVE Supported(drafts[n])'
    BY <1>4, SupportedStays DEF DistillInv
  <1> QED BY <1>1, <1>2, <1>3, <1>4 DEF DistillInv

LEMMA SupportedSame == ASSUME cmd' = cmd, sessions' = sessions, NEW text
                       PROVE  Supported(text)' <=> Supported(text)
  BY DEF Supported, Sightings, Count, Sighted, Places, PatternAt

Writes(p) == /\ todo[p] \in Seq(Item) /\ todo[p] # <<>>
             /\ \A k \in DOMAIN todo[p] : Supported(todo[p][k].text)

\* A step of distill p: the logs stay, and so does what the other commands do.
LEMMA DistillHere ==
    ASSUME ShapeInv, DistillInv, NEW p \in Procs, cmd' = cmd, sessions' = sessions, cmd[p].op = "distill",
           \A q \in Procs \ {p} : pc'[q] = pc[q] /\ todo'[q] = todo[q] /\ read'[q] = read[q],
           pc'[p] \notin {"idle", "begun"},
           pc'[p] = "read" => Reads(p)',
           pc'[p] \in {"open", "fill"} => Writes(p)',
           \A n \in Names : IsDraft(drafts'[n]) => drafts'[n] = drafts[n] \/ Supported(drafts'[n])
    PROVE  DistillInv'
  <1>1. \A q \in Procs : pc'[q] \in {"idle", "begun"} => read'[q] = <<>>
    BY DEF DistillInv
  <1>2. ASSUME NEW q \in Procs, cmd'[q].op = "distill", pc'[q] = "read" PROVE Reads(q)'
    <2>1. CASE q = p
      BY <1>2, <2>1
    <2>2. CASE q # p
      <3>1. Reads(q) /\ todo'[q] = todo[q] /\ read'[q] = read[q]
        BY <1>2, <2>2 DEF DistillInv
      <3> QED BY <3>1 DEF Reads
    <2> QED BY <2>1, <2>2
  <1>3. ASSUME NEW q \in Procs, cmd'[q].op = "distill", pc'[q] \in {"open", "fill"} PROVE Writes(q)'
    <2>1. CASE q = p
      BY <1>3, <2>1
    <2>2. CASE q # p
      <3>1. Writes(q) /\ todo'[q] = todo[q]
        BY <1>3, <2>2 DEF DistillInv, Writes
      <3> QED BY <3>1, SupportedSame DEF Writes
    <2> QED BY <2>1, <2>2
  <1>4. ASSUME NEW n \in Names, IsDraft(drafts'[n]) PROVE Supported(drafts[n])'
    BY <1>4, SupportedSame DEF DistillInv
  <1> QED BY <1>1, <1>2, <1>3, <1>4 DEF DistillInv, Writes

LEMMA RecentProperties ==
    ASSUME NEW files \in Seq(Log), NEW n \in Int
    PROVE  \E a \in Int : /\ a >= 1 /\ Recent(files, n) \in Seq(Log)
                          /\ \A k \in DOMAIN Recent(files, n) :
                               k + a - 1 \in DOMAIN files /\ Recent(files, n)[k] = files[k + a - 1]
  <1> DEFINE a == IF n <= 0 THEN 1 - n ELSE IF n > Len(files) THEN 1 ELSE Len(files) - n + 1
  <1>1. Len(files) \in Nat /\ DOMAIN files = 1..Len(files) /\ \A i \in 1..Len(files) : files[i] \in Log
    BY LenProperties, ElementOfSeq
  <1>2. a \in Int /\ a >= 1
    BY <1>1
  <1> HIDE DEF a
  <1>3. \A i \in a..Len(files) : files[i] \in Log
    BY <1>1, <1>2
  <1> DEFINE recent == SubSeq(files, a, Len(files))
  <1>4. /\ recent \in Seq(Log)
        /\ Len(recent) = IF a <= Len(files) THEN Len(files) - a + 1 ELSE 0
        /\ \A k \in 1..(Len(files) - a + 1) : recent[k] = files[a + k - 1]
    BY <1>1, <1>2, <1>3, SubSeqProperties
  <1>5. DOMAIN recent = 1..Len(recent)
    BY <1>4, LenProperties
  <1>6. Recent(files, n) = recent
    BY DEF Recent, a
  <1> HIDE DEF recent
  <1>7. ASSUME NEW k \in DOMAIN recent PROVE k + a - 1 \in DOMAIN files /\ recent[k] = files[k + a - 1]
    <2>1. k \in 1..(Len(files) - a + 1) /\ a <= Len(files)
      BY <1>1, <1>2, <1>4, <1>5
    <2>2. k + a - 1 \in 1..Len(files) /\ a + k - 1 = k + a - 1
      BY <1>1, <1>2, <2>1
    <2> QED BY <1>1, <1>4, <2>1, <2>2
  <1> QED BY <1>2, <1>4, <1>6, <1>7

LEMMA ListsReads == ASSUME ShapeInv, LogsInv, DistillInv, NEW p \in Procs, DistillLists(p) PROVE Reads(p)'
  <1> DEFINE files == Recent(sessions, cmd[p].last)
  <1>1. cmd[p].last \in Int
    BY PlansAssumption DEF ShapeInv, DistillLists, At
  <1>2. PICK a \in Int : /\ a >= 1 /\ files \in Seq(Log)
                         /\ \A k \in DOMAIN files :
                              k + a - 1 \in DOMAIN sessions /\ files[k] = sessions[k + a - 1]
    BY <1>1, RecentProperties DEF LogsInv
  <1>3. todo'[p] = [i \in DOMAIN files |-> files[i].id] /\ read'[p] = <<>>
    BY DEF DistillLists, ShapeInv, DistillInv, At
  <1> HIDE DEF files
  <1>4. Len(files) \in Nat /\ DOMAIN files = 1..Len(files) /\ \A i \in DOMAIN files : files[i] \in Log
    BY <1>2, LenProperties, ElementOfSeq
  <1>5. todo'[p] \in Seq(LogIds)
    <2>1. \A i \in DOMAIN files : files[i].id \in LogIds
      BY <1>4, LogShape
    <2> QED BY <1>3, <1>4, <2>1, IsASeq
  <1>6. ASSUME NEW k \in DOMAIN files, NEW l \in DOMAIN files, files[k].id = files[l].id PROVE k = l
    <2>1. k + a - 1 = l + a - 1
      BY <1>2, <1>6 DEF LogsInv
    <2> QED BY <1>2, <1>4, <2>1
  <1>7. \A k, l \in DOMAIN todo'[p] : todo'[p][k] = todo'[p][l] => k = l
    BY <1>3, <1>6
  <1>8. DOMAIN read'[p] = {} /\ read'[p] \in Seq(Log)
    BY <1>3
  <1> QED BY <1>5, <1>7, <1>8 DEF Reads

LEMMA TailProperties ==
    ASSUME NEW S, NEW seq \in Seq(S), seq # <<>>
    PROVE  /\ Head(seq) = seq[1] /\ Tail(seq) \in Seq(S) /\ 1 \in DOMAIN seq
           /\ \A k \in DOMAIN Tail(seq) : k + 1 \in DOMAIN seq /\ k + 1 # 1 /\ Tail(seq)[k] = seq[k + 1]
  <1>1. Len(seq) \in Nat \ {0} /\ DOMAIN seq = 1..Len(seq) /\ Head(seq) = seq[1]
    BY EmptySeq, LenProperties
  <1>2. Tail(seq) \in Seq(S) /\ Len(Tail(seq)) = Len(seq) - 1
    BY HeadTailProperties
  <1>3. DOMAIN Tail(seq) = 1..(Len(seq) - 1)
    BY <1>2, LenProperties
  <1>4. ASSUME NEW k \in 1..(Len(seq) - 1) PROVE Tail(seq)[k] = seq[k + 1]
    BY <1>1, <1>4
  <1> QED BY <1>1, <1>2, <1>3, <1>4

LEMMA ReadsRead == ASSUME ShapeInv, LogsInv, DistillInv, NEW p \in Procs, DistillReads(p) PROVE Reads(p)'
  <1> DEFINE id == Head(todo[p])
             log == CHOOSE log \in Whole(id) : TRUE
  <1>1. Reads(p) /\ todo[p] # <<>> /\ todo'[p] = Tail(todo[p]) /\ sessions' = sessions
    BY DEF DistillReads, At, DistillInv, ShapeInv, home
  <1>2. /\ todo[p] \in Seq(LogIds) /\ read[p] \in Seq(Log)
        /\ \A k, l \in DOMAIN todo[p] : todo[p][k] = todo[p][l] => k = l
        /\ \A k, l \in DOMAIN read[p] : read[p][k].id = read[p][l].id => k = l
        /\ \A k \in DOMAIN read[p] : \A l \in DOMAIN todo[p] : read[p][k].id # todo[p][l]
        /\ \A k \in DOMAIN read[p] : IsWhole(read[p][k]) /\ \E i \in DOMAIN sessions : sessions[i] = read[p][k]
    BY <1>1 DEF Reads
  <1>3. /\ id = todo[p][1] /\ Tail(todo[p]) \in Seq(LogIds) /\ 1 \in DOMAIN todo[p]
        /\ \A k \in DOMAIN Tail(todo[p]) :
             k + 1 \in DOMAIN todo[p] /\ k + 1 # 1 /\ Tail(todo[p])[k] = todo[p][k + 1]
    BY <1>1, <1>2, TailProperties
  <1> HIDE DEF id
  <1>4. \A k, l \in DOMAIN Tail(todo[p]) : Tail(todo[p])[k] = Tail(todo[p])[l] => k = l
    <2> SUFFICES ASSUME NEW k \in DOMAIN Tail(todo[p]), NEW l \in DOMAIN Tail(todo[p]),
                        Tail(todo[p])[k] = Tail(todo[p])[l]
                 PROVE  k = l
      OBVIOUS
    <2>1. k + 1 = l + 1
      BY <1>2, <1>3
    <2>2. k \in Int /\ l \in Int
      BY <1>3, LenProperties
    <2> QED BY <2>1, <2>2
  <1>5. \A k \in DOMAIN read[p] : \A l \in DOMAIN Tail(todo[p]) : read[p][k].id # Tail(todo[p])[l]
    BY <1>2, <1>3
  <1>6. CASE Whole(id) = {}
    <2>1. read'[p] = read[p]
      BY <1>6 DEF DistillReads, id
    <2> QED BY <1>1, <1>2, <1>3, <1>4, <1>5, <2>1 DEF Reads
  <1>7. CASE Whole(id) # {}
    <2>1. log \in Whole(id)
      BY <1>7
    <2>2. read'[p] = Append(read[p], log)
      BY <1>7 DEF DistillReads, ShapeInv, id
    <2> HIDE DEF log
    <2>3. log.id = id /\ IsWhole(log) /\ \E i \in DOMAIN sessions : sessions[i] = log
      BY <2>1, LenProperties DEF Whole, ToSet, LogsInv
    <2>4. log \in Log
      BY <2>3, LenProperties DEF LogsInv
    <2> DEFINE n == Len(read[p])
    <2>5. /\ n \in Nat /\ DOMAIN read[p] = 1..n /\ read'[p] \in Seq(Log) /\ DOMAIN read'[p] = 1..(n + 1)
          /\ \A k \in 1..n : read'[p][k] = read[p][k]
          /\ read'[p][n + 1] = log
      <3>1. /\ Append(read[p], log) \in Seq(Log) /\ Len(Append(read[p], log)) = n + 1
            /\ \A k \in 1..n : Append(read[p], log)[k] = read[p][k]
            /\ Append(read[p], log)[n + 1] = log
        BY <1>2, <2>4, AppendProperties
      <3>2. n \in Nat /\ DOMAIN read[p] = 1..n
        BY <1>2, LenProperties
      <3>3. DOMAIN Append(read[p], log) = 1..(n + 1)
        BY <3>1, LenProperties
      <3> QED BY <2>2, <3>1, <3>2, <3>3
    <2> HIDE DEF n
    <2>6. \A k \in 1..(n + 1) : k = n + 1 \/ k \in 1..n
      BY <2>5
    <2>7. \A k \in 1..n : read[p][k].id # id
      BY <1>2, <1>3, <2>5
    <2>8. \A k, l \in 1..(n + 1) : read'[p][k].id = read'[p][l].id => k = l
      BY <1>2, <2>3, <2>5, <2>6, <2>7
    <2>9. \A k \in DOMAIN Tail(todo[p]) : Tail(todo[p])[k] # id
      BY <1>2, <1>3
    <2>10. \A k \in 1..(n + 1) : \A l \in DOMAIN Tail(todo[p]) : read'[p][k].id # Tail(todo[p])[l]
      BY <1>5, <2>3, <2>5, <2>6, <2>9
    <2>11. \A k \in 1..(n + 1) : IsWhole(read'[p][k]) /\ \E i \in DOMAIN sessions : sessions[i] = read'[p][k]
      BY <1>2, <2>3, <2>5, <2>6
    <2>12. /\ \A k, l \in DOMAIN read'[p] : read'[p][k].id = read'[p][l].id => k = l
           /\ \A k \in DOMAIN read'[p] : \A l \in DOMAIN todo'[p] : read'[p][k].id # todo'[p][l]
           /\ \A k \in DOMAIN read'[p] : IsWhole(read'[p][k]) /\ \E i \in DOMAIN sessions' : sessions'[i] = read'[p][k]
      BY <1>1, <2>5, <2>8, <2>10, <2>11
    <2>13. /\ read'[p] \in Seq(Log) /\ todo'[p] \in Seq(LogIds)
           /\ \A k, l \in DOMAIN todo'[p] : todo'[p][k] = todo'[p][l] => k = l
      BY <1>1, <1>3, <1>4, <2>5
    <2> QED BY <2>12, <2>13 DEF Reads
  <1> QED BY <1>6, <1>7

\* What a pattern looks like, and that of a place of the logs.
LEMMA PatternShape ==
    ASSUME NEW logs \in Seq(Log), NEW place \in Places(logs)
    PROVE  /\ PatternAt(logs, place) \in Seq(STRING \X Kinds)
           /\ PatternAt(logs, place)[1][1] \in STRING
  <1> DEFINE turn == logs[place[1]].turns[place[2]]
  <1>1. logs[place[1]] \in Log /\ IsWhole(logs[place[1]])
    BY PlacesProperties, LenProperties
  <1>2. logs[place[1]].turns \in Seq(Turn)
    BY <1>1, LogShape
  <1>3. turn \in Turn /\ turn # <<>>
    BY <1>2, PlacesProperties, LenProperties
  <1> HIDE DEF turn
  <1>4. Len(turn) \in Nat \ {0} /\ DOMAIN turn = 1..Len(turn)
    BY <1>3, EmptySeq, LenProperties DEF Turn
  <1>5. ASSUME NEW i \in 1..Len(turn) PROVE <<turn[i].tool, ArgsKind(turn[i].args)>> \in STRING \X Kinds
    <2>1. turn[i] \in [tool : STRING, args : SUBSET STRING]
      BY <1>3, ElementOfSeq DEF Turn
    <2>2. turn[i].tool \in STRING
      BY <2>1
    <2>3. ArgsKind(turn[i].args) \in Kinds
      BY Zenon DEF ArgsKind, Kinds
    <2> QED BY <2>2, <2>3
  <1>6. PatternAt(logs, place) = [i \in 1..Len(turn) |-> <<turn[i].tool, ArgsKind(turn[i].args)>>]
    BY <1>4 DEF PatternAt, Pattern, turn
  <1>7. PatternAt(logs, place) \in Seq(STRING \X Kinds)
    BY <1>4, <1>5, <1>6, IsASeq
  <1> QED BY <1>4, <1>6, <1>7

LEMMA CountsWrites ==
    ASSUME ShapeInv, LogsInv, DistillInv, NEW p \in Procs, DistillCounts(p), pc'[p] = "open"
    PROVE  Writes(p)'
  <1> DEFINE repeated == Repeated(read[p], cmd[p].min)
  <1>1. Reads(p)
    BY DEF DistillCounts, At, DistillInv
  <1>2. PICK ranked \in [1..Cardinality(repeated) -> repeated] : todo'[p] = ToWrite(read[p], ranked)
    BY DEF DistillCounts, Ranked, ShapeInv
  <1>3. read[p] \in Seq(Log)
    BY <1>1 DEF Reads
  <1>4. IsFiniteSet(repeated)
    <2> DEFINE at == [place \in Places(read[p]) |-> PatternAt(read[p], place)]
               patterns == {PatternAt(read[p], place) : place \in Places(read[p])}
    <2>1. at \in Surjection(Places(read[p]), patterns)
      BY DEF Surjection
    <2>2. IsFiniteSet(patterns)
      BY <1>3, <2>1, PlacesAreFinite, FS_Surjection
    <2> QED BY <2>2, FS_Subset DEF Repeated
  <1> DEFINE n == Cardinality(repeated)
  <1>5. n \in Nat
    BY <1>4, FS_CardinalityType
  <1>6. ASSUME NEW seq \in repeated
        PROVE  /\ seq \in Seq(STRING \X Kinds) /\ seq[1][1] \in STRING
               /\ Count(read[p], seq) \in Nat /\ cmd[p].min <= Count(read[p], seq)
               /\ Count(read[p], seq) <= Sightings(seq)
    <2>1. PICK place \in Places(read[p]) : seq = PatternAt(read[p], place)
      BY DEF Repeated
    <2>2. cmd[p].min \in Int
      BY PlansAssumption DEF ShapeInv, DistillCounts, At
    <2>3. Count(read[p], seq) \in Nat /\ Count(read[p], seq) >= cmd[p].min
      BY <1>3, CountIsNat DEF Repeated
    <2>4. Count(read[p], seq) <= Count(sessions, seq)
      BY <1>1, CountGrows DEF Reads, LogsInv
    <2> QED BY <1>3, <2>1, <2>2, <2>3, <2>4, PatternShape DEF Sightings
  <1> HIDE DEF repeated, n
  <1> DEFINE item(i) == [name |-> <<i, ranked[i][1][1]>>, text |-> Draft(ranked[i], Count(read[p], ranked[i]))]
  <1>7. ranked \in [1..n -> repeated] /\ DOMAIN ranked = 1..n
    BY <1>2 DEF n
  <1>8. todo'[p] = [i \in 1..n |-> item(i)]
    BY <1>2, <1>7 DEF ToWrite
  <1>9. ASSUME NEW i \in 1..n PROVE item(i) \in Item
    <2>1. /\ ranked[i] \in Seq(STRING \X Kinds) /\ ranked[i][1][1] \in STRING
          /\ Count(read[p], ranked[i]) \in Nat
      BY <1>6, <1>7
    <2>2. <<i, ranked[i][1][1]>> \in Nat \X STRING
      BY <1>5, <2>1
    <2>3. Draft(ranked[i], Count(read[p], ranked[i])) \in {"draft"} \X Seq(STRING \X Kinds) \X Nat
      BY <2>1 DEF Draft
    <2> QED BY <2>2, <2>3 DEF Item
  <1>10. \A i \in 1..n : Supported(item(i).text)
    <2> SUFFICES ASSUME NEW i \in 1..n PROVE Supported(item(i).text)
      OBVIOUS
    <2> DEFINE text == Draft(ranked[i], Count(read[p], ranked[i]))
    <2>1. text[2] = ranked[i] /\ text[3] = Count(read[p], ranked[i]) /\ item(i).text = text
      BY DEF Draft
    <2>2. ranked[i] \in repeated
      BY <1>7
    <2> HIDE DEF text
    <2>3. cmd[p].op = "distill"
      BY DEF DistillCounts, At
    <2> QED BY <1>6, <2>1, <2>2, <2>3 DEF Supported
  <1> HIDE DEF item
  <1>11. todo'[p] \in Seq(Item)
    BY <1>5, <1>8, <1>9, IsASeq
  <1>12. todo'[p] # <<>>
    BY DEF DistillCounts, GoTo, ShapeInv
  <1>13. cmd' = cmd /\ sessions' = sessions
    BY DEF DistillCounts, GoTo, home
  <1>14. (\A k \in DOMAIN todo[p] : Supported(todo[p][k].text))'
    BY <1>8, <1>10, <1>13, SupportedSame
  <1> QED BY <1>11, <1>12, <1>14 DEF Writes

LEMMA DistillsStep ==
    ASSUME ShapeInv, LogsInv, DistillInv, NEW p \in Procs, Distills(p)
    PROVE  DistillInv'
  <1>1. CASE DistillLists(p)
    BY <1>1, ListsReads, DistillHere DEF ShapeInv, DistillLists, At, GoTo, home
  <1>2. CASE DistillReads(p)
    BY <1>2, ReadsRead, DistillHere DEF ShapeInv, DistillReads, At, GoTo, home
  <1>3. CASE DistillCounts(p)
    BY <1>3, CountsWrites, DistillHere DEF ShapeInv, DistillCounts, At, GoTo, home
  <1>4. CASE DistillOpens(p)
    <2>1. Writes(p) /\ todo' = todo /\ sessions' = sessions /\ cmd' = cmd
      BY <1>4 DEF DistillOpens, At, GoTo, DistillInv, Writes
    <2>2. Writes(p)'
      BY <2>1, SupportedSame DEF Writes
    <2>3. \A n \in Names : IsDraft(drafts'[n]) => drafts'[n] = drafts[n]
      BY <1>4, NoDrafts DEF ShapeInv, DistillOpens
    <2> QED BY <1>4, <2>1, <2>2, <2>3, DistillHere DEF ShapeInv, DistillOpens, At, GoTo
  <1>5. CASE DistillFills(p)
    <2> DEFINE d == Head(todo[p])
    <2>1. /\ Writes(p) /\ sessions' = sessions /\ cmd' = cmd /\ todo'[p] = Tail(todo[p])
      BY <1>5 DEF DistillFills, At, GoTo, DistillInv, Writes, ShapeInv
    <2>2. /\ d = todo[p][1] /\ 1 \in DOMAIN todo[p] /\ Tail(todo[p]) \in Seq(Item)
          /\ \A k \in DOMAIN Tail(todo[p]) : k + 1 \in DOMAIN todo[p] /\ Tail(todo[p])[k] = todo[p][k + 1]
      BY <2>1, TailProperties DEF Writes
    <2> HIDE DEF d
    <2>3. Supported(d.text)
      BY <2>1, <2>2 DEF Writes
    <2>4. todo'[p] # <<>> => Writes(p)'
      <3>1. \A k \in DOMAIN Tail(todo[p]) : Supported(Tail(todo[p])[k].text)
        BY <2>1, <2>2 DEF Writes
      <3> QED BY <2>1, <2>2, <3>1, SupportedSame DEF Writes
    <2>5. \A n \in Names : IsDraft(drafts'[n]) => drafts'[n] = drafts[n] \/ Supported(drafts'[n])
      <3>1. CASE drafts' = drafts
        BY <3>1
      <3>2. ASSUME NEW t \in Written(drafts[d.name], d.text), drafts' = [drafts EXCEPT ![d.name] = t]
            PROVE  \A n \in Names : IsDraft(drafts'[n]) => drafts'[n] = drafts[n] \/ Supported(drafts'[n])
        <4>1. t = d.text \/ ~IsDraft(t)
          BY NoDrafts DEF Written
        <4> QED BY <2>3, <3>2, <4>1 DEF ShapeInv
      <3> QED BY <1>5, <3>1, <3>2 DEF DistillFills, d
    <2>6. pc'[p] \in {"open", "done"} /\ (pc'[p] = "open" => todo'[p] # <<>>)
      BY <1>5 DEF DistillFills, GoTo, ShapeInv
    <2> QED BY <1>5, <2>1, <2>4, <2>5, <2>6, DistillHere DEF ShapeInv, DistillFills, At, GoTo
  <1> QED BY <1>1, <1>2, <1>3, <1>4, <1>5 DEF Distills

LEMMA DistillStep == ASSUME ShapeInv, LogsInv, DistillInv, LogsInv', WholeStay, [Next]_vars
                     PROVE  DistillInv'
  <1>1. CASE UNCHANGED vars
    BY <1>1, SupportedSame DEF DistillInv, Reads, vars, home, local
  <1>2. ASSUME NEW p \in Procs, Begin(p) \/ Configures(p) PROVE DistillInv'
    BY <1>2, DistillElsewhere
       DEF ShapeInv, Begin, Configures, SetRefused, SetOpens, SetFills, At, GoTo, Hold, home, local, history
  <1>3. ASSUME NEW p \in Procs, Talks(p) PROVE DistillInv'
    BY <1>3, DistillElsewhere
       DEF ShapeInv, LogsInv, Talks, Launch, OneTurn, TurnDies, Quit, Save, At, GoTo, Hold, home, local, history
  <1>4. ASSUME NEW p \in Procs, Promotes(p) PROVE DistillInv'
    BY <1>4, DistillElsewhere, NoDrafts
       DEF ShapeInv, Promotes, ApproveReads, SkillOpens, SkillFills, RemoveDraft, NewLooks, Edit,
           At, GoTo, Hold, home, local, history
  <1>5. ASSUME NEW p \in Procs, Kill(p) PROVE DistillInv'
    BY <1>5, DistillElsewhere DEF ShapeInv, Kill, home, local
  <1> QED BY <1>1, <1>2, <1>3, <1>4, <1>5, DistillsStep DEF Next

\* A draft claims no more sightings than the logs hold, and as many as a distill
\* asked for, whatever is logged while it reads.
THEOREM DraftsAreSupportedCorrect == Spec => []DraftsAreSupported
  <1> DEFINE IInv == ShapeInv /\ LogsInv /\ DistillInv
  <1>1. Init => IInv
    BY InitShape, InitLogs, InitDistill
  <1>2. IInv /\ [Next]_vars => IInv'
    BY ShapeStep, LogsStep, DistillStep
  <1>3. IInv => DraftsAreSupported
    BY DEF DistillInv, Supported, DraftsAreSupported
  <1> QED BY <1>1, <1>2, <1>3, PTL DEF Spec

-----------------------------------------------------------------------------
(* Setting values of config.toml.                                          *)

Accepts(p) == cmd[p].key \in Keys /\ (cmd[p].key = "profile" => cmd[p].value \in Profiles)

\* Sets that met no other: each is the only one that runs, and until it opens the
\* file the file says what those before it set.
SetsInv ==
    /\ \A p \in alone : p \in Procs /\ cmd[p].op = "set" /\ pc[p] \in {"begun", "fill", "done"}
    /\ \A p \in alone : pc[p] \in {"fill", "done"} => Accepts(p)
    /\ alone # {} => \A p, q \in Setting : p = q /\ p \in alone
    /\ \A p \in alone : pc[p] = "done" /\ (\A q \in Setting : pc[q] = "begun") =>
         Load[cmd[p].key] = cmd[p].value
    /\ \A q \in alone : pc[q] = "begun" =>
         /\ DOMAIN held[q] = Keys
         /\ \A k \in Keys \ DOMAIN cmd[q].over : held[q][k] = Load[k]
    /\ \A q \in alone : pc[q] = "fill" =>
         /\ DOMAIN held[q] = Keys /\ held[q][cmd[q].key] = cmd[q].value
         /\ \A p \in alone : pc[p] = "done" /\ cmd[p].key \notin {cmd[q].key} \union DOMAIN cmd[q].over =>
              held[q][cmd[p].key] = cmd[p].value

LEMMA InitSets == Init => SetsInv
  BY DEF Init, SetsInv

\* A step of a command that is no set.
LEMMA SetsElsewhere ==
    ASSUME ShapeInv, SetsInv, NEW p \in Procs, cmd' = cmd, config' = config, alone' = alone,
           \A q \in Procs \ {p} : pc'[q] = pc[q] /\ held'[q] = held[q],
           cmd[p].op # "set"
    PROVE  SetsInv'
  <1>1. Setting' = Setting /\ p \notin Setting /\ p \notin alone
    BY DEF Setting, Running, SetsInv
  <1>2. Load' = Load
    BY DEF Load
  <1>3. \A q \in Setting \union alone : q \in Procs \ {p}
    BY <1>1 DEF Setting, SetsInv
  <1> QED BY <1>1, <1>2, <1>3 DEF SetsInv, Accepts

\* A set that runs alone ends without having opened the file.
LEMMA SetsLeave ==
    ASSUME ShapeInv, SetsInv, NEW p \in Procs, cmd' = cmd, config' = config, alone' = alone \ {p},
           held' = held, pc' \in {[pc EXCEPT ![p] = "done"], [pc EXCEPT ![p] = "dead"]},
           cmd[p].op = "set", pc[p] = "begun"
    PROVE  SetsInv'
  <1>1. p \in Setting /\ Setting' = Setting \ {p}
    BY DEF ShapeInv, Setting, Running
  <1>2. Load' = Load
    BY DEF Load
  <1>3. CASE alone' = {}
    BY <1>3 DEF SetsInv
  <1>4. CASE alone' # {}
    <2>1. Setting = {p}
      BY <1>1, <1>4 DEF SetsInv
    <2>2. Setting' = {}
      BY <1>1, <2>1
    <2>3. \A q \in alone' : q \in Procs \ {p} /\ q \in alone /\ pc'[q] = pc[q] /\ pc'[q] = "done"
      BY <2>1 DEF ShapeInv, SetsInv, Setting, Running
    <2>4. \A q \in alone : pc[q] = "done" => Load[cmd[q].key] = cmd[q].value
      BY <2>1 DEF SetsInv
    <2> QED BY <1>2, <2>2, <2>3, <2>4 DEF SetsInv, Accepts
  <1> QED BY <1>3, <1>4

LEMMA SetsStep == ASSUME ShapeInv, SetsInv, [Next]_vars PROVE SetsInv'
  <1>1. CASE UNCHANGED vars
    BY <1>1 DEF SetsInv, Accepts, Setting, Running, Load, vars, home, local, history
  <1>2. ASSUME NEW p \in Procs, Begin(p) PROVE SetsInv'
    <2>1. /\ cmd' = cmd /\ config' = config /\ pc[p] = "idle"
          /\ \A q \in Procs \ {p} : pc'[q] = pc[q] /\ held'[q] = held[q]
      BY <1>2 DEF Begin, GoTo, Hold, home, ShapeInv
    <2>2. p \notin Setting /\ p \notin alone /\ Load' = Load
      BY <2>1 DEF Setting, Running, SetsInv, Load
    <2>3. CASE cmd[p].op # "set"
      BY <1>2, <2>1, <2>3, SetsElsewhere DEF Begin
    <2>4. CASE cmd[p].op = "set" /\ config.state = "broken"
      <3>1. alone' = alone /\ pc'[p] = "dead"
        BY <1>2, <2>4 DEF Begin, GoTo, ShapeInv
      <3>2. Setting' = Setting
        BY <2>1, <2>2, <3>1 DEF Setting, Running
      <3>3. \A q \in Setting \union alone : q \in Procs \ {p}
        BY <2>2 DEF Setting, SetsInv
      <3> QED BY <2>1, <2>2, <3>1, <3>2, <3>3 DEF SetsInv, Accepts
    <2>5. CASE cmd[p].op = "set" /\ config.state # "broken" /\ Setting # {}
      <3>1. alone' = {}
        BY <1>2, <2>5 DEF Begin
      <3> QED BY <3>1 DEF SetsInv
    <2>6. CASE cmd[p].op = "set" /\ config.state # "broken" /\ Setting = {}
      <3>1. alone' = alone \union {p} /\ pc'[p] = "begun" /\ held'[p] = Effective(p)
        BY <1>2, <2>6 DEF Begin, GoTo, Hold, ShapeInv
      <3>2. Setting' = {p}
        BY <2>1, <2>6, <3>1 DEF Setting, Running
      <3>3. \A q \in alone : q \in Procs \ {p} /\ pc[q] = "done" /\ pc'[q] = "done"
        BY <2>1, <2>2, <2>6 DEF Setting, Running, SetsInv
      <3>4. \A q \in alone : Load[cmd[q].key] = cmd[q].value /\ Accepts(q)
        BY <2>6, <3>3 DEF SetsInv
      <3>5. /\ DOMAIN held'[p] = Keys
            /\ \A k \in Keys \ DOMAIN cmd[p].over : held'[p][k] = Load[k]
        BY <3>1 DEF Effective
      <3>6. /\ \A q \in alone' : q \in Procs /\ cmd'[q].op = "set" /\ pc'[q] \in {"begun", "done"}
            /\ \A q \in alone' : pc'[q] = "done" => q # p /\ q \in alone
            /\ \A q \in alone' : pc'[q] = "begun" => q = p
        BY <2>1, <2>6, <3>1, <3>3 DEF SetsInv
      <3>7. \A q \in alone' : pc'[q] = "done" => Accepts(q)' /\ Load'[cmd'[q].key] = cmd'[q].value
        BY <2>1, <2>2, <3>4, <3>6 DEF Accepts
      <3>8. \A q \in alone' : pc'[q] = "begun" =>
              DOMAIN held'[q] = Keys /\ \A k \in Keys \ DOMAIN cmd'[q].over : held'[q][k] = Load'[k]
        BY <2>1, <2>2, <3>5, <3>6
      <3> QED BY <3>1, <3>2, <3>6, <3>7, <3>8 DEF SetsInv
    <2> QED BY <2>3, <2>4, <2>5, <2>6
  <1>3. ASSUME NEW p \in Procs, SetRefused(p) PROVE SetsInv'
    BY <1>3, SetsLeave DEF SetRefused, At, GoTo, home, local
  <1>4. ASSUME NEW p \in Procs, SetOpens(p) PROVE SetsInv'
    <2>1. /\ cmd' = cmd /\ alone' = alone /\ cmd[p].op = "set" /\ pc[p] = "begun" /\ Accepts(p)
          /\ \A q \in Procs : pc'[q] = IF q = p THEN "fill" ELSE pc[q]
          /\ held'[p] = [held[p] EXCEPT ![cmd[p].key] = cmd[p].value]
      BY <1>4 DEF SetOpens, At, GoTo, Hold, ShapeInv, Accepts, history
    <2>2. p \in Setting /\ Setting' = Setting
      BY <2>1 DEF Setting, Running
    <2>3. CASE alone = {}
      BY <2>1, <2>3 DEF SetsInv
    <2>4. CASE alone # {}
      <3>1. Setting = {p} /\ p \in alone
        BY <2>2, <2>4 DEF SetsInv
      <3>2. \A q \in alone : q \in Procs /\ cmd[q].op = "set" /\ (q = p \/ pc[q] = "done")
        BY <3>1 DEF SetsInv, Setting, Running
      <3>3. /\ DOMAIN held[p] = Keys
            /\ \A k \in Keys \ DOMAIN cmd[p].over : held[p][k] = Load[k]
        BY <2>1, <3>1 DEF SetsInv
      <3>4. \A q \in alone : pc[q] = "done" => Load[cmd[q].key] = cmd[q].value /\ Accepts(q)
        BY <2>1, <3>1 DEF SetsInv
      <3>5. DOMAIN held'[p] = Keys /\ held'[p][cmd[p].key] = cmd[p].value
        BY <2>1, <3>3 DEF Accepts
      <3>6. ASSUME NEW q \in alone, pc[q] = "done", cmd[q].key \notin {cmd[p].key} \union DOMAIN cmd[p].over
            PROVE  held'[p][cmd[q].key] = cmd[q].value
        BY <2>1, <3>3, <3>4, <3>6 DEF Accepts
      <3> QED BY <2>1, <2>2, <3>1, <3>2, <3>4, <3>5, <3>6 DEF SetsInv, Accepts
    <2> QED BY <2>3, <2>4
  <1>5. ASSUME NEW p \in Procs, SetFills(p) PROVE SetsInv'
    <2>1. /\ cmd' = cmd /\ held' = held /\ cmd[p].op = "set" /\ pc[p] = "fill"
          /\ \A q \in Procs : pc'[q] = IF q = p THEN "done" ELSE pc[q]
      BY <1>5 DEF SetFills, At, GoTo, ShapeInv, local
    <2>2. p \in Setting /\ Setting' = Setting \ {p}
      BY <2>1 DEF Setting, Running
    <2>3. CASE alone' = {}
      BY <2>3 DEF SetsInv
    <2>4. CASE alone' # {}
      <3>1. /\ config'.state # "broken"
            /\ alone' = {q \in alone : q = p \/ cmd[q].key \notin {cmd[p].key} \union DOMAIN cmd[p].over}
        BY <1>5, <2>4 DEF SetFills
      <3>2. Setting = {p} /\ p \in alone
        BY <2>2, <2>4, <3>1 DEF SetsInv
      <3>3. \A q \in alone : q \in Procs /\ cmd[q].op = "set" /\ (q = p \/ pc[q] = "done") /\ Accepts(q)
        BY <2>1, <3>2 DEF SetsInv, Setting, Running
      <3>4. config' = [state |-> "whole", of |-> held[p]]
        BY <1>5, <3>1 DEF SetFills, Rendered
      <3>5. \A q \in alone' : held[p][cmd[q].key] = cmd[q].value
        BY <2>1, <3>1, <3>2, <3>3 DEF SetsInv
      <3>6. \A q \in alone' : Load'[cmd[q].key] = cmd[q].value
        BY <3>1, <3>3, <3>4, <3>5 DEF Load, Accepts
      <3> QED BY <2>1, <2>2, <3>1, <3>2, <3>3, <3>6 DEF SetsInv, Accepts
    <2> QED BY <2>3, <2>4
  <1>6. ASSUME NEW p \in Procs, Talks(p) PROVE SetsInv'
    <2>1. cmd[p].op # "set"
      BY <1>6 DEF ShapeInv, Talks, Launch, OneTurn, TurnDies, Quit, Save, At
    <2> QED BY <1>6, <2>1, SetsElsewhere
            DEF ShapeInv, Talks, Launch, OneTurn, TurnDies, Quit, Save, At, GoTo, Hold, home, local, history
  <1>7. ASSUME NEW p \in Procs, Distills(p) PROVE SetsInv'
    BY <1>7, SetsElsewhere
       DEF ShapeInv, Distills, DistillLists, DistillReads, DistillCounts, DistillOpens, DistillFills,
           At, GoTo, home, local, history
  <1>8. ASSUME NEW p \in Procs, Promotes(p) PROVE SetsInv'
    BY <1>8, SetsElsewhere
       DEF ShapeInv, Promotes, ApproveReads, SkillOpens, SkillFills, RemoveDraft, NewLooks, Edit,
           At, GoTo, Hold, home, local, history
  <1>9. ASSUME NEW p \in Procs, Kill(p) PROVE SetsInv'
    <2>1. /\ cmd' = cmd /\ config' = config /\ held' = held /\ pc' = [pc EXCEPT ![p] = "dead"] /\ Running(p)
          /\ alone' = IF cmd[p].op # "set" THEN alone ELSE IF pc[p] = "fill" THEN {} ELSE alone \ {p}
      BY <1>9 DEF Kill, home, local
    <2>2. CASE cmd[p].op # "set"
      BY <2>1, <2>2, SetsElsewhere DEF ShapeInv
    <2>3. CASE cmd[p].op = "set" /\ pc[p] = "fill"
      BY <2>1, <2>3 DEF SetsInv
    <2>4. CASE cmd[p].op = "set" /\ pc[p] # "fill"
      <3>1. pc[p] = "begun"
        BY <2>1, <2>4 DEF ShapeInv, Steps, Running
      <3> QED BY <2>1, <2>4, <3>1, SetsLeave
    <2> QED BY <2>2, <2>3, <2>4
  <1> QED BY <1>1, <1>2, <1>3, <1>4, <1>5, <1>6, <1>7, <1>8, <1>9 DEF Next, Configures

\* A value set while no other set ran is what the next command loads, until its
\* key is set again or a later set saves an option given with it in its place.
THEOREM QuietSetsStickCorrect == Spec => []QuietSetsStick
  <1>1. Init => ShapeInv /\ SetsInv
    BY InitShape, InitSets
  <1>2. ShapeInv /\ SetsInv /\ [Next]_vars => (ShapeInv /\ SetsInv)'
    BY ShapeStep, SetsStep
  <1>3. SetsInv => QuietSetsStick
    BY DEF SetsInv, QuietSetsStick
  <1> QED BY <1>1, <1>2, <1>3, PTL DEF Spec

=============================================================================
