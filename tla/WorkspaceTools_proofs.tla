------------------------ MODULE WorkspaceTools_proofs ------------------------
(***************************************************************************)
(* The properties of the confirm codes and of the files, for any threads,  *)
(* requests, codes, files, commands and lifetimes, with or without the     *)
(* tools enabled.                                                          *)
(* CodesInv says what the dict of codes holds and which codes were used;   *)
(* PurgedInv that a code still there was live when a thread about to take  *)
(* one purged the dict; JobsInv what each thread knows of its call;        *)
(* FilesInv what it is about to write or has left.                         *)
(***************************************************************************)
EXTENDS WorkspaceTools, TLAPS

Places == {"idle", "reply", "look", "purge", "issue", "claim", "open", "run", "fill"}
JobFields == {"call", "checked", "seen", "text", "quiet", "outcome"}

\* What a thread knows of itself: its call, and when it purged the codes.
JobsInv ==
    /\ now \in Nat /\ asked \in Seq(Requests) /\ pc \in [Threads -> Places]
    /\ DOMAIN job = Threads
    /\ \A t \in Threads :
         /\ DOMAIN job[t] = JobFields
         /\ job[t].checked \in Nat /\ job[t].checked <= now
         /\ pc[t] # "idle" => job[t].call \in 1..Len(asked)
         /\ pc[t] = "look" => Request(t).op = "edit"

\* A step of a thread, as the codes see it.
Quiet(t) ==
    /\ pc[t] # "idle" /\ asked' = asked /\ now' = now
    /\ job'[t].call = job[t].call /\ job'[t].checked = job[t].checked
    /\ \A u \in Threads \ {t} :
         pc'[u] = pc[u] /\ job'[u].call = job[u].call /\ job'[u].checked = job[u].checked

\* The steps that leave the call and the time of the purge as they are.
LEMMA QuietSteps ==
    ASSUME JobsInv, NEW t \in Threads,
           Issue(t) \/ Claim(t) \/ Look(t) \/ Open(t) \/ Fill(t) \/ ChangeFails(t) \/ RunShell(t)
    PROVE  Quiet(t) /\ JobsInv'
<1> USE DEF JobsInv
<1>0. /\ pc[t] # "idle" /\ asked' = asked /\ now' = now
      /\ \E place \in Places \ {"idle", "look"} : Goto(t, place)
  BY DEF Issue, Claim, Look, Open, Fill, ChangeFails, RunShell, Confirmed, Answer, At, Places
<1>1. \/ job' = job
      \/ \E outcome : job' = [job EXCEPT ![t].outcome = outcome]
      \/ \E outcome : Touch(t, outcome)
      \/ \E seen, text : job' = [job EXCEPT ![t].seen = seen, ![t].text = text]
  BY Zenon DEF Issue, Claim, Look, Open, Fill, ChangeFails, RunShell, Confirmed, Answer
<1>2. /\ DOMAIN job' = Threads
      /\ \A u \in Threads : /\ DOMAIN job'[u] = JobFields
                            /\ job'[u].call = job[u].call /\ job'[u].checked = job[u].checked
  <2>1. CASE job' = job
    BY <2>1
  <2>2. CASE \E outcome : job' = [job EXCEPT ![t].outcome = outcome]
    BY <2>2 DEF JobFields
  <2>3. CASE \E outcome : Touch(t, outcome)
    BY <2>3 DEF Touch, JobFields
  <2>4. CASE \E seen, text : job' = [job EXCEPT ![t].seen = seen, ![t].text = text]
    BY <2>4 DEF JobFields
  <2> QED BY <1>1, <2>1, <2>2, <2>3, <2>4
<1>3. Quiet(t)
  BY <1>0, <1>2 DEF Quiet, Goto
<1>4. JobsInv'
  BY <1>0, <1>2 DEF Goto, Request
<1> QED BY <1>3, <1>4
\* A purge notes the time.
LEMMA PurgeStep ==
    ASSUME JobsInv, NEW t \in Threads, Purge(t)
    PROVE  /\ JobsInv' /\ asked' = asked /\ now' = now /\ pc[t] = "purge" /\ job'[t].checked = now
           /\ pc'[t] \in {"issue", "claim"} /\ job'[t].call = job[t].call
           /\ \A u \in Threads \ {t} : pc'[u] = pc[u] /\ job'[u] = job[u]
<1> USE DEF JobsInv
<1>1. /\ pc[t] = "purge" /\ asked' = asked /\ now' = now /\ job' = [job EXCEPT ![t].checked = now]
      /\ \E place \in {"issue", "claim"} : pc' = [pc EXCEPT ![t] = place]
  BY DEF Purge, At, Goto
<1>2. /\ DOMAIN job' = Threads
      /\ \A u \in Threads \ {t} : job'[u] = job[u]
      /\ DOMAIN job'[t] = JobFields /\ job'[t].call = job[t].call /\ job'[t].checked = now
  BY <1>1 DEF JobFields
<1>3. pc' \in [Threads -> Places] /\ pc'[t] \in {"issue", "claim"}
      /\ \A u \in Threads \ {t} : pc'[u] = pc[u]
  BY <1>1 DEF Places
<1>4. \A u \in Threads : job'[u].call = job[u].call /\ job'[u].checked \in Nat /\ job'[u].checked <= now
  BY <1>2
<1>5. JobsInv'
  BY <1>1, <1>2, <1>3, <1>4 DEF Request
<1> QED BY <1>1, <1>2, <1>3, <1>5

\* A request that is received is the call of one thread.
LEMMA ReceiveStep ==
    ASSUME JobsInv, NEW t \in Threads, Receive(t)
    PROVE  /\ JobsInv' /\ now' = now /\ pc[t] = "idle" /\ pc'[t] \in {"reply", "look", "purge"}
           /\ \A c \in 1..Len(asked) : asked'[c] = asked[c]
           /\ \A u \in Threads \ {t} : pc'[u] = pc[u] /\ job'[u] = job[u]
<1> USE DEF JobsInv
<1>1. PICK r \in Requests :
         /\ asked' = Append(asked, r)
         /\ job' = [job EXCEPT ![t] =
                      [NoJob EXCEPT !.call = Len(asked) + 1, !.text = r.text,
                                    !.outcome = IF Refused(r) THEN "refused" ELSE "none"]]
         /\ Goto(t, IF Refused(r) THEN "reply" ELSE IF r.op = "edit" THEN "look" ELSE "purge")
  BY DEF Receive
<1>2. /\ Len(asked) \in Nat /\ Len(asked') = Len(asked) + 1 /\ asked' \in Seq(Requests)
      /\ \A c \in 1..Len(asked) : asked'[c] = asked[c]
      /\ asked'[Len(asked) + 1] = r
  BY <1>1
<1>3. DOMAIN job' = Threads /\ \A u \in Threads \ {t} : job'[u] = job[u]
  BY <1>1
<1>4. DOMAIN job'[t] = JobFields /\ job'[t].call = Len(asked) + 1 /\ job'[t].checked = 0
  BY <1>1 DEF NoJob, JobFields
<1>5. /\ pc' \in [Threads -> Places] /\ pc'[t] \in {"reply", "look", "purge"}
      /\ \A u \in Threads \ {t} : pc'[u] = pc[u]
      /\ pc'[t] = "look" => r.op = "edit"
  BY <1>1 DEF Goto, Places
<1>6. now' = now /\ pc[t] = "idle"
  BY DEF Receive, At
<1>7. ASSUME NEW u \in Threads
      PROVE  /\ DOMAIN job'[u] = JobFields /\ job'[u].checked \in Nat /\ job'[u].checked <= now'
             /\ pc'[u] # "idle" => job'[u].call \in 1..Len(asked')
             /\ pc'[u] = "look" => asked'[job'[u].call].op = "edit"
  <2>1. CASE u = t
    BY <1>2, <1>4, <1>5, <1>6, <2>1
  <2>2. CASE u # t
    BY <1>2, <1>3, <1>5, <1>6, <2>2 DEF Request
  <2> QED BY <2>1, <2>2
<1>8. JobsInv'
  BY <1>2, <1>3, <1>5, <1>6, <1>7 DEF Request
<1> QED BY <1>2, <1>3, <1>5, <1>6, <1>8

\* A thread that has replied is free.
LEMMA ReplyStep ==
    ASSUME JobsInv, NEW t \in Threads, Reply(t)
    PROVE  /\ JobsInv' /\ now' = now /\ asked' = asked /\ pc'[t] = "idle"
           /\ \A u \in Threads \ {t} : pc'[u] = pc[u] /\ job'[u] = job[u]
<1> USE DEF JobsInv
<1>1. /\ now' = now /\ asked' = asked /\ pc' = [pc EXCEPT ![t] = "idle"]
      /\ job' = [job EXCEPT ![t] = NoJob]
  BY DEF Reply, Goto
<1>2. /\ DOMAIN job' = Threads /\ job'[t] = NoJob
      /\ \A u \in Threads \ {t} : pc'[u] = pc[u] /\ job'[u] = job[u]
      /\ pc'[t] = "idle" /\ pc' \in [Threads -> Places]
  BY <1>1 DEF Places
<1>3. DOMAIN NoJob = JobFields /\ NoJob.checked = 0
  BY DEF NoJob, JobFields
<1>4. JobsInv'
  BY <1>1, <1>2, <1>3 DEF Request
<1> QED BY <1>1, <1>2, <1>4

-----------------------------------------------------------------------------
(* The codes *)

IssueType == [code : Codes, for : {Wanted(r) : r \in Requests}, at : Nat]

\* A live code stands for one issue, made at the latest now, which nobody has
\* used; of the used ones each was used by one call.
CodesInv ==
    /\ issued \in Seq(IssueType)
    /\ \A i \in 1..Len(issued) : issued[i].at <= now
    /\ \A c \in DOMAIN tokens : tokens[c] \in 1..Len(issued) /\ issued[tokens[c]].code = c
    /\ \A a \in popped : /\ a.issue \in 1..Len(issued)
                         /\ \A c \in DOMAIN tokens : tokens[c] # a.issue
    /\ \A a, b \in popped : a.issue = b.issue => a = b

\* A code that is still there was live when any thread that is about to take
\* one purged the dict.
PurgedInv ==
    \A t \in Threads : pc[t] = "claim" =>
        \A c \in DOMAIN tokens : job[t].checked <= issued[tokens[c]].at + Ttl

\* A call that goes on has used a code for what _fingerprint is taken of.
CallsClaimed ==
    \A t \in Threads :
        pc[t] \in {"open", "fill", "run"} /\ Request(t).op # "edit" =>
            \E a \in popped : /\ a.call = job[t].call
                              /\ a.valid
                              /\ issued[a.issue].for = Wanted(Request(t))
                              /\ a.checked <= issued[a.issue].at + Ttl

ToolsInv == JobsInv /\ CodesInv /\ PurgedInv /\ CallsClaimed

\* Every code was given out at some time.
LEMMA IssuesTimed ==
    ASSUME CodesInv
    PROVE  \A i \in 1..Len(issued) : issued[i] \in IssueType /\ issued[i].at \in Nat
<1>1. \A i \in 1..Len(issued) : issued[i] \in IssueType
  BY DEF CodesInv
<1>2. \A x \in IssueType : x.at \in Nat
  <2> DEFINE wants == {Wanted(r) : r \in Requests}
  <2>1. IssueType = [code : Codes, for : wants, at : Nat]
    BY DEF IssueType
  <2> HIDE DEF wants
  <2> QED BY <2>1
<1> QED BY <1>1, <1>2

\* The steps that leave the codes alone and take no thread to where it needs one.
LEMMA CodesUntouched ==
    ASSUME ToolsInv, JobsInv', UNCHANGED store, now' \in {now, now + 1},
           \A t \in Threads : pc'[t] = "claim" =>
                pc[t] = "claim" /\ job'[t].checked = job[t].checked,
           \A t \in Threads : pc'[t] \in {"open", "fill", "run"} /\ Request(t)'.op # "edit" =>
                /\ pc[t] \in {"open", "fill", "run"} /\ job'[t].call = job[t].call
                /\ Request(t)' = Request(t)
    PROVE  ToolsInv'
<1>1. issued' = issued /\ tokens' = tokens /\ popped' = popped
  BY DEF store
<1>2. CodesInv'
  <2>1. \A i \in 1..Len(issued) : issued[i].at <= now'
    <3>1. now \in Nat /\ \A i \in 1..Len(issued) : issued[i].at \in Nat /\ issued[i].at <= now
      BY IssuesTimed DEF ToolsInv, JobsInv, CodesInv
    <3> QED BY <3>1
  <2> QED BY <1>1, <2>1 DEF ToolsInv, CodesInv
<1>3. PurgedInv'
  BY <1>1 DEF ToolsInv, PurgedInv
<1>4. ASSUME NEW t \in Threads, pc'[t] \in {"open", "fill", "run"}, Request(t)'.op # "edit"
      PROVE  \E a \in popped : /\ a.call = job'[t].call
                               /\ a.valid
                               /\ issued[a.issue].for = Wanted(Request(t)')
                               /\ a.checked <= issued[a.issue].at + Ttl
  BY <1>4 DEF ToolsInv, CallsClaimed
<1>5. CallsClaimed'
  BY <1>1, <1>4 DEF CallsClaimed, Wanted, Head64
<1> QED BY <1>2, <1>3, <1>5 DEF ToolsInv
\* A purge leaves the codes that are live at that moment.
LEMMA PurgeCodes ==
    ASSUME ToolsInv, ToolsAssumption, NEW t \in Threads, Purge(t)
    PROVE  ToolsInv'
<1>1. /\ JobsInv' /\ asked' = asked /\ now' = now /\ job'[t].checked = now
      /\ pc'[t] \in {"issue", "claim"}
      /\ \A u \in Threads \ {t} : pc'[u] = pc[u] /\ job'[u] = job[u]
  BY PurgeStep DEF ToolsInv
<1>2. /\ issued' = issued /\ popped' = popped
      /\ tokens' = [c \in {d \in DOMAIN tokens : Live(tokens[d])} |-> tokens[c]]
  BY DEF Purge
<1>3. \A c \in DOMAIN tokens' : c \in DOMAIN tokens /\ tokens'[c] = tokens[c] /\ Live(tokens[c])
  BY <1>2
<1>4. CodesInv'
  BY <1>1, <1>2, <1>3 DEF ToolsInv, CodesInv
<1>5. PurgedInv'
  <2>1. \A c \in DOMAIN tokens' : now <= issued[tokens[c]].at + Ttl
    <3>1. \A i \in 1..Len(issued) : issued[i].at + Ttl \in Nat
      BY IssuesTimed DEF ToolsInv, ToolsAssumption
    <3>2. \A c \in DOMAIN tokens' : tokens[c] \in 1..Len(issued) /\ Live(tokens[c])
      BY <1>3 DEF ToolsInv, CodesInv
    <3> QED BY <3>1, <3>2 DEF Live, ToolsInv, JobsInv
  <2> QED BY <1>1, <1>2, <1>3, <2>1 DEF PurgedInv, ToolsInv
<1>6. CallsClaimed'
  <2> SUFFICES ASSUME NEW u \in Threads, pc'[u] \in {"open", "fill", "run"}, Request(u)'.op # "edit"
               PROVE  \E a \in popped : /\ a.call = job'[u].call
                                        /\ a.valid
                                        /\ issued[a.issue].for = Wanted(Request(u)')
                                        /\ a.checked <= issued[a.issue].at + Ttl
    BY <1>2 DEF CallsClaimed, Wanted, Head64
  <2>1. pc[u] = pc'[u] /\ job'[u].call = job[u].call /\ Request(u)' = Request(u)
    BY <1>1 DEF Request
  <2> QED BY <2>1 DEF ToolsInv, CallsClaimed
<1> QED BY <1>1, <1>4, <1>5, <1>6 DEF ToolsInv

\* A new code stands for a new issue, over the one it may replace.
LEMMA IssueCodes ==
    ASSUME ToolsInv, ToolsAssumption, NEW t \in Threads, Issue(t)
    PROVE  ToolsInv'
<1>1. Quiet(t) /\ JobsInv' /\ pc'[t] = "reply"
  BY QuietSteps DEF Issue, Answer, Goto, ToolsInv, JobsInv
<1>2. PICK code \in Codes :
        /\ issued' = Append(issued, [code |-> code, for |-> Wanted(Request(t)), at |-> now])
        /\ tokens' = [c \in DOMAIN tokens \cup {code} |->
                        IF c = code THEN Len(issued) + 1 ELSE tokens[c]]
  BY DEF Issue
<1> DEFINE e == [code |-> code, for |-> Wanted(Request(t)), at |-> now]
<1>3. e \in IssueType /\ e.code = code /\ e.at = now /\ now \in Nat
  <2> DEFINE want == Wanted(Request(t))  wants == {Wanted(r) : r \in Requests}
  <2>1. want \in wants
    <3>1. Request(t) \in Requests
      BY <1>1 DEF ToolsInv, JobsInv, Quiet, Request
    <3> QED BY <3>1
  <2>2. IssueType = [code : Codes, for : wants, at : Nat]
    BY DEF IssueType
  <2>3. now \in Nat
    BY DEF ToolsInv, JobsInv
  <2>4. e = [code |-> code, for |-> want, at |-> now]
    OBVIOUS
  <2> HIDE DEF want, wants, e
  <2> QED BY <2>1, <2>2, <2>3, <2>4
<1>4. issued' = Append(issued, e) /\ issued \in Seq(IssueType)
  BY <1>2 DEF ToolsInv, CodesInv
<1> HIDE DEF e
<1>5. /\ issued' \in Seq(IssueType) /\ Len(issued) \in Nat /\ Len(issued') = Len(issued) + 1
      /\ \A i \in 1..Len(issued) : issued'[i] = issued[i]
      /\ issued'[Len(issued) + 1] = e
  BY <1>3, <1>4
<1>6. /\ \A c \in DOMAIN tokens' : c # code => c \in DOMAIN tokens /\ tokens'[c] = tokens[c]
      /\ code \in DOMAIN tokens' /\ tokens'[code] = Len(issued) + 1
      /\ popped' = popped
  BY <1>2 DEF Issue
<1>7. CodesInv'
  <2>1. \A i \in 1..Len(issued') : issued'[i].at <= now'
    BY <1>1, <1>3, <1>5 DEF ToolsInv, CodesInv, Quiet
  <2>2. \A c \in DOMAIN tokens' : tokens'[c] \in 1..Len(issued') /\ issued'[tokens'[c]].code = c
    BY <1>3, <1>5, <1>6 DEF ToolsInv, CodesInv
  <2>3. \A a \in popped : /\ a.issue \in 1..Len(issued')
                          /\ \A c \in DOMAIN tokens' : tokens'[c] # a.issue
    BY <1>5, <1>6 DEF ToolsInv, CodesInv
  <2> QED BY <1>5, <1>6, <2>1, <2>2, <2>3 DEF ToolsInv, CodesInv
<1>8. PurgedInv'
  <2> SUFFICES ASSUME NEW u \in Threads, pc'[u] = "claim", NEW c \in DOMAIN tokens'
               PROVE  job'[u].checked <= issued'[tokens'[c]].at + Ttl
    BY DEF PurgedInv
  <2>1. pc[u] = "claim" /\ job'[u].checked = job[u].checked /\ job[u].checked \in Nat
        /\ job[u].checked <= now
    BY <1>1 DEF Quiet, ToolsInv, JobsInv
  <2>2. CASE c = code
    BY <1>3, <1>5, <1>6, <2>1, <2>2 DEF ToolsAssumption
  <2>3. CASE c # code
    <3>1. c \in DOMAIN tokens /\ tokens'[c] = tokens[c] /\ tokens[c] \in 1..Len(issued)
      BY <1>6, <2>3 DEF ToolsInv, CodesInv
    <3>2. job[u].checked <= issued[tokens[c]].at + Ttl
      BY <2>1, <3>1 DEF ToolsInv, PurgedInv
    <3> QED BY <1>5, <2>1, <3>1, <3>2
  <2> QED BY <2>2, <2>3
<1>9. CallsClaimed'
  <2> SUFFICES ASSUME NEW u \in Threads, pc'[u] \in {"open", "fill", "run"}, Request(u)'.op # "edit"
               PROVE  \E a \in popped : /\ a.call = job'[u].call
                                        /\ a.valid
                                        /\ issued'[a.issue].for = Wanted(Request(u)')
                                        /\ a.checked <= issued'[a.issue].at + Ttl
    BY <1>6 DEF CallsClaimed, Wanted, Head64
  <2>1. pc[u] = pc'[u] /\ job'[u].call = job[u].call /\ Request(u)' = Request(u)
    BY <1>1 DEF Quiet, Request
  <2>2. PICK a \in popped : /\ a.call = job[u].call
                            /\ a.valid
                            /\ issued[a.issue].for = Wanted(Request(u))
                            /\ a.checked <= issued[a.issue].at + Ttl
    BY <2>1 DEF ToolsInv, CallsClaimed
  <2>3. issued'[a.issue] = issued[a.issue]
    BY <1>5 DEF ToolsInv, CodesInv
  <2> QED BY <2>1, <2>2, <2>3
<1> QED BY <1>1, <1>7, <1>8, <1>9 DEF ToolsInv

\* A code that is taken is gone from the dict, and the call it lets through is
\* the one it was given out for.
LEMMA ClaimCodes ==
    ASSUME ToolsInv, ToolsAssumption, NEW t \in Threads, Claim(t)
    PROVE  ToolsInv'
<1>1. Quiet(t) /\ JobsInv' /\ issued' = issued /\ pc[t] = "claim"
  BY QuietSteps DEF Claim, At, ToolsInv
<1> DEFINE code == Request(t).code
           valid == issued[tokens[code]].for = Wanted(Request(t))
           use == [issue |-> tokens[code], call |-> job[t].call,
                   checked |-> job[t].checked, valid |-> valid]
<1>2. pc \in [Threads -> Places] /\ \A u \in Threads : Request(u)' = Request(u)
  <2>1. \A u \in Threads : job'[u].call = job[u].call
    BY <1>1 DEF Quiet
  <2> QED BY <1>1, <2>1 DEF ToolsInv, JobsInv, Request, Quiet
<1>3. CASE code \notin DOMAIN tokens
  <2>1. tokens' = tokens /\ popped' = popped /\ pc'[t] = "reply" /\ now' = now
    BY <1>2, <1>3 DEF Claim, Answer, Goto
  <2>2. UNCHANGED store
    BY <1>1, <2>1 DEF store
  <2>3. \A u \in Threads : pc'[u] = "claim" =>
            pc[u] = "claim" /\ job'[u].checked = job[u].checked
    BY <1>1, <2>1 DEF Quiet
  <2>4. \A u \in Threads : pc'[u] \in {"open", "fill", "run"} /\ Request(u)'.op # "edit" =>
            /\ pc[u] \in {"open", "fill", "run"} /\ job'[u].call = job[u].call
            /\ Request(u)' = Request(u)
    BY <1>1, <1>2, <2>1 DEF Quiet
  <2> QED BY <1>1, <2>1, <2>2, <2>3, <2>4, CodesUntouched
<1>4. CASE code \in DOMAIN tokens
  <2>1. /\ tokens' = [c \in DOMAIN tokens \ {code} |-> tokens[c]]
        /\ popped' = popped \cup {use}
    BY <1>4 DEF Claim
  <2>2. ~valid => pc'[t] = "reply"
    BY <1>2, <1>4 DEF Claim, Answer, Goto
  <2>3. pc'[t] # "claim"
    BY <1>2, <1>4 DEF Claim, Confirmed, Answer, Goto
  <2>4. /\ use.issue = tokens[code] /\ use.call = job[t].call
        /\ use.checked = job[t].checked /\ use.valid = valid
    BY Zenon
  <2>5. \A c \in DOMAIN tokens' : c \in DOMAIN tokens /\ c # code /\ tokens'[c] = tokens[c]
    BY <2>1
  <2>6. CodesInv'
    <3>1. \A c \in DOMAIN tokens : tokens[c] \in 1..Len(issued) /\ issued[tokens[c]].code = c
      BY DEF ToolsInv, CodesInv
    <3>2. \A a \in popped' : a \in popped \/ a.issue = tokens[code]
      BY <2>1, <2>4
    <3>3. \A a \in popped' : /\ a.issue \in 1..Len(issued)
                             /\ \A c \in DOMAIN tokens' : tokens'[c] # a.issue
      BY <1>4, <2>5, <3>1, <3>2 DEF ToolsInv, CodesInv
    <3>4. \A a, b \in popped' : a.issue = b.issue => a = b
      <4> SUFFICES ASSUME NEW a \in popped', NEW b \in popped', a.issue = b.issue
                   PROVE  a = b
        OBVIOUS
      <4>1. a \in popped \/ a = use
        BY <2>1
      <4>2. b \in popped \/ b = use
        BY <2>1
      <4>3. \A d \in popped : d.issue # tokens[code]
        BY <1>4 DEF ToolsInv, CodesInv
      <4> HIDE DEF use
      <4> QED BY <2>4, <4>1, <4>2, <4>3 DEF ToolsInv, CodesInv
    <3>5. issued' \in Seq(IssueType) /\ \A i \in 1..Len(issued') : issued'[i].at <= now'
      BY <1>1 DEF Quiet, ToolsInv, CodesInv
    <3>6. \A c \in DOMAIN tokens' : tokens'[c] \in 1..Len(issued') /\ issued'[tokens'[c]].code = c
      BY <1>1, <2>5, <3>1
    <3> QED BY <1>1, <3>3, <3>4, <3>5, <3>6 DEF CodesInv
  <2>7. PurgedInv'
    BY <1>1, <2>3, <2>5 DEF Quiet, ToolsInv, PurgedInv
  <2>8. CallsClaimed'
    <3> SUFFICES ASSUME NEW u \in Threads, pc'[u] \in {"open", "fill", "run"}, Request(u)'.op # "edit"
                 PROVE  \E a \in popped' : /\ a.call = job'[u].call
                                           /\ a.valid
                                           /\ issued[a.issue].for = Wanted(Request(u)')
                                           /\ a.checked <= issued[a.issue].at + Ttl
      BY <1>1 DEF CallsClaimed, Wanted, Head64
    <3>1. CASE u = t
      <4>1. valid /\ job'[t].call = job[t].call /\ Request(t)' = Request(t)
        BY <1>1, <1>2, <2>2, <3>1 DEF Quiet
      <4>2. job[t].checked <= issued[tokens[code]].at + Ttl
        BY <1>1, <1>4 DEF ToolsInv, PurgedInv
      <4>3. use \in popped'
        BY <2>1
      <4> HIDE DEF use
      <4> QED BY <2>4, <3>1, <4>1, <4>2, <4>3
    <3>2. CASE u # t
      <4>1. pc[u] = pc'[u] /\ job'[u].call = job[u].call /\ Request(u)' = Request(u)
        BY <1>1, <1>2, <3>2 DEF Quiet
      <4>2. popped \subseteq popped'
        BY <2>1
      <4> QED BY <4>1, <4>2 DEF ToolsInv, CallsClaimed
    <3> QED BY <3>1, <3>2
  <2> QED BY <1>1, <2>6, <2>7, <2>8 DEF ToolsInv
<1> QED BY <1>3, <1>4

-----------------------------------------------------------------------------
(* The files *)

\* What thread t is about to write, and what it left.
Sound(t) ==
    /\ pc[t] \in {"purge", "issue", "claim", "run"} => Request(t).op # "edit"
    /\ pc[t] = "run" => Request(t).op # "write"
    /\ pc[t] \in {"look", "claim", "open", "fill", "run"} => Request(t).op # "confirm"
    /\ pc[t] \in {"purge", "claim", "open", "fill"} /\ Request(t).op = "write" =>
            job[t].text = Request(t).text
    /\ pc[t] \in {"open", "fill"} /\ Request(t).op = "edit" =>
            job[t].text = Replaced(job[t].seen, Request(t).find, Request(t).replace)
    /\ pc[t] = "fill" /\ job[t].quiet => Target(t) \in DOMAIN files
    /\ job[t].outcome = "done" => pc[t] = "reply"
    /\ pc[t] = "reply" /\ job[t].outcome = "done" /\ job[t].quiet =>
            /\ Request(t).op = "write" => files[Target(t)] = Request(t).text
            /\ Request(t).op = "edit"  =>
                 files[Target(t)] = Replaced(job[t].seen, Request(t).find, Request(t).replace)

FilesInv == \A t \in Threads : Sound(t)

\* A thread that another one's step passes by, or disturbs.
LEMMA BystanderSound ==
    ASSUME NEW u \in Threads, Sound(u), pc'[u] = pc[u],
           pc[u] # "idle" => Request(u)' = Request(u),
           job'[u].text = job[u].text, job'[u].seen = job[u].seen,
           job'[u].outcome = job[u].outcome,
           \/ files' = files /\ job'[u].quiet = job[u].quiet
           \/ ~job'[u].quiet
    PROVE  Sound(u)'
  BY DEF Sound, Replaced, Target

\* A request that is received.
LEMMA ReceiveFiles ==
    ASSUME JobsInv, FilesInv, NEW t \in Threads, Receive(t)
    PROVE  FilesInv'
<1>1. /\ files' = files
      /\ \A c \in 1..Len(asked) : asked'[c] = asked[c]
      /\ \A u \in Threads \ {t} : pc'[u] = pc[u] /\ job'[u] = job[u]
  BY ReceiveStep DEF Receive
<1>2. ASSUME NEW u \in Threads, u # t PROVE Sound(u)'
  <2>1. pc[u] # "idle" => Request(u)' = Request(u)
    BY <1>1, <1>2 DEF JobsInv, Request
  <2> QED BY <1>1, <1>2, <2>1, BystanderSound DEF FilesInv
<1>3. Sound(t)'
  <2>1. PICK r \in Requests :
         /\ asked' = Append(asked, r)
         /\ job' = [job EXCEPT ![t] =
                      [NoJob EXCEPT !.call = Len(asked) + 1, !.text = r.text,
                                    !.outcome = IF Refused(r) THEN "refused" ELSE "none"]]
         /\ Goto(t, IF Refused(r) THEN "reply" ELSE IF r.op = "edit" THEN "look" ELSE "purge")
    BY DEF Receive
  <2>2. job'[t].call = Len(asked) + 1 /\ job'[t].text = r.text /\ job'[t].outcome # "done"
    BY <2>1 DEF JobsInv, NoJob
  <2>3. /\ pc'[t] \in {"reply", "look", "purge"} /\ (pc'[t] = "purge" => r.op # "edit")
        /\ pc'[t] = "look" => r.op = "edit"
    BY <2>1 DEF Goto, JobsInv
  <2>4. Request(t)' = r
    BY <2>1, <2>2 DEF Request, JobsInv
  <2> QED BY <2>2, <2>3, <2>4 DEF Sound
<1> QED BY <1>2, <1>3 DEF FilesInv

\* The steps that leave the files and the texts alone.
LEMMA CodeFiles ==
    ASSUME JobsInv, FilesInv, NEW t \in Threads, Purge(t) \/ Issue(t) \/ Claim(t) \/ Reply(t)
    PROVE  FilesInv'
<1> USE DEF JobsInv
<1>1. files' = files /\ asked' = asked
  BY DEF Purge, Issue, Claim, Reply
<1>2. \/ job' = job
      \/ job' = [job EXCEPT ![t].checked = now]
      \/ \E outcome \in {"issued", "refused"} :
            job' = [job EXCEPT ![t].outcome = outcome] /\ Goto(t, "reply")
      \/ job' = [job EXCEPT ![t] = NoJob] /\ Goto(t, "idle")
  BY Zenon DEF Purge, Issue, Claim, Reply, Confirmed, Answer
<1>3. \A u \in Threads \ {t} : pc'[u] = pc[u] /\ job'[u] = job[u]
  BY <1>2 DEF Purge, Issue, Claim, Reply, Confirmed, Answer, Goto
<1>4. ASSUME NEW u \in Threads, u # t PROVE Sound(u)'
  BY <1>1, <1>3, <1>4, BystanderSound DEF FilesInv, Request
<1>5. CASE Reply(t)
  <2>1. pc'[t] = "idle" /\ job'[t].outcome = "none"
    BY <1>5 DEF Reply, Goto, NoJob
  <2>2. Sound(t)'
    BY <2>1 DEF Sound
  <2> QED BY <1>4, <2>2 DEF FilesInv
<1>6. CASE Purge(t)
  <2>1. /\ pc[t] = "purge" /\ pc'[t] \in {"issue", "claim"} /\ job'[t].text = job[t].text
        /\ job'[t].outcome = job[t].outcome /\ job'[t].call = job[t].call
    <3>1. pc[t] = "purge" /\ pc'[t] \in {"issue", "claim"}
      BY <1>6, PurgeStep
    <3>2. job' = [job EXCEPT ![t].checked = now]
      BY <1>6 DEF Purge
    <3> QED BY <3>1, <3>2 DEF JobFields
  <2>2. Request(t)' = Request(t)
    BY <1>1, <2>1 DEF Request
  <2>3. pc'[t] = "claim" => Request(t).op # "confirm"
    BY <1>6 DEF Purge, Goto
  <2>4. Sound(t)'
    BY <2>1, <2>2, <2>3 DEF FilesInv, Sound
  <2> QED BY <1>4, <2>4 DEF FilesInv
<1>7. CASE Issue(t)
  <2>1. pc'[t] = "reply" /\ job'[t].outcome = "issued"
    BY <1>7 DEF Issue, Answer, Goto, JobFields
  <2>2. Sound(t)'
    BY <2>1 DEF Sound
  <2> QED BY <1>4, <2>2 DEF FilesInv
<1>8. CASE Claim(t)
  <2>1. \/ Confirmed(t)
        \/ Answer(t, "refused")
    BY <1>8, Zenon DEF Claim
  <2>2. CASE Answer(t, "refused")
    <3>1. pc'[t] = "reply" /\ job'[t].outcome = "refused"
      BY <2>2 DEF Answer, Goto, JobFields
    <3>2. Sound(t)'
      BY <3>1 DEF Sound
    <3> QED BY <1>4, <3>2 DEF FilesInv
  <2>3. CASE job' = job
    <3>1. pc[t] = "claim" /\ Request(t)' = Request(t) /\ job'[t] = job[t]
      BY <1>1, <1>8, <2>3 DEF Claim, At, Request
    <3>2. pc'[t] \in {"open", "run", "reply"} /\ Request(t).op # "edit" /\ job[t].outcome # "done"
          /\ (pc'[t] = "run" => Request(t).op # "write")
      BY <2>1, <3>1 DEF Confirmed, Answer, Goto, FilesInv, Sound
    <3>3. Sound(t)'
      BY <3>1, <3>2 DEF Sound, FilesInv
    <3> QED BY <1>4, <3>3 DEF FilesInv
  <2>4. Answer(t, "refused") \/ job' = job
    BY <2>1 DEF Confirmed
  <2> QED BY <2>2, <2>3, <2>4
<1> QED BY <1>5, <1>6, <1>7, <1>8

\* An edit that looks at the file keeps what it saw.
LEMMA LookFiles ==
    ASSUME JobsInv, FilesInv, NEW t \in Threads, Look(t)
    PROVE  FilesInv'
<1> USE DEF JobsInv
<1>1. files' = files /\ asked' = asked /\ pc[t] = "look" /\ Request(t).op = "edit"
  BY DEF Look, At
<1>2. CASE Answer(t, "refused")
  <2>1. \A u \in Threads \ {t} : pc'[u] = pc[u] /\ job'[u] = job[u]
    BY <1>2 DEF Answer, Goto
  <2>2. pc'[t] = "reply" /\ job'[t].outcome = "refused"
    BY <1>2 DEF Answer, Goto, JobFields
  <2>3. Sound(t)'
    BY <2>2 DEF Sound
  <2>4. \A u \in Threads \ {t} : Sound(u)'
    BY <1>1, <2>1, BystanderSound DEF FilesInv, Request
  <2> QED BY <2>3, <2>4 DEF FilesInv
<1>3. ASSUME NEW saw, saw = files[Target(t)],
             job' = [job EXCEPT ![t].seen = saw,
                                ![t].text = Replaced(saw, Request(t).find, Request(t).replace)],
             Goto(t, "open")
      PROVE  FilesInv'
  <2>1. \A u \in Threads \ {t} : pc'[u] = pc[u] /\ job'[u] = job[u]
    BY <1>3 DEF Goto
  <2>2. /\ pc'[t] = "open" /\ job'[t].outcome = job[t].outcome /\ job'[t].seen = saw
        /\ job'[t].text = Replaced(saw, Request(t).find, Request(t).replace)
        /\ job'[t].call = job[t].call
    BY <1>3 DEF Goto, JobFields
  <2>3. Request(t)' = Request(t)
    BY <1>1, <2>2 DEF Request
  <2>4. Sound(t)'
    <3>1. Request(t)'.op = "edit" /\ job'[t].outcome # "done"
      BY <1>1, <2>2, <2>3 DEF FilesInv, Sound
    <3>2. job'[t].text = Replaced(job'[t].seen, Request(t)'.find, Request(t)'.replace)
      BY <2>2, <2>3
    <3> QED BY <2>2, <3>1, <3>2, Zenon DEF Sound, Replaced
  <2>5. \A u \in Threads \ {t} : Sound(u)'
    BY <1>1, <2>1, BystanderSound DEF FilesInv, Request
  <2> QED BY <2>4, <2>5 DEF FilesInv
<1> QED BY <1>2, <1>3 DEF Look, Target

\* The thread that touches the files disturbs all the others.
LEMMA TouchFiles ==
    ASSUME JobsInv, FilesInv, NEW t \in Threads,
           \/ Open(t) \/ Fill(t) \/ RunShell(t)
           \/ ChangeFails(t) /\ Touch(t, "failed")
    PROVE  FilesInv'
<1> USE DEF JobsInv
<1>1. PICK outcome, place : Touch(t, outcome) /\ Goto(t, place) /\ asked' = asked
  <2>1. CASE Open(t) \/ Fill(t) \/ RunShell(t)
    BY <2>1 DEF Open, Fill, RunShell
  <2>2. CASE ChangeFails(t) /\ Touch(t, "failed")
    BY <2>2 DEF ChangeFails, Answer
  <2> QED BY <2>1, <2>2
<1>2. \A u \in Threads \ {t} :
        /\ pc'[u] = pc[u] /\ job'[u].call = job[u].call /\ job'[u].text = job[u].text
        /\ job'[u].seen = job[u].seen /\ job'[u].outcome = job[u].outcome /\ ~job'[u].quiet
  BY <1>1 DEF Touch, Goto, JobFields
<1>3. \A u \in Threads \ {t} : Sound(u)'
  BY <1>1, <1>2, BystanderSound DEF FilesInv, Request
<1>4. /\ job'[t].call = job[t].call /\ job'[t].text = job[t].text
      /\ job'[t].seen = job[t].seen /\ job'[t].quiet = job[t].quiet /\ job'[t].outcome = outcome
  BY <1>1 DEF Touch, JobFields
<1>5. Request(t)' = Request(t) /\ Target(t)' = Target(t)
  BY <1>1, <1>4 DEF Request, Target
<1>6. CASE Open(t)
  <2>1. pc[t] = "open" /\ pc'[t] = "fill" /\ job'[t].outcome = "none"
    BY <1>6 DEF Open, At, Goto, Touch, JobFields
  <2>2. Target(t) \in DOMAIN files'
    BY <1>6 DEF Open
  <2>3. Sound(t)'
    BY <1>4, <1>5, <2>1, <2>2 DEF FilesInv, Sound, Replaced
  <2> QED BY <1>3, <2>3 DEF FilesInv
<1>7. CASE Fill(t)
  <2>1. pc[t] = "fill" /\ pc'[t] = "reply"
    BY <1>7 DEF Fill, At, Goto
  <2>2. job[t].quiet => files'[Target(t)] = job[t].text
    BY <1>7, <2>1 DEF Fill, FilesInv, Sound
  <2>3. Sound(t)'
    BY <1>4, <1>5, <2>1, <2>2 DEF FilesInv, Sound, Replaced
  <2> QED BY <1>3, <2>3 DEF FilesInv
<1>8. CASE RunShell(t)
  <2>1. pc[t] = "run" /\ pc'[t] = "reply"
    BY <1>8 DEF RunShell, At, Goto
  <2>2. Request(t).op \notin {"write", "edit"}
    BY <2>1 DEF FilesInv, Sound
  <2>3. Sound(t)'
    BY <1>5, <2>1, <2>2 DEF Sound
  <2> QED BY <1>3, <2>3 DEF FilesInv
<1>9. CASE ChangeFails(t) /\ Touch(t, "failed")
  <2>1. pc'[t] = "reply" /\ job'[t].outcome = "failed"
    BY <1>9 DEF ChangeFails, Answer, Goto, Touch, JobFields
  <2>2. Sound(t)'
    BY <2>1 DEF Sound
  <2> QED BY <1>3, <2>2 DEF FilesInv
<1> QED BY <1>6, <1>7, <1>8, <1>9

\* A change that fails disturbs the others only if it wrote.
LEMMA FailFiles ==
    ASSUME JobsInv, FilesInv, NEW t \in Threads, ChangeFails(t)
    PROVE  FilesInv'
<1> USE DEF JobsInv
<1>1. CASE Touch(t, "failed")
  BY <1>1, TouchFiles
<1>2. CASE files' = files /\ Answer(t, "failed")
  <2>1. pc'[t] = "reply" /\ job'[t].outcome = "failed" /\ asked' = asked
    BY <1>2 DEF ChangeFails, Answer, Goto, JobFields
  <2>2. Sound(t)'
    BY <2>1 DEF Sound
  <2>3. \A u \in Threads \ {t} : pc'[u] = pc[u] /\ job'[u] = job[u]
    BY <1>2 DEF Answer, Goto
  <2>4. \A u \in Threads \ {t} : Sound(u)'
    BY <1>2, <2>1, <2>3, BystanderSound DEF FilesInv, Request
  <2> QED BY <2>2, <2>4 DEF FilesInv
<1> QED BY <1>1, <1>2 DEF ChangeFails

-----------------------------------------------------------------------------
(* The invariant and the theorems *)

\* Nothing has been asked, and no code given out.
LEMMA ToolsInit == ToolsAssumption /\ Init => ToolsInv
<1> SUFFICES ASSUME ToolsAssumption, Init PROVE ToolsInv
  OBVIOUS
<1>1. JobsInv
  BY DEF Init, JobsInv, NoJob, JobFields, Places, Request
<1>2. CodesInv
  BY DEF Init, CodesInv
<1>3. PurgedInv /\ CallsClaimed
  BY DEF Init, PurgedInv, CallsClaimed
<1> QED BY <1>1, <1>2, <1>3 DEF ToolsInv

\* What is left to a step that neither gives a code out nor takes one.
LEMMA OtherCodes ==
    ASSUME ToolsInv, NEW t \in Threads,
           Receive(t) \/ Look(t) \/ Open(t) \/ Fill(t) \/ ChangeFails(t) \/ RunShell(t) \/ Reply(t)
    PROVE  ToolsInv'
<1> USE DEF ToolsInv
<1>1. UNCHANGED store
  BY DEF Receive, Look, Open, Fill, ChangeFails, RunShell, Reply
<1>2. CASE Receive(t)
  <2>1. \A u \in Threads : pc'[u] = "claim" => pc[u] = "claim" /\ job'[u].checked = job[u].checked
    BY <1>2, ReceiveStep
  <2>2. \A u \in Threads : pc'[u] \in {"open", "fill", "run"} /\ Request(u)'.op # "edit" =>
            /\ pc[u] \in {"open", "fill", "run"} /\ job'[u].call = job[u].call
            /\ Request(u)' = Request(u)
    BY <1>2, ReceiveStep DEF Request, JobsInv
  <2> QED BY <1>1, <1>2, <2>1, <2>2, ReceiveStep, CodesUntouched
<1>3. CASE Reply(t)
  <2>1. \A u \in Threads : pc'[u] = "claim" => pc[u] = "claim" /\ job'[u].checked = job[u].checked
    BY <1>3, ReplyStep
  <2>2. \A u \in Threads : pc'[u] \in {"open", "fill", "run"} /\ Request(u)'.op # "edit" =>
            /\ pc[u] \in {"open", "fill", "run"} /\ job'[u].call = job[u].call
            /\ Request(u)' = Request(u)
    BY <1>3, ReplyStep DEF Request
  <2> QED BY <1>1, <1>3, <2>1, <2>2, ReplyStep, CodesUntouched
<1>4. CASE Look(t) \/ Open(t) \/ Fill(t) \/ ChangeFails(t) \/ RunShell(t)
  <2>1. Quiet(t) /\ JobsInv'
    BY <1>4, QuietSteps
  <2>2. /\ pc'[t] # "claim"
        /\ pc'[t] \in {"open", "fill", "run"} => pc[t] \in {"look", "open"}
    BY <1>4 DEF Look, Open, Fill, ChangeFails, RunShell, Answer, Goto, At, JobsInv
  <2>3. \A u \in Threads : Request(u)' = Request(u)
    BY <2>1 DEF Quiet, Request
  <2>4. pc[t] = "look" => Request(t).op = "edit"
    BY DEF JobsInv
  <2>5. \A u \in Threads : pc'[u] = "claim" => pc[u] = "claim" /\ job'[u].checked = job[u].checked
    BY <2>1, <2>2 DEF Quiet
  <2>6. \A u \in Threads : pc'[u] \in {"open", "fill", "run"} /\ Request(u)'.op # "edit" =>
            /\ pc[u] \in {"open", "fill", "run"} /\ job'[u].call = job[u].call
            /\ Request(u)' = Request(u)
    BY <2>1, <2>2, <2>3, <2>4 DEF Quiet
  <2>7. now' = now
    BY <2>1 DEF Quiet
  <2> QED BY <1>1, <2>1, <2>5, <2>6, <2>7, CodesUntouched
<1> QED BY <1>2, <1>3, <1>4

\* Time passes.
LEMMA TickCodes == ASSUME ToolsInv, Tick PROVE ToolsInv'
<1>1. UNCHANGED <<store, asked, pc, job>> /\ now' = now + 1 /\ now \in Nat
  BY DEF Tick, ToolsInv, JobsInv
<1>2. JobsInv'
  BY <1>1 DEF ToolsInv, JobsInv, Request
<1> QED BY <1>1, <1>2, CodesUntouched DEF Request

\* Every step preserves the invariant, one lemma for each kind of step.
LEMMA ToolsStep == ToolsAssumption /\ ToolsInv /\ [Next]_vars => ToolsInv'
<1> SUFFICES ASSUME ToolsAssumption, ToolsInv, [Next]_vars PROVE ToolsInv'
  OBVIOUS
<1>1. CASE Tick
  BY <1>1, TickCodes
<1>2. ASSUME NEW t \in Threads, Receive(t) \/ Serve(t)
      PROVE  ToolsInv'
  BY <1>2, PurgeCodes, IssueCodes, ClaimCodes, OtherCodes DEF Serve
<1>3. CASE UNCHANGED vars
  <2>1. UNCHANGED <<store, asked, pc, job, now>>
    BY <1>3 DEF vars, store
  <2>2. JobsInv'
    BY <2>1 DEF ToolsInv, JobsInv, Request
  <2> QED BY <2>1, <2>2, CodesUntouched DEF Request
<1> QED BY <1>1, <1>2, <1>3 DEF Next

\* The files at the start are nobody's, and every step leaves them as the
\* threads know them.
LEMMA FilesSteps == /\ Init => FilesInv
                    /\ JobsInv /\ FilesInv /\ [Next]_vars => FilesInv'
<1>1. Init => FilesInv
  BY DEF Init, FilesInv, Sound, NoJob
<1>2. ASSUME JobsInv, FilesInv, [Next]_vars PROVE FilesInv'
  <2>1. ASSUME NEW t \in Threads, Receive(t) \/ Serve(t)
        PROVE  FilesInv'
    BY <1>2, <2>1, ReceiveFiles, CodeFiles, LookFiles, TouchFiles, FailFiles DEF Serve
  <2>2. CASE Tick \/ UNCHANGED vars
    <3>1. UNCHANGED <<files, asked, pc, job>>
      BY <2>2 DEF Tick, vars
    <3> QED BY <1>2, <3>1, BystanderSound DEF FilesInv, Request
  <2> QED BY <1>2, <2>1, <2>2 DEF Next
<1> QED BY <1>1, <1>2

\* What every reachable state satisfies.
LEMMA ToolsInvariant == Spec => [](ToolsInv /\ FilesInv)
<1>1. Init => ToolsInv /\ FilesInv
  BY ToolsAssumption, ToolsInit, FilesSteps
<1>2. ToolsInv /\ FilesInv /\ [Next]_vars => ToolsInv' /\ FilesInv'
  BY ToolsAssumption, ToolsStep, FilesSteps DEF ToolsInv
<1> QED BY <1>1, <1>2, PTL DEF Spec

\* Each code lets at most one call through, whatever threads present it and
\* whenever: _verify_token takes it out of the dict before it compares.
THEOREM CodeUsedOnceCorrect == Spec => []CodeUsedOnce
<1>1. ToolsInv => CodeUsedOnce
  BY DEF ToolsInv, CodesInv, CodeUsedOnce
<1> QED BY <1>1, ToolsInvariant, PTL

\* What a code covers of a text is its beginning, and all of it when it is short.
LEMMA HeadCovers ==
    ASSUME ToolsAssumption, NEW W, NEW text \in Seq(W)
    PROVE  /\ IsPrefix(Head64(text), text)
           /\ Len(Head64(text)) < HeadLength => Head64(text) = text
<1> DEFINE n == Min({HeadLength, Len(text)})
<1>1. HeadLength \in Nat /\ Len(text) \in Nat
  BY DEF ToolsAssumption
<1>2. n \in {HeadLength, Len(text)} /\ n <= HeadLength /\ n <= Len(text)
  <2>1. \E x \in {HeadLength, Len(text)} : \A y \in {HeadLength, Len(text)} : x <= y
    BY <1>1
  <2> QED BY <1>1, <2>1 DEF Min
<1>3. Head64(text) = SubSeq(text, 1, n)
  BY DEF Head64
<1> HIDE DEF n
<1>4. Len(SubSeq(text, 1, n)) = n /\ SubSeq(text, 1, n) \in Seq(W)
  BY <1>1, <1>2
<1>5. SubSeq(SubSeq(text, 1, n), 1, n) = SubSeq(text, 1, n)
  BY <1>1, <1>2, <1>4
<1>6. SubSeq(text, 1, Len(text)) = text
  BY <1>1
<1>7. IsPrefix(SubSeq(text, 1, n), text)
  BY <1>2, <1>4, <1>5 DEF IsPrefix
<1>8. n < HeadLength => n = Len(text)
  BY <1>2
<1> QED BY <1>3, <1>4, <1>6, <1>7, <1>8

\* A code for the same fingerprint is one for the same tool, target and text, as
\* far as it covers the text.
LEMMA ClaimedIsConfirmed ==
    ASSUME ToolsAssumption, ToolsInv, FilesInv
    PROVE  ChangesAreConfirmed
<1> SUFFICES ASSUME NEW t \in Threads, pc[t] \in {"open", "fill", "run"}, Request(t).op # "edit"
             PROVE  \E a \in popped :
                LET given == issued[a.issue].for
                IN  /\ a.call = job[t].call
                    /\ a.valid
                    /\ a.checked <= issued[a.issue].at + Ttl
                    /\ given.tool = Request(t).op /\ given.target = Target(t)
                    /\ IsPrefix(given.text, Request(t).text)
                    /\ Len(given.text) < HeadLength => given.text = Request(t).text
  BY DEF ChangesAreConfirmed
<1> DEFINE r == Request(t)
<1>1. PICK a \in popped : /\ a.call = job[t].call
                          /\ a.valid
                          /\ issued[a.issue].for = Wanted(r)
                          /\ a.checked <= issued[a.issue].at + Ttl
  BY DEF ToolsInv, CallsClaimed
<1>2. r \in Requests /\ r.op # "confirm"
  BY DEF ToolsInv, JobsInv, FilesInv, Sound, Request
<1>3. /\ Wanted(r).tool = r.op /\ Wanted(r).target = r.target
      /\ Wanted(r).text = Head64(r.text)
  BY <1>2 DEF Wanted
<1>4. /\ IsPrefix(Head64(r.text), r.text)
      /\ Len(Head64(r.text)) < HeadLength => Head64(r.text) = r.text
  <2>1. r.text \in Seq(Range(r.text))
    BY <1>2 DEF ToolsAssumption
  <2> QED BY <2>1, HeadCovers
<1> HIDE DEF r
<1> QED BY <1>1, <1>3, <1>4 DEF r, Target

\* A write or a command goes on only with a code given out for its tool and
\* target and a text it begins with, its very text when that is shorter than what
\* a code covers, and that had not expired when its verification began, though
\* other threads run and time passes between the purge and the use
\* (_require_confirm).
THEOREM ChangesAreConfirmedCorrect == Spec => []ChangesAreConfirmed
<1>1. ToolsInv /\ FilesInv => ChangesAreConfirmed
  BY ToolsAssumption, ClaimedIsConfirmed
<1> QED BY <1>1, ToolsInvariant, PTL

\* A write or an edit that nothing else touched the files during leaves what it
\* was asked to leave, though it truncates the file first and fills it later.
THEOREM QuietChangesStickCorrect == Spec => []QuietChangesStick
<1>1. FilesInv => QuietChangesStick
  BY DEF FilesInv, Sound, QuietChangesStick, At, Target
<1> QED BY <1>1, ToolsInvariant, PTL
=============================================================================
