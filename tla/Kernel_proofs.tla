---------------------------- MODULE Kernel_proofs ----------------------------
(***************************************************************************)
(* What holds of the constitutional kernel: of its gates (Authorization),  *)
(* of the kernel that serves threads (KernelServer) and of the kernel      *)
(* behind its routes (KernelApi), for any tables and configuration file    *)
(* and any number of threads, readers, calls, crashes and write errors.    *)
(* Each property rests on an inductive invariant: TypeInv (types, and that *)
(* every thread serves a call of its own), RecordInv (what the list, the   *)
(* file and the drafts say of a call), GrantedInv, TraceInv, DurableInv,   *)
(* ChainInv and TrailInv.  Every step behind the routes is a step of       *)
(* KernelServer (ApiStep), so these carry over; the reads have ShownInv,   *)
(* PageInv and AlarmInv.                                                   *)
(***************************************************************************)
EXTENDS KernelApi, SequenceTheorems, WellFoundedInduction, TLAPS

-----------------------------------------------------------------------------
(* The gates, taken in order, let through what every table authorizes *)

\* A non-empty set of positions has a last one, and Max picks it.
LEMMA MaxPosition ==
    ASSUME NEW n \in Nat, NEW S \in SUBSET (1..n), S # {}
    PROVE  Max(S) \in S /\ \A x \in S : Max(S) >= x
<1> DEFINE T == {n - x : x \in S}
<1>1. T \subseteq Nat /\ T # {}
  <2>1. \A x \in S : n - x \in Nat
    OBVIOUS
  <2>2. PICK x \in S : TRUE
    OBVIOUS
  <2> QED BY <2>1, <2>2
<1>2. PICK m \in T : \A y \in T : ~ (<<y, m>> \in OpToRel(<, Nat))
  BY <1>1, NatLessThanWellFounded, WFMin
<1>3. \A y \in T : ~ (y < m)
  BY <1>1, <1>2 DEF OpToRel
<1>4. PICK k \in S : m = n - k
  BY <1>2
<1>5. \A x \in S : k >= x
  BY <1>3, <1>4
<1> QED BY <1>4, <1>5 DEF Max

\* The dict keeps the last entry of an id: Resolve finds it.
LEMMA ResolveLast ==
    ASSUME NEW subjects, NEW id, NEW n \in Nat, DOMAIN subjects = 1..n
    PROVE  Resolve(subjects, id) <=>
             \E i \in DOMAIN subjects :
                /\ subjects[i].id = id
                /\ subjects[i].active
                /\ \A j \in DOMAIN subjects : j > i => subjects[j].id # id
<1> DEFINE entries == {i \in DOMAIN subjects : subjects[i].id = id}
           Last1(i) == \A j \in DOMAIN subjects : j > i => subjects[j].id # id
<1>1. CASE entries = {}
  BY <1>1 DEF Resolve
<1>2. CASE entries # {}
  <2> DEFINE m == Max(entries)
  <2>1. m \in entries /\ \A x \in entries : m >= x
    BY <1>2, MaxPosition
  <2>2. Resolve(subjects, id) <=> subjects[m].active
    BY <1>2 DEF Resolve
  <2> HIDE DEF m
  <2>3. m \in DOMAIN subjects /\ subjects[m].id = id /\ Last1(m)
    BY <2>1
  <2>4. \A i \in DOMAIN subjects : subjects[i].id = id /\ Last1(i) => i = m
    <3> SUFFICES ASSUME NEW i \in DOMAIN subjects, subjects[i].id = id, Last1(i), i # m
                 PROVE  FALSE
      OBVIOUS
    <3>1. i < m
      BY <2>1, <2>3
    <3> QED BY <2>3, <3>1
  <2> HIDE DEF Last1
  <2> QED BY <2>2, <2>3, <2>4 DEF Last1
<1> QED BY <1>1, <1>2

\* A handler is reached for the authorized requests that can be planned, and
\* for no other (ConstitutionalKernel.handle).
THEOREM GatesAuthorize ==
    ASSUME NEW subjects, NEW rules, NEW grants, NEW handlers, NEW r,
           NEW n \in Nat, DOMAIN subjects = 1..n
    PROVE  Gate(subjects, rules, grants, handlers, r) = "granted"
             <=> Authorized(subjects, rules, grants, handlers, r) /\ Plannable(r)
<1>1. Resolve(subjects, r.subject) <=>
             \E i \in DOMAIN subjects :
                /\ subjects[i].id = r.subject
                /\ subjects[i].active
                /\ \A j \in DOMAIN subjects : j > i => subjects[j].id # r.subject
  BY ResolveLast
<1>2. Evaluate(rules, r).allowed <=>
         /\ \E i \in DOMAIN rules : RuleMatches(rules[i], r) /\ rules[i].effect = "allow"
         /\ \A i \in DOMAIN rules : RuleMatches(rules[i], r) => rules[i].effect # "deny"
  BY DEF Evaluate
<1>3. Check(grants, r).allowed <=> \E i \in DOMAIN grants : GrantMatches(grants[i], r)
  BY DEF Check
<1>4. Gate(subjects, rules, grants, handlers, r) = "granted" <=>
        /\ IsComplete(r)
        /\ Resolve(subjects, r.subject)
        /\ Evaluate(rules, r).allowed
        /\ Check(grants, r).allowed
        /\ Plannable(r)
        /\ r.operation \in handlers
  BY DEF Gate
<1> QED BY <1>1, <1>2, <1>3, <1>4 DEF Authorized

-----------------------------------------------------------------------------
(* Types, and a call for every thread *)

\* Threads in handle serve calls that were received, each its own.
CallsInv ==
    /\ \A t \in Threads : pc[t] # "idle" => draft[t].call \in 1..Len(asked)
    /\ \A t, u \in Threads :
         pc[t] # "idle" /\ pc[u] # "idle" /\ draft[t].call = draft[u].call => t = u
    /\ ~up => \A t \in Threads : pc[t] = "idle"

TypeInv == TypeOK /\ CallsInv

\* The last element of a non-empty sequence is of its type.
LEMMA LastType ==
    ASSUME NEW S, NEW s \in Seq(S), s # <<>>
    PROVE  Last(s) \in S
BY DEF Last

\* Whatever a write leaves is still a sequence of lines.
LEMMA WrittenType ==
    ASSUME lines \in Seq(Line),
           NEW event \in Event,
           NEW text \in {"whole", "unended", "torn"}
    PROVE  Written(text, event) \in Seq(Line)
<1> DEFINE l1 == [text |-> text, event |-> event]
           l2 == [text |-> IF text = "whole" THEN "garbled" ELSE "torn", event |-> event]
<1>1. l1 \in Line /\ l2 \in Line
  BY DEF Line
<1>2. lines # <<>> => Front(lines) \in Seq(Line)
  BY DEF Front
<1> HIDE DEF l1, l2
<1>3. CASE lines = <<>> \/ Ended(Last(lines))
  <2>1. Written(text, event) = Append(lines, l1)
    BY <1>3 DEF Written, l1
  <2> QED BY <2>1, <1>1
<1>4. CASE ~(lines = <<>> \/ Ended(Last(lines)))
  <2>1. Written(text, event) = Append(Front(lines), l2)
    BY <1>4 DEF Written, l2
  <2> QED BY <2>1, <1>1, <1>2, <1>4
<1> QED BY <1>3, <1>4

\* The process starts with nothing asked, recorded or under way.
LEMMA TypeInit == Init => TypeInv
BY BoundsAssumption DEF Init, TypeInv, TypeOK, CallsInv, Blank, Event, Statuses, Places, GenesisHash

\* A thread that takes up a request makes it a call of its own.
LEMMA TypeReceive == ASSUME TypeInv, NEW t \in Threads, Receive(t) PROVE TypeInv'
<1> USE BoundsAssumption DEF TypeInv
<1>1. PICK r \in Requests : asked' = Append(asked, r)
  BY DEF Receive
<1>2. asked' \in Seq(Requests) /\ Len(asked') = Len(asked) + 1 /\ Len(asked) \in Nat
  BY <1>1 DEF TypeOK
<1> DEFINE fresh == [Blank EXCEPT !.call = Len(asked) + 1]
<1>3. fresh \in Event /\ fresh.call = Len(asked) + 1
  BY <1>2 DEF Blank, Event, Statuses, GenesisHash
<1>4. draft' = [draft EXCEPT ![t] = fresh]
  BY DEF Receive
<1> HIDE DEF fresh
<1>5. TypeOK'
  <2>1. draft' \in [Threads -> Event]
    BY <1>3, <1>4 DEF TypeOK
  <2>2. pc' \in [Threads -> Places]
    BY DEF Receive, Goto, TypeOK, Places
  <2>3. Len(asked') <= MaxCalls
    BY <1>2 DEF Receive
  <2> QED BY <1>2, <2>1, <2>2, <2>3 DEF Receive, TypeOK, storage, budgets
<1>6. \A u \in Threads : draft'[u] = IF u = t THEN fresh ELSE draft[u]
  BY <1>4 DEF TypeOK
<1>7. \A u \in Threads : u # t => pc'[u] = pc[u]
  BY DEF Receive, Goto, TypeOK
<1>8. up' /\ up
  BY DEF Receive, At
<1>9. CallsInv'
  BY <1>2, <1>3, <1>6, <1>7, <1>8 DEF CallsInv
<1> QED BY <1>5, <1>9

\* Every step of a thread within handle keeps its call and those of others.
LEMMA ServeKeepsCalls ==
    ASSUME TypeInv, NEW t \in Threads, Serve(t)
    PROVE  /\ asked' = asked /\ up' = up /\ up
           /\ pc[t] # "idle"
           /\ \A u \in Threads : draft'[u].call = draft[u].call
           /\ \A u \in Threads : u # t => pc'[u] = pc[u] /\ draft'[u] = draft[u]
<1> USE DEF TypeInv, TypeOK, Event, At, Goto, Tell, history, storage, budgets
<1>1. CASE PlanFails(t)     BY <1>1 DEF PlanFails
<1>2. CASE Deny(t)          BY <1>2 DEF Deny
<1>3. CASE Grant(t)         BY <1>3 DEF Grant
<1>4. CASE Execute(t)       BY <1>4 DEF Execute
<1>5. CASE HandlerFails(t)  BY <1>5 DEF HandlerFails
<1>6. CASE ReadPrevious(t)  BY <1>6 DEF ReadPrevious
<1>7. CASE ReadLength(t)    BY <1>7 DEF ReadLength
<1>8. CASE AppendEvent(t)   BY <1>8 DEF AppendEvent
<1>9. CASE WriteLine(t)     BY <1>9 DEF WriteLine
<1>10. CASE WriteFails(t)   BY <1>10 DEF WriteFails
<1>11. CASE Reply(t)        BY <1>11 DEF Reply
<1> QED BY <1>1, <1>2, <1>3, <1>4, <1>5, <1>6, <1>7, <1>8, <1>9, <1>10, <1>11 DEF Serve

\* A step within handle leaves the threads with the calls they serve.
LEMMA CallsServe == ASSUME TypeInv, NEW t \in Threads, Serve(t) PROVE CallsInv'
BY ServeKeepsCalls DEF TypeInv, CallsInv

\* A step within handle keeps every variable in its type.
LEMMA TypeServe == ASSUME TypeInv, NEW t \in Threads, Serve(t) PROVE TypeOK'
<1> USE BoundsAssumption DEF TypeInv, TypeOK, Event, Statuses, Places, At, Goto,
                             history, storage, budgets
<1>a. pc[t] # "idle" => draft[t].call \in Calls
  BY DEF CallsInv, Calls
<1>b. ASSUME NEW s \in Statuses \cup {"error"}, NEW n \in Nat, pc[t] # "idle"
      PROVE  [call |-> draft[t].call, status |-> s, event |-> n] \in Answer
  BY <1>a, <1>b DEF Answer
<1>1. CASE PlanFails(t)
  <2>1. pc[t] # "idle" BY <1>1 DEF PlanFails
  <2>2. [call |-> draft[t].call, status |-> "error", event |-> 0] \in Answer
    BY <1>b, <2>1
  <2> QED BY <1>1, <2>2 DEF PlanFails, Tell
<1>2. CASE Deny(t)          BY <1>2 DEF Deny
<1>3. CASE Grant(t)         BY <1>3 DEF Grant
<1>4. CASE Execute(t)       BY <1>4, <1>a DEF Execute
<1>5. CASE HandlerFails(t)  BY <1>5 DEF HandlerFails
<1>6. CASE ReadPrevious(t)
  <2> DEFINE hash == IF events = <<>> THEN GenesisHash ELSE Last(events).hash
  <2>1. events # <<>> => Last(events) \in Event
    BY LastType DEF Event, Statuses
  <2>2. hash \in Nat
    BY <2>1 DEF GenesisHash
  <2>3. draft' = [draft EXCEPT ![t].previous = hash]
    BY <1>6 DEF ReadPrevious
  <2> HIDE DEF hash
  <2>4. draft' \in [Threads -> Event]
    BY <2>2, <2>3
  <2> QED BY <1>6, <2>4 DEF ReadPrevious
<1>7. CASE ReadLength(t)
  <2>1. Len(events) + 1 \in Nat
    OBVIOUS
  <2> QED BY <1>7, <2>1 DEF ReadLength
<1>8. CASE AppendEvent(t)
  <2>1. draft' \in [Threads -> Event] /\ clock' \in Nat
    <3>1. clock + 1 \in Nat
      OBVIOUS
    <3> QED BY <1>8, <3>1 DEF AppendEvent
  <2>2. events' \in Seq(Event)
    BY <1>8, <2>1 DEF AppendEvent
  <2> QED BY <1>8, <2>1, <2>2 DEF AppendEvent
<1>9. CASE WriteLine(t)
  <2>1. Written("whole", draft[t]) \in Seq(Line)
    BY WrittenType
  <2> QED BY <1>9, <2>1 DEF WriteLine
<1>10. CASE WriteFails(t)
  <2>1. lines' \in Seq(Line)
    BY <1>10, WrittenType DEF WriteFails, CutShort
  <2>2. pc[t] # "idle" BY <1>10 DEF WriteFails
  <2>3. [call |-> draft[t].call, status |-> "error", event |-> 0] \in Answer
    BY <1>b, <2>2
  <2> QED BY <1>10, <2>1, <2>3 DEF WriteFails, Tell
<1>11. CASE Reply(t)
  <2>1. pc[t] # "idle" BY <1>11 DEF Reply
  <2>2. [call |-> draft[t].call, status |-> draft[t].status, event |-> draft[t].id]
           \in Answer
    BY <1>b, <2>1
  <2> QED BY <1>11, <2>2 DEF Reply, Tell
<1> QED BY <1>1, <1>2, <1>3, <1>4, <1>5, <1>6, <1>7, <1>8, <1>9, <1>10, <1>11 DEF Serve

\* A crash clears the memory and leaves a file of lines.
LEMMA TypeCrash == ASSUME TypeInv, Crash PROVE TypeInv'
<1> USE BoundsAssumption DEF TypeInv
<1>1. lines' \in Seq(Line)
  BY WrittenType DEF Crash, CutShort, TypeOK
<1>2. Blank \in Event
  BY DEF Blank, Event, Statuses, GenesisHash
<1>3. TypeOK'
  <2>1. events' \in Seq(Event)
    BY DEF Crash
  <2>2. /\ pc' \in [Threads -> Places]
        /\ draft' \in [Threads -> Event]
    BY <1>2 DEF Crash, Places
  <2>3. crashes' \in 0..MaxCrashes
    BY DEF Crash, TypeOK
  <2> QED BY <1>1, <2>1, <2>2, <2>3 DEF Crash, TypeOK, history
<1>4. CallsInv'
  BY DEF Crash, CallsInv
<1> QED BY <1>3, <1>4

\* What a restart loads has one event for each line.
LEMMA LoadedType == ASSUME lines \in Seq(Line) PROVE Loaded \in Seq(Event) /\ Len(Loaded) = Len(lines)
<1>a. \A line \in Line : line.event \in Event
  BY DEF Line
<1>0. \A i \in DOMAIN lines : lines[i].event \in Event
  BY <1>a
<1>2. Len(lines) \in Nat /\ DOMAIN lines = 1..Len(lines)
  OBVIOUS
<1>1. Loaded \in [1..Len(lines) -> Event]
  BY <1>0, <1>2 DEF Loaded
<1>3. Loaded \in Seq(Event)
  BY <1>1, <1>2, SeqDef
<1> QED BY <1>1, <1>2, <1>3

\* A restart only fills the list of events.
LEMMA TypeRestart == ASSUME TypeInv, Restart PROVE TypeInv'
<1>1. TypeOK'
  BY LoadedType DEF Restart, TypeInv, TypeOK, history, budgets
<1>2. CallsInv'
  BY DEF Restart, TypeInv, CallsInv, history
<1> QED BY <1>1, <1>2 DEF TypeInv

\* TypeInv is inductive.
LEMMA TypeStep == TypeInv /\ [Next]_vars => TypeInv'
<1> SUFFICES ASSUME TypeInv, [Next]_vars PROVE TypeInv'
  OBVIOUS
<1>1. CASE \E t \in Threads : Receive(t) \/ Serve(t)
  BY <1>1, TypeReceive, TypeServe, CallsServe DEF TypeInv
<1>2. CASE Crash    BY <1>2, TypeCrash
<1>3. CASE Restart  BY <1>3, TypeRestart
<1>4. CASE UNCHANGED vars
  BY <1>4 DEF vars, TypeInv, TypeOK, CallsInv
<1> QED BY <1>1, <1>2, <1>3, <1>4 DEF Next

-----------------------------------------------------------------------------
(* What the log says of a call is what happened to it, and it says it once *)

Unrecorded == {"gates", "execute", "previous", "length", "append"}
Decided    == {"previous", "length", "append", "write", "reply"}

\* An event tells of a call that was made whether its handler returned.
Truthful(e) ==
    /\ e.call \in 1..Len(asked)
    /\ e.status = "allowed" <=> e.call \in performed

EventsInv ==
    /\ \A i \in DOMAIN events : Truthful(events[i])
    /\ \A i, j \in DOMAIN events : events[i].call = events[j].call => i = j
    /\ \A t \in Threads : pc[t] \in Unrecorded =>
         \A i \in DOMAIN events : events[i].call # draft[t].call

LinesInv ==
    /\ \A i \in DOMAIN lines : Truthful(lines[i].event)
    /\ \A i, j \in DOMAIN lines : lines[i].event.call = lines[j].event.call => i = j
    /\ \A t \in Threads : pc[t] \in Unrecorded \cup {"write"} =>
         \A i \in DOMAIN lines : lines[i].event.call # draft[t].call

DraftsInv ==
    /\ performed \subseteq 1..Len(asked)
    /\ \A t \in Threads : pc[t] \in {"gates", "execute"} => draft[t].call \notin performed
    /\ \A t \in Threads : pc[t] \in Decided => Truthful(draft[t])

RecordInv == EventsInv /\ LinesInv /\ DraftsInv

\* Front drops the last element and nothing else.
LEMMA FrontShape ==
    ASSUME NEW S, NEW s \in Seq(S), s # <<>>
    PROVE  /\ Front(s) \in Seq(S)
           /\ Len(Front(s)) = Len(s) - 1
           /\ \A i \in 1..(Len(s) - 1) : Front(s)[i] = s[i]
<1> DEFINE n == Len(s) - 1
<1>1. /\ n \in Int /\ n \in Nat
      /\ \A i \in 1..n : s[i] \in S
  BY EmptySeq
<1> HIDE DEF n
<1>2. /\ SubSeq(s, 1, n) \in Seq(S)
      /\ Len(SubSeq(s, 1, n)) = IF 1 <= n THEN n - 1 + 1 ELSE 0
      /\ \A i \in 1 .. n - 1 + 1 : SubSeq(s, 1, n)[i] = s[1 + i - 1]
  BY <1>1, SubSeqProperties
<1>3. Front(s) = SubSeq(s, 1, n)
  BY DEF Front, n
<1>4. Len(Front(s)) = n /\ \A i \in 1..n : Front(s)[i] = s[i]
  BY <1>1, <1>2, <1>3
<1> QED BY <1>2, <1>3, <1>4 DEF n

\* Append adds one element at the end and changes no other.
LEMMA AppendShape ==
    ASSUME NEW S, NEW s \in Seq(S), NEW e \in S
    PROVE  /\ Len(Append(s, e)) = Len(s) + 1
           /\ DOMAIN Append(s, e) = 1..(Len(s) + 1)
           /\ \A i \in DOMAIN s : Append(s, e)[i] = s[i]
           /\ Append(s, e)[Len(s) + 1] = e
OBVIOUS

\* A write changes the last line of the file only, and it holds the event.
LEMMA WrittenShape ==
    ASSUME lines \in Seq(Line), NEW event \in Event,
           NEW text \in {"whole", "unended", "torn"}
    PROVE  LET w == Written(text, event) IN
           \E n \in Nat : /\ DOMAIN w = 1..n
                          /\ n \in {Len(lines), Len(lines) + 1} /\ n > 0
                          /\ \A i \in 1..n : i # n => i \in DOMAIN lines /\ w[i] = lines[i]
                          /\ w[n].event = event
<1> DEFINE w == Written(text, event)
           l1 == [text |-> text, event |-> event]
           l2 == [text |-> IF text = "whole" THEN "garbled" ELSE "torn", event |-> event]
<1>1. l1 \in Line /\ l2 \in Line /\ l1.event = event /\ l2.event = event
  BY DEF Line
<1> HIDE DEF l1, l2
<1>2. CASE lines = <<>> \/ Ended(Last(lines))
  <2>1. w = Append(lines, l1)
    BY <1>2 DEF Written, l1
  <2> QED BY <2>1, <1>1
<1>3. CASE ~(lines = <<>> \/ Ended(Last(lines)))
  <2>1. w = Append(Front(lines), l2)
    BY <1>3 DEF Written, l2
  <2>2. /\ Front(lines) \in Seq(Line)
        /\ Len(Front(lines)) = Len(lines) - 1
        /\ \A i \in 1..(Len(lines) - 1) : Front(lines)[i] = lines[i]
    BY <1>3, FrontShape
  <2>3. Len(lines) \in Nat /\ Len(lines) > 0 /\ DOMAIN lines = 1..Len(lines)
    BY <1>3
  <2> HIDE DEF Line
  <2>4. DOMAIN w = 1..Len(lines) /\ w[Len(lines)] = l2
    BY <2>1, <2>2, <2>3, <1>1
  <2>5. \A i \in 1..Len(lines) : i # Len(lines) => w[i] = lines[i]
    BY <2>1, <2>2, <2>3, <1>1
  <2> QED BY <2>3, <2>4, <2>5, <1>1
<1> QED BY <1>2, <1>3

\* Nothing is recorded at first.
LEMMA RecordInit == Init => RecordInv
BY DEF Init, RecordInv, EventsInv, LinesInv, DraftsInv, Truthful, Decided, Unrecorded

\* Steps that touch neither the log nor the file nor what was performed.
LEMMA RecordQuiet ==
    ASSUME TypeInv, RecordInv, NEW t \in Threads,
           PlanFails(t) \/ Deny(t) \/ Grant(t) \/ HandlerFails(t)
             \/ ReadPrevious(t) \/ ReadLength(t) \/ Reply(t)
    PROVE  RecordInv'
<1>1. /\ asked' = asked /\ performed' = performed
      /\ events' = events /\ lines' = lines
  BY DEF PlanFails, Deny, Grant, HandlerFails, ReadPrevious, ReadLength, Reply,
         history, storage
<1>2. /\ \A u \in Threads : draft'[u].call = draft[u].call
      /\ \A u \in Threads : u # t => pc'[u] = pc[u] /\ draft'[u] = draft[u]
  BY ServeKeepsCalls DEF Serve
<1>3. /\ pc'[t] \in Unrecorded => pc[t] \in Unrecorded
      /\ pc'[t] \in Unrecorded \cup {"write"} => pc[t] \in Unrecorded \cup {"write"}
      /\ pc'[t] \in {"gates", "execute"} => pc[t] \in {"gates", "execute"}
  BY DEF PlanFails, Deny, Grant, HandlerFails, ReadPrevious, ReadLength, Reply,
         Goto, At, Tell, TypeInv, TypeOK, Unrecorded
<1>4. pc'[t] \in Decided => Truthful(draft[t])' 
  BY SMTT(30), <1>1 DEF PlanFails, Deny, Grant, HandlerFails, ReadPrevious, ReadLength, Reply,
         Goto, At, Tell, TypeInv, TypeOK, Event, Decided, Truthful, RecordInv, DraftsInv,
         CallsInv
<1>5. EventsInv' /\ LinesInv'
  BY <1>1, <1>2, <1>3 DEF RecordInv, EventsInv, LinesInv, Truthful
<1>6. DraftsInv'
  BY <1>1, <1>2, <1>3, <1>4 DEF RecordInv, DraftsInv, Truthful
<1> QED BY <1>5, <1>6 DEF RecordInv

\* A handler returns: its call, recorded nowhere yet, is performed.
LEMMA RecordExecute ==
    ASSUME TypeInv, RecordInv, NEW t \in Threads, Execute(t) PROVE RecordInv'
<1> USE DEF TypeInv, TypeOK
<1> DEFINE c == draft[t].call
<1>1. /\ asked' = asked /\ events' = events /\ lines' = lines
      /\ performed' = performed \cup {c}
      /\ draft' = [draft EXCEPT ![t].status = "allowed"]
      /\ pc' = [pc EXCEPT ![t] = "previous"] /\ pc[t] = "execute"
  BY DEF Execute, storage, Goto, At
<1>2. /\ c \in 1..Len(asked)
      /\ \A u \in Threads : u # t /\ pc[u] # "idle" => draft[u].call # c
  BY <1>1 DEF CallsInv
<1>3. /\ \A u \in Threads : draft'[u].call = draft[u].call
      /\ \A u \in Threads : u # t => pc'[u] = pc[u] /\ draft'[u] = draft[u]
      /\ draft'[t].status = "allowed" /\ pc'[t] = "previous"
  BY <1>1 DEF Event
<1>4. /\ \A i \in DOMAIN events : events[i].call # c
      /\ \A i \in DOMAIN lines : lines[i].event.call # c
  BY <1>1 DEF RecordInv, EventsInv, LinesInv, Unrecorded
<1> HIDE DEF c
<1>5. EventsInv'
  BY <1>1, <1>3, <1>4 DEF RecordInv, EventsInv, Truthful, Unrecorded
<1>6. LinesInv'
  BY <1>1, <1>3, <1>4 DEF RecordInv, LinesInv, Truthful, Unrecorded
<1>7. DraftsInv'
  <2>1. performed' \subseteq 1..Len(asked')
    BY <1>1, <1>2 DEF RecordInv, DraftsInv
  <2>2. ASSUME NEW u \in Threads, pc'[u] \in {"gates", "execute"}
        PROVE  draft'[u].call \notin performed'
    BY <2>2, <1>1, <1>2, <1>3 DEF RecordInv, DraftsInv
  <2>3. ASSUME NEW u \in Threads, pc'[u] \in Decided PROVE Truthful(draft[u])'
    <3>1. CASE u = t
      BY <3>1, <1>1, <1>2, <1>3 DEF Truthful, c
    <3>2. CASE u # t
      <4>1. pc[u] \in Decided /\ pc[u] # "idle" /\ draft[u].call # c
        BY <3>2, <2>3, <1>2, <1>3 DEF Decided
      <4> QED BY <4>1, <3>2, <1>1, <1>3 DEF Truthful, RecordInv, DraftsInv
    <3> QED BY <3>1, <3>2
  <2> QED BY <2>1, <2>2, <2>3 DEF DraftsInv
<1> QED BY <1>5, <1>6, <1>7 DEF RecordInv

\* append adds an event for a call that has none.
LEMMA RecordAppend ==
    ASSUME TypeInv, RecordInv, NEW t \in Threads, AppendEvent(t) PROVE RecordInv'
<1> USE DEF TypeInv, TypeOK
<1>1. /\ asked' = asked /\ lines' = lines /\ performed' = performed
      /\ draft' = [draft EXCEPT ![t].hash = clock + 1]
      /\ events' = Append(events, draft'[t]) /\ pc[t] = "append"
      /\ pc'[t] \in {"write", "reply"}
      /\ \A u \in Threads : u # t => pc'[u] = pc[u]
  BY DEF AppendEvent, history, Goto, At
<1> DEFINE e == draft'[t]
<1>2. /\ \A u \in Threads : draft'[u].call = draft[u].call
      /\ \A u \in Threads : draft'[u].status = draft[u].status
      /\ e \in Event
  <2>1. clock + 1 \in Nat
    OBVIOUS
  <2> QED BY <1>1, <2>1 DEF Event
<1>3. /\ DOMAIN events' = 1..(Len(events) + 1)
      /\ \A i \in DOMAIN events : events'[i] = events[i]
      /\ events'[Len(events) + 1] = e
      /\ DOMAIN events = 1..Len(events) /\ Len(events) \in Nat
  BY <1>1, <1>2, AppendShape
<1>4. /\ e.call = draft[t].call
      /\ e.call \in 1..Len(asked) /\ (e.status = "allowed" <=> e.call \in performed)
      /\ \A u \in Threads : u # t /\ pc[u] # "idle" => draft[u].call # e.call
      /\ \A i \in DOMAIN events : events[i].call # e.call
  BY <1>1, <1>2 DEF RecordInv, EventsInv, DraftsInv, Truthful, Decided, Unrecorded, CallsInv
<1> HIDE DEF e
<1>5. EventsInv'
  <2>1. ASSUME NEW i \in DOMAIN events' PROVE Truthful(events[i])'
    <3>1. CASE i \in DOMAIN events
      BY <3>1, <1>1, <1>3 DEF RecordInv, EventsInv, Truthful
    <3>2. CASE i = Len(events) + 1
      BY <3>2, <1>1, <1>3, <1>4 DEF Truthful
    <3> QED BY <3>1, <3>2, <1>3
  <2>2. ASSUME NEW i \in DOMAIN events', NEW j \in DOMAIN events',
               events'[i].call = events'[j].call
        PROVE  i = j
    BY <2>2, <1>3, <1>4 DEF RecordInv, EventsInv
  <2>3. ASSUME NEW u \in Threads, pc'[u] \in Unrecorded, NEW i \in DOMAIN events'
        PROVE  events'[i].call # draft'[u].call
    <3>1. u # t /\ pc[u] \in Unrecorded /\ pc[u] # "idle"
      BY <2>3, <1>1 DEF Unrecorded
    <3> QED BY <3>1, <1>2, <1>3, <1>4 DEF RecordInv, EventsInv
  <2> QED BY <2>1, <2>2, <2>3 DEF EventsInv
<1>6. LinesInv'
  <2>1. \A u \in Threads : pc'[u] \in Unrecorded \cup {"write"}
                            => pc[u] \in Unrecorded \cup {"write"}
    BY <1>1 DEF Unrecorded
  <2> QED BY <2>1, <1>1, <1>2 DEF RecordInv, LinesInv, Truthful
<1>7. DraftsInv'
  BY <1>1, <1>2 DEF RecordInv, DraftsInv, Truthful, Decided
<1> QED BY <1>5, <1>6, <1>7 DEF RecordInv

\* Steps that may add the line of thread t, after which t holds no event
\* that is not in memory.
LEMMA LinesAfterWrite ==
    ASSUME TypeInv, RecordInv, NEW t \in Threads, pc[t] = "write",
           asked' = asked, performed' = performed,
           NEW text \in {"whole", "unended", "torn"},
           lines' = lines \/ lines' = Written(text, draft[t]),
           \A u \in Threads : pc'[u] \in Unrecorded \cup {"write"} =>
                u # t /\ pc[u] = pc'[u] /\ draft[u].call = draft'[u].call
    PROVE  LinesInv'
<1> USE DEF TypeInv, TypeOK
<1>1. CASE lines' = lines
  BY <1>1 DEF RecordInv, LinesInv, Truthful
<1>2. CASE lines' = Written(text, draft[t])
  <2>1. PICK n \in Nat :
           /\ DOMAIN lines' = 1..n
           /\ n \in {Len(lines), Len(lines) + 1} /\ n > 0
           /\ \A i \in 1..n : i # n => i \in DOMAIN lines /\ lines'[i] = lines[i]
           /\ lines'[n].event = draft[t]
    <3>1. draft[t] \in Event /\ lines \in Seq(Line)
      OBVIOUS
    <3> DEFINE w == Written(text, draft[t])
    <3>2. \E n \in Nat :
             /\ DOMAIN w = 1..n
             /\ n \in {Len(lines), Len(lines) + 1} /\ n > 0
             /\ \A i \in 1..n : i # n => i \in DOMAIN lines /\ w[i] = lines[i]
             /\ w[n].event = draft[t]
      <4> HIDE DEF TypeInv, TypeOK
      <4> QED BY <3>1, WrittenShape
    <3> HIDE DEF w
    <3>3. lines' = w
      BY <1>2 DEF w
    <3> QED BY <3>2, <3>3
  <2>2. /\ Truthful(draft[t])
        /\ \A i \in DOMAIN lines : lines[i].event.call # draft[t].call
        /\ \A u \in Threads : u # t /\ pc[u] # "idle" => draft[u].call # draft[t].call
    BY DEF RecordInv, DraftsInv, LinesInv, Decided, CallsInv
  <2>3. ASSUME NEW i \in DOMAIN lines' PROVE Truthful(lines[i].event)'
    BY <2>1, <2>2 DEF RecordInv, LinesInv, Truthful
  <2>4. ASSUME NEW i \in DOMAIN lines', NEW j \in DOMAIN lines',
               lines'[i].event.call = lines'[j].event.call
        PROVE  i = j
    BY <2>4, <2>1, <2>2 DEF RecordInv, LinesInv
  <2>5. ASSUME NEW u \in Threads, pc'[u] \in Unrecorded \cup {"write"},
               NEW i \in DOMAIN lines'
        PROVE  lines'[i].event.call # draft'[u].call
    <3>1. u # t /\ pc[u] = pc'[u] /\ draft[u].call = draft'[u].call /\ pc[u] # "idle"
      BY <2>5 DEF Unrecorded
    <3> QED BY <3>1, <2>1, <2>2, <2>5 DEF RecordInv, LinesInv
  <2> QED BY <2>3, <2>4, <2>5 DEF LinesInv
<1> QED BY <1>1, <1>2

\* A write, complete or failed, adds at most the line of its own call.
LEMMA RecordWrite ==
    ASSUME TypeInv, RecordInv, NEW t \in Threads, WriteLine(t) \/ WriteFails(t)
    PROVE  RecordInv'
<1> USE DEF TypeInv, TypeOK
<1>1. /\ asked' = asked /\ performed' = performed /\ events' = events /\ draft' = draft
      /\ pc[t] = "write" /\ pc'[t] \in {"reply", "idle"}
      /\ \A u \in Threads : u # t => pc'[u] = pc[u]
  BY DEF WriteLine, WriteFails, history, Tell, Goto, At
<1>2. PICK text \in {"whole", "unended", "torn"} :
         lines' = lines \/ lines' = Written(text, draft[t])
  BY DEF WriteLine, WriteFails, CutShort
<1>3. LinesInv'
  BY <1>1, <1>2, LinesAfterWrite DEF Unrecorded
<1>4. EventsInv' /\ DraftsInv'
  BY <1>1 DEF RecordInv, EventsInv, DraftsInv, Truthful, Decided, Unrecorded
<1> QED BY <1>3, <1>4 DEF RecordInv

\* A crash may leave one more cut line, of a call that had none.
LEMMA RecordCrash == ASSUME TypeInv, RecordInv, Crash PROVE RecordInv'
<1>1. /\ asked' = asked /\ performed' = performed /\ events' = <<>>
      /\ \A u \in Threads : pc'[u] = "idle"
  BY DEF Crash, history
<1>2. EventsInv' /\ DraftsInv'
  BY <1>1 DEF RecordInv, EventsInv, DraftsInv, Truthful, Decided, Unrecorded
<1>3. LinesInv'
  <2>1. CASE lines' = lines
    BY <2>1, <1>1 DEF RecordInv, LinesInv, Truthful, Unrecorded
  <2>2. CASE \E t \in Threads : pc[t] = "write" /\ CutShort(t)
    <3>1. PICK t \in Threads, text \in {"whole", "unended", "torn"} :
             pc[t] = "write" /\ lines' = Written(text, draft[t])
      BY <2>2 DEF CutShort
    <3> QED BY <3>1, <1>1, LinesAfterWrite DEF Unrecorded
  <2> QED BY <2>1, <2>2 DEF Crash
<1> QED BY <1>2, <1>3 DEF RecordInv

\* A new call is recorded and performed nowhere.
LEMMA RecordReceive ==
    ASSUME TypeInv, RecordInv, NEW t \in Threads, Receive(t) PROVE RecordInv'
<1> USE DEF TypeInv, TypeOK
<1>1. PICK r \in Requests : asked' = Append(asked, r)
  BY DEF Receive
<1>2. /\ Len(asked') = Len(asked) + 1 /\ Len(asked) \in Nat
      /\ events' = events /\ lines' = lines /\ performed' = performed
      /\ pc'[t] = "gates"
      /\ \A u \in Threads : u # t => pc'[u] = pc[u]
  BY <1>1 DEF Receive, storage, Goto
<1>3. /\ draft'[t].call = Len(asked) + 1
      /\ \A u \in Threads : u # t => draft'[u] = draft[u]
  BY DEF Receive, Blank
<1>4. /\ \A c \in 1..Len(asked) : c \in 1..Len(asked') /\ c # draft'[t].call
  BY <1>2, <1>3
<1>5. EventsInv'
  BY <1>2, <1>3, <1>4 DEF RecordInv, EventsInv, Truthful
<1>6. LinesInv'
  BY <1>2, <1>3, <1>4 DEF RecordInv, LinesInv, Truthful
<1>7. DraftsInv'
  BY <1>2, <1>3, <1>4 DEF RecordInv, DraftsInv, Truthful, Decided
<1> QED BY <1>5, <1>6, <1>7 DEF RecordInv

\* A restart brings the events of the file, which are truthful.
LEMMA RecordRestart == ASSUME TypeInv, RecordInv, Restart PROVE RecordInv'
<1>1. /\ asked' = asked /\ performed' = performed /\ lines' = lines
      /\ pc' = pc /\ draft' = draft /\ events' = Loaded
      /\ \A u \in Threads : pc[u] = "idle"
  BY DEF Restart, history, TypeInv, CallsInv
<1>2. DOMAIN events' = DOMAIN lines /\ \A i \in DOMAIN lines : events'[i] = lines[i].event
  BY <1>1 DEF Loaded
<1>3. EventsInv'
  BY <1>1, <1>2 DEF RecordInv, EventsInv, LinesInv, Truthful, Unrecorded
<1>4. LinesInv' /\ DraftsInv'
  BY <1>1 DEF RecordInv, LinesInv, DraftsInv, Truthful
<1> QED BY <1>3, <1>4 DEF RecordInv

\* RecordInv is inductive relative to TypeInv.
LEMMA RecordStep == TypeInv /\ RecordInv /\ [Next]_vars => RecordInv'
<1> SUFFICES ASSUME TypeInv, RecordInv, [Next]_vars PROVE RecordInv'
  OBVIOUS
<1>1. CASE \E t \in Threads : Receive(t) \/ Serve(t)
  BY <1>1, RecordReceive, RecordQuiet, RecordExecute, RecordAppend, RecordWrite DEF Serve
<1>2. CASE Crash    BY <1>2, RecordCrash
<1>3. CASE Restart  BY <1>3, RecordRestart
<1>4. CASE UNCHANGED vars
  BY <1>4 DEF vars, RecordInv, EventsInv, LinesInv, DraftsInv, Truthful
<1> QED BY <1>1, <1>2, <1>3, <1>4 DEF Next

\* Every variable keeps its type and no two threads serve the same call: what
\* all the proofs below rest on (ConstitutionalKernel.handle under any number
\* of threads).
THEOREM TypeCorrect == Spec => []TypeInv
BY TypeInit, TypeStep, PTL DEF Spec

\* Every variable keeps its type (KernelServer!TypeOK).
THEOREM TypeOKCorrect == Spec => []TypeOK
<1>1. TypeInv => TypeOK
  BY DEF TypeInv
<1> QED BY <1>1, TypeCorrect, PTL

\* A call is recorded at most once, whatever the threads, crashes and errors
\* (KernelServer!RecordedOnce).
THEOREM RecordedOnceCorrect == Spec => []RecordedOnce
<1>1. RecordInv => RecordedOnce
  BY DEF RecordInv, EventsInv, RecordedOnce
<1> QED BY <1>1, TypeCorrect, RecordInit, RecordStep, PTL DEF Spec

\* The log never tells of a call what did not happen to it.
THEOREM NoFalseRecordCorrect == Spec => []NoFalseRecord
<1>1. RecordInv => NoFalseRecord
  BY DEF RecordInv, EventsInv, LinesInv, Truthful, NoFalseRecord, Recorded, Loaded
<1> QED BY <1>1, TypeCorrect, RecordInit, RecordStep, PTL DEF Spec

-----------------------------------------------------------------------------
(* Handlers run for authorized requests only *)

GrantedInv ==
    /\ performed \subseteq 1..Len(asked)
    /\ \A c \in performed : GateOf(c) = "granted"
    /\ \A t \in Threads : pc[t] = "execute" => GateOf(draft[t].call) = "granted"

\* No handler has run at first.
LEMMA GrantedInit == Init => GrantedInv
BY DEF Init, GrantedInv

\* GrantedInv is inductive: the gates are passed before the handler runs, and
\* a request never changes after it was received.
LEMMA GrantedStep == TypeInv /\ GrantedInv /\ [Next]_vars => GrantedInv'
<1> SUFFICES ASSUME TypeInv, GrantedInv, [Next]_vars PROVE GrantedInv'
  OBVIOUS
<1> USE DEF TypeInv, TypeOK
<1>1. ASSUME NEW t \in Threads, Receive(t) PROVE GrantedInv'
  <2>1. PICK r \in Requests : asked' = Append(asked, r)
    BY <1>1 DEF Receive
  <2>2. /\ Len(asked') = Len(asked) + 1 /\ Len(asked) \in Nat
        /\ \A c \in 1..Len(asked) : asked'[c] = asked[c]
    BY <2>1
  <2>3. \A c \in 1..Len(asked) : GateOf(c)' = GateOf(c)
    BY <2>2 DEF GateOf
  <2>4. /\ performed' = performed /\ pc'[t] = "gates"
        /\ \A u \in Threads : u # t => pc'[u] = pc[u] /\ draft'[u] = draft[u]
    BY <1>1 DEF Receive, Goto
  <2>5. \A u \in Threads : pc[u] = "execute" => draft[u].call \in 1..Len(asked)
    BY DEF CallsInv
  <2> QED BY <2>2, <2>3, <2>4, <2>5 DEF GrantedInv
<1>2. ASSUME NEW t \in Threads, Serve(t) PROVE GrantedInv'
  <2>1. /\ asked' = asked
        /\ draft[t].call \in 1..Len(asked)
        /\ \A u \in Threads : draft'[u].call = draft[u].call
        /\ \A u \in Threads : u # t => pc'[u] = pc[u]
    BY <1>2, ServeKeepsCalls DEF CallsInv
  <2>2. \A c : GateOf(c)' = GateOf(c)
    BY <2>1 DEF GateOf
  <2>3. CASE Grant(t)
    BY <2>1, <2>2, <2>3 DEF Grant, At, Goto, history, GrantedInv
  <2>4. CASE Execute(t)
    BY <2>1, <2>2, <2>4 DEF Execute, At, Goto, GrantedInv
  <2>5. CASE ~Grant(t) /\ ~Execute(t)
    <3>1. performed' = performed /\ pc'[t] # "execute"
      BY <1>2, <2>5 DEF Serve, PlanFails, Deny, HandlerFails, ReadPrevious, ReadLength,
         AppendEvent, WriteLine, WriteFails, Reply, Goto, Tell, history
    <3> QED BY <3>1, <2>1, <2>2 DEF GrantedInv
  <2> QED BY <2>3, <2>4, <2>5
<1>3. CASE Crash
  BY <1>3 DEF Crash, history, GrantedInv, GateOf
<1>4. CASE Restart
  BY <1>4 DEF Restart, history, GrantedInv, GateOf
<1>5. CASE UNCHANGED vars
  BY <1>5 DEF vars, GrantedInv, GateOf
<1> QED BY <1>1, <1>2, <1>3, <1>4, <1>5 DEF Next

\* No handler runs for a request that some table does not authorize
\* (ConstitutionalKernel.handle under any number of threads).
THEOREM OnlyAuthorizedRunCorrect == Spec => []OnlyAuthorizedRun
<1>1. GrantedInv => OnlyAuthorizedRun
  BY TablesAssumption, GatesAuthorize DEF GrantedInv, GateOf, OnlyAuthorizedRun
<1> QED BY <1>1, TypeCorrect, GrantedInit, GrantedStep, PTL DEF Spec

-----------------------------------------------------------------------------
(* An execution leaves a trace *)

\* Until the process is first killed, what ran is served by a thread or in the
\* list, and a thread past append has its event there.
TraceInv ==
    /\ crashes = 0 => up
    /\ \A t \in Threads : pc[t] \in {"write", "reply"} =>
         \E i \in DOMAIN events : events[i].call = draft[t].call
    /\ crashes = 0 => \A c \in performed :
         \/ \E t \in Threads : pc[t] # "idle" /\ draft[t].call = c
         \/ \E i \in DOMAIN events : events[i].call = c

\* Nothing has run at first.
LEMMA TraceInit == Init => TraceInv
BY DEF Init, TraceInv

\* A step within handle only adds to the list, and a thread that leaves had
\* nothing to record or has recorded it.
LEMMA TraceServe ==
    ASSUME TypeInv, RecordInv, TraceInv, NEW t \in Threads, Serve(t)
    PROVE  TraceInv'
<1> USE DEF TypeInv, TypeOK
<1>1. /\ up' /\ pc[t] # "idle"
      /\ \A u \in Threads : draft'[u].call = draft[u].call
      /\ \A u \in Threads : u # t => pc'[u] = pc[u]
  BY ServeKeepsCalls
<1>2. crashes' = crashes /\ performed' \subseteq performed \cup {draft[t].call}
  BY DEF Serve, PlanFails, Deny, Grant, Execute, HandlerFails, ReadPrevious, ReadLength,
     AppendEvent, WriteLine, WriteFails, Reply, Tell, history, storage, budgets
<1>3. \A i \in DOMAIN events : i \in DOMAIN events' /\ events'[i].call = events[i].call
  <2>1. CASE AppendEvent(t)
    <3>1. clock + 1 \in Nat
      OBVIOUS
    <3>2. draft'[t] \in Event /\ events' = Append(events, draft'[t])
      BY <2>1, <3>1 DEF AppendEvent, Event
    <3> QED BY <3>2, AppendShape
  <2>2. CASE ~AppendEvent(t)
    <3>1. events' = events
      BY <2>2 DEF Serve, PlanFails, Deny, Grant, Execute, HandlerFails, ReadPrevious, ReadLength,
         WriteLine, WriteFails, Reply, storage
    <3> QED BY <3>1
  <2> QED BY <2>1, <2>2
<1> DEFINE Recorded1 == \E j \in DOMAIN events' : events'[j].call = draft[t].call
<1>4. /\ pc'[t] \in {"write", "reply"} => Recorded1
      /\ pc'[t] # "idle" \/ Recorded1 \/ draft[t].call \notin performed'
  <2>1. CASE AppendEvent(t)
    <3>1. clock + 1 \in Nat
      OBVIOUS
    <3>2. draft'[t] \in Event /\ events' = Append(events, draft'[t])
      BY <2>1, <3>1 DEF AppendEvent, Event
    <3>3. Len(events) + 1 \in DOMAIN events' /\ events'[Len(events) + 1] = draft'[t]
      BY <3>2, AppendShape
    <3> QED BY <1>1, <3>3
  <2>2. CASE PlanFails(t)
    BY <2>2 DEF PlanFails, At, Tell, Goto, RecordInv, DraftsInv
  <2>3. CASE WriteLine(t) \/ WriteFails(t) \/ Reply(t)
    <3>1. pc[t] \in {"write", "reply"}
      BY <2>3 DEF WriteLine, WriteFails, Reply, At
    <3>2. PICK i \in DOMAIN events : events[i].call = draft[t].call
      BY <3>1 DEF TraceInv
    <3> QED BY <1>3, <3>2
  <2>4. CASE ~(AppendEvent(t) \/ PlanFails(t) \/ WriteLine(t) \/ WriteFails(t) \/ Reply(t))
    BY <2>4 DEF Serve, Deny, Grant, Execute, HandlerFails, ReadPrevious, ReadLength, Goto
  <2> QED BY <2>1, <2>2, <2>3, <2>4
<1>5. ASSUME NEW u \in Threads, pc'[u] \in {"write", "reply"}
      PROVE  \E j \in DOMAIN events' : events'[j].call = draft'[u].call
  <2>1. CASE u = t
    BY <2>1, <1>1, <1>4, <1>5
  <2>2. CASE u # t
    <3>1. PICK j \in DOMAIN events : events[j].call = draft[u].call
      BY <2>2, <1>1, <1>5 DEF TraceInv
    <3> QED BY <1>1, <1>3, <3>1
  <2> QED BY <2>1, <2>2
<1>6. ASSUME crashes' = 0, NEW c \in performed'
      PROVE  \/ \E u \in Threads : pc'[u] # "idle" /\ draft'[u].call = c
             \/ \E j \in DOMAIN events' : events'[j].call = c
  <2>1. CASE c = draft[t].call
    BY <2>1, <1>1, <1>4, <1>6
  <2>2. CASE c # draft[t].call
    <3>1. c \in performed
      BY <2>2, <1>2, <1>6
    <3>2. CASE \E j \in DOMAIN events : events[j].call = c
      BY <3>2, <1>3
    <3>3. CASE \E u \in Threads : pc[u] # "idle" /\ draft[u].call = c
      BY <3>3, <2>2, <1>1
    <3> QED BY <3>1, <3>2, <3>3, <1>2, <1>6 DEF TraceInv
  <2> QED BY <2>1, <2>2
<1> QED BY <1>1, <1>5, <1>6 DEF TraceInv

\* TraceInv is inductive.
LEMMA TraceStep == TypeInv /\ RecordInv /\ TraceInv /\ [Next]_vars => TraceInv'
<1> SUFFICES ASSUME TypeInv, RecordInv, TraceInv, [Next]_vars PROVE TraceInv'
  OBVIOUS
<1>1. ASSUME NEW t \in Threads, Receive(t) PROVE TraceInv'
  <2>1. /\ up' /\ events' = events /\ performed' = performed /\ crashes' = crashes
        /\ pc[t] = "idle" /\ pc'[t] = "gates"
        /\ \A u \in Threads : u # t => pc'[u] = pc[u] /\ draft'[u] = draft[u]
    BY <1>1 DEF Receive, storage, budgets, At, Goto, TypeInv, TypeOK
  <2> QED BY <2>1 DEF TraceInv
<1>2. ASSUME NEW t \in Threads, Serve(t) PROVE TraceInv'
  BY <1>2, TraceServe
<1>3. CASE Crash
  <2>1. crashes' # 0 /\ \A t \in Threads : pc'[t] = "idle"
    BY <1>3, BoundsAssumption DEF Crash, TypeInv, TypeOK
  <2> QED BY <2>1 DEF TraceInv
<1>4. CASE Restart
  BY <1>4 DEF Restart, budgets, TraceInv, TypeInv, CallsInv
<1>5. CASE UNCHANGED vars
  BY <1>5 DEF vars, TraceInv
<1> QED BY <1>1, <1>2, <1>3, <1>4, <1>5 DEF Next

\* As long as the process is not killed, a call whose handler returned is in the
\* log when no thread serves it any more, whether its write failed or not.
THEOREM ExecutionsRecordedCorrect == Spec => []ExecutionsRecorded
<1>1. TraceInv => ExecutionsRecorded
  BY DEF TraceInv, ExecutionsRecorded, Recorded
<1>2. TypeInv /\ RecordInv /\ TraceInv /\ [Next]_vars => TraceInv' /\ RecordInv'
  BY TraceStep, RecordStep
<1> QED BY <1>1, <1>2, TypeCorrect, RecordInit, TraceInit, PTL DEF Spec

-----------------------------------------------------------------------------
(* With a file and writes that are all or nothing, answers are durable *)

WholeFile == FileBacked /\ ~PartialWrites

DurableInv ==
    /\ \A i \in DOMAIN lines : lines[i].text = "whole"
    /\ \A t \in Threads : pc[t] = "reply" =>
         \E i \in DOMAIN lines : lines[i].event = draft[t]
    /\ DurableAnswers

\* Nobody has been answered at first.
LEMMA DurableInit == Init => DurableInv
BY DEF Init, DurableInv, DurableAnswers, Decisions

\* A thread reaches its reply by writing its line, and lines stay.
LEMMA DurableServe ==
    ASSUME TypeInv, DurableInv, WholeFile, NEW t \in Threads, Serve(t)
    PROVE  DurableInv'
<1> USE DEF TypeInv, TypeOK
<1>a. /\ \A u \in Threads : u # t => pc'[u] = pc[u] /\ draft'[u] = draft[u]
  BY ServeKeepsCalls
<1>1. CASE WriteLine(t)
  <2> DEFINE line == [text |-> "whole", event |-> draft[t]]
  <2>1. lines = <<>> \/ Ended(Last(lines))
    BY DEF DurableInv, Ended, Last
  <2>2. lines' = Append(lines, line)
    BY <1>1, <2>1 DEF WriteLine, Written
  <2>3. line \in Line
    BY DEF Line
  <2> HIDE DEF line
  <2>4. /\ DOMAIN lines' = 1..(Len(lines) + 1) /\ DOMAIN lines = 1..Len(lines)
        /\ \A i \in DOMAIN lines : lines'[i] = lines[i] /\ i \in DOMAIN lines'
        /\ lines'[Len(lines) + 1] = line /\ Len(lines) + 1 \in DOMAIN lines'
    BY <2>2, <2>3, AppendShape
  <2>5. answers' = answers /\ draft' = draft
    BY <1>1 DEF WriteLine, history
  <2>6. \A i \in DOMAIN lines' : lines'[i].text = "whole"
    BY <2>4 DEF DurableInv, line
  <2>7. \A u \in Threads : pc'[u] = "reply" =>
            \E i \in DOMAIN lines' : lines'[i].event = draft'[u]
    <3>1. lines'[Len(lines) + 1].event = draft'[t]
      BY <2>4, <2>5 DEF line
    <3> QED BY <3>1, <2>4, <2>5, <1>a DEF DurableInv
  <2>8. DurableAnswers'
    BY <2>4, <2>5 DEF DurableInv, DurableAnswers, Decisions, Readable
  <2> QED BY <2>6, <2>7, <2>8 DEF DurableInv
<1>2. CASE Reply(t)
  <2>1. /\ lines' = lines /\ pc[t] = "reply" /\ pc'[t] = "idle"
        /\ answers' = answers \cup
             {[call |-> draft[t].call, status |-> draft[t].status, event |-> draft[t].id]}
    BY <1>2 DEF Reply, Tell, Goto, At, storage
  <2>2. PICK i \in DOMAIN lines : lines[i].event = draft[t]
    BY <2>1 DEF DurableInv
  <2>3. Readable(lines[i])
    BY DEF DurableInv, Readable
  <2>4. DurableAnswers'
    BY SMTT(30), <2>1, <2>2, <2>3 DEF DurableInv, DurableAnswers, Decisions, Readable
  <2> QED BY <2>1, <2>4, <1>a DEF DurableInv
<1>3. CASE PlanFails(t) \/ WriteFails(t)
  <2>1. /\ lines' = lines /\ pc'[t] = "idle"
        /\ answers' = answers \cup
             {[call |-> draft[t].call, status |-> "error", event |-> 0]}
    BY <1>3 DEF PlanFails, WriteFails, CutShort, WholeFile, Tell, Goto, storage
  <2>2. Decisions' = Decisions
    BY <2>1 DEF Decisions
  <2> QED BY <2>1, <2>2, <1>a DEF DurableInv, DurableAnswers, Readable
<1>4. CASE ~(WriteLine(t) \/ Reply(t) \/ PlanFails(t) \/ WriteFails(t))
  <2>1. lines' = lines /\ answers' = answers /\ pc'[t] # "reply"
    BY <1>4 DEF Serve, Deny, Grant, Execute, HandlerFails, ReadPrevious, ReadLength,
       AppendEvent, WholeFile, Goto, history, storage
  <2> QED BY <2>1, <1>a DEF DurableInv, DurableAnswers, Decisions, Readable
<1> QED BY <1>1, <1>2, <1>3, <1>4

\* DurableInv is inductive when no write is cut short.
LEMMA DurableStep == WholeFile /\ TypeInv /\ DurableInv /\ [Next]_vars => DurableInv'
<1> SUFFICES ASSUME WholeFile, TypeInv, DurableInv, [Next]_vars PROVE DurableInv'
  OBVIOUS
<1>1. ASSUME NEW t \in Threads, Receive(t) PROVE DurableInv'
  <2>1. /\ lines' = lines /\ answers' = answers /\ pc'[t] = "gates"
        /\ \A u \in Threads : u # t => pc'[u] = pc[u] /\ draft'[u] = draft[u]
    BY <1>1 DEF Receive, storage, Goto, TypeInv, TypeOK
  <2> QED BY <2>1 DEF DurableInv, DurableAnswers, Decisions, Readable
<1>2. ASSUME NEW t \in Threads, Serve(t) PROVE DurableInv'
  BY <1>2, DurableServe
<1>3. CASE Crash
  BY <1>3 DEF Crash, CutShort, WholeFile, history, DurableInv, DurableAnswers, Decisions, Readable
<1>4. CASE Restart
  BY <1>4 DEF Restart, history, DurableInv, DurableAnswers, Decisions, Readable, TypeInv, CallsInv
<1>5. CASE UNCHANGED vars
  BY <1>5 DEF vars, DurableInv, DurableAnswers, Decisions, Readable
<1> QED BY <1>1, <1>2, <1>3, <1>4, <1>5 DEF Next

\* A caller holds a decision only if its line is in the file, for any number of
\* threads, crashes and failed writes, as long as no write is cut short.
THEOREM DurableAnswersCorrect ==
    ASSUME WholeFile PROVE Spec => []DurableAnswers
<1>1. TypeInv /\ DurableInv /\ [Next]_vars => DurableInv'
  BY DurableStep
<1>2. DurableInv => DurableAnswers
  BY DEF DurableInv
<1> QED BY <1>1, <1>2, TypeCorrect, DurableInit, PTL DEF Spec

-----------------------------------------------------------------------------
(* One thread at a time and no failed write: the chain always verifies, also *)
(* after crashes that cut a line short                                       *)

Sequential == MaxWriteErrors = 0 /\ \A t, u \in Threads : t = u

Linked(s) ==
    \A i \in DOMAIN s : s[i].previous = IF i = 1 THEN GenesisHash ELSE s[i - 1].hash

LastHash(s) == IF s = <<>> THEN GenesisHash ELSE s[Len(s)].hash

\* The file is the list of events, or short of the one being written; a glued
\* line stays in it for ever, and then nothing is claimed of it.
FileInv ==
    IF FileBacked
      THEN FileParses =>
             /\ \A t \in Threads : pc[t] = "write" => events = Append(Loaded, draft[t])
             /\ up /\ (\A t \in Threads : pc[t] # "write") => events = Loaded
             /\ ~up => Linked(Loaded)
      ELSE lines = <<>> /\ \A t \in Threads : pc[t] # "write"

ChainInv ==
    /\ up => Linked(events)
    /\ \A t \in Threads :
         pc[t] \in {"length", "append"} => draft[t].previous = LastHash(events)
    /\ FileInv

\* A chain grows by one event exactly when the event commits to the last hash.
LEMMA ChainedAppend ==
    ASSUME NEW s \in Seq(Event), NEW e \in Event
    PROVE  Linked(Append(s, e)) <=> Linked(s) /\ e.previous = LastHash(s)
<1>1. /\ DOMAIN Append(s, e) = 1..(Len(s) + 1) /\ DOMAIN s = 1..Len(s) /\ Len(s) \in Nat
      /\ \A i \in DOMAIN s : Append(s, e)[i] = s[i]
      /\ Append(s, e)[Len(s) + 1] = e
  BY AppendShape
<1>2. s = <<>> <=> Len(s) = 0
  BY EmptySeq
<1> DEFINE a == Append(s, e)
<1> HIDE DEF a
<1>3. /\ DOMAIN a = 1..(Len(s) + 1)
      /\ \A i \in 1..Len(s) : a[i] = s[i]
      /\ a[Len(s) + 1] = e
  BY <1>1 DEF a
<1>4. Linked(a) => Linked(s)
  BY <1>1, <1>3 DEF Linked
<1>5. Linked(a) => e.previous = LastHash(s)
  <2>1. Linked(a) => e.previous = IF Len(s) + 1 = 1 THEN GenesisHash ELSE a[Len(s)].hash
    BY <1>1, <1>3 DEF Linked
  <2> QED BY <2>1, <1>1, <1>2, <1>3 DEF LastHash
<1>6. Linked(s) /\ e.previous = LastHash(s) => Linked(a)
  <2> SUFFICES ASSUME Linked(s), e.previous = LastHash(s), NEW i \in 1..(Len(s) + 1)
               PROVE  a[i].previous = IF i = 1 THEN GenesisHash ELSE a[i - 1].hash
    BY <1>3 DEF Linked
  <2>1. CASE i \in 1..Len(s)
    <3>1. s[i].previous = IF i = 1 THEN GenesisHash ELSE s[i - 1].hash
      BY <2>1, <1>1 DEF Linked
    <3>2. i = 1 \/ i - 1 \in 1..Len(s)
      BY <2>1, <1>1
    <3> QED BY <3>1, <3>2, <2>1, <1>3
  <2>2. CASE i = Len(s) + 1
    BY <2>2, <1>1, <1>2, <1>3 DEF LastHash
  <2> QED BY <2>1, <2>2, <1>1
<1> QED BY <1>4, <1>5, <1>6 DEF a

\* If the file parses after a write, it parsed before and gained one event.
LEMMA LoadedWritten ==
    ASSUME TypeInv, NEW t \in Threads, NEW text \in {"whole", "unended", "torn"},
           lines' = Written(text, draft[t]), FileParses'
    PROVE  FileParses /\ Loaded' = Append(Loaded, draft[t])
<1> USE DEF TypeInv, TypeOK
<1> DEFINE e == draft[t]
           l1 == [text |-> text, event |-> e]
           l2 == [text |-> IF text = "whole" THEN "garbled" ELSE "torn", event |-> e]
<1>1. /\ l1 \in Line /\ l2 \in Line /\ l1.event = e /\ ~Readable(l2) /\ e \in Event
  BY DEF Line, Readable
<1> HIDE DEF l1, l2, e
<1>2. CASE ~(lines = <<>> \/ Ended(Last(lines)))
  <2>1. lines' = Append(Front(lines), l2)
    BY <1>2 DEF Written, l2, e
  <2>2. Front(lines) \in Seq(Line)
    BY <1>2, FrontShape
  <2>3. \E i \in DOMAIN lines' : lines'[i] = l2
    <3>1. Len(Front(lines)) + 1 \in DOMAIN Append(Front(lines), l2)
      BY <2>2, <1>1
    <3>2. Append(Front(lines), l2)[Len(Front(lines)) + 1] = l2
      BY <2>2, <1>1
    <3> QED BY <3>1, <3>2, <2>1
  <2> QED BY <2>3, <1>1 DEF FileParses, Readable
<1>3. CASE lines = <<>> \/ Ended(Last(lines))
  <2>1. lines' = Append(lines, l1)
    BY <1>3 DEF Written, l1, e
  <2>2. /\ DOMAIN lines' = 1..(Len(lines) + 1) /\ DOMAIN lines = 1..Len(lines)
        /\ \A i \in DOMAIN lines : lines'[i] = lines[i] /\ i \in DOMAIN lines'
        /\ lines'[Len(lines) + 1] = l1 /\ Len(lines) \in Nat
    BY <2>1, <1>1, AppendShape
  <2>3. FileParses
    BY <2>2 DEF FileParses
  <2>4. /\ Loaded \in Seq(Event) /\ Len(Loaded) = Len(lines)
        /\ \A i \in DOMAIN lines : Loaded[i] = lines[i].event
    BY LoadedType DEF Loaded
  <2>5. Append(Loaded, e) = [i \in 1..(Len(lines) + 1) |->
              IF i = Len(lines) + 1 THEN e ELSE lines[i].event]
    <3> DEFINE L == Loaded
    <3>1. /\ L \in Seq(Event) /\ Len(L) = Len(lines) /\ DOMAIN lines = 1..Len(L)
          /\ \A i \in 1..Len(L) : L[i] = lines[i].event
      BY <2>2, <2>4
    <3> HIDE DEF L
    <3>2. Append(L, e) = [i \in 1..(Len(L) + 1) |->
              IF i = Len(L) + 1 THEN e ELSE L[i]]
      <4> DEFINE a == Append(L, e)
      <4>1. /\ a \in Seq(Event) /\ DOMAIN a = 1..(Len(L) + 1)
            /\ \A i \in 1..Len(L) : a[i] = L[i]
            /\ a[Len(L) + 1] = e /\ Len(L) \in Nat
        BY <3>1, <1>1
      <4> HIDE DEF a
      <4>2. a = [i \in DOMAIN a |-> a[i]]
        BY <4>1
      <4>3. \A i \in DOMAIN a : a[i] = IF i = Len(L) + 1 THEN e ELSE L[i]
        BY <4>1
      <4> QED BY <4>1, <4>2, <4>3 DEF a
    <3>3. [i \in 1..(Len(L) + 1) |-> IF i = Len(L) + 1 THEN e ELSE L[i]]
            = [i \in 1..(Len(L) + 1) |-> IF i = Len(L) + 1 THEN e ELSE lines[i].event]
      BY <3>1
    <3> QED BY <3>1, <3>2, <3>3 DEF L
  <2>6. Loaded' = [i \in 1..(Len(lines) + 1) |->
              IF i = Len(lines) + 1 THEN e ELSE lines[i].event]
    BY <2>2, <1>1 DEF Loaded
  <2> QED BY <2>3, <2>5, <2>6 DEF e
<1> QED BY <1>2, <1>3

\* An empty log verifies.
LEMMA ChainInit == Init => ChainInv
BY DEF Init, ChainInv, Linked, FileInv, Loaded

\* With one thread the hash that append read is still the last one when it
\* appends.
LEMMA ChainServe ==
    ASSUME Sequential, TypeInv, ChainInv, NEW t \in Threads, Serve(t)
    PROVE  ChainInv'
<1> USE DEF TypeInv, TypeOK
<1>a. /\ \A u \in Threads : u = t
      /\ up /\ up' = up
  BY ServeKeepsCalls DEF Sequential
<1>1. CASE ReadPrevious(t)
  <2>1. /\ events' = events /\ lines' = lines /\ pc[t] = "previous" /\ pc'[t] = "length"
        /\ draft'[t].previous = LastHash(events)
    BY <1>1 DEF ReadPrevious, storage, Goto, At, LastHash, Last, Event
  <2> QED BY <2>1, <1>a DEF ChainInv, FileInv, FileParses, Loaded
<1>2. CASE ReadLength(t)
  <2>1. /\ events' = events /\ lines' = lines /\ pc[t] = "length" /\ pc'[t] = "append"
        /\ draft'[t].previous = draft[t].previous
    BY <1>2 DEF ReadLength, storage, Goto, At, Event
  <2> QED BY <2>1, <1>a DEF ChainInv, FileInv, FileParses, Loaded
<1>3. CASE AppendEvent(t)
  <2>1. /\ events' = Append(events, draft'[t]) /\ lines' = lines /\ pc[t] = "append"
        /\ pc'[t] = IF FileBacked THEN "write" ELSE "reply"
    BY <1>3 DEF AppendEvent, Goto, At
  <2>2. draft'[t] \in Event /\ draft'[t].previous = draft[t].previous
    <3>1. clock + 1 \in Nat
      OBVIOUS
    <3>2. draft' = [draft EXCEPT ![t].hash = clock + 1]
      BY <1>3 DEF AppendEvent
    <3> QED BY <3>1, <3>2 DEF Event
  <2>3. Linked(events')
    BY <2>1, <2>2, <1>a, ChainedAppend DEF ChainInv
  <2>4. Loaded' = Loaded /\ FileParses' = FileParses
    BY <2>1 DEF Loaded, FileParses
  <2>5. FileInv'
    BY <2>1, <2>4, <1>a DEF ChainInv, FileInv
  <2> QED BY <2>1, <2>3, <2>5, <1>a DEF ChainInv
<1>4. CASE WriteLine(t)
  <2>1. /\ events' = events /\ lines' = Written("whole", draft[t])
        /\ pc[t] = "write" /\ pc'[t] = "reply"
    BY <1>4 DEF WriteLine, Goto, At
  <2>2. FileParses' => FileParses /\ Loaded' = Append(Loaded, draft[t])
    BY <2>1, LoadedWritten
  <2>3. FileBacked
    BY <2>1 DEF ChainInv, FileInv
  <2>4. FileInv'
    BY <2>1, <2>2, <2>3, <1>a DEF ChainInv, FileInv
  <2> QED BY <2>1, <2>4, <1>a DEF ChainInv
<1>5. CASE ~(ReadPrevious(t) \/ ReadLength(t) \/ AppendEvent(t) \/ WriteLine(t))
  <2>1. ~WriteFails(t)
    BY BoundsAssumption DEF WriteFails, Sequential
  <2>2. /\ events' = events /\ lines' = lines
        /\ pc[t] # "write" /\ pc'[t] \notin {"write", "length", "append"}
    BY <1>5, <2>1 DEF Serve, PlanFails, Deny, Grant, Execute, HandlerFails, Reply,
       Tell, Goto, At, storage
  <2> QED BY <2>2, <1>a DEF ChainInv, FileInv, FileParses, Loaded
<1> QED BY <1>1, <1>2, <1>3, <1>4, <1>5

\* A file that parses after a crash is a prefix of the log, so it verifies.
LEMMA ChainCrash == ASSUME Sequential, TypeInv, ChainInv, Crash PROVE ChainInv'
<1> USE DEF TypeInv, TypeOK
<1>1. /\ ~up' /\ up /\ events' = <<>> /\ \A t \in Threads : pc'[t] = "idle"
  BY DEF Crash
<1>a. Loaded \in Seq(Event)
  BY LoadedType
<1>2. ASSUME FileBacked, FileParses PROVE Linked(Loaded)
  <2>1. CASE \A t \in Threads : pc[t] # "write"
    BY <2>1, <1>1, <1>2 DEF ChainInv, FileInv
  <2>2. CASE \E t \in Threads : pc[t] = "write"
    <3>1. PICK t \in Threads : pc[t] = "write"
      BY <2>2
    <3>2. events = Append(Loaded, draft[t]) /\ Linked(events) /\ draft[t] \in Event
      BY <3>1, <1>1, <1>2 DEF ChainInv, FileInv
    <3> QED BY <3>2, <1>a, ChainedAppend
  <2> QED BY <2>1, <2>2
<1>3. CASE lines' = lines
  <2>1. Loaded' = Loaded /\ FileParses' = FileParses
    BY <1>3 DEF Loaded, FileParses
  <2> QED BY <1>1, <1>2, <1>3, <2>1 DEF ChainInv, FileInv
<1>4. CASE \E t \in Threads : pc[t] = "write" /\ CutShort(t)
  <2>1. PICK t \in Threads, text \in {"whole", "unended", "torn"} :
           pc[t] = "write" /\ lines' = Written(text, draft[t])
    BY <1>4 DEF CutShort
  <2>2. FileBacked
    BY <2>1 DEF ChainInv, FileInv
  <2>3. FileParses' => FileParses /\ Loaded' = Append(Loaded, draft[t])
    BY <2>1, LoadedWritten
  <2>4. FileParses' => Linked(Loaded)'
    <3>1. FileParses => events = Append(Loaded, draft[t]) /\ Linked(events)
      BY <2>1, <2>2, <1>1 DEF ChainInv, FileInv
    <3>2. FileParses' => Loaded' = events
      BY <2>3, <3>1
    <3> QED BY <2>3, <3>1, <3>2 DEF Linked
  <2> QED BY <1>1, <2>2, <2>4 DEF ChainInv, FileInv
<1> QED BY <1>3, <1>4 DEF Crash

\* ChainInv is inductive for one thread whose writes do not fail.
LEMMA ChainStep == Sequential /\ TypeInv /\ ChainInv /\ [Next]_vars => ChainInv'
<1> SUFFICES ASSUME Sequential, TypeInv, ChainInv, [Next]_vars PROVE ChainInv'
  OBVIOUS
<1>1. ASSUME NEW t \in Threads, Receive(t) PROVE ChainInv'
  <2>1. /\ lines' = lines /\ events' = events /\ up' = up /\ up
        /\ pc'[t] = "gates" /\ pc[t] = "idle" /\ \A u \in Threads : u = t
    BY <1>1 DEF Receive, storage, Goto, At, TypeInv, TypeOK, Sequential
  <2> QED BY <2>1 DEF ChainInv, FileInv, FileParses, Loaded
<1>2. ASSUME NEW t \in Threads, Serve(t) PROVE ChainInv'
  BY <1>2, ChainServe
<1>3. CASE Crash
  BY <1>3, ChainCrash
<1>4. CASE Restart
  <2>1. /\ lines' = lines /\ events' = Loaded /\ up' /\ ~up /\ FileParses
        /\ pc' = pc /\ draft' = draft /\ \A t \in Threads : pc[t] = "idle"
    BY <1>4 DEF Restart, TypeInv, CallsInv
  <2>2. Loaded' = Loaded /\ FileParses' = FileParses
    BY <2>1 DEF Loaded, FileParses
  <2>3. Linked(Loaded)
    <3>1. CASE FileBacked
      BY <3>1, <2>1 DEF ChainInv, FileInv
    <3>2. CASE ~FileBacked
      BY <3>2 DEF ChainInv, FileInv, Loaded, Linked
    <3> QED BY <3>1, <3>2
  <2> QED BY <2>1, <2>2, <2>3 DEF ChainInv, FileInv
<1>5. CASE UNCHANGED vars
  BY <1>5 DEF vars, ChainInv, FileInv, FileParses, Loaded
<1> QED BY <1>1, <1>2, <1>3, <1>4, <1>5 DEF Next

\* A kernel that serves one request at a time and whose writes do not fail has a
\* log that verifies, at every moment and after every restart.
THEOREM ChainVerifiesCorrect ==
    ASSUME Sequential PROVE Spec => []ChainVerifies
<1>1. TypeInv /\ ChainInv /\ [Next]_vars => ChainInv'
  BY ChainStep
<1>2. ChainInv => ChainVerifies
  BY DEF ChainInv, Linked, ChainVerifies
<1> QED BY <1>1, <1>2, TypeCorrect, ChainInit, PTL DEF Spec

-----------------------------------------------------------------------------
(* One thread at a time and a file that takes whole lines: the log is the   *)
(* abstract trail                                                           *)

\* The thread past append holds the last event, under its position, and no
\* decision was given for an event that is not in the file.
TrailInv ==
    /\ \A t \in Threads : pc[t] = "append" => draft[t].id = Len(events) + 1
    /\ \A t \in Threads : pc[t] \in {"write", "reply"} =>
         /\ events # <<>>
         /\ draft[t].id = Len(events)
         /\ events[Len(events)] = draft[t]
    /\ \A a \in Decisions : a.event <= Len(lines)

\* The trail that is shown of a list of events.
Shown(s) == [i \in DOMAIN s |-> [call |-> s[i].call, status |-> s[i].status]]

\* With whole lines and one thread the file has every event of the list, but the
\* one that is about to be written.
LEMMA FileFollows ==
    ASSUME WholeFile, TypeInv, DurableInv, ChainInv
    PROVE  /\ Loaded \in Seq(Event) /\ Len(Loaded) = Len(lines)
           /\ \A t \in Threads : pc[t] = "write" => events = Append(Loaded, draft[t])
           /\ up /\ (\A t \in Threads : pc[t] # "write") => events = Loaded
<1>1. FileParses
  BY DEF DurableInv, FileParses, Readable
<1>2. Loaded \in Seq(Event) /\ Len(Loaded) = Len(lines)
  BY LoadedType DEF TypeInv, TypeOK
<1> QED BY <1>1, <1>2 DEF ChainInv, FileInv, WholeFile

\* No event and no decision at first.
LEMMA TrailInit == Init => TrailInv
BY DEF Init, TrailInv, Decisions

\* The position that append read is still the next one when it appends.
LEMMA TrailServe ==
    ASSUME Sequential, WholeFile, TypeInv, DurableInv, ChainInv, TrailInv,
           NEW t \in Threads, Serve(t)
    PROVE  TrailInv'
<1> USE DEF TypeInv, TypeOK
<1>a. \A u \in Threads : u = t
  BY DEF Sequential
<1>b. Len(events) \in Nat /\ Len(lines) \in Nat
  OBVIOUS
<1>1. CASE ReadLength(t)
  <2>1. /\ events' = events /\ lines' = lines /\ answers' = answers /\ pc'[t] = "append"
        /\ draft'[t].id = Len(events) + 1
    BY <1>1 DEF ReadLength, storage, history, Goto, Event
  <2> QED BY <2>1, <1>a DEF TrailInv, Decisions
<1>2. CASE AppendEvent(t)
  <2>1. clock + 1 \in Nat
    OBVIOUS
  <2>2. /\ draft'[t] \in Event /\ draft'[t].id = draft[t].id
        /\ events' = Append(events, draft'[t]) /\ lines' = lines /\ answers' = answers
        /\ pc[t] = "append" /\ pc'[t] = "write"
    BY <1>2, <2>1 DEF AppendEvent, Event, history, At, Goto, WholeFile
  <2>3. /\ Len(events') = Len(events) + 1 /\ events' # <<>>
        /\ events'[Len(events) + 1] = draft'[t]
    BY <2>2, AppendShape
  <2> QED BY <2>2, <2>3, <1>a, <1>b DEF TrailInv, Decisions
<1>3. CASE WriteLine(t)
  <2>1. /\ events' = events /\ lines' = Written("whole", draft[t]) /\ answers' = answers
        /\ draft' = draft /\ pc[t] = "write" /\ pc'[t] = "reply"
    BY <1>3 DEF WriteLine, history, At, Goto
  <2>2. Len(lines') \in Nat /\ Len(lines') >= Len(lines)
    <3>1. lines' \in Seq(Line)
      BY <2>1, WrittenType
    <3>2. PICK n \in Nat : DOMAIN lines' = 1..n /\ n \in {Len(lines), Len(lines) + 1}
      <4>1. draft[t] \in Event /\ lines \in Seq(Line)
        OBVIOUS
      <4> HIDE DEF TypeInv, TypeOK
      <4> QED BY <2>1, <4>1, WrittenShape
    <3> QED BY <3>1, <3>2, <1>b
  <2>3. \A a \in Decisions : a.event \in Nat
    BY DEF Decisions, Answer
  <2> QED BY <2>1, <2>2, <2>3, <1>a, <1>b DEF TrailInv, Decisions
<1>4. CASE Reply(t)
  <2> DEFINE a == [call |-> draft[t].call, status |-> draft[t].status, event |-> draft[t].id]
  <2>1. /\ events' = events /\ lines' = lines /\ answers' = answers \cup {a}
        /\ up /\ pc[t] = "reply" /\ pc'[t] = "idle"
    BY <1>4 DEF Reply, Tell, storage, At, Goto
  <2>2. events = Loaded /\ Len(Loaded) = Len(lines)
    BY <2>1, <1>a, FileFollows
  <2>3. a.event = Len(lines)
    BY <2>1, <2>2 DEF TrailInv
  <2> HIDE DEF a
  <2> QED BY <2>1, <2>3, <1>a, <1>b DEF TrailInv, Decisions
<1>5. CASE ~(ReadLength(t) \/ AppendEvent(t) \/ WriteLine(t) \/ Reply(t))
  <2>1. ~WriteFails(t)
    BY BoundsAssumption DEF WriteFails, Sequential
  <2>2. /\ events' = events /\ lines' = lines
        /\ pc'[t] \notin {"append", "write", "reply"}
        /\ answers' = answers \/ answers' = answers \cup
             {[call |-> draft[t].call, status |-> "error", event |-> 0]}
    BY <1>5, <2>1 DEF Serve, PlanFails, Deny, Grant, Execute, HandlerFails, ReadPrevious,
       Tell, Goto, storage, history
  <2>3. Decisions' = Decisions
    BY <2>2 DEF Decisions
  <2> QED BY <2>2, <2>3, <1>a DEF TrailInv
<1> QED BY <1>1, <1>2, <1>3, <1>4, <1>5

\* TrailInv is inductive for one thread whose writes are whole.
LEMMA TrailStep ==
    ASSUME Sequential, WholeFile, TypeInv, DurableInv, ChainInv, TrailInv, [Next]_vars
    PROVE  TrailInv'
<1>1. ASSUME NEW t \in Threads, Receive(t) PROVE TrailInv'
  <2>1. /\ lines' = lines /\ events' = events /\ answers' = answers
        /\ pc'[t] = "gates" /\ \A u \in Threads : u = t
    BY <1>1 DEF Receive, storage, Goto, TypeInv, TypeOK, Sequential
  <2> QED BY <2>1 DEF TrailInv, Decisions
<1>2. ASSUME NEW t \in Threads, Serve(t) PROVE TrailInv'
  BY <1>2, TrailServe
<1>3. CASE Crash
  BY <1>3 DEF Crash, CutShort, WholeFile, history, TrailInv, Decisions
<1>4. CASE Restart
  <2>1. \A t \in Threads : pc'[t] = "idle"
    BY <1>4 DEF Restart, TypeInv, CallsInv
  <2> QED BY <1>4, <2>1 DEF Restart, history, TrailInv, Decisions
<1>5. CASE UNCHANGED vars
  BY <1>5 DEF vars, TrailInv, Decisions
<1> QED BY <1>1, <1>2, <1>3, <1>4, <1>5 DEF Next

\* append records a call that was not recorded before.
LEMMA AppendRecords ==
    ASSUME TypeInv, RecordInv, NEW t \in Threads, AppendEvent(t)
    PROVE  Trail!Record
<1> USE DEF TypeInv, TypeOK
<1> DEFINE e == draft'[t]  entry == [call |-> e.call, status |-> e.status]
<1>1. clock + 1 \in Nat
  OBVIOUS
<1>2. /\ e \in Event /\ e.call = draft[t].call /\ events' = Append(events, e)
      /\ answers' = answers /\ up /\ up' /\ pc[t] = "append"
  BY <1>1 DEF AppendEvent, Event, history, At
<1>3. /\ DOMAIN events' = 1..(Len(events) + 1) /\ DOMAIN events = 1..Len(events)
      /\ Len(events) \in Nat
      /\ \A i \in DOMAIN events : events'[i] = events[i]
      /\ events'[Len(events) + 1] = e
  BY <1>2, AppendShape
<1>4. entry \in [call : Calls, status : Statuses]
  <2>1. e.call \in 1..Len(asked) /\ Len(asked) \in Nat /\ Len(asked) <= MaxCalls
    BY <1>2 DEF CallsInv
  <2>2. e.status \in Statuses
    BY <1>2 DEF Event
  <2> HIDE DEF e
  <2>3. e.call \in Calls
    BY <2>1, BoundsAssumption DEF Calls
  <2> QED BY <2>2, <2>3
<1>5. \A i \in DOMAIN events : events[i].call # entry.call
  BY <1>2 DEF RecordInv, EventsInv, Unrecorded
<1> HIDE DEF e
<1>6. Shown(events)' = Append(Shown(events), entry)
  <2> DEFINE s == Shown(events)  a == Append(s, entry)
  <2>0. \A i \in DOMAIN events : events[i] \in Event
    BY <1>3
  <2>1. \A i \in DOMAIN events : events[i].call \in Nat /\ events[i].status \in Statuses
    BY <2>0 DEF Event
  <2>2. s \in Seq([call : Nat, status : Statuses]) /\ Len(s) = Len(events)
    BY <2>1, <1>3 DEF Shown
  <2>3. entry \in [call : Nat, status : Statuses]
    BY <1>2 DEF Event
  <2>4. /\ \A i \in DOMAIN events : s[i] = [call |-> events[i].call, status |-> events[i].status]
    BY DEF Shown
  <2> HIDE DEF s
  <2>5. /\ DOMAIN a = 1..(Len(events) + 1) /\ a[Len(events) + 1] = entry
        /\ \A i \in DOMAIN events : a[i] = s[i]
        /\ a = [i \in DOMAIN a |-> a[i]]
    BY <2>2, <2>3, <1>3, AppendShape
  <2>6. \A i \in DOMAIN a : a[i] = [call |-> events'[i].call, status |-> events'[i].status]
    BY <2>4, <2>5, <1>3
  <2> HIDE DEF a
  <2>7. a = [i \in DOMAIN events' |-> [call |-> events'[i].call, status |-> events'[i].status]]
    BY <2>5, <2>6, <1>3
  <2> QED BY <2>7 DEF Shown, a, s
<1> QED BY <1>2, <1>4, <1>5, <1>6 DEF Trail!Record, Trail!Entry, Shown, Recorded, Decisions

\* A reply acknowledges the last record.
LEMMA ReplyAcknowledges ==
    ASSUME Sequential, WholeFile, TypeInv, DurableInv, ChainInv, TrailInv,
           NEW t \in Threads, Reply(t)
    PROVE  Trail!Acknowledge
<1> USE DEF TypeInv, TypeOK
<1> DEFINE n == Len(events)
           a == [call |-> draft[t].call, status |-> draft[t].status, event |-> draft[t].id]
<1>1. /\ answers' = answers \cup {a} /\ up /\ up' /\ events' = events /\ pc[t] = "reply"
  BY DEF Reply, Tell, At, storage
<1>2. /\ n \in DOMAIN events /\ events[n] = draft[t] /\ draft[t].id = n
      /\ draft[t].status # "error"
  <2>1. events # <<>> /\ n \in Nat /\ DOMAIN events = 1..n
    BY <1>1 DEF TrailInv
  <2>2. draft[t] \in Event
    OBVIOUS
  <2>3. draft[t].status # "error"
    BY <2>2 DEF Event, Statuses
  <2> QED BY <1>1, <2>1, <2>3, EmptySeq DEF TrailInv
<1>3. Decisions' = Decisions \cup {a}
  <2>1. a.status # "error"
    BY <1>2
  <2> HIDE DEF a
  <2> QED BY <1>1, <2>1 DEF Decisions
<1> DEFINE s == Shown(events)
<1>4. /\ DOMAIN s = DOMAIN events
      /\ s[n] = [call |-> draft[t].call, status |-> draft[t].status]
  BY <1>2 DEF Shown
<1>5. a = [call |-> s[n].call, status |-> s[n].status, event |-> n]
  BY <1>2, <1>4
<1>6. Shown(events)' = s
  BY <1>1 DEF Shown
<1> HIDE DEF a, s, n
<1>7. \E i \in DOMAIN s : Decisions' = Decisions \cup
           {[call |-> s[i].call, status |-> s[i].status, event |-> i]}
  BY <1>2, <1>3, <1>4, <1>5
<1>8. s = [i \in DOMAIN events |-> [call |-> events[i].call, status |-> events[i].status]]
  BY DEF s, Shown
<1>9. [i \in DOMAIN events' |-> [call |-> events'[i].call, status |-> events'[i].status]] = s
  BY <1>6 DEF Shown
<1> QED BY <1>1, <1>7, <1>8, <1>9 DEF Trail!Acknowledge, Recorded

\* The first n of a list of events are shown as the first n records.
LEMMA ShownPrefix ==
    ASSUME NEW s \in Seq(Event), NEW e \in Event
    PROVE  Shown(s) = SubSeq(Shown(Append(s, e)), 1, Len(s))
<1> DEFINE a == Append(s, e)  b == Shown(a)  R == [call : Nat, status : Statuses]
           p == SubSeq(b, 1, Len(s))
<1>1. /\ DOMAIN a = 1..(Len(s) + 1) /\ DOMAIN s = 1..Len(s) /\ Len(s) \in Nat
      /\ \A i \in DOMAIN s : a[i] = s[i]
      /\ a \in Seq(Event) /\ Len(a) = Len(s) + 1
  BY AppendShape
<1> HIDE DEF a
<1>2. \A i \in DOMAIN a : a[i].call \in Nat /\ a[i].status \in Statuses
  <2>1. \A i \in DOMAIN a : a[i] \in Event
    BY <1>1
  <2> QED BY <2>1 DEF Event
<1>3. /\ b \in Seq(R) /\ Len(b) = Len(s) + 1
      /\ \A i \in DOMAIN a : b[i] = [call |-> a[i].call, status |-> a[i].status]
  BY <1>1, <1>2 DEF Shown
<1> HIDE DEF b, R
<1>4. /\ DOMAIN p = 1..Len(s) /\ \A i \in 1..Len(s) : p[i] = b[i]
      /\ p = [i \in DOMAIN p |-> p[i]]
  BY <1>1, <1>3
<1>5. \A i \in 1..Len(s) : p[i] = [call |-> s[i].call, status |-> s[i].status]
  BY <1>1, <1>3, <1>4
<1> HIDE DEF p
<1>6. p = [i \in DOMAIN s |-> [call |-> s[i].call, status |-> s[i].status]]
  BY <1>1, <1>4, <1>5
<1> QED BY <1>6 DEF Shown, a, b, p

\* A crash forgets the event whose line was not written, if there is one, and
\* nobody was told of it.
LEMMA CrashForgets ==
    ASSUME Sequential, WholeFile, TypeInv, DurableInv, ChainInv, TrailInv, Crash
    PROVE  Trail!Forget \/ UNCHANGED Trail!trailVars
<1> USE DEF TypeInv, TypeOK
<1>1. up /\ ~up' /\ lines' = lines /\ answers' = answers
  BY DEF Crash, CutShort, WholeFile, history
<1>2. Loaded' = Loaded /\ Decisions' = Decisions
  BY <1>1 DEF Loaded, Decisions
<1>3. Loaded \in Seq(Event) /\ Len(Loaded) = Len(lines)
  BY FileFollows
<1>4. Recorded = events /\ Recorded' = Loaded
  BY <1>1, <1>2 DEF Recorded
<1>5. CASE \A t \in Threads : pc[t] # "write"
  <2>1. Recorded' = Recorded
    BY <1>1, <1>4, <1>5, FileFollows
  <2> QED BY <2>1, <1>2 DEF Trail!trailVars
<1>6. CASE \E t \in Threads : pc[t] = "write"
  <2>1. PICK t \in Threads : pc[t] = "write"
    BY <1>6
  <2>2. events = Append(Loaded, draft[t]) /\ draft[t] \in Event
    BY <2>1, FileFollows
  <2> DEFINE n == Len(Loaded)
  <2>3. Shown(Loaded) = SubSeq(Shown(events), 1, n)
    BY <1>3, <2>2, ShownPrefix
  <2>4. n \in Nat /\ \A a \in Decisions : a.event <= n
    BY <1>3 DEF TrailInv
  <2>5. Len(Shown(events)) = n + 1
    <3> HIDE DEF TypeInv, TypeOK
    <3>1. events \in Seq(Event) /\ Len(events) = n + 1
      BY <1>3, <2>2
    <3> QED BY <3>1 DEF Shown
  <2>6. n \in 0..Len(Shown(events))
    BY <2>4, <2>5
  <2>7. Shown(Recorded)' = SubSeq(Shown(Recorded), 1, n)
    <3>1. Shown(Recorded)' = Shown(Recorded')
      BY DEF Shown
    <3> QED BY <3>1, <2>3, <1>4
  <2>8. /\ [i \in DOMAIN Recorded |-> [call |-> Recorded[i].call, status |-> Recorded[i].status]]
             = Shown(Recorded)
        /\ [i \in DOMAIN Recorded' |-> [call |-> Recorded'[i].call, status |-> Recorded'[i].status]]
             = Shown(Recorded)'
    BY DEF Shown
  <2> HIDE DEF n
  <2>9. Trail!Forget
    BY <1>2, <1>4, <2>4, <2>6, <2>7, <2>8 DEF Trail!Forget
  <2> QED BY <2>9
<1> QED BY <1>5, <1>6

\* Every step of a kernel with one thread and whole lines is one of the trail,
\* or none that it shows.
LEMMA TrailSimulates ==
    ASSUME Sequential, WholeFile, TypeInv, RecordInv, DurableInv, ChainInv, TrailInv,
           [Next]_vars
    PROVE  [Trail!TrailNext]_Trail!trailVars
<1> SUFFICES Trail!TrailNext \/ UNCHANGED Trail!trailVars
  OBVIOUS
<1>0. ASSUME Recorded' = Recorded, Decisions' = Decisions PROVE UNCHANGED Trail!trailVars
  BY <1>0 DEF Trail!trailVars
<1>1. ASSUME NEW t \in Threads, Receive(t) PROVE UNCHANGED Trail!trailVars
  BY <1>0, <1>1 DEF Receive, At, storage, Recorded, Decisions
<1>2. ASSUME NEW t \in Threads, Serve(t)
      PROVE  Trail!TrailNext \/ UNCHANGED Trail!trailVars
  <2>1. CASE AppendEvent(t)
    BY <2>1, AppendRecords DEF Trail!TrailNext
  <2>2. CASE Reply(t)
    BY <2>2, ReplyAcknowledges DEF Trail!TrailNext
  <2>3. CASE ~AppendEvent(t) /\ ~Reply(t)
    <3>1. ~WriteFails(t)
      BY BoundsAssumption DEF WriteFails, Sequential, TypeInv, TypeOK
    <3>2. /\ events' = events /\ up /\ up'
          /\ answers' = answers \/ answers' = answers \cup
               {[call |-> draft[t].call, status |-> "error", event |-> 0]}
      BY <1>2, <2>3, <3>1 DEF Serve, PlanFails, Deny, Grant, Execute, HandlerFails,
         ReadPrevious, ReadLength, WriteLine, Tell, At, storage, history
    <3>3. Decisions' = Decisions
      BY <3>2 DEF Decisions
    <3> QED BY <1>0, <3>2, <3>3 DEF Recorded
  <2> QED BY <2>1, <2>2, <2>3
<1>3. CASE Crash
  BY <1>3, CrashForgets DEF Trail!TrailNext
<1>4. CASE Restart
  <2>1. Recorded' = Recorded /\ Decisions' = Decisions
    BY <1>4 DEF Restart, history, Recorded, Loaded, Decisions
  <2> QED BY <1>0, <2>1
<1>5. CASE UNCHANGED vars
  <2>1. Recorded' = Recorded /\ Decisions' = Decisions
    BY <1>5 DEF vars, Recorded, Loaded, Decisions
  <2> QED BY <1>0, <2>1
<1> QED BY <1>1, <1>2, <1>3, <1>4, <1>5 DEF Next

\* A kernel that serves one request at a time, with a file and writes that do not
\* fail, is the abstract trail: each decision is recorded once, acknowledged where
\* it is recorded, and a restart loses none that was acknowledged
\* (FileAuditLog.append, FileAuditLog.__init__).
THEOREM TrailRefinementCorrect ==
    ASSUME Sequential, WholeFile PROVE Spec => TrailRefinement
<1> DEFINE Inv == TypeInv /\ RecordInv /\ DurableInv /\ ChainInv /\ TrailInv
<1>1. Init => Inv
  BY TypeInit, RecordInit, DurableInit, ChainInit, TrailInit
<1>2. Inv /\ [Next]_vars => Inv'
  BY TypeStep, RecordStep, DurableStep, ChainStep, TrailStep
<1>3. Init => Trail!TrailInit
  BY DEF Init, Trail!TrailInit, Recorded, Decisions
<1>4. Inv /\ [Next]_vars => [Trail!TrailNext]_Trail!trailVars
  BY TrailSimulates
<1> HIDE DEF Inv
<1> QED BY <1>1, <1>2, <1>3, <1>4, PTL DEF Spec, TrailRefinement, Trail!TrailSpec

\* Where each of these decisions is said to be, there it is.
Stay(trail, acked) ==
    /\ trail \in Seq(Trail!Entry) /\ acked \subseteq Trail!Ack
    /\ \A a \in acked : /\ a.event \in DOMAIN trail
                       /\ trail[a.event] = [call |-> a.call, status |-> a.status]

\* An entry at the end moves none before it.
LEMMA RecordKeeps ==
    ASSUME NEW trail, NEW acked, Stay(trail, acked), NEW e \in Trail!Entry
    PROVE  Stay(Append(trail, e), acked)
BY DEF Stay

\* What is told of an entry is where it is.
LEMMA AcknowledgeKeeps ==
    ASSUME NEW trail, NEW acked, Stay(trail, acked), NEW i \in DOMAIN trail
    PROVE  Stay(trail, acked \cup {[call |-> trail[i].call, status |-> trail[i].status, event |-> i]})
<1>1. trail[i] \in Trail!Entry /\ i \in Nat \ {0}
  BY DEF Stay
<1>2. trail[i] = [call |-> trail[i].call, status |-> trail[i].status]
  BY <1>1 DEF Trail!Entry
<1>3. [call |-> trail[i].call, status |-> trail[i].status, event |-> i] \in Trail!Ack
  BY <1>1 DEF Trail!Entry, Trail!Ack
<1> QED BY <1>2, <1>3 DEF Stay

\* Only what nobody was told of is dropped.
LEMMA ForgetKeeps ==
    ASSUME NEW trail, NEW acked, Stay(trail, acked), NEW n \in 0..Len(trail),
           \A a \in acked : a.event <= n
    PROVE  Stay(SubSeq(trail, 1, n), acked)
<1>1. /\ SubSeq(trail, 1, n) \in Seq(Trail!Entry) /\ DOMAIN SubSeq(trail, 1, n) = 1..n
      /\ \A i \in 1..n : SubSeq(trail, 1, n)[i] = trail[i]
  BY DEF Stay
<1>2. \A a \in acked : a.event \in 1..n
  BY DEF Stay, Trail!Ack
<1> QED BY <1>1, <1>2 DEF Stay

\* With one request at a time, a file and writes that do not fail, a decision that a
\* caller was told is at the event id it was told with, as decided, in memory and
\* in the file alike, after whatever later calls, crashes and restarts.
THEOREM AckedEntriesStayCorrect ==
    ASSUME Sequential, WholeFile PROVE Spec => []Trail!AckedEntriesStay
<1> DEFINE Inv == Stay(Shown(Recorded), Decisions)
<1>1. Trail!TrailInit => Inv
  BY DEF Trail!TrailInit, Stay, Shown
<1>2. ASSUME Inv, [Trail!TrailNext]_Trail!trailVars PROVE Inv'
  <2>1. CASE Trail!Record
    <3>1. PICK e \in Trail!Entry :
              Shown(Recorded') = Append(Shown(Recorded), e) /\ Decisions' = Decisions
      BY <2>1 DEF Trail!Record, Shown
    <3> QED BY <1>2, <3>1, RecordKeeps
  <2>2. CASE Trail!Acknowledge
    <3>1. Shown(Recorded') = Shown(Recorded)
      BY <2>2 DEF Trail!Acknowledge, Shown
    <3>2. PICK i \in DOMAIN Shown(Recorded) :
              Decisions' = Decisions \cup {[call |-> Shown(Recorded)[i].call,
                                            status |-> Shown(Recorded)[i].status, event |-> i]}
      BY <2>2 DEF Trail!Acknowledge, Shown
    <3> QED BY <1>2, <3>1, <3>2, AcknowledgeKeeps
  <2>3. CASE Trail!Forget
    <3>1. PICK n \in 0..Len(Shown(Recorded)) :
              /\ \A a \in Decisions : a.event <= n
              /\ Shown(Recorded') = SubSeq(Shown(Recorded), 1, n) /\ Decisions' = Decisions
      BY <2>3 DEF Trail!Forget, Shown
    <3> QED BY <1>2, <3>1, ForgetKeeps
  <2>4. CASE UNCHANGED Trail!trailVars
    <3>1. Shown(Recorded') = Shown(Recorded) /\ Decisions' = Decisions
      BY <2>4 DEF Trail!trailVars, Shown
    <3> QED BY <1>2, <3>1
  <2> QED BY <1>2, <2>1, <2>2, <2>3, <2>4 DEF Trail!TrailNext
<1>3. Inv => Trail!AckedEntriesStay
  BY DEF Trail!AckedEntriesStay, Stay, Shown
<1>4. Spec => TrailRefinement
  BY TrailRefinementCorrect
<1> HIDE DEF Inv
<1> QED BY <1>1, <1>2, <1>3, <1>4, PTL DEF TrailRefinement, Trail!TrailSpec

-----------------------------------------------------------------------------
(* Behind the routes *)

\* The routes add nothing the kernel alone could not do.
LEMMA ApiStep == [ApiNext]_allVars => [Next]_vars
<1>1. ASSUME NEW r \in Readers, Read(r) PROVE UNCHANGED vars
  BY <1>1 DEF Read, BeginHealth, Walk, CountHealth, Replay, List, CountPage, BeginRead
<1>2. ASSUME NEW t \in Threads, Post(t) PROVE Next
  BY <1>2 DEF Post, Next
<1>3. CrashAll => Next
  BY DEF CrashAll, Next
<1> QED BY <1>1, <1>2, <1>3 DEF ApiNext, allVars, Next

\* Behind its routes the kernel behaves as KernelServer says.
THEOREM ApiImplementsServer == ApiSpec => Spec
<1>1. ApiInit => Init
  BY DEF ApiInit
<1> QED BY <1>1, ApiStep, PTL DEF ApiSpec, Spec

-----------------------------------------------------------------------------
(* Only what the file says, read as it is written, is done *)

\* A request the tables authorize is one the entries of the file speak for.
LEMMA TablesSayWhatTheFileSays ==
    ASSUME NEW document, Loads(document), NEW handlers, NEW r,
           Authorized(Tables(document).subjects, Tables(document).rules,
                      Tables(document).grants, handlers, r)
    PROVE  DocumentGrants(document, r)
<1> DEFINE subjects == Tables(document).subjects
           rules == Tables(document).rules
           grants == Tables(document).grants
<1>1. /\ \A i \in DOMAIN document.subjects : subjects[i] = LoadSubject(document.subjects[i])
      /\ \A i \in DOMAIN document.policies : rules[i] = LoadPolicy(document.policies[i])
      /\ \A i \in DOMAIN document.capabilities : grants[i] = LoadCapability(document.capabilities[i])
      /\ DOMAIN subjects = DOMAIN document.subjects
      /\ DOMAIN rules = DOMAIN document.policies
      /\ DOMAIN grants = DOMAIN document.capabilities
  BY DEF Tables
<1> HIDE DEF subjects, rules, grants
<1>2. /\ \E i \in DOMAIN subjects : subjects[i].id = r.subject /\ subjects[i].active
      /\ \E i \in DOMAIN rules : RuleMatches(rules[i], r) /\ rules[i].effect = "allow"
      /\ \A i \in DOMAIN rules : RuleMatches(rules[i], r) => rules[i].effect # "deny"
      /\ \E i \in DOMAIN grants : GrantMatches(grants[i], r)
  BY DEF Authorized, subjects, rules, grants
<1>3. \E i \in DOMAIN document.subjects :
         document.subjects[i].subject_id = r.subject /\ document.subjects[i].active # "false"
  <2>1. PICK i \in DOMAIN subjects : subjects[i].id = r.subject /\ subjects[i].active
    BY <1>2
  <2>2. subjects[i] = LoadSubject(document.subjects[i]) /\ i \in DOMAIN document.subjects
    BY <1>1, <2>1, Zenon
  <2>3. /\ subjects[i].id = document.subjects[i].subject_id
        /\ subjects[i].active <=> document.subjects[i].active \in {Absent, "true", "text"}
    <3> DEFINE b == document.subjects[i].active \in {Absent, "true", "text"}
    <3>1. subjects[i] = [id |-> document.subjects[i].subject_id, active |-> b]
      BY <2>2, Zenon DEF LoadSubject
    <3> HIDE DEF b
    <3>2. subjects[i].id = document.subjects[i].subject_id /\ subjects[i].active = b
      BY <3>1
    <3> QED BY <3>2, Zenon DEF b
  <2>4. document.subjects[i].active # "false"
    BY <2>1, <2>3 DEF Absent
  <2> QED BY <2>1, <2>2, <2>3, <2>4, Zenon
<1>4. ASSUME NEW i \in DOMAIN document.policies
      PROVE  /\ RuleMatches(rules[i], r) <=> SpeaksOf(document.policies[i], r)
             /\ rules[i].effect = document.policies[i].effect
  <2>1. document.policies[i].operation # Absent
    BY DEF Loads
  <2> DEFINE item == document.policies[i]
  <2>2. rules[i] = LoadPolicy(item)
    BY <1>1, Zenon
  <2> HIDE DEF item
  <2>3. /\ rules[i].effect = item.effect
        /\ rules[i].operation = item.operation
        /\ rules[i].resource = OrDefault(item.resource, Wildcard)
        /\ rules[i].subject = OrDefault(item.subject_id, Wildcard)
    BY <2>2 DEF LoadPolicy
  <2>4. /\ OrDefault(item.resource, Wildcard) \in {Wildcard, r.resource} <=> Says(item.resource, r.resource)
        /\ OrDefault(item.subject_id, Wildcard) \in {Wildcard, r.subject} <=> Says(item.subject_id, r.subject)
    BY DEF OrDefault, Says
  <2>5. item.operation \in {Wildcard, r.operation} <=> Says(item.operation, r.operation)
    BY <2>1 DEF Says, item
  <2> QED BY <2>3, <2>4, <2>5, Zenon DEF RuleMatches, SpeaksOf, item
<1>5. ASSUME NEW i \in DOMAIN document.capabilities, GrantMatches(grants[i], r)
      PROVE  document.capabilities[i].subject_id = r.subject /\ SpeaksOf(document.capabilities[i], r)
  <2> DEFINE item == document.capabilities[i]
  <2>1. grants[i] = LoadCapability(item)
    BY <1>1, Zenon
  <2> HIDE DEF item
  <2>2. /\ grants[i].subject = item.subject_id
        /\ grants[i].operation = item.operation
        /\ grants[i].resource = OrDefault(item.resource, Wildcard)
    BY <2>1 DEF LoadCapability
  <2>3. item.subject_id = r.subject /\ Says(item.operation, r.operation) /\ Says(item.resource, r.resource)
    BY <1>5, <2>2 DEF GrantMatches, OrDefault, Says
  <2> QED BY <2>3 DEF SpeaksOf, Says, item
<1> QED BY <1>1, <1>2, <1>3, <1>4, <1>5 DEF DocumentGrants

\* A handler runs only for a request that the configuration file lets
\* through, whatever the defaults of load_config filled in.
THEOREM OnlyDocumentedRunCorrect == ApiSpec => []OnlyDocumentedRun
<1>1. OnlyAuthorizedRun => OnlyDocumentedRun
  BY ApiAssumption, TablesSayWhatTheFileSays DEF OnlyAuthorizedRun, OnlyDocumentedRun
<1> QED BY <1>1, ApiImplementsServer, OnlyAuthorizedRunCorrect, PTL

-----------------------------------------------------------------------------
(* The readers *)

\* The position a replay stops at is a position.
LEMMA MinPosition ==
    ASSUME NEW S \in SUBSET Nat, S # {}
    PROVE  Min(S) \in Nat
<1>1. PICK m \in S : \A y \in S : ~ (<<y, m>> \in OpToRel(<, Nat))
  BY NatLessThanWellFounded, WFMin
<1>2. ASSUME NEW y \in S PROVE m <= y
  <2>1. ~ (y < m)
    BY <1>1 DEF OpToRel
  <2> QED BY <2>1
<1> QED BY <1>2 DEF Min

\* A reader's answer with some of its fields changed.
Further(v, n)     == [v EXCEPT !.walked = n]
Finished(v)       == [v EXCEPT !.at = "counting"]
Broken(v)         == [v EXCEPT !.at = "counting", !.valid = FALSE]
Counted(v, at, n) == [v EXCEPT !.at = at, !.count = n]

\* What phases a reader's answer goes through.
Ats == Answered \cup {"walking", "counting", "listing"}

\* The fields of an answer.
LEMMA ViewFields ==
    /\ View = [at : Ats, valid : BOOLEAN, walked : Nat, page : Seq(Event),
               count : Nat, told : BOOLEAN, known : SUBSET Answer]
    /\ {"health", "audit", "counting"} \subseteq Ats
BY DEF View, Ats, Answered

\* A walk that goes on changes how far it is.
LEMMA FurtherView ==
    ASSUME NEW v \in View, NEW n \in Nat
    PROVE  /\ Further(v, n) \in View /\ Further(v, n).at = v.at /\ Further(v, n).walked = n
           /\ Further(v, n).valid = v.valid /\ Further(v, n).told = v.told
BY ViewFields DEF Further

\* A walk that ends well goes on to the count.
LEMMA FinishedView ==
    ASSUME NEW v \in View
    PROVE  /\ Finished(v) \in View /\ Finished(v).at = "counting"
           /\ Finished(v).valid = v.valid /\ Finished(v).told = v.told
BY ViewFields DEF Finished

\* So does one that met a broken link, which it remembers.
LEMMA BrokenView ==
    ASSUME NEW v \in View
    PROVE  /\ Broken(v) \in View /\ Broken(v).at = "counting"
           /\ Broken(v).valid = FALSE /\ Broken(v).told = v.told
BY ViewFields DEF Broken

\* An answer that is counted keeps the rest.
LEMMA CountedView ==
    ASSUME NEW v \in View, NEW n \in Nat, NEW at \in {"health", "audit"}
    PROVE  /\ Counted(v, at, n) \in View /\ Counted(v, at, n).at = at
           /\ Counted(v, at, n).valid = v.valid /\ Counted(v, at, n).told = v.told
           /\ Counted(v, at, n).known = v.known /\ Counted(v, at, n).page = v.page
BY ViewFields DEF Counted

\* What a step of a reader does to its view.
LEMMA ReadShape ==
    ASSUME TypeOK, ApiTypeOK, NEW r \in Readers, Read(r)
    PROVE  /\ ApiTypeOK' /\ UNCHANGED vars
           /\ \A q \in Readers \ {r} : view'[q] = view[q]
           /\ \/ /\ up /\ view'[r].at = "walking" /\ view'[r].valid /\ view'[r].walked = 0
                 /\ view'[r].told = alarmed /\ alarmed' = alarmed
              \/ /\ view[r].at = "walking" /\ view'[r].at = "walking" /\ view'[r].valid = view[r].valid
                 /\ view[r].walked # Len(events)
                 /\ events[view[r].walked + 1].previous = LinkAfter(view[r].walked)
                 /\ view'[r].walked = view[r].walked + 1
                 /\ view'[r].told = view[r].told /\ alarmed' = alarmed
              \/ /\ view[r].at = "walking" /\ view'[r].at = "counting" /\ view'[r].valid = view[r].valid
                 /\ view[r].walked = Len(events)
                 /\ view'[r].told = view[r].told /\ alarmed' = alarmed
              \/ /\ view[r].at = "walking" /\ view'[r].at = "counting" /\ view'[r].valid = FALSE
                 /\ view[r].walked # Len(events)
                 /\ events[view[r].walked + 1].previous # LinkAfter(view[r].walked)
                 /\ view'[r].told = view[r].told /\ alarmed' = alarmed
              \/ /\ view[r].at = "counting" /\ view'[r].at = "health"
                 /\ view'[r].told = view[r].told /\ view'[r].valid = view[r].valid
                 /\ alarmed' = (alarmed \/ ~view[r].valid)
              \/ /\ up /\ view'[r].at = "replay" /\ view'[r].told = alarmed
                 /\ view'[r].valid = Chained(Len(events))
                 /\ alarmed' = (alarmed \/ ~Chained(Len(events)))
              \/ /\ up /\ view'[r].at \in {"stream", "listing"} /\ view'[r].told = FALSE
                 /\ view'[r].known = Decisions /\ view'[r].page = events /\ alarmed' = alarmed
              \/ /\ view[r].at = "listing" /\ view'[r].at = "audit" /\ view'[r].told = view[r].told
                 /\ view'[r].known = view[r].known /\ view'[r].page = view[r].page
                 /\ alarmed' = alarmed
<1> DEFINE v == view[r]  w == view'[r]
<1>0. /\ view \in [Readers -> View] /\ v \in View /\ alarmed \in BOOLEAN /\ reads \in 0..MaxReads
      /\ MaxReads \in Nat /\ events \in Seq(Event) /\ Decisions \subseteq Answer
  BY ApiAssumption DEF ApiTypeOK, TypeOK, Decisions
<1>1. Resting \in View /\ Resting.at = "idle"
  BY DEF Resting, View, Answered
<1>2. CASE BeginHealth(r)
  <2>1. view' = [view EXCEPT ![r] = [Resting EXCEPT !.at = "walking", !.told = alarmed]]
        /\ alarmed' = alarmed /\ reads' = reads + 1 /\ reads < MaxReads /\ up /\ UNCHANGED vars
    BY <1>2 DEF BeginHealth, BeginRead
  <2>2. [Resting EXCEPT !.at = "walking", !.told = alarmed] \in View
    BY <1>0, <1>1 DEF View
  <2> QED BY <1>0, <2>1, <2>2 DEF ApiTypeOK, Resting
<1>3. CASE Walk(r)
  <2> DEFINE n == view[r].walked
             more == Further(v, n + 1)
             done == Finished(v)
             bad == Broken(v)
  <2>1. /\ view[r].at = "walking" /\ UNCHANGED <<vars, alarmed, reads>>
        /\ view' = [view EXCEPT ![r] = IF n = Len(events) THEN done
                                       ELSE IF events[n + 1].previous = LinkAfter(n) THEN more ELSE bad]
    BY <1>0, <1>3 DEF Walk, Further, Finished, Broken
  <2>2. /\ more \in View /\ more.at = v.at /\ more.walked = n + 1 /\ more.valid = v.valid /\ more.told = v.told
        /\ done \in View /\ done.at = "counting" /\ done.valid = v.valid /\ done.told = v.told
        /\ bad \in View /\ bad.at = "counting" /\ bad.valid = FALSE /\ bad.told = v.told
    <3>1. n + 1 \in Nat /\ Len(events) \in Nat
      BY <1>0 DEF View
    <3>2. v \in View
      BY <1>0
    <3> HIDE DEF v, n
    <3> QED BY <3>1, <3>2, FurtherView, FinishedView, BrokenView
  <2> HIDE DEF more, done, bad
  <2>3. view' \in [Readers -> View] /\ \A q \in Readers \ {r} : view'[q] = view[q]
    BY <1>0, <2>1, <2>2
  <2>4. w = IF n = Len(events) THEN done
            ELSE IF events[n + 1].previous = LinkAfter(n) THEN more ELSE bad
    BY <1>0, <2>1
  <2> QED BY <1>0, <2>1, <2>2, <2>3, <2>4 DEF ApiTypeOK
<1>4. CASE CountHealth(r)
  <2> DEFINE new == Counted(v, "health", Len(events))
  <2>1. /\ v.at = "counting" /\ view' = [view EXCEPT ![r] = new]
        /\ alarmed' = (alarmed \/ ~v.valid) /\ UNCHANGED <<vars, reads>>
    BY <1>0, <1>4 DEF CountHealth, Counted
  <2>2. new \in View /\ new.at = "health" /\ new.valid = v.valid /\ new.told = v.told
    <3>1. Len(events) \in Nat
      BY <1>0
    <3>2. v \in View
      BY <1>0
    <3> HIDE DEF v
    <3> QED BY <3>1, <3>2, CountedView
  <2> HIDE DEF new
  <2>3. alarmed' \in BOOLEAN
    BY <2>1, Zenon
  <2> QED BY <1>0, <2>1, <2>2, <2>3 DEF ApiTypeOK
<1>5. CASE Replay(r)
  <2> DEFINE sound == Chained(Len(events))
             count == IF sound THEN Len(events) ELSE Min({n \in 1..Len(events) : ~Chained(n)})
             new == [Resting EXCEPT !.at = "replay", !.valid = sound, !.told = alarmed, !.count = count]
  <2>1. /\ view' = [view EXCEPT ![r] = new] /\ up /\ UNCHANGED vars
        /\ reads' = reads + 1 /\ reads < MaxReads /\ alarmed' = (alarmed \/ ~sound)
    BY <1>5 DEF Replay, BeginRead
  <2>2. sound \in BOOLEAN
    BY Zenon DEF Chained
  <2>3. count \in Nat
    <3>1. Chained(0)
      BY DEF Chained
    <3>2. ~sound => {n \in 1..Len(events) : ~Chained(n)} # {}
      BY <1>0, <3>1
    <3>3. {n \in 1..Len(events) : ~Chained(n)} \in SUBSET Nat
      OBVIOUS
    <3>4. ~sound => Min({n \in 1..Len(events) : ~Chained(n)}) \in Nat
      BY <3>2, <3>3, MinPosition
    <3> HIDE DEF sound
    <3> QED BY <1>0, <3>4
  <2> HIDE DEF sound, count
  <2>4. new \in View /\ new.at = "replay" /\ new.valid = sound /\ new.told = alarmed
    BY <1>0, <1>1, <2>2, <2>3 DEF View, Resting, Answered
  <2> HIDE DEF new
  <2>5. alarmed' \in BOOLEAN
    BY <2>1, Zenon
  <2>6. view' \in [Readers -> View] /\ w = new /\ \A q \in Readers \ {r} : view'[q] = view[q]
    BY <1>0, <2>1, <2>4
  <2>7. reads' \in 0..MaxReads
    BY <1>0, <2>1
  <2>8. ApiTypeOK'
    BY <2>5, <2>6, <2>7 DEF ApiTypeOK
  <2> QED BY <2>1, <2>4, <2>6, <2>8, Zenon DEF sound
<1>6. CASE List(r)
  <2>1. PICK at \in {"stream", "listing"} :
          BeginRead(r, [Resting EXCEPT !.at = at, !.known = Decisions, !.page = events])
    BY <1>6 DEF List
  <2> DEFINE new == [Resting EXCEPT !.at = at, !.known = Decisions, !.page = events]
  <2>2. /\ view' = [view EXCEPT ![r] = new] /\ up /\ UNCHANGED vars
        /\ reads' = reads + 1 /\ reads < MaxReads /\ alarmed' = alarmed
    BY <1>6, <2>1 DEF List, BeginRead
  <2>3. new \in View /\ new.at = at /\ new.known = Decisions /\ new.page = events /\ new.told = FALSE
    BY <1>0, <1>1 DEF View, Resting, Answered
  <2> HIDE DEF new
  <2> QED BY <1>0, <2>2, <2>3 DEF ApiTypeOK
<1>7. CASE CountPage(r)
  <2> DEFINE new == Counted(v, "audit", Len(events))
  <2>1. v.at = "listing" /\ view' = [view EXCEPT ![r] = new] /\ UNCHANGED <<vars, alarmed, reads>>
    BY <1>0, <1>7 DEF CountPage, Counted
  <2>2. new \in View /\ new.at = "audit" /\ new.told = v.told /\ new.known = v.known /\ new.page = v.page
    <3>1. Len(events) \in Nat
      BY <1>0
    <3>2. v \in View
      BY <1>0
    <3> HIDE DEF v
    <3> QED BY <3>1, <3>2, CountedView
  <2> HIDE DEF new
  <2> QED BY <1>0, <2>1, <2>2 DEF ApiTypeOK
<1> QED BY <1>2, <1>3, <1>4, <1>5, <1>6, <1>7 DEF Read
\* What the readers have is of its type at first.
LEMMA ReadersInit == ApiInit => ApiTypeOK
<1>1. Resting \in View
  BY DEF Resting, View, Answered
<1>2. ApiInit => view \in [Readers -> View]
  BY <1>1 DEF ApiInit
<1>3. ApiInit => reads \in 0..MaxReads
  BY ApiAssumption DEF ApiInit
<1>4. ApiInit => alarmed \in BOOLEAN
  BY Zenon DEF ApiInit
<1> QED BY <1>2, <1>3, <1>4 DEF ApiTypeOK

\* Steps of the served kernel leave the readers alone, or end them all.
LEMMA KernelShape ==
    ASSUME [ApiNext]_allVars
    PROVE  \/ \E r \in Readers : Read(r)
           \/ UNCHANGED allVars
           \/ UNCHANGED apiVars /\ ((\E t \in Threads : Receive(t) \/ Serve(t)) \/ Restart)
           \/ /\ Crash /\ view' = [r \in Readers |-> Resting] /\ alarmed' = FALSE
              /\ UNCHANGED reads
BY DEF ApiNext, Post, CrashAll, allVars

\* The types of what the readers have are kept.
LEMMA ReadersTyped ==
    ASSUME TypeOK, ApiTypeOK, [ApiNext]_allVars
    PROVE  ApiTypeOK'
<1>1. ASSUME NEW r \in Readers, Read(r) PROVE ApiTypeOK'
  BY <1>1, ReadShape
<1>2. CASE UNCHANGED apiVars
  BY <1>2 DEF apiVars, ApiTypeOK
<1>3. CASE view' = [r \in Readers |-> Resting] /\ alarmed' = FALSE /\ UNCHANGED reads
  <2>1. Resting \in View
    BY DEF Resting, View, Answered
  <2>2. view' \in [Readers -> View]
    BY <1>3, <2>1
  <2>3. alarmed' \in BOOLEAN
    BY <1>3, Zenon
  <2> QED BY <1>3, <2>2, <2>3 DEF ApiTypeOK
<1> QED BY <1>1, <1>2, <1>3, KernelShape DEF allVars

-----------------------------------------------------------------------------
(* The list only grows while the process lives *)

\* A step of a thread keeps every event where it is.
LEMMA EventsGrow ==
    ASSUME TypeInv, NEW t \in Threads, Receive(t) \/ Serve(t)
    PROVE  /\ up /\ up' = up /\ Len(events) \in Nat /\ Len(events') \in Nat
           /\ Len(events) <= Len(events')
           /\ DOMAIN events = 1..Len(events) /\ DOMAIN events' = 1..Len(events')
           /\ \A i \in DOMAIN events : i \in DOMAIN events' /\ events'[i] = events[i]
<1> USE DEF TypeInv, TypeOK
<1>1. CASE AppendEvent(t)
  <2>1. events' = Append(events, draft'[t]) /\ draft' = [draft EXCEPT ![t].hash = clock + 1]
        /\ up /\ up' = up
    BY <1>1 DEF AppendEvent, At
  <2>2. draft'[t] \in Event
    <3>1. clock + 1 \in Nat
      OBVIOUS
    <3> QED BY <2>1, <3>1 DEF Event
  <2> QED BY <2>1, <2>2, AppendShape
<1>2. CASE ~AppendEvent(t)
  <2>1. events' = events /\ up /\ up' = up
    BY <1>2 DEF Receive, Serve, PlanFails, Deny, Grant, Execute, HandlerFails, ReadPrevious,
       ReadLength, WriteLine, WriteFails, Reply, At, storage
  <2> QED BY <2>1
<1> QED BY <1>1, <1>2

\* So what was chained stays chained, and what was broken stays broken.
LEMMA ChainGrows ==
    ASSUME TypeInv, NEW t \in Threads, Receive(t) \/ Serve(t)
    PROVE  /\ \A n \in 0..Len(events) : Chained(n)' <=> Chained(n)
           /\ ~Chained(Len(events)) => ~Chained(Len(events))'
<1>1. /\ Len(events) \in Nat /\ Len(events') \in Nat /\ Len(events) <= Len(events')
      /\ \A i \in 1..Len(events) : events'[i] = events[i]
  BY EventsGrow
<1>2. \A n \in 0..Len(events) : LinkAfter(n)' = LinkAfter(n)
  BY <1>1 DEF LinkAfter
<1>3. ASSUME NEW n \in 0..Len(events), NEW i \in 1..n
      PROVE  i - 1 \in 0..Len(events) /\ i \in 1..Len(events)
  BY <1>1
<1>4. ASSUME NEW n \in 0..Len(events)
      PROVE  Chained(n)' <=> Chained(n)
  BY <1>1, <1>2, <1>3 DEF Chained
<1>5. ASSUME Chained(Len(events))'
      PROVE  Chained(Len(events))
  <2>1. \A i \in 1..Len(events) : events'[i].previous = LinkAfter(i - 1)'
    BY <1>1, <1>5 DEF Chained
  <2> QED BY <1>1, <1>2, <2>1 DEF Chained
<1> QED BY <1>4, <1>5

-----------------------------------------------------------------------------
(* An alarm stands *)

\* The chain is broken while the alarm is raised, a walk has found no fault in
\* what it walked, and who was told of the alarm is not told otherwise.
AlarmInv ==
    /\ alarmed => up /\ ~Chained(Len(events))
    /\ \A r \in Readers :
         /\ view[r].told => alarmed
         /\ view[r].at = "walking" =>
              up /\ view[r].valid /\ view[r].walked <= Len(events) /\ Chained(view[r].walked)
         /\ view[r].at = "counting" =>
              /\ up /\ (~view[r].valid => ~Chained(Len(events)))
              /\ view[r].told => ~view[r].valid
         /\ view[r].at \in {"health", "replay"} => (view[r].told => ~view[r].valid)

\* No alarm is raised at first, and nobody reads.
LEMMA AlarmInit == ApiInit => AlarmInv
BY DEF ApiInit, AlarmInv, Resting

\* A reader keeps AlarmInv: a walk that ends well has seen the whole chain.
LEMMA AlarmRead ==
    ASSUME TypeInv, ApiTypeOK, AlarmInv, NEW r \in Readers, Read(r)
    PROVE  AlarmInv'
<1>1. TypeOK
  BY DEF TypeInv
<1>2. /\ UNCHANGED vars /\ view' \in [Readers -> View] /\ alarmed' \in BOOLEAN
      /\ \A q \in Readers \ {r} : view'[q] = view[q]
  BY <1>1, ReadShape DEF ApiTypeOK
<1>3. /\ events' = events /\ up' = up /\ events \in Seq(Event) /\ Len(events) \in Nat
      /\ \A n : Chained(n)' <=> Chained(n)
      /\ view[r].walked \in Nat
  BY <1>1, <1>2 DEF vars, TypeOK, Chained, LinkAfter, ApiTypeOK, View
<1>4. alarmed => alarmed'
  BY <1>1, ReadShape, Zenon
<1>5. alarmed' => up' /\ ~Chained(Len(events))'
  <2>1. alarmed' => alarmed \/ (view[r].at = "counting" /\ ~view[r].valid)
                    \/ (up /\ ~Chained(Len(events)))
    BY <1>1, ReadShape, Zenon
  <2>2. Chained(Len(events))' <=> Chained(Len(events))
    BY <1>3 DEF Chained, LinkAfter
  <2> QED BY <1>3, <2>1, <2>2, Zenon DEF AlarmInv
<1>6. ASSUME NEW q \in Readers
      PROVE  /\ view'[q].told => alarmed'
             /\ view'[q].at = "walking" =>
                  up /\ view'[q].valid /\ view'[q].walked <= Len(events) /\ Chained(view'[q].walked)
             /\ view'[q].at = "counting" =>
                  /\ up /\ (~view'[q].valid => ~Chained(Len(events)))
                  /\ view'[q].told => ~view'[q].valid
             /\ view'[q].at \in {"health", "replay"} => (view'[q].told => ~view'[q].valid)
  <2>1. /\ view[q].told => alarmed
        /\ view[q].at = "walking" =>
             up /\ view[q].valid /\ view[q].walked <= Len(events) /\ Chained(view[q].walked)
        /\ view[q].at = "counting" =>
             /\ up /\ (~view[q].valid => ~Chained(Len(events)))
             /\ view[q].told => ~view[q].valid
        /\ view[q].at \in {"health", "replay"} => (view[q].told => ~view[q].valid)
        /\ alarmed => ~Chained(Len(events))
    BY DEF AlarmInv
  <2>2. CASE q # r
    BY <1>2, <1>4, <2>1, <2>2
  <2>3. CASE q = r
    <3> DEFINE v == view[r]  w == view'[r]  n == Len(events)
    <3>1. /\ up /\ w.at = "walking" /\ w.valid /\ w.walked = 0 /\ w.told = alarmed /\ alarmed' = alarmed
          => Chained(w.walked) /\ w.walked <= n /\ (w.told => alarmed')
      BY <1>3 DEF Chained
    <3>2. /\ v.at = "walking" /\ v.walked # n
          /\ events[v.walked + 1].previous = LinkAfter(v.walked) /\ w.walked = v.walked + 1
          => w.walked <= n /\ Chained(w.walked)
      <4> SUFFICES ASSUME v.at = "walking", v.walked # n, w.walked = v.walked + 1,
                          events[v.walked + 1].previous = LinkAfter(v.walked)
                   PROVE  w.walked <= n /\ Chained(w.walked)
        OBVIOUS
      <4> DEFINE k == view[r].walked
      <4>1. k \in Nat /\ n \in Nat /\ k <= n /\ Chained(k) /\ w.walked = k + 1
            /\ k # n /\ events[k + 1].previous = LinkAfter(k)
        BY <1>3, <2>1, <2>3
      <4> HIDE DEF k, n, v, w
      <4> QED BY <4>1 DEF Chained
    <3>3. v.at = "walking" /\ v.walked = n /\ v.told => FALSE
      BY <2>1, <2>3
    <3>4. /\ v.at = "walking" /\ v.walked # n /\ events[v.walked + 1].previous # LinkAfter(v.walked)
          => ~Chained(n)
      BY <1>3, <2>1, <2>3 DEF Chained
    <3> HIDE DEF v, w, n
    <3> QED BY <1>1, <1>4, <2>1, <2>3, <3>1, <3>2, <3>3, <3>4, ReadShape DEF v, w, n
  <2> QED BY <2>2, <2>3
<1>7. ASSUME NEW q \in Readers, Chained(view'[q].walked)
      PROVE  Chained(view[q].walked)'
  BY <1>3, <1>7 DEF Chained, LinkAfter
<1>8. Chained(Len(events))' <=> Chained(Len(events))
  BY <1>3 DEF Chained, LinkAfter
<1> QED BY <1>3, <1>5, <1>6, <1>7, <1>8 DEF AlarmInv
\* AlarmInv is inductive: nothing mends a chain but the end of the process.
LEMMA AlarmStep ==
    ASSUME TypeInv, ApiTypeOK, AlarmInv, [ApiNext]_allVars
    PROVE  AlarmInv'
<1>1. ASSUME NEW r \in Readers, Read(r) PROVE AlarmInv'
  BY <1>1, AlarmRead
<1>2. ASSUME NEW t \in Threads, Receive(t) \/ Serve(t), UNCHANGED apiVars PROVE AlarmInv'
  <2>1. /\ up' = up /\ Len(events) \in Nat /\ Len(events') \in Nat /\ Len(events) <= Len(events')
        /\ view' = view /\ alarmed' = alarmed
        /\ \A r \in Readers : view[r].walked \in Nat
    BY <1>2, EventsGrow DEF apiVars, ApiTypeOK, View
  <2>2. /\ \A n \in 0..Len(events) : Chained(n)' <=> Chained(n)
        /\ ~Chained(Len(events)) => ~Chained(Len(events))'
    BY <1>2, ChainGrows
  <2>3. ASSUME NEW r \in Readers, view[r].walked <= Len(events), Chained(view[r].walked)
        PROVE  Chained(view[r].walked)'
    <3>1. view[r].walked \in 0..Len(events)
      BY <2>1, <2>3
    <3> QED BY <2>1, <2>2, <2>3, <3>1 DEF Chained, LinkAfter
  <2>4. alarmed' => up' /\ ~Chained(Len(events))'
    BY <2>1, <2>2 DEF AlarmInv
  <2> QED BY <2>1, <2>2, <2>3, <2>4 DEF AlarmInv
<1>3. CASE Restart /\ UNCHANGED apiVars
  BY <1>3 DEF Restart, apiVars, AlarmInv
<1>4. CASE Crash /\ view' = [r \in Readers |-> Resting] /\ alarmed' = FALSE
  BY <1>4 DEF AlarmInv, Resting
<1>5. CASE UNCHANGED allVars
  BY <1>5 DEF allVars, apiVars, vars, AlarmInv, Chained, LinkAfter
<1> QED BY <1>1, <1>2, <1>3, <1>4, <1>5, KernelShape

\* The types of the kernel and of its readers, of every state that is reached.
LEMMA ApiTypes == ApiSpec => [](TypeInv /\ ApiTypeOK)
<1>1. ApiInit => TypeInv /\ ApiTypeOK
  BY TypeInit, ReadersInit DEF ApiInit
<1>2. TypeInv /\ ApiTypeOK /\ [ApiNext]_allVars => TypeInv' /\ ApiTypeOK'
  BY ApiStep, TypeStep, ReadersTyped DEF TypeInv
<1> QED BY <1>1, <1>2, PTL DEF ApiSpec

\* Once a read has said that the chain is broken, no read that starts later in
\* that process says that it verifies.
THEOREM AlarmsStandCorrect == ApiSpec => []AlarmsStand
<1>1. TypeInv /\ ApiTypeOK /\ AlarmInv /\ [ApiNext]_allVars => AlarmInv'
  BY AlarmStep
<1>2. AlarmInv => AlarmsStand
  BY DEF AlarmInv, AlarmsStand
<1> QED BY <1>1, <1>2, AlarmInit, ApiTypes, PTL DEF ApiSpec

-----------------------------------------------------------------------------
(* What was answered is on every page *)

Shows(page, call, status) ==
    \E i \in DOMAIN page : page[i].call = call /\ page[i].status = status

\* The list holds what was answered and what is about to be.
ShownInv ==
    up => /\ \A a \in Decisions : Shows(events, a.call, a.status)
          /\ \A t \in Threads : pc[t] \in {"write", "reply"} =>
                Shows(events, draft[t].call, draft[t].status)

\* A page holds what had been answered when it was listed.
PageInv ==
    \A r \in Readers : view[r].at \in {"stream", "listing", "audit"} =>
        \A a \in view[r].known : Shows(view[r].page, a.call, a.status)

\* A thread replies of the event it appended; a restart loads every line.
LEMMA ShownStep ==
    ASSUME WholeFile, TypeInv, DurableInv, ShownInv, [Next]_vars
    PROVE  ShownInv'
<1> USE DEF TypeInv, TypeOK
<1>1. ASSUME NEW t \in Threads, Receive(t) \/ Serve(t) PROVE ShownInv'
  <2>1. \A call, status : Shows(events, call, status) => Shows(events, call, status)'
    BY <1>1, EventsGrow DEF Shows
  <2>2. up /\ \A u \in Threads : u # t => pc'[u] = pc[u] /\ draft'[u] = draft[u]
    BY <1>1, ServeKeepsCalls DEF Receive, At, Goto
  <2>3. \A a \in Decisions' : Shows(events, a.call, a.status)'
    <3>1. CASE Reply(t)
      <4>1. /\ Decisions' \subseteq Decisions \cup
                 {[call |-> draft[t].call, status |-> draft[t].status, event |-> draft[t].id]}
            /\ pc[t] = "reply"
        BY <3>1 DEF Reply, Tell, At, Decisions
      <4>2. Shows(events, draft[t].call, draft[t].status)
        BY <2>2, <4>1 DEF ShownInv
      <4>3. \A a \in Decisions' : Shows(events, a.call, a.status)
        BY <2>2, <4>1, <4>2 DEF ShownInv
      <4> QED BY <2>1, <4>3
    <3>2. CASE ~Reply(t)
      <4>1. \/ answers' = answers
            \/ answers' = answers \cup {[call |-> draft[t].call, status |-> "error", event |-> 0]}
        BY <1>1, <3>2 DEF Receive, Serve, PlanFails, Deny, Grant, Execute, HandlerFails, ReadPrevious,
           ReadLength, AppendEvent, WriteLine, WriteFails, Tell, history
      <4>2. Decisions' = Decisions
        BY <4>1 DEF Decisions
      <4> QED BY <2>1, <2>2, <4>2 DEF ShownInv
    <3> QED BY <3>1, <3>2
  <2>4. pc'[t] \in {"write", "reply"} => Shows(events, draft[t].call, draft[t].status)'
    <3>1. CASE AppendEvent(t)
      <4>1. /\ events' = Append(events, draft'[t])
            /\ draft' = [draft EXCEPT ![t].hash = clock + 1]
        BY <3>1 DEF AppendEvent
      <4>2. draft'[t] \in Event
        <5>1. clock + 1 \in Nat
          OBVIOUS
        <5> QED BY <4>1, <5>1 DEF Event
      <4>3. Len(events) + 1 \in DOMAIN events' /\ events'[Len(events) + 1] = draft'[t]
        <5> DEFINE e == draft'[t]
        <5>1. e \in Event /\ events' = Append(events, e) /\ Len(events) \in Nat
          BY <4>1, <4>2
        <5> HIDE DEF e
        <5>2. Len(events) + 1 \in DOMAIN events' /\ events'[Len(events) + 1] = e
          BY <5>1, AppendShape
        <5> QED BY <5>2 DEF e
      <4> QED BY <4>3 DEF Shows
    <3>2. CASE ~AppendEvent(t)
      <4>1. pc'[t] \in {"write", "reply"} => pc[t] = "write" /\ draft'[t] = draft[t]
        BY <1>1, <3>2 DEF Receive, Serve, PlanFails, Deny, Grant, Execute, HandlerFails, ReadPrevious,
           ReadLength, WriteLine, WriteFails, Reply, Tell, Goto, At, storage
      <4> QED BY <2>1, <2>2, <4>1 DEF ShownInv
    <3> QED BY <3>1, <3>2
  <2>5. ASSUME NEW u \in Threads, pc'[u] \in {"write", "reply"}
        PROVE  Shows(events, draft[u].call, draft[u].status)'
    <3>1. CASE u = t
      BY <2>4, <2>5, <3>1
    <3>2. CASE u # t
      BY <2>1, <2>2, <2>5, <3>2 DEF ShownInv
    <3> QED BY <3>1, <3>2
  <2> QED BY <2>3, <2>5 DEF ShownInv
<1>2. CASE Crash
  BY <1>2 DEF Crash, ShownInv
<1>3. CASE Restart
  <2>1. /\ events' = [i \in DOMAIN lines |-> lines[i].event] /\ answers' = answers /\ pc' = pc
        /\ \A t \in Threads : pc[t] = "idle"
    BY <1>3 DEF Restart, history, Loaded, CallsInv
  <2>2. \A a \in Decisions : Shows(events, a.call, a.status)'
    BY <2>1 DEF DurableInv, DurableAnswers, Shows
  <2> QED BY <2>1, <2>2 DEF ShownInv, Decisions
<1>4. CASE UNCHANGED vars
  BY <1>4 DEF vars, ShownInv, Decisions, Shows
<1> QED BY <1>1, <1>2, <1>3, <1>4 DEF Next

\* A page is a copy: what comes after leaves it as it is.
LEMMA PageStep ==
    ASSUME TypeInv, ApiTypeOK, ShownInv, PageInv, [ApiNext]_allVars
    PROVE  PageInv'
<1>1. ASSUME NEW r \in Readers, Read(r) PROVE PageInv'
  <2>1. TypeOK
    BY DEF TypeInv
  <2>2. \A q \in Readers \ {r} : view'[q] = view[q]
    BY <1>1, <2>1, ReadShape
  <2>3. view'[r].at \in {"stream", "listing", "audit"} =>
          \/ up /\ view'[r].known = Decisions /\ view'[r].page = events
          \/ view[r].at = "listing" /\ view'[r].known = view[r].known /\ view'[r].page = view[r].page
    BY <1>1, <2>1, ReadShape
  <2>4. view'[r].at \in {"stream", "listing", "audit"} =>
          \A a \in view'[r].known : Shows(view'[r].page, a.call, a.status)
    BY <2>3 DEF ShownInv, PageInv
  <2> QED BY <2>2, <2>4 DEF PageInv, Shows
<1>2. CASE UNCHANGED apiVars
  BY <1>2 DEF apiVars, PageInv, Shows
<1>3. CASE view' = [r \in Readers |-> Resting]
  BY <1>3 DEF PageInv, Resting
<1> QED BY <1>1, <1>2, <1>3, KernelShape DEF allVars

\* With a file and writes that are all or nothing, every page of the audit
\* routes shows each decision that was held when it was read.
THEOREM AuditShowsAnsweredCorrect ==
    ASSUME WholeFile PROVE ApiSpec => []AuditShowsAnswered
<1>1. ApiInit => DurableInv /\ ShownInv /\ PageInv
  BY DurableInit DEF ApiInit, Init, ShownInv, PageInv, Decisions, Resting
<1>2. TypeInv /\ ApiTypeOK /\ (DurableInv /\ ShownInv /\ PageInv) /\ [ApiNext]_allVars
        => (DurableInv /\ ShownInv /\ PageInv)'
  BY ApiStep, DurableStep, ShownStep, PageStep
<1>3. PageInv => AuditShowsAnswered
  BY DEF PageInv, Shows, AuditShowsAnswered
<1> QED BY <1>1, <1>2, <1>3, ApiTypes, PTL DEF ApiSpec
=============================================================================
