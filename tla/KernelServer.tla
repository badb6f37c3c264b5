---------------------------- MODULE KernelServer ----------------------------
(***************************************************************************)
(* One ConstitutionalKernel served to several request threads: the thread  *)
(* per connection of api.make_server, the four pool workers of             *)
(* grpc_server.make_grpc_server.  The kernel and its audit log take no     *)
(* lock, so a step here is what one thread does between two reads or       *)
(* writes of state the others see: the list of events and the JSONL file.  *)
(*                                                                         *)
(* The hash of an event commits to its whole payload, its timestamp        *)
(* included; it is modelled as the number of the sealing that made it, so  *)
(* two events never share one.  The file is a sequence of lines; a write   *)
(* that stops half way leaves a line without its newline, and the next one *)
(* is glued to it.  Killing the process loses its memory, never what it    *)
(* had written to the file.                                                *)
(***************************************************************************)
EXTENDS Authorization, SequencesExt

CONSTANTS Threads,         \* request threads of the process
          Requests,        \* requests a client may send
          Subjects,        \* identity entries, in the order they were added
          Rules,           \* policy rules, in order
          Grants,          \* capability grants, in order
          Handlers,        \* operations that have a handler
          FileBacked,      \* audit_log_path is configured
          PartialWrites,   \* a write may stop half way
          MaxCalls,        \* bound: calls made
          MaxCrashes,      \* bound: times the process is killed
          MaxWriteErrors   \* bound: writes to the file that fail

ASSUME BoundsAssumption ==
    /\ MaxCalls \in Nat
    /\ MaxCrashes \in Nat
    /\ MaxWriteErrors \in Nat
    /\ FileBacked \in BOOLEAN
    /\ PartialWrites \in BOOLEAN

ASSUME TablesAssumption ==
    Len(Subjects) \in Nat /\ DOMAIN Subjects = 1..Len(Subjects)

VARIABLES up,          \* the process runs
          asked,       \* the requests received so far; a call is its position
          performed,   \* calls whose handler returned
          answers,     \* what the callers were told
          events,      \* InMemoryAuditLog._events
          lines,       \* the audit file
          clock,       \* sealings so far
          pc,          \* where each thread is in handle
          draft,       \* the payload each thread is filling in append
          crashes, writeErrors

history == <<asked, performed, answers>>
storage == <<events, lines, clock>>
budgets == <<crashes, writeErrors>>
vars    == <<up, asked, performed, answers, events, lines, clock, pc, draft,
             crashes, writeErrors>>

GenesisHash == 0
Calls       == 1..MaxCalls
Statuses    == {"allowed", "denied", "failed"}
Places      == {"idle", "gates", "execute", "previous", "length", "append",
                "write", "reply"}

Event  == [id : Nat, call : Nat, status : Statuses, previous : Nat, hash : Nat]
Answer == [call : Calls, status : Statuses \cup {"error"}, event : Nat]

\* A line of the file: "whole", "unended" when only its newline is missing,
\* "torn" when more is, "garbled" when two writes share it.
Line == [text : {"whole", "unended", "torn", "garbled"}, event : Event]
Readable(line) == line.text \in {"whole", "unended"}
Ended(line)    == line.text \in {"whole", "garbled"}

\* What opening the file in append mode and writing a line leaves.
Written(text, event) ==
    IF lines = <<>> \/ Ended(Last(lines))
      THEN Append(lines, [text |-> text, event |-> event])
      ELSE Append(Front(lines),
                  [text |-> IF text = "whole" THEN "garbled" ELSE "torn",
                   event |-> event])

\* FileAuditLog._read_events, of a file every line of which parses.
FileParses == \A i \in DOMAIN lines : Readable(lines[i])
Loaded     == [i \in DOMAIN lines |-> lines[i].event]

GateOf(c) == Gate(Subjects, Rules, Grants, Handlers, asked[c])

-----------------------------------------------------------------------------
Blank == [id |-> 0, call |-> 0, status |-> "denied",
          previous |-> GenesisHash, hash |-> 0]

Init == /\ up = TRUE
        /\ asked = <<>>
        /\ performed = {}
        /\ answers = {}
        /\ events = <<>>
        /\ lines = <<>>
        /\ clock = 0
        /\ pc    = [t \in Threads |-> "idle"]
        /\ draft = [t \in Threads |-> Blank]
        /\ crashes = 0
        /\ writeErrors = 0

At(t, place)   == up /\ pc[t] = place
Goto(t, place) == pc' = [pc EXCEPT ![t] = place]

\* handle ends: the caller is told, the thread is free.
Tell(t, status, id) ==
    /\ answers' = answers \cup {[call |-> draft[t].call, status |-> status, event |-> id]}
    /\ Goto(t, "idle")

\* A connection's thread, or a pool worker, takes up a request.
Receive(t) ==
    /\ At(t, "idle")
    /\ Len(asked) < MaxCalls
    /\ \E r \in Requests : asked' = Append(asked, r)
    /\ draft' = [draft EXCEPT ![t] = [Blank EXCEPT !.call = Len(asked) + 1]]
    /\ Goto(t, "gates")
    /\ UNCHANGED <<up, performed, answers, storage, budgets>>

\* Planning raises: handle ends with an exception, nothing is recorded.
PlanFails(t) ==
    /\ At(t, "gates")
    /\ GateOf(draft[t].call) = "unplanned"
    /\ Tell(t, "error", 0)
    /\ UNCHANGED <<up, asked, performed, storage, draft, budgets>>

\* A gate denies: _deny_or_fail is called with DENIED.
Deny(t) ==
    /\ At(t, "gates")
    /\ GateOf(draft[t].call) \notin {"granted", "unplanned"}
    /\ draft' = [draft EXCEPT ![t].status = "denied"]
    /\ Goto(t, "previous")
    /\ UNCHANGED <<up, history, storage, budgets>>

\* Every gate lets the request through.
Grant(t) ==
    /\ At(t, "gates")
    /\ GateOf(draft[t].call) = "granted"
    /\ Goto(t, "execute")
    /\ UNCHANGED <<up, history, storage, draft, budgets>>

\* Mistake: the result is returned as soon as the handler has it.
ExecuteUnrecorded(t) ==
    /\ At(t, "execute")
    /\ performed' = performed \cup {draft[t].call}
    /\ Tell(t, "allowed", 0)
    /\ UNCHANGED <<up, asked, draft, storage, budgets>>

\* The handler returns; nothing of it is in the audit log yet.
Execute(t) ==
    /\ At(t, "execute")
    /\ performed' = performed \cup {draft[t].call}
    /\ draft' = [draft EXCEPT ![t].status = "allowed"]
    /\ Goto(t, "previous")
    /\ UNCHANGED <<up, asked, answers, storage, budgets>>

\* Mistake: the status of a failed handler is not one of DecisionStatus.
HandlerFailsAsError(t) ==
    /\ At(t, "execute")
    /\ draft' = [draft EXCEPT ![t].status = "error"]
    /\ Goto(t, "previous")
    /\ UNCHANGED <<up, history, storage, budgets>>

\* Mistake: the success path is shared, so a failed handler is recorded as
\* allowed.
HandlerFailsAsAllowed(t) ==
    /\ At(t, "execute")
    /\ draft' = [draft EXCEPT ![t].status = "allowed"]
    /\ Goto(t, "previous")
    /\ UNCHANGED <<up, history, storage, budgets>>

\* Mistake: a failed handler is tried again without end.
HandlerFailsForever(t) ==
    /\ At(t, "execute")
    /\ draft' = [draft EXCEPT ![t].status =
                   IF @ = "failed" THEN "denied" ELSE "failed"]
    /\ UNCHANGED <<up, pc, history, storage, budgets>>

\* The handler raises: _deny_or_fail is called with FAILED.
HandlerFails(t) ==
    /\ At(t, "execute")
    /\ draft' = [draft EXCEPT ![t].status = "failed"]
    /\ Goto(t, "previous")
    /\ UNCHANGED <<up, history, storage, budgets>>

\* Mistake: the link is taken from the last event's link, not its hash.
ReadPreviousLink(t) ==
    /\ At(t, "previous")
    /\ draft' = [draft EXCEPT ![t].previous =
                   IF events = <<>> THEN GenesisHash ELSE Last(events).previous]
    /\ Goto(t, "length")
    /\ UNCHANGED <<up, history, storage, budgets>>

\* append reads the hash of the last event,
ReadPrevious(t) ==
    /\ At(t, "previous")
    /\ draft' = [draft EXCEPT ![t].previous =
                   IF events = <<>> THEN GenesisHash ELSE Last(events).hash]
    /\ Goto(t, "length")
    /\ UNCHANGED <<up, history, storage, budgets>>

\* Mistake: event ids count from zero.
ReadLengthFromZero(t) ==
    /\ At(t, "length")
    /\ draft' = [draft EXCEPT ![t].id = Len(events)]
    /\ Goto(t, "append")
    /\ UNCHANGED <<up, history, storage, budgets>>

\* then the length of the list, for event_id,
ReadLength(t) ==
    /\ At(t, "length")
    /\ draft' = [draft EXCEPT ![t].id = Len(events) + 1]
    /\ Goto(t, "append")
    /\ UNCHANGED <<up, history, storage, budgets>>

\* then seals the payload and appends it to the list.
AppendEvent(t) ==
    /\ At(t, "append")
    /\ clock' = clock + 1
    /\ draft' = [draft EXCEPT ![t].hash = clock + 1]
    /\ events' = Append(events, draft'[t])
    /\ Goto(t, IF FileBacked THEN "write" ELSE "reply")
    /\ UNCHANGED <<up, history, lines, budgets>>

\* FileAuditLog.append writes the event's line and closes the file.
WriteLine(t) ==
    /\ At(t, "write")
    /\ lines' = Written("whole", draft[t])
    /\ Goto(t, "reply")
    /\ UNCHANGED <<up, history, events, clock, draft, budgets>>

\* A write stops half way: the file ends in part of the line, or in all of it
\* but its newline.
CutShort(t) ==
    /\ PartialWrites
    /\ \E text \in {"torn", "unended"} : lines' = Written(text, draft[t])

\* Mistake: the error of a failed write is swallowed.
WriteFailsSilently(t) ==
    /\ At(t, "write")
    /\ writeErrors < MaxWriteErrors
    /\ writeErrors' = writeErrors + 1
    /\ lines' = lines \/ CutShort(t)
    /\ Goto(t, "reply")
    /\ UNCHANGED <<up, history, events, clock, draft, crashes>>

\* Mistake: the whole append is tried again after a failed write.
WriteFailsRetried(t) ==
    /\ At(t, "write")
    /\ writeErrors < MaxWriteErrors
    /\ writeErrors' = writeErrors + 1
    /\ lines' = lines \/ CutShort(t)
    /\ Goto(t, "previous")
    /\ UNCHANGED <<up, history, events, clock, draft, crashes>>

\* The directory, the open or the write fails (a full disk): append raises
\* after the event is in memory, and so does handle.
WriteFails(t) ==
    /\ At(t, "write")
    /\ writeErrors < MaxWriteErrors
    /\ writeErrors' = writeErrors + 1
    /\ lines' = lines \/ CutShort(t)
    /\ Tell(t, "error", 0)
    /\ UNCHANGED <<up, asked, performed, events, clock, draft, crashes>>

\* handle returns its Decision with the event's id.
Reply(t) ==
    /\ At(t, "reply")
    /\ Tell(t, draft[t].status, draft[t].id)
    /\ UNCHANGED <<up, asked, performed, storage, draft, budgets>>

\* The process is killed, perhaps in the middle of a thread's write.
Crash ==
    /\ up
    /\ crashes < MaxCrashes
    /\ crashes' = crashes + 1
    /\ up' = FALSE
    /\ events' = <<>>
    /\ pc'    = [t \in Threads |-> "idle"]
    /\ draft' = [t \in Threads |-> Blank]
    /\ \/ lines' = lines
       \/ \E t \in Threads : pc[t] = "write" /\ CutShort(t)
    /\ UNCHANGED <<history, clock, writeErrors>>

\* FileAuditLog.__init__ loads the file; a line that does not parse raises
\* and the process does not start.  The chain is not verified.
Restart ==
    /\ ~up
    /\ FileParses
    /\ up' = TRUE
    /\ events' = Loaded
    /\ UNCHANGED <<history, lines, clock, pc, draft, budgets>>

Serve(t) == \/ PlanFails(t) \/ Deny(t) \/ Grant(t)
            \/ Execute(t) \/ HandlerFails(t)
            \/ ReadPrevious(t) \/ ReadLength(t) \/ AppendEvent(t)
            \/ WriteLine(t) \/ WriteFails(t) \/ Reply(t)

Next == \/ \E t \in Threads : Receive(t) \/ Serve(t)
        \/ Crash
        \/ Restart

Spec == Init /\ [][Next]_vars

\* A thread that is in handle keeps running, and whoever runs the process
\* starts it again.  Neither clients nor crashes are owed.
FairSpec == /\ Spec
            /\ \A t \in Threads : WF_vars(Serve(t))
            /\ WF_vars(Restart)

-----------------------------------------------------------------------------
TypeOK == /\ up \in BOOLEAN
          /\ asked \in Seq(Requests)
          /\ Len(asked) <= MaxCalls
          /\ performed \subseteq Calls
          /\ answers \subseteq Answer
          /\ events \in Seq(Event)
          /\ lines \in Seq(Line)
          /\ clock \in Nat
          /\ pc \in [Threads -> Places]
          /\ draft \in [Threads -> Event]
          /\ crashes \in 0..MaxCrashes
          /\ writeErrors \in 0..MaxWriteErrors

\* The answers that are decisions, not dropped connections.
Decisions == {a \in answers : a.status # "error"}

\* What the process has, or would load, of its audit log.
Recorded == IF up THEN events ELSE Loaded

\* The log a running kernel serves to /health, /v1/replay and ReplayVerifier
\* always verifies: each event commits to the one before it
\* (InMemoryAuditLog.verify, ReplayVerifier.verify).
ChainVerifies ==
    up => \A i \in DOMAIN events :
            events[i].previous = IF i = 1 THEN GenesisHash ELSE events[i - 1].hash

\* A caller holds a Decision only when the file has a line for it that can be
\* read back, whatever the other threads were doing (FileAuditLog.append
\* returns after the write).
DurableAnswers ==
    \A a \in Decisions : \E i \in DOMAIN lines :
        /\ Readable(lines[i])
        /\ lines[i].event.call = a.call
        /\ lines[i].event.status = a.status
        /\ lines[i].event.id = a.event

\* The log never says of a call what did not happen to it: "allowed" is only
\* recorded of a call whose handler returned, "denied" and "failed" never are
\* (the order of the returns of ConstitutionalKernel.handle).
NoFalseRecord ==
    \A i \in DOMAIN Recorded :
        (Recorded[i].status = "allowed") <=> (Recorded[i].call \in performed)

\* Whatever the interleaving, crash or write error, a call is recorded at most
\* once and its thread records no other call's event.
RecordedOnce ==
    \A i, j \in DOMAIN events : events[i].call = events[j].call => i = j

\* A handler has run only for requests that are authorized by every table
\* (ConstitutionalKernel.handle, lines 34-75).
OnlyAuthorizedRun ==
    \A c \in performed : Authorized(Subjects, Rules, Grants, Handlers, asked[c])

\* No execution without a trace, unless the process is killed before it is
\* written: once no thread serves the call, its execution is in the log
\* (spec volume 3: "Every state-changing instruction requires an audit event").
ExecutionsRecorded ==
    crashes = 0 => \A c \in performed :
        \/ \E t \in Threads : pc[t] # "idle" /\ draft[t].call = c
        \/ \E i \in DOMAIN Recorded : Recorded[i].call = c

\* Every call is answered, with a decision or a dropped connection, unless the
\* process is killed: no thread waits for another one.
EveryCallEnds ==
    \A c \in Calls :
        (c <= Len(asked)) ~> (crashes > 0 \/ \E a \in answers : a.call = c)

\* Seen from outside, the log is the abstract trail: recorded once at the end,
\* acknowledged where recorded, and only unacknowledged records lost.
Trail == INSTANCE AuditTrail WITH
    trail <- [i \in DOMAIN Recorded |->
                [call |-> Recorded[i].call, status |-> Recorded[i].status]],
    acked <- Decisions
TrailRefinement == Trail!TrailSpec
=============================================================================
