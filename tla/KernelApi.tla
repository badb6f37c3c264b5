------------------------------ MODULE KernelApi ------------------------------
(***************************************************************************)
(* KernelServer behind its HTTP and gRPC services: how the body of a call  *)
(* becomes a request on each route, and the reads of the audit log that    *)
(* run in threads of their own beside the calls.  A read takes no lock: it *)
(* walks a list that grows under it, or lists it and then counts it anew.  *)
(***************************************************************************)
EXTENDS KernelServer, Configuration

CONSTANTS Document,        \* the configuration file
          Bodies,          \* bodies a client may post
          Readers,         \* threads that serve reads
          MaxReads         \* bound: reads served

ASSUME ApiAssumption ==
    /\ MaxReads \in Nat
    /\ Loads(Document)
    /\ Subjects = Tables(Document).subjects
    /\ Rules = Tables(Document).rules
    /\ Grants = Tables(Document).grants
    /\ FileBacked = KeepsFile(Document)

VARIABLES view,            \* what each reader has of its answer
          alarmed,         \* a read of this process said the chain is broken
          reads

apiVars == <<view, alarmed, reads>>
allVars == <<vars, apiVars>>

-----------------------------------------------------------------------------
\* A field of a body is a text, Null or Absent.  "/v1/execute" and "/v1/grpc"
\* carry JSON; "native" is the gRPC service, whose fields are always texts.
Null     == "null"
NoneText == "None"
Routes   == {"/v1/execute", "/v1/grpc", "native"}

Fields(body) == {body.id, body.subject, body.operation, body.resource}

\* The call ends before the kernel: a field is missing (KeyError, answered
\* with BAD_REQUEST), or /v1/grpc makes a dict of what is none (TypeError,
\* which nothing catches: the connection drops).
Refused(route, body) ==
    /\ route # "native"
    /\ \/ Absent \in Fields(body)
       \/ route = "/v1/grpc" /\ body.parameters = "null"

\* The text a route makes of a field: /v1/grpc writes a null out, /v1/execute
\* passes it on and ActionRequest.validate finds it missing, and a gRPC
\* message has the empty text where nothing was set.
TextOf(route, field) ==
    IF route = "/v1/grpc" /\ field = Null THEN NoneText
    ELSE IF field \in {Null, Absent}      THEN Missing
    ELSE field

RequestOf(route, body) ==
    [id         |-> TextOf(route, body.id),
     subject    |-> TextOf(route, body.subject),
     operation  |-> TextOf(route, body.operation),
     resource   |-> TextOf(route, body.resource),
     parameters |-> IF route = "/v1/execute"
                      THEN OrDefault(body.parameters, "mapping") ELSE "mapping"]

\* Some route hands the kernel a request.
Post(t) ==
    /\ Receive(t)
    /\ \E route \in Routes, body \in Bodies :
          ~Refused(route, body) /\ Last(asked') = RequestOf(route, body)
    /\ UNCHANGED apiVars

-----------------------------------------------------------------------------
Resting == [at |-> "idle", valid |-> TRUE, walked |-> 0, page |-> <<>>,
            count |-> 0, told |-> FALSE, known |-> {}]

Answered == {"idle", "health", "replay", "stream", "audit"}

\* The hash the event after the first n must link to.
LinkAfter(n) == IF n = 0 THEN GenesisHash ELSE events[n].hash

Chained(n) == \A i \in 1..n : events[i].previous = LinkAfter(i - 1)

\* A request to read arrives; told says whether the alarm was already raised.
BeginRead(r, answer) ==
    /\ up
    /\ view[r].at \in Answered
    /\ reads < MaxReads
    /\ reads' = reads + 1
    /\ view' = [view EXCEPT ![r] = answer]
    /\ UNCHANGED vars

\* Health: verify starts at the first event.
BeginHealth(r) ==
    /\ BeginRead(r, [Resting EXCEPT !.at = "walking", !.told = alarmed])
    /\ UNCHANGED alarmed

\* Mistake: the walk stops before the last event.
WalkButLast(r) ==
    /\ view[r].at = "walking"
    /\ LET n == view[r].walked IN
         view' = [view EXCEPT ![r] =
            IF n + 1 >= Len(events) THEN [@ EXCEPT !.at = "counting"]
            ELSE IF events[n + 1].previous = LinkAfter(n) THEN [@ EXCEPT !.walked = n + 1]
            ELSE [@ EXCEPT !.at = "counting", !.valid = FALSE]]
    /\ UNCHANGED <<vars, alarmed, reads>>

\* verify takes the next event of the list as it now is, or is done with it.
Walk(r) ==
    /\ view[r].at = "walking"
    /\ LET n == view[r].walked IN
         view' = [view EXCEPT ![r] =
            IF n = Len(events) THEN [@ EXCEPT !.at = "counting"]
            ELSE IF events[n + 1].previous = LinkAfter(n) THEN [@ EXCEPT !.walked = n + 1]
            ELSE [@ EXCEPT !.at = "counting", !.valid = FALSE]]
    /\ UNCHANGED <<vars, alarmed, reads>>

\* Health then asks for the events once more, to count them, and answers.
CountHealth(r) ==
    /\ view[r].at = "counting"
    /\ view' = [view EXCEPT ![r].at = "health", ![r].count = Len(events)]
    /\ alarmed' = (alarmed \/ ~view[r].valid)
    /\ UNCHANGED <<vars, reads>>

\* Replay: ReplayVerifier walks a copy of the list; its count is the position
\* of the event that does not fit, or the length.
Replay(r) ==
    LET sound == Chained(Len(events))
        count == IF sound THEN Len(events)
                 ELSE Min({n \in 1..Len(events) : ~Chained(n)})
    IN  /\ BeginRead(r, [Resting EXCEPT !.at = "replay", !.valid = sound,
                                        !.told = alarmed, !.count = count])
        /\ alarmed' = (alarmed \/ ~sound)

\* Mistake: the list serves only the events of calls that were allowed.
ListAllowed(r) ==
    /\ \E at \in {"stream", "listing"} :
          BeginRead(r, [Resting EXCEPT !.at = at, !.known = Decisions,
             !.page = SelectSeq(events, LAMBDA e : e.status = "allowed")])
    /\ UNCHANGED alarmed

\* Audit and its stream list a copy of the events; the stream ends there.
List(r) ==
    /\ \E at \in {"stream", "listing"} :
          BeginRead(r, [Resting EXCEPT !.at = at, !.known = Decisions, !.page = events])
    /\ UNCHANGED alarmed

\* Audit then counts the events of the log, not of its page.
CountPage(r) ==
    /\ view[r].at = "listing"
    /\ view' = [view EXCEPT ![r].at = "audit", ![r].count = Len(events)]
    /\ UNCHANGED <<vars, alarmed, reads>>

Read(r) == \/ BeginHealth(r) \/ Walk(r) \/ CountHealth(r)
           \/ Replay(r) \/ List(r) \/ CountPage(r)

\* The readers die with the process, and what they said with their callers.
CrashAll ==
    /\ Crash
    /\ view' = [r \in Readers |-> Resting]
    /\ alarmed' = FALSE
    /\ UNCHANGED reads

ApiInit == /\ Init
           /\ view = [r \in Readers |-> Resting]
           /\ alarmed = FALSE
           /\ reads = 0

ApiNext == \/ \E t \in Threads : Post(t)
           \/ \E t \in Threads : Serve(t) /\ UNCHANGED apiVars
           \/ \E r \in Readers : Read(r)
           \/ CrashAll
           \/ Restart /\ UNCHANGED apiVars

ApiSpec == ApiInit /\ [][ApiNext]_allVars

-----------------------------------------------------------------------------
View == [at : Answered \cup {"walking", "counting", "listing"}, valid : BOOLEAN,
         walked : Nat, page : Seq(Event), count : Nat, told : BOOLEAN,
         known : SUBSET Answer]

ApiTypeOK == /\ view \in [Readers -> View]
             /\ alarmed \in BOOLEAN
             /\ reads \in 0..MaxReads

\* The audit route shows every Decision that any caller held when it was read,
\* those given before a crash and those of the other threads included
\* (do_GET "/v1/audit" and "/v1/audit/stream", BuilderService.Audit).
AuditShowsAnswered ==
    \A r \in Readers :
        view[r].at \in {"stream", "listing", "audit"} =>
            \A a \in view[r].known : \E i \in DOMAIN view[r].page :
                /\ view[r].page[i].call = a.call
                /\ view[r].page[i].status = a.status

\* A broken chain stays broken: once a read of this process has said so, no
\* read that starts later is told the chain verifies, whichever of the two
\* verifiers serves it and whatever is appended meanwhile
\* (InMemoryAuditLog.verify on the live list, ReplayVerifier.verify on a copy).
AlarmsStand ==
    \A r \in Readers :
        view[r].at \in {"health", "replay"} /\ view[r].told => ~view[r].valid

\* Whatever the defaults filled in, a handler has run only for a request that
\* the configuration file, read as its author wrote it, lets through
\* (config.load_config with ConstitutionalKernel.handle).
OnlyDocumentedRun ==
    \A c \in performed : DocumentGrants(Document, asked[c])
=============================================================================
