------------------------------ MODULE Backend ------------------------------
(***************************************************************************)
(* The HTTP backend of the ThirstyAI Builder: server.py with the database  *)
(* of db.py, the audits of the Commander, the model client of llm.py, the  *)
(* bearer check and the size limit.  FastAPI runs each handler on a thread *)
(* of a pool, so requests interleave at every access to what they share:   *)
(* the permits of the audits, the collections and the model server.  The   *)
(* process may die and start again; MongoDB and Ollama come and go.        *)
(*                                                                         *)
(* A document is named after the request that inserted it, and an in-memory*)
(* collection object after the request that made it.                       *)
(***************************************************************************)
EXTENDS Naturals, FiniteSets

CONSTANTS
    Requests,       \* the requests that are ever made, each once
    Plans,          \* which kinds of request they may be
    Text,           \* the text of a request that embeds one
    Settings,       \* the environments the server may be started in
    Models, Base,   \* the model names there are, and the name before the colon
    Preferred,      \* OLLAMA_MODEL
    Permits,        \* how many audits may run at once, 2 in the code
    MaxFaults,      \* bound on crashes and on changes of what MongoDB or Ollama offers
    Mongo, None     \* the one store that is not an object of the process; nothing

Inserts == {"audit", "install", "client", "post", "embed", "ready"}
Finds == {"audits", "pdf", "installs", "clients", "posts", "query"}
Chats == {"dove", "holli", "marketing"}
Kinds == Inserts \union Finds \union Chats

ASSUME RequestsAssumption == IsFiniteSet(Requests)
ASSUME PlansAssumption == Plans \subseteq [Requests -> Kinds]
ASSUME SettingsAssumption ==
    Settings \subseteq [mongoUrl: BOOLEAN, requireMongo: BOOLEAN, key: BOOLEAN, requireAuth: BOOLEAN]
ASSUME ModelsAssumption == Preferred \in Models
ASSUME PermitsAssumption == Permits \in Nat
ASSUME StoresAssumption == Mongo \notin Requests /\ None \notin Requests /\ Mongo # None

\* The collection a handler of each kind uses.
CollectionOf ==
    [audit |-> "audits", audits |-> "audits", pdf |-> "audits",
     install |-> "installs", installs |-> "installs",
     client |-> "clients", clients |-> "clients",
     post |-> "social_posts", posts |-> "social_posts",
     embed |-> "rag_embeddings", query |-> "rag_embeddings",
     ready |-> "__healthcheck__"]
Names == {CollectionOf[k] : k \in Inserts}

Stores == Requests \union {Mongo, None}
Codes == {0, 200, 401, 404, 413, 429, 500, 503}
Steps == {"idle", "handler", "audit", "hung", "look", "create", "fetch", "apply",
          "models", "ask", "release", "answered", "lost"}

VARIABLES
    settings, kind,     \* fixed at the start
    up, backend,        \* whether the process serves, and from which kind of store
    home,               \* _collections: the object each name has in memory
    held,               \* the documents of each object
    mongo,              \* the documents of each collection in MongoDB
    permits,            \* the value of _AUDIT_SEMAPHORE
    mongoUp, ollama,    \* whether MongoDB answers; the models Ollama lists, none when it is down
    faults,             \* how many of the bounded events there were
    pc, code,           \* where each request is, and the status it was answered
    obj,                \* the collection object its handler holds
    seen,               \* the documents its find returned
    model,              \* the model its handler chose
    before,             \* the inserts answered 200 before it arrived, in this process or in MongoDB
    forgotten           \* the requests whose documents went with a process that died

store == <<home, held, mongo>>
world == <<settings, kind, up, backend, mongoUp, ollama, faults, forgotten>>
vars == <<settings, kind, up, backend, home, held, mongo, permits, mongoUp, ollama, faults,
          pc, code, obj, seen, model, before, forgotten>>

Init ==
    /\ settings \in Settings /\ kind \in Plans
    /\ up = FALSE /\ backend = "in-memory"
    /\ home = [n \in Names |-> None]
    /\ held = [o \in Requests |-> {}]
    /\ mongo = [n \in Names |-> {}]
    /\ permits = Permits
    /\ mongoUp \in {FALSE, settings.mongoUrl} /\ ollama = Models
    /\ faults = 0
    /\ pc = [r \in Requests |-> "idle"]
    /\ code = [r \in Requests |-> 0]
    /\ obj = [r \in Requests |-> None]
    /\ seen = [r \in Requests |-> {}]
    /\ model = [r \in Requests |-> None]
    /\ before = [r \in Requests |-> {}]
    /\ forgotten = {}

-----------------------------------------------------------------------------
(* The process and what it depends on.                                     *)

\* Mistake: a MongoDB that is required and cannot be reached is done without.
ResolvedAnyway ==
    IF settings.mongoUrl /\ mongoUp THEN {"mongo"}
    ELSE IF settings.requireMongo /\ ~settings.mongoUrl THEN {} ELSE {"in-memory"}

\* The backends _resolve_client may settle on: none when it raises.
Resolved ==
    IF settings.mongoUrl /\ mongoUp THEN {"mongo"}
    ELSE IF settings.requireMongo THEN {} ELSE {"in-memory"}

\* server.py is imported: it raises when authentication is required and has
\* no key, and when the store it must have is not there.
Start ==
    /\ ~up
    /\ settings.requireAuth => settings.key
    /\ backend' \in Resolved
    /\ up' = TRUE
    /\ permits' = Permits
    /\ UNCHANGED <<settings, kind, store, mongoUp, ollama, faults, pc, code, obj, seen, model,
                   before, forgotten>>

\* The process dies; MongoDB may be another when it starts again.
Crash ==
    /\ up /\ faults < MaxFaults
    /\ faults' = faults + 1
    /\ mongoUp' \in {FALSE, settings.mongoUrl}
    /\ up' = FALSE
    /\ home' = [n \in Names |-> None]
    /\ held' = [o \in Requests |-> {}]
    /\ pc' = [r \in Requests |-> IF pc[r] \in {"idle", "answered"} THEN pc[r] ELSE "lost"]
    /\ forgotten' = {r \in Requests : pc[r] # "idle" /\ obj[r] # Mongo}
    /\ UNCHANGED <<settings, kind, backend, mongo, permits, ollama, code, obj, seen,
                   model, before>>

\* MongoDB or Ollama stops, starts, or has other models.
WorldChanges ==
    /\ faults < MaxFaults
    /\ faults' = faults + 1
    /\ \/ settings.mongoUrl /\ mongoUp' = ~mongoUp /\ UNCHANGED ollama
       \/ ollama' \in SUBSET Models \ {ollama} /\ UNCHANGED mongoUp
    /\ UNCHANGED <<settings, kind, up, backend, store, permits, pc, code, obj, seen, model,
                   before, forgotten>>

-----------------------------------------------------------------------------
(* Arriving and answering.                                                 *)

GoTo(r, step) == pc' = [pc EXCEPT ![r] = step]

\* The request holds a permit, which the finally of run_audit gives back.
Holds(r) == kind[r] = "audit" /\ pc[r] \notin {"idle", "handler", "answered", "lost"}

\* Mistake: the permit comes back only after an audit that succeeded.
AnswerUnfinally(r, c) ==
    /\ code' = [code EXCEPT ![r] = c]
    /\ GoTo(r, IF Holds(r) /\ c = 200 THEN "release" ELSE "answered")

Answer(r, c) ==
    /\ code' = [code EXCEPT ![r] = c]
    /\ GoTo(r, IF Holds(r) THEN "release" ELSE "answered")

\* A body over the limit, told by its header or counted chunk by chunk.  What
\* else turns a request away before its handler stands in this code: a length
\* that is no number, a field over its limit, an empty token bucket.
SizeCodes == {413}

\* What verify_bearer may refuse with; the probe is a public route.
BearerCodes(k) ==
    IF k = "ready" THEN {} ELSE IF settings.key THEN {401} ELSE {503}

\* The middlewares, the bearer check or the field limits turn a request away.
Reject(r) ==
    /\ up /\ pc[r] = "idle"
    /\ \E c \in SizeCodes \union BearerCodes(kind[r]) : Answer(r, c)
    /\ UNCHANGED <<world, store, permits, obj, seen, model, before>>

Admit(r) ==
    /\ up /\ pc[r] = "idle"
    /\ settings.key \/ kind[r] = "ready"
    /\ before' = [before EXCEPT ![r] =
                    {i \in Requests : kind[i] \in Inserts /\ code[i] = 200
                                      /\ pc[i] = "answered" /\ i \notin forgotten}]
    /\ GoTo(r, "handler")
    /\ UNCHANGED <<world, store, permits, code, obj, seen, model>>

-----------------------------------------------------------------------------
(* The handlers up to their first access to the store or the model.        *)

AtHandler(r, kinds) == pc[r] = "handler" /\ kind[r] \in kinds

\* Mistake: the permit is asked for inside the try, so a refusal gives one back.
AcquireInTry(r) ==
    /\ AtHandler(r, {"audit"})
    /\ IF permits = 0
         THEN /\ code' = [code EXCEPT ![r] = 429] /\ GoTo(r, "release")
              /\ UNCHANGED permits
         ELSE /\ permits' = permits - 1
              /\ \E step \in {"audit", "hung"} : GoTo(r, step)
              /\ UNCHANGED code
    /\ UNCHANGED <<world, store, obj, seen, model, before>>

\* run_audit: a permit at once, or 429.  The audit then runs, or hangs.
RunAudit(r) ==
    /\ AtHandler(r, {"audit"})
    /\ IF permits = 0
         THEN Answer(r, 429) /\ UNCHANGED permits
         ELSE /\ permits' = permits - 1
              /\ \E step \in {"audit", "hung"} : GoTo(r, step)
              /\ UNCHANGED code
    /\ UNCHANGED <<world, store, obj, seen, model, before>>

\* The report is rendered; without reportlab a title or an output that is not
\* Latin-1 raises, and the audit that ran leaves no record.
Render(r) ==
    /\ \/ GoTo(r, "look") /\ UNCHANGED code
       \/ Answer(r, 500)
    /\ UNCHANGED <<world, store, permits, obj, seen, model, before>>

\* The audited command ends, cannot be started, is missing, or the target
\* is a custom one: there is a body in every case.
AuditEnds(r) == pc[r] = "audit" /\ Render(r)

\* Mistake: the command is waited for without a timeout.
AuditHangs(r) == pc[r] = "hung" /\ UNCHANGED vars

\* subprocess.run kills a command after 600 seconds.
AuditTimesOut(r) == pc[r] = "hung" /\ Render(r)

\* install_tool: only tools of the seed list.
InstallTool(r) ==
    /\ AtHandler(r, {"install"})
    /\ \/ GoTo(r, "look") /\ UNCHANGED code
       \/ Answer(r, 404)
    /\ UNCHANGED <<world, store, permits, obj, seen, model, before>>

\* Handlers whose first shared access is the store, and those that only chat.
GoOn(r, kinds, step) ==
    /\ AtHandler(r, kinds)
    /\ GoTo(r, step)
    /\ UNCHANGED <<world, store, permits, code, obj, seen, model, before>>

CreateClient(r) == GoOn(r, {"client"}, "look")
QueueSocialPost(r) == GoOn(r, {"post"}, "look")
RagEmbed(r) == GoOn(r, {"embed"}, "look")
OpenCollection(r) == GoOn(r, Finds, "look")
DoveChat(r) == GoOn(r, {"dove"}, "models")
HolliChat(r) == GoOn(r, {"holli"}, "models")
MarketingCopy(r) == GoOn(r, {"marketing"}, "models")

\* What _normalize_model makes of the preferred name, given the names listed.
Normalized(listed) ==
    LET akin == {m \in listed : Base[m] = Base[Preferred]}
    IN IF Preferred \in listed THEN {Preferred} ELSE IF akin # {} THEN akin ELSE listed

\* ready: the model server first, then a document for the store to take.
Probe(r) ==
    /\ AtHandler(r, {"ready"})
    /\ \E m \in (IF ollama = {} THEN {None} ELSE Normalized(ollama)) :
         model' = [model EXCEPT ![r] = m]
    /\ GoTo(r, "look")
    /\ UNCHANGED <<world, store, permits, code, obj, seen, before>>

-----------------------------------------------------------------------------
(* The store.                                                              *)

Name(r) == CollectionOf[kind[r]]

\* Mistake: __getitem__ replaces the object of a name it already has.
LookAnew(r) ==
    /\ pc[r] = "look"
    /\ IF backend = "mongo"
         THEN obj' = [obj EXCEPT ![r] = Mongo] /\ GoTo(r, "apply")
         ELSE UNCHANGED obj /\ GoTo(r, "create")
    /\ UNCHANGED <<world, store, permits, code, seen, model, before>>

\* __getitem__ of the in-memory database: is the name there?
Look(r) ==
    /\ pc[r] = "look"
    /\ IF backend = "mongo"
         THEN obj' = [obj EXCEPT ![r] = Mongo] /\ GoTo(r, "apply")
         ELSE /\ UNCHANGED obj
              /\ GoTo(r, IF home[Name(r)] = None THEN "create" ELSE "fetch")
    /\ UNCHANGED <<world, store, permits, code, seen, model, before>>

\* A new object takes the name, also from one made since the name was looked up.
Create(r) ==
    /\ pc[r] = "create"
    /\ home' = [home EXCEPT ![Name(r)] = r]
    /\ GoTo(r, "fetch")
    /\ UNCHANGED <<world, held, mongo, permits, code, obj, seen, model, before>>

Fetch(r) ==
    /\ pc[r] = "fetch"
    /\ obj' = [obj EXCEPT ![r] = home[Name(r)]]
    /\ GoTo(r, "apply")
    /\ UNCHANGED <<world, store, permits, code, seen, model, before>>

\* Mistake: the record returned is the one stored, with an id JSON has no form for.
StoredCodeShared(r) == IF kind[r] = "client" THEN 500 ELSE 200

\* The answer after an insert: a client's record is returned, and MongoDB has
\* put an _id in it that cannot be serialised; a probe says what it found.
StoredCode(r) ==
    IF kind[r] = "client" /\ obj[r] = Mongo THEN 500
    ELSE IF kind[r] = "ready" /\ (model[r] = None \/ ~settings.key) THEN 503 ELSE 200

\* insert_one: under the lock of the collection, or by MongoDB.
InsertOne(r) ==
    /\ pc[r] = "apply" /\ kind[r] \in Inserts
    /\ obj[r] = Mongo => mongoUp
    /\ IF obj[r] = Mongo
         THEN mongo' = [mongo EXCEPT ![Name(r)] = @ \union {r}] /\ UNCHANGED held
         ELSE held' = [held EXCEPT ![obj[r]] = @ \union {r}] /\ UNCHANGED mongo
    /\ Answer(r, StoredCode(r))
    /\ UNCHANGED <<world, home, permits, obj, seen, model, before>>

\* MongoDB does not answer, or its answer to an insert it made is lost.
MongoRaises(r) ==
    /\ pc[r] = "apply" /\ obj[r] = Mongo
    /\ \/ UNCHANGED mongo
       \/ mongoUp /\ kind[r] \in Inserts /\ mongo' = [mongo EXCEPT ![Name(r)] = @ \union {r}]
    /\ Answer(r, IF kind[r] = "ready" THEN 503 ELSE 500)
    /\ UNCHANGED <<world, home, held, permits, obj, seen, model, before>>

\* The documents a find returns.
Documents(r) == IF obj[r] = Mongo THEN mongo[Name(r)] ELSE held[obj[r]]

Find(r, kinds) ==
    /\ pc[r] = "apply" /\ kind[r] \in kinds
    /\ obj[r] = Mongo => mongoUp
    /\ seen' = [seen EXCEPT ![r] = Documents(r)]
    /\ UNCHANGED <<world, store, permits, obj, model, before>>

ListAudits(r) == Find(r, {"audits"}) /\ Answer(r, 200)

\* get_audit_pdf: by an id, which may be of no audit.
GetAuditPdf(r) ==
    /\ Find(r, {"pdf"})
    /\ \E a \in Requests : Answer(r, IF a \in Documents(r) THEN 200 ELSE 404)

\* The other lists are returned as they are; documents of MongoDB have an _id.
ListDocuments(r) ==
    /\ Find(r, {"installs", "clients", "posts"})
    /\ Answer(r, IF obj[r] = Mongo /\ Documents(r) # {} THEN 500 ELSE 200)

\* _embed gives equal vectors to equal texts, and they score alike.
SameScore(a, b) == Text[a] = Text[b]

\* Mistake: the scores alone are compared, so that a tie goes unnoticed.
TieUnseen(docs) == docs = Requests /\ docs = {}

\* Sorting pairs of a score and a dict compares two dicts when scores tie.
Tie(docs) == \E a, b \in docs : a # b /\ SameScore(a, b)

\* rag_query: rank all documents, then ask the model about the best.
RagQuery(r) ==
    /\ Find(r, {"query"})
    /\ IF Tie(Documents(r)) THEN Answer(r, 500)
       ELSE IF Documents(r) = {} THEN Answer(r, 200)
       ELSE GoTo(r, "models") /\ UNCHANGED code

-----------------------------------------------------------------------------
(* The model server, and the end of an audit.                              *)

\* list_models, whose names may be out of date when the chat is posted.
ListModels(r) ==
    /\ pc[r] = "models"
    /\ IF ollama = {} THEN Answer(r, 503) /\ UNCHANGED model
       ELSE /\ \E m \in Normalized(ollama) : model' = [model EXCEPT ![r] = m]
            /\ GoTo(r, "ask") /\ UNCHANGED code
    /\ UNCHANGED <<world, store, permits, obj, seen, before>>

\* _ollama_chat: a reply, a failed or refused or timed out post, or a body
\* that is no chat, which no handler catches.
OllamaChat(r) ==
    /\ pc[r] = "ask"
    /\ \E c \in {503} \union (IF model[r] \in ollama THEN {200, 500} ELSE {}) : Answer(r, c)
    /\ UNCHANGED <<world, store, permits, obj, seen, model, before>>

Release(r) ==
    /\ pc[r] = "release"
    /\ permits' = permits + 1
    /\ GoTo(r, "answered")
    /\ UNCHANGED <<world, store, code, obj, seen, model, before>>

Serve(r) ==
    \/ RunAudit(r) \/ AuditEnds(r) \/ AuditTimesOut(r) \/ Release(r)
    \/ InstallTool(r) \/ CreateClient(r) \/ QueueSocialPost(r) \/ RagEmbed(r) \/ OpenCollection(r)
    \/ DoveChat(r) \/ HolliChat(r) \/ MarketingCopy(r) \/ Probe(r)
    \/ Look(r) \/ Create(r) \/ Fetch(r) \/ InsertOne(r) \/ MongoRaises(r)
    \/ ListAudits(r) \/ GetAuditPdf(r) \/ ListDocuments(r) \/ RagQuery(r)
    \/ ListModels(r) \/ OllamaChat(r)

Next ==
    \/ Start \/ Crash \/ WorldChanges
    \/ \E r \in Requests : Reject(r) \/ Admit(r) \/ Serve(r)

Spec == Init /\ [][Next]_vars

\* A thread of the pool keeps running while its process lives.
FairSpec == Spec /\ \A r \in Requests : WF_vars(Serve(r))

-----------------------------------------------------------------------------
(* What must hold.                                                         *)

\* Every variable keeps its type; the semaphore is a bounded one, which
\* raises when it is released more often than acquired.
TypeOK ==
    /\ settings \in Settings /\ kind \in Plans
    /\ up \in BOOLEAN /\ backend \in {"mongo", "in-memory"}
    /\ home \in [Names -> Requests \union {None}]
    /\ held \in [Requests -> SUBSET Requests]
    /\ mongo \in [Names -> SUBSET Requests]
    /\ permits \in 0..Permits
    /\ mongoUp \in BOOLEAN /\ ollama \in SUBSET Models /\ faults \in Nat
    /\ pc \in [Requests -> Steps]
    /\ code \in [Requests -> Codes]
    /\ obj \in [Requests -> Stores]
    /\ seen \in [Requests -> SUBSET Requests]
    /\ model \in [Requests -> Models \union {None}]
    /\ before \in [Requests -> SUBSET Requests]
    /\ forgotten \in SUBSET Requests

\* Whatever way the audits end (server.py:300-308), the permits left and the
\* audits that hold one add up: no path of run_audit keeps or doubles one.
PermitsAddUp ==
    up => permits + Cardinality({r \in Requests : Holds(r)}) = Permits

\* The documents of r went to an object that a request made which was under
\* way when r was: db.py:73 looks a name up and line 74 sets it, without a lock.
Displaced(r, q) == obj[q] # obj[r] /\ r \notin before[obj[q]]

\* Whoever lists a collection finds every document whose insert was answered
\* before the list was asked for, from the same kind of store: only the race
\* of two first uses of a collection may hide one.
EarlierAnswersAreListed ==
    \A q, r \in Requests :
        /\ kind[q] \in Finds /\ code[q] = 200
        /\ r \in before[q] /\ Name(r) = Name(q)
        /\ (obj[r] = Mongo) = (obj[q] = Mongo)
        => r \in seen[q] \/ Displaced(r, q)

\* A caller told of an error may send its request again: no document of it is
\* in memory.  The probe answers 503 after its insert (server.py:212-225).
RefusedLeavesNothing ==
    \A r \in Requests :
        code[r] \notin {0, 200} /\ kind[r] # "ready" => \A o \in Requests : r \notin held[o]

\* THIRSTY_AI_REQUIRE_MONGO (db.py:153-166): what was answered is in MongoDB,
\* through crashes, restarts and outages.
RequiredIsDurable ==
    settings.requireMongo =>
        \A r \in Requests :
            kind[r] \in Inserts /\ code[r] = 200 => r \in mongo[Name(r)]

\* The same text embedded twice ends the queries: two documents tie, the sort
\* of server.py:553 compares them and raises, and nothing deletes a document.
TwinsEndQueries ==
    \A q, a, b \in Requests :
        /\ kind[q] = "query" /\ pc[q] = "answered" /\ obj[q] # None
        /\ {a, b} \subseteq before[q] /\ a # b /\ SameScore(a, b)
        /\ obj[a] = obj[q] /\ obj[b] = obj[q] /\ Name(a) = Name(q) /\ Name(b) = Name(q)
        => code[q] = 500

\* Every request that reaches its handler is answered, or lost with the process.
RequestsEnd ==
    \A r \in Requests : pc[r] = "handler" ~> pc[r] \in {"answered", "lost"}

=============================================================================
