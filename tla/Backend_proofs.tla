--------------------------- MODULE Backend_proofs ---------------------------
(***************************************************************************)
(* The safety properties of Backend, for any requests, permits, models and *)
(* environments, and any crashes and outages.  The steps of the handlers   *)
(* are first brought into nine shapes (StepHasShape); each invariant is    *)
(* then carried over a shape, a start, a crash and an outage.              *)
(***************************************************************************)
EXTENDS Backend, FiniteSetTheorems, TLAPS

-----------------------------------------------------------------------------
(* What is true of a request by the place it is at.                        *)

Ended == {"idle", "answered", "lost"}

PlaceInv(r) ==
    /\ pc[r] \in {"look", "create", "fetch", "apply"} => kind[r] \in Inserts \union Finds
    /\ pc[r] \in {"audit", "hung", "release"} => kind[r] = "audit"
    /\ pc[r] \in {"models", "ask"} => kind[r] \in Chats \union {"query"}
    /\ pc[r] = "fetch" => home[Name(r)] \in Requests
    /\ pc[r] = "apply" => obj[r] \in Requests \union {Mongo}
    /\ pc[r] \in {"idle", "handler", "audit", "hung", "look", "create", "fetch"} => obj[r] = None
    /\ pc[r] \notin {"release", "answered", "lost"} => code[r] = 0
    /\ obj[r] # None => kind[r] \in Inserts \union Finds
    /\ ~up => pc[r] \in Ended

\* The permit a request has, as a number.
Permit(r) == IF Holds(r) THEN 1 ELSE 0
Holders == {r \in Requests : Holds(r)}

\* Types, places and permits hold together: the types need the others.
BaseInv == TypeOK /\ PermitsAddUp /\ \A r \in Requests : PlaceInv(r)

-----------------------------------------------------------------------------
(* The shapes of a step of request r.                                      *)

Others(r) ==
    /\ \A q \in Requests \ {r} :
         /\ pc'[q] = pc[q] /\ code'[q] = code[q] /\ obj'[q] = obj[q]
         /\ seen'[q] = seen[q] /\ before'[q] = before[q]
    /\ permits' + Permit(r)' = permits + Permit(r)
    /\ UNCHANGED world

SameStore == UNCHANGED <<home, held, mongo>>

\* Goes from one of some places to one of others, and nothing else.
Moves(r, from, to) == pc[r] \in from /\ pc'[r] \in to
Keeps(r) == code'[r] = code[r] /\ obj'[r] = obj[r] /\ seen'[r] = seen[r]

Answers(r, codes) ==
    /\ pc'[r] \in {"release", "answered"} /\ code'[r] \in codes
    /\ pc'[r] = "release" => kind[r] = "audit"
Failures == Codes \ {0, 200}

Admission(r) ==
    /\ up /\ Moves(r, {"idle"}, {"handler"}) /\ Keeps(r) /\ SameStore
    /\ before'[r] = {i \in Requests : kind[i] \in Inserts /\ code[i] = 200
                                      /\ pc[i] = "answered" /\ i \notin forgotten}

Passage(r) ==
    /\ \/ Moves(r, {"handler"}, {"audit", "hung"}) /\ kind[r] = "audit"
       \/ Moves(r, {"handler", "audit", "hung"}, {"look"}) /\ kind[r] \in Inserts \union Finds
       \/ Moves(r, {"handler"}, {"models"}) /\ kind[r] \in Chats
       \/ Moves(r, {"look"}, {"create"}) /\ backend # "mongo" /\ home[Name(r)] = None
       \/ Moves(r, {"look"}, {"fetch"}) /\ backend # "mongo" /\ home[Name(r)] # None
       \/ Moves(r, {"models"}, {"ask"})
       \/ Moves(r, {"release"}, {"answered"})
    /\ Keeps(r) /\ before'[r] = before[r] /\ SameStore

\* An answer that no find or insert has gone before, or that MongoDB made fail.
Refusal(r) ==
    /\ up
    /\ pc[r] \in {"idle", "handler", "audit", "hung", "models", "ask", "apply"}
    /\ \/ Answers(r, Failures)
       \/ Answers(r, {200}) /\ pc[r] = "ask"
    /\ pc[r] = "apply" /\ kind[r] # "ready" => code'[r] = 500
    /\ obj'[r] = obj[r] /\ seen'[r] = seen[r] /\ before'[r] = before[r]
    /\ UNCHANGED <<home, held>>
    /\ \A n \in Names : mongo[n] \subseteq mongo'[n]

Binding(r) ==
    /\ \/ Moves(r, {"look"}, {"apply"}) /\ backend = "mongo" /\ obj'[r] = Mongo
       \/ Moves(r, {"fetch"}, {"apply"}) /\ obj'[r] = home[Name(r)]
    /\ code'[r] = code[r] /\ seen'[r] = seen[r] /\ before'[r] = before[r] /\ SameStore

Creation(r) ==
    /\ Moves(r, {"create"}, {"fetch"})
    /\ home' = [home EXCEPT ![Name(r)] = r]
    /\ Keeps(r) /\ before'[r] = before[r] /\ UNCHANGED <<held, mongo>>

Insertion(r) ==
    /\ pc[r] = "apply" /\ kind[r] \in Inserts
    /\ Answers(r, {StoredCode(r)})
    /\ obj'[r] = obj[r] /\ seen'[r] = seen[r] /\ before'[r] = before[r]
    /\ UNCHANGED home
    /\ IF obj[r] = Mongo
         THEN mongo' = [mongo EXCEPT ![Name(r)] = @ \union {r}] /\ UNCHANGED held
         ELSE held' = [held EXCEPT ![obj[r]] = @ \union {r}] /\ UNCHANGED mongo

Finding(r) ==
    /\ pc[r] = "apply" /\ kind[r] \in Finds
    /\ seen'[r] = Documents(r)
    /\ \/ pc'[r] = "answered" /\ code'[r] \in Codes \ {0}
       \/ kind[r] = "query" /\ pc'[r] = "models" /\ code'[r] = code[r]
    /\ kind[r] = "query" /\ Tie(Documents(r)) => code'[r] = 500
    /\ obj'[r] = obj[r] /\ before'[r] = before[r] /\ SameStore

Shape(r) == Others(r) /\ (Admission(r) \/ Passage(r) \/ Refusal(r) \/ Binding(r)
                          \/ Creation(r) \/ Insertion(r) \/ Finding(r))

-----------------------------------------------------------------------------
(* The names of collections.                                               *)

\* Each handler that uses the store uses a collection some handler inserts into.
LEMMA NamesOfKinds ==
    \A k \in Inserts \union Finds : CollectionOf[k] \in Names
<1>1. CollectionOf["audits"] = CollectionOf["audit"] /\ CollectionOf["pdf"] = CollectionOf["audit"]
      /\ CollectionOf["installs"] = CollectionOf["install"] /\ CollectionOf["clients"] = CollectionOf["client"]
      /\ CollectionOf["posts"] = CollectionOf["post"] /\ CollectionOf["query"] = CollectionOf["embed"]
  BY DEF CollectionOf, Inserts, Finds
<1>2. \A k \in Inserts : CollectionOf[k] \in Names
  BY DEF Names
<1>3. {"audit", "install", "client", "post", "embed", "ready"} \subseteq Inserts
  BY DEF Inserts
<1> QED BY <1>1, <1>2, <1>3 DEF Finds

\* The name of a request that uses the store.
LEMMA NameType ==
    ASSUME TypeOK, NEW r \in Requests, kind[r] \in Inserts \union Finds
    PROVE  Name(r) \in Names
BY NamesOfKinds DEF Name

-----------------------------------------------------------------------------
(* Every step of a handler has a shape and keeps the types.                *)

\* Names of the parts of TypeOK a step of a request touches.
RequestTypes ==
    /\ home \in [Names -> Requests \union {None}]
    /\ held \in [Requests -> SUBSET Requests]
    /\ mongo \in [Names -> SUBSET Requests]
    /\ permits \in 0..Permits
    /\ pc \in [Requests -> Steps]
    /\ code \in [Requests -> Codes]
    /\ obj \in [Requests -> Stores]
    /\ seen \in [Requests -> SUBSET Requests]
    /\ model \in [Requests -> Models \union {None}]
    /\ before \in [Requests -> SUBSET Requests]

\* A permit that is held is one of those there are.
LEMMA PermitsLeft ==
    ASSUME BaseInv, up
    PROVE  \A r \in Requests : Holds(r) => permits + 1 \in 0..Permits
<1> SUFFICES ASSUME NEW r \in Requests, Holds(r) PROVE permits + 1 \in 0..Permits
  OBVIOUS
<1>1. IsFiniteSet(Holders) /\ Cardinality(Holders) \in Nat
  BY RequestsAssumption, FS_Subset, FS_CardinalityType DEF Holders
<1>2. Cardinality(Holders) # 0
  BY <1>1, FS_EmptySet DEF Holders
<1>3. permits + Cardinality(Holders) = Permits /\ permits \in Nat
  BY PermitsAssumption DEF BaseInv, PermitsAddUp, TypeOK, Holders
<1> QED BY <1>1, <1>2, <1>3, PermitsAssumption

\* What each step may take for granted of its request.
LEMMA RequestFacts ==
    ASSUME BaseInv, NEW r \in Requests
    PROVE  /\ RequestTypes /\ PlaceInv(r) /\ kind[r] \in Kinds /\ ollama \subseteq Models
           /\ (kind[r] \in Inserts \union Finds => Name(r) \in Names)
           /\ (Holds(r) => up /\ permits + 1 \in 0..Permits)
           /\ settings.key \in BOOLEAN /\ None \notin Requests /\ Mongo \notin Requests /\ Mongo # None
<1>1. TypeOK /\ PlaceInv(r)
  BY DEF BaseInv
<1>2. RequestTypes
  BY <1>1 DEF TypeOK, RequestTypes
<1>3. kind[r] \in Kinds /\ ollama \subseteq Models /\ settings.key \in BOOLEAN
  BY <1>1, PlansAssumption, SettingsAssumption DEF TypeOK
<1>4. kind[r] \in Inserts \union Finds => Name(r) \in Names
  BY <1>1, NameType
<1>5. Holds(r) => up
  BY <1>1 DEF PlaceInv, Holds, Ended
<1> QED BY <1>1, <1>2, <1>3, <1>4, <1>5, PermitsLeft, StoresAssumption

\* A refused request has made nothing.
LEMMA RejectShape ==
    ASSUME BaseInv, NEW r \in Requests, Reject(r)
    PROVE  Shape(r) /\ RequestTypes'
<1>1. Others(r)
  BY RequestFacts DEF Reject, SizeCodes, BearerCodes, Answer, RequestTypes, PlaceInv, Others, Permit, Holds, GoTo, world, Answers, Failures, Codes
<1>2. Refusal(r)
  BY RequestFacts DEF Reject, SizeCodes, BearerCodes, Answer, Refusal, RequestTypes, PlaceInv, Holds, GoTo, Keeps, SameStore, Moves, world, store, Ended, Answers, Failures, Codes
<1>3. RequestTypes'
  BY RequestFacts, PermitsAssumption DEF Reject, SizeCodes, BearerCodes, Answer, RequestTypes, PlaceInv, Holds, GoTo, world, store, Steps, Stores, Answers, Failures, Codes
<1> QED BY <1>1, <1>2, <1>3 DEF Shape

\* Admission starts a request with what was answered before.
LEMMA AdmitShape ==
    ASSUME BaseInv, NEW r \in Requests, Admit(r)
    PROVE  Shape(r) /\ RequestTypes'
<1>1. Others(r)
  BY RequestFacts DEF Admit, RequestTypes, PlaceInv, Others, Permit, Holds, GoTo, world
<1>2. Admission(r)
  BY RequestFacts DEF Admit, Admission, RequestTypes, PlaceInv, Holds, GoTo, Keeps, SameStore, Moves, world, store, Ended
<1>3. RequestTypes'
  BY RequestFacts, PermitsAssumption DEF Admit, RequestTypes, PlaceInv, Holds, GoTo, world, store, Steps, Stores
<1> QED BY <1>1, <1>2, <1>3 DEF Shape

\* An audit gets a permit or 429.
LEMMA RunAuditShape ==
    ASSUME BaseInv, NEW r \in Requests, RunAudit(r)
    PROVE  Shape(r) /\ RequestTypes'
<1>1. Others(r)
  BY RequestFacts DEF RunAudit, AtHandler, Answer, RequestTypes, PlaceInv, Others, Permit, Holds, GoTo, world, Answers, Failures, Codes
<1>2. Refusal(r) \/ Passage(r)
  BY RequestFacts DEF RunAudit, AtHandler, Answer, Refusal, Passage, RequestTypes, PlaceInv, Holds, GoTo, Keeps, SameStore, Moves, world, store, Ended, Answers, Failures, Codes
<1>3. RequestTypes'
  BY RequestFacts, PermitsAssumption DEF RunAudit, AtHandler, Answer, RequestTypes, PlaceInv, Holds, GoTo, world, store, Steps, Stores, Answers, Failures, Codes
<1> QED BY <1>1, <1>2, <1>3 DEF Shape

\* An audit that ended goes on to its record, or fails to render.
LEMMA AuditEndsShape ==
    ASSUME BaseInv, NEW r \in Requests, AuditEnds(r)
    PROVE  Shape(r) /\ RequestTypes'
<1>1. Others(r)
  BY RequestFacts DEF AuditEnds, Render, Answer, RequestTypes, PlaceInv, Others, Permit, Holds, GoTo, world, Answers, Failures, Codes, Inserts
<1>2. Refusal(r) \/ Passage(r)
  BY RequestFacts DEF AuditEnds, Render, Answer, Refusal, Passage, RequestTypes, PlaceInv, Holds, GoTo, Keeps, SameStore, Moves, world, store, Ended, Answers, Failures, Codes, Inserts
<1>3. RequestTypes'
  BY RequestFacts, PermitsAssumption DEF AuditEnds, Render, Answer, RequestTypes, PlaceInv, Holds, GoTo, world, store, Steps, Stores, Answers, Failures, Codes, Inserts
<1> QED BY <1>1, <1>2, <1>3 DEF Shape

\* So does one that was killed.
LEMMA AuditTimesOutShape ==
    ASSUME BaseInv, NEW r \in Requests, AuditTimesOut(r)
    PROVE  Shape(r) /\ RequestTypes'
<1>1. Others(r)
  BY RequestFacts DEF AuditTimesOut, Render, Answer, RequestTypes, PlaceInv, Others, Permit, Holds, GoTo, world, Answers, Failures, Codes, Inserts
<1>2. Refusal(r) \/ Passage(r)
  BY RequestFacts DEF AuditTimesOut, Render, Answer, Refusal, Passage, RequestTypes, PlaceInv, Holds, GoTo, Keeps, SameStore, Moves, world, store, Ended, Answers, Failures, Codes, Inserts
<1>3. RequestTypes'
  BY RequestFacts, PermitsAssumption DEF AuditTimesOut, Render, Answer, RequestTypes, PlaceInv, Holds, GoTo, world, store, Steps, Stores, Answers, Failures, Codes, Inserts
<1> QED BY <1>1, <1>2, <1>3 DEF Shape

\* An install goes to the store, or ends with 404.
LEMMA InstallToolShape ==
    ASSUME BaseInv, NEW r \in Requests, InstallTool(r)
    PROVE  Shape(r) /\ RequestTypes'
<1>1. Others(r)
  BY RequestFacts DEF InstallTool, AtHandler, Answer, RequestTypes, PlaceInv, Others, Permit, Holds, GoTo, world, Answers, Failures, Codes, Inserts
<1>2. Refusal(r) \/ Passage(r)
  BY RequestFacts DEF InstallTool, AtHandler, Answer, Refusal, Passage, RequestTypes, PlaceInv, Holds, GoTo, Keeps, SameStore, Moves, world, store, Ended, Answers, Failures, Codes, Inserts
<1>3. RequestTypes'
  BY RequestFacts, PermitsAssumption DEF InstallTool, AtHandler, Answer, RequestTypes, PlaceInv, Holds, GoTo, world, store, Steps, Stores, Answers, Failures, Codes, Inserts
<1> QED BY <1>1, <1>2, <1>3 DEF Shape

\* A client goes to the store.
LEMMA CreateClientShape ==
    ASSUME BaseInv, NEW r \in Requests, CreateClient(r)
    PROVE  Shape(r) /\ RequestTypes'
<1>1. Others(r)
  BY RequestFacts DEF CreateClient, GoOn, AtHandler, RequestTypes, PlaceInv, Others, Permit, Holds, GoTo, world, Inserts
<1>2. Passage(r)
  BY RequestFacts DEF CreateClient, GoOn, AtHandler, Passage, RequestTypes, PlaceInv, Holds, GoTo, Keeps, SameStore, Moves, world, store, Ended, Inserts
<1>3. RequestTypes'
  BY RequestFacts, PermitsAssumption DEF CreateClient, GoOn, AtHandler, RequestTypes, PlaceInv, Holds, GoTo, world, store, Steps, Stores, Inserts
<1> QED BY <1>1, <1>2, <1>3 DEF Shape

\* A post goes to the store.
LEMMA QueueSocialPostShape ==
    ASSUME BaseInv, NEW r \in Requests, QueueSocialPost(r)
    PROVE  Shape(r) /\ RequestTypes'
<1>1. Others(r)
  BY RequestFacts DEF QueueSocialPost, GoOn, AtHandler, RequestTypes, PlaceInv, Others, Permit, Holds, GoTo, world, Inserts
<1>2. Passage(r)
  BY RequestFacts DEF QueueSocialPost, GoOn, AtHandler, Passage, RequestTypes, PlaceInv, Holds, GoTo, Keeps, SameStore, Moves, world, store, Ended, Inserts
<1>3. RequestTypes'
  BY RequestFacts, PermitsAssumption DEF QueueSocialPost, GoOn, AtHandler, RequestTypes, PlaceInv, Holds, GoTo, world, store, Steps, Stores, Inserts
<1> QED BY <1>1, <1>2, <1>3 DEF Shape

\* A text goes to the store.
LEMMA RagEmbedShape ==
    ASSUME BaseInv, NEW r \in Requests, RagEmbed(r)
    PROVE  Shape(r) /\ RequestTypes'
<1>1. Others(r)
  BY RequestFacts DEF RagEmbed, GoOn, AtHandler, RequestTypes, PlaceInv, Others, Permit, Holds, GoTo, world, Inserts
<1>2. Passage(r)
  BY RequestFacts DEF RagEmbed, GoOn, AtHandler, Passage, RequestTypes, PlaceInv, Holds, GoTo, Keeps, SameStore, Moves, world, store, Ended, Inserts
<1>3. RequestTypes'
  BY RequestFacts, PermitsAssumption DEF RagEmbed, GoOn, AtHandler, RequestTypes, PlaceInv, Holds, GoTo, world, store, Steps, Stores, Inserts
<1> QED BY <1>1, <1>2, <1>3 DEF Shape

\* A list goes to the store.
LEMMA OpenCollectionShape ==
    ASSUME BaseInv, NEW r \in Requests, OpenCollection(r)
    PROVE  Shape(r) /\ RequestTypes'
<1>1. Others(r)
  BY RequestFacts DEF OpenCollection, GoOn, AtHandler, RequestTypes, PlaceInv, Others, Permit, Holds, GoTo, world, Finds
<1>2. Passage(r)
  BY RequestFacts DEF OpenCollection, GoOn, AtHandler, Passage, RequestTypes, PlaceInv, Holds, GoTo, Keeps, SameStore, Moves, world, store, Ended, Finds
<1>3. RequestTypes'
  BY RequestFacts, PermitsAssumption DEF OpenCollection, GoOn, AtHandler, RequestTypes, PlaceInv, Holds, GoTo, world, store, Steps, Stores, Finds
<1> QED BY <1>1, <1>2, <1>3 DEF Shape

\* Dove goes to the model.
LEMMA DoveChatShape ==
    ASSUME BaseInv, NEW r \in Requests, DoveChat(r)
    PROVE  Shape(r) /\ RequestTypes'
<1>1. Others(r)
  BY RequestFacts DEF DoveChat, GoOn, AtHandler, RequestTypes, PlaceInv, Others, Permit, Holds, GoTo, world, Chats
<1>2. Passage(r)
  BY RequestFacts DEF DoveChat, GoOn, AtHandler, Passage, RequestTypes, PlaceInv, Holds, GoTo, Keeps, SameStore, Moves, world, store, Ended, Chats
<1>3. RequestTypes'
  BY RequestFacts, PermitsAssumption DEF DoveChat, GoOn, AtHandler, RequestTypes, PlaceInv, Holds, GoTo, world, store, Steps, Stores, Chats
<1> QED BY <1>1, <1>2, <1>3 DEF Shape

\* Holli goes to the model.
LEMMA HolliChatShape ==
    ASSUME BaseInv, NEW r \in Requests, HolliChat(r)
    PROVE  Shape(r) /\ RequestTypes'
<1>1. Others(r)
  BY RequestFacts DEF HolliChat, GoOn, AtHandler, RequestTypes, PlaceInv, Others, Permit, Holds, GoTo, world, Chats
<1>2. Passage(r)
  BY RequestFacts DEF HolliChat, GoOn, AtHandler, Passage, RequestTypes, PlaceInv, Holds, GoTo, Keeps, SameStore, Moves, world, store, Ended, Chats
<1>3. RequestTypes'
  BY RequestFacts, PermitsAssumption DEF HolliChat, GoOn, AtHandler, RequestTypes, PlaceInv, Holds, GoTo, world, store, Steps, Stores, Chats
<1> QED BY <1>1, <1>2, <1>3 DEF Shape

\* The marketing copy goes to the model.
LEMMA MarketingCopyShape ==
    ASSUME BaseInv, NEW r \in Requests, MarketingCopy(r)
    PROVE  Shape(r) /\ RequestTypes'
<1>1. Others(r)
  BY RequestFacts DEF MarketingCopy, GoOn, AtHandler, RequestTypes, PlaceInv, Others, Permit, Holds, GoTo, world, Chats
<1>2. Passage(r)
  BY RequestFacts DEF MarketingCopy, GoOn, AtHandler, Passage, RequestTypes, PlaceInv, Holds, GoTo, Keeps, SameStore, Moves, world, store, Ended, Chats
<1>3. RequestTypes'
  BY RequestFacts, PermitsAssumption DEF MarketingCopy, GoOn, AtHandler, RequestTypes, PlaceInv, Holds, GoTo, world, store, Steps, Stores, Chats
<1> QED BY <1>1, <1>2, <1>3 DEF Shape

\* The probe goes to the store, whatever the model server says.
LEMMA ProbeShape ==
    ASSUME BaseInv, NEW r \in Requests, Probe(r)
    PROVE  Shape(r) /\ RequestTypes'
<1>1. Others(r)
  BY RequestFacts DEF Probe, AtHandler, Normalized, RequestTypes, PlaceInv, Others, Permit, Holds, GoTo, world, Inserts
<1>2. Passage(r)
  BY RequestFacts DEF Probe, AtHandler, Normalized, Passage, RequestTypes, PlaceInv, Holds, GoTo, Keeps, SameStore, Moves, world, store, Ended, Inserts
<1>3. RequestTypes'
  BY RequestFacts, PermitsAssumption DEF Probe, AtHandler, Normalized, RequestTypes, PlaceInv, Holds, GoTo, world, store, Steps, Stores, Inserts
<1> QED BY <1>1, <1>2, <1>3 DEF Shape

\* A name is found or not, or MongoDB is used.
LEMMA LookShape ==
    ASSUME BaseInv, NEW r \in Requests, Look(r)
    PROVE  Shape(r) /\ RequestTypes'
<1>1. Others(r)
  BY RequestFacts DEF Look, RequestTypes, PlaceInv, Others, Permit, Holds, GoTo, world
<1>2. Binding(r) \/ Passage(r)
  BY RequestFacts DEF Look, Binding, Passage, RequestTypes, PlaceInv, Holds, GoTo, Keeps, SameStore, Moves, world, store, Ended
<1>3. RequestTypes'
  BY RequestFacts, PermitsAssumption DEF Look, RequestTypes, PlaceInv, Holds, GoTo, world, store, Steps, Stores
<1> QED BY <1>1, <1>2, <1>3 DEF Shape

\* A new object takes the name.
LEMMA CreateShape ==
    ASSUME BaseInv, NEW r \in Requests, Create(r)
    PROVE  Shape(r) /\ RequestTypes'
<1>1. Others(r)
  BY RequestFacts DEF Create, RequestTypes, PlaceInv, Others, Permit, Holds, GoTo, world
<1>2. Creation(r)
  BY RequestFacts DEF Create, Creation, RequestTypes, PlaceInv, Holds, GoTo, Keeps, SameStore, Moves, world, store, Ended
<1>3. RequestTypes'
  BY RequestFacts, PermitsAssumption DEF Create, RequestTypes, PlaceInv, Holds, GoTo, world, store, Steps, Stores
<1> QED BY <1>1, <1>2, <1>3 DEF Shape

\* A request takes the object of the name.
LEMMA FetchShape ==
    ASSUME BaseInv, NEW r \in Requests, Fetch(r)
    PROVE  Shape(r) /\ RequestTypes'
<1>1. Others(r)
  BY RequestFacts DEF Fetch, RequestTypes, PlaceInv, Others, Permit, Holds, GoTo, world
<1>2. Binding(r)
  BY RequestFacts DEF Fetch, Binding, RequestTypes, PlaceInv, Holds, GoTo, Keeps, SameStore, Moves, world, store, Ended
<1>3. RequestTypes'
  BY RequestFacts, PermitsAssumption DEF Fetch, RequestTypes, PlaceInv, Holds, GoTo, world, store, Steps, Stores
<1> QED BY <1>1, <1>2, <1>3 DEF Shape

\* An insert adds its document and answers.
LEMMA InsertOneShape ==
    ASSUME BaseInv, NEW r \in Requests, InsertOne(r)
    PROVE  Shape(r) /\ RequestTypes'
<1>1. Others(r)
  BY RequestFacts DEF InsertOne, Answer, RequestTypes, PlaceInv, Others, Permit, Holds, GoTo, world, Answers
<1>2. Insertion(r)
  BY RequestFacts DEF InsertOne, Answer, Insertion, RequestTypes, PlaceInv, Holds, GoTo, Keeps, SameStore, Moves, world, store, Ended, Answers
<1>3. RequestTypes'
  BY RequestFacts, PermitsAssumption DEF InsertOne, Answer, RequestTypes, PlaceInv, Holds, GoTo, world, store, Steps, Stores, Answers, StoredCode, Codes
<1> QED BY <1>1, <1>2, <1>3 DEF Shape

\* MongoDB's failure is answered as one.
LEMMA MongoRaisesShape ==
    ASSUME BaseInv, NEW r \in Requests, MongoRaises(r)
    PROVE  Shape(r) /\ RequestTypes'
<1>1. Others(r)
  BY RequestFacts DEF MongoRaises, Answer, RequestTypes, PlaceInv, Others, Permit, Holds, GoTo, world, Answers, Failures, Codes
<1>2. Refusal(r)
  BY RequestFacts DEF MongoRaises, Answer, Refusal, RequestTypes, PlaceInv, Holds, GoTo, Keeps, SameStore, Moves, world, store, Ended, Answers, Failures, Codes
<1>3. RequestTypes'
  BY RequestFacts, PermitsAssumption DEF MongoRaises, Answer, RequestTypes, PlaceInv, Holds, GoTo, world, store, Steps, Stores, Answers, Failures, Codes
<1> QED BY <1>1, <1>2, <1>3 DEF Shape

\* The audits are listed.
LEMMA ListAuditsShape ==
    ASSUME BaseInv, NEW r \in Requests, ListAudits(r)
    PROVE  Shape(r) /\ RequestTypes'
<1>1. Others(r)
  BY RequestFacts DEF ListAudits, Find, Answer, RequestTypes, PlaceInv, Others, Permit, Holds, GoTo, world, Finds, Codes
<1>2. Finding(r)
  BY RequestFacts DEF ListAudits, Find, Answer, Finding, RequestTypes, PlaceInv, Holds, GoTo, Keeps, SameStore, Moves, world, store, Ended, Finds, Codes
<1>3. RequestTypes'
  BY RequestFacts, PermitsAssumption DEF ListAudits, Find, Answer, RequestTypes, PlaceInv, Holds, GoTo, world, store, Steps, Stores, Finds, Codes, Documents
<1> QED BY <1>1, <1>2, <1>3 DEF Shape

\* One audit is looked for.
LEMMA GetAuditPdfShape ==
    ASSUME BaseInv, NEW r \in Requests, GetAuditPdf(r)
    PROVE  Shape(r) /\ RequestTypes'
<1>1. Others(r)
  BY RequestFacts DEF GetAuditPdf, Find, Answer, RequestTypes, PlaceInv, Others, Permit, Holds, GoTo, world, Finds, Codes
<1>2. Finding(r)
  BY RequestFacts DEF GetAuditPdf, Find, Answer, Finding, RequestTypes, PlaceInv, Holds, GoTo, Keeps, SameStore, Moves, world, store, Ended, Finds, Codes
<1>3. RequestTypes'
  BY RequestFacts, PermitsAssumption DEF GetAuditPdf, Find, Answer, RequestTypes, PlaceInv, Holds, GoTo, world, store, Steps, Stores, Finds, Codes, Documents
<1> QED BY <1>1, <1>2, <1>3 DEF Shape

\* A list is returned.
LEMMA ListDocumentsShape ==
    ASSUME BaseInv, NEW r \in Requests, ListDocuments(r)
    PROVE  Shape(r) /\ RequestTypes'
<1>1. Others(r)
  BY RequestFacts DEF ListDocuments, Find, Answer, RequestTypes, PlaceInv, Others, Permit, Holds, GoTo, world, Finds, Codes
<1>2. Finding(r)
  BY RequestFacts DEF ListDocuments, Find, Answer, Finding, RequestTypes, PlaceInv, Holds, GoTo, Keeps, SameStore, Moves, world, store, Ended, Finds, Codes
<1>3. RequestTypes'
  BY RequestFacts, PermitsAssumption DEF ListDocuments, Find, Answer, RequestTypes, PlaceInv, Holds, GoTo, world, store, Steps, Stores, Finds, Codes, Documents
<1> QED BY <1>1, <1>2, <1>3 DEF Shape

\* A query sorts what it found, or ends with 500.
LEMMA RagQueryShape ==
    ASSUME BaseInv, NEW r \in Requests, RagQuery(r)
    PROVE  Shape(r) /\ RequestTypes'
<1>1. Others(r)
  BY RequestFacts DEF RagQuery, Find, Answer, RequestTypes, PlaceInv, Others, Permit, Holds, GoTo, world, Finds, Codes
<1>2. Finding(r)
  BY RequestFacts DEF RagQuery, Find, Answer, Finding, RequestTypes, PlaceInv, Holds, GoTo, Keeps, SameStore, Moves, world, store, Ended, Finds, Codes
<1>3. RequestTypes'
  BY RequestFacts, PermitsAssumption DEF RagQuery, Find, Answer, RequestTypes, PlaceInv, Holds, GoTo, world, store, Steps, Stores, Finds, Codes, Documents
<1> QED BY <1>1, <1>2, <1>3 DEF Shape

\* A model is chosen, or there is none.
LEMMA ListModelsShape ==
    ASSUME BaseInv, NEW r \in Requests, ListModels(r)
    PROVE  Shape(r) /\ RequestTypes'
<1>1. Others(r)
  BY RequestFacts DEF ListModels, Normalized, Answer, RequestTypes, PlaceInv, Others, Permit, Holds, GoTo, world, Answers, Failures, Codes
<1>2. Refusal(r) \/ Passage(r)
  BY RequestFacts DEF ListModels, Normalized, Answer, Refusal, Passage, RequestTypes, PlaceInv, Holds, GoTo, Keeps, SameStore, Moves, world, store, Ended, Answers, Failures, Codes
<1>3. RequestTypes'
  BY RequestFacts, PermitsAssumption DEF ListModels, Normalized, Answer, RequestTypes, PlaceInv, Holds, GoTo, world, store, Steps, Stores, Answers, Failures, Codes
<1> QED BY <1>1, <1>2, <1>3 DEF Shape

\* The model answers, or fails.
LEMMA OllamaChatShape ==
    ASSUME BaseInv, NEW r \in Requests, OllamaChat(r)
    PROVE  Shape(r) /\ RequestTypes'
<1>1. Others(r)
  BY RequestFacts DEF OllamaChat, Answer, RequestTypes, PlaceInv, Others, Permit, Holds, GoTo, world, Answers, Failures, Codes
<1>2. Refusal(r)
  BY RequestFacts DEF OllamaChat, Answer, Refusal, RequestTypes, PlaceInv, Holds, GoTo, Keeps, SameStore, Moves, world, store, Ended, Answers, Failures, Codes
<1>3. RequestTypes'
  BY RequestFacts, PermitsAssumption DEF OllamaChat, Answer, RequestTypes, PlaceInv, Holds, GoTo, world, store, Steps, Stores, Answers, Failures, Codes
<1> QED BY <1>1, <1>2, <1>3 DEF Shape

\* The permit of an audit comes back.
LEMMA ReleaseShape ==
    ASSUME BaseInv, NEW r \in Requests, Release(r)
    PROVE  Shape(r) /\ RequestTypes'
<1>1. Others(r)
  BY RequestFacts DEF Release, RequestTypes, PlaceInv, Others, Permit, Holds, GoTo, world
<1>2. Passage(r)
  BY RequestFacts DEF Release, Passage, RequestTypes, PlaceInv, Holds, GoTo, Keeps, SameStore, Moves, world, store, Ended
<1>3. RequestTypes'
  BY RequestFacts, PermitsAssumption DEF Release, RequestTypes, PlaceInv, Holds, GoTo, world, store, Steps, Stores
<1> QED BY <1>1, <1>2, <1>3 DEF Shape

-----------------------------------------------------------------------------
(* The types, the places and the permits.                                  *)

\* A step of Next is one of the shapes, or of the world.
LEMMA StepHasShape ==
    ASSUME BaseInv, Next
    PROVE  \/ Start \/ Crash \/ WorldChanges
           \/ \E r \in Requests : Shape(r) /\ RequestTypes'
BY RejectShape, AdmitShape, RunAuditShape, AuditEndsShape, AuditTimesOutShape, InstallToolShape,
   CreateClientShape, QueueSocialPostShape, RagEmbedShape, OpenCollectionShape, DoveChatShape,
   HolliChatShape, MarketingCopyShape, ProbeShape, LookShape, CreateShape, FetchShape,
   InsertOneShape, MongoRaisesShape, ListAuditsShape, GetAuditPdfShape, ListDocumentsShape,
   RagQueryShape, ListModelsShape, OllamaChatShape, ReleaseShape
   DEF Next, Serve

\* What no step of a request undoes.
Stable(r) ==
    /\ pc[r] \notin {"answered", "lost"}
    /\ \A q \in Requests : pc[q] # "idle" => before'[q] = before[q]
    /\ \A q \in Requests : obj[q] # None => obj'[q] = obj[q]
    /\ \A n \in Names : (home[n] # None => home'[n] # None) /\ mongo[n] \subseteq mongo'[n]
    /\ \A o \in Requests : held[o] \subseteq held'[o]
    /\ \A q \in Requests : Name(q)' = Name(q)

\* What a shape never undoes.
LEMMA ShapeIsStable ==
    ASSUME BaseInv, NEW r \in Requests, Shape(r)
    PROVE  Stable(r)
<1>1. /\ pc[r] \notin {"answered", "lost"}
      /\ pc[r] # "idle" => before'[r] = before[r]
      /\ obj[r] # None => obj'[r] = obj[r]
  BY DEF BaseInv, PlaceInv, Shape, Admission, Passage, Refusal, Binding, Creation, Insertion,
         Finding, Moves, Keeps
<1>2. RequestTypes /\ PlaceInv(r) /\ None \notin Requests
      /\ (kind[r] \in Inserts \union Finds => Name(r) \in Names)
  BY RequestFacts
<1>3. ASSUME NEW n \in Names
      PROVE  (home[n] # None => home'[n] # None) /\ mongo[n] \subseteq mongo'[n]
  BY <1>2 DEF Shape, Admission, Passage, Refusal, Binding, Creation, Insertion, Finding,
              SameStore, RequestTypes
<1>4. ASSUME NEW o \in Requests
      PROVE  held[o] \subseteq held'[o]
  BY <1>2 DEF Shape, Admission, Passage, Refusal, Binding, Creation, Insertion, Finding,
              SameStore, RequestTypes
<1>5. \A q \in Requests : Name(q)' = Name(q)
  BY DEF Name, Shape, Others, world
<1> QED BY <1>1, <1>3, <1>4, <1>5 DEF Stable, Shape, Others

\* The number of holders, with one request set apart.
LEMMA HoldersApart ==
    ASSUME NEW H, IsFiniteSet(H), NEW r
    PROVE  /\ Cardinality(H) \in Nat /\ Cardinality(H \ {r}) \in Nat
           /\ Cardinality(H) = Cardinality(H \ {r}) + (IF r \in H THEN 1 ELSE 0)
<1>1. Cardinality(H) \in Nat /\ IsFiniteSet(H \ {r}) /\ Cardinality(H \ {r}) \in Nat
  BY FS_Subset, FS_CardinalityType
<1>2. r \in H => Cardinality(H \ {r}) = Cardinality(H) - 1
  BY FS_RemoveElement
<1>3. r \notin H => H \ {r} = H
  OBVIOUS
<1> QED BY <1>1, <1>2, <1>3

\* A shape keeps the sum of permits and holders.
LEMMA PermitsKept ==
    ASSUME BaseInv, NEW r \in Requests, Shape(r), RequestTypes'
    PROVE  PermitsAddUp'
<1>1. IsFiniteSet(Holders) /\ IsFiniteSet(Holders')
  BY RequestsAssumption, FS_Subset DEF Holders
<1>2. Holders' \ {r} = Holders \ {r}
  BY DEF Holders, Holds, Shape, Others, world
<1>3. /\ Permit(r) = IF r \in Holders THEN 1 ELSE 0
      /\ Permit(r)' = IF r \in Holders' THEN 1 ELSE 0
  BY DEF Permit, Holders
<1>4. /\ permits' + Permit(r)' = permits + Permit(r)
      /\ permits \in Nat /\ permits' \in Nat /\ up' = up
  BY PermitsAssumption DEF Shape, Others, world, BaseInv, TypeOK, RequestTypes
<1>5. up => permits + Cardinality(Holders) = Permits
  BY DEF BaseInv, PermitsAddUp, Holders
<1>6. up' => permits' + Cardinality(Holders') = Permits
  <2> DEFINE a == Cardinality(Holders)  b == Cardinality(Holders')  c == Cardinality(Holders \ {r})
  <2>1. a \in Nat /\ b \in Nat /\ c \in Nat /\ a = c + Permit(r) /\ b = c + Permit(r)'
    BY <1>1, <1>2, <1>3, HoldersApart
  <2>2. Permit(r) \in Nat /\ Permit(r)' \in Nat
    BY <1>3
  <2> HIDE DEF a, b, c
  <2>3. (up => permits + a = Permits) => (up' => permits' + b = Permits)
    BY <1>4, <2>1, <2>2, PermitsAssumption
  <2> QED BY <1>5, <2>3 DEF a, b
<1> QED BY <1>6 DEF PermitsAddUp, Holders

\* A shape leaves every request where its place allows.
LEMMA PlacesKept ==
    ASSUME BaseInv, NEW r \in Requests, Shape(r), RequestTypes', NEW q \in Requests
    PROVE  PlaceInv(q)'
<1>1. PlaceInv(q) /\ PlaceInv(r) /\ RequestTypes /\ kind[r] \in Kinds
      /\ (kind[q] \in Inserts \union Finds => Name(q) \in Names)
      /\ (kind[r] \in Inserts \union Finds => Name(r) \in Names)
      /\ None \notin Requests /\ Mongo # None
  BY RequestFacts DEF BaseInv
<1>2. /\ \A n \in Names : home[n] # None => home'[n] # None
      /\ Name(q)' = Name(q) /\ kind' = kind /\ up' = up
      /\ home' \in [Names -> Requests \union {None}]
  BY ShapeIsStable DEF Stable, Shape, Others, world, RequestTypes
<1>3. CASE q # r
  BY <1>1, <1>2, <1>3 DEF PlaceInv, Shape, Others, RequestTypes
<1>4. CASE q = r
  <2>1. CASE Admission(r)
    BY <1>1, <1>2, <1>4, <2>1 DEF Admission, Moves, Keeps, PlaceInv
  <2>2. CASE Passage(r)
    BY <1>1, <1>2, <1>4, <2>2 DEF Passage, Moves, Keeps, PlaceInv, SameStore, RequestTypes, Ended, Holds
  <2>3. CASE Refusal(r)
    BY <1>1, <1>2, <1>4, <2>3 DEF Refusal, Answers, PlaceInv, Ended, Shape, Others, Permit, Holds
  <2>4. CASE Binding(r)
    BY <1>1, <1>2, <1>4, <2>4 DEF Binding, Moves, PlaceInv, SameStore, Ended
  <2>5. CASE Creation(r)
    BY <1>1, <1>2, <1>4, <2>5 DEF Creation, Moves, Keeps, PlaceInv, RequestTypes, Ended
  <2>6. CASE Insertion(r)
    BY <1>1, <1>2, <1>4, <2>6 DEF Insertion, Answers, PlaceInv, Ended
  <2>7. CASE Finding(r)
    BY <1>1, <1>2, <1>4, <2>7 DEF Finding, PlaceInv, Ended
  <2> QED BY <2>1, <2>2, <2>3, <2>4, <2>5, <2>6, <2>7 DEF Shape
<1> QED BY <1>3, <1>4


\* A start finds no request under way, so every permit is there.
LEMMA StartKeepsBase ==
    ASSUME BaseInv, Start
    PROVE  BaseInv'
<1>1. TypeOK'
  BY PermitsAssumption DEF BaseInv, TypeOK, Start, Resolved, store
<1>2. \A r \in Requests : PlaceInv(r)'
  BY DEF BaseInv, PlaceInv, Start, Name, Ended, store
<1>3. Holders' = {}
  BY DEF BaseInv, PlaceInv, Start, Holders, Holds, Ended
<1>4. PermitsAddUp'
  <2>1. permits' = Permits /\ Cardinality(Holders') = 0
    BY <1>3, FS_EmptySet DEF Start
  <2> QED BY <2>1, PermitsAssumption DEF PermitsAddUp, Holders
<1> QED BY <1>1, <1>2, <1>4 DEF BaseInv

\* With the process its permits and its requests are gone.
LEMMA CrashKeepsBase ==
    ASSUME BaseInv, Crash
    PROVE  BaseInv'
<1>1. TypeOK'
  <2>1. settings.mongoUrl \in BOOLEAN
    BY SettingsAssumption DEF BaseInv, TypeOK
  <2>2. mongoUp' \in {FALSE, settings.mongoUrl}
    BY Zenon DEF Crash
  <2>3. mongoUp' \in BOOLEAN
    BY <2>1, <2>2, Zenon
  <2>4. pc' \in [Requests -> Steps]
    BY DEF Crash, Steps, BaseInv, TypeOK
  <2>5. UNCHANGED <<settings, kind, backend, mongo, permits, ollama, code, obj, seen, model, before>>
        /\ up' = FALSE /\ faults' = faults + 1
    BY DEF Crash
  <2>6. forgotten' \in SUBSET Requests /\ home' \in [Names -> Requests \union {None}]
        /\ held' \in [Requests -> SUBSET Requests]
    BY DEF Crash
  <2>7. permits' \in 0..Permits /\ faults' \in Nat
    BY <2>5 DEF BaseInv, TypeOK
  <2>8. up' \in BOOLEAN
    BY <2>5, Zenon
  <2> QED BY <2>3, <2>4, <2>5, <2>6, <2>7, <2>8, Zenon DEF BaseInv, TypeOK
<1>2. \A r \in Requests : PlaceInv(r)'
  BY DEF BaseInv, PlaceInv, Crash, Name, Ended
<1>3. PermitsAddUp'
  BY DEF Crash, PermitsAddUp
<1> QED BY <1>1, <1>2, <1>3 DEF BaseInv

\* An outage is no concern of the process.
LEMMA WorldKeepsBase ==
    ASSUME BaseInv, WorldChanges \/ UNCHANGED vars
    PROVE  BaseInv'
<1>1. UNCHANGED <<settings, kind, up, backend, home, held, mongo, permits, pc, code, obj, seen,
                  model, before, forgotten>>
  BY DEF WorldChanges, vars, store
<1>2. mongoUp' \in BOOLEAN /\ ollama' \in SUBSET Models /\ faults' \in Nat
  <2>1. mongoUp \in BOOLEAN /\ ollama \in SUBSET Models /\ faults \in Nat
    BY DEF BaseInv, TypeOK
  <2>2. faults' \in {faults, faults + 1}
    BY DEF WorldChanges, vars
  <2>3. mongoUp' = mongoUp \/ mongoUp' = ~mongoUp
    BY Zenon DEF WorldChanges, vars
  <2>4. ollama' \in SUBSET Models
    BY <2>1 DEF WorldChanges, vars
  <2>5. mongoUp' \in BOOLEAN
    BY <2>1, <2>3, Zenon
  <2> QED BY <2>1, <2>2, <2>4, <2>5
<1>3. TypeOK'
  BY <1>1, <1>2 DEF BaseInv, TypeOK
<1>4. PermitsAddUp'
  BY <1>1 DEF BaseInv, PermitsAddUp, Holds
<1>5. \A r \in Requests : PlaceInv(r)'
  BY <1>1 DEF BaseInv, PlaceInv, Name
<1> QED BY <1>3, <1>4, <1>5 DEF BaseInv

\* The base invariant is inductive.
LEMMA BaseInvStep ==
    ASSUME BaseInv, [Next]_vars
    PROVE  BaseInv'
<1>1. ASSUME NEW r \in Requests, Shape(r), RequestTypes'
      PROVE  BaseInv'
  <2>1. TypeOK'
    BY <1>1 DEF RequestTypes, BaseInv, TypeOK, Shape, Others, world
  <2>2. PermitsAddUp'
    BY <1>1, PermitsKept
  <2>3. \A q \in Requests : PlaceInv(q)'
    BY <1>1, PlacesKept
  <2> QED BY <2>1, <2>2, <2>3 DEF BaseInv
<1> QED BY <1>1, StepHasShape, StartKeepsBase, CrashKeepsBase, WorldKeepsBase

\* At the start nobody holds a permit.
LEMMA BaseInvInit ==
    ASSUME Init
    PROVE  BaseInv
<1>1. settings \in Settings /\ settings.mongoUrl \in BOOLEAN
  BY SettingsAssumption DEF Init
<1>2. TypeOK
  <2>1. mongoUp \in {FALSE, settings.mongoUrl}
    BY Zenon DEF Init
  <2>2. mongoUp \in BOOLEAN
    BY <1>1, <2>1, Zenon
  <2>3. pc \in [Requests -> Steps] /\ code \in [Requests -> Codes] /\ obj \in [Requests -> Stores]
    BY DEF Init, Steps, Codes, Stores
  <2>4. permits \in 0..Permits /\ faults \in Nat /\ ollama \in SUBSET Models
    BY PermitsAssumption DEF Init
  <2>6. up \in BOOLEAN /\ backend \in {"mongo", "in-memory"}
    BY Zenon DEF Init
  <2>5. /\ home \in [Names -> Requests \union {None}] /\ held \in [Requests -> SUBSET Requests]
        /\ mongo \in [Names -> SUBSET Requests] /\ seen \in [Requests -> SUBSET Requests]
        /\ model \in [Requests -> Models \union {None}] /\ before \in [Requests -> SUBSET Requests]
        /\ forgotten \in SUBSET Requests /\ kind \in Plans
    BY DEF Init
  <2> QED BY <1>1, <2>2, <2>3, <2>4, <2>5, <2>6, Zenon DEF TypeOK
<1>3. PermitsAddUp
  BY DEF Init, PermitsAddUp
<1>4. \A r \in Requests : PlaceInv(r)
  BY DEF Init, PlaceInv, Ended
<1> QED BY <1>2, <1>3, <1>4 DEF BaseInv

\* Every variable keeps its type, and the bounded semaphore of run_audit is
\* never released more often than it was acquired.
THEOREM TypeOKCorrect == Spec => []TypeOK
<1>1. Init => BaseInv
  BY BaseInvInit
<1>2. BaseInv /\ [Next]_vars => BaseInv'
  BY BaseInvStep
<1>3. BaseInv => TypeOK
  BY DEF BaseInv
<1> QED BY <1>1, <1>2, <1>3, PTL DEF Spec

\* Permits and the audits that hold one add up, whatever way the audits end.
THEOREM PermitsAddUpCorrect == Spec => []PermitsAddUp
<1>1. Init => BaseInv
  BY BaseInvInit
<1>2. BaseInv /\ [Next]_vars => BaseInv'
  BY BaseInvStep
<1>3. BaseInv => PermitsAddUp
  BY DEF BaseInv
<1> QED BY <1>1, <1>2, <1>3, PTL DEF Spec


-----------------------------------------------------------------------------
(* What the store holds, by who was answered.                              *)

\* Where MongoDB is required nothing else is ever used.
RequiredInv ==
    settings.requireMongo =>
        /\ up => backend = "mongo"
        /\ \A r \in Requests : pc[r] \notin {"create", "fetch"} /\ obj[r] \in {None, Mongo}

\* A document in memory is of a request that was answered 200, or of a probe.
HeldInv ==
    \A r, o \in Requests : r \in held[o] =>
        pc[r] \in {"release", "answered"} /\ (kind[r] = "ready" \/ code[r] = 200)

\* An insert that was answered 200 is where its request put it, while that lasts.
StoredInv(r) ==
    kind[r] \in Inserts /\ code[r] = 200 =>
        /\ obj[r] \in Requests \union {Mongo}
        /\ obj[r] = Mongo => r \in mongo[Name(r)]
        /\ obj[r] # Mongo /\ r \notin forgotten => r \in held[obj[r]]

\* A name that was used in this process has an object.
HomeInv(r) == obj[r] \in Requests /\ r \notin forgotten => home[Name(r)] # None

\* What was answered before q arrived stays so, and is remembered while q is served.
BeforeInv(q) ==
    /\ pc[q] = "idle" => before[q] = {}
    /\ \A r \in before[q] :
         /\ kind[r] \in Inserts /\ code[r] = 200 /\ pc[r] = "answered"
         /\ pc[q] \notin Ended => r \notin forgotten

\* Request o makes, or has made, the object of name n: nothing had been put
\* under that name when o arrived.
Maker(o, n) ==
    /\ Name(o) = n /\ pc[o] # "idle"
    /\ \A r \in before[o] : Name(r) = n => obj[r] = Mongo

MakerInv ==
    /\ \A o \in Requests : pc[o] = "create" => Maker(o, Name(o))
    /\ \A n \in Names : home[n] # None => Maker(home[n], n)
    /\ \A q \in Requests : obj[q] \in Requests => Maker(obj[q], Name(q))

\* What a find has returned.
Listed(q) ==
    \A r \in before[q] :
        Name(r) = Name(q) /\ (obj[r] = Mongo <=> obj[q] = Mongo) => r \in seen[q] \/ Displaced(r, q)
ListedInv(q) ==
    kind[q] \in Finds /\ (code[q] = 200 \/ pc[q] \in {"models", "ask"}) => obj[q] # None /\ Listed(q)

\* A query that got past its sort had no two documents with one score.
Twins(q) ==
    \E a, b \in before[q] :
        /\ a # b /\ SameScore(a, b) /\ Name(a) = Name(q) /\ Name(b) = Name(q)
        /\ obj[a] = obj[q] /\ obj[b] = obj[q]
TwinInv(q) ==
    /\ kind[q] = "query" /\ obj[q] # None
    /\ pc[q] \in {"models", "ask"} \/ (pc[q] = "answered" /\ code[q] # 500)
    => ~Twins(q)

DataInv ==
    /\ RequiredInv /\ HeldInv /\ MakerInv
    /\ \A r \in Requests : StoredInv(r) /\ HomeInv(r) /\ BeforeInv(r) /\ ListedInv(r) /\ TwinInv(r)

\* The facts about the state before and after a step that the lemmas share.
LEMMA ShapeFacts ==
    ASSUME BaseInv, NEW r \in Requests, Shape(r), RequestTypes'
    PROVE  /\ RequestTypes /\ PlaceInv(r) /\ PlaceInv(r)' /\ Stable(r)
           /\ kind' = kind /\ settings' = settings /\ up' = up /\ backend' = backend
           /\ forgotten' = forgotten
           /\ \A q \in Requests : q # r =>
                 pc'[q] = pc[q] /\ code'[q] = code[q] /\ obj'[q] = obj[q] /\ seen'[q] = seen[q]
           /\ None \notin Requests /\ Mongo \notin Requests /\ Mongo # None
           /\ \A q \in Requests : kind[q] \in Inserts \union Finds => Name(q) \in Names
BY RequestFacts, ShapeIsStable, PlacesKept DEF Shape, Others, world

\* No shape leads away from a required MongoDB.
LEMMA RequiredKept ==
    ASSUME BaseInv, RequiredInv, NEW r \in Requests, Shape(r), RequestTypes'
    PROVE  RequiredInv'
<1> SUFFICES ASSUME settings.requireMongo
    PROVE  /\ up => backend = "mongo"
           /\ pc'[r] \notin {"create", "fetch"} /\ obj'[r] \in {None, Mongo}
  BY ShapeFacts DEF RequiredInv
<1>1. (up => backend = "mongo") /\ pc[r] \notin {"create", "fetch"} /\ obj[r] \in {None, Mongo}
  BY DEF RequiredInv
<1>2. PlaceInv(r)
  BY ShapeFacts
<1> QED BY <1>1, <1>2 DEF Shape, Admission, Passage, Refusal, Binding, Creation, Insertion,
          Finding, Moves, Keeps, Answers, PlaceInv, Ended

\* No shape puts the document of a refused request in memory.
LEMMA HeldKept ==
    ASSUME BaseInv, HeldInv, NEW r \in Requests, Shape(r), RequestTypes'
    PROVE  HeldInv'
<1> USE ShapeFacts
<1> SUFFICES ASSUME NEW q \in Requests, NEW o \in Requests, q \in held'[o]
    PROVE  pc'[q] \in {"release", "answered"} /\ (kind[q] = "ready" \/ code'[q] = 200)
  BY DEF HeldInv
<1>1. CASE q \in held[o]
  <2>1. pc[q] \in {"release", "answered"} /\ (kind[q] = "ready" \/ code[q] = 200)
    BY <1>1 DEF HeldInv
  <2>2. CASE q = r
    BY <2>1, <2>2 DEF Shape, Admission, Passage, Refusal, Binding, Creation, Insertion, Finding,
                      Moves, Keeps
  <2> QED BY <2>1, <2>2
<1>2. CASE q \notin held[o]
  <2>1. q = r /\ Insertion(r) /\ obj[r] # Mongo
    BY <1>2 DEF Shape, Admission, Passage, Refusal, Binding, Creation, Insertion, Finding,
                SameStore, RequestTypes
  <2> QED BY <2>1 DEF Insertion, Answers, StoredCode
<1> QED BY <1>1, <1>2

\* What was answered 200 stays where it was put.
LEMMA StoredKept ==
    ASSUME BaseInv, NEW r \in Requests, Shape(r), RequestTypes', NEW q \in Requests, StoredInv(q)
    PROVE  StoredInv(q)'
<1> USE ShapeFacts
<1>1. Name(q)' = Name(q) /\ (kind[q] \in Inserts => Name(q) \in Names)
  BY DEF Stable
<1>2. CASE q # r
  BY <1>1, <1>2 DEF StoredInv, Stable
<1>3. CASE q = r
  <2>1. CASE Insertion(r)
    <3>1. obj'[r] = obj[r] /\ obj[r] \in Requests \union {Mongo}
      BY <2>1 DEF Insertion, PlaceInv
    <3>2. obj[r] = Mongo => r \in mongo'[Name(r)]
      BY <1>1, <1>3, <2>1 DEF Insertion, RequestTypes
    <3>3. obj[r] # Mongo => r \in held'[obj[r]]
      BY <2>1, <3>1 DEF Insertion, RequestTypes
    <3> QED BY <1>1, <1>3, <3>1, <3>2, <3>3 DEF StoredInv
  <2>2. CASE Finding(r)
    BY <1>3, <2>2 DEF Finding, StoredInv, Inserts, Finds
  <2>3. CASE Refusal(r)
    <3>1. code'[r] = 200 => kind[r] \in Chats \union {"query"}
      BY <2>3 DEF Refusal, Answers, Failures, PlaceInv
    <3>2. kind[r] \in Chats \union {"query"} => kind[r] \notin Inserts
      BY DEF Inserts, Chats
    <3> QED BY <1>3, <3>1, <3>2 DEF StoredInv
  <2>4. CASE Admission(r) \/ Passage(r) \/ Binding(r) \/ Creation(r)
    <3>1. code'[r] = code[r] /\ (pc[r] # "release" => code[r] = 0)
      BY <2>4 DEF Admission, Passage, Binding, Creation, Moves, Keeps, PlaceInv
    <3>2. CASE pc[r] = "release"
      <4>1. obj'[r] = obj[r]
        BY <2>4, <3>2 DEF Admission, Passage, Binding, Creation, Moves, Keeps
      <4> QED BY <1>1, <1>3, <3>1, <4>1 DEF StoredInv, Stable
    <3> QED BY <1>3, <3>1, <3>2 DEF StoredInv
  <2> QED BY <2>1, <2>2, <2>3, <2>4 DEF Shape
<1> QED BY <1>2, <1>3

\* A name that was used keeps an object.
LEMMA HomeKept ==
    ASSUME BaseInv, NEW r \in Requests, Shape(r), RequestTypes', NEW q \in Requests, HomeInv(q)
    PROVE  HomeInv(q)'
<1> USE ShapeFacts
<1>1. Name(q)' = Name(q) /\ PlaceInv(q)
  BY DEF Stable, BaseInv
<1>2. CASE obj'[q] = obj[q]
  BY <1>1, <1>2 DEF HomeInv, Stable, PlaceInv
<1>3. CASE obj'[q] # obj[q]
  <2>1. q = r /\ Binding(r)
    BY <1>3 DEF Shape, Admission, Passage, Refusal, Binding, Creation, Insertion, Finding, Keeps
  <2>2. obj'[q] = Mongo \/ home[Name(q)] \in Requests
    BY <2>1 DEF Binding, Moves, PlaceInv
  <2>3. home' = home
    BY <2>1 DEF Binding, SameStore
  <2> QED BY <1>1, <2>2, <2>3 DEF HomeInv
<1> QED BY <1>2, <1>3

\* What was answered before a request arrived stays answered.
LEMMA BeforeKept ==
    ASSUME BaseInv, \A p \in Requests : BeforeInv(p), NEW r \in Requests, Shape(r), RequestTypes',
           NEW q \in Requests
    PROVE  BeforeInv(q)'
<1> USE ShapeFacts
<1>0. pc'[q] = "idle" => pc[q] = "idle" /\ before'[q] = {}
  <2>1. pc'[r] # "idle"
    BY DEF Shape, Admission, Passage, Refusal, Binding, Creation, Insertion, Finding, Moves, Answers
  <2> QED BY <2>1 DEF BeforeInv, Shape, Others
<1>1. CASE before'[q] = before[q]
  <2> SUFFICES ASSUME NEW p \in before[q]
      PROVE  /\ kind[p] \in Inserts /\ code'[p] = 200 /\ pc'[p] = "answered"
             /\ pc'[q] \notin Ended => p \notin forgotten
    BY <1>1, <1>0 DEF BeforeInv
  <2>1. /\ kind[p] \in Inserts /\ code[p] = 200 /\ pc[p] = "answered" /\ p \in Requests
        /\ pc[q] \notin Ended => p \notin forgotten
    BY DEF BeforeInv, RequestTypes
  <2>2. p # r
    BY <2>1 DEF Stable
  <2>3. CASE pc[q] \notin Ended
    BY <2>1, <2>2, <2>3
  <2>4. CASE pc[q] \in Ended
    <3>1. pc[q] # "idle"
      BY DEF BeforeInv
    <3>2. q # r
      BY <2>4, <3>1 DEF Stable, Ended
    <3> QED BY <2>1, <2>2, <2>4, <3>2
  <2> QED BY <2>3, <2>4
<1>2. CASE before'[q] # before[q]
  <2>1. q = r /\ Admission(r)
    BY <1>2 DEF Shape, Others, Admission, Passage, Refusal, Binding, Creation, Insertion, Finding
  <2> SUFFICES ASSUME NEW p \in before'[q]
      PROVE  /\ kind[p] \in Inserts /\ code'[p] = 200 /\ pc'[p] = "answered"
             /\ p \notin forgotten
    BY <1>0 DEF BeforeInv
  <2>2. p \in Requests /\ kind[p] \in Inserts /\ code[p] = 200 /\ pc[p] = "answered" /\ p \notin forgotten
    BY <2>1 DEF Admission
  <2>3. p # r
    BY <2>2 DEF Stable
  <2> QED BY <2>2, <2>3
<1> QED BY <1>1, <1>2


\* Who was answered before is not who acts now.
LEMMA BeforeStands ==
    ASSUME BaseInv, NEW r \in Requests, Shape(r), RequestTypes', NEW q \in Requests, BeforeInv(q)
    PROVE  \A p \in before[q] :
              /\ p \in Requests /\ p # r /\ obj'[p] = obj[p] /\ kind[p] \in Inserts
              /\ code[p] = 200 /\ Name(p)' = Name(p)
<1> USE ShapeFacts
<1> SUFFICES ASSUME NEW p \in before[q]
    PROVE  /\ p \in Requests /\ p # r /\ obj'[p] = obj[p] /\ kind[p] \in Inserts
           /\ code[p] = 200 /\ Name(p)' = Name(p)
  OBVIOUS
<1>1. p \in Requests /\ kind[p] \in Inserts /\ code[p] = 200 /\ pc[p] = "answered"
  BY DEF BeforeInv, RequestTypes
<1>2. p # r
  BY <1>1 DEF Stable
<1> QED BY <1>1, <1>2 DEF Stable

\* Maker after the step, of a request and a name that are given.
MakerNext(o, n) ==
    /\ CollectionOf[kind'[o]] = n /\ pc'[o] # "idle"
    /\ \A r \in before'[o] : CollectionOf[kind'[r]] = n => obj'[r] = Mongo

\* Who has made an object of a name stays its maker.
LEMMA MakerStands ==
    ASSUME BaseInv, NEW r \in Requests, Shape(r), RequestTypes',
           NEW o \in Requests, BeforeInv(o), NEW n, Maker(o, n)
    PROVE  MakerNext(o, n)
<1> USE ShapeFacts
<1>1. pc[o] # "idle" /\ Name(o) = n /\ before'[o] = before[o]
  BY DEF Maker, Stable
<1>2. pc'[o] # "idle"
  BY <1>1 DEF Shape, Admission, Passage, Refusal, Binding, Creation, Insertion, Finding, Moves, Answers
<1> QED BY <1>1, <1>2, BeforeStands DEF Maker, MakerNext, Name

\* A step leaves the makers of objects what they are.
LEMMA MakerKept ==
    ASSUME BaseInv, DataInv, NEW r \in Requests, Shape(r), RequestTypes'
    PROVE  MakerInv'
<1> USE ShapeFacts
<1>0. \A o \in Requests : BeforeInv(o)
  BY DEF DataInv
<1>1. ASSUME NEW o \in Requests, pc'[o] = "create"
      PROVE  MakerNext(o, Name(o))
  <2>1. CASE pc[o] = "create"
    <3>1. Maker(o, Name(o))
      BY <2>1 DEF DataInv, MakerInv
    <3> QED BY <1>0, <3>1, MakerStands
  <2>2. CASE pc[o] # "create"
    <3>1. o = r /\ pc[r] = "look" /\ home[Name(r)] = None /\ before'[r] = before[r]
      BY <1>1, <2>2 DEF Shape, Admission, Passage, Refusal, Binding, Creation, Insertion, Finding,
                        Moves, Answers
    <3>2. ASSUME NEW p \in before[r], Name(p) = Name(r)
          PROVE  obj'[p] = Mongo
      <4>1. p \in Requests /\ kind[p] \in Inserts /\ code[p] = 200 /\ obj'[p] = obj[p] /\ p \notin forgotten
        BY <1>0, <3>1, BeforeStands DEF BeforeInv, Ended
      <4>2. obj[p] \in Requests \union {Mongo} /\ HomeInv(p)
        BY <4>1 DEF DataInv, StoredInv
      <4> QED BY <3>1, <3>2, <4>1, <4>2 DEF HomeInv
    <3> QED BY <1>1, <3>1, <3>2 DEF MakerNext, Name
  <2> QED BY <2>1, <2>2
<1>2. ASSUME NEW n \in Names, home'[n] # None
      PROVE  MakerNext(home'[n], n)
  <2>1. CASE home'[n] = home[n]
    <3>1. home[n] \in Requests /\ Maker(home[n], n)
      BY <1>2, <2>1 DEF DataInv, MakerInv, RequestTypes
    <3> QED BY <1>0, <2>1, <3>1, MakerStands
  <2>2. CASE home'[n] # home[n]
    <3>1. Creation(r) /\ n = Name(r) /\ home'[n] = r
      BY <2>2 DEF Shape, Admission, Passage, Refusal, Binding, Creation, Insertion, Finding,
                  SameStore, RequestTypes
    <3>2. Maker(r, n)
      BY <3>1 DEF Creation, Moves, DataInv, MakerInv
    <3> QED BY <1>0, <3>1, <3>2, MakerStands
  <2> QED BY <2>1, <2>2
<1>3. ASSUME NEW q \in Requests, obj'[q] \in Requests
      PROVE  MakerNext(obj'[q], Name(q))
  <2>1. CASE obj'[q] = obj[q]
    <3>1. Maker(obj[q], Name(q)) /\ obj[q] \in Requests
      BY <1>3, <2>1 DEF DataInv, MakerInv
    <3> QED BY <1>0, <2>1, <3>1, MakerStands
  <2>2. CASE obj'[q] # obj[q]
    <3>0. q = r
      BY <2>2
    <3>1. Binding(r) /\ obj'[r] # Mongo
      BY <1>3, <2>2, <3>0 DEF Shape, Admission, Passage, Refusal, Binding, Creation, Insertion, Finding,
                        Keeps
    <3>2. pc[r] = "fetch" /\ obj'[r] = home[Name(r)] /\ home[Name(r)] \in Requests /\ Name(r) \in Names
      BY <3>0, <3>1 DEF Binding, Moves, PlaceInv
    <3>3. Maker(home[Name(r)], Name(r))
      BY <3>2 DEF DataInv, MakerInv
    <3> QED BY <1>0, <3>0, <3>1, <3>2, <3>3, MakerStands
  <2> QED BY <2>1, <2>2
<1>4. \A q \in Requests : CollectionOf[kind'[q]] = Name(q)
  BY DEF Name
<1>5. \A o \in Requests : pc'[o] = "create" => Maker(o, Name(o))'
  BY <1>1, <1>4 DEF MakerNext, Maker, Name
<1>6. \A n \in Names : home'[n] # None => Maker(home[n], n)'
  BY <1>2 DEF MakerNext, Maker, Name
<1>7. \A q \in Requests : obj'[q] \in Requests => Maker(obj[q], Name(q))'
  BY <1>3, <1>4 DEF MakerNext, Maker, Name
<1> QED BY <1>5, <1>6, <1>7 DEF MakerInv

\* What was listed stays listed, and a find lists what was answered before.
LEMMA ListedKept ==
    ASSUME BaseInv, DataInv, NEW r \in Requests, Shape(r), RequestTypes', NEW q \in Requests
    PROVE  ListedInv(q)'
<1> USE ShapeFacts
<1>0. /\ BeforeInv(q) /\ ListedInv(q) /\ MakerInv /\ before[q] \subseteq Requests
      /\ obj[q] \in Requests \union {Mongo, None}
  BY DEF DataInv, RequestTypes, Stores
<1>1. /\ Name(q)' = Name(q)
      /\ \A p \in before[q] : obj'[p] = obj[p] /\ Name(p)' = Name(p)
  BY <1>0, BeforeStands DEF Stable
\* What was listed stays so.
<1>2. ASSUME obj[q] # None, Listed(q), obj'[q] = obj[q], seen'[q] = seen[q], before'[q] = before[q]
      PROVE  Listed(q)' /\ obj'[q] # None
  <2>1. obj[q] \in Requests => before'[obj[q]] = before[obj[q]]
    BY <1>0 DEF MakerInv, Maker, Stable
  <2> SUFFICES ASSUME NEW p \in before[q], Name(p) = Name(q), obj[p] = Mongo <=> obj[q] = Mongo,
                      p \notin seen[q]
               PROVE  obj[q] # obj[p] /\ p \notin before'[obj[q]]
    BY <1>1, <1>2 DEF Listed, Displaced
  <2>2. obj[q] # obj[p] /\ p \notin before[obj[q]]
    BY <1>2 DEF Listed, Displaced
  <2>3. obj[q] \in Requests
    BY <1>0, <1>2, <2>2
  <2> QED BY <2>1, <2>2, <2>3
<1>3. CASE q # r
  <2>1. before'[q] = before[q]
    BY <1>3 DEF Shape, Others
  <2> QED BY <1>0, <1>2, <1>3, <2>1 DEF ListedInv
<1>4. CASE q = r
  <2>1. CASE Finding(r)
    <3>1. obj'[q] = obj[q] /\ before'[q] = before[q] /\ seen'[q] = Documents(q)
          /\ obj[q] \in Requests \union {Mongo} /\ pc[q] \notin Ended
      BY <1>4, <2>1 DEF Finding, PlaceInv, Ended
    <3> SUFFICES ASSUME NEW p \in before[q], Name(p) = Name(q), obj[p] = Mongo <=> obj[q] = Mongo
                 PROVE  p \in Documents(q) \/ (obj[q] # obj[p] /\ p \notin before'[obj[q]])
      BY <1>1, <3>1 DEF ListedInv, Listed, Displaced
    <3>2. p \in Requests /\ kind[p] \in Inserts /\ code[p] = 200 /\ p \notin forgotten
      BY <1>0, <3>1, BeforeStands DEF BeforeInv
    <3>3. StoredInv(p)
      BY <3>2 DEF DataInv
    <3>4. CASE obj[q] = Mongo
      BY <3>2, <3>3, <3>4 DEF StoredInv, Documents
    <3>5. CASE obj[q] # Mongo
      <4>1. Maker(obj[q], Name(q)) /\ before'[obj[q]] = before[obj[q]]
        BY <3>1, <3>5, <1>0 DEF MakerInv, Maker, Stable
      <4>2. p \notin before[obj[q]]
        BY <3>5, <4>1 DEF Maker
      <4>3. CASE obj[p] = obj[q]
        BY <3>2, <3>3, <3>5, <4>3 DEF StoredInv, Documents
      <4> QED BY <4>1, <4>2, <4>3
    <3> QED BY <3>4, <3>5
  <2>2. CASE Refusal(r)
    <3>1. (code'[q] # 200 /\ pc'[q] \notin {"models", "ask"}) \/ pc[q] = "ask"
      BY <1>4, <2>2 DEF Refusal, Answers, Failures
    <3>2. obj'[q] = obj[q] /\ seen'[q] = seen[q] /\ before'[q] = before[q]
      BY <1>4, <2>2 DEF Refusal
    <3> QED BY <1>0, <1>2, <3>1, <3>2 DEF ListedInv
  <2>3. CASE Passage(r)
    <3>1. obj'[q] = obj[q] /\ seen'[q] = seen[q] /\ before'[q] = before[q] /\ code'[q] = code[q]
      BY <1>4, <2>3 DEF Passage, Keeps
    <3>2. pc'[q] \in {"models", "ask"} => pc[q] = "models" \/ kind[q] \in Chats
      BY <1>4, <2>3 DEF Passage, Moves
    <3>3. kind[q] \in Chats => kind[q] \notin Finds
      BY DEF Chats, Finds
    <3> QED BY <1>0, <1>2, <3>1, <3>2, <3>3 DEF ListedInv
  <2>4. CASE Insertion(r)
    <3>1. kind[q] \notin Finds
      BY <1>4, <2>4 DEF Insertion, Inserts, Finds
    <3> QED BY <3>1 DEF ListedInv
  <2>5. CASE Admission(r) \/ Binding(r) \/ Creation(r)
    <3>1. code'[q] = code[q] /\ code[q] = 0 /\ pc'[q] \notin {"models", "ask"}
      BY <1>4, <2>5 DEF Admission, Binding, Creation, Moves, Keeps, PlaceInv
    <3> QED BY <3>1 DEF ListedInv
  <2> QED BY <2>1, <2>2, <2>3, <2>4, <2>5 DEF Shape
<1> QED BY <1>3, <1>4

\* A query whose sort meets two equal scores has ended with 500.
LEMMA TwinKept ==
    ASSUME BaseInv, DataInv, NEW r \in Requests, Shape(r), RequestTypes', NEW q \in Requests
    PROVE  TwinInv(q)'
<1> USE ShapeFacts
<1>0. BeforeInv(q) /\ TwinInv(q) /\ before[q] \subseteq Requests
  BY DEF DataInv, RequestTypes
<1>1. ASSUME before'[q] = before[q], obj'[q] = obj[q], Twins(q)'
      PROVE  Twins(q)
  <2>1. Name(q)' = Name(q) /\ \A p \in before[q] : obj'[p] = obj[p] /\ Name(p)' = Name(p)
    BY <1>0, BeforeStands DEF Stable
  <2> QED BY <1>1, <2>1 DEF Twins, SameScore
<1>2. CASE q # r
  <2>1. before'[q] = before[q]
    BY <1>2 DEF Shape, Others
  <2> QED BY <1>0, <1>1, <1>2, <2>1 DEF TwinInv
<1>3. CASE q = r
  <2>1. CASE Finding(r)
    <3> SUFFICES ASSUME kind[q] = "query", Twins(q)'
                 PROVE  pc'[q] = "answered" /\ code'[q] = 500
      BY DEF TwinInv
    <3>1. /\ before'[q] = before[q] /\ obj'[q] = obj[q] /\ code[q] = 0
          /\ obj[q] \in Requests \union {Mongo} /\ pc[q] \notin Ended
      BY <1>3, <2>1 DEF Finding, PlaceInv, Ended
    <3>2. PICK a, b \in before[q] :
             /\ a # b /\ SameScore(a, b) /\ Name(a) = Name(q) /\ Name(b) = Name(q)
             /\ obj[a] = obj[q] /\ obj[b] = obj[q]
      BY <1>1, <3>1 DEF Twins
    <3>3. \A p \in {a, b} : p \in Documents(q)
      <4> SUFFICES ASSUME NEW p \in {a, b} PROVE p \in Documents(q)
        OBVIOUS
      <4>1. p \in Requests /\ kind[p] \in Inserts /\ code[p] = 200 /\ p \notin forgotten
        BY <1>0, <3>1, <3>2, BeforeStands DEF BeforeInv
      <4>2. StoredInv(p)
        BY <4>1 DEF DataInv
      <4> QED BY <3>2, <4>1, <4>2 DEF StoredInv, Documents
    <3>4. Tie(Documents(q))
      BY <3>2, <3>3 DEF Tie
    <3> QED BY <1>3, <2>1, <3>1, <3>4 DEF Finding
  <2>2. CASE Refusal(r)
    <3>1. pc[q] \in {"models", "ask"} \/ obj'[q] = None \/ kind[q] # "query" \/ code'[q] = 500
      <4>1. pc[q] \in {"idle", "handler", "audit", "hung"} => obj[q] = None /\ obj'[q] = None
        <5>1. PlaceInv(q) /\ obj'[q] = obj[q]
          BY <1>3, <2>2 DEF Refusal
        <5> QED BY <5>1 DEF PlaceInv
      <4>2. pc[q] = "apply" /\ kind[q] = "query" => code'[q] = 500
        BY <1>3, <2>2 DEF Refusal
      <4> QED BY <1>3, <2>2, <4>1, <4>2 DEF Refusal
    <3>2. before'[q] = before[q] /\ obj'[q] = obj[q]
      BY <1>3, <2>2 DEF Refusal
    <3>3. pc'[q] \notin {"models", "ask"}
      BY <1>3, <2>2 DEF Refusal, Answers
    <3> QED BY <1>0, <1>1, <3>1, <3>2, <3>3 DEF TwinInv
  <2>3. CASE Passage(r)
    <3>1. before'[q] = before[q] /\ obj'[q] = obj[q] /\ code'[q] = code[q]
      BY <1>3, <2>3 DEF Passage, Keeps
    <3>2. pc'[q] \in {"models", "ask", "answered"} =>
            pc[q] = "models" \/ kind[q] \in Chats \/ kind[q] = "audit"
      BY <1>3, <2>3 DEF Passage, Moves, PlaceInv
    <3>3. kind[q] \in Chats => kind[q] # "query"
      BY DEF Chats
    <3> QED BY <1>0, <1>1, <3>1, <3>2, <3>3 DEF TwinInv
  <2>4. CASE Insertion(r)
    <3>1. kind[q] # "query"
      BY <1>3, <2>4 DEF Insertion, Inserts
    <3> QED BY <3>1 DEF TwinInv
  <2>5. CASE Admission(r) \/ Binding(r) \/ Creation(r)
    <3>1. pc'[q] \notin {"models", "ask", "answered"}
      BY <1>3, <2>5 DEF Admission, Binding, Creation, Moves
    <3> QED BY <3>1 DEF TwinInv
  <2> QED BY <2>1, <2>2, <2>3, <2>4, <2>5 DEF Shape
<1> QED BY <1>2, <1>3


\* A start changes only whether the process serves, and from what.
LEMMA StartKeepsData ==
    ASSUME BaseInv, DataInv, Start
    PROVE  DataInv'
<1>1. UNCHANGED <<settings, kind, home, held, mongo, pc, code, obj, seen, before, forgotten>>
  BY DEF Start, store
<1>2. RequiredInv'
  <2>1. settings.requireMongo => backend' = "mongo"
    BY DEF Start, Resolved
  <2> QED BY <1>1, <2>1 DEF DataInv, RequiredInv
<1>3. HeldInv' /\ MakerInv'
  BY <1>1 DEF DataInv, HeldInv, MakerInv, Maker, Name
<1>4. ASSUME NEW r \in Requests
      PROVE  StoredInv(r)' /\ HomeInv(r)' /\ BeforeInv(r)' /\ ListedInv(r)' /\ TwinInv(r)'
  <2>1. StoredInv(r) /\ HomeInv(r) /\ BeforeInv(r) /\ ListedInv(r) /\ TwinInv(r)
    BY DEF DataInv
  <2>2. StoredInv(r)' /\ HomeInv(r)' /\ BeforeInv(r)'
    BY <1>1, <2>1 DEF StoredInv, HomeInv, BeforeInv, Name
  <2>3. ListedInv(r)' /\ TwinInv(r)'
    BY <1>1, <2>1 DEF ListedInv, Listed, Displaced, TwinInv, Twins, SameScore, Name
  <2> QED BY <2>2, <2>3
<1> QED BY <1>2, <1>3, <1>4 DEF DataInv

\* A crash forgets the documents in memory, and no others.
LEMMA CrashKeepsData ==
    ASSUME BaseInv, DataInv, Crash
    PROVE  DataInv'
<1>1. UNCHANGED <<settings, kind, mongo, code, obj, seen, before>> /\ up' = FALSE
  BY DEF Crash
<1>2. /\ \A n \in Names : home'[n] = None
      /\ \A o \in Requests : held'[o] = {}
      /\ forgotten' = {r \in Requests : pc[r] # "idle" /\ obj[r] # Mongo}
  BY DEF Crash
<1>3. ASSUME NEW r \in Requests
      PROVE  /\ pc'[r] \in Ended
             /\ pc'[r] = "idle" <=> pc[r] = "idle"
             /\ pc'[r] = "answered" <=> pc[r] = "answered"
             /\ PlaceInv(r)
  BY DEF Crash, Ended, BaseInv
<1>4. \A r \in Requests : before[r] \subseteq Requests
  BY DEF BaseInv, TypeOK
<1>5. RequiredInv'
  BY <1>1, <1>3 DEF DataInv, RequiredInv, Ended
<1>6. HeldInv'
  BY <1>2 DEF HeldInv
<1>7. MakerInv'
  <2>1. \A q \in Requests : obj[q] \in Requests => Maker(obj[q], Name(q))'
    BY <1>1, <1>3 DEF DataInv, MakerInv, Maker, Name
  <2> QED BY <1>1, <1>2, <1>3, <2>1 DEF MakerInv, Ended
<1>8. ASSUME NEW r \in Requests
      PROVE  StoredInv(r)' /\ HomeInv(r)' /\ BeforeInv(r)' /\ ListedInv(r)' /\ TwinInv(r)'
  <2>1. StoredInv(r) /\ BeforeInv(r) /\ ListedInv(r) /\ TwinInv(r)
    BY DEF DataInv
  <2>2. (obj[r] # None \/ code[r] # 0) => pc[r] # "idle"
    BY <1>3 DEF PlaceInv
  <2>3. StoredInv(r)'
    BY <1>1, <1>2, <2>1, <2>2 DEF StoredInv, Name
  <2>4. HomeInv(r)'
    BY <1>1, <1>2, <2>2, StoresAssumption DEF HomeInv
  <2>5. BeforeInv(r)'
    BY <1>1, <1>3, <1>4, <2>1 DEF BeforeInv
  <2>6. ListedInv(r)' /\ TwinInv(r)'
    BY <1>1, <1>3, <2>1 DEF ListedInv, Listed, Displaced, TwinInv, Twins, SameScore, Name, Ended
  <2> QED BY <2>3, <2>4, <2>5, <2>6
<1> QED BY <1>5, <1>6, <1>7, <1>8 DEF DataInv

\* An outage changes no document.
LEMMA WorldKeepsData ==
    ASSUME DataInv, WorldChanges \/ UNCHANGED vars
    PROVE  DataInv'
<1>1. UNCHANGED <<settings, kind, up, backend, home, held, mongo, pc, code, obj, seen, before,
                  forgotten>>
  BY DEF WorldChanges, vars, store
<1>2. RequiredInv' /\ HeldInv' /\ MakerInv'
  BY <1>1 DEF DataInv, RequiredInv, HeldInv, MakerInv, Maker, Name
<1>3. ASSUME NEW r \in Requests
      PROVE  StoredInv(r)' /\ HomeInv(r)' /\ BeforeInv(r)' /\ ListedInv(r)' /\ TwinInv(r)'
  <2>1. StoredInv(r) /\ HomeInv(r) /\ BeforeInv(r) /\ ListedInv(r) /\ TwinInv(r)
    BY DEF DataInv
  <2>2. StoredInv(r)' /\ HomeInv(r)' /\ BeforeInv(r)'
    BY <1>1, <2>1 DEF StoredInv, HomeInv, BeforeInv, Name
  <2>3. ListedInv(r)' /\ TwinInv(r)'
    BY <1>1, <2>1 DEF ListedInv, Listed, Displaced, TwinInv, Twins, SameScore, Name
  <2> QED BY <2>2, <2>3
<1> QED BY <1>2, <1>3 DEF DataInv

\* What the store holds by who was answered is inductive, given the places.
LEMMA DataInvStep ==
    ASSUME BaseInv, DataInv, [Next]_vars
    PROVE  DataInv'
<1>1. ASSUME NEW r \in Requests, Shape(r), RequestTypes'
      PROVE  DataInv'
  <2>1. RequiredInv /\ HeldInv /\ \A q \in Requests : StoredInv(q) /\ HomeInv(q) /\ BeforeInv(q)
    BY DEF DataInv
  <2>2. RequiredInv' /\ HeldInv' /\ MakerInv'
    BY <1>1, <2>1, RequiredKept, HeldKept, MakerKept
  <2>3. \A q \in Requests : StoredInv(q)' /\ HomeInv(q)' /\ BeforeInv(q)'
    BY <1>1, <2>1, StoredKept, HomeKept, BeforeKept
  <2>4. \A q \in Requests : ListedInv(q)' /\ TwinInv(q)'
    BY <1>1, ListedKept, TwinKept
  <2> QED BY <2>2, <2>3, <2>4 DEF DataInv
<1> QED BY <1>1, StepHasShape, StartKeepsData, CrashKeepsData, WorldKeepsData

\* At the start there are no documents, no objects and no answers.
LEMMA DataInvInit ==
    ASSUME Init
    PROVE  DataInv
<1>1. RequiredInv /\ HeldInv
  BY DEF Init, RequiredInv, HeldInv
<1>2. MakerInv
  BY StoresAssumption DEF Init, MakerInv
<1>3. \A r \in Requests : StoredInv(r) /\ HomeInv(r) /\ BeforeInv(r) /\ ListedInv(r) /\ TwinInv(r)
  BY StoresAssumption DEF Init, StoredInv, HomeInv, BeforeInv, ListedInv, TwinInv
<1> QED BY <1>1, <1>2, <1>3 DEF DataInv

\* Both invariants, of every state that is reached.
LEMMA InvariantsHold == Spec => [](BaseInv /\ DataInv)
<1>1. Init => BaseInv /\ DataInv
  BY BaseInvInit, DataInvInit
<1>2. (BaseInv /\ DataInv) /\ [Next]_vars => (BaseInv /\ DataInv)'
  BY BaseInvStep, DataInvStep
<1> QED BY <1>1, <1>2, PTL DEF Spec

\* A list shows every document whose insert was answered before it was asked
\* for, but for the documents of an object that the race of two first uses of
\* the collection put out of sight.
THEOREM EarlierAnswersAreListedCorrect == Spec => []EarlierAnswersAreListed
<1>1. DataInv => EarlierAnswersAreListed
  BY DEF DataInv, ListedInv, Listed, EarlierAnswersAreListed
<1> QED BY <1>1, InvariantsHold, PTL

\* A caller who was answered an error has left no document in memory.
THEOREM RefusedLeavesNothingCorrect == Spec => []RefusedLeavesNothing
<1>1. DataInv => RefusedLeavesNothing
  BY DEF DataInv, HeldInv, RefusedLeavesNothing
<1> QED BY <1>1, InvariantsHold, PTL

\* Where MongoDB is required, what was answered is in MongoDB ever after.
THEOREM RequiredIsDurableCorrect == Spec => []RequiredIsDurable
<1>1. DataInv => RequiredIsDurable
  <2> SUFFICES ASSUME DataInv, settings.requireMongo,
                      NEW r \in Requests, kind[r] \in Inserts, code[r] = 200
               PROVE  r \in mongo[Name(r)]
    BY DEF RequiredIsDurable
  <2>1. StoredInv(r) /\ RequiredInv
    BY DEF DataInv
  <2> QED BY <2>1, StoresAssumption DEF StoredInv, RequiredInv
<1> QED BY <1>1, InvariantsHold, PTL

\* A text that was embedded twice before a query arrived ends it with 500.
THEOREM TwinsEndQueriesCorrect == Spec => []TwinsEndQueries
<1>1. DataInv => TwinsEndQueries
  BY DEF DataInv, TwinInv, Twins, TwinsEndQueries
<1> QED BY <1>1, InvariantsHold, PTL

=============================================================================
