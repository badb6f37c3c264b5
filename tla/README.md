# Verification of the Constitutional Builder

TLA+ models of the Constitutional Builder and of the Thirsty AI Builder that ships
with it, the TLC runs that check them on small instances, and TLAPS proofs of
theorems about them for every instance. Paths in this file are relative to the
repository; `PROJECT.json` gives, for each definition of each module, the lines
it stands for.

To check: `tlc -config <run>.cfg <MC module>` for each run of the table below,
`tlapm <module>_proofs.tla` for each proof module.

## The system

| Part | State it keeps | Operations | Interacts with |
|---|---|---|---|
| Kernel (`source/constitutional_builder/kernel.py`, `models.py`, `identity.py`, `policy.py`, `capability.py`, `planner.py`) | identity, policy, capability and handler tables, filled once | `handle`: validation, identity, policy, capability, planning, handler lookup, execution, audit, in that order; every refusal is audited too | appends to the audit log |
| Audit log (`audit.py`, `replay.py`) | the list of events, each sealed with the hash of the one before; a JSONL file when `audit_log_path` is set | `append`, `verify`, loading the file at start | called by every kernel thread, read by `/health`, `/v1/replay`, the federation |
| Kernel servers (`api.py`, `grpc_server.py`, `cli.py`) | one kernel | calls on `/v1/execute`, `/v1/grpc` and the gRPC service, each with its own reading of a body; health, replay, the audit page and its stream; a thread per HTTP connection, four gRPC workers | `handle`, the audit log |
| In-process cluster (`cluster.py`) | nodes with a kernel each, a quorum | `submit` asks every node in turn; `FederationVerifier` merges the logs | `handle`, `events` |
| Live federation (`federation/*.py`) | per node: partition mask, last-seen times, drifted peers; per server: the digests peers sent | `submit` (own kernel, then each peer over HTTP, then the tally), `set_partition`, heartbeats, the 409 of a drifted ask | `handle` on each node's server thread |
| Configuration (`config.py`), policy bundles (`policy_bundle.py`) | none; build the kernel's tables | load with defaults and refusals; validate, migrate and hash a bundle that nothing loads | the kernel's tables |
| Workspace tools (`thirsty-ai-builder/backend/.../tools.py`) | confirm codes with an expiry; the workspace's files | read, search, write, edit, shell, each write behind a confirm code | the file system |
| Request hardening (`hardening.py`, `auth.py`) | a token bucket per client | take a token, refuse with Retry-After | every route |
| Backend application (`server.py`, `app_store.py`, `letterhead.py`) | two audit permits | run an audit (a subprocess), install tools, create clients, queue posts, embed and query documents, chat, list, probe | database, model client, subprocess |
| Backend database (`db.py`) | the resolved client; named collections, in memory or MongoDB | resolve, look up or make a collection, insert, find | every route of the application |
| Model client (`llm.py`) | none | list the models, choose one, chat | Ollama |
| Command line, skills (`cli/...`) | sessions, drafts, live skills and `config.toml` in one directory | REPL, single message, distill, approve, reject, new, edit, config set | the backend; other commands through the files |
| Release scripts (`scripts/`) | evidence, package, signature, the model's tag | build, sign, create the model; `verify_all`, the gate that checks them | the repository's files, ollama |

## What is hard in it

* **Interleaving.** The kernel and its audit log hold no lock, though two servers
  call one kernel from several threads. `append` reads the last hash, then the
  length, then appends, then writes a line. A federation node's server runs its
  kernel while the same node submits, and `set_partition` replaces node objects
  under submissions that go on with the old ones. The backend serves each request on
  a thread of a pool and makes a collection on its first use without a lock; commands
  of the command line share a directory, of which none locks a file. An audit page
  walks a list that grows under it.
* **Crashes and partial failure.** The handler runs before the event exists; the
  event is in memory before its line is in the file; a line may be cut anywhere.
  `write_text` empties a file before it fills it, so a command or a release script
  that is killed leaves an empty or half-written one. MongoDB or Ollama may be gone
  between two accesses of one request, or at the next start.
* **Unreliable calls.** A peer's kernel may run a request whose sender timed out;
  an answer may be a vote, a 409, a 500, a broken body.
* **Stale state.** The mask, the last-seen times and the drift record of a node
  live in an object that a repartition replaces. A model is chosen from a list that is
  out of date when the chat is posted; a Modelfile is read again after it was checked.
* **Limits.** Quorums at half of an even cluster, a token bucket at one token,
  two audit permits, a confirm code at its expiry.
* **Order.** Evidence, package and signature cover one another; a draft that is
  approved may be distilled again, rejected or replaced meanwhile.

`PROJECT.json` lists the hazards one by one with the properties that watch each.

## Modules

### The kernel: `Authorization`, `KernelServer`, `AuditTrail`

`Authorization` holds the gates as operators, because they read tables that never
change: `Gate` says where a request leaves `handle`, with the order of the gates,
of the rules and of the grants as in the code (a duplicate identity overrides the
earlier one; a deny anywhere wins; planning raises when `parameters` is not a
mapping). `Authorized` says what the gates stand for together without any order;
it is the reference the gates are compared with.

`KernelServer` is one process: threads that receive requests and serve them, the
list of events, the file, crashes and restarts. A step is what one thread does
between two accesses to state the others see: `Deny`/`Grant`/`PlanFails`, then
`Execute`/`HandlerFails`, then `ReadPrevious`, `ReadLength`, `AppendEvent`,
`WriteLine`/`WriteFails`, `Reply`. `asked`, `performed` and `answers` are what a
client or an operator could have written down: they are never read by a guard of
the code's steps, only by the properties (`asked` also numbers the calls and holds
each request's fields).

`AuditTrail` is the abstract promise: a decision is recorded once, at the end, and
from the moment its caller is told it stays where it is; a restart may drop only
what nobody was told. `Trail` in `KernelServer` instantiates it with what the
process has in memory, or, while it is down, what it would load.

### Configuration and the routes: `Configuration`, `KernelApi`

`Configuration` is `load_config` as operators from the entries of a file to the tables of
`Authorization`: `OrDefault` fills in what an entry leaves out, `Loads` says which files
start a process at all, and any string is a true `active`. `DocumentGrants` reads the
same file as its author would, entry by entry and without tables.

`KernelApi` extends `KernelServer` to what its callers see. `Refused` and `RequestOf` are
what each route makes of a body: a JSON null reaches the kernel as nothing on
`/v1/execute` and as the text `None` on `/v1/grpc`, and parameters that are null drop the
connection there. A field that is a JSON list or object is left out: on `/v1/execute` it
raises where a table looks it up (`identity.py:26`, `policy.py:24-26`), which ends the call as
a failed planning does, with no event. Readers are threads beside the calls: `BeginHealth`, `Walk` (one event
of the live list at a time) and `CountHealth` are `/health`; `Replay` walks a copy; `List`
and `CountPage` are the audit page, whose count is a second read. What a body or a field
may be is a constant; the rest of the step is `KernelServer`'s.

### The federation: `QuorumVote`, `LiveFederation`

`QuorumVote` is the promise of any cluster: a kernel decides a request at most
once, a request is published once, and as allowed only when `Needed` kernels have
allowed it.

`LiveFederation` is `LiveCluster`: `Begin` reads the entry's current object,
`DecideLocally` runs the entry's kernel, `SkipPeer`/`AskPeer` walk over the peers in
the order of their slots, `PeerRefuses`/`PeerHandles` are the peer's server,
`TakeVote`/`TakeRefusal`/`TakeError`/`CallFails`/`CallBreaks` the ways an ask comes
back, `Tally` the end. `SetPartition` and `SwapSlot` are `set_partition` and its loop,
one node object at a time; it copies the drift map of each without the lock, and
`Interrupts` is a `TakeRefusal` or a `ClearDrift` (`clear_drift`) that changes the map under
the copy, which raises and leaves the remaining nodes with the old mask. `Expire` is the
passing of `heartbeat_timeout_seconds`; `Heartbeat` a posted heartbeat. `CallBreaks` is an
answer, a vote as well as a 409 or a 500, whose reading raises something that is no
`FederationError`. `ran` is the set of decisions in each node's audit log. `objects[n]` keeps
the objects a slot has had, because a running submission still reads and writes the one
it started with. `digest` is chosen at the start, with the entries of the submissions, from
`Starts`, and nothing changes it: no code replaces the rules of a kernel, and nothing calls
`set_local_policy_digest` (`transport.py:143`).

A kernel's handling of a request is one step there; `KernelServer` has its inside,
and `RecordedOnce`, `NoFalseRecord` and `OnlyAuthorizedRun` say what that step may
be taken to do.

### The in-process cluster: `QuorumCluster`

The second implementation of `QuorumVote`. `submit` is a loop over the nodes:
`Decide` is a kernel's decision with the hash it commits to, `Record` its event and
the place of the decision in the tuple, `KernelRaises` the exception that ends the
submission after earlier nodes have decided, `Tally` the quorum. Callers share the
nodes without a lock, so two events of one log may name the same predecessor.
`FederationVerifier.verify` reads each node's log twice: `CheckNode` replays it,
`MergeNode` collects it. `report.since` is what had been published when the
verification began. A submission stands for the hash of its event at a node, which
handles it once.

### The workspace tools: `WorkspaceTools`

Threads of the server's pool serve confirm, write, edit and shell requests. `Purge`
and `Claim` (or `Issue`) are the two times the lock of the codes is taken; a tick of
the clock may lie between them, so a code may be used a moment after it expired, and
`ChangesAreConfirmed` says so. `Open` and `Fill` are `write_text`, which empties a file
before it fills it, and `ChangeFails` a directory, an opening or a write that fails, before
the file is touched or when part of the text is in it. A text is a sequence of words, and
`HeadLength` is the 64 characters of a content that a write's code covers: `Wanted` is the
fingerprint, and `ChangesAreConfirmed` says in its own words what a call may do with a code
for it, namely write a text that begins with the one confirmed, and just that one when it
is shorter. `issued` and `popped` record what
the codes were given out and used for.

### The rate limiter: `RateLimiter`

`_TokenBucket.take` runs under its lock and is one step. A token is `Cost` units, so
that a tick adds the whole number `Rate`; the shipped numbers, 60 a minute and a
burst of 30, are `Cost = 1`, `Rate = 1`, `Burst = 30` with ticks of a second. `granted`
and `told` record when each key was let through and told to come again.

### The backend: `Backend`

One module for the server, its database and its model client, because their hazards lie
between them. Each request of `Requests` is of one kind of handler and runs on its
own thread, whose steps are cut at each access to something shared: `RunAudit` takes a
permit or answers 429, `AuditEnds`, `AuditTimesOut` and the rendering that follows, `Release`
gives the permit back in the `finally`; `Look`, `Create` and `Fetch` are
`InMemoryDatabase.__getitem__`, with the gap between the test and the assignment;
`InsertOne`, `MongoRaises` and the finds are the access itself; `ListModels` and `OllamaChat`
the two calls to Ollama. `Reject` stands for the bearer check, the size limit and the
limits on fields; `Start` for the import of `server.py` with the resolution of the client;
`Crash` and `WorldChanges` for the process dying and for MongoDB and Ollama coming, going or
changing their models. A collection in memory is named after the request that made it,
a document after the one that inserted it. `before` records what had been answered when
a request arrived; no step of the code reads it.

### The command line: `CliHome`

Each process runs one command line on the shared directory: `Begin` loads `config.toml`;
`SetOpens`/`SetFills`, `SkillOpens`/`SkillFills`, `DistillOpens`/`DistillFills` and `Quit`/`Save`
are the two halves of `write_text`; `Written` says what two writers leave in one file.
`DistillLists`, `DistillReads` and `DistillCounts` list the logs, read them one by one into
`read` and count: `Places` are the turns that called a tool, `Sighted` those with a given
pattern, `Repeated` the patterns seen often enough, and `Ranked` puts them in the order of the
names distill gives them, the most frequent first and equal ones as the dict has them. `inode` tells a file from one made
anew under the same name, so that a distill may fill a file that a reject has removed.
`loaded`, `approved`, `promoted` and `alone` are history. The commands are the functions of
`__main__.py` with the arguments `main` gives them.

### The release: `Release`

`disk` holds one file of each kind, and `Order` is the order in which the scripts list them. A
script reads its list twice, file by file (`todo` is what it has not seen; `ReadFile`, `EndPass`), as the manifest or sbom and the
package or provenance are built one after the other, then writes its results file by file
(`WriteFile`, in the order of `writes`). `StartGate`, `RunTests`, `RunCheck`, `RunReading`, `Compare` and `RunCargo` are
`verify_all`; `StartCoder`, `CreateModel` and `RemoveModel` the model's tag. `Edit`, `Touch`
and `Kill` come from outside. A hash is the content it is of; `order` and the `dirty` mark of
a run are history.

### MC modules

`MCKernelServer` gives tables and requests such that one request leaves `handle` at
each gate (no id, inactive subject, denied, not granted, not plannable, no handler)
and one is granted; one subject is entered twice, as a later entry overrides.
`MCQuorumCluster` has three nodes, one that may deny or raise and one that may fail.
`MCWorkspaceTools` has one file, two codes, contents on both sides of what a code covers that
begin alike, an unsafe path and a blocked command.
`MCKernelApi` has a file with an entry for each default and a wildcard of each kind, a
subject whose `active` is the string "false", and bodies each route reads differently.
`MCBackend` has seven plans of three requests: more audits than permits, two first uses of a
collection, one text embedded twice and queried, and mixes of the other kinds; four
environments, from no MongoDB to a required one and to a server without a key; two
models under one base name.
`MCCliHome` has seven plans of five commands that meet on one draft, one live skill or one
setting, with logs that repeat a pattern in the older or the newer sessions.
`MCRelease` has a gate with each kind of command.
`MCLiveFederation` has three nodes, aligned or with one of other rules, kernels
that agree or differ or raise, and masks that cut off one node or two; the drifted node is
the entry of one submission and a peer of the other.

## Runs

| Run | Question | Bounds |
|---|---|---|
| `KernelSequential` | One request thread: does the chain verify after every restart, does each decision stay at the event id its caller got, does the log implement `AuditTrail`? | 4 calls of 3 kinds, 2 crashes anywhere |
| `KernelThreads` | Two threads, fair: are only authorized handlers run, does the log tell the truth once per call, is every call answered? | 2 calls of 7 kinds, 1 crash, 1 failed or cut write |
| `KernelApi` | Two callers and a reader on a configured kernel: is what was answered in the file and on each later audit page, is an alarm about the chain ever taken back, does a default let through what the file does not grant? | 2 calls of 4 bodies on 3 routes, 2 reads, 1 crash, 1 failed write |
| `LiveFederation` | Two submissions, fair, to aligned or drifted nodes: is ALLOWED always a majority of the audit logs of nodes that are alive, is drift known on both sides, is `QuorumVote` kept, does every submission end? | 3 nodes, 2 submissions from the entries of `MCStarts`, 2 events of `set_partition`, expiry, heartbeat, failed or broken call |
| `ClusterQuorum` | Two callers and a verification on one in-process cluster: is `QuorumVote` kept, is a report complete, does it blame justly and find what was broken? | 3 nodes, quorum 2, 2 submissions, 1 verification |
| `WorkspaceConfirm` | Two threads: does a code let one call through, one that begins as it was confirmed, and does a change nobody raced stick? | 3 calls of 11 kinds, texts of 1 to 3 words of which a code covers 2, 2 codes, codes live 1 tick of 2 |
| `RateLimit` | Does any pattern of requests get more than the burst and the rate, and is Retry-After kept? | 2 clients, 3 requests let through each, 5 ticks |
| `Backend` | Do permits come back, is what was stored listed, does a refusal leave nothing, is a required MongoDB durable, do equal texts end queries, does every request end? | 3 requests of 7 plans, 2 permits, 4 environments, 2 models, 1 crash or outage |
| `CliHome` | Is only what was approved loaded, do drafts count what the logs hold, do they survive, do settings stick? | 5 commands of 7 plans, 1 turn, 1 kill |
| `Release` | Does a passing gate mean a release of these sources, does the documented order pass, is only a verified Modelfile made the model? | 4 scripts, 2 edits or touches, 1 kill |
| `KernelConcurrentChain` (violation) | Does a kernel's chain verify under two threads? | 2 calls |
| `LivePartitionedEntry` (violation) | Does an entry in the partition set deny? | as `LiveFederation`, 1 event |

The larger runs visit, in distinct states: `KernelSequential` 80,154; `KernelThreads` 94,621;
`KernelApi` 2,296,497; `LiveFederation` 758,797; `WorkspaceConfirm` 2,943,573; `Backend` 564,895;
`CliHome` 542,858; `Release` 3,415,337.

Why these bounds are enough to be interesting: two threads are what a race on the
list needs; four calls and two crashes of one thread let a restarted process append
and crash again. Two calls and two reads let a page be listed between the two, after
a failed write and after a restart. Three nodes are the smallest cluster whose quorum
is not everybody, so that a minority, a majority without the entry and a drifted node
all occur; with two submissions two entries can be on different sides of a mask, or
two callers of the in-process cluster race on one log. Two events are a partition that a
fault, an expiry or a second partition meets. A code that lives one tick of
two can expire between its purge and its use; three calls let it be issued, used and
presented again. Texts of one and of three words, where a code covers two, are the two ways
a text is compared. A burst of two tokens at two thirds of a token a tick makes the
bucket overflow, empty and hold part of a token. Three requests are two that race or
tie and one that looks, and one audit more than there are permits. The plans of
`CliHome` give each command that writes a file one that writes it too, one that removes
it and one that reads it. Four scripts are evidence, package, signature and the gate,
with room for one of them to be wrong or repeated when an earlier one is left out.
Deadlock is not checked where calls, crashes, faults and edits are used up and the
system comes to rest.

### Fairness

`KernelServer`: `WF` on the steps of a thread that is inside `handle` (the operating
system runs it, and nothing in `handle` waits for another thread) and on `Restart`
(someone starts the process again when its file can be loaded). Requests and
crashes are owed to nobody.
`LiveFederation`: `WF` on the steps of each submission, whose HTTP calls have a
timeout, and on a server's thread that holds an ask; each ask has a thread of its own
(`ThreadingHTTPServer`), so that nobody waits for another's. Partitions, expiry,
heartbeats and faults are not fair: a cluster may never see one.
`Backend`: `WF` on the steps of each request that has reached its handler, whose
thread the pool runs while the process lives. An audit that hangs ends because
`subprocess.run` has a timeout, a call to MongoDB or Ollama because its client has
one. Arrivals, starts, crashes and outages are not fair.
The other specifications claim safety only.

## What the code does otherwise than its documents say

`KernelConcurrentChain` shows the one that matters most: two threads read the same
previous hash before either appends, and `verify()` then returns False on a running
kernel, where volume 1 of the specification says that event `n` commits to event `n-1`.

`LivePartitionedEntry` shows the other one that has a run: an entry in its own partition set
drops its vote and still asks its peers, and when a quorum of them allows, so does it
(`node.py:229`), where `cluster_live.py:178-179` says the entry must deny and the docstring at
`node.py:122-133` that its quorum is unreachable. What does hold is `DeadVotesDoNotCount`: the
majority an ALLOWED rests on is one of nodes outside the mask.

More were met and have no run of their own. In the kernel, its routes and the federation:

* A line cut short before its newline still parses at the next start, and the next
  event is written on the same line (`audit.py:99`), which then parses no more:
  volume 0 promises no successful decision without an audit record.
* `start_heartbeats` assigns to a field of a frozen dataclass and raises
  (`node.py:281`); nothing else sends the heartbeats of `docs/FEDERATION.md:51`.
* One body is two requests: a null id is denied by `/v1/execute` and becomes the text
  `None` on `/v1/grpc`. Health's `audit_valid` and `audit_event_count` are two reads, as are
  an audit page and its count. A subject with `active: "false"` is active.
* When the file cannot be written the call raises, though its handler has run and
  its event is in the list (volume 3 promises no hidden state changes). The event
  whose write failed stays in memory and the next one commits to it, so the file's
  chain has a gap after a restart; `ChainVerifies` is therefore checked and proved
  without failed writes, `DurableAnswers` with them.
* A federation call that fails otherwise than by drift is not counted, where the
  comment at `node.py:197` says it is a denial.
* A process killed between the handler and the append leaves an execution that no
  log mentions; `ExecutionsRecorded` therefore speaks of processes that never crashed.
* A federation request that is denied for want of a quorum has executed on the
  nodes that allowed it; `QuorumVote` does not promise otherwise.
* Drift learnt by a submission whose node object was replaced meanwhile is lost to
  the cluster: `drifted_peers` of the new object does not name it, though the peer's
  `peer_digests` does. `DriftAttribution` has only the other direction.
* `drifted_peers` says it is also populated when a peer's heartbeat carries another digest
  (`node.py:106-108`); no code compares the digest of a heartbeat. Nor does any code of the
  repository call `clear_drift` when digests agree again: it is left to the operator.
* `set_partition` may end half way with an exception, some nodes with the new mask and some
  with the old one, when the drift map it copies changes meanwhile (`node.py:88`).
* A request whose parameters are not a mapping passes the gates and then raises in
  the planner: its connection is dropped and no event is left.
* A write's code covers the first 64 characters of its content, a confirm request's
  all of it (`tools.py:239`). The code of a longer write asked for with the write's own
  arguments never fits; a code for its beginning fits every text that begins so, where
  `tools.py:80-82`, the refusal at `tools.py:172` and `docs/CLI.md:128-129` ("tied to the exact
  (tool, args) pair") have it refused. `ChangesAreConfirmed` claims the beginning only.
* `edit` takes no lock: of two edits one is lost, and an edit that reads while a write
  has emptied the file puts the empty text back. `QuietChangesStick` speaks of changes
  that nothing raced.
* The first request of a key finds a little less than the burst, because
  `last_refill` takes its default after `now` was read; with a burst of one it is refused.
* The refusals of the size and rate limits carry no security headers: these are added
  by the innermost middleware (`server.py:82-84`).

In the backend:

* Two requests that use a collection first make an object each, and the documents in the
  one that loses the name are never listed (`db.py:73`). `EarlierAnswersAreListed` excuses
  this race and nothing else.
* A text embedded twice ends every later query with 500: the ranking compares two dicts
  (`server.py:553`). `TwinsEndQueries` says how far that reaches.
* `create_client` over MongoDB answers 500 after its insert, because the record it returns
  has got an `_id`; the lists of MongoDB documents cannot be serialised either.
  `RefusedLeavesNothing` therefore speaks of documents in memory.
* A title or an output that is not Latin-1 makes the fallback report raise, and the audit
  that ran leaves no record. Each readiness probe inserts a document that nothing deletes.
* The docstrings of `llm.py` promise `LLMError` for a status that is not 2xx; an
  `HTTPError` is a `URLError` and becomes `LLMUnavailable`. The provider named in a reply is
  asked for again after the chat.

In the command line and the scripts:

* `build_parser` calls `add_parser` on a parser (`__main__.py:315`) and raises, so `main`
  cannot run; `chat` posts to `/api/dove`, the server has `/api/dove/chat` and names the
  fields of its reply otherwise. No turn records a tool call, so that distill finds
  nothing in the logs this command line writes itself.
* A session is saved when its REPL ends, where `session.py:3-5` says every turn is appended.
* `config set` saves the options given with it as well; a value with a quote makes a file
  that no later command can read; two sets at once, or a kill, lose settings.
  `QuietSetsStick` speaks of sets that met no other.
* `new` beside an approve can empty a skill that was just approved; an approve that reads
  a draft while it is being written promotes an empty file. `--last 0` reads all logs.
* Without `SOURCE_DATE_EPOCH` the evidence is stamped with the newest modification time, so
  that a fresh checkout makes it stale, where `generate_release_evidence.py:150-156` calls
  the stamp stable.
* A signature made without `--production` says it is a local test key's whatever key the
  environment held; a package signed by another key ends the check of the coder model.
* A tag made from an earlier Modelfile stays; an edit between the check and the creation
  is built. On POSIX the list that the script passes with `shell=True` loses its arguments.

## Proofs

`Kernel_proofs` has the gates, the process and the routes, one after the other.
`GatesAuthorize` is about the gates alone: for tables of any length, `Gate` says "granted"
exactly of the plannable requests that `Authorized` describes. Of the process, for any
number of threads, calls, crashes and write errors and any tables:

* `TypeOKCorrect`. The invariant `TypeInv` adds to `TypeOK` that a busy thread's draft
  names a call that was received.
* `RecordedOnceCorrect`, `NoFalseRecordCorrect`. Neither is inductive: a second thread
  or a restart could hold, or load, an event for the same call. `RecordInv` says in
  addition that two busy threads serve different calls, that no thread which has yet
  to append serves a call already in the list or the file, that a draft's status
  agrees with `performed` from the handler on, and that the lines of the file name
  different calls.
* `OnlyAuthorizedRunCorrect`, from `GrantedInv` (a thread at `execute` serves a granted
  call) and `GatesAuthorize`.
* `DurableAnswersCorrect`, under the named assumption `WholeFile`: the log is backed by a
  file and writes are all or nothing. The invariant adds that a thread at `reply`
  has its event in the file.
* `ChainVerifiesCorrect`, under `Sequential`: one thread, no failed and no partial write.
  The invariant ties the list, the file and the draft to each other: list and file
  are equal but for the event being written.
* `ExecutionsRecordedCorrect`. `TraceInv` says that as long as nothing crashed a handler's
  call is served or in the list, and that a thread past its append has its event there;
  with `RecordInv` a thread cannot leave a call it executed without one.
* `TrailRefinementCorrect`, under `Sequential` and `WholeFile`. `AppendEvent` is `Record`, `Reply`
  is `Acknowledge`, `Crash` is `Forget` or a stutter, and the rest is not seen. `TrailInv` adds to
  the invariants above that the draft past its append is the last event, under its own
  number, and that no decision was told of an event the file does not have: hence a crash
  forgets at most the one event that was being written. The numbers and the calls come
  from `ChainInv` and `RecordInv`. With two threads it is false, as the event id is read
  before the append.
* `AckedEntriesStayCorrect` draws the conclusion a caller cares for from the abstract trail:
  what was told stays where it was told to be.

Of the routes, for any configuration file, bodies, readers and reads (what is said of the
process above cites no assumption of the routes):

* `ApiImplementsServer`. Every step of `KernelApi` is one of `KernelServer` or leaves its
  variables alone, so that all of the theorems above hold behind the routes.
* `OnlyDocumentedRunCorrect`, from `OnlyAuthorizedRun` and the lemma that the tables say
  what the file says (`TablesSayWhatTheFileSays`), defaults and wildcards included.
* `AlarmsStandCorrect`. `AlarmInv` adds that the chain is broken while the alarm is raised,
  and that all a walk has passed is sound: a list that only grows keeps both, so that a
  walk begun after the alarm cannot reach the end.
* `AuditShowsAnsweredCorrect`, under `WholeFile`: without it a failed write leaves a decision
  in memory that the next start forgets. `ShownInv` says that the list of a
  running process shows each decision told and each about to be told; that a restart
  brings it back is `DurableInv`, the invariant of `DurableAnswersCorrect`.

`RateLimiter_proofs` proves `TypeOKCorrect`, `WindowBoundCorrect` and
`RetryIsHonestCorrect` for any clients, rate, burst and moments. The bound is not
inductive: `BucketInv` accounts for each earlier grant (the tokens taken since and
those left are no more than the burst and what was added since it), and `ToldInv`
says that at each moment a client was told of there will be a token.

`LiveFederation_proofs` proves for any cluster, any submissions, masks, expiries,
heartbeats and faults every safety property its passing runs check, and that every
step is a step of `QuorumVote` or invisible to it:

* The invariant is `TypeInv`, `DriftAttribution` and, for each submission, `StageInv`
  (nothing is counted before the entry's kernel has run, and a result comes at the
  end), `AskInv` (a peer is asked at most once and from outside the mask of the object
  the submission holds; a kernel ran exactly when its ask has a status, and never
  for other rules), `VoteInv` (a vote is what a log says, of a peer the loop has left)
  and `CountInv` (the counters are cardinalities). `AllowedHasQuorum` alone is not
  inductive: an answer the client gave up on could be counted, or a vote twice, which
  only `AskInv` and `VoteInv` rule out.
* A step concerns one submission: `Frame` carries the invariant of every other one
  over it, given that logs and digests only grow and that objects keep their masks (`Kept`),
  which is why a `set_partition` in the middle of a submission does no harm.
* `AllowedHasQuorumCorrect` and `DeadVotesDoNotCountCorrect` map the approving votes
  injectively to nodes, all of them outside the mask for the second, the entry's own vote
  included; `QuorumsIntersectCorrect` adds that two majorities meet.
* `PromiseRefinementCorrect`: a first decision of a kernel is `Handle`, the end of a
  submission `Publish`, every other step a stutter.

`Backend_proofs` proves every safety property of its run, for any finite set of requests and
any plans, environments, models, permits, crashes and outages. None of the six is
inductive:

* `BaseInv` has the types, the places of a request that its kind allows, and
  `PermitsAddUp`; the permits stay within their bounds because they are the ones not held.
* `DataInv` follows a document. `MakerInv` says that nothing had been put under a name when
  the request arrived that makes its object: this is what confines the loss to the race
  of two first uses. `HeldInv` says that a document in memory is of a request answered 200,
  or of a probe; `StoredInv` that an insert answered 200 is where its request put it unless
  its process died; `HomeInv` that a name used in this process has an object; `BeforeInv` that
  what a request was promised when it arrived stays so while it is served; `ListedInv` and
  `TwinInv` what a find has returned by then. `RequiredInv` says that a process with a required
  MongoDB uses nothing else.
* A step of a request has one of seven shapes (`StepHasShape`), by what it writes; the parts
  of the invariant are carried over a shape, not over each of the two dozen actions.

`WorkspaceTools_proofs` proves the three properties of its run for any threads, requests,
codes, commands and lifetimes. `CodesInv` says that a live code stands for an issue nobody
has used, and that each used one was used by one call; it is what makes a code drawn twice
harmless. `PurgedInv` says that what is left in the dict was live when the thread that is
about to take it purged, which bounds how late a code may be used. `CallsClaimed` says that a
call which goes on has used a code of its own fingerprint; what that means for the texts
themselves, `ChangesAreConfirmed`, is drawn from it by `HeadCovers`. `FilesInv` says what each
thread is about to write or has left, unless another touched the files.

`QuorumCluster_proofs` proves the four properties of its run, for any nodes, quorum, verdicts
and number of callers and reports:

* `CallInv` says that a submission has the decisions of the nodes it has passed, as their
  logs have them, and that no log has an event of a submission that has not passed its
  node: a kernel decides once. Approvals are mapped injectively to nodes
  (`ApprovalsAreLogged`), and `PromiseRefinementCorrect` follows step by step.
* `ReportInv` says of each node the verifier has passed that the merged log is complete for
  what was published before, and links but for events of later submissions; the same of
  the log between its two reads. An appended event changes neither (`AppendFindings`), nor
  does it mend a chain that was blamed.

`CliHome_proofs` proves the four properties of its run, for any commands, logs of any length,
names, keys and values, and any number of turns and kills:

* `OnlyApprovedLoadCorrect`, `DraftsSurviveCorrect`. `ApprovedInv` follows a distilled text on its
  way: what is loaded, live, or held by an approve past its read was approved under that
  name. `PromotedInv` says that an approve about to remove the draft has written what it read.
* `DraftsAreSupportedCorrect`. `LogsInv` says that a log has one file, which its own process
  fills once, so that a whole log stays (`WholeStay`) though `Save` moves it to the end. `Reads`
  says of a distill that what it has read are whole logs, each read once and still in its
  file, and apart from what it has yet to read. The sightings in what was read are then
  mapped injectively to sightings in the files (`CountGrows`), and these only grow
  (`SightingsGrow`), whatever quits and saves do between the listing and the writing. That a
  count is a number at all needs `PlacesAreFinite`.
* `QuietSetsStickCorrect`. `SetsInv` says that while some set counts as having met no other, at
  most one set runs, and it is one of those; that the file has what each earlier one set
  until the running one opens it; and that the running one holds those values but for the
  key and options it saves itself.

`Release_proofs` proves the three properties of its run, for any gate that has the four checks
of the release, any keys and epochs, and any number of scripts, edits, touches and kills. Its
invariant compares what a script has read or is about to write with what it would now
find: `Pass` is a walk over the files as they are, `Result` what two such walks make, `Current`
that the files on disk are just that. `ReadInv` and `OutInv` say it of an undisturbed script,
`WriteInv` that each result is written or yet to come, `OrderInv` that evidence and package
made in order are current, `GateInv` that the gate has yet to run a command or what it found
holds, `ModelInv` that the Modelfile checked is the signed one. What makes it go
through are the frames, which are where the lists of files matter: evidence depends on no
file of the release directory (`SourceFrame`), the package on the evidence but not on its own
manifest and signature (`PackageFrame`), the signature on the package and its own two files.
A script that only writes files later in this order leaves the earlier results current, and
a gate that finds them current writes nothing.

The constants are constrained only by `BoundsAssumption`, `TablesAssumption`,
`LimiterAssumption`, `FederationAssumption`, `ClusterAssumption`, `ApiAssumption`, `ToolsAssumption` and, of `Backend`,
`RequestsAssumption` (finitely many), `PlansAssumption`, `SettingsAssumption`,
`ModelsAssumption`, `PermitsAssumption` and `StoresAssumption`, of `CliHome`, `ValuesAssumption`,
`PlansAssumption` and `SessionsAssumption` (the options of distill are integers; the logs that
were there are well formed, each a file of its own, none of a process yet to run), and of
`Release`, `CommandsAssumption`. `Sequential` and `WholeFile` are not assumed of the constants:
they are hypotheses of the theorems that name them. `KernelSequential` meets both, `KernelApi`
the second.

Proved as theorems and checked by no run: `TypeOK`, `TallyIsHonest`
and `QuorumsIntersect` of `LiveFederation`, `TypeOK` of `RateLimiter` and of
`Backend`.

Only model-checked: what is temporal under fairness (`EveryCallEnds`, `SubmissionsEnd`,
`RequestsEnd`), because liveness and `ENABLED` are out of the prover's reach. Every invariant and
action property and both refinements that a passing run checks are proved. No module
declares a `RECURSIVE` operator, and none computes by a recursion whose result would need an
induction over data: counts are cardinalities, walks are steps.

## Abstractions

* A hash is the number of the sealing that made it: equal only if it is the same
  event. That SHA-256 does not collide and that canonical JSON is injective is assumed.
* Requests carry only what the gates tell apart; handler outputs, reasons, timestamps
  and rule ids in answers are left out.
* One process has an audit file to itself.
* In `Backend` a request is made once, a lock of a collection makes an insert one step, and
  what turns a request away before its handler is one answer. Documents are identities;
  two texts score alike exactly when they are equal.
* In `CliHome` the file system keeps a rename or a removal whole, and texts a user writes
  have a frontmatter. In `Release` a script reads and writes a file in one step, though a
  kill may cut the one it writes, and one file stands for the files of its kind.
* A kernel's handling is one step in `LiveFederation`, submissions have distinct ids,
  and one `set_partition` is under way at a time.
* Times are not measured in the federation: a timeout, an expiry may happen at any
  moment it could. In `WorkspaceTools` and `RateLimiter` a clock ticks; readings of it
  less than a tick apart, and floating point rounding, are left out.

## Not modelled, and the plan

* `policy_bundle.py` validates, migrates and hashes a bundle; no other part loads one, so
  that there is no behaviour to put it in.
* The validators and fuzzers of `scripts/` read the repository once and change nothing; the
  one-shot `cli.py` is one call of `handle` in a process of its own, which `KernelServer` with
  one thread and one call contains.
* The federation's attestations, bearer checks and the stopping of its servers; two
  submissions that share a request id (`node.py:145`).
* The web frontend and the SDKs are presentation and thin clients, the Rust auditor is one
  pass over files, the protobuf code is generated; static catalogues, the layout of reports,
  parsing and wording are left out everywhere.

Some hazards bite: what goes wrong is what the code does, so that no property of a passing run
can be violated by it. Five are listed without a property: a denied request that has run where it
was allowed (`node.py:144`); parameters that are not a mapping (`planner.py:11`); drift learnt by a
replaced object (`cluster_live.py:180`); submissions that share an id (`node.py:145`); heartbeats
that never start (`node.py:281`), where a liveness property would hold of no run. Of others the
properties confine the damage and excuse the race itself, and the note of the hazard says so:
an execution lost to a kill, lost updates of `edit` and of `config set`, documents lost to two
first uses of a collection, a draft that is distilled over, turns of a REPL that is killed, a
Modelfile edited after its check, and the end of a long text that no code covers.

Next in line: what the request ids of two submissions share (`node.py:145`) in `LiveFederation`,
with the votes attributed by id and not by submission; and the abstract promises of the
backend's database, which `EarlierAnswersAreListed` and `RefusedLeavesNothing` state in parts, as a
specification that `Backend` implements but for the race of two first uses.
