------------------------------ MODULE CliHome ------------------------------
(***************************************************************************)
(* The directory ~/.thirsty-ai-builder and the commands of the thirsty     *)
(* command line that share it: sessions are logged, distilled into draft   *)
(* skills, and drafts approved into live ones; config.toml is read and     *)
(* written back.  Each command is a process of its own.  None takes a lock,*)
(* write_text opens (and empties) a file in one step and fills it in the   *)
(* next, and a process may be killed at any step.                          *)
(*                                                                         *)
(* Removing a directory, and making one together with opening the file in  *)
(* it, are single steps: a failure in between ends the command with an     *)
(* exception, as a kill does.                                              *)
(***************************************************************************)
EXTENDS Integers, Sequences, FiniteSets, SequencesExt

CONSTANTS
    Procs,          \* the commands that are ever run, numbers from 1
    Plans,          \* what they may be: [Procs -> command lines]
    Sessions0,      \* the session logs there may be before
    Names,          \* of skills, those that distill gives among them
    Keys, Values,   \* of config.toml
    Unquotable,     \* the values that end a quoted string of config.toml
    Profiles,       \* the values the key "profile" may take
    Env,            \* what load() has for each key when the file is silent
    MaxTurns,       \* bound on the turns of one REPL
    MaxKills        \* bound on killed processes

ASSUME ValuesAssumption == Env \in [Keys -> Values] /\ Unquotable \subseteq Values

\* --last and --min-occurrences are integers.
ASSUME PlansAssumption ==
    \A plan \in Plans : \A p \in Procs :
        plan[p].op = "distill" => plan[p].last \in Int /\ plan[p].min \in Int

\* A log has a name of its own, and turns once it is written whole; a turn is the
\* list of its tool calls.
Turn == Seq([tool : STRING, args : SUBSET STRING])
LogIds == Procs \union UNION {{log.id : log \in ToSet(logs)} : logs \in Sessions0}
Log == [id : LogIds] \union [id : LogIds, turns : Seq(Turn)]

ASSUME SessionsAssumption ==
    \A logs \in Sessions0 :
        /\ logs \in Seq(Log)
        /\ \A i, j \in DOMAIN logs : logs[i].id = logs[j].id => i = j
        /\ \A i \in DOMAIN logs : logs[i].id \notin Procs

-----------------------------------------------------------------------------
(* Turns, patterns and drafts as values.                                   *)

\* A coarse category of the arguments of a tool call.
ArgsKind(args) ==
    IF "path" \in args THEN "path" ELSE IF "pattern" \in args THEN "pattern" ELSE "any"

Pattern(calls) == [i \in DOMAIN calls |-> <<calls[i].tool, ArgsKind(calls[i].args)>>]

IsWhole(log) == "turns" \in DOMAIN log

\* Where the tool_sequence of the logs has a pattern: the turns that called a tool.
Places(logs) ==
    UNION {{i} \X {j \in DOMAIN logs[i].turns : logs[i].turns[j] # <<>>} :
               i \in {i \in DOMAIN logs : IsWhole(logs[i])}}
PatternAt(logs, place) == Pattern(logs[place[1]].turns[place[2]])
Sighted(logs, seq) == {place \in Places(logs) : PatternAt(logs, place) = seq}
Count(logs, seq) == Cardinality(Sighted(logs, seq))

\* Mistake: a pattern one short of the threshold passes.
RepeatedNearly(logs, min) ==
    {seq \in {PatternAt(logs, place) : place \in Places(logs)} : Count(logs, seq) + 1 >= min}

Repeated(logs, min) ==
    {seq \in {PatternAt(logs, place) : place \in Places(logs)} : Count(logs, seq) >= min}

\* The dict of patterns keeps the order of arrival.
Earlier(p, q) == p[1] < q[1] \/ (p[1] = q[1] /\ p[2] < q[2])
ArrivesFirst(logs, a, b) == \E p \in Sighted(logs, a) : \A q \in Sighted(logs, b) : Earlier(p, q)

\* Most frequent first, equal counts in the order of arrival.
Ranked(logs, min) ==
    LET repeated == Repeated(logs, min)
        Before(a, b) == \/ Count(logs, a) > Count(logs, b)
                        \/ Count(logs, a) = Count(logs, b) /\ ArrivesFirst(logs, a, b)
    IN {seqs \in [1..Cardinality(repeated) -> repeated] :
            \A i, j \in DOMAIN seqs : i < j => Before(seqs[i], seqs[j])}

\* What a file may hold.  Mixed is what two writers of different texts leave
\* when the later text is the shorter one.
Absent == <<"absent">>
Blank == <<"blank">>
Mixed == <<"mixed">>
Todo == <<"todo">>
Edited == <<"edited">>
Draft(seq, count) == <<"draft", seq, count>>
IsDraft(text) == text[1] = "draft"

\* What is in a file after text is written at its start.
Written(old, text) == IF old \in {Blank, text} THEN {text} ELSE {text, Mixed}

\* The names and texts distill writes: a name is a rank and the tool of the first step.
ToWrite(logs, ranked) ==
    [i \in DOMAIN ranked |-> [name |-> <<i, ranked[i][1][1]>>,
                              text |-> Draft(ranked[i], Count(logs, ranked[i]))]]

\* files[-n:], which is all of them for n = 0 and leaves out the first for n < 0.
Recent(files, n) ==
    SubSeq(files, IF n <= 0 THEN 1 - n ELSE IF n > Len(files) THEN 1 ELSE Len(files) - n + 1, Len(files))

-----------------------------------------------------------------------------
VARIABLES
    cmd,        \* fixed at the start: the command line of each process
    pc,
    sessions,   \* the session logs in the order of their last write: id, and turns if whole
    drafts, skills,     \* the SKILL.md of each name
    inode,      \* which process created the file a draft now is
    config,     \* config.toml
    held,       \* what a process has in memory: turns, a text, or a configuration
    todo,       \* the logs a distill has yet to read, then the drafts it has yet to write
    read,       \* the logs a distill has read
    handle,     \* the inode of the draft a distill has open
    kills,
    loaded, approved, promoted, \* history: name and text, as a REPL loaded them, as approve read
                                \* them, and had written them
    alone       \* history: the sets that met no other set, and that none has overwritten

home == <<sessions, drafts, skills, inode, config>>
local == <<held, todo, read, handle>>
history == <<loaded, approved, promoted, alone>>
vars == <<cmd, pc, home, local, kills, history>>

Init ==
    /\ cmd \in Plans
    /\ pc = [p \in Procs |-> "idle"]
    /\ sessions \in Sessions0
    /\ drafts = [n \in Names |-> Absent] /\ skills = [n \in Names |-> Absent]
    /\ inode = [n \in Names |-> 0]
    /\ config = [state |-> "blank"]
    /\ held = [p \in Procs |-> <<>>]
    /\ todo = [p \in Procs |-> <<>>] /\ read = [p \in Procs |-> <<>>]
    /\ handle = [p \in Procs |-> 0]
    /\ kills = 0
    /\ loaded = {} /\ approved = {} /\ promoted = {} /\ alone = {}

\* Process p, which runs op, takes the step from one place to the next.
At(p, ops, step) == cmd[p].op \in ops /\ pc[p] = step
GoTo(p, step) == pc' = [pc EXCEPT ![p] = step] /\ UNCHANGED <<cmd, kills>>
Hold(p, value) == held' = [held EXCEPT ![p] = value] /\ UNCHANGED <<todo, read, handle>>

\* A process that has begun and not ended.
Running(p) == pc[p] \notin {"idle", "done", "dead"}
Setting == {q \in Procs : cmd[q].op = "set" /\ Running(q)}

-----------------------------------------------------------------------------
(* config.toml.                                                            *)

\* load: the environment, and over it what the file has.  An empty file, like
\* none, has nothing.
Load == IF config.state # "whole" THEN Env
        ELSE [k \in Keys |-> IF k = "profile" /\ config.of[k] \notin Profiles THEN Env[k]
                             ELSE config.of[k]]

\* main: the options of the command line go over the configuration.
Effective(p) == [k \in Keys |-> IF k \in DOMAIN cmd[p].over THEN cmd[p].over[k] ELSE Load[k]]

\* Every command loads config.toml first, and dies of one that is not TOML.
Begin(p) ==
    /\ pc[p] = "idle"
    /\ GoTo(p, IF config.state = "broken" THEN "dead" ELSE "begun")
    /\ Hold(p, IF cmd[p].op = "set" /\ config.state # "broken" THEN Effective(p) ELSE <<>>)
    /\ alone' = IF cmd[p].op # "set" \/ config.state = "broken" THEN alone
                ELSE IF Setting = {} THEN alone \union {p} ELSE {}
    /\ UNCHANGED <<home, loaded, approved, promoted>>

SetRefused(p) ==
    /\ At(p, {"set"}, "begun")
    /\ cmd[p].key \notin Keys \/ (cmd[p].key = "profile" /\ cmd[p].value \notin Profiles)
    /\ GoTo(p, "done")
    /\ alone' = alone \ {p}
    /\ UNCHANGED <<home, local, loaded, approved, promoted>>

SetOpens(p) ==
    /\ At(p, {"set"}, "begun")
    /\ cmd[p].key \in Keys /\ (cmd[p].key = "profile" => cmd[p].value \in Profiles)
    /\ GoTo(p, "fill")
    /\ Hold(p, [held[p] EXCEPT ![cmd[p].key] = cmd[p].value])
    /\ config' = [state |-> "blank"]
    /\ UNCHANGED <<sessions, drafts, skills, inode, history>>

\* Mistake: to_toml writes only the key that was set.
RenderedAlone(p) ==
    IF \E k \in Keys : held[p][k] \in Unquotable THEN [state |-> "broken"]
    ELSE [state |-> "whole", of |-> [k \in Keys |-> IF k = cmd[p].key THEN held[p][k] ELSE Env[k]]]

\* to_toml: a value is put between quotes as it is.
Rendered(p) == IF \E k \in Keys : held[p][k] \in Unquotable THEN [state |-> "broken"]
               ELSE [state |-> "whole", of |-> held[p]]

\* Over a longer text of another writer the shorter one leaves a tail that is not TOML.
SetFills(p) ==
    /\ At(p, {"set"}, "fill")
    /\ GoTo(p, "done")
    /\ config' \in {Rendered(p)} \union
                   (IF config \in {[state |-> "blank"], Rendered(p)} THEN {} ELSE {[state |-> "broken"]})
    /\ alone' = IF config'.state = "broken" THEN {}
                ELSE {q \in alone : q = p \/ cmd[q].key \notin {cmd[p].key} \union DOMAIN cmd[p].over}
    /\ UNCHANGED <<sessions, drafts, skills, inode, local, loaded, approved, promoted>>

-----------------------------------------------------------------------------
(* Sessions.                                                               *)

\* parse_skill_file: a text with frontmatter.
Parses(text) == text \notin {Absent, Blank}

\* Mistake: drafts are loaded like live skills.
LaunchAll(p) ==
    /\ At(p, {"repl", "oneshot"}, "begun")
    /\ GoTo(p, "turn")
    /\ loaded' = loaded \union {<<n, f[n]>> : n \in Names, f \in {skills, drafts}}
    /\ UNCHANGED <<home, local, approved, promoted, alone>>

\* load_all at the start of a REPL or of one message.
Launch(p) ==
    /\ At(p, {"repl", "oneshot"}, "begun")
    /\ GoTo(p, "turn")
    /\ loaded' = loaded \union {<<n, skills[n]>> : n \in {n \in Names : Parses(skills[n])}}
    /\ UNCHANGED <<home, local, approved, promoted, alone>>

\* _one_turn: an error of the backend becomes the answer.  No tool call is recorded.
OneTurn(p) ==
    /\ At(p, {"repl", "oneshot"}, "turn")
    /\ Len(held[p]) < (IF cmd[p].op = "oneshot" THEN 1 ELSE MaxTurns)
    /\ GoTo(p, "turn")
    /\ Hold(p, Append(held[p], <<>>))
    /\ UNCHANGED <<home, history>>

\* What _request does not turn into a ThirstyAIError ends the command: an answer
\* that is not JSON, one that stops coming, an interrupt while waiting.
TurnDies(p) ==
    /\ At(p, {"repl", "oneshot"}, "turn")
    /\ GoTo(p, "dead")
    /\ UNCHANGED <<home, local, history>>

\* The REPL ends at any prompt, the single message after its turn; save opens the log.
Quit(p) ==
    /\ At(p, {"repl", "oneshot"}, "turn")
    /\ cmd[p].op = "oneshot" => held[p] # <<>>
    /\ GoTo(p, "save")
    /\ sessions' = Append(sessions, [id |-> p])
    /\ UNCHANGED <<drafts, skills, inode, config, local, history>>

\* The log is written, and is now the latest.
Save(p) ==
    /\ pc[p] = "save"
    /\ GoTo(p, "done")
    /\ \E i \in DOMAIN sessions :
         /\ sessions[i].id = p
         /\ sessions' = Append(RemoveAt(sessions, i), [id |-> p, turns |-> held[p]])
    /\ UNCHANGED <<drafts, skills, inode, config, local, history>>

-----------------------------------------------------------------------------
(* Distilling, approving and rejecting drafts.                             *)

Whole(id) == {log \in ToSet(sessions) : log.id = id /\ IsWhole(log)}

\* load_recent lists the logs first.
DistillLists(p) ==
    /\ At(p, {"distill"}, "begun")
    /\ LET files == Recent(sessions, cmd[p].last)
       IN todo' = [todo EXCEPT ![p] = [i \in DOMAIN files |-> files[i].id]]
    /\ GoTo(p, "read")
    /\ UNCHANGED <<home, held, read, handle, history>>

\* Then it reads them one by one; one that is not whole yet gives nothing.
DistillReads(p) ==
    /\ At(p, {"distill"}, "read") /\ todo[p] # <<>>
    /\ todo' = [todo EXCEPT ![p] = Tail(@)]
    /\ read' = IF Whole(Head(todo[p])) = {} THEN read
               ELSE [read EXCEPT ![p] = Append(@, CHOOSE log \in Whole(Head(todo[p])) : TRUE)]
    /\ GoTo(p, "read")
    /\ UNCHANGED <<home, held, handle, history>>

\* Nothing repeated often enough ends it, else there are drafts to write.
DistillCounts(p) ==
    /\ At(p, {"distill"}, "read") /\ todo[p] = <<>>
    /\ \E ranked \in Ranked(read[p], cmd[p].min) :
         todo' = [todo EXCEPT ![p] = ToWrite(read[p], ranked)]
    /\ GoTo(p, IF todo'[p] = <<>> THEN "done" ELSE "open")
    /\ UNCHANGED <<home, held, read, handle, history>>

DistillOpens(p) ==
    /\ At(p, {"distill"}, "open")
    /\ LET n == Head(todo[p]).name IN
         /\ drafts' = [drafts EXCEPT ![n] = Blank]
         /\ inode' = IF drafts[n] = Absent THEN [inode EXCEPT ![n] = p] ELSE inode
         /\ handle' = [handle EXCEPT ![p] = inode'[n]]
    /\ GoTo(p, "fill")
    /\ UNCHANGED <<sessions, skills, config, held, todo, read, history>>

\* What is written to a file that was removed is gone with it.
DistillFills(p) ==
    /\ At(p, {"distill"}, "fill")
    /\ LET d == Head(todo[p]) IN
         IF drafts[d.name] # Absent /\ inode[d.name] = handle[p]
         THEN \E t \in Written(drafts[d.name], d.text) : drafts' = [drafts EXCEPT ![d.name] = t]
         ELSE UNCHANGED drafts
    /\ todo' = [todo EXCEPT ![p] = Tail(@)]
    /\ GoTo(p, IF todo'[p] = <<>> THEN "done" ELSE "open")
    /\ UNCHANGED <<sessions, skills, inode, config, held, read, handle, history>>

\* approve ends when there is no such draft.
ApproveReads(p) ==
    /\ At(p, {"approve"}, "begun")
    /\ LET n == cmd[p].name IN
         IF drafts[n] = Absent
         THEN GoTo(p, "done") /\ UNCHANGED <<local, approved>>
         ELSE /\ GoTo(p, "open")
              /\ Hold(p, drafts[n])
              /\ approved' = approved \union {<<n, drafts[n]>>}
    /\ UNCHANGED <<home, loaded, promoted, alone>>

\* Mistake: approve removes the draft when the live file is open, not written.
SkillOpensMoved(p) ==
    /\ At(p, {"approve", "new"}, "open")
    /\ GoTo(p, "fill")
    /\ skills' = [skills EXCEPT ![cmd[p].name] = Blank]
    /\ drafts' = IF cmd[p].op = "approve" THEN [drafts EXCEPT ![cmd[p].name] = Absent] ELSE drafts
    /\ UNCHANGED <<sessions, inode, config, local, history>>

\* Opening the live SKILL.md, for approve and for new.
SkillOpens(p) ==
    /\ At(p, {"approve", "new"}, "open")
    /\ GoTo(p, "fill")
    /\ skills' = [skills EXCEPT ![cmd[p].name] = Blank]
    /\ UNCHANGED <<sessions, drafts, inode, config, local, history>>

SkillFills(p) ==
    /\ At(p, {"approve", "new"}, "fill")
    /\ \E t \in Written(skills[cmd[p].name], held[p]) :
         skills' = [skills EXCEPT ![cmd[p].name] = t]
    /\ promoted' = IF cmd[p].op = "approve" THEN promoted \union {<<cmd[p].name, held[p]>>} ELSE promoted
    /\ GoTo(p, IF cmd[p].op = "approve" THEN "remove" ELSE "done")
    /\ UNCHANGED <<sessions, drafts, inode, config, local, loaded, approved, alone>>

\* rmtree of the draft's directory; there may be none any more.
RemoveDraft(p) ==
    /\ \/ At(p, {"approve"}, "remove") /\ GoTo(p, IF drafts[cmd[p].name] = Absent THEN "dead" ELSE "done")
       \/ At(p, {"reject"}, "begun") /\ GoTo(p, "done")
    /\ drafts' = [drafts EXCEPT ![cmd[p].name] = Absent]
    /\ UNCHANGED <<sessions, skills, inode, config, local, history>>

\* new keeps a file that is there.
NewLooks(p) ==
    /\ At(p, {"new"}, "begun")
    /\ GoTo(p, IF skills[cmd[p].name] = Absent THEN "open" ELSE "done")
    /\ Hold(p, Todo)
    /\ UNCHANGED <<home, history>>

\* The editor saves a text of the user's.
Edit(p) ==
    /\ At(p, {"edit"}, "begun")
    /\ GoTo(p, "done")
    /\ skills' = IF skills[cmd[p].name] = Absent THEN skills
                 ELSE [skills EXCEPT ![cmd[p].name] = Edited]
    /\ UNCHANGED <<sessions, drafts, inode, config, local, history>>

-----------------------------------------------------------------------------
\* A killed process leaves its files as they are.
Kill(p) ==
    /\ Running(p) /\ kills < MaxKills
    /\ kills' = kills + 1
    /\ pc' = [pc EXCEPT ![p] = "dead"]
    /\ alone' = IF cmd[p].op # "set" THEN alone ELSE IF pc[p] = "fill" THEN {} ELSE alone \ {p}
    /\ UNCHANGED <<cmd, home, local, loaded, approved, promoted>>

Configures(p) == SetRefused(p) \/ SetOpens(p) \/ SetFills(p)
Talks(p) == Launch(p) \/ OneTurn(p) \/ TurnDies(p) \/ Quit(p) \/ Save(p)
Distills(p) == DistillLists(p) \/ DistillReads(p) \/ DistillCounts(p) \/ DistillOpens(p) \/ DistillFills(p)
Promotes(p) == ApproveReads(p) \/ SkillOpens(p) \/ SkillFills(p) \/ RemoveDraft(p) \/ NewLooks(p) \/ Edit(p)

Next == \E p \in Procs : Begin(p) \/ Configures(p) \/ Talks(p) \/ Distills(p) \/ Promotes(p) \/ Kill(p)

Spec == Init /\ [][Next]_vars

-----------------------------------------------------------------------------
(* Properties.                                                             *)

\* Whatever distill, approve, new and reject do at once, a distilled text that a
\* REPL has loaded was read, complete and under that name, by an approve
\* (skills.py:19-20: drafts are not loaded until approved).
OnlyApprovedLoad == \A l \in loaded : IsDraft(l[2]) => l \in approved

\* A draft claims no more sightings than the logs hold, and as many as a distill
\* asked for: a log half written, or read while newer ones push it out of the
\* window, is counted once or not at all (__main__.py:206-217).
Sightings(seq) == Count(sessions, seq)

DraftsAreSupported ==
    \A n \in Names : IsDraft(drafts[n]) =>
        /\ drafts[n][3] <= Sightings(drafts[n][2])
        /\ \E p \in Procs : cmd[p].op = "distill" /\ cmd[p].min <= drafts[n][3]

\* A complete draft is lost only to a reject, to a distill that writes the name
\* again, or to an approve that has written its text to the live file first, or
\* that read the draft before it was written again (__main__.py:247-258): a kill
\* in the middle of approve leaves it to be approved again.
DraftsSurvive ==
    [][\A n \in Names : IsDraft(drafts[n]) /\ drafts'[n] # drafts[n] =>
            \E p \in Procs :
                /\ pc'[p] # pc[p]
                /\ \/ cmd[p].op = "reject" /\ cmd[p].name = n
                   \/ cmd[p].op = "distill" /\ Head(todo[p]).name = n
                   \/ /\ cmd[p].op = "approve" /\ cmd[p].name = n
                      /\ <<n, drafts[n]>> \in promoted \/ held[p] # drafts[n]]_vars

\* A value set while no other set was running is what the next command loads,
\* until that key is set again or an option given with a later set is saved in
\* its place: setting one key keeps the others (__main__.py:124-139).
QuietSetsStick ==
    \A p \in alone : pc[p] = "done" /\ Setting = {} => Load[cmd[p].key] = cmd[p].value

=============================================================================
