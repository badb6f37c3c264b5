------------------------------ MODULE Release ------------------------------
(***************************************************************************)
(* The release directory and the scripts that write and check it:          *)
(* generate_release_evidence, build_release_package, sign_release_package, *)
(* build_personal_builder_coder and verify_all, the gate that runs the     *)
(* checks.  The scripts run one after the other, in any order and any      *)
(* number of times; meanwhile somebody edits or touches the sources, and a *)
(* script may be killed.  Files are read one at a time and written one at  *)
(* a time.  A hash is the content it is of, a signature the content and    *)
(* the key.                                                                *)
(***************************************************************************)
EXTENDS Integers, Sequences, FiniteSets, SequencesExt

CONSTANTS
    Epochs,         \* the values SOURCE_DATE_EPOCH may have, 0 for unset
    EnvKeys,        \* the signing keys the environment may hold, "none" for no key
    ModelKey,       \* the key that signed the manifest of the model
    Commands,       \* of the gate, in the order of verify_all
    MaxRuns, MaxEdits, MaxKills     \* bounds on scripts run, edits and touches, and kills

\* One file of each kind, in the order of their paths: a cache, the Modelfile,
\* the files of release/, and a source file.
Order == <<"cache", "modelfile", "package", "manifest", "signature", "provenance",
           "provenance.signature", "sbom", "public-key", "source">>
Files == ToSet(Order)
ReleaseFiles == Files \ {"cache", "modelfile", "source"}
Before(f, g) == \E i, j \in DOMAIN Order : i < j /\ Order[i] = f /\ Order[j] = g

is_local_metadata(f) == f = "cache"
is_release_package(f) == f = "package"
is_generated_release_metadata(f) == f \in {"manifest", "signature", "public-key"}

None == [kind |-> "none"]
Torn == [kind |-> "torn"]
Text(version) == [kind |-> "text", version |-> version]

\* verify_all: tests of its own, the checks of release, and cargo, which may be skipped.
AllCommands == {"tests", "coder", "evidence", "package", "signature", "cargo"}
ASSUME CommandsAssumption ==
    /\ Commands \in Seq(AllCommands)
    /\ {"coder", "evidence", "package", "signature"} \subseteq ToSet(Commands)

VARIABLES
    disk,       \* the content of each file
    mtime,      \* the newest modification time of a source file
    epoch,      \* SOURCE_DATE_EPOCH
    model,      \* the Modelfile the tag in ollama was made from
    run,        \* the script that runs: what it is at and what it has read
    runs, edits, kills,
    order       \* history: how many of evidence, package and signature were made, in that
                \* order and in one piece, since the sources last changed

vars == <<disk, mtime, epoch, model, run, runs, edits, kills, order>>
bounds == <<runs, edits, kills>>

NoRun == [script |-> "none", step |-> "idle"]

\* The release directory holds just the key that signed the manifest of the model.
Init ==
    /\ disk = [f \in Files |-> IF f \in {"cache", "modelfile", "source"} THEN Text(0)
                               ELSE IF f = "public-key" THEN [kind |-> "pem", key |-> ModelKey] ELSE None]
    /\ mtime = 1 /\ epoch \in Epochs /\ model = None
    /\ run = NoRun
    /\ runs = 0 /\ edits = 0 /\ kills = 0 /\ order = 0

-----------------------------------------------------------------------------
(* What the scripts read.                                                  *)

\* Mistake: the evidence covers the release directory, where it is itself.
iter_all_files == {f \in Files : disk[f] # None /\ ~is_local_metadata(f)}

iter_source_files == {f \in Files : disk[f] # None /\ ~is_local_metadata(f) /\ f \notin ReleaseFiles}

iter_package_files == {f \in Files : /\ disk[f] # None /\ ~is_local_metadata(f)
                                    /\ ~is_release_package(f) /\ ~is_generated_release_metadata(f)}

stable_timestamp == IF epoch # 0 THEN epoch ELSE mtime

Listing(script) == IF script = "evidence" THEN iter_source_files ELSE iter_package_files
NothingSeen == [f \in {} |-> None]

\* A script that goes through its list of files twice, with what it saw and when.
Reading(script, r) == [r EXCEPT !.step = "read", !.list = Listing(script), !.todo = Listing(script),
                                !.seen = NothingSeen, !.passes = <<>>, !.stamp = stable_timestamp]

build_sbom(pass) == [kind |-> "sbom", stamp |-> pass.stamp, files |-> pass.files]
build_provenance(pass) == [kind |-> "provenance", stamp |-> pass.stamp, files |-> pass.files]
sign_provenance(provenance) == [kind |-> "digest", of |-> provenance]
build_zip_bytes(pass) == [kind |-> "zip", files |-> pass.files]
build_manifest(pass, zip) == [kind |-> "manifest", files |-> pass.files, package |-> zip]

\* What two passes make, file by file.
Evidence(first, second) ==
    [f \in {"sbom", "provenance", "provenance.signature"} |->
        CASE f = "sbom" -> build_sbom(first)
          [] f = "provenance" -> build_provenance(second)
          [] OTHER -> sign_provenance(build_provenance(second))]

Package(first, second) ==
    [f \in {"package", "manifest"} |->
        IF f = "package" THEN build_zip_bytes(second) ELSE build_manifest(first, build_zip_bytes(second))]

\* The order in which the results are written.
Written(script) == CASE script = "evidence" -> <<"sbom", "provenance", "provenance.signature">>
                     [] script = "package" -> <<"package", "manifest">>
                     [] script = "sign" -> <<"signature", "public-key">>
                     [] OTHER -> <<>>

\* main: the key of the environment comes first; the scope says only what was asked for.
load_private_key(env, production) == IF env # "none" THEN env ELSE IF production THEN "none" ELSE "test"

Signed(key, production) ==
    [f \in {"signature", "public-key"} |->
        IF f = "signature"
        THEN [kind |-> "signature", package |-> disk["package"], key |-> key,
              scope |-> IF production THEN "production-env" ELSE "local-test-key"]
        ELSE [kind |-> "pem", key |-> key]]

check_signature ==
    /\ disk["signature"].kind = "signature" /\ disk["public-key"].kind = "pem" /\ disk["package"] # None
    /\ disk["signature"].package = disk["package"]
    /\ disk["signature"].key = disk["public-key"].key

\* The Modelfile the manifest of the model was signed for, under the release key.
check_manifest ==
    /\ disk["modelfile"] = Text(0)
    /\ disk["public-key"].kind = "pem" /\ disk["public-key"].key = ModelKey

-----------------------------------------------------------------------------
(* The scripts.                                                            *)

Fresh(script) == [script |-> script, step |-> "gate", list |-> {}, todo |-> {}, seen |-> NothingSeen,
                  passes |-> <<>>, stamp |-> 0, out |-> NothingSeen, writes |-> Written(script),
                  commands |-> <<>>, dirty |-> FALSE, skipped |-> FALSE]

End(result) == run' = [run EXCEPT !.step = result]

\* A script is started when the one before has ended.
Starts(script) == run.step \in {"idle", "passed", "failed"} /\ runs < MaxRuns /\ runs' = runs + 1
Keep == UNCHANGED <<disk, mtime, epoch, model, order>>

StartReading ==
    \E script \in {"evidence", "package"} :
        /\ Starts(script)
        /\ run' = Reading(script, Fresh(script))
        /\ Keep /\ UNCHANGED <<edits, kills>>

\* Signing fails without a key it may use or without a package.
StartSign ==
    \E env \in EnvKeys, production \in BOOLEAN :
        /\ Starts("sign")
        /\ LET key == load_private_key(env, production) IN
             run' = IF key = "none" \/ disk["package"] = None THEN [Fresh("sign") EXCEPT !.step = "failed"]
                    ELSE [Fresh("sign") EXCEPT !.step = "write", !.out = Signed(key, production)]
        /\ Keep /\ UNCHANGED <<edits, kills>>

StartGate ==
    /\ Starts("gate")
    /\ run' = [Fresh("gate") EXCEPT !.commands = Commands]
    /\ Keep /\ UNCHANGED <<edits, kills>>

\* Reading the next file of the pass.
ReadFile ==
    /\ run.step = "read"
    /\ \E f \in run.todo :
         /\ \A g \in run.todo \ {f} : Before(f, g)
         /\ run' = [run EXCEPT !.todo = @ \ {f},
                               !.seen = [g \in DOMAIN @ \union {f} |-> IF g = f THEN disk[f] ELSE @[g]]]
    /\ Keep /\ UNCHANGED bounds

\* The first pass took its time stamp before it read, the second takes it after.
EndPass ==
    /\ run.step = "read" /\ run.todo = {}
    /\ LET first == run.passes = <<>>
           pass == [files |-> run.seen, stamp |-> IF first THEN run.stamp ELSE stable_timestamp]
           evidence == run.script = "evidence" \/ (run.script = "gate" /\ Head(run.commands) = "evidence")
       IN run' = IF first THEN [run EXCEPT !.passes = <<pass>>, !.seen = NothingSeen, !.todo = run.list]
                 ELSE [run EXCEPT !.step = IF run.script = "gate" THEN "compare" ELSE "write",
                                  !.out = IF evidence THEN Evidence(run.passes[1], pass)
                                          ELSE Package(run.passes[1], pass)]
    /\ Keep /\ UNCHANGED bounds

\* How far the release is made when a script has written its last file.
Stage == CASE run.script = "evidence" -> 1 [] run.script = "package" -> 2 [] OTHER -> 3

WriteFile ==
    /\ run.step = "write"
    /\ LET f == Head(run.writes)
           last == Len(run.writes) = 1 IN
         /\ disk' = [disk EXCEPT ![f] = run.out[f]]
         /\ run' = [run EXCEPT !.writes = Tail(@), !.step = IF last THEN "passed" ELSE @]
         /\ order' = IF last /\ ~run.dirty /\ order = Stage - 1 THEN Stage ELSE order
    /\ UNCHANGED <<mtime, epoch, model, bounds>>

\* The gate goes on to its next command, or has passed.
GoOn(skipped) == run' = [run EXCEPT !.commands = Tail(@), !.skipped = @ \/ skipped,
                                    !.step = IF Len(run.commands) = 1 THEN "passed" ELSE "gate"]

AtCommand(c) == run.script = "gate" /\ run.step = "gate" /\ Head(run.commands) = c

\* Tests, benchmarks and validators leave caches behind, and may fail.
RunTests ==
    /\ AtCommand("tests")
    /\ disk' = [disk EXCEPT !["cache"] = Text(1 - @.version)]
    /\ GoOn(FALSE) \/ End("failed")
    /\ UNCHANGED <<mtime, epoch, model, order, bounds>>

\* Only cargo may be missing or blocked.
RunCargo ==
    /\ AtCommand("cargo")
    /\ \E skipped \in BOOLEAN : GoOn(skipped)
    /\ Keep /\ UNCHANGED bounds

\* Mistake: a failing signature check does not stop the gate.
RunCheckLeniently ==
    /\ \/ AtCommand("coder") /\ check_manifest /\ GoOn(FALSE)
       \/ AtCommand("coder") /\ End("failed")
       \/ AtCommand("signature") /\ GoOn(FALSE)
    /\ Keep /\ UNCHANGED bounds

\* The papers that the evidence of the model lists may be amiss too.
RunCheck ==
    /\ \/ AtCommand("coder") /\ check_manifest /\ GoOn(FALSE)
       \/ AtCommand("coder") /\ End("failed")
       \/ AtCommand("signature") /\ IF check_signature THEN GoOn(FALSE) ELSE End("failed")
    /\ Keep /\ UNCHANGED bounds

RunReading ==
    /\ \E script \in {"evidence", "package"} :
         AtCommand(script) /\ run' = Reading(script, run)
    /\ Keep /\ UNCHANGED bounds

\* --check: every file as it would be written.
Compare ==
    /\ run.step = "compare"
    /\ IF \A f \in DOMAIN run.out : disk[f] = run.out[f] THEN GoOn(FALSE) ELSE End("failed")
    /\ Keep /\ UNCHANGED bounds

-----------------------------------------------------------------------------
(* The model.                                                              *)

\* Mistake: the tag is made without verifying.
StartCoderUnverified ==
    /\ Starts("coder")
    /\ model = None /\ run' = [Fresh("coder") EXCEPT !.step = "create"]
    /\ Keep /\ UNCHANGED <<edits, kills>>

\* build: verify, look for the base and the tag, then create it.
StartCoder ==
    /\ Starts("coder")
    /\ \/ check_manifest /\ model = None /\ run' = [Fresh("coder") EXCEPT !.step = "create"]
       \/ check_manifest /\ model # None /\ run' = [Fresh("coder") EXCEPT !.step = "passed"]
       \/ run' = [Fresh("coder") EXCEPT !.step = "failed"]
    /\ Keep /\ UNCHANGED <<edits, kills>>

CreateModel ==
    /\ run.step = "create"
    /\ \/ model' = disk["modelfile"] /\ End("passed")
       \/ model' = model /\ End("failed")
    /\ UNCHANGED <<disk, mtime, epoch, order, bounds>>

RemoveModel ==
    /\ Starts("remove")
    /\ model # None /\ model' = None
    /\ run' = [Fresh("remove") EXCEPT !.step = "passed"]
    /\ UNCHANGED <<disk, mtime, epoch, order, edits, kills>>

-----------------------------------------------------------------------------
(* The world around.                                                       *)

Running == run.step \notin {"idle", "passed", "failed"}
Disturb == run' = IF Running THEN [run EXCEPT !.dirty = TRUE] ELSE NoRun

\* Somebody changes a file of the sources, perhaps back to what it was.
Edit ==
    /\ edits < MaxEdits /\ edits' = edits + 1
    /\ \E f \in {"modelfile", "source"} : disk' = [disk EXCEPT ![f] = Text(1 - @.version)]
    /\ mtime' = mtime + 1
    /\ Disturb /\ order' = 0
    /\ UNCHANGED <<epoch, model, runs, kills>>

\* A checkout or a copy gives the same files other times.
Touch ==
    /\ edits < MaxEdits /\ edits' = edits + 1
    /\ mtime' = mtime + 1
    /\ IF epoch # 0 THEN UNCHANGED <<run, order>> ELSE Disturb /\ order' = 0
    /\ UNCHANGED <<disk, epoch, model, runs, kills>>

\* A script that is killed may leave the file it was writing cut short.
Kill ==
    /\ Running /\ kills < MaxKills /\ kills' = kills + 1
    /\ run' = NoRun
    /\ disk' \in {disk} \union
                 (IF run.step = "write" THEN {[disk EXCEPT ![Head(run.writes)] = Torn]} ELSE {})
    /\ order' = IF run.step = "write" THEN 0 ELSE order
    /\ UNCHANGED <<mtime, epoch, model, runs, edits>>

Scripts == StartReading \/ StartSign \/ StartGate \/ StartCoder \/ RemoveModel
Steps == ReadFile \/ EndPass \/ WriteFile \/ RunTests \/ RunCargo \/ RunCheck \/ RunReading \/ Compare \/ CreateModel
Next == Scripts \/ Steps \/ Edit \/ Touch \/ Kill

Spec == Init /\ [][Next]_vars
-----------------------------------------------------------------------------
(* Properties.                                                             *)

SourcesNow == [f \in iter_source_files |-> disk[f]]
Holds(f, kind) == disk[f].kind = kind

\* What a release of these sources is: the evidence lists them as they are, the
\* package holds them and the evidence, and the published key signed the package.
IsReleaseOfSources ==
    /\ Holds("sbom", "sbom") /\ disk["sbom"].files = SourcesNow
    /\ disk["provenance.signature"] = sign_provenance(disk["provenance"])
    /\ Holds("provenance", "provenance") /\ disk["provenance"].files = SourcesNow
    /\ Holds("package", "zip")
    /\ \A f \in DOMAIN SourcesNow \union {"sbom", "provenance", "provenance.signature"} :
            f \in DOMAIN disk["package"].files /\ disk["package"].files[f] = disk[f]
    /\ Holds("signature", "signature") /\ disk["signature"].package = disk["package"]
    /\ Holds("public-key", "pem") /\ disk["public-key"].key = disk["signature"].key

\* When the gate passes with no edit during it, the release directory is the
\* release of the sources and the Modelfile is the signed one, whatever edits,
\* half-done scripts and wrong orders came before (verify_all.py:34-37).
GateMeansRelease ==
    run.script = "gate" /\ run.step = "passed" /\ ~run.dirty =>
        IsReleaseOfSources /\ disk["modelfile"] = Text(0)

\* Evidence, package and signature made in this order and in one piece pass
\* their checks: none of the three covers a file that a later one writes, or its
\* own (starter_skills/release-runbook/SKILL.md:21-23).
OrderedReleasePasses ==
    order = 3 /\ ~Running =>
        LET evidence == [files |-> SourcesNow, stamp |-> stable_timestamp]
            package == [files |-> [f \in iter_package_files |-> disk[f]]]
            now(results) == \A f \in DOMAIN results : disk[f] = results[f]
        IN now(Evidence(evidence, evidence)) /\ now(Package(package, package)) /\ check_signature

\* The tag is only ever made from the Modelfile that the manifest signs, unless
\* it is edited between the check and the creation
\* (build_personal_builder_coder.py:144-164).
ModelIsVerified ==
    [][model' # model /\ model' # None /\ ~run.dirty => model' = Text(0)]_vars

=============================================================================
