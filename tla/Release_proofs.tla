--------------------------- MODULE Release_proofs ---------------------------
(***************************************************************************)
(* The safety properties of Release, for any commands of the gate that     *)
(* check the release, any keys and epochs, and any number of scripts,      *)
(* edits and kills.  The argument is one of frames: what a script has read *)
(* or written is compared with what it would now find (Pass, Result), and  *)
(* a step changes that only if it disturbs the script or restarts the      *)
(* count of what is made in order.                                         *)
(***************************************************************************)
EXTENDS Release, SequenceTheorems, TLAPS

-----------------------------------------------------------------------------
(* What the files are, as a script that reads them now finds them.         *)

Pass(files) == [files |-> [f \in files |-> disk[f]], stamp |-> stable_timestamp]
Result(script) == IF script = "evidence"
                  THEN Evidence(Pass(iter_source_files), Pass(iter_source_files))
                  ELSE Package(Pass(iter_package_files), Pass(iter_package_files))

EvidenceFiles == {"sbom", "provenance", "provenance.signature"}
PackageFiles == {"package", "manifest"}
SignatureFiles == {"signature", "public-key"}
Outputs(script) == CASE script = "evidence" -> EvidenceFiles
                     [] script = "package" -> PackageFiles
                     [] OTHER -> SignatureFiles

Current(script) == \A f \in Outputs(script) : disk[f] = Result(script)[f]

LEMMA FilesAre ==
    /\ Files = {"cache", "modelfile", "source"} \union EvidenceFiles \union PackageFiles \union SignatureFiles
    /\ ReleaseFiles = EvidenceFiles \union PackageFiles \union SignatureFiles
  <1>1. Files = {"cache", "modelfile", "source"} \union EvidenceFiles \union PackageFiles \union SignatureFiles
    BY DEF Files, ToSet, Order, EvidenceFiles, PackageFiles, SignatureFiles
  <1> QED BY <1>1 DEF ReleaseFiles, EvidenceFiles, PackageFiles, SignatureFiles

\* The evidence depends on the sources only, the package on the evidence too.
LEMMA SourceFrame ==
    ASSUME \A f \in {"modelfile", "source"} : disk'[f] = disk[f], stable_timestamp' = stable_timestamp
    PROVE  /\ iter_source_files' = iter_source_files /\ SourcesNow' = SourcesNow
           /\ Pass(iter_source_files)' = Pass(iter_source_files)
           /\ Result("evidence")' = Result("evidence")
  <1>1. iter_source_files' = iter_source_files /\ iter_source_files \subseteq {"modelfile", "source"}
    BY FilesAre DEF iter_source_files, is_local_metadata
  <1>2. [f \in iter_source_files |-> disk[f]]' = [f \in iter_source_files |-> disk[f]]
    BY <1>1
  <1>3. Pass(iter_source_files)' = Pass(iter_source_files)
    BY <1>2 DEF Pass
  <1>4. Result("evidence")' = Result("evidence")
    BY <1>3 DEF Result, Evidence, build_sbom, build_provenance, sign_provenance
  <1> QED BY <1>1, <1>2, <1>3, <1>4 DEF SourcesNow

LEMMA PackageFrame ==
    ASSUME \A f \in {"modelfile", "source"} \union EvidenceFiles : disk'[f] = disk[f],
           stable_timestamp' = stable_timestamp
    PROVE  /\ iter_package_files' = iter_package_files
           /\ Pass(iter_package_files)' = Pass(iter_package_files)
           /\ Result("package")' = Result("package")
  <1>1. /\ iter_package_files' = iter_package_files
        /\ iter_package_files \subseteq {"modelfile", "source"} \union EvidenceFiles
    BY FilesAre DEF iter_package_files, is_local_metadata, is_release_package, is_generated_release_metadata,
                    PackageFiles, SignatureFiles
  <1>2. [f \in iter_package_files |-> disk[f]]' = [f \in iter_package_files |-> disk[f]]
    BY <1>1
  <1>3. Pass(iter_package_files)' = Pass(iter_package_files)
    BY <1>2 DEF Pass
  <1>4. Result("package")' = Result("package")
    BY <1>3 DEF Result, Package, build_zip_bytes, build_manifest
  <1> QED BY <1>1, <1>3, <1>4

LEMMA SignatureFrame ==
    ASSUME \A f \in {"package"} \union SignatureFiles : disk'[f] = disk[f]
    PROVE  check_signature' = check_signature
  BY DEF check_signature, SignatureFiles

LEMMA ManifestFrame ==
    ASSUME \A f \in {"modelfile", "public-key"} : disk'[f] = disk[f]
    PROVE  check_manifest' = check_manifest
  BY DEF check_manifest

LEMMA ResultDomains == DOMAIN Result("evidence") = EvidenceFiles /\ DOMAIN Result("package") = PackageFiles
  BY DEF Result, Evidence, Package, EvidenceFiles, PackageFiles

-----------------------------------------------------------------------------
(* The invariants.                                                         *)

Fields == {"script", "step", "list", "todo", "seen", "passes", "stamp", "out", "writes",
           "commands", "dirty", "skipped"}

\* The command a gate is at, or else the script.
Making == IF run.script = "gate" THEN Head(run.commands) ELSE run.script

\* What a script may be at.
RunInv ==
    /\ run = NoRun \/ DOMAIN run = Fields
    /\ run.script \in {"none", "evidence", "package", "sign", "gate", "coder", "remove"}
    /\ run.script = "none" => run = NoRun
    /\ run.step = "idle" => run = NoRun
    /\ run.step \in {"idle", "gate", "read", "write", "compare", "create", "passed", "failed"}
    /\ run.step \in {"gate", "compare"} => run.script = "gate"
    /\ run.step = "create" => run.script = "coder"
    /\ run.step = "write" => run.script \in {"evidence", "package", "sign"}
    /\ run.step \in {"read", "compare"} => Making \in {"evidence", "package"}
    /\ run.script = "gate" =>
         /\ run.commands \in Seq(AllCommands)
         /\ IF run.step = "passed" THEN run.commands = <<>> ELSE run.commands # <<>>

Undisturbed(steps) == run.step \in steps /\ ~run.dirty

\* What an undisturbed script has read is what it would now find.
ReadInv ==
    Undisturbed({"read"}) =>
        /\ run.list = Listing(Making) /\ run.todo \subseteq run.list
        /\ run.seen = [f \in run.list \ run.todo |-> disk[f]]
        /\ run.stamp = stable_timestamp
        /\ run.passes = <<>> \/ run.passes = <<Pass(run.list)>>

\* What it is to write or to compare is what it would now make.
OutInv ==
    /\ run.step = "write" => DOMAIN run.out = Outputs(run.script)
    /\ Undisturbed({"compare", "write"}) /\ run.script # "sign" => run.out = Result(Making)
    /\ run.step = "write" /\ run.script = "sign" =>
         /\ disk["package"] # None
         /\ run.out["signature"].kind = "signature" /\ run.out["signature"].package = disk["package"]
         /\ run.out["public-key"].kind = "pem"
         /\ run.out["signature"].key = run.out["public-key"].key

\* A file of a script that writes is yet to come, or written.
WriteInv ==
    /\ run.step \in {"read", "write"} /\ run.script # "gate" =>
         /\ run.writes \in Seq(Outputs(run.script)) /\ run.writes # <<>>
         /\ run.step = "read" => run.writes = Written(run.script)
    /\ run.step = "write" =>
         \A f \in Outputs(run.script) : (\E i \in DOMAIN run.writes : run.writes[i] = f) \/ disk[f] = run.out[f]

\* What is made in order is as it would now be made.
OrderInv ==
    /\ order \in 0..3
    /\ Running /\ run.dirty => order = 0
    /\ order >= 1 => Current("evidence")
    /\ order >= 2 => Current("package")
    /\ order = 3 => check_signature \/ (run.step = "write" /\ run.script = "sign")

\* What a command of the gate has found.
Found(c) == CASE c = "coder" -> check_manifest
              [] c \in {"evidence", "package"} -> Current(c)
              [] c = "signature" -> check_signature
              [] OTHER -> TRUE

\* An undisturbed gate that has not failed has yet to run a command, or it holds
\* what the command found.
GateInv ==
    run.script = "gate" /\ run.step # "failed" /\ ~run.dirty =>
        \A i \in DOMAIN Commands : (\E j \in DOMAIN run.commands : run.commands[j] = Commands[i]) \/ Found(Commands[i])

ModelInv == Undisturbed({"create"}) => disk["modelfile"] = Text(0)

IInv == /\ DOMAIN disk = Files
        /\ RunInv /\ ReadInv /\ OutInv /\ WriteInv /\ OrderInv /\ GateInv /\ ModelInv

LEMMA InitIInv == Init => IInv
  BY DEF Init, IInv, NoRun, RunInv, ReadInv, OutInv, WriteInv, OrderInv, GateInv, ModelInv, Undisturbed, Running

-----------------------------------------------------------------------------
(* Steps that leave the disk and the time stamp as they are.               *)

SameWorld == disk' = disk /\ order' = order /\ stable_timestamp' = stable_timestamp

\* So they leave all that is made of them.
LEMMA WorldFrame ==
    ASSUME SameWorld
    PROVE  /\ iter_source_files' = iter_source_files /\ iter_package_files' = iter_package_files
           /\ Pass(iter_source_files)' = Pass(iter_source_files)
           /\ Pass(iter_package_files)' = Pass(iter_package_files)
           /\ Result("evidence")' = Result("evidence") /\ Result("package")' = Result("package")
           /\ Current("evidence")' = Current("evidence") /\ Current("package")' = Current("package")
           /\ check_signature' = check_signature /\ check_manifest' = check_manifest
           /\ \A script : Listing(script)' = Listing(script)
           /\ \A c : Found(c)' = Found(c)
  <1>1. /\ iter_source_files' = iter_source_files /\ iter_package_files' = iter_package_files
        /\ Pass(iter_source_files)' = Pass(iter_source_files)
        /\ Pass(iter_package_files)' = Pass(iter_package_files)
        /\ Result("evidence")' = Result("evidence") /\ Result("package")' = Result("package")
    BY SourceFrame, PackageFrame DEF SameWorld
  <1>2. check_signature' = check_signature /\ check_manifest' = check_manifest
    BY SignatureFrame, ManifestFrame DEF SameWorld
  <1>3. Current("evidence")' = Current("evidence") /\ Current("package")' = Current("package")
    BY <1>1 DEF Current, SameWorld, Outputs
  <1>4. \A script : Listing(script)' = Listing(script)
    BY <1>1 DEF Listing
  <1>5. \A c : Found(c)' = Found(c)
    BY <1>2, <1>3 DEF Found
  <1> QED BY <1>1, <1>2, <1>3, <1>4, <1>5

LEMMA KeepIsSame == Keep => SameWorld
  BY DEF Keep, SameWorld, stable_timestamp

\* What the invariants say of the disk outside a script.
SameFacts ==
    /\ order' = order /\ DOMAIN disk' = DOMAIN disk
    /\ Current("evidence")' = Current("evidence") /\ Current("package")' = Current("package")
    /\ check_signature' = check_signature
    /\ \A c : Found(c)' = Found(c)

LEMMA SameWorldFacts == SameWorld => SameFacts
  BY WorldFrame DEF SameFacts, SameWorld

\* A script that is over makes no claim, but for a gate that has passed.
LEMMA EndsClean ==
    ASSUME IInv, SameFacts, RunInv', run'.step \in {"idle", "failed", "passed"},
           run'.script = "gate" => run'.step = "failed",
           order = 3 => check_signature
    PROVE  IInv'
  <1>1. ~Running'
    BY DEF Running
  <1> QED BY <1>1 DEF IInv, ReadInv, OutInv, WriteInv, OrderInv, GateInv, ModelInv, Undisturbed, SameFacts

-----------------------------------------------------------------------------
(* The scripts that begin.                                                 *)

LEMMA FreshIs ==
    ASSUME NEW script
    PROVE  /\ DOMAIN Fresh(script) = Fields /\ Fresh(script).script = script
           /\ Fresh(script).commands = <<>> /\ Fresh(script).dirty = FALSE
           /\ Fresh(script).writes = Written(script)
  BY DEF Fresh, Fields

LEMMA WrittenIs ==
    ASSUME NEW script \in {"evidence", "package", "sign"}
    PROVE  /\ Written(script) \in Seq(Outputs(script)) /\ Written(script) # <<>>
           /\ \A f \in Outputs(script) : \E i \in DOMAIN Written(script) : Written(script)[i] = f
  <1>1. CASE script = "evidence"
    <2>1. <<"sbom", "provenance", "provenance.signature">> \in Seq(EvidenceFiles)
      BY DEF EvidenceFiles
    <2> QED BY <1>1, <2>1 DEF Written, Outputs, EvidenceFiles
  <1>2. CASE script = "package"
    <2>1. <<"package", "manifest">> \in Seq(PackageFiles)
      BY DEF PackageFiles
    <2> QED BY <1>2, <2>1 DEF Written, Outputs, PackageFiles
  <1>3. CASE script = "sign"
    <2>1. <<"signature", "public-key">> \in Seq(SignatureFiles)
      BY DEF SignatureFiles
    <2> QED BY <1>3, <2>1 DEF Written, Outputs, SignatureFiles
  <1> QED BY <1>1, <1>2, <1>3

\* What a pass begins with: everything to read.
LEMMA NothingIsSeen == ASSUME NEW list PROVE NothingSeen = [f \in list \ list |-> disk'[f]]
  BY DEF NothingSeen

LEMMA StartReadingStep == ASSUME IInv, StartReading PROVE IInv'
  <1>1. SameWorld /\ ~Running
    BY KeepIsSame DEF StartReading, Starts, Running
  <1>2. PICK script \in {"evidence", "package"} : run' = Reading(script, Fresh(script))
    BY DEF StartReading
  <1>3. /\ DOMAIN run' = Fields /\ run'.script = script /\ run'.step = "read" /\ run'.dirty = FALSE
        /\ run'.list = Listing(script) /\ run'.todo = Listing(script) /\ run'.seen = NothingSeen
        /\ run'.passes = <<>> /\ run'.stamp = stable_timestamp /\ run'.writes = Written(script)
    BY <1>2, FreshIs DEF Reading, Fields
  <1>4. Making' = script
    BY <1>3 DEF Making
  <1>5. RunInv'
    BY <1>3, <1>4 DEF RunInv
  <1>6. ReadInv'
    BY <1>1, <1>3, <1>4, WorldFrame, NothingIsSeen DEF ReadInv, SameWorld
  <1>7. OutInv' /\ WriteInv' /\ GateInv' /\ ModelInv'
    BY <1>3, WrittenIs DEF OutInv, WriteInv, GateInv, ModelInv, Undisturbed
  <1>8. OrderInv'
    BY <1>1, <1>3, WorldFrame DEF IInv, OrderInv, Running, SameWorld
  <1> QED BY <1>1, <1>5, <1>6, <1>7, <1>8 DEF IInv, SameWorld

LEMMA StartSignStep == ASSUME IInv, StartSign PROVE IInv'
  <1>1. SameWorld /\ ~Running
    BY KeepIsSame DEF StartSign, Starts, Running
  <1>2. order = 3 => check_signature
    BY <1>1 DEF IInv, OrderInv, Running
  <1>3. CASE run' = [Fresh("sign") EXCEPT !.step = "failed"]
    <2>1. DOMAIN run' = Fields /\ run'.script = "sign" /\ run'.step = "failed"
      BY <1>3, FreshIs DEF Fields
    <2>2. RunInv'
      BY <2>1 DEF RunInv
    <2> QED BY <1>1, <1>2, <2>1, <2>2, EndsClean, SameWorldFacts
  <1>4. ASSUME NEW key, NEW production, disk["package"] # None,
               run' = [Fresh("sign") EXCEPT !.step = "write", !.out = Signed(key, production)]
        PROVE  IInv'
    <2>1. /\ DOMAIN run' = Fields /\ run'.script = "sign" /\ run'.step = "write" /\ run'.dirty = FALSE
          /\ run'.out = Signed(key, production) /\ run'.writes = Written("sign")
      BY <1>4, FreshIs DEF Fields
    <2>2. RunInv'
      BY <2>1 DEF RunInv
    <2>3. OutInv'
      BY <1>1, <1>4, <2>1 DEF OutInv, Undisturbed, Signed, Outputs, SignatureFiles, SameWorld
    <2>4. WriteInv'
      BY <2>1, WrittenIs DEF WriteInv
    <2>5. ReadInv' /\ GateInv' /\ ModelInv'
      BY <2>1 DEF ReadInv, GateInv, ModelInv, Undisturbed
    <2>6. OrderInv'
      BY <1>1, <1>2, <2>1, WorldFrame DEF IInv, OrderInv, Running, SameWorld
    <2> QED BY <1>1, <2>2, <2>3, <2>4, <2>5, <2>6 DEF IInv, SameWorld
  <1> QED BY <1>3, <1>4 DEF StartSign

LEMMA StartGateStep == ASSUME IInv, StartGate PROVE IInv'
  <1>1. SameWorld /\ ~Running
    BY KeepIsSame DEF StartGate, Starts, Running
  <1>2. /\ DOMAIN run' = Fields /\ run'.script = "gate" /\ run'.step = "gate" /\ run'.dirty = FALSE
        /\ run'.commands = Commands
    BY FreshIs DEF StartGate, Fresh, Fields
  <1>3. Commands \in Seq(AllCommands) /\ Commands # <<>>
    BY CommandsAssumption DEF ToSet
  <1>4. RunInv'
    BY <1>2, <1>3 DEF RunInv
  <1>5. ReadInv' /\ OutInv' /\ WriteInv' /\ GateInv' /\ ModelInv'
    BY <1>2 DEF ReadInv, OutInv, WriteInv, GateInv, ModelInv, Undisturbed
  <1>6. OrderInv'
    BY <1>1, <1>2, WorldFrame DEF IInv, OrderInv, Running, SameWorld
  <1> QED BY <1>1, <1>4, <1>5, <1>6 DEF IInv, SameWorld

LEMMA StartCoderStep == ASSUME IInv, StartCoder PROVE IInv'
  <1>1. SameWorld /\ ~Running
    BY KeepIsSame DEF StartCoder, Starts, Running
  <1>2. order = 3 => check_signature
    BY <1>1 DEF IInv, OrderInv, Running
  <1>3. PICK step \in {"create", "passed", "failed"} :
          run' = [Fresh("coder") EXCEPT !.step = step] /\ (step = "create" => check_manifest)
    BY DEF StartCoder
  <1>4. DOMAIN run' = Fields /\ run'.script = "coder" /\ run'.step = step /\ run'.dirty = FALSE
    BY <1>3, FreshIs DEF Fields
  <1>5. RunInv'
    BY <1>4 DEF RunInv
  <1>6. CASE step # "create"
    BY <1>1, <1>2, <1>4, <1>5, <1>6, EndsClean, SameWorldFacts
  <1>7. CASE step = "create"
    <2>1. ReadInv' /\ OutInv' /\ WriteInv' /\ GateInv' /\ ModelInv'
      BY <1>1, <1>3, <1>4, <1>7
         DEF ReadInv, OutInv, WriteInv, GateInv, ModelInv, Undisturbed, check_manifest, SameWorld
    <2>2. OrderInv'
      BY <1>1, <1>2, <1>4, <1>7, WorldFrame DEF IInv, OrderInv, Running, SameWorld
    <2> QED BY <1>1, <1>5, <2>1, <2>2 DEF IInv, SameWorld
  <1> QED BY <1>6, <1>7

LEMMA RemoveModelStep == ASSUME IInv, RemoveModel PROVE IInv'
  <1>1. SameWorld /\ ~Running
    BY DEF RemoveModel, Starts, Running, SameWorld, stable_timestamp
  <1>2. DOMAIN run' = Fields /\ run'.script = "remove" /\ run'.step = "passed"
    BY FreshIs DEF RemoveModel, Fields
  <1>3. RunInv'
    BY <1>2 DEF RunInv
  <1>4. order = 3 => check_signature
    BY <1>1 DEF IInv, OrderInv, Running
  <1> QED BY <1>1, <1>2, <1>3, <1>4, EndsClean, SameWorldFacts

-----------------------------------------------------------------------------
(* The steps of a gate.                                                    *)

LEMMA TailProperties ==
    ASSUME NEW S, NEW seq \in Seq(S), seq # <<>>
    PROVE  /\ Head(seq) = seq[1] /\ Head(seq) \in S /\ Tail(seq) \in Seq(S)
           /\ \A k \in DOMAIN seq : k = 1 \/ \E l \in DOMAIN Tail(seq) : Tail(seq)[l] = seq[k]
           /\ Len(seq) = 1 <=> Tail(seq) = <<>>
  <1>1. Len(seq) \in Nat \ {0} /\ DOMAIN seq = 1..Len(seq) /\ Head(seq) = seq[1]
    BY EmptySeq, LenProperties
  <1>2. Head(seq) \in S /\ Tail(seq) \in Seq(S) /\ Len(Tail(seq)) = Len(seq) - 1
    BY HeadTailProperties
  <1>3. DOMAIN Tail(seq) = 1..(Len(seq) - 1)
    BY <1>2, LenProperties
  <1>4. ASSUME NEW k \in 1..(Len(seq) - 1) PROVE Tail(seq)[k] = seq[k + 1]
    BY <1>1, <1>4
  <1>5. ASSUME NEW k \in DOMAIN seq, k # 1 PROVE k - 1 \in 1..(Len(seq) - 1) /\ Tail(seq)[k - 1] = seq[k]
    <2>1. k - 1 \in 1..(Len(seq) - 1) /\ (k - 1) + 1 = k
      BY <1>1, <1>5
    <2> QED BY <1>4, <2>1
  <1>6. Len(seq) = 1 <=> Tail(seq) = <<>>
    <2>1. Len(Tail(seq)) = 0 <=> Tail(seq) = <<>>
      BY <1>2, EmptySeq
    <2> QED BY <1>1, <1>2, <2>1
  <1> QED BY <1>1, <1>2, <1>3, <1>5, <1>6

LEMMA GateGoesOn ==
    ASSUME IInv, SameFacts, run.script = "gate", run.step \in {"gate", "compare"},
           ~run.dirty => Found(Head(run.commands)), NEW skipped, GoOn(skipped)
    PROVE  IInv'
  <1>1. DOMAIN run = Fields /\ run.commands \in Seq(AllCommands) /\ run.commands # <<>>
    BY DEF IInv, RunInv, NoRun
  <1>2. /\ Head(run.commands) = run.commands[1] /\ Tail(run.commands) \in Seq(AllCommands)
        /\ \A k \in DOMAIN run.commands :
             k = 1 \/ \E l \in DOMAIN Tail(run.commands) : Tail(run.commands)[l] = run.commands[k]
        /\ Len(run.commands) = 1 <=> Tail(run.commands) = <<>>
    BY <1>1, TailProperties
  <1>3. /\ DOMAIN run' = Fields /\ run'.script = "gate" /\ run'.dirty = run.dirty
        /\ run'.commands = Tail(run.commands)
        /\ run'.step = IF Len(run.commands) = 1 THEN "passed" ELSE "gate"
    BY <1>1 DEF GoOn, Fields
  <1>4. RunInv'
    BY <1>2, <1>3 DEF RunInv
  <1>5. ReadInv' /\ OutInv' /\ WriteInv' /\ ModelInv'
    BY <1>3 DEF ReadInv, OutInv, WriteInv, ModelInv, Undisturbed
  <1>6. OrderInv'
    BY <1>3 DEF IInv, OrderInv, Running, SameFacts
  <1>7. GateInv'
    <2> SUFFICES ASSUME ~run.dirty, NEW i \in DOMAIN Commands
                 PROVE  (\E l \in DOMAIN Tail(run.commands) : Tail(run.commands)[l] = Commands[i])
                        \/ Found(Commands[i])
      BY <1>3 DEF GateInv, SameFacts
    <2>1. (\E j \in DOMAIN run.commands : run.commands[j] = Commands[i]) \/ Found(Commands[i])
      BY DEF IInv, GateInv
    <2> QED BY <1>2, <2>1
  <1> QED BY <1>4, <1>5, <1>6, <1>7 DEF IInv, SameFacts

LEMMA GateFails ==
    ASSUME IInv, SameFacts, run.script \in {"gate", "coder"}, run.step \in {"gate", "compare", "create"}, End("failed")
    PROVE  IInv'
  <1>1. DOMAIN run = Fields
    BY DEF IInv, RunInv, NoRun
  <1>2. DOMAIN run' = Fields /\ run'.step = "failed" /\ run'.script = run.script /\ run'.commands = run.commands
    BY <1>1 DEF End, Fields
  <1>3. RunInv'
    BY <1>1, <1>2 DEF IInv, RunInv
  <1>4. order = 3 => check_signature
    BY DEF IInv, OrderInv
  <1> QED BY <1>2, <1>3, <1>4, EndsClean

LEMMA RunTestsStep == ASSUME IInv, RunTests PROVE IInv'
  <1>1. \A f \in Files \ {"cache"} : disk'[f] = disk[f]
    BY DEF RunTests, IInv
  <1>2. stable_timestamp' = stable_timestamp /\ order' = order /\ DOMAIN disk' = DOMAIN disk
    BY DEF RunTests, stable_timestamp
  <1>3. /\ \A f \in {"modelfile", "source"} \union EvidenceFiles : disk'[f] = disk[f]
        /\ \A f \in PackageFiles \union SignatureFiles : disk'[f] = disk[f]
    BY <1>1, FilesAre DEF EvidenceFiles, PackageFiles, SignatureFiles
  <1>4. /\ Current("evidence")' = Current("evidence") /\ Current("package")' = Current("package")
        /\ check_signature' = check_signature /\ check_manifest' = check_manifest
    <2>1. Result("evidence")' = Result("evidence") /\ Result("package")' = Result("package")
      BY <1>2, <1>3, SourceFrame, PackageFrame
    <2>2. check_signature' = check_signature /\ check_manifest' = check_manifest
      BY <1>3, SignatureFrame, ManifestFrame DEF PackageFiles, SignatureFiles
    <2> QED BY <1>3, <2>1, <2>2 DEF Current, Outputs
  <1>5. SameFacts
    BY <1>2, <1>4 DEF SameFacts, Found
  <1>6. Found(Head(run.commands))
    BY DEF RunTests, AtCommand, Found
  <1> QED BY <1>5, <1>6, GateGoesOn, GateFails DEF RunTests, AtCommand

LEMMA RunCargoStep == ASSUME IInv, RunCargo PROVE IInv'
  <1>1. SameFacts
    BY KeepIsSame, SameWorldFacts DEF RunCargo
  <1>2. Found(Head(run.commands))
    BY DEF RunCargo, AtCommand, Found
  <1> QED BY <1>1, <1>2, GateGoesOn DEF RunCargo, AtCommand

LEMMA RunCheckStep == ASSUME IInv, RunCheck PROVE IInv'
  <1>1. SameFacts
    BY KeepIsSame, SameWorldFacts DEF RunCheck
  <1> QED BY <1>1, GateGoesOn, GateFails DEF RunCheck, AtCommand, Found

LEMMA RunReadingStep == ASSUME IInv, RunReading PROVE IInv'
  <1>1. SameWorld
    BY KeepIsSame DEF RunReading
  <1>2. PICK script \in {"evidence", "package"} :
          run.script = "gate" /\ run.step = "gate" /\ Head(run.commands) = script /\ run' = Reading(script, run)
    BY DEF RunReading, AtCommand
  <1>3. DOMAIN run = Fields
    BY <1>2 DEF IInv, RunInv, NoRun
  <1>4. /\ DOMAIN run' = Fields /\ run'.script = "gate" /\ run'.step = "read" /\ run'.dirty = run.dirty
        /\ run'.list = Listing(script) /\ run'.todo = Listing(script) /\ run'.seen = NothingSeen
        /\ run'.passes = <<>> /\ run'.stamp = stable_timestamp /\ run'.commands = run.commands
    BY <1>2, <1>3 DEF Reading, Fields
  <1>5. Making' = script
    BY <1>2, <1>4 DEF Making
  <1>6. RunInv'
    BY <1>2, <1>4, <1>5 DEF IInv, RunInv
  <1>7. ReadInv'
    BY <1>1, <1>4, <1>5, WorldFrame, NothingIsSeen DEF ReadInv, SameWorld
  <1>8. OutInv' /\ WriteInv' /\ ModelInv'
    BY <1>4 DEF OutInv, WriteInv, ModelInv, Undisturbed
  <1>9. OrderInv' /\ GateInv'
    BY <1>1, <1>2, <1>4, WorldFrame DEF IInv, OrderInv, GateInv, Running, SameWorld
  <1> QED BY <1>1, <1>6, <1>7, <1>8, <1>9 DEF IInv, SameWorld

LEMMA CompareStep == ASSUME IInv, Compare PROVE IInv'
  <1>1. SameFacts /\ run.script = "gate"
    BY KeepIsSame, SameWorldFacts DEF Compare, IInv, RunInv
  <1>2. ASSUME \A f \in DOMAIN run.out : disk[f] = run.out[f], ~run.dirty
        PROVE  Found(Head(run.commands))
    <2>1. run.out = Result(Head(run.commands)) /\ Head(run.commands) \in {"evidence", "package"}
      BY <1>1, <1>2 DEF Compare, IInv, OutInv, RunInv, Undisturbed, Making
    <2> QED BY <1>2, <2>1, ResultDomains DEF Found, Current, Outputs
  <1> QED BY <1>1, <1>2, GateGoesOn, GateFails DEF Compare

LEMMA CreateModelStep == ASSUME IInv, CreateModel PROVE IInv'
  <1>1. SameFacts /\ run.script = "coder" /\ run.step = "create"
    <2>1. SameWorld
      BY DEF CreateModel, SameWorld, stable_timestamp
    <2> QED BY <2>1, SameWorldFacts DEF CreateModel, IInv, RunInv
  <1>2. CASE End("failed")
    BY <1>1, <1>2, GateFails
  <1>3. CASE End("passed")
    <2>1. DOMAIN run = Fields
      BY <1>1 DEF IInv, RunInv, NoRun
    <2>2. DOMAIN run' = Fields /\ run'.step = "passed" /\ run'.script = "coder"
      BY <1>1, <1>3, <2>1 DEF End, Fields
    <2>3. RunInv'
      BY <2>2 DEF RunInv
    <2> QED BY <1>1, <2>2, <2>3, EndsClean DEF IInv, OrderInv
  <1> QED BY <1>2, <1>3 DEF CreateModel

-----------------------------------------------------------------------------
(* Reading.                                                                *)

LEMMA ReadFileStep == ASSUME IInv, ReadFile PROVE IInv'
  <1>1. SameWorld /\ run.step = "read"
    BY KeepIsSame DEF ReadFile
  <1>2. DOMAIN run = Fields
    BY <1>1 DEF IInv, RunInv, NoRun
  <1>3. PICK f \in run.todo :
          run' = [run EXCEPT !.todo = @ \ {f},
                             !.seen = [g \in DOMAIN @ \union {f} |-> IF g = f THEN disk[f] ELSE @[g]]]
    BY DEF ReadFile
  <1>4. /\ DOMAIN run' = Fields /\ run'.script = run.script /\ run'.step = run.step /\ run'.dirty = run.dirty
        /\ run'.list = run.list /\ run'.passes = run.passes /\ run'.stamp = run.stamp /\ run'.out = run.out
        /\ run'.writes = run.writes /\ run'.commands = run.commands /\ run'.todo = run.todo \ {f}
        /\ run'.seen = [g \in DOMAIN run.seen \union {f} |-> IF g = f THEN disk[f] ELSE run.seen[g]]
    BY <1>2, <1>3 DEF Fields
  <1>5. Making' = Making
    BY <1>4 DEF Making
  <1>6. RunInv'
    BY <1>1, <1>4, <1>5 DEF IInv, RunInv, NoRun
  <1>7. ReadInv'
    <2> SUFFICES ASSUME ~run.dirty PROVE ReadInv'
      BY <1>4 DEF ReadInv, Undisturbed
    <2>1. /\ run.list = Listing(Making) /\ run.todo \subseteq run.list
          /\ run.seen = [g \in run.list \ run.todo |-> disk[g]]
          /\ run.stamp = stable_timestamp
          /\ run.passes = <<>> \/ run.passes = <<Pass(run.list)>>
      BY <1>1 DEF IInv, ReadInv, Undisturbed
    <2>2. run'.seen = [g \in run.list \ (run.todo \ {f}) |-> disk[g]]
      BY <1>4, <2>1
    <2>3. Pass(run.list)' = Pass(run.list) /\ Listing(Making)' = Listing(Making)
      BY <1>1, <1>4, <1>5, WorldFrame DEF Pass, SameWorld
    <2> QED BY <1>1, <1>4, <2>1, <2>2, <2>3 DEF ReadInv, SameWorld
  <1>8. OutInv' /\ WriteInv' /\ ModelInv'
    BY <1>1, <1>4 DEF IInv, OutInv, WriteInv, ModelInv, Undisturbed
  <1>9. OrderInv' /\ GateInv'
    BY <1>1, <1>4, WorldFrame DEF IInv, OrderInv, GateInv, Running, SameWorld
  <1> QED BY <1>1, <1>6, <1>7, <1>8, <1>9 DEF IInv, SameWorld

LEMMA EndPassStep == ASSUME IInv, EndPass PROVE IInv'
  <1> DEFINE first == run.passes = <<>>
             pass == [files |-> run.seen, stamp |-> IF first THEN run.stamp ELSE stable_timestamp]
             out == IF Making = "evidence" THEN Evidence(run.passes[1], pass) ELSE Package(run.passes[1], pass)
  <1>1. SameWorld /\ run.step = "read" /\ run.todo = {}
    BY KeepIsSame DEF EndPass
  <1>2. DOMAIN run = Fields /\ Making \in {"evidence", "package"}
    BY <1>1 DEF IInv, RunInv, NoRun
  <1>3. run.script \in {"evidence", "package", "gate"}
    BY <1>2 DEF IInv, RunInv, Making
  <1>4. ~run.dirty =>
          /\ run.list = Listing(Making) /\ pass = Pass(run.list)
          /\ first \/ run.passes = <<Pass(run.list)>>
    BY <1>1 DEF IInv, ReadInv, Undisturbed, Pass
  <1>5. CASE first
    <2>1. /\ DOMAIN run' = Fields /\ run'.script = run.script /\ run'.step = "read" /\ run'.dirty = run.dirty
          /\ run'.list = run.list /\ run'.passes = <<pass>> /\ run'.stamp = run.stamp
          /\ run'.writes = run.writes /\ run'.commands = run.commands /\ run'.todo = run.list
          /\ run'.seen = NothingSeen
      BY <1>1, <1>2, <1>5 DEF EndPass, Fields
    <2> HIDE DEF pass, out
    <2>2. Making' = Making
      BY <2>1 DEF Making
    <2>3. RunInv'
      BY <1>1, <2>1, <2>2 DEF IInv, RunInv, NoRun
    <2>4. ReadInv'
      <3> SUFFICES ASSUME ~run.dirty PROVE ReadInv'
        BY <2>1 DEF ReadInv, Undisturbed
      <3>1. Pass(run.list)' = Pass(run.list) /\ Listing(Making)' = Listing(Making)
        BY <1>1, <2>1, <2>2, WorldFrame DEF Pass, SameWorld
      <3>2. run.stamp = stable_timestamp
        BY <1>1 DEF IInv, ReadInv, Undisturbed
      <3> QED BY <1>1, <1>4, <2>1, <3>1, <3>2, NothingIsSeen DEF ReadInv, SameWorld
    <2>5. OutInv' /\ WriteInv' /\ ModelInv'
      BY <1>1, <2>1 DEF IInv, OutInv, WriteInv, ModelInv, Undisturbed
    <2>6. OrderInv' /\ GateInv'
      BY <1>1, <2>1, WorldFrame DEF IInv, OrderInv, GateInv, Running, SameWorld
    <2> QED BY <1>1, <2>3, <2>4, <2>5, <2>6 DEF IInv, SameWorld
  <1>6. CASE ~first
    <2>1. /\ DOMAIN run' = Fields /\ run'.script = run.script /\ run'.dirty = run.dirty
          /\ run'.step = IF run.script = "gate" THEN "compare" ELSE "write"
          /\ run'.writes = run.writes /\ run'.commands = run.commands
          /\ run'.out = out
      BY <1>2, <1>3, <1>6 DEF EndPass, Fields, Making
    <2>2. Making' = Making
      BY <2>1 DEF Making
    <2>3. RunInv'
      BY <1>1, <1>2, <1>3, <2>1, <2>2 DEF IInv, RunInv
    <2>4. DOMAIN out = Outputs(Making)
      BY <1>2 DEF Evidence, Package, Outputs, EvidenceFiles, PackageFiles
    <2>5. ~run.dirty => out = Result(Making)
      <3> SUFFICES ASSUME ~run.dirty PROVE out = Result(Making)
        OBVIOUS
      <3>1. run.passes[1] = Pass(Listing(Making)) /\ pass = Pass(Listing(Making))
        BY <1>4, <1>6
      <3> HIDE DEF pass
      <3> QED BY <1>2, <3>1 DEF Result, Listing
    <2> HIDE DEF pass, out
    <2>6. Result(Making)' = Result(Making)
      BY <1>1, <1>2, <2>2, WorldFrame
    <2>7. OutInv'
      BY <1>3, <2>1, <2>2, <2>4, <2>5, <2>6 DEF OutInv, Undisturbed, Making
    <2>8. WriteInv'
      <3>1. CASE run.script = "gate"
        BY <2>1, <3>1 DEF WriteInv
      <3>2. CASE run.script # "gate"
        <4>1. run.writes = Written(run.script) /\ run.script \in {"evidence", "package"}
          BY <1>1, <1>3, <3>2 DEF IInv, WriteInv
        <4> QED BY <2>1, <4>1, WrittenIs DEF WriteInv
      <3> QED BY <3>1, <3>2
    <2>9. ReadInv' /\ ModelInv'
      BY <2>1 DEF ReadInv, ModelInv, Undisturbed
    <2>10. OrderInv' /\ GateInv'
      BY <1>1, <2>1, WorldFrame DEF IInv, OrderInv, GateInv, Running, SameWorld
    <2> QED BY <1>1, <2>3, <2>7, <2>8, <2>9, <2>10 DEF IInv, SameWorld
  <1> QED BY <1>5, <1>6

-----------------------------------------------------------------------------
(* Writing.                                                                *)

\* The last file, and all of them are as they should be.
LEMMA Writes ==
    ASSUME IInv, WriteFile
    PROVE  /\ run.script \in {"evidence", "package", "sign"} /\ DOMAIN run.out = Outputs(run.script)
           /\ \E f \in Outputs(run.script) : disk' = [disk EXCEPT ![f] = run.out[f]] /\ disk'[f] = run.out[f]
           /\ run'.writes \in Seq(Outputs(run.script))
           /\ \A g \in Outputs(run.script) :
                (\E i \in DOMAIN run'.writes : run'.writes[i] = g) \/ disk'[g] = run.out[g]
           /\ DOMAIN run' = Fields /\ run'.script = run.script /\ run'.out = run.out /\ run'.dirty = run.dirty
           /\ run'.step = IF run'.writes = <<>> THEN "passed" ELSE "write"
           /\ order' = IF run'.writes = <<>> /\ ~run.dirty /\ order = Stage - 1 THEN Stage ELSE order
           /\ stable_timestamp' = stable_timestamp
  <1> DEFINE f == Head(run.writes)
  <1>1. run.step = "write" /\ run.script \in {"evidence", "package", "sign"} /\ DOMAIN run = Fields
    BY DEF WriteFile, IInv, RunInv, NoRun
  <1>2. /\ run.writes \in Seq(Outputs(run.script)) /\ run.writes # <<>> /\ DOMAIN run.out = Outputs(run.script)
        /\ \A g \in Outputs(run.script) : (\E i \in DOMAIN run.writes : run.writes[i] = g) \/ disk[g] = run.out[g]
    BY <1>1 DEF IInv, OutInv, WriteInv
  <1>3. /\ f = run.writes[1] /\ f \in Outputs(run.script) /\ Tail(run.writes) \in Seq(Outputs(run.script))
        /\ \A k \in DOMAIN run.writes :
             k = 1 \/ \E l \in DOMAIN Tail(run.writes) : Tail(run.writes)[l] = run.writes[k]
        /\ Len(run.writes) = 1 <=> Tail(run.writes) = <<>>
    BY <1>2, TailProperties
  <1>4. f \in DOMAIN disk
    BY <1>1, <1>3, FilesAre DEF IInv, Outputs
  <1>5. /\ disk' = [disk EXCEPT ![f] = run.out[f]]
        /\ run' = [run EXCEPT !.writes = Tail(@), !.step = IF Len(run.writes) = 1 THEN "passed" ELSE @]
        /\ order' = IF Len(run.writes) = 1 /\ ~run.dirty /\ order = Stage - 1 THEN Stage ELSE order
    BY DEF WriteFile
  <1>6. /\ DOMAIN run' = Fields /\ run'.script = run.script /\ run'.out = run.out /\ run'.dirty = run.dirty
        /\ run'.writes = Tail(run.writes)
        /\ run'.step = IF Len(run.writes) = 1 THEN "passed" ELSE "write"
    BY <1>1, <1>5 DEF Fields
  <1> HIDE DEF f
  <1>7. disk'[f] = run.out[f] /\ \A g \in DOMAIN disk : g # f => disk'[g] = disk[g]
    BY <1>4, <1>5
  <1>8. ASSUME NEW g \in Outputs(run.script)
        PROVE  (\E i \in DOMAIN Tail(run.writes) : Tail(run.writes)[i] = g) \/ disk'[g] = run.out[g]
    <2>1. g \in DOMAIN disk
      BY <1>1, FilesAre DEF IInv, Outputs
    <2> QED BY <1>2, <1>3, <1>7, <2>1
  <1>9. stable_timestamp' = stable_timestamp
    BY DEF WriteFile, stable_timestamp
  <1>10. Len(run.writes) = 1 <=> run'.writes = <<>>
    BY <1>3, <1>6
  <1>11. /\ run'.step = IF run'.writes = <<>> THEN "passed" ELSE "write"
         /\ order' = IF run'.writes = <<>> /\ ~run.dirty /\ order = Stage - 1 THEN Stage ELSE order
    BY <1>5, <1>6, <1>10
  <1>12. \E g \in Outputs(run.script) : disk' = [disk EXCEPT ![g] = run.out[g]] /\ disk'[g] = run.out[g]
    BY <1>3, <1>5, <1>7
  <1>13. /\ run'.writes \in Seq(Outputs(run.script))
         /\ \A g \in Outputs(run.script) :
              (\E i \in DOMAIN run'.writes : run'.writes[i] = g) \/ disk'[g] = run.out[g]
    BY <1>3, <1>6, <1>8
  <1>14. /\ DOMAIN run' = Fields /\ run'.script = run.script /\ run'.out = run.out /\ run'.dirty = run.dirty
         /\ DOMAIN run.out = Outputs(run.script) /\ run.script \in {"evidence", "package", "sign"}
    BY <1>1, <1>2, <1>6
  <1> QED BY <1>9, <1>11, <1>12, <1>13, <1>14

\* Nothing but the files of the script changes.
LEMMA OthersStay ==
    ASSUME IInv, WriteFile
    PROVE  \A g \in Files \ Outputs(run.script) : disk'[g] = disk[g]
  <1>1. PICK f \in Outputs(run.script) : disk' = [disk EXCEPT ![f] = run.out[f]]
    BY Writes
  <1> QED BY <1>1 DEF IInv

LEMMA SameFiles ==
    ASSUME \A g \in Files : disk'[g] = disk[g], stable_timestamp' = stable_timestamp
    PROVE  /\ Current("evidence")' <=> Current("evidence")
           /\ Current("package")' <=> Current("package")
           /\ check_signature' <=> check_signature
  <1>1. Result("evidence")' = Result("evidence") /\ Result("package")' = Result("package")
    BY SourceFrame, PackageFrame, FilesAre
  <1>2. check_signature' = check_signature
    BY SignatureFrame, FilesAre DEF PackageFiles
  <1> QED BY <1>1, <1>2, FilesAre DEF Current, Outputs

\* Files that are current already are not changed by writing them again.
LEMMA RewriteSame ==
    ASSUME IInv, WriteFile, ~run.dirty, run.script # "sign", Current(run.script)
    PROVE  \A g \in Files : disk'[g] = disk[g]
  <1>1. run.script \in {"evidence", "package"} /\ run.out = Result(run.script)
    BY Writes DEF WriteFile, IInv, OutInv, Undisturbed, Making
  <1>2. PICK f \in Outputs(run.script) : disk' = [disk EXCEPT ![f] = run.out[f]]
    BY Writes
  <1>3. run.out[f] = disk[f]
    BY <1>1 DEF Current
  <1> QED BY <1>2, <1>3, FilesAre DEF IInv

\* When the last file is written all are as they should be.
LEMMA AllWritten ==
    ASSUME IInv, WriteFile, run'.writes = <<>>
    PROVE  \A g \in Outputs(run.script) : disk'[g] = run.out[g]
  BY Writes

LEMMA WriteOrder == ASSUME IInv, WriteFile PROVE OrderInv'
  <1>1. /\ run.script \in {"evidence", "package", "sign"} /\ stable_timestamp' = stable_timestamp
        /\ run'.script = run.script /\ run'.dirty = run.dirty
        /\ run'.step = IF run'.writes = <<>> THEN "passed" ELSE "write"
        /\ order' = IF run'.writes = <<>> /\ ~run.dirty /\ order = Stage - 1 THEN Stage ELSE order
    BY Writes
  <1>2. /\ order \in 0..3 /\ (run.dirty => order = 0)
        /\ order >= 1 => Current("evidence")
        /\ order >= 2 => Current("package")
        /\ order = 3 /\ run.script # "sign" => check_signature
    BY DEF IInv, OrderInv, WriteFile, Running
  <1>3. \A f \in {"modelfile", "source"} : disk'[f] = disk[f]
    BY <1>1, OthersStay, FilesAre DEF Outputs, EvidenceFiles, PackageFiles, SignatureFiles
  <1>4. Result("evidence")' = Result("evidence")
    BY <1>1, <1>3, SourceFrame
  <1>5. ~run.dirty /\ run.script # "sign" => run.out = Result(run.script)
    BY <1>1 DEF WriteFile, IInv, OutInv, Undisturbed, Making
  <1>6. CASE run.dirty
    BY <1>1, <1>2, <1>6 DEF OrderInv, Running
  <1>7. CASE ~run.dirty /\ run.script = "evidence"
    <2>1. Stage = 1
      BY <1>7 DEF Stage
    <2>2. CASE order = 0
      <3>1. order' = 1 => Current("evidence")'
        BY <1>1, <1>4, <1>5, <1>7, <2>1, <2>2, AllWritten DEF Current
      <3>2. order' \in {0, 1}
        BY <1>1, <2>1, <2>2
      <3> QED BY <1>1, <1>7, <3>1, <3>2 DEF OrderInv
    <2>3. CASE order # 0
      <3>1. order' = order
        BY <1>1, <2>1, <2>3, <1>2
      <3>2. \A g \in Files : disk'[g] = disk[g]
        BY <1>2, <1>7, <2>3, RewriteSame
      <3> QED BY <1>1, <1>2, <1>7, <3>1, <3>2, SameFiles DEF OrderInv
    <2> QED BY <2>2, <2>3
  <1>8. CASE ~run.dirty /\ run.script = "package"
    <2>1. Stage = 2
      BY <1>8 DEF Stage
    <2>2. \A f \in {"modelfile", "source"} \union EvidenceFiles : disk'[f] = disk[f]
      BY <1>8, OthersStay, FilesAre DEF Outputs, EvidenceFiles, PackageFiles
    <2>3. Current("evidence")' <=> Current("evidence")
      BY <1>4, <2>2 DEF Current, Outputs
    <2>4. Result("package")' = Result("package")
      BY <1>1, <2>2, PackageFrame
    <2>5. CASE order <= 1
      <3>1. order' = 2 => Current("package")'
        BY <1>1, <1>5, <1>8, <2>1, <2>4, <2>5, AllWritten DEF Current
      <3>2. order' \in {order, 2} /\ (order' = 2 => order = 1)
        BY <1>1, <1>2, <2>1, <2>5
      <3> QED BY <1>1, <1>2, <1>8, <2>3, <2>5, <3>1, <3>2 DEF OrderInv
    <2>6. CASE ~(order <= 1)
      <3>1. order' = order /\ order >= 2
        BY <1>1, <1>2, <2>1, <2>6
      <3>2. \A g \in Files : disk'[g] = disk[g]
        BY <1>2, <1>8, <3>1, RewriteSame
      <3> QED BY <1>1, <1>2, <1>8, <3>1, <3>2, SameFiles DEF OrderInv
    <2> QED BY <2>5, <2>6
  <1>9. CASE ~run.dirty /\ run.script = "sign"
    <2>1. Stage = 3
      BY <1>9 DEF Stage
    <2>2. \A f \in {"modelfile", "source"} \union EvidenceFiles \union PackageFiles : disk'[f] = disk[f]
      BY <1>9, OthersStay, FilesAre DEF Outputs, EvidenceFiles, PackageFiles, SignatureFiles
    <2>3. Result("package")' = Result("package")
      BY <1>1, <2>2, PackageFrame
    <2>4. (Current("evidence")' <=> Current("evidence")) /\ (Current("package")' <=> Current("package"))
      BY <1>4, <2>2, <2>3 DEF Current, Outputs
    <2>5. run'.writes = <<>> => check_signature'
      <3>1. /\ disk["package"] # None
            /\ run.out["signature"].kind = "signature" /\ run.out["signature"].package = disk["package"]
            /\ run.out["public-key"].kind = "pem"
            /\ run.out["signature"].key = run.out["public-key"].key
        BY <1>9 DEF WriteFile, IInv, OutInv
      <3>2. disk'["package"] = disk["package"]
        BY <2>2 DEF PackageFiles
      <3>3. run'.writes = <<>> =>
              disk'["signature"] = run.out["signature"] /\ disk'["public-key"] = run.out["public-key"]
        BY <1>9, AllWritten DEF Outputs, SignatureFiles
      <3> QED BY <3>1, <3>2, <3>3 DEF check_signature
    <2>6. order' \in {order, 3} /\ (order' = 3 => order \in {2, 3})
      BY <1>1, <1>2, <2>1
    <2> QED BY <1>1, <1>2, <1>9, <2>4, <2>5, <2>6 DEF OrderInv
  <1> QED BY <1>1, <1>6, <1>7, <1>8, <1>9

LEMMA WriteFileStep == ASSUME IInv, WriteFile PROVE IInv'
  <1>1. /\ run.script \in {"evidence", "package", "sign"} /\ DOMAIN run.out = Outputs(run.script)
        /\ run'.writes \in Seq(Outputs(run.script))
        /\ \A g \in Outputs(run.script) :
             (\E i \in DOMAIN run'.writes : run'.writes[i] = g) \/ disk'[g] = run.out[g]
        /\ DOMAIN run' = Fields /\ run'.script = run.script /\ run'.out = run.out /\ run'.dirty = run.dirty
        /\ run'.step = IF run'.writes = <<>> THEN "passed" ELSE "write"
        /\ stable_timestamp' = stable_timestamp
    BY Writes
  <1>2. DOMAIN disk' = Files
    BY DEF WriteFile, IInv
  <1>3. RunInv'
    BY <1>1 DEF RunInv
  <1>4. ReadInv' /\ WriteInv' /\ GateInv' /\ ModelInv'
    BY <1>1 DEF ReadInv, WriteInv, GateInv, ModelInv, Undisturbed
  <1>5. OutInv'
    <2>1. run.script # "sign" => Result(run.script)' = Result(run.script)
      <3>1. \A f \in {"modelfile", "source"} : disk'[f] = disk[f]
        BY <1>1, OthersStay, FilesAre DEF Outputs, EvidenceFiles, PackageFiles, SignatureFiles
      <3>2. run.script = "package" => \A f \in EvidenceFiles : disk'[f] = disk[f]
        BY OthersStay, FilesAre DEF Outputs, EvidenceFiles, PackageFiles
      <3> QED BY <1>1, <3>1, <3>2, SourceFrame, PackageFrame
    <2>2. Making = run.script /\ Making' = run.script
      BY <1>1 DEF Making
    <2>3. ~run.dirty /\ run.script # "sign" => run.out = Result(run.script)
      BY <2>2 DEF WriteFile, IInv, OutInv, Undisturbed
    <2>4. run.script = "sign" =>
            /\ disk["package"] # None
            /\ run.out["signature"].kind = "signature" /\ run.out["signature"].package = disk["package"]
            /\ run.out["public-key"].kind = "pem"
            /\ run.out["signature"].key = run.out["public-key"].key
            /\ disk'["package"] = disk["package"]
      BY OthersStay, FilesAre DEF WriteFile, IInv, OutInv, Outputs, PackageFiles, SignatureFiles
    <2>5. Result(Making)' = IF run.script = "evidence" THEN Result("evidence")' ELSE Result("package")'
      BY <1>1, <2>2 DEF Result
    <2> QED BY <1>1, <2>1, <2>2, <2>3, <2>4, <2>5 DEF OutInv, Undisturbed
  <1> QED BY <1>2, <1>3, <1>4, <1>5, WriteOrder DEF IInv

-----------------------------------------------------------------------------
(* The world around.                                                       *)

\* An edit or a touch takes back every claim on the sources; what is being
\* written is not theirs.
LEMMA DisturbStep ==
    ASSUME IInv, Disturb, order' = 0, DOMAIN disk' = Files,
           \A f \in ReleaseFiles : disk'[f] = disk[f]
    PROVE  IInv'
  <1>1. CASE ~Running
    <2>1. run' = NoRun
      BY <1>1 DEF Disturb
    <2> QED BY <2>1 DEF IInv, NoRun, RunInv, ReadInv, OutInv, WriteInv, OrderInv, GateInv, ModelInv,
                        Undisturbed, Running
  <1>2. CASE Running
    <2>1. DOMAIN run = Fields
      BY <1>2 DEF Running, IInv, RunInv, NoRun
    <2>2. /\ DOMAIN run' = Fields /\ run'.dirty = TRUE /\ run'.script = run.script /\ run'.step = run.step
          /\ run'.out = run.out /\ run'.writes = run.writes /\ run'.commands = run.commands
      BY <1>2, <2>1 DEF Disturb, Fields
    <2>3. Making' = Making
      BY <2>2 DEF Making
    <2>4. RunInv'
      BY <1>2, <2>2, <2>3 DEF IInv, RunInv, NoRun, Running
    <2>5. ReadInv' /\ GateInv' /\ ModelInv' /\ OrderInv'
      BY <2>2 DEF ReadInv, GateInv, ModelInv, OrderInv, Undisturbed
    <2>6. \A f \in Outputs(run.script) : disk'[f] = disk[f]
      BY FilesAre DEF Outputs
    <2>7. disk'["package"] = disk["package"]
      BY FilesAre DEF PackageFiles
    <2>8. OutInv' /\ WriteInv'
      BY <2>2, <2>6, <2>7 DEF IInv, OutInv, WriteInv, Undisturbed
    <2> QED BY <2>4, <2>5, <2>8 DEF IInv
  <1> QED BY <1>1, <1>2

LEMMA EditStep == ASSUME IInv, Edit PROVE IInv'
  <1>1. DOMAIN disk' = Files /\ \A f \in ReleaseFiles : disk'[f] = disk[f]
    BY FilesAre DEF Edit, IInv, EvidenceFiles, PackageFiles, SignatureFiles
  <1> QED BY <1>1, DisturbStep DEF Edit

\* Steps that change nothing an invariant is about.
LEMMA SameStep == ASSUME IInv, SameWorld, run' = run PROVE IInv'
  <1>1. Making' = Making
    BY DEF Making
  <1>2. Pass(run.list)' = Pass(run.list)
    BY DEF Pass, SameWorld
  <1>3. Result(Making)' = Result(Making)
    BY <1>1, WorldFrame DEF Result
  <1>4. RunInv' /\ OutInv' /\ WriteInv' /\ ModelInv'
    BY <1>1, <1>3 DEF IInv, RunInv, OutInv, WriteInv, ModelInv, Undisturbed, SameWorld
  <1>5. ReadInv'
    BY <1>1, <1>2, WorldFrame DEF IInv, ReadInv, Undisturbed, SameWorld
  <1>6. OrderInv' /\ GateInv'
    BY WorldFrame DEF IInv, OrderInv, GateInv, Running, SameWorld
  <1> QED BY <1>4, <1>5, <1>6 DEF IInv, SameWorld

LEMMA TouchStep == ASSUME IInv, Touch PROVE IInv'
  <1>1. CASE epoch # 0
    BY <1>1, SameStep DEF Touch, SameWorld, stable_timestamp
  <1>2. CASE epoch = 0
    BY <1>2, DisturbStep DEF Touch, IInv
  <1> QED BY <1>1, <1>2 DEF Touch, IInv

LEMMA KillStep == ASSUME IInv, Kill PROVE IInv'
  <1>1. run' = NoRun /\ stable_timestamp' = stable_timestamp
    BY DEF Kill, stable_timestamp
  <1>2. DOMAIN disk' = Files
    BY DEF Kill, IInv
  <1>3. RunInv' /\ ReadInv' /\ OutInv' /\ WriteInv' /\ GateInv' /\ ModelInv'
    BY <1>1 DEF NoRun, RunInv, ReadInv, OutInv, WriteInv, GateInv, ModelInv, Undisturbed
  <1>4. OrderInv'
    <2>1. CASE run.step = "write"
      BY <1>1, <2>1 DEF Kill, OrderInv, Running, NoRun
    <2>2. CASE run.step # "write"
      <3>1. SameWorld
        BY <1>1, <2>2 DEF Kill, SameWorld
      <3> QED BY <1>1, <2>2, <3>1, WorldFrame DEF IInv, OrderInv, Running, NoRun, SameWorld
    <2> QED BY <2>1, <2>2
  <1> QED BY <1>2, <1>3, <1>4 DEF IInv

LEMMA NextIInv == IInv /\ [Next]_vars => IInv'
  <1> SUFFICES ASSUME IInv, [Next]_vars PROVE IInv'
    OBVIOUS
  <1>1. CASE UNCHANGED vars
    BY <1>1, SameStep DEF vars, SameWorld, stable_timestamp
  <1>2. CASE Scripts
    BY <1>2, StartReadingStep, StartSignStep, StartGateStep, StartCoderStep, RemoveModelStep DEF Scripts
  <1>3. CASE Steps
    BY <1>3, ReadFileStep, EndPassStep, WriteFileStep, RunTestsStep, RunCargoStep, RunCheckStep,
       RunReadingStep, CompareStep, CreateModelStep DEF Steps
  <1> QED BY <1>1, <1>2, <1>3, EditStep, TouchStep, KillStep DEF Next

-----------------------------------------------------------------------------
(* The theorems.                                                           *)

\* What the gate has found is a release.
LEMMA FoundIsRelease ==
    ASSUME Current("evidence"), Current("package"), check_signature
    PROVE  IsReleaseOfSources
  <1>1. /\ disk["sbom"] = build_sbom(Pass(iter_source_files))
        /\ disk["provenance"] = build_provenance(Pass(iter_source_files))
        /\ disk["provenance.signature"] = sign_provenance(disk["provenance"])
    BY DEF Current, Outputs, Result, Evidence, EvidenceFiles
  <1>2. disk["package"] = build_zip_bytes(Pass(iter_package_files))
    BY DEF Current, Outputs, Result, Package, PackageFiles
  <1>3. Pass(iter_source_files).files = SourcesNow
    BY DEF Pass, SourcesNow
  <1>4. /\ Holds("sbom", "sbom") /\ disk["sbom"].files = SourcesNow
        /\ Holds("provenance", "provenance") /\ disk["provenance"].files = SourcesNow
    BY <1>1, <1>3 DEF Holds, build_sbom, build_provenance
  <1>5. Holds("package", "zip") /\ disk["package"].files = [f \in iter_package_files |-> disk[f]]
    BY <1>2 DEF Holds, build_zip_bytes, Pass
  <1>6. DOMAIN SourcesNow \subseteq iter_package_files
    BY FilesAre DEF SourcesNow, iter_source_files, iter_package_files, is_release_package,
                    is_generated_release_metadata, PackageFiles, SignatureFiles
  <1>7. EvidenceFiles \subseteq iter_package_files
    <2>1. \A f \in EvidenceFiles : disk[f] # None
      BY <1>1 DEF None, EvidenceFiles, build_sbom, build_provenance, sign_provenance
    <2> QED BY <2>1, FilesAre DEF EvidenceFiles, iter_package_files, is_local_metadata, is_release_package,
                                  is_generated_release_metadata
  <1>8. \A f \in DOMAIN SourcesNow \union {"sbom", "provenance", "provenance.signature"} :
            f \in DOMAIN disk["package"].files /\ disk["package"].files[f] = disk[f]
    BY <1>5, <1>6, <1>7 DEF EvidenceFiles
  <1> QED BY <1>1, <1>4, <1>5, <1>8 DEF IsReleaseOfSources, check_signature, Holds

\* When the gate passes undisturbed, release/ is the release of the sources and
\* the Modelfile the signed one, whatever came before.
THEOREM GateMeansReleaseCorrect == Spec => []GateMeansRelease
  <1>1. IInv => GateMeansRelease
    <2> SUFFICES ASSUME IInv, run.script = "gate", run.step = "passed", ~run.dirty
                 PROVE  IsReleaseOfSources /\ disk["modelfile"] = Text(0)
      BY DEF GateMeansRelease
    <2>1. run.commands = <<>>
      BY DEF IInv, RunInv
    <2>2. \A i \in DOMAIN Commands : Found(Commands[i])
      BY <2>1 DEF IInv, GateInv
    <2>3. \A c \in {"coder", "evidence", "package", "signature"} : \E i \in DOMAIN Commands : Commands[i] = c
      BY CommandsAssumption DEF ToSet
    <2>4. Found("coder") /\ Found("evidence") /\ Found("package") /\ Found("signature")
      BY <2>2, <2>3
    <2>5. check_manifest /\ Current("evidence") /\ Current("package") /\ check_signature
      BY <2>4 DEF Found
    <2> QED BY <2>5, FoundIsRelease DEF check_manifest
  <1> QED BY <1>1, InitIInv, NextIInv, PTL DEF Spec

\* Evidence, package and signature made in this order and in one piece pass
\* their checks: none covers a file that is written after it was made.
THEOREM OrderedReleasePassesCorrect == Spec => []OrderedReleasePasses
  <1>1. IInv => OrderedReleasePasses
    <2> DEFINE evidence == [files |-> SourcesNow, stamp |-> stable_timestamp]
               package == [files |-> [f \in iter_package_files |-> disk[f]]]
    <2> SUFFICES ASSUME IInv, order = 3, ~Running
                 PROVE  /\ \A f \in DOMAIN Evidence(evidence, evidence) : disk[f] = Evidence(evidence, evidence)[f]
                        /\ \A f \in DOMAIN Package(package, package) : disk[f] = Package(package, package)[f]
                        /\ check_signature
      BY DEF OrderedReleasePasses
    <2>1. Current("evidence") /\ Current("package") /\ check_signature
      BY DEF IInv, OrderInv, Running
    <2>2. Evidence(evidence, evidence) = Result("evidence")
      BY DEF Result, Pass, SourcesNow
    <2>3. Package(package, package) = Result("package")
      BY DEF Result, Package, Pass, build_zip_bytes, build_manifest
    <2> QED BY <2>1, <2>2, <2>3, ResultDomains DEF Current, Outputs
  <1> QED BY <1>1, InitIInv, NextIInv, PTL DEF Spec

\* The tag of the model is only ever made from the Modelfile the manifest signs,
\* unless it is edited between the check and the creation.
THEOREM ModelIsVerifiedCorrect == Spec => ModelIsVerified
  <1>1. ASSUME IInv, [Next]_vars
        PROVE  [model' # model /\ model' # None /\ ~run.dirty => model' = Text(0)]_vars
    <2> SUFFICES ASSUME Next, model' # model, model' # None, ~run.dirty PROVE model' = Text(0)
      BY <1>1
    <2>1. CreateModel
      BY DEF Next, Scripts, Steps, StartReading, StartSign, StartGate, StartCoder, RemoveModel, ReadFile, EndPass,
             WriteFile, RunTests, RunCargo, RunCheck, RunReading, Compare, Edit, Touch, Kill, Keep
    <2> QED BY <1>1, <2>1 DEF CreateModel, IInv, ModelInv, Undisturbed
  <1> QED BY <1>1, InitIInv, NextIInv, PTL DEF Spec, ModelIsVerified

=============================================================================
