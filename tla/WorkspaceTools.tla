--------------------------- MODULE WorkspaceTools ---------------------------
(***************************************************************************)
(* The tool routes of the backend that change something: confirm, write,   *)
(* edit and shell (tools.py).  FastAPI runs each on a thread of its pool.  *)
(* A write or a shell command needs a confirm code; codes live in one dict *)
(* under a lock that is held for one lookup or change at a time, so time   *)
(* may pass and other threads may run between the purge of expired codes   *)
(* and the use of one.  Nothing guards the files.                          *)
(*                                                                         *)
(* A text is a sequence of words; of a write's content a code covers the   *)
(* first HeadLength (content[:64]), of a confirm request's all of it.      *)
(***************************************************************************)
EXTENDS Naturals, FiniteSets, Sequences, SequencesExt

CONSTANTS Threads,      \* threads of the server's pool
          Requests,     \* requests a client may send
          Codes,        \* the six-digit codes
          NoCode,       \* confirm_token is missing
          Enabled,      \* THIRSTY_AI_TOOLS_ENABLED
          Unsafe,       \* paths _safe_relative_path refuses
          Blocked,      \* commands _shell_is_safe refuses
          Files,        \* the files at the start
          ShellTexts,   \* what a command may leave in a file
          HeadLength,   \* 64
          Ttl,          \* _TOKEN_TTL_SECONDS
          MaxCalls,     \* bound: calls made
          MaxTime       \* bound: time passed

ASSUME ToolsAssumption ==
    /\ NoCode \notin Codes
    /\ HeadLength \in Nat /\ Ttl \in Nat /\ MaxCalls \in Nat /\ MaxTime \in Nat
    /\ Enabled \in BOOLEAN
    /\ \A r \in Requests : r.text \in Seq(Range(r.text))

VARIABLES now,
          tokens,    \* _TOKENS: the issue each live code stands for
          issued,    \* every code given out, with what it was asked for
          popped,    \* every code that was used up, and for which call
          files,     \* the text of each file that exists
          asked,     \* the requests received; a call is its position
          pc,        \* where each thread is
          job        \* the call each thread serves, and what it has found out

store == <<tokens, issued, popped>>
vars  == <<now, tokens, issued, popped, files, asked, pc, job>>

NoJob == [call |-> 0, checked |-> 0, seen |-> <<>>, text |-> <<>>,
          quiet |-> TRUE, outcome |-> "none"]

Init == /\ now = 0
        /\ tokens = <<>>
        /\ issued = <<>>
        /\ popped = {}
        /\ files  = Files
        /\ asked  = <<>>
        /\ pc     = [t \in Threads |-> "idle"]
        /\ job    = [t \in Threads |-> NoJob]

At(t, place)   == pc[t] = place
Goto(t, place) == pc' = [pc EXCEPT ![t] = place]
Request(t)     == asked[job[t].call]
Target(t)      == Request(t).target

Answer(t, outcome) ==
    /\ Goto(t, "reply")
    /\ job' = [job EXCEPT ![t].outcome = outcome]

\* Thread t touches the files: what the others have read of them may be stale.
Touch(t, outcome) ==
    job' = [u \in Threads |-> IF u = t THEN [job[u] EXCEPT !.outcome = outcome]
                             ELSE [job[u] EXCEPT !.quiet = FALSE]]

Head64(text) == SubSeq(text, 1, Min({HeadLength, Len(text)}))

\* What _fingerprint is taken of: the arguments as a confirm request sends
\* them, and of a call those that its route passes on.
Wanted(r) == IF r.op = "confirm" THEN [tool |-> r.tool, target |-> r.target, text |-> r.text]
             ELSE [tool |-> r.op, target |-> r.target, text |-> Head64(r.text)]

Live(i) == issued[i].at + Ttl >= now

-----------------------------------------------------------------------------
\* What a route refuses before it touches anything.
Refused(r) == \/ ~Enabled
              \/ r.op = "confirm" /\ r.tool \notin {"write", "shell"}
              \/ r.op \in {"write", "edit"} /\ r.target \in Unsafe
              \/ r.op \in {"write", "shell"} /\ r.code = NoCode

Receive(t) ==
    /\ At(t, "idle")
    /\ Len(asked) < MaxCalls
    /\ \E r \in Requests :
         /\ asked' = Append(asked, r)
         /\ job' = [job EXCEPT ![t] =
                      [NoJob EXCEPT !.call = Len(asked) + 1, !.text = r.text,
                                    !.outcome = IF Refused(r) THEN "refused" ELSE "none"]]
         /\ Goto(t, IF Refused(r) THEN "reply" ELSE IF r.op = "edit" THEN "look" ELSE "purge")
    /\ UNCHANGED <<now, store, files>>

\* _purge_expired_tokens, with which both _issue_token and _verify_token begin.
Purge(t) ==
    /\ At(t, "purge")
    /\ tokens' = [c \in {d \in DOMAIN tokens : Live(tokens[d])} |-> tokens[c]]
    /\ job' = [job EXCEPT ![t].checked = now]
    /\ Goto(t, IF Request(t).op = "confirm" THEN "issue" ELSE "claim")
    /\ UNCHANGED <<now, issued, popped, files, asked>>

\* _issue_token draws a code and stores it, over another of the same digits.
Issue(t) ==
    /\ At(t, "issue")
    /\ \E code \in Codes :
         /\ issued' = Append(issued, [code |-> code, for |-> Wanted(Request(t)), at |-> now])
         /\ tokens' = [c \in DOMAIN tokens \cup {code} |->
                         IF c = code THEN Len(issued) + 1 ELSE tokens[c]]
    /\ Answer(t, "issued")
    /\ UNCHANGED <<now, popped, files, asked>>

\* Where a call whose code was found valid goes on.
Confirmed(t) ==
    IF Request(t).op = "write" THEN Goto(t, "open") /\ UNCHANGED job
    ELSE IF Target(t) \in Blocked THEN Answer(t, "refused")
    ELSE Goto(t, "run") /\ UNCHANGED job

\* Mistake: a code that matches is left in the dict until it expires.
ClaimKept(t) ==
    /\ At(t, "claim")
    /\ LET code == Request(t).code
       IN  IF code \in DOMAIN tokens /\ issued[tokens[code]].for = Wanted(Request(t))
             THEN /\ popped' = popped \cup {[issue |-> tokens[code], call |-> job[t].call,
                                             checked |-> job[t].checked, valid |-> TRUE]}
                  /\ Confirmed(t)
             ELSE Answer(t, "refused") /\ UNCHANGED popped
    /\ UNCHANGED <<now, tokens, issued, files, asked>>

\* Mistake: only the tool is compared.
ClaimAnyArgs(t) ==
    /\ At(t, "claim")
    /\ LET code == Request(t).code
       IN  IF code \in DOMAIN tokens
             THEN LET valid == issued[tokens[code]].for.tool = Request(t).op
                  IN  /\ tokens' = [c \in DOMAIN tokens \ {code} |-> tokens[c]]
                      /\ popped' = popped \cup {[issue |-> tokens[code], call |-> job[t].call,
                                                 checked |-> job[t].checked, valid |-> valid]}
                      /\ IF valid THEN Confirmed(t) ELSE Answer(t, "refused")
             ELSE Answer(t, "refused") /\ UNCHANGED <<tokens, popped>>
    /\ UNCHANGED <<now, issued, files, asked>>

\* _verify_token takes the code out of the dict, then compares what it was
\* for with the call; its expiry is not looked at again.
Claim(t) ==
    /\ At(t, "claim")
    /\ LET code == Request(t).code
       IN  IF code \in DOMAIN tokens
             THEN LET valid == issued[tokens[code]].for = Wanted(Request(t))
                  IN  /\ tokens' = [c \in DOMAIN tokens \ {code} |-> tokens[c]]
                      /\ popped' = popped \cup {[issue |-> tokens[code], call |-> job[t].call,
                                                 checked |-> job[t].checked, valid |-> valid]}
                      /\ IF valid THEN Confirmed(t) ELSE Answer(t, "refused")
             ELSE Answer(t, "refused") /\ UNCHANGED <<tokens, popped>>
    /\ UNCHANGED <<now, issued, files, asked>>

-----------------------------------------------------------------------------
Occurrences(text, word) == Cardinality({i \in DOMAIN text : text[i] = word})
Replaced(text, find, replace) ==
    [i \in DOMAIN text |-> IF text[i] = find THEN replace ELSE text[i]]

\* tool_edit reads the file, counts, and works out the new text.
Look(t) ==
    /\ At(t, "look")
    /\ LET r == Request(t)
       IN  IF r.target \in DOMAIN files /\ Occurrences(files[r.target], r.find) = r.expected
             THEN /\ job' = [job EXCEPT ![t].seen = files[r.target],
                                        ![t].text = Replaced(files[r.target], r.find, r.replace)]
                  /\ Goto(t, "open")
             ELSE Answer(t, "refused")
    /\ UNCHANGED <<now, store, files, asked>>

\* write_text creates or empties the file,
Open(t) ==
    /\ At(t, "open")
    /\ files' = [p \in DOMAIN files \cup {Target(t)} |-> IF p = Target(t) THEN <<>> ELSE files[p]]
    /\ Touch(t, "none")
    /\ Goto(t, "fill")
    /\ UNCHANGED <<now, store, asked>>

\* Mistake: the text of the request is written first.
FillAfter(t) ==
    /\ At(t, "fill")
    /\ Target(t) \in DOMAIN files
    /\ files' = [files EXCEPT ![Target(t)] = Request(t).text \o job[t].text]
    /\ Touch(t, "done")
    /\ Goto(t, "reply")
    /\ UNCHANGED <<now, store, asked>>

\* then fills it; a file that was removed meanwhile is filled unseen.
Fill(t) ==
    /\ At(t, "fill")
    /\ files' = [p \in DOMAIN files |-> IF p = Target(t) THEN job[t].text ELSE files[p]]
    /\ Touch(t, "done")
    /\ Goto(t, "reply")
    /\ UNCHANGED <<now, store, asked>>

\* mkdir or the opening raises, or the text is written only part of the way: the
\* call ends with an error and the file is left as it is.
ChangeFails(t) ==
    /\ pc[t] \in {"open", "fill"}
    /\ \/ files' = files /\ Answer(t, "failed")
       \/ /\ At(t, "fill")
          /\ \E n \in 1..Len(job[t].text) :
               files' = [p \in DOMAIN files |-> IF p = Target(t) THEN SubSeq(job[t].text, 1, n)
                                                                 ELSE files[p]]
          /\ Touch(t, "failed")
          /\ Goto(t, "reply")
    /\ UNCHANGED <<now, store, asked>>

\* A command removes a file, leaves some text in one or changes nothing; it
\* ends or is killed at its timeout.
RunShell(t) ==
    /\ At(t, "run")
    /\ \/ files' = files
       \/ \E p \in DOMAIN files : files' = [q \in DOMAIN files \ {p} |-> files[q]]
       \/ \E p \in DOMAIN files, text \in ShellTexts : files' = [files EXCEPT ![p] = text]
    /\ Touch(t, "done")
    /\ Goto(t, "reply")
    /\ UNCHANGED <<now, store, asked>>

Reply(t) ==
    /\ At(t, "reply")
    /\ Goto(t, "idle")
    /\ job' = [job EXCEPT ![t] = NoJob]
    /\ UNCHANGED <<now, store, files, asked>>

Tick == /\ now < MaxTime
        /\ now' = now + 1
        /\ UNCHANGED <<store, files, asked, pc, job>>

-----------------------------------------------------------------------------
Serve(t) == \/ Purge(t) \/ Issue(t) \/ Claim(t)
            \/ Look(t) \/ Open(t) \/ Fill(t) \/ ChangeFails(t) \/ RunShell(t) \/ Reply(t)

Next == Tick \/ \E t \in Threads : Receive(t) \/ Serve(t)

Spec == Init /\ [][Next]_vars

-----------------------------------------------------------------------------
\* Each code that was given out lets at most one call through, however many
\* present it at once (_verify_token).
CodeUsedOnce ==
    \A a, b \in popped : a.issue = b.issue /\ a.valid /\ b.valid => a.call = b.call

\* A write or a command goes on only with a code that was given out for the
\* same tool and target, had not expired when its verification began, and whose
\* text the call begins with: the very text, when that is shorter than
\* HeadLength (_require_confirm).  Of a longer write the code does not cover the
\* rest, though tools.py:80-82 and docs/CLI.md:128-129 tie it to the exact
\* arguments; the property claims no more than tool_write checks.
ChangesAreConfirmed ==
    \A t \in Threads :
        pc[t] \in {"open", "fill", "run"} /\ Request(t).op # "edit" =>
            \E a \in popped :
                LET given == issued[a.issue].for
                IN  /\ a.call = job[t].call
                    /\ a.valid
                    /\ a.checked <= issued[a.issue].at + Ttl
                    /\ given.tool = Request(t).op /\ given.target = Target(t)
                    /\ IsPrefix(given.text, Request(t).text)
                    /\ Len(given.text) < HeadLength => given.text = Request(t).text

\* A write or an edit that nothing else touched the files during leaves what it
\* was asked to leave; an edit, the file it read with every occurrence replaced.
QuietChangesStick ==
    \A t \in Threads :
        At(t, "reply") /\ job[t].outcome = "done" /\ job[t].quiet =>
            LET r == Request(t)
            IN  /\ r.op = "write" => files[r.target] = r.text
                /\ r.op = "edit"  => files[r.target] = Replaced(job[t].seen, r.find, r.replace)
=============================================================================
