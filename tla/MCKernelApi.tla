----------------------------- MODULE MCKernelApi -----------------------------
(* A configuration file and bodies on which KernelApi is checked: an entry *)
(* for every default, and a body that each route reads differently.        *)
EXTENDS KernelApi

MCDocument ==
    [subjects |-> << [subject_id |-> "ann", active |-> Absent],
                     [subject_id |-> "bob", active |-> "false"] >>,
     policies |-> << [effect |-> "allow", subject_id |-> Absent,
                      operation |-> "echo", resource |-> Absent],
                     [effect |-> "allow", subject_id |-> "ann",
                      operation |-> "record_evidence", resource |-> "demo"],
                     [effect |-> "deny", subject_id |-> "ann",
                      operation |-> Wildcard, resource |-> "secret"],
                     [effect |-> "deny", subject_id |-> Absent,
                      operation |-> "record_evidence", resource |-> Absent] >>,
     capabilities |-> << [subject_id |-> "ann", operation |-> Wildcard, resource |-> Absent],
                         [subject_id |-> "bob", operation |-> "echo", resource |-> "demo"] >>,
     audit_log_path |-> "audit.jsonl"]

MCSubjects == Tables(MCDocument).subjects
MCRules    == Tables(MCDocument).rules
MCGrants   == Tables(MCDocument).grants
MCHandlers == DefaultHandlers

Body(id, operation, parameters) ==
    [id |-> id, subject |-> "ann", operation |-> operation,
     resource |-> "demo", parameters |-> parameters]

MCBodies == {Body("r1", "echo", "mapping"), Body(Null, "echo", Absent),
             Body(Absent, "echo", "mapping"), Body("r2", "record_evidence", "null")}

MCRequests == {RequestOf(route, body) : route \in Routes, body \in MCBodies}
=============================================================================
