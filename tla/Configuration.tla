---------------------------- MODULE Configuration ----------------------------
(***************************************************************************)
(* The configuration file of a kernel, as load_config reads it.  A field   *)
(* that an entry leaves out is Absent.  What the file says is turned into  *)
(* the tables of Authorization: defaults are filled in, and an entry       *)
(* without a field that has no default keeps the process from starting.    *)
(*                                                                         *)
(*   subject     [subject_id, active]                                      *)
(*   policy      [effect, subject_id, operation, resource]                 *)
(*   capability  [subject_id, operation, resource]                         *)
(*                                                                         *)
(* "active" is a JSON value: "true", "text" (a string of any wording, the  *)
(* string "false" included) or "false", which stands for every empty one.  *)
(***************************************************************************)
EXTENDS Authorization

Absent == "absent"

\* item.get(name, default)
OrDefault(value, default) == IF value = Absent THEN default ELSE value

\* bool(item.get("active", True)): any string but the empty one is true.
LoadSubject(item) ==
    [id |-> item.subject_id, active |-> item.active \in {Absent, "true", "text"}]

\* Mistake: an entry without a resource is given the empty one.
LoadPolicyNarrow(item) ==
    [effect    |-> item.effect,
     operation |-> item.operation,
     resource  |-> OrDefault(item.resource, Missing),
     subject   |-> OrDefault(item.subject_id, Wildcard)]

LoadPolicy(item) ==
    [effect    |-> item.effect,
     operation |-> item.operation,
     resource  |-> OrDefault(item.resource, Wildcard),
     subject   |-> OrDefault(item.subject_id, Wildcard)]

LoadCapability(item) ==
    [subject   |-> item.subject_id,
     operation |-> item.operation,
     resource  |-> OrDefault(item.resource, Wildcard)]

\* No KeyError, and no ValueError of PolicyEffect, while the file is read.
Loads(document) ==
    /\ \A i \in DOMAIN document.subjects : document.subjects[i].subject_id # Absent
    /\ \A i \in DOMAIN document.policies :
          /\ document.policies[i].effect \in {"allow", "deny"}
          /\ document.policies[i].operation # Absent
    /\ \A i \in DOMAIN document.capabilities :
          Absent \notin {document.capabilities[i].subject_id,
                         document.capabilities[i].operation}

Tables(document) ==
    [subjects |-> [i \in DOMAIN document.subjects |-> LoadSubject(document.subjects[i])],
     rules    |-> [i \in DOMAIN document.policies |-> LoadPolicy(document.policies[i])],
     grants   |-> [i \in DOMAIN document.capabilities |->
                     LoadCapability(document.capabilities[i])]]

\* build_kernel_from_config: a kernel without a path keeps its log in memory.
KeepsFile(document) == document.audit_log_path \notin {Absent, Missing}

\* The operations of a kernel that was given no handlers of its own.
DefaultHandlers == {"echo", "record_evidence"}

-----------------------------------------------------------------------------
\* What the file says to its author, read entry by entry without the tables:
\* "this entry speaks of that request".
Says(value, wanted) == value \in {Absent, Wildcard, wanted}

SpeaksOf(item, r) ==
    /\ Says(item.subject_id, r.subject)
    /\ Says(item.operation, r.operation)
    /\ Says(item.resource, r.resource)

DocumentGrants(document, r) ==
    /\ \E i \in DOMAIN document.subjects :
          document.subjects[i].subject_id = r.subject /\ document.subjects[i].active # "false"
    /\ \E i \in DOMAIN document.policies :
          document.policies[i].effect = "allow" /\ SpeaksOf(document.policies[i], r)
    /\ \A i \in DOMAIN document.policies :
          SpeaksOf(document.policies[i], r) => document.policies[i].effect # "deny"
    /\ \E i \in DOMAIN document.capabilities :
          /\ document.capabilities[i].subject_id = r.subject
          /\ SpeaksOf(document.capabilities[i], r)
=============================================================================
