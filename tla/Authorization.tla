--------------------------- MODULE Authorization ---------------------------
(***************************************************************************)
(* The gates a request passes in ConstitutionalKernel.handle before its    *)
(* handler runs: validation, identity, policy, capability, planning and    *)
(* handler lookup.  They read immutable tables and change nothing, so they *)
(* are operators.                                                          *)
(*                                                                         *)
(*   request   [id, subject, operation, resource, parameters]              *)
(*   rule      [effect, subject, operation, resource]                      *)
(*   grant     [subject, operation, resource]                              *)
(*   subject   [id, active]                                                *)
(*                                                                         *)
(* A field that the caller left empty is Missing.  Parameters are either a *)
(* mapping or something else that JSON can carry (null, a list, a number). *)
(***************************************************************************)
EXTENDS Naturals, Sequences, FiniteSetsExt

Missing  == ""
Wildcard == "*"

\* ActionRequest.validate: every identifying field is non-empty.
IsComplete(r) ==
    Missing \notin {r.id, r.subject, r.operation, r.resource}

\* IdentityRegistry: a dict filled in order, so the last entry of an id wins.
Resolve(subjects, id) ==
    LET entries == {i \in DOMAIN subjects : subjects[i].id = id}
    IN  /\ entries # {}
        /\ subjects[Max(entries)].active

\* PolicyRule.matches: each field is the wildcard or equal.
RuleMatches(rule, r) ==
    /\ rule.subject   \in {Wildcard, r.subject}
    /\ rule.operation \in {Wildcard, r.operation}
    /\ rule.resource  \in {Wildcard, r.resource}

\* Mistake: an allow is looked for before a denial.
EvaluateAllowFirst(rules, r) ==
    LET matches == {i \in DOMAIN rules : RuleMatches(rules[i], r)}
        denials == {i \in matches : rules[i].effect = "deny"}
        allows  == {i \in matches : rules[i].effect = "allow"}
    IN  IF allows # {}       THEN [allowed |-> TRUE,  rule |-> Min(allows)]
        ELSE IF denials # {} THEN [allowed |-> FALSE, rule |-> Min(denials)]
        ELSE                      [allowed |-> FALSE, rule |-> 0]

\* PolicyEngine.evaluate: a denial wins, else an allow is needed; "rule" is
\* the position of the rule whose policy_id the decision carries, 0 for none.
Evaluate(rules, r) ==
    LET matches == {i \in DOMAIN rules : RuleMatches(rules[i], r)}
        denials == {i \in matches : rules[i].effect = "deny"}
        allows  == {i \in matches : rules[i].effect = "allow"}
    IN  IF denials # {}     THEN [allowed |-> FALSE, rule |-> Min(denials)]
        ELSE IF allows # {} THEN [allowed |-> TRUE,  rule |-> Min(allows)]
        ELSE                     [allowed |-> FALSE, rule |-> 0]

\* CapabilityGrant.matches: no wildcard for the subject.
GrantMatches(grant, r) ==
    /\ grant.subject   = r.subject
    /\ grant.operation \in {Wildcard, r.operation}
    /\ grant.resource  \in {Wildcard, r.resource}

\* CapabilityRegistry.check: the first grant that matches, 0 for none.
Check(grants, r) ==
    LET matches == {i \in DOMAIN grants : GrantMatches(grants[i], r)}
    IN  IF matches # {} THEN [allowed |-> TRUE,  grant |-> Min(matches)]
                        ELSE [allowed |-> FALSE, grant |-> 0]

\* Planner.plan reads request.parameters.items() and raises on a non-mapping.
Plannable(r) == r.parameters = "mapping"

\* Where the request leaves handle: the gate that denies it, "unplanned" when
\* planning raises (nothing catches it), "granted" when its handler runs.
GateNames == {"validation", "identity", "policy", "capability",
              "unplanned", "handler", "granted"}

Gate(subjects, rules, grants, handlers, r) ==
    IF ~IsComplete(r)                      THEN "validation"
    ELSE IF ~Resolve(subjects, r.subject)  THEN "identity"
    ELSE IF ~Evaluate(rules, r).allowed    THEN "policy"
    ELSE IF ~Check(grants, r).allowed      THEN "capability"
    ELSE IF ~Plannable(r)                  THEN "unplanned"
    ELSE IF r.operation \notin handlers    THEN "handler"
    ELSE "granted"

\* What the gates stand for together, said without their order and without the
\* order of the rules and grants: the preconditions of execution.
Authorized(subjects, rules, grants, handlers, r) ==
    /\ IsComplete(r)
    /\ \E i \in DOMAIN subjects :
          /\ subjects[i].id = r.subject
          /\ subjects[i].active
          /\ \A j \in DOMAIN subjects : j > i => subjects[j].id # r.subject
    /\ \E i \in DOMAIN rules : RuleMatches(rules[i], r) /\ rules[i].effect = "allow"
    /\ \A i \in DOMAIN rules : RuleMatches(rules[i], r) => rules[i].effect # "deny"
    /\ \E i \in DOMAIN grants : GrantMatches(grants[i], r)
    /\ r.operation \in handlers
=============================================================================
