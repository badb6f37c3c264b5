--------------------------- MODULE MCKernelServer ---------------------------
(* Tables and requests on which KernelServer is checked: at least one      *)
(* request leaves handle at every gate.                                    *)
EXTENDS KernelServer

MCSubjects == << [id |-> "ann", active |-> FALSE],
                 [id |-> "ann", active |-> TRUE],
                 [id |-> "bob", active |-> TRUE],
                 [id |-> "bob", active |-> FALSE] >>

MCRules == << [effect |-> "allow", subject |-> "*",   operation |-> "*",    resource |-> "*"],
              [effect |-> "deny",  subject |-> "ann", operation |-> "echo", resource |-> "secret"] >>

MCGrants == << [subject |-> "ann", operation |-> "*",    resource |-> "demo"],
               [subject |-> "ann", operation |-> "echo", resource |-> "secret"],
               [subject |-> "bob", operation |-> "*",    resource |-> "*"] >>

MCHandlers == {"echo"}

Ask(id, subject, operation, resource, parameters) ==
    [id |-> id, subject |-> subject, operation |-> operation,
     resource |-> resource, parameters |-> parameters]

Granted1   == Ask("r1", "ann", "echo",  "demo",   "mapping")
NoId       == Ask("",   "ann", "echo",  "demo",   "mapping")
Inactive   == Ask("r2", "bob", "echo",  "demo",   "mapping")
Forbidden  == Ask("r3", "ann", "echo",  "secret", "mapping")
Ungranted  == Ask("r4", "ann", "echo",  "other",  "mapping")
Unplanned  == Ask("r5", "ann", "echo",  "demo",   "null")
Unhandled  == Ask("r6", "ann", "print", "demo",   "mapping")

EveryGate == {Granted1, NoId, Inactive, Forbidden, Ungranted, Unplanned, Unhandled}
TwoKinds  == {Granted1, Forbidden}
ThreeKinds == {Granted1, Forbidden, Unplanned}
=============================================================================
