----------------------------- MODULE MCBackend -----------------------------
(* Three requests of kinds that share something, in each environment.       *)
EXTENDS Backend, TLC

CONSTANTS r1, r2, r3, m1, m2

MCRequests == {r1, r2, r3}
Plan(a, b, c) == r1 :> a @@ r2 :> b @@ r3 :> c
MCPlans ==
    {Plan("audit", "audit", "audit"),       \* more audits than permits
     Plan("audit", "audits", "pdf"),
     Plan("client", "client", "clients"),   \* two first uses of a collection
     Plan("embed", "embed", "query"),       \* the same text twice
     Plan("post", "posts", "marketing"),
     Plan("holli", "ready", "dove"),
     Plan("install", "installs", "ready")}

\* r1 and r2 embed the same text.
MCText == r1 :> "t" @@ r2 :> "t" @@ r3 :> "u"

\* One model is the preferred one under another tag.
MCModels == {m1, m2}
MCBase == m1 :> "b" @@ m2 :> "b"

Environment(url, required) == [mongoUrl |-> url, requireMongo |-> required, key |-> TRUE, requireAuth |-> TRUE]
MCSettings ==
    {Environment(FALSE, FALSE), Environment(TRUE, FALSE), Environment(TRUE, TRUE),
     [mongoUrl |-> FALSE, requireMongo |-> FALSE, key |-> FALSE, requireAuth |-> FALSE]}
=============================================================================
