----------------------------- MODULE MCCliHome -----------------------------
(* Command lines and logs on which CliHome is checked.                     *)
EXTENDS CliHome

Read == [tool |-> "read", args |-> {"path"}]
Grep == [tool |-> "grep", args |-> {"pattern"}]
List == [tool |-> "list", args |-> {}]

\* Logs of a client that records tool calls: reading is repeated, and so is
\* searching, but in the older logs.
LogOf(id, turns) == [id |-> id, turns |-> turns]
MCSessions0 ==
    { <<LogOf(101, << <<Grep>>, <<Read, List>> >>), LogOf(102, << <<Grep>>, <<>>, <<Read, List>> >>),
        LogOf(103, << <<Read, List>> >>)>>,
      <<[id |-> 101], LogOf(102, << <<Grep>>, <<Grep>> >>)>> }

MCNames == {<<1, "read">>, <<1, "grep">>, <<2, "grep">>, <<0, "mine">>}
MCProfiles == {"precise", "balanced"}
MCKeys == {"model", "profile"}
MCValues == {"small", "large", "a\"b"} \union MCProfiles
MCUnquotable == {"a\"b"}
MCEnv == [model |-> "small", profile |-> "balanced"]

Silent == [k \in {} |-> ""]
Of(op) == [op |-> op, over |-> Silent]
Skill(op, name) == [op |-> op, over |-> Silent, name |-> name]
Distil(last, min) == [op |-> "distill", over |-> Silent, last |-> last, min |-> min]
Set(key, value, over) == [op |-> "set", over |-> over, key |-> key, value |-> value]

Draft1 == <<1, "read">>
MCPlans ==
    { <<Distil(2, 2), Skill("approve", Draft1), Of("repl"), Distil(0, 3), Skill("reject", Draft1)>>,
      <<Distil(3, 2), Skill("approve", <<2, "grep">>), Skill("reject", <<2, "grep">>), Of("oneshot"), Of("repl")>>,
      <<Distil(9, 2), Skill("approve", <<1, "grep">>), Skill("approve", <<1, "grep">>), Skill("reject", <<1, "grep">>), Of("oneshot")>>,
      <<Distil(3, 3), Skill("approve", Draft1), Skill("new", Draft1), Of("repl"), Skill("edit", Draft1)>>,
      <<Skill("new", <<0, "mine">>), Skill("edit", <<0, "mine">>), Of("repl"), Of("oneshot"), Skill("new", <<0, "mine">>)>>,
      <<Set("model", "large", Silent), Set("profile", "precise", Silent),
        Set("profile", "none", Silent), Set("url", "none", Silent), Of("oneshot")>>,
      <<Set("model", "large", Silent), Set("profile", "precise", [model |-> "small"]),
        Set("model", "a\"b", Silent), Set("profile", "balanced", Silent), Set("model", "large", Silent)>> }
=============================================================================
