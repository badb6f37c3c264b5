-------------------------- MODULE MCWorkspaceTools --------------------------
(* One file; a content shorter than what a code covers, and a longer one    *)
(* whose beginning is another.                                             *)
EXTENDS WorkspaceTools

CONSTANTS c1, c2

MCCodes == {c1, c2}
MCFiles == "f" :> <<"a", "b">>
MCShellTexts == {<<"b", "b">>}

Ask(op, tool, target, text, code, expected) ==
    [op |-> op, tool |-> tool, target |-> target, text |-> text, code |-> code,
     find |-> "a", replace |-> "b", expected |-> expected]

MCRequests ==
    { Ask("confirm", "write", "f",  <<"a">>,           NoCode, 0),
      Ask("confirm", "write", "f",  <<"a", "a">>,      NoCode, 0),
      Ask("confirm", "shell", "ls", <<>>,              NoCode, 0),
      Ask("confirm", "edit",  "f",  <<"a">>,           NoCode, 0),
      Ask("write",   "write", "f",  <<"a">>,           c1,     0),
      Ask("write",   "write", "f",  <<"a", "a", "b">>, c1,     0),
      Ask("write",   "write", "up", <<"a">>,           c1,     0),
      Ask("shell",   "shell", "ls", <<>>,              c1,     0),
      Ask("shell",   "shell", "rm", <<>>,              c1,     0),
      Ask("shell",   "shell", "ls", <<>>,              NoCode, 0),
      Ask("edit",    "edit",  "f",  <<>>,              NoCode, 1) }
=============================================================================
