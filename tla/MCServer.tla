---- MODULE MCServer ----
(* Small instances of Server for TLC: three connections to an anonymous server,  *)
(* and two connections to a server with authentication.                          *)
EXTENDS Server

CONSTANTS c1, c2, c3, ann, tok, pwA, pwB

Command(token, needs) == [kind |-> "command", token |-> token, needs |-> needs]
Unparsable == [kind |-> "unparsable"]

AnonymousConnections == {c1, c2, c3}
AnonymousSends ==
    {<<c1, Command(NoToken, "Write")>>, <<c2, Command(NoToken, "Write")>>, <<c3, Unparsable>>}

SessionConnections == {c1, c2}
SessionSends ==
    {<<c1, Command(tok, "Read")>>, <<c2, Command(tok, "Write")>>, <<c2, Command(NoToken, "Read")>>}

SessionUsers == {ann}
SessionTokens == {tok}
SessionPasswords == {pwA, pwB}
SessionRoles == {"ReadOnly", "ReadWrite"}
====
