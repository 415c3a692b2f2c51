---- MODULE MCIntelligence ----
(***************************************************************************)
(* A collection of one document, to which a second may be added, at most   *)
(* one index, and queries that it serves or not, that fail, or that only   *)
(* explain.                                                                *)
(***************************************************************************)
EXTENDS ObservedSession

MCIdField == <<"_id">>
MCRank(w) == CASE w = <<>> -> 0 [] w = <<"a">> -> 1 [] w = <<"b">> -> 2 [] OTHER -> 3

c == <<"c">>
A == <<"Path", <<<<"a">>>>>>
B == <<"Path", <<<<"b">>>>>>
Num(n) == <<"Literal", <<"Int64", n>>>>
Op(o, l, r) == <<"Binary", o, l, r>>

Get(p) == [explain |-> FALSE, command |-> <<"Get", c>>, stages |-> <<<<"Filter", p>>>>]
Command(command) == [explain |-> FALSE, command |-> command, stages |-> <<>>]
OnA == Op("Equal", A, Num(1))
OnB == Op("Equal", Num(1), B)

MCWatched ==
    {[Get(OnA) EXCEPT !.explain = TRUE],
     Get(Op("And", OnA, OnB)),
     Get(Op("And", OnB, Op("Less", A, <<"Literal", <<"String", <<"a">>>>>>))),
     Command(<<"DropIndex", <<"a">>>>)}
MCWorkload ==
    MCWatched \cup {Command(<<"Insert", c, <<"Object", <<<<<<"a">>, Num(2)>>>>>>>>),
                    Command(<<"CreateIndex", <<"a">>, c, <<<<<<"a">>>>>>>>)}

Fields(a, b) == (<<"a">> :> <<"Int64", a>>) @@ (<<"b">> :> <<"Int64", b>>)
MCLowestReduction == -10000
MCStartStore == [collections |-> (c :> <<Fields(1, 1)>>), definitions |-> <<>>]

MCCatalogs == {<<>>, <<"a">> :> [collection |-> c, field |-> <<<<"a">>>>]}

RECURSIVE MCDepth(_)
MCDepth(e) == IF Parts(e) = {} THEN 0 ELSE 1 + Max({MCDepth(part) : part \in Parts(e)})
Opened(E) == {e : e \in E \cup UNION {Parts(e) : e \in E}}
Submitted == {q.stages[1][2] : q \in {w \in MCWorkload : w.stages # <<>>}}
             \cup {q.command[3] : q \in {w \in MCWorkload : w.command[1] = "Insert"}}
AllExpressions == Opened(Opened(Submitted))
MCExpressions == AllExpressions

Config(successful, scans, examined, ratio) ==
    [min_successful |-> successful, min_scans |-> scans, min_examined |-> examined,
     max_ratio |-> ratio]
MCConfigs == {Config(2, 2, 2, 5000), Config(0, 1, 1, 10000), Config(1, 1, 1, 10001)}
====
