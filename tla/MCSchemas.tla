------------------------------ MODULE MCSchemas ------------------------------
(***************************************************************************)
(* An instance of SchemaRequests: single validations of many texts, and     *)
(* three requests on two servers in every order.                           *)
(***************************************************************************)
EXTENDS SchemaRequests

Servers == {"s1", "s2"}
Requests == {"r1", "r2", "r3"}

MCPrefix ==
    <<"rule", "r", "(", "x", ")", "{", "x", "op", "{", "text", "}", "}",
      "entity", "user", "{", "}",
      "entity", "doc", "{", "relation", "a", "@", "user", "@", "doc", "#", "a",
      "relation", "b", "@", "doc", "attribute", "c", "string", "[", "]",
      "action", "p", "=">>

MCFrameSchema(rule) ==
    [rules |-> <<[name |-> "r", parameters |-> <<"x">>,
                  body |-> <<"x", "op", "{", "text", "}">>]>>,
     entities |->
        <<[name |-> "user", relations |-> <<>>, attributes |-> <<>>, permissions |-> <<>>],
          [name |-> "doc",
           relations |-> <<[name |-> "a", targets |-> <<<<"user", "">>, <<"doc", "a">>>>],
                           [name |-> "b", targets |-> <<<<"doc", "">>>>]>>,
           attributes |-> <<[name |-> "c", type |-> "string[]"]>>,
           permissions |-> <<[name |-> "p", rule |-> rule]>>]>>]

\* Every text of at most n of these tokens.
Texts(n, tokens) == UNION {[1..k -> tokens] : k \in 0..n}

\* Rules that nest twice, as the generator writes them.
Nested(S) ==
    S \cup {[kind |-> "not", left |-> p] : p \in S}
      \cup {[kind |-> k, left |-> p, right |-> q] : k \in {"or", "and"}, p \in S, q \in S}

A == [kind |-> "relation", relation |-> "a"]

Walk == [kind |-> "hierarchical", relation |-> "b", permission |-> "p"]

Simple ==
    {A, Walk,
     [kind |-> "parentCall", relation |-> "b", rule |-> "r", arguments |-> <<"c">>]}

Generated ==
    {RuleTokens(rule) : rule \in Nested(Simple) \cup Nested(Nested({A, Walk}))}

\* A token is missing.
Damaged == UNION {{RemoveAt(ts, i) : i \in DOMAIN ts} :
                     ts \in {RuleTokens(rule) : rule \in Nested(Simple)}}

RuleTexts ==
    Texts(4, {"a", "or", "and", "not", "(", ")"})
    \cup Texts(3, {"r", "(", ")", ",", "subject", "."})
    \cup Generated \cup Damaged
    \cup {<<"a", Illegal>>, <<"p">>, <<"r", "(", "resource", ",", "subject", ")">>,
          <<"r", "(", "subject", ")">>, <<"b", ".", "r", "(", "c", ",", "c", ")">>}

Unread(framed, ts) == [framed |-> framed, tokens |-> ts, outcome |-> "unread"]

Framed == {Unread(TRUE, ts) : ts \in RuleTexts}

Whole(ts) == Unread(FALSE, ts)

User == <<"entity", "user", "{", "}">>

GoodText == User \o <<"entity", "doc", "{", "relation", "a", "@", "user", "}">>

BetterText == GoodText \o <<"entity", "team", "{", "relation", "m", "@", "user", "}">>
WrongText == <<"entity", "doc", "{", "relation", "a", "@", "user", "}">>
EndlessText == User \o <<"entity", "doc", "{", "relation", "}">>

\* Texts that fail somewhere else.
Failing ==
    {<<"user">>, <<"entity">>, <<"entity", "user">>, <<"rule", "r">>,
     <<"rule", "r", "(">>, <<"rule", "r", "(", "x", ",", ")">>,
     <<"rule", "r", "(", "x", ")", "x">>, <<"rule", "r", "(", "x", ")", "{", "x">>,
     User \o User, User \o <<"entity", "doc", "{", "relation", "a", "@">>,
     User \o <<"entity", "doc", "{", "relation", "a", "user", "}">>,
     User \o <<"entity", "doc", "{", "relation", "a", "@", "user", "#", "}">>,
     User \o <<"entity", "doc", "{", "attribute", "c", "text", "}">>,
     User \o <<"entity", "doc", "{", "attribute", "c", "string", "[", "}">>,
     User \o <<"entity", "doc", "{", "attribute", "c", "name", "}">>,
     User \o <<"entity", "doc", "{", "permission", "p", "}">>,
     User \o <<"entity", "doc", "{", "permission", "}">>}

MCDsl ==
    {Judged(d) : d \in Framed \cup {Whole(ts) : ts \in Failing \cup
                                       {GoodText, BetterText, WrongText, EndlessText}}}

\* Members of MCDsl, which SchemaAssumptions says.
Good == [Whole(GoodText) EXCEPT !.outcome = "accepted"]
Better == [Whole(BetterText) EXCEPT !.outcome = "accepted"]
Wrong == [Whole(WrongText) EXCEPT !.outcome = "invalid"]
Endless == [Whole(EndlessText) EXCEPT !.outcome = "hangs"]

Call(kind, s, d) == [kind |-> kind, server |-> s, dsl |-> d]

Nothing == Call("none", "s1", Good)

Ask(plan1, plan2, plan3, faulty, ahead, until, uses, entropy) ==
    [plan |-> [r1 |-> plan1, r2 |-> plan2, r3 |-> plan3], faulty |-> faulty,
     skew |-> [s1 |-> 0, s2 |-> ahead],
     until |-> until, uses |-> uses, entropy |-> entropy]

\* One text is validated.
Validations ==
    {Ask(Call("validate", "s1", d), Nothing, Nothing, {}, 0, 0, 1, 1) : d \in MCDsl}

Write(s, d) == Call("write", s, d)
Delete(s) == Call("delete", s, Good)
Check == Call("check", "s1", Good)
List == Call("list", "s1", Good)
Data == Call("data", "s1", Good)

\* Writes on one server or on two, before and while something else runs.
Mixtures ==
    {Ask(Write("s1", Good), Write("s1", Better), Check, {}, 0, 2, 1, 1),
     Ask(Write("s1", Good), Nothing, Check, {}, 0, 2, 2, 1),
     Ask(Write("s1", Good), Write("s2", Better), Check, {"r1"}, 1, 0, 2, 1),
     Ask(Write("s1", Good), Write("s2", Better), List, {}, 0, 1, 1, 2),
     Ask(Write("s1", Good), Delete("s2"), Check, {"r2"}, 0, 0, 2, 1),
     Ask(Write("s1", Good), Delete("s2"), Write("s2", Better), {"r1"}, 0, 0, 1, 2),
     Ask(Data, Write("s2", Better), Check, {"r3"}, 0, 2, 2, 1),
     Ask(Write("s1", Wrong), Write("s2", Endless), List, {"r3"}, 0, 0, 1, 1)}

MCScenario == Validations \cup Mixtures
=============================================================================
