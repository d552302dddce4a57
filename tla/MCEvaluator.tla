----------------------------- MODULE MCEvaluator -----------------------------
(***************************************************************************)
(* An instance of CheckedSchema: a user, two teams that may be members of each  *)
(* other, two folders that may be parents of each other, and a document.    *)
(* Each scenario is a set of stored tuples, contextual tuples, attributes   *)
(* and a question.                                                         *)
(***************************************************************************)
EXTENDS CheckedSchema

MCObject == {"user", "team1", "team2", "folder1", "folder2", "doc"}

MCTypeOf ==
    [o \in MCObject |->
        CASE o \in {"team1", "team2"} -> "team"
          [] o \in {"folder1", "folder2"} -> "folder"
          [] OTHER -> o]

Rel(n, targets) == [name |-> n, targets |-> targets]
Perm(n, rule) == [name |-> n, rule |-> rule]
Entity(n, relations, attributes, permissions) ==
    [name |-> n, relations |-> relations, attributes |-> attributes,
     permissions |-> permissions]

User == <<"user", "">>
Members == <<"team", "member">>
Folder == <<"folder", "">>

\* Some permissions are not valid: unknown, lost and the circle of loop and pool.
MCSchema ==
    [rules |-> <<[name |-> "trusted", parameters |-> <<"subject">>],
                 [name |-> "shares", parameters |-> <<"level">>]>>,
     entities |->
        <<Entity("user", <<>>, <<>>, <<>>),
          Entity("team", <<Rel("member", <<User, Members>>)>>, <<>>, <<>>),
          Entity("folder",
                 <<Rel("parent", <<Folder>>), Rel("viewer", <<User, Members>>)>>,
                 <<>>,
                 <<Perm("view", Or(Relation("viewer"), Hierarchical("parent", "view"))),
                   Perm("above", Hierarchical("parent", "parent"))>>),
          Entity("doc",
                 <<Rel("parent", <<Folder>>), Rel("viewer", <<User, Members>>),
                   Rel("banned", <<User>>)>>,
                 <<[name |-> "level", type |-> "boolean"]>>,
                 <<Perm("view", Or(Relation("viewer"), Hierarchical("parent", "view"))),
                   Perm("open", And(Relation("view"), Not(Relation("banned")))),
                   Perm("hidden", Not(Relation("open"))),
                   Perm("shown", Not(Relation("hidden"))),
                   Perm("public", Or(ABAC, RuleCall("trusted", <<"subject">>))),
                   Perm("unknown", RuleCall("trusted", <<>>)),
                   Perm("lost", Hierarchical("owner", "view")),
                   Perm("shared", HierarchicalRuleCall("parent", "shares", <<"level">>)),
                   Perm("loop", Or(Relation("viewer"), Relation("pool"))),
                   Perm("pool", And(Relation("loop"), Not(Relation("banned"))))>>)>>]

MCRelationsOf == RelationNames(MCSchema)

MCPermissionsOf == PermissionRules(MCSchema)

MCOwnType == {<<"folder", "parent">>}

\* A rule of a type is written by hand: no parsed name has a type in front.
MCRuleDefs ==
    [k \in {<<"", "trusted">>, <<"", "shares">>, <<"folder", "shares">>} |->
        [arity |-> RuleArities(MCSchema)[k[2]],
         body |-> IF k = <<"folder", "shares">> THEN "this" ELSE "parameter"]]

T(e, r, s, sr) == [entity |-> e, relation |-> r, subject |-> s, subjectRelation |-> sr]

TeamTuples ==
    {T("team1", "member", "user", ""), T("team1", "member", "team2", "member"),
     T("team2", "member", "team1", "member"), T("team2", "member", "user", ""),
     T("doc", "viewer", "team1", "member"), T("doc", "banned", "user", "")}

FolderTuples ==
    {T("doc", "parent", "folder1", ""), T("doc", "parent", "folder2", "viewer"),
     T("folder1", "parent", "folder2", ""), T("folder2", "parent", "folder1", ""),
     T("folder2", "viewer", "user", ""), T("doc", "parent", "user", "")}

\* A chain that ends: document, folder, folder, team.
DeepTuples ==
    {T("doc", "parent", "folder1", ""), T("folder1", "parent", "folder2", ""),
     T("folder2", "viewer", "team1", "member")}

MCTuple == TeamTuples \cup FolderTuples \cup DeepTuples

\* Tuples a check looks at, on which others work meanwhile.
MCVolatile(q) ==
    CASE q.name \in {"member", "viewer", "open", "shown", "loop"} ->
            {T("team1", "member", "user", ""), T("doc", "viewer", "team1", "member"),
             T("doc", "banned", "user", "")}
      [] q.name = "shared" -> {T("doc", "parent", "folder1", "")}
      [] q.name \in {"public", "unknown"} -> {}
      [] OTHER -> {T("folder1", "parent", "folder2", ""), T("folder2", "viewer", "user", "")}

NoAttributes == [o \in MCObject |-> "absent"]

Ask(e, n, s, sr, context, attrs, ctxAttrs) ==
    [entity |-> e, name |-> n, subject |-> s, subjectRelation |-> sr,
     context |-> context, attrs |-> attrs, ctxAttrs |-> ctxAttrs]

Plainly(e, n, context) == Ask(e, n, "user", "", context, NoAttributes, NoAttributes)

With(states, reqs) == {[stored |-> S, req |-> q] : S \in states, q \in reqs}

TeamScenario ==
    With(SUBSET TeamTuples,
         {Plainly("doc", "open", {}), Plainly("doc", "shown", {}),
          Plainly("team2", "member", {}),
          Plainly("doc", "loop", {}),
          Ask("doc", "viewer", "team1", "member", {}, NoAttributes, NoAttributes)})

FolderScenario ==
    With(SUBSET FolderTuples,
         {Plainly("doc", "view", {}), Plainly("folder1", "above", {}),
          Plainly("doc", "lost", {}),
          Plainly("doc", "view", {T("doc", "parent", "folder2", ""),
                                  T("folder1", "viewer", "team1", "member")})})
    \cup With({DeepTuples}, {Plainly("doc", "open", {})})

Attributes ==
    {[NoAttributes EXCEPT !["doc"] = v, !["folder1"] = w] :
        v, w \in {"absent", "true", "false"}}

OverriddenAttributes ==
    {NoAttributes, [NoAttributes EXCEPT !["folder1"] = "true"],
     [NoAttributes EXCEPT !["user"] = "true"]}

AttributeScenario ==
    With({{}, FolderTuples},
         {Ask("doc", n, "user", "", {}, v, w) :
             n \in {"public", "unknown", "shared"}, v \in Attributes,
             w \in OverriddenAttributes})

MCScenario == TeamScenario \cup FolderScenario \cup AttributeScenario
=============================================================================
