------------------------------- MODULE MCLookup -------------------------------
(***************************************************************************)
(* An instance of Lookup: four documents of one user, and four users of one *)
(* document, with nested folders and teams between them.  Pages hold one or *)
(* two ids and batches two, so listings take several of both.               *)
(***************************************************************************)
EXTENDS Lookup, LookupQueries

MCObject ==
    ({"doc", "user"} \X (1..4)) \cup ({"team", "folder"} \X (1..3))

MCTypeOf == [o \in MCObject |-> o[1]]

MCIdOf == [o \in MCObject |-> o[2]]

MCRelationsOf ==
    [user   |-> {},
     team   |-> {"member"},
     folder |-> {"viewer", "parent"},
     doc    |-> {"viewer", "parent", "banned"}]

None == [p \in {} |-> ABAC]

MCPermissionsOf ==
    [user   |-> None,
     team   |-> [view |-> Relation("member")],
     folder |-> [view |-> Relation("viewer"),
                 all |-> Or(Relation("viewer"), Hierarchical("parent", "all"))],
     doc    |-> [view |-> Or(Relation("viewer"), Hierarchical("parent", "view")),
                 read |-> Relation("view"),
                 open |-> Or(And(Relation("viewer"), Not(Relation("banned"))), ABAC),
                 deep |-> Hierarchical("parent", "all")]]

MCTargetsOf ==
    [k \in {<<"folder", "parent">>, <<"doc", "parent">>} |->
        IF k[1] = "doc" THEN {"folder", "user"} ELSE {"folder"}]

T(e, r, s, sr) == [entity |-> e, relation |-> r, subject |-> s, subjectRelation |-> sr]

doc(i) == <<"doc", i>>
user(i) == <<"user", i>>
team(i) == <<"team", i>>
folder(i) == <<"folder", i>>

\* Two usersets lead from team 1 to the members of team 2, as many as the SQL follows,
\* and three from team 3.  Folder 3 is above folder 1, and that above folder 2.
Nested ==
    {T(team(3), "member", team(1), "member"), T(team(1), "member", team(2), "member"),
     T(team(2), "member", user(1), ""), T(folder(1), "viewer", team(1), "member"),
     T(folder(2), "parent", folder(1), ""), T(folder(1), "parent", folder(3), ""),
     T(doc(1), "parent", folder(1), "")}

Kinds == {"none", "viewer", "userset", "parent", "banned", "far", "permission", "hop", "stray"}

\* How a document of the user, or a user of the document, may be related: also through a
\* userset too many, one that names a permission, the parent of a parent, and a parent of a
\* type the schema does not name.
DocVia ==
    [i \in 1..4 |-> [k \in Kinds |->
        CASE k = "none"       -> {}
          [] k = "viewer"     -> {T(doc(i), "viewer", user(1), "")}
          [] k = "userset"    -> {T(doc(i), "viewer", team(1), "member")}
          [] k = "parent"     -> {T(doc(i), "parent", folder(1), "")}
          [] k = "banned"     -> {T(doc(i), "viewer", user(1), ""),
                                  T(doc(i), "banned", user(1), "")}
          [] k = "far"        -> {T(doc(i), "viewer", team(3), "member")}
          [] k = "permission" -> {T(doc(i), "viewer", team(2), "view")}
          [] k = "hop"        -> {T(doc(i), "parent", folder(2), "")}
          [] k = "stray"      -> {T(doc(i), "parent", team(2), "")}]]

UserVia ==
    [i \in 1..4 |-> [k \in Kinds |->
        CASE k = "none"       -> {}
          [] k = "viewer"     -> {T(doc(1), "viewer", user(i), "")}
          [] k = "userset"    -> {T(doc(1), "viewer", team(1), "member"),
                                  T(team(2), "member", user(i), "")}
          [] k = "parent"     -> {T(folder(1), "viewer", user(i), "")}
          [] k = "banned"     -> {T(doc(1), "viewer", user(i), ""),
                                  T(doc(1), "banned", user(i), "")}
          [] k = "far"        -> {T(doc(1), "viewer", team(3), "member"),
                                  T(team(2), "member", user(i), "")}
          [] k = "permission" -> {T(doc(1), "viewer", team(2), "view"),
                                  T(team(2), "member", user(i), "")}
          [] k = "hop"        -> {T(folder(3), "viewer", user(i), "")}
          [] k = "stray"      -> {T(doc(1), "parent", team(2), ""),
                                  T(team(2), "member", user(i), "")}]]

MCTuple == Nested \cup UNION {DocVia[i][k] \cup UserVia[i][k] : i \in 1..4, k \in Kinds}

MCVolatile == {T(team(2), "member", user(1), ""), T(doc(2), "viewer", user(1), ""),
               T(doc(1), "banned", user(3), "")}

\* The second of the four is related in any way, each of the others in two ways.
Stores(via) ==
    {Nested \cup UNION {via[i][kind[i]] : i \in 1..4} :
        kind \in {k \in [1..4 -> Kinds] : /\ k[1] \in {"userset", "banned"}
                                         /\ k[3] \in {"none", "userset"}
                                         /\ k[4] \in {"viewer", "parent"}}}

NoAttributes == [o \in MCObject |-> "absent"]

Request(api, name, size, context, attrs) ==
    [api |-> api, name |-> name, pageSize |-> size, context |-> context,
     attrs |-> attrs,
     entityType |-> "doc", entity |-> doc(1), subject |-> user(1), subjectRelation |-> "",
     listedType |-> IF api = "LookupEntity" THEN "doc" ELSE "user"]

Requests(api, context) ==
    {Request(api, "read", 1, {}, NoAttributes), Request(api, "deep", 0, {}, NoAttributes),
     Request(api, "open", 0, {}, [NoAttributes EXCEPT ![doc(3)] = "true"]),
     Request(api, "viewer", 0, context, NoAttributes),
     Request(api, "view", 1, context, NoAttributes)}

\* The teams whose members may view the document.
TeamsRequest ==
    [Request("LookupSubject", "viewer", 1, {}, NoAttributes)
        EXCEPT !.listedType = "team", !.subjectRelation = "member"]

MCScenario ==
    [stored : Stores(DocVia), req : Requests("LookupEntity", {T(doc(3), "viewer", user(1), "")})]
    \cup [stored : Stores(UserVia),
          req : Requests("LookupSubject", {T(doc(1), "viewer", user(4), "")})]
    \cup [stored : Stores(DocVia), req : {TeamsRequest}]

\* Documents that are open to the user, with a contextual tuple about the last one.
SkipScenario ==
    [stored : Stores(DocVia),
     req : {Request("LookupEntity", "open", 0, {T(doc(4), "viewer", user(1), "")},
                    NoAttributes)}]
===============================================================================
