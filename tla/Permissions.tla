----------------------------- MODULE Permissions -----------------------------
(***************************************************************************)
(* Schemas as internal/entities holds them.  An entity or subject is an     *)
(* object, a (type, id) pair.                                               *)
(***************************************************************************)
CONSTANTS
    Object,
    TypeOf,        \* per object: its type
    RelationsOf,   \* per type: names of its relations
    PermissionsOf  \* per type: its permissions, a rule per name

\* The permission rules of the schema, as the converter builds them.
Relation(r) == [kind |-> "relation", relation |-> r]
Or(p, q) == [kind |-> "or", left |-> p, right |-> q]
And(p, q) == [kind |-> "and", left |-> p, right |-> q]
Not(p) == [kind |-> "not", left |-> p]
Hierarchical(r, p) == [kind |-> "hierarchical", relation |-> r, permission |-> p]
ABAC == [kind |-> "abac"]
RuleCall(n, args) == [kind |-> "call", rule |-> n, arguments |-> args]
HierarchicalRuleCall(r, n, args) ==
    [kind |-> "parentCall", relation |-> r, rule |-> n, arguments |-> args]

Has(o, r) == r \in RelationsOf[TypeOf[o]]

Permits(o, p) == p \in DOMAIN PermissionsOf[TypeOf[o]]

PermissionRule(o, p) == PermissionsOf[TypeOf[o]][p]

\* What is evaluated for a name: a permission of the type or, if there is none, a
\* relation.
RuleNamed(type, n) ==
    IF n \in DOMAIN PermissionsOf[type] THEN PermissionsOf[type][n] ELSE Relation(n)

Asked(o, n) == RuleNamed(TypeOf[o], n)
=============================================================================
