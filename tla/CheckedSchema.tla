---------------------------- MODULE CheckedSchema ----------------------------
(***************************************************************************)
(* A schema that went through the validator and the converter, and a check  *)
(* of one of its permissions.                                               *)
(***************************************************************************)
EXTENDS Expander, LeastMeaning, Converter

CONSTANT Schema  \* the parsed schema RelationsOf, PermissionsOf and RuleDefs come from

ASSUME SchemaAssumption ==
    /\ RelationsOf = RelationNames(Schema)
    /\ PermissionsOf = PermissionRules(Schema)
    /\ \A n \in DOMAIN RuleArities(Schema) :
          \A key \in DOMAIN RuleDefs :
             key[2] = n => RuleDefs[key].arity = RuleArities(Schema)[n]

\* The names a check of the rule may ask of the same or of another object.
RECURSIVE NamesAsked(_)
NamesAsked(rule) ==
    CASE rule.kind = "relation" -> {rule.relation}
      [] rule.kind \in {"or", "and"} -> NamesAsked(rule.left) \cup NamesAsked(rule.right)
      [] rule.kind = "not" -> NamesAsked(rule.left)
      [] rule.kind = "hierarchical" -> {rule.permission}
      [] OTHER -> {}

\* The permissions with one of these names, or with one their rules ask for.
RECURSIVE Involved(_)
Involved(names) ==
    LET found == {e \in ToSet(Schema.entities) \X names : e[2] \in NamesIn(e[1].permissions)}
        more == names \cup UNION {NamesAsked(Definition(e[1].permissions, e[2]).rule) : e \in found}
    IN  IF more = names
        THEN {<<e[1], Definition(e[1].permissions, e[2])>> : e \in found}
        ELSE Involved(more)

InvolvedInCheck ==
    Involved({req.name} \cup {t.subjectRelation : t \in ever \cup req.context})

\* What the validator accepts does not fail for the schema: when every permission
\* a check can come by is valid, the check never ends with a relation or a rule
\* that is not there or with a wrong number of arguments, whatever types the
\* tuples connect, and it only runs into the depth limit by following tuples or a
\* chain of that many permissions (validator.go decides this before any tuple is
\* written, evaluator.go meets it).
ValidNeverFails ==
    Done /\ (\A i \in InvolvedInCheck : PermissionValid(Schema, i[1], i[2])) =>
        /\ result # "schema"
        /\ result = "depth" => \/ ever \cup req.context # {}
                              \/ Cardinality(InvolvedInCheck) > MaxDepth
=============================================================================
