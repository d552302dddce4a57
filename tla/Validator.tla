------------------------------ MODULE Validator ------------------------------
(***************************************************************************)
(* Which parsed schemas validator.go accepts.  A schema is                  *)
(*   [rules, entities], an entity [name, relations, attributes,             *)
(*   permissions], all sequences of records with a name; a rule has         *)
(*   parameters, a relation targets (pairs of a type and "" or a relation), *)
(*   an attribute a type and a permission a rule as in module Permissions.  *)
(***************************************************************************)
EXTENDS Naturals, Sequences, FiniteSets, SequencesExt

NamesIn(defs) == {d.name : d \in ToSet(defs)}

Unique(defs) == Cardinality(NamesIn(defs)) = Len(defs)

\* The map of the definitions: the last one of a name.
Definition(defs, n) ==
    LET last(i) == \A j \in DOMAIN defs : defs[j].name = n => j <= i
    IN  defs[CHOOSE i \in DOMAIN defs : defs[i].name = n /\ last(i)]

\* Relations, attributes and permissions of an entity share one space of names.
EntityUnique(e) ==
    /\ Unique(e.relations) /\ Unique(e.attributes) /\ Unique(e.permissions)
    /\ NamesIn(e.attributes) \cap (NamesIn(e.relations) \cup NamesIn(e.permissions)) = {}
    /\ NamesIn(e.relations) \cap NamesIn(e.permissions) = {}

ValidTypes == {"string", "integer", "boolean", "double",
               "string[]", "integer[]", "boolean[]", "double[]"}

AttributeTypesValid(e) == \A a \in ToSet(e.attributes) : a.type \in ValidTypes

TargetValid(s, target) ==
    /\ target[1] \in NamesIn(s.entities)
    /\ target[2] # "" => target[2] \in NamesIn(Definition(s.entities, target[1]).relations)

RelationTargetsValid(s, e) ==
    \A r \in ToSet(e.relations) : \A target \in ToSet(r.targets) : TargetValid(s, target)

\* The entities a relation may lead to, those behind usersets included.
TargetEntities(s, e, r) ==
    IF r \in NamesIn(e.relations)
    THEN {Definition(s.entities, target[1]) :
             target \in {x \in ToSet(Definition(e.relations, r).targets) :
                            x[1] \in NamesIn(s.entities)}}
    ELSE {}

StandardNames == {"resource", "subject", "request"}

\* Mutant: the number of arguments is not compared.
CallNamesRule(s, rule, arguments) ==
    /\ rule.rule \in NamesIn(s.rules)
    /\ ToSet(rule.arguments) \subseteq arguments

\* A call names a rule, gives as many arguments as it has parameters and only
\* known ones.
CallValid(s, rule, arguments) ==
    /\ rule.rule \in NamesIn(s.rules)
    /\ Len(rule.arguments) = Len(Definition(s.rules, rule.rule).parameters)
    /\ ToSet(rule.arguments) \subseteq arguments

RECURSIVE PermissionRuleValid(_, _, _)
PermissionRuleValid(s, e, rule) ==
    CASE rule.kind = "relation" ->
            rule.relation \in NamesIn(e.relations) \cup NamesIn(e.permissions)
      [] rule.kind \in {"or", "and"} ->
            PermissionRuleValid(s, e, rule.left) /\ PermissionRuleValid(s, e, rule.right)
      [] rule.kind = "not" -> PermissionRuleValid(s, e, rule.left)
      [] rule.kind = "hierarchical" ->
            LET targets == TargetEntities(s, e, rule.relation)
            IN  /\ targets # {}
                /\ \A te \in targets :
                      rule.permission \in NamesIn(te.permissions) \cup NamesIn(te.relations)
      [] rule.kind = "call" -> CallValid(s, rule, StandardNames)
      [] rule.kind = "parentCall" ->
            /\ rule.relation \in NamesIn(e.relations)
            /\ CallValid(s, rule, StandardNames \cup NamesIn(e.attributes))
      [] OTHER -> TRUE

\* Does the rule lead, along permissions of the entity and of the other types its
\* relations name, to a permission that is already on the path?
RECURSIVE Circular(_, _, _, _)
Circular(s, e, rule, path) ==
    LET follow(te, p) ==
            \/ <<te.name, p>> \in path
            \/ Circular(s, te, Definition(te.permissions, p).rule, path \cup {<<te.name, p>>})
    IN  CASE rule.kind = "relation" ->
                rule.relation \in NamesIn(e.permissions) /\ follow(e, rule.relation)
          [] rule.kind \in {"or", "and"} ->
                Circular(s, e, rule.left, path) \/ Circular(s, e, rule.right, path)
          [] rule.kind = "not" -> Circular(s, e, rule.left, path)
          [] rule.kind = "hierarchical" ->
                \E te \in TargetEntities(s, e, rule.relation) :
                    /\ te.name # e.name
                    /\ rule.permission \in NamesIn(te.permissions)
                    /\ follow(te, rule.permission)
          [] OTHER -> FALSE

PermissionValid(s, e, p) ==
    /\ PermissionRuleValid(s, e, p.rule)
    /\ ~Circular(s, e, p.rule, {<<e.name, p.name>>})

Valid(s) ==
    /\ Unique(s.rules)
    /\ Unique(s.entities)
    /\ \A e \in ToSet(s.entities) :
          /\ EntityUnique(e)
          /\ AttributeTypesValid(e)
          /\ RelationTargetsValid(s, e)
          /\ \A p \in ToSet(e.permissions) : PermissionValid(s, e, p)
=============================================================================
