------------------------------ MODULE Converter ------------------------------
(***************************************************************************)
(* What converter.go makes of a parsed schema for the evaluation: the names *)
(* and rules module Permissions speaks of.                                  *)
(***************************************************************************)
EXTENDS Validator

RelationNames(s) ==
    [t \in NamesIn(s.entities) |-> NamesIn(Definition(s.entities, t).relations)]

PermissionRules(s) ==
    [t \in NamesIn(s.entities) |->
        LET permissions == Definition(s.entities, t).permissions
        IN  [p \in NamesIn(permissions) |-> Definition(permissions, p).rule]]

RuleArities(s) == [n \in NamesIn(s.rules) |-> Len(Definition(s.rules, n).parameters)]
=============================================================================
