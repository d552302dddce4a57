------------------------------ MODULE Generator ------------------------------
(***************************************************************************)
(* generator.go: the tokens it writes for a parsed schema.                  *)
(***************************************************************************)
EXTENDS Sequences, SequencesExt

Words(seqs) == FlattenSeq(seqs)

\* Each of the things with its tokens.
Written(things, Tokens(_)) == Words([i \in DOMAIN things |-> Tokens(things[i])])

InParentheses(ts) == <<"(">> \o ts \o <<")">>

\* strings.Join(names, ", ")
Joined(names) == Words([i \in DOMAIN names |-> IF i = 1 THEN <<names[1]>> ELSE <<",", names[i]>>])

Logical(rule) == rule.kind \in {"or", "and", "not"}

\* An or needs parentheses below an and.
Operand(rule, ts) == IF rule.kind = "or" THEN InParentheses(ts) ELSE ts

RECURSIVE RuleTokens(_)
RuleTokens(rule) ==
    CASE rule.kind = "relation" -> <<rule.relation>>
      [] rule.kind = "or" -> RuleTokens(rule.left) \o <<"or">> \o RuleTokens(rule.right)
      [] rule.kind = "and" ->
            Operand(rule.left, RuleTokens(rule.left)) \o <<"and">>
                \o Operand(rule.right, RuleTokens(rule.right))
      [] rule.kind = "not" ->
            LET inner == RuleTokens(rule.left)
            IN  <<"not">> \o IF Logical(rule.left) THEN InParentheses(inner) ELSE inner
      [] rule.kind = "hierarchical" -> <<rule.relation, ".", rule.permission>>
      [] rule.kind = "call" -> <<rule.rule>> \o InParentheses(Joined(rule.arguments))
      [] rule.kind = "parentCall" ->
            <<rule.relation, ".", rule.rule>> \o InParentheses(Joined(rule.arguments))

TargetTokens(target) ==
    IF target[2] = "" THEN <<"@", target[1]>> ELSE <<"@", target[1], "#", target[2]>>

RelationTokens(r) == <<"relation", r.name>> \o Written(r.targets, TargetTokens)

\* The type of an array is one word in the schema and three tokens in the text.
ArrayOf == [a \in {"string[]", "integer[]", "boolean[]", "double[]"} |->
               CASE a = "string[]" -> "string"   [] a = "integer[]" -> "integer"
                 [] a = "boolean[]" -> "boolean" [] a = "double[]" -> "double"]

AttributeTokens(a) ==
    <<"attribute", a.name>> \o
        IF a.type \in DOMAIN ArrayOf THEN <<ArrayOf[a.type], "[", "]">> ELSE <<a.type>>

PermissionTokens(p) == <<"permission", p.name, "=">> \o RuleTokens(p.rule)

EntityTokens(e) ==
    <<"entity", e.name, "{">> \o Written(e.relations, RelationTokens)
        \o Written(e.attributes, AttributeTokens)
        \o Written(e.permissions, PermissionTokens) \o <<"}">>

RuleDefinitionTokens(r) ==
    <<"rule", r.name>> \o InParentheses(Joined(r.parameters)) \o <<"{">> \o r.body \o <<"}">>

Generate(schema) ==
    Written(schema.rules, RuleDefinitionTokens) \o Written(schema.entities, EntityTokens)
=============================================================================
