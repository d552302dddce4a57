---------------------------- MODULE SchemaRequests ----------------------------
(***************************************************************************)
(* The requests of SchemaService with the parser, the validator and the     *)
(* generator in place of their outcome, and the grammar the parser reads,   *)
(* stated once more without positions and loops: which rules a sequence of  *)
(* tokens can stand for.                                                    *)
(***************************************************************************)
EXTENDS SchemaService, SchemaParser, Generator, Validator

CONSTANTS
    Prefix,          \* the tokens of a schema text before a rule
    FrameSchema(_)   \* the schema such a text with a rule and a brace stands for

\* A text of the model is all its tokens or, when framed, those of a rule.
Text(d) == IF d.framed THEN Prefix \o d.tokens \o <<"}">> ELSE d.tokens

\* What WriteSchema and ValidateSchema decide before they touch the database.
OutcomeOf(read) ==
    CASE read = Hangs -> "hangs"
      [] read.ok /\ Valid(read.value) -> "accepted"
      [] OTHER -> "invalid"

Outcome(d) == OutcomeOf(Parse(Text(d)))

\* A text as SchemaService takes it.
Judged(d) == [d EXCEPT !.outcome = Outcome(d)]

-----------------------------------------------------------------------------
\* A rule is an or of ands of negations of primary rules; operators of one kind
\* lean to the left.
IsName(t) == t \notin Reserved

IsNameList(ts) ==
    \/ ts = <<>>
    \/ /\ Len(ts) % 2 = 1
       /\ \A i \in DOMAIN ts : IF i % 2 = 1 THEN IsName(ts[i]) ELSE ts[i] = ","

Listed(ts) == [i \in 1 .. (Len(ts) + 1) \div 2 |-> ts[2 * i - 1]]

From(ts, i) == SubSeq(ts, i, Len(ts))

Inside(ts, i) == SubSeq(ts, i, Len(ts) - 1)

Encloses(ts, i) == Len(ts) > i /\ ts[i] = "(" /\ ts[Len(ts)] = ")"

Count(ts, t) == Cardinality({i \in DOMAIN ts : ts[i] = t})

\* Where an operator stands outside of all parentheses.
Places(ts, t) ==
    {i \in DOMAIN ts : /\ ts[i] = t
                       /\ Count(SubSeq(ts, 1, i), "(") = Count(SubSeq(ts, 1, i), ")")}

RECURSIVE OrRules(_)

PrimaryRules(ts) ==
    (IF Encloses(ts, 1) THEN OrRules(Inside(ts, 2)) ELSE {})
    \cup {[kind |-> "relation", relation |-> n] :
            n \in IF Len(ts) = 1 /\ IsName(ts[1]) THEN {ts[1]} ELSE {}}
    \cup (IF Encloses(ts, 2) /\ IsName(ts[1]) /\ IsNameList(Inside(ts, 3))
          THEN {[kind |-> "call", rule |-> ts[1], arguments |-> Listed(Inside(ts, 3))]}
          ELSE {})
    \cup (IF Len(ts) >= 3 /\ IsName(ts[1]) /\ ts[2] = "." /\ IsName(ts[3])
          THEN CASE Len(ts) = 3 ->
                       {[kind |-> "hierarchical", relation |-> ts[1], permission |-> ts[3]]}
                 [] Encloses(ts, 4) /\ IsNameList(Inside(ts, 5)) ->
                       {[kind |-> "parentCall", relation |-> ts[1], rule |-> ts[3],
                         arguments |-> Listed(Inside(ts, 5))]}
                 [] OTHER -> {}
          ELSE {})

UnaryRules(ts) ==
    IF ts # <<>> /\ ts[1] = "not"
    THEN {[kind |-> "not", left |-> p] : p \in PrimaryRules(From(ts, 2))}
    ELSE PrimaryRules(ts)

RECURSIVE AndRules(_)
AndRules(ts) ==
    UnaryRules(ts) \cup
    UNION {{[kind |-> "and", left |-> p, right |-> q] :
               p \in AndRules(SubSeq(ts, 1, i - 1)), q \in UnaryRules(From(ts, i + 1))} :
           i \in Places(ts, "and")}

OrRules(ts) ==
    AndRules(ts) \cup
    UNION {{[kind |-> "or", left |-> p, right |-> q] :
               p \in OrRules(SubSeq(ts, 1, i - 1)), q \in AndRules(From(ts, i + 1))} :
           i \in Places(ts, "or")}

\* Two rules mean the same when the same grants of their leaves satisfy them.
RECURSIVE Leaves(_)
Leaves(rule) ==
    CASE rule.kind \in {"or", "and"} -> Leaves(rule.left) \cup Leaves(rule.right)
      [] rule.kind = "not" -> Leaves(rule.left)
      [] OTHER -> {rule}

RECURSIVE Holds(_, _)
Holds(rule, granted) ==
    CASE rule.kind = "or"  -> Holds(rule.left, granted) \/ Holds(rule.right, granted)
      [] rule.kind = "and" -> Holds(rule.left, granted) /\ Holds(rule.right, granted)
      [] rule.kind = "not" -> ~Holds(rule.left, granted)
      [] OTHER -> rule \in granted

SameMeaning(p, q) ==
    /\ Leaves(p) = Leaves(q)
    /\ \A granted \in SUBSET Leaves(p) : Holds(p, granted) <=> Holds(q, granted)

SameEntity(d, e) ==
    /\ d.name = e.name /\ d.relations = e.relations /\ d.attributes = e.attributes
    /\ Len(d.permissions) = Len(e.permissions)
    /\ \A i \in DOMAIN d.permissions :
          /\ d.permissions[i].name = e.permissions[i].name
          /\ SameMeaning(d.permissions[i].rule, e.permissions[i].rule)

SameSchema(s, t) ==
    /\ s.rules = t.rules
    /\ Len(s.entities) = Len(t.entities)
    /\ \A i \in DOMAIN s.entities : SameEntity(s.entities[i], t.entities[i])

SameWhenRead(schema, again) == again.ok /\ SameSchema(schema, again.value)

ReadAsMeant(d, accepted, schema) ==
    /\ d.framed => LET meant == OrRules(d.tokens)
                   IN  /\ accepted <=> \E rule \in meant : Valid(FrameSchema(rule))
                       /\ accepted => \E rule \in meant : schema = FrameSchema(rule)
    /\ accepted => SameWhenRead(schema, Parse(Generate(schema)))

\* Texts are read as they are meant: a permission is accepted exactly when its
\* tokens stand for a valid rule of the grammar, with or, and, not from the loosest
\* to the tightest, and is read as that rule (parser.go, parseOrExpression down to
\* parsePrimaryExpression); what the generator writes for a schema that was
\* accepted is read as a schema of the same meaning (generator.go).
ReadsAsMeant ==
    \A r \in {q \in Request : Kind(q, "validate") /\ Answered(q)} :
        ReadAsMeant(plan[r].dsl, req[r].answer = "ok", Parse(Text(plan[r].dsl)).value)
=============================================================================
