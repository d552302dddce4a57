----------------------------- MODULE SchemaParser -----------------------------
(***************************************************************************)
(* parser.go over the tokens of lexer.go: what a schema text is read as, and *)
(* whether reading it ends.                                                 *)
(*                                                                         *)
(* A text is a sequence of tokens: keywords, punctuation and names are      *)
(* strings, Illegal stands for a character the lexer refuses.  A parsing    *)
(* function takes the position of the current token and gives back the one  *)
(* it stops at; ok is FALSE when it gives back nil, which always comes with *)
(* an error.  A rule's body is a sequence of tokens.                        *)
(***************************************************************************)
EXTENDS Integers, Sequences

EOF == "EOF"
Illegal == "illegal"

Keywords == {"entity", "relation", "attribute", "permission", "action", "rule",
             "or", "and", "not"}

\* "op" is any operator of rule bodies, "text" a string literal.
Punctuation == {"=", "@", "#", "{", "}", "(", ")", "[", "]", ".", ",", "op", "text"}

Reserved == Keywords \cup Punctuation \cup {EOF}

Tok(ts, i) == IF i > Len(ts) THEN EOF ELSE ts[i]

Name(ts, i) == Tok(ts, i) \notin Reserved

Failed(i) == [at |-> i, ok |-> FALSE]

Parsed(i, v) == [at |-> i, ok |-> TRUE, value |-> v]

\* What comes after r, unless it is a failure.
Then(r, Go(_)) == IF r.ok THEN Go(r) ELSE r

\* Names between parentheses: i is after the opening one, or at a name that
\* follows a comma.
RECURSIVE NameList(_, _, _)
NameList(ts, i, names) ==
    CASE names = <<>> /\ Tok(ts, i) = ")" -> Parsed(i + 1, names)
      [] ~Name(ts, i) -> Failed(IF names = <<>> THEN i ELSE i - 1)
      [] Name(ts, i) /\ Tok(ts, i + 1) = "," -> NameList(ts, i + 2, Append(names, ts[i]))
      [] Name(ts, i) /\ Tok(ts, i + 1) = ")" -> Parsed(i + 2, Append(names, ts[i]))
      [] OTHER -> Failed(i + 1)

-----------------------------------------------------------------------------
RECURSIVE ParseOr(_, _)

\* A parenthesis, a relation or permission, one of a parent, or a call of a rule.
ParsePrimary(ts, i) ==
    CASE Tok(ts, i) = "(" ->
            Then(ParseOr(ts, i + 1),
                 LAMBDA inner : IF Tok(ts, inner.at) = ")" THEN [inner EXCEPT !.at = @ + 1]
                                ELSE Failed(inner.at))
      [] Name(ts, i) /\ Tok(ts, i + 1) = "(" ->
            Then(NameList(ts, i + 2, <<>>),
                 LAMBDA args : Parsed(args.at, [kind |-> "call", rule |-> ts[i],
                                                arguments |-> args.value]))
      [] Name(ts, i) /\ Tok(ts, i + 1) = "." ->
            CASE ~Name(ts, i + 2) -> Failed(i + 1)
              [] Name(ts, i + 2) /\ Tok(ts, i + 3) = "(" ->
                    Then(NameList(ts, i + 4, <<>>),
                         LAMBDA args : Parsed(args.at, [kind |-> "parentCall",
                                                        relation |-> ts[i],
                                                        rule |-> ts[i + 2],
                                                        arguments |-> args.value]))
              [] OTHER -> Parsed(i + 3, [kind |-> "hierarchical", relation |-> ts[i],
                                         permission |-> ts[i + 2]])
      [] Name(ts, i) -> Parsed(i + 1, [kind |-> "relation", relation |-> ts[i]])
      [] OTHER -> Failed(i)

NotOf(inner) == Parsed(inner.at, [kind |-> "not", left |-> inner.value])

\* Mutant: not reaches over everything behind it.
ParseUnaryWide(ts, i) ==
    IF Tok(ts, i) = "not" THEN Then(ParseOr(ts, i + 1), NotOf) ELSE ParsePrimary(ts, i)

\* not binds to the one primary expression behind it.
ParseUnary(ts, i) ==
    IF Tok(ts, i) = "not" THEN Then(ParsePrimary(ts, i + 1), NotOf) ELSE ParsePrimary(ts, i)

Both(kind, left, right) ==
    Parsed(right.at, [kind |-> kind, left |-> left.value, right |-> right.value])

\* The loops of parseAndExpression and parseOrExpression: operators of the same
\* kind lean to the left.
RECURSIVE ParseAndAfter(_, _)
ParseAndAfter(ts, left) ==
    IF ~left.ok \/ Tok(ts, left.at) # "and" THEN left
    ELSE Then(ParseUnary(ts, left.at + 1),
              LAMBDA right : ParseAndAfter(ts, Both("and", left, right)))

ParseAnd(ts, i) == ParseAndAfter(ts, ParseUnary(ts, i))

RECURSIVE ParseOrAfter(_, _)
ParseOrAfter(ts, left) ==
    IF ~left.ok \/ Tok(ts, left.at) # "or" THEN left
    ELSE Then(ParseAnd(ts, left.at + 1),
              LAMBDA right : ParseOrAfter(ts, Both("or", left, right)))

ParseOr(ts, i) == ParseOrAfter(ts, ParseAnd(ts, i))

-----------------------------------------------------------------------------
\* The targets of a relation, from an @ on.
RECURSIVE ParseTargets(_, _, _)
ParseTargets(ts, i, targets) ==
    LET set == Tok(ts, i + 2) = "#"
        last == IF set THEN i + 3 ELSE i + 1
        more == Append(targets, <<ts[i + 1], IF set THEN ts[i + 3] ELSE "">>)
    IN  CASE ~Name(ts, i + 1) -> Failed(i)
          [] Name(ts, i + 1) /\ ~Name(ts, last) -> Failed(i + 2)
          [] Tok(ts, last + 1) = "@" -> ParseTargets(ts, last + 1, more)
          [] OTHER -> Parsed(last + 1, more)

ParseRelation(ts, i) ==
    CASE ~Name(ts, i + 1) -> Failed(i)
      [] Name(ts, i + 1) /\ Tok(ts, i + 2) # "@" -> Failed(i + 1)
      [] OTHER -> Then(ParseTargets(ts, i + 2, <<>>),
                       LAMBDA targets : Parsed(targets.at, [name |-> ts[i + 1],
                                                            targets |-> targets.value]))

ParseAttribute(ts, i) ==
    CASE ~Name(ts, i + 1) -> Failed(i)
      [] Name(ts, i + 1) /\ ~Name(ts, i + 2) -> Failed(i + 1)
      [] Tok(ts, i + 3) = "[" /\ Tok(ts, i + 4) # "]" -> Failed(i + 3)
      [] Tok(ts, i + 3) = "[" /\ Tok(ts, i + 4) = "]" ->
            Parsed(i + 5, [name |-> ts[i + 1], type |-> ts[i + 2] \o "[]"])
      [] OTHER -> Parsed(i + 3, [name |-> ts[i + 1], type |-> ts[i + 2]])

ParsePermission(ts, i) ==
    CASE ~Name(ts, i + 1) -> Failed(i)
      [] Name(ts, i + 1) /\ Tok(ts, i + 2) # "=" -> Failed(i + 1)
      [] OTHER -> Then(ParseOr(ts, i + 3),
                       LAMBDA rule : Parsed(rule.at, [name |-> ts[i + 1],
                                                      rule |-> rule.value]))

\* A section of an entity: the field of the entity it goes to, and how it reads.
Sections == [relation |-> "relations", attribute |-> "attributes",
             permission |-> "permissions", action |-> "permissions"]

ParseSection(ts, i) ==
    CASE Tok(ts, i) = "relation" -> ParseRelation(ts, i)
      [] Tok(ts, i) = "attribute" -> ParseAttribute(ts, i)
      [] Tok(ts, i) \in {"permission", "action"} -> ParsePermission(ts, i)

\* The result of a loop that goes on forever: a section that stops where it began
\* is read again.
Hangs == [at |-> 0, ok |-> FALSE]

RECURSIVE EntityBody(_, _, _, _)

\* The section at i of the entity e.
AfterSection(ts, i, e, clean, section) ==
    CASE section.ok ->
            EntityBody(ts, section.at,
                       [e EXCEPT ![Sections[ts[i]]] = Append(@, section.value)], clean)
      [] ~section.ok /\ section.at = i -> Hangs
      [] OTHER -> EntityBody(ts, section.at, e, FALSE)

\* The body of an entity, read so far as e; clean until there is an error.
EntityBody(ts, i, e, clean) ==
    CASE Tok(ts, i) = "}" -> [at |-> i + 1, ok |-> clean, value |-> e]
      [] Tok(ts, i) = EOF -> Failed(i + 1)
      [] Tok(ts, i) \in DOMAIN Sections ->
            AfterSection(ts, i, e, clean, ParseSection(ts, i))
      [] OTHER -> EntityBody(ts, i + 1, e, FALSE)

\* A definition that failed is left one token after the place it failed at.
ParseEntity(ts, i) ==
    CASE ~Name(ts, i + 1) -> Failed(i + 1)
      [] Name(ts, i + 1) /\ Tok(ts, i + 2) # "{" -> Failed(i + 2)
      [] OTHER -> EntityBody(ts, i + 3,
                             [name |-> ts[i + 1], relations |-> <<>>, attributes |-> <<>>,
                              permissions |-> <<>>], TRUE)

\* The place of the brace that closes the body of a rule, or of the end.
RECURSIVE BodyEnd(_, _, _)
BodyEnd(ts, i, open) ==
    CASE Tok(ts, i) = EOF -> i
      [] Tok(ts, i) = "}" /\ open = 1 -> i
      [] Tok(ts, i) = "}" /\ open > 1 -> BodyEnd(ts, i + 1, open - 1)
      [] Tok(ts, i) = "{" -> BodyEnd(ts, i + 1, open + 1)
      [] OTHER -> BodyEnd(ts, i + 1, open)

\* A rule whose parameters are read.
RuleBody(ts, i, parameters) ==
    LET end == BodyEnd(ts, parameters.at + 1, 1)
    IN  CASE ~parameters.ok -> Failed(parameters.at + 1)
          [] parameters.ok /\ Tok(ts, parameters.at) # "{" -> Failed(parameters.at)
          [] Tok(ts, end) # "}" -> Failed(end + 1)
          [] OTHER -> Parsed(end + 1,
                             [name |-> ts[i + 1], parameters |-> parameters.value,
                              body |-> SubSeq(ts, parameters.at + 1, end - 1)])

ParseRuleDefinition(ts, i) ==
    CASE ~Name(ts, i + 1) -> Failed(i + 1)
      [] Name(ts, i + 1) /\ Tok(ts, i + 2) # "(" -> Failed(i + 2)
      [] OTHER -> RuleBody(ts, i, NameList(ts, i + 3, <<>>))

RECURSIVE ParseFrom(_, _, _, _)

AfterDefinition(ts, schema, clean, field, definition) ==
    CASE definition = Hangs -> Hangs
      [] definition.ok ->
            ParseFrom(ts, definition.at,
                      [schema EXCEPT ![field] = Append(@, definition.value)], clean)
      [] OTHER -> ParseFrom(ts, definition.at, schema, FALSE)

\* The loop of Parse.
ParseFrom(ts, i, schema, clean) ==
    CASE Tok(ts, i) = EOF -> [at |-> i, ok |-> clean, value |-> schema]
      [] Tok(ts, i) = "rule" ->
            AfterDefinition(ts, schema, clean, "rules", ParseRuleDefinition(ts, i))
      [] Tok(ts, i) = "entity" ->
            AfterDefinition(ts, schema, clean, "entities", ParseEntity(ts, i))
      [] OTHER -> ParseFrom(ts, i + 1, schema, FALSE)

\* The lexer never gets past an illegal character: it reports it again whenever it
\* is asked, and the parser takes it for the end.
Lexed(text) ==
    LET legal == {n \in 0..Len(text) : \A j \in 1..n : text[j] # Illegal}
    IN  SubSeq(text, 1, CHOOSE n \in legal : \A k \in legal : k <= n)

Parse(text) ==
    ParseFrom(Lexed(text), 1, [rules |-> <<>>, entities |-> <<>>], Lexed(text) = text)
=============================================================================
