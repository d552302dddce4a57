------------------------------- MODULE Evaluator -------------------------------
(***************************************************************************)
(* The evaluation of one permission check by evaluator.go: a stack of calls *)
(* in which every read of the database is a step of its own, while other    *)
(* requests commit tuples.                                                  *)
(*                                                                         *)
(* A frame is a running call of EvaluateRule or evaluateRelation.  result   *)
(* is what the call that has just returned gave back.  Tuples come in any   *)
(* order, since no query has an ORDER BY.  An entity or subject is an       *)
(* object, a (type, id) pair.  The attributes a CEL expression may look at  *)
(* are one Boolean per object, which may be absent.                         *)
(***************************************************************************)
EXTENDS Permissions, Integers, Sequences, FiniteSets, FiniteSetsExt

CONSTANTS
    OwnType,           \* <<type, relation>> whose first target is the type itself
    RuleDefs,          \* rule definitions by <<type or "", name>>
    Tuple,             \* the tuples that may be stored
    Volatile(_),       \* per request: the tuples others may write or delete meanwhile
    Scenario,          \* what is stored and asked
    Question(_),       \* per request: what calls are about, pairs <<rule, object>>
    Meaning(_, _, _),  \* per request, tuples stored all the time and at some time:
                       \* the questions that may be granted and those that must be
    CallsOf(_, _),     \* per question and tuples: the calls one level deeper
    MaxDepth,          \* MaxDepth
    MaxTuplesPerQuery, \* MaxTuplesPerQuery
    MaxCommits         \* bound: commits of other requests

ASSUME EvaluatorAssumption ==
    /\ MaxDepth \in Nat \ {0}
    /\ MaxTuplesPerQuery \in Nat \ {0}
    /\ MaxCommits \in Nat

VARIABLES
    stored,    \* rows of the table relations
    req,       \* the request
    stack,     \* the running calls, the innermost first
    result,    \* what the last call returned, "none" after a call begins
    shortcut,  \* did FindHierarchicalWithSubject answer a call? (history)
    ever,      \* tuples stored at some time of the evaluation (history)
    always     \* tuples stored all the time (history)

vars == <<stored, req, stack, result, shortcut, ever, always>>

Errors == {"depth", "schema", "cel", "db"}

Frame(rule, o, depth) ==
    [rule |-> rule, entity |-> o, depth |-> depth, pc |-> "start", todo |-> {}]

Init ==
    \E s \in Scenario :
        /\ stored = s.stored
        /\ req = s.req
        /\ stack = <<Frame(Asked(s.req.entity, s.req.name), s.req.entity, 0)>>
        /\ result = "none"
        /\ shortcut = FALSE
        /\ ever = s.stored
        /\ always = s.stored

-----------------------------------------------------------------------------
Top == Head(stack)

Answer(v) == result' = v /\ stack' = Tail(stack)

\* The running call becomes f; with Call, f waits for the call g.
Become(f) == result' = "none" /\ stack' = <<f>> \o Tail(stack)

Call(g, f) == result' = "none" /\ stack' = <<g, f>> \o Tail(stack)

\* A call of a rule of this kind is about to do what pc says.
At(kind, pc) ==
    /\ stack # <<>>
    /\ Top.rule.kind = kind
    /\ Top.pc = pc
    /\ result \in {"none", "false"}
    /\ pc = "start" => Top.depth < MaxDepth
    /\ UNCHANGED <<stored, req, ever, always>>

Boolean(b) == IF b THEN "true" ELSE "false"

DirectTuple(q, o, r) == [entity |-> o, relation |-> r, subject |-> q.subject,
                         subjectRelation |-> q.subjectRelation]

\* FindByEntityWithRelation, then the contextual tuples: the query returns any
\* rows when there are more than the limit.
Rows(o, r) ==
    LET of(T) == {t \in T : t.entity = o /\ t.relation = r}
        size == Min({Cardinality(of(stored)), MaxTuplesPerQuery})
    IN  {some \cup of(req.context) : some \in kSubset(size, of(stored))}

Usersets(rows) == {t \in rows : t.subjectRelation # ""}

Parents(rows) == {t \in rows : t.subjectRelation = ""}

\* EvaluateRule and evaluateRelation refuse to go deeper.
DepthExceeded ==
    /\ stack # <<>>
    /\ result = "none"
    /\ Top.pc = "start"
    /\ Top.depth >= MaxDepth
    /\ Answer("depth")
    /\ UNCHANGED <<stored, req, shortcut, ever, always>>

\* The query of a call fails, or its context is cancelled.
ReadFails ==
    /\ \E kind \in {"relation", "hierarchical", "abac", "call", "parentCall"} :
          At(kind, "start") \/ At(kind, "find")
    /\ Answer("db")
    /\ UNCHANGED shortcut

\* Mutant: a call that failed gives nothing back.
PassErrorSilently ==
    /\ stack # <<>>
    /\ result \in Errors
    /\ Answer("none")
    /\ UNCHANGED <<stored, req, shortcut, ever, always>>

\* Every caller hands an error on.
PassError ==
    /\ stack # <<>>
    /\ result \in Errors
    /\ Answer(result)
    /\ UNCHANGED <<stored, req, shortcut, ever, always>>

\* evaluateRelation on the name of a permission of the entity.
PermissionReference ==
    /\ At("relation", "start")
    /\ ~Has(Top.entity, Top.rule.relation)
    /\ Permits(Top.entity, Top.rule.relation)
    /\ Become(Frame(PermissionRule(Top.entity, Top.rule.relation), Top.entity,
                    Top.depth + 1))
    /\ UNCHANGED shortcut

\* Exists, or ExistsWithSubjectRelation, whose answer is final.
ReadDirect ==
    LET found == DirectTuple(req, Top.entity, Top.rule.relation) \in stored \cup req.context
    IN  /\ At("relation", "start")
        /\ Has(Top.entity, Top.rule.relation) \/ ~Permits(Top.entity, Top.rule.relation)
        /\ IF found \/ req.subjectRelation # ""
           THEN Answer(Boolean(found))
           ELSE Become([Top EXCEPT !.pc = "find"])
        /\ UNCHANGED shortcut

FindUsersets ==
    /\ At("relation", "find")
    /\ \E rows \in Rows(Top.entity, Top.rule.relation) :
          Become([Top EXCEPT !.pc = "loop", !.todo = Usersets(rows)])
    /\ UNCHANGED shortcut

\* Mutant: the loop does not get past a userset that denies.
NextUsersetAgain ==
    /\ At("relation", "loop")
    /\ IF Top.todo = {}
       THEN Answer("false")
       ELSE \E t \in Top.todo :
               Call(Frame(Relation(t.subjectRelation), t.subject, Top.depth + 1), Top)
    /\ UNCHANGED shortcut

NextUserset ==
    /\ At("relation", "loop")
    /\ IF Top.todo = {}
       THEN Answer("false")
       ELSE \E t \in Top.todo :
               Call(Frame(Relation(t.subjectRelation), t.subject, Top.depth + 1),
                    [Top EXCEPT !.todo = @ \ {t}])
    /\ UNCHANGED shortcut

\* A userset or a parent grants it: the loops end.
Granted ==
    /\ stack # <<>>
    /\ Top.pc = "loop"
    /\ result = "true"
    /\ Answer("true")
    /\ UNCHANGED <<stored, req, shortcut, ever, always>>

\* Mutant: operands count as a level of depth.
EvaluateLeftDeeper ==
    /\ \E kind \in {"or", "and", "not"} : At(kind, "start")
    /\ Call(Frame(Top.rule.left, Top.entity, Top.depth + 1), [Top EXCEPT !.pc = "left"])
    /\ UNCHANGED shortcut

\* evaluateLogical hands its own depth on.
EvaluateLeft ==
    /\ \E kind \in {"or", "and", "not"} : At(kind, "start")
    /\ Call(Frame(Top.rule.left, Top.entity, Top.depth), [Top EXCEPT !.pc = "left"])
    /\ UNCHANGED shortcut

AfterLeft ==
    /\ stack # <<>>
    /\ Top.pc = "left"
    /\ result \in {"true", "false"}
    /\ CASE Top.rule.kind = "not" -> Answer(Boolean(result = "false"))
         [] Top.rule.kind = "or" /\ result = "true" -> Answer("true")
         [] Top.rule.kind = "and" /\ result = "false" -> Answer("false")
         [] OTHER -> Become(Frame(Top.rule.right, Top.entity, Top.depth))
    /\ UNCHANGED <<stored, req, shortcut, ever, always>>

-----------------------------------------------------------------------------
\* The rows of the recursive query of FindHierarchicalWithSubject, without the
\* depth column.
HierarchyFrom(T, o, r) ==
    LET up(S) == {t.subject : t \in {u \in T : /\ u.entity \in S
                                               /\ u.relation = r
                                               /\ u.subjectRelation = ""}}
        level[i \in 1..MaxDepth] == IF i = 1 THEN up({o}) ELSE up(level[i - 1])
    IN  UNION {level[i] : i \in 1..MaxDepth}

CanShortcut ==
    /\ <<TypeOf[Top.entity], Top.rule.relation>> \in OwnType
    /\ Top.rule.permission = Top.rule.relation
    /\ req.context = {}
    /\ req.subjectRelation = ""

FindHierarchical ==
    /\ At("hierarchical", "start")
    /\ Has(Top.entity, Top.rule.relation)
    /\ CanShortcut
    /\ Answer(Boolean(req.subject \in HierarchyFrom(stored, Top.entity, Top.rule.relation)))
    /\ shortcut' = TRUE

\* The parents are read when there is no shortcut, and when its query failed.
NoShortcut ==
    /\ At("hierarchical", "start")
    /\ IF Has(Top.entity, Top.rule.relation)
       THEN Become([Top EXCEPT !.pc = "find"])
       ELSE Answer("schema")
    /\ UNCHANGED shortcut

\* Mutant: subject sets count as parents.
FindParentsAndUsersets ==
    /\ \/ At("hierarchical", "find")
       \/ At("parentCall", "start")
    /\ \E rows \in Rows(Top.entity, Top.rule.relation) :
          Become([Top EXCEPT !.pc = "loop", !.todo = rows])
    /\ UNCHANGED shortcut

FindParents ==
    /\ \/ At("hierarchical", "find")
       \/ At("parentCall", "start")
    /\ \E rows \in Rows(Top.entity, Top.rule.relation) :
          Become([Top EXCEPT !.pc = "loop", !.todo = Parents(rows)])
    /\ UNCHANGED shortcut

\* A parent whose type knows neither a permission nor a relation of the name is
\* skipped.
NextParent ==
    /\ At("hierarchical", "loop")
    /\ IF Top.todo = {}
       THEN Answer("false")
       ELSE \E t \in Top.todo :
               LET rest == [Top EXCEPT !.todo = @ \ {t}]
               IN  IF Permits(t.subject, Top.rule.permission) \/ Has(t.subject, Top.rule.permission)
                   THEN Call(Frame(Asked(t.subject, Top.rule.permission), t.subject,
                                   Top.depth + 1), rest)
                   ELSE Become(rest)
    /\ UNCHANGED shortcut

-----------------------------------------------------------------------------
\* A contextual attribute overrides the stored one.
Attribute(q, o) == IF q.ctxAttrs[o] # "absent" THEN q.ctxAttrs[o] ELSE q.attrs[o]

\* CEL fails on an attribute that is not there.
CEL(value) == IF value = "absent" THEN "cel" ELSE value

EvaluateABAC ==
    /\ At("abac", "start")
    /\ Answer(CEL(Attribute(req, Top.entity)))
    /\ UNCHANGED shortcut

\* The body of a rule looks at its first parameter, which stands for the
\* resource, the subject or nothing.
ParameterContext(q, o, argument) ==
    CASE argument = "resource" -> Attribute(q, o)
      [] argument = "subject"  -> Attribute(q, q.subject)
      [] OTHER                 -> "absent"

CallOutcome(q, o, rule) ==
    LET key == <<"", rule.rule>>
    IN  IF key \in DOMAIN RuleDefs /\ RuleDefs[key].arity = Len(rule.arguments)
        THEN CEL(ParameterContext(q, o, rule.arguments[1]))
        ELSE "schema"

EvaluateRuleCall ==
    /\ At("call", "start")
    /\ Answer(CallOutcome(req, Top.entity, Top.rule))
    /\ UNCHANGED shortcut

\* The rule of the parent's type comes before the general one.
RuleFor(o, n) == IF <<TypeOf[o], n>> \in DOMAIN RuleDefs THEN <<TypeOf[o], n>> ELSE <<"", n>>

\* The body looks at this, the parent, or at the parameter, an attribute of the
\* entity; a parameter without a value is not declared to CEL.
ParentOutcome(q, parent, o, rule) ==
    LET key == RuleFor(parent, rule.rule)
    IN  CASE key \notin DOMAIN RuleDefs -> "schema"
          [] RuleDefs[key].arity # Len(rule.arguments) -> "schema"
          [] RuleDefs[key].body = "this" -> CEL(Attribute(q, parent))
          [] OTHER -> CEL(Attribute(q, o))

NextParentCall ==
    /\ At("parentCall", "loop")
    /\ IF Top.todo = {}
       THEN Answer("false")
       ELSE \E t \in Top.todo :
               LET outcome == ParentOutcome(req, t.subject, Top.entity, Top.rule)
               IN  IF outcome = "false"
                   THEN Become([Top EXCEPT !.todo = @ \ {t}])
                   ELSE Answer(outcome)
    /\ UNCHANGED shortcut

-----------------------------------------------------------------------------
EvalStep ==
    \/ DepthExceeded
    \/ PassError
    \/ PermissionReference
    \/ ReadDirect
    \/ FindUsersets
    \/ NextUserset
    \/ Granted
    \/ EvaluateLeft
    \/ AfterLeft
    \/ FindHierarchical
    \/ NoShortcut
    \/ FindParents
    \/ NextParent
    \/ EvaluateABAC
    \/ EvaluateRuleCall
    \/ NextParentCall

\* Another request writes or deletes a tuple.
CommitOther(t) ==
    /\ stack # <<>>
    /\ Cardinality(ever \ always) < MaxCommits
    /\ t \notin ever \ always
    /\ stored' = IF t \in stored THEN stored \ {t} ELSE stored \cup {t}
    /\ ever' = ever \cup {t}
    /\ always' = always \ {t}
    /\ UNCHANGED <<req, stack, result, shortcut>>

Next ==
    \/ EvalStep
    \/ ReadFails
    \/ \E t \in Volatile(req) : CommitOther(t)

Fairness == WF_vars(EvalStep)

Spec == Init /\ [][Next]_vars /\ Fairness

-----------------------------------------------------------------------------
(***************************************************************************)
(* What the permissions mean, without an order of evaluation.  pos and neg  *)
(* hold tuples and the questions they grant: pos is for what must hold, neg *)
(* for what a negation excludes.                                            *)
(***************************************************************************)
Knowledge(q, T, G) == [tuples |-> T \cup q.context, granted |-> G]

Names(o) == RelationsOf[TypeOf[o]] \cup DOMAIN PermissionsOf[TypeOf[o]]

\* The question of the request.
Goal(q) == <<Asked(q.entity, q.name), q.entity>>

\* The rows a rule of o looks at.
About(o, rule, rows) == {t \in rows : t.entity = o /\ t.relation = rule.relation}

Refers(o, rule) == rule.kind = "relation" /\ ~Has(o, rule.relation) /\ Permits(o, rule.relation)

Referred(o, rule) == <<PermissionRule(o, rule.relation), o>>

Member(t) == <<Relation(t.subjectRelation), t.subject>>

Parent(t, rule) == <<Asked(t.subject, rule.permission), t.subject>>

\* The answer to a question, given those to the questions it leads to.
Holds(q, x, pos, neg) ==
    LET rule == x[1]
        o == x[2]
        left == <<rule.left, o>>
        right == <<rule.right, o>>
    IN  CASE Refers(o, rule) -> Referred(o, rule) \in pos.granted
          [] rule.kind = "relation" /\ ~Refers(o, rule) ->
                \/ DirectTuple(q, o, rule.relation) \in pos.tuples
                \/ /\ q.subjectRelation = ""
                   /\ \E t \in Usersets(About(o, rule, pos.tuples)) : Member(t) \in pos.granted
          [] rule.kind = "or"  -> left \in pos.granted \/ right \in pos.granted
          [] rule.kind = "and" -> left \in pos.granted /\ right \in pos.granted
          [] rule.kind = "not" -> left \notin neg.granted
          [] rule.kind = "hierarchical" ->
                \E t \in Parents(About(o, rule, pos.tuples)) :
                    rule.permission \in Names(t.subject) /\ Parent(t, rule) \in pos.granted
          [] rule.kind = "abac" -> Attribute(q, o) = "true"
          [] rule.kind = "call" -> CallOutcome(q, o, rule) = "true"
          [] rule.kind = "parentCall" ->
                \E t \in Parents(About(o, rule, pos.tuples)) :
                    ParentOutcome(q, t.subject, o, rule) = "true"

\* The operands of a rule, and the calls it makes itself.
Operands(x) ==
    CASE x[1].kind \in {"or", "and"} -> {<<x[1].left, x[2]>>, <<x[1].right, x[2]>>}
      [] x[1].kind = "not" -> {<<x[1].left, x[2]>>}
      [] OTHER -> {}

OwnCalls(x, T) ==
    LET rule == x[1]
        o == x[2]
    IN  CASE Refers(o, rule) -> {Referred(o, rule)}
          [] rule.kind = "relation" /\ ~Refers(o, rule) ->
                {Member(t) : t \in Usersets(About(o, rule, T))}
          [] rule.kind = "hierarchical" ->
                {Parent(t, rule) :
                    t \in {u \in Parents(About(o, rule, T)) : rule.permission \in Names(u.subject)}}
          [] OTHER -> {}

Kinds == {"relation", "or", "and", "not", "hierarchical", "abac", "call", "parentCall"}

\* Requests and tuples are about the objects of the schema, and no call leads to
\* something that is no question.
ASSUME QuestionAssumption ==
    /\ \A s \in Scenario : IsFiniteSet(s.stored) /\ s.stored \subseteq Tuple
    /\ \A q \in {s.req : s \in Scenario} :
          /\ IsFiniteSet(Volatile(q)) /\ Volatile(q) \subseteq Tuple
          /\ Goal(q) \in Question(q)
          /\ q.subject \in Object
          /\ \A o \in Object : {q.attrs[o], q.ctxAttrs[o]} \subseteq {"absent", "true", "false"}
          /\ \A t \in Tuple \cup q.context : t.subject \in Object
          /\ \A x \in Question(q) :
                /\ x = <<x[1], x[2]>> /\ x[1].kind \in Kinds /\ x[2] \in Object
                /\ Operands(x) \cup OwnCalls(x, Tuple \cup q.context) \subseteq Question(q)

\* A request, and the tuples that may have been stored all the time and at some time.
Bounds ==
    UNION {{<<s.req, s.stored \ V, s.stored \cup V>> :
              V \in {U \in SUBSET Volatile(s.req) : Cardinality(U) <= MaxCommits}} : s \in Scenario}

\* Meaning solves the equations of the questions, CallsOf those of the calls.
ASSUME MeaningAssumption ==
    \A b \in Bounds :
        LET meaning == Meaning(b[1], b[2], b[3])
            may == Knowledge(b[1], b[3], meaning.may)
            must == Knowledge(b[1], b[2], meaning.must)
        IN  /\ may.granted = {x \in Question(b[1]) : Holds(b[1], x, may, must)}
            /\ must.granted = {x \in Question(b[1]) : Holds(b[1], x, must, may)}
            /\ \A x \in Question(b[1]) :
                  CallsOf(x, may.tuples) =
                      OwnCalls(x, may.tuples) \cup UNION {CallsOf(y, may.tuples) : y \in Operands(x)}

Done == stack = <<>>

-----------------------------------------------------------------------------
TypeOK ==
    /\ stored \subseteq Tuple
    /\ stack \in Seq([rule : {x[1] : x \in Question(req)}, entity : Object, depth : 0..MaxDepth,
                       pc : {"start", "find", "loop", "left"},
                       todo : SUBSET (Tuple \cup req.context)])
    /\ result \in {"none", "true", "false"} \cup Errors
    /\ Done => result # "none"
    /\ always \subseteq stored /\ stored \subseteq ever

\* No query has more rows than it may return.
Whole(T) ==
    \A t \in T : Cardinality({u \in T : u.entity = t.entity /\ u.relation = t.relation})
                     <= MaxTuplesPerQuery

\* An answer agrees with the meaning of the permission, however usersets,
\* hierarchies and negations nest and in whatever order tuples come: with commits
\* in between, what is allowed follows from tuples that were there at some time
\* and negations of what was not there all the time, and what is denied does not
\* follow from what was there all the time (EvaluateRule; answers of the
\* hierarchical shortcut and of queries that were cut off are left out).
AnswerBounded ==
    Done /\ ~shortcut /\ Whole(ever) =>
        /\ result = "true" => Goal(req) \in Meaning(req, always, ever).may
        /\ result = "false" => Goal(req) \notin Meaning(req, always, ever).must

\* The questions asked i levels deep, when the tuples T are stored.
Level(q, T) ==
    LET level[i \in 0..MaxDepth] ==
            IF i = 0 THEN {Goal(q)} ELSE UNION {CallsOf(x, T) : x \in level[i - 1]}
    IN  level

\* The depth error is never a false alarm: there is a chain of MaxDepth calls
\* (usersets, parents, permission references) in what was stored.
DepthErrorIsReal ==
    Done /\ result = "depth" => Level(req, ever \cup req.context)[MaxDepth] # {}

\* Every check is answered, cycles among usersets and parents included.
Answered == <>Done
=============================================================================
