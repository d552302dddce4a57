--------------------------- MODULE EvaluatorProofs ---------------------------
(***************************************************************************)
(* Proofs about Evaluator.  A running call is tied to what its caller makes  *)
(* of its answer: what grants the call grants the caller, and what denies   *)
(* the call leaves the caller denied so far.  This is stated for all bounds *)
(* of the stored tuples that the commits of others have not left yet, so    *)
(* that a commit only takes bounds away.                                    *)
(***************************************************************************)
EXTENDS Evaluator, FiniteSetTheorems, WellFoundedInduction, TLAPS

-----------------------------------------------------------------------------
(***************************************************************************)
(* The running calls of a stack s and what the last one returned, v.  b are *)
(* bounds of the stored tuples, q is a request.                             *)
(***************************************************************************)
Lo(b) == b[2] \cup b[1].context
Hi(b) == b[3] \cup b[1].context

May(b) == Meaning(b[1], b[2], b[3]).may
Must(b) == Meaning(b[1], b[2], b[3]).must

Frames(q) ==
    [rule : {x[1] : x \in Question(q)}, entity : Object, depth : 0..MaxDepth,
     pc : {"start", "find", "loop", "left"}, todo : SUBSET (Tuple \cup q.context)]

Asks(f) == <<f.rule, f.entity>>

\* The tuples a loop goes through.
Sought(f, T) ==
    IF f.rule.kind = "relation" THEN Usersets(About(f.entity, f.rule, T))
                                ELSE Parents(About(f.entity, f.rule, T))

FrameOK(q, lo, hi, f) ==
    /\ Asks(f) \in Question(q)
    /\ f.pc # "start" => f.depth < MaxDepth
    /\ f.pc = "find" => f.rule.kind \in {"relation", "hierarchical"}
    /\ f.pc = "left" => f.rule.kind \in {"or", "and", "not"}
    /\ f.pc = "loop" => /\ f.rule.kind \in {"relation", "hierarchical", "parentCall"}
                        /\ f.todo \subseteq Sought(f, hi \cup q.context)
    /\ f.rule.kind = "relation" /\ f.pc # "start" =>
          /\ ~Refers(f.entity, f.rule)
          /\ q.subjectRelation = ""
          /\ DirectTuple(q, f.entity, f.rule.relation) \notin lo \cup q.context

\* Only the innermost call runs; its callers wait for an operand or in a loop.
Calls(q, lo, hi, s, v) ==
    /\ s \in Seq(Frames(q))
    /\ \A i \in 1..Len(s) : FrameOK(q, lo, hi, s[i])
    /\ \A i \in 2..Len(s) : s[i].pc \in {"loop", "left"}
    /\ s # <<>> /\ v # "none" => s[1].pc \in {"loop", "left"}

\* A tuple of a loop does not grant the call.
Refuses(b, f, t) ==
    CASE f.rule.kind = "relation"     -> Member(t) \notin Must(b)
      [] f.rule.kind = "hierarchical" ->
            f.rule.permission \in Names(t.subject) => Parent(t, f.rule) \notin Must(b)
      [] OTHER -> ParentOutcome(b[1], t.subject, f.entity, f.rule) # "true"

Denied(b, f) == \A t \in Sought(f, Lo(b)) \ f.todo : Refuses(b, f, t)

\* A waiting call may be given v.
Fits(b, f, v) ==
    /\ f.pc = "left" /\ v = "true" => <<f.rule.left, f.entity>> \in May(b)
    /\ f.pc = "left" /\ v = "false" => <<f.rule.left, f.entity>> \notin Must(b)
    /\ f.pc # "left" /\ v = "true" => Asks(f) \in May(b)
    /\ f.pc # "left" /\ v = "false" => Denied(b, f)

\* The k-th call may be given v; what the outermost call gives is the answer.
Suits(b, s, k, v) ==
    IF k <= Len(s) THEN Fits(b, s[k], v)
    ELSE /\ v = "true" => Goal(b[1]) \in May(b)
         /\ v = "false" => Goal(b[1]) \notin Must(b)

\* What the k-th call gives when x is what is asked below it.
Yields(b, s, k, x) ==
    /\ x \in May(b) => Suits(b, s, k, "true")
    /\ x \notin Must(b) => Suits(b, s, k, "false")

Tied(b, s, v) ==
    /\ \A i \in 1..Len(s) : Yields(b, s, i + 1, Asks(s[i]))
    /\ Suits(b, s, 1, v)
    /\ s # <<>> /\ v = "none" /\ s[1].pc = "loop" => Denied(b, s[1])

\* Every running call is an operand of a question as deep as the call, or the
\* question itself.
Within(b, x, depth) ==
    \E y \in Level(b[1], Hi(b))[depth] : CallsOf(x, Hi(b)) \subseteq CallsOf(y, Hi(b))

Reached(b, s, v) ==
    /\ \A i \in 1..Len(s) : Within(b, Asks(s[i]), s[i].depth)
    /\ v = "depth" => Level(b[1], Hi(b))[MaxDepth] # {}

-----------------------------------------------------------------------------
(***************************************************************************)
(* The invariant.                                                           *)
(***************************************************************************)
Origin(s, V) ==
    /\ s \in Scenario /\ req = s.req
    /\ V \in SUBSET Volatile(req) /\ IsFiniteSet(V) /\ Cardinality(V) <= MaxCommits
    /\ always = s.stored \ V
    /\ ever = s.stored \cup V
    /\ always \subseteq stored /\ stored \subseteq ever

Begun == \E s, V : Origin(s, V)

\* Bounds the evaluation may still end with.
Around(b) == b \in Bounds /\ b[1] = req /\ b[2] \subseteq always /\ ever \subseteq b[3]

Sound == ~shortcut => \A b \in Bounds : Around(b) /\ Whole(b[3]) => Tied(b, stack, result)

Deep == \A b \in Bounds : Around(b) => Reached(b, stack, result)

EvaluatorInv ==
    /\ Begun
    /\ Calls(req, always, ever, stack, result)
    /\ result \in {"none", "true", "false"} \cup Errors
    /\ Done => result # "none"
    /\ Sound
    /\ Deep

-----------------------------------------------------------------------------
(***************************************************************************)
(* Stacks.                                                                  *)
(***************************************************************************)
LEMMA TailStack ==
    ASSUME NEW S, NEW s \in Seq(S), s # <<>>
    PROVE  /\ Head(s) = s[1] /\ s[1] \in S /\ Len(s) \in Nat /\ Len(s) >= 1
           /\ Tail(s) \in Seq(S) /\ Len(Tail(s)) = Len(s) - 1
           /\ \A i \in 1..Len(s) - 1 : Tail(s)[i] = s[i + 1]
OBVIOUS

LEMMA ReplacedStack ==
    ASSUME NEW S, NEW s \in Seq(S), s # <<>>, NEW f \in S
    PROVE  LET r == <<f>> \o Tail(s) IN
           /\ r \in Seq(S) /\ Len(r) = Len(s) /\ r # <<>>
           /\ r[1] = f /\ \A i \in 2..Len(s) : r[i] = s[i]
<1>1. Len(Tail(s)) = Len(s) - 1 /\ Len(s) \in Nat /\ Len(s) >= 1
  OBVIOUS
<1> QED BY <1>1

LEMMA CalledStack ==
    ASSUME NEW S, NEW s \in Seq(S), s # <<>>, NEW f \in S, NEW g \in S
    PROVE  LET r == <<g, f>> \o Tail(s) IN
           /\ r \in Seq(S) /\ Len(r) = Len(s) + 1 /\ r # <<>>
           /\ r[1] = g /\ r[2] = f /\ \A i \in 3..Len(s) + 1 : r[i] = s[i - 1]
<1>1. Len(Tail(s)) = Len(s) - 1 /\ Len(s) \in Nat /\ Len(s) >= 1
  OBVIOUS
<1> QED BY <1>1

\* A call returns.
LEMMA CallsAnswer ==
    ASSUME NEW q, NEW lo, NEW hi, NEW s, NEW v, NEW w, Calls(q, lo, hi, s, v), s # <<>>
    PROVE  Calls(q, lo, hi, Tail(s), w)
<1>1. s \in Seq(Frames(q))
  BY DEF Calls
<1> DEFINE r == Tail(s)
<1>2. /\ Len(s) \in Nat /\ Len(s) >= 1 /\ r \in Seq(Frames(q)) /\ Len(r) = Len(s) - 1
      /\ \A i \in 1..Len(s) - 1 : r[i] = s[i + 1]
  BY <1>1, TailStack
<1> HIDE DEF r
<1>3. \A i \in 1..Len(r) : FrameOK(q, lo, hi, r[i]) /\ r[i].pc \in {"loop", "left"}
  <2> TAKE i \in 1..Len(r)
  <2>1. i + 1 \in 1..Len(s) /\ i + 1 \in 2..Len(s) /\ r[i] = s[i + 1]
    BY <1>2
  <2> QED BY <2>1 DEF Calls
<1>4. r # <<>> => 1 \in 1..Len(r)
  BY <1>2
<1>5. \A i \in 2..Len(r) : i \in 1..Len(r)
  BY <1>2
<1>6. Calls(q, lo, hi, r, w)
  BY <1>2, <1>3, <1>4, <1>5 DEF Calls
<1> QED BY <1>6 DEF r

LEMMA SuitsShift ==
    ASSUME NEW b, NEW r, NEW s, NEW k \in Nat, NEW j \in Nat, NEW v,
           (k <= Len(r)) <=> (j <= Len(s)), k <= Len(r) => r[k] = s[j]
    PROVE  Suits(b, r, k, v) <=> Suits(b, s, j, v)
BY DEF Suits

LEMMA TiedAnswer ==
    ASSUME NEW b, NEW S, NEW s \in Seq(S), s # <<>>, NEW v, NEW w, Tied(b, s, v),
           w = "true" => Asks(s[1]) \in May(b),
           w = "false" => Asks(s[1]) \notin Must(b),
           w # "none"
    PROVE  Tied(b, Tail(s), w)
<1> DEFINE r == Tail(s)
<1>1. /\ Len(s) \in Nat /\ Len(s) >= 1 /\ Len(r) = Len(s) - 1
      /\ \A i \in 1..Len(s) - 1 : r[i] = s[i + 1]
  BY TailStack
<1> HIDE DEF r
<1>2. \A k \in 1..Len(s) : \A x : Suits(b, r, k, x) <=> Suits(b, s, k + 1, x)
  <2> TAKE k \in 1..Len(s)
  <2> TAKE x
  <2>1. k \in Nat /\ k + 1 \in Nat /\ ((k <= Len(r)) <=> (k + 1 <= Len(s)))
    BY <1>1
  <2>2. k <= Len(r) => r[k] = s[k + 1]
    BY <1>1
  <2> QED BY <2>1, <2>2, SuitsShift
<1>3. ASSUME NEW i \in 1..Len(r) PROVE Yields(b, r, i + 1, Asks(r[i]))
  <2>1. /\ i + 1 \in 1..Len(s) /\ r[i] = s[i + 1]
    BY <1>1
  <2>2. Yields(b, s, (i + 1) + 1, Asks(s[i + 1]))
    BY <2>1 DEF Tied
  <2> QED BY <1>2, <2>1, <2>2 DEF Yields
<1>4. Suits(b, r, 1, w)
  <2>1. Yields(b, s, 1 + 1, Asks(s[1])) /\ 1 \in 1..Len(s)
    BY <1>1 DEF Tied
  <2>2. Suits(b, r, 1, w) <=> Suits(b, s, 1 + 1, w)
    BY <1>2, <2>1
  <2>3. CASE w = "true"
    BY <2>1, <2>2, <2>3 DEF Yields
  <2>4. CASE w = "false"
    BY <2>1, <2>2, <2>4 DEF Yields
  <2>5. CASE w \notin {"true", "false"}
    BY <2>5 DEF Suits, Fits
  <2> QED BY <2>3, <2>4, <2>5
<1>5. Tied(b, r, w)
  BY <1>3, <1>4 DEF Tied
<1> QED BY <1>5 DEF r

LEMMA ReachedAnswer ==
    ASSUME NEW b, NEW S, NEW s \in Seq(S), s # <<>>, NEW v, NEW w, Reached(b, s, v),
           w = "depth" => Level(b[1], Hi(b))[MaxDepth] # {}
    PROVE  Reached(b, Tail(s), w)
<1> DEFINE r == Tail(s)
<1>1. /\ Len(s) \in Nat /\ Len(s) >= 1 /\ Len(r) = Len(s) - 1
      /\ \A i \in 1..Len(s) - 1 : r[i] = s[i + 1]
  BY TailStack
<1> HIDE DEF r
<1>2. ASSUME NEW i \in 1..Len(r) PROVE Within(b, Asks(r[i]), r[i].depth)
  <2>1. /\ i + 1 \in 1..Len(s) /\ r[i] = s[i + 1]
    BY <1>1
  <2> QED BY <2>1 DEF Reached
<1>3. Reached(b, r, w)
  BY <1>2 DEF Reached
<1> QED BY <1>3 DEF r

\* A call goes on as f: the same call, or one that takes its place.
LEMMA CallsBecome ==
    ASSUME NEW q, NEW lo, NEW hi, NEW s, NEW v, NEW f \in Frames(q),
           Calls(q, lo, hi, s, v), s # <<>>, FrameOK(q, lo, hi, f)
    PROVE  Calls(q, lo, hi, <<f>> \o Tail(s), "none")
<1>1. s \in Seq(Frames(q))
  BY DEF Calls
<1> DEFINE r == <<f>> \o Tail(s)
<1>2. /\ r \in Seq(Frames(q)) /\ Len(r) = Len(s) /\ r # <<>>
      /\ r[1] = f /\ \A i \in 2..Len(s) : r[i] = s[i]
  BY <1>1, ReplacedStack
<1> HIDE DEF r
<1>3. Calls(q, lo, hi, r, "none")
  <2>1. ASSUME NEW i \in 1..Len(r) PROVE FrameOK(q, lo, hi, r[i])
    <3>1. i = 1 \/ i \in 2..Len(s)
      BY <1>2
    <3> QED BY <1>2, <3>1 DEF Calls
  <2> QED BY <1>2, <2>1 DEF Calls
<1> QED BY <1>3 DEF r

LEMMA TiedBecome ==
    ASSUME NEW b, NEW S, NEW s \in Seq(S), s # <<>>, NEW f \in S, NEW v,
           Tied(b, s, v),
           Yields(b, s, 2, Asks(f)),
           f.pc = "loop" => Denied(b, f)
    PROVE  Tied(b, <<f>> \o Tail(s), "none")
<1> DEFINE r == <<f>> \o Tail(s)
<1>1. /\ Len(r) = Len(s) /\ r # <<>> /\ Len(s) \in Nat /\ Len(s) >= 1
      /\ r[1] = f /\ \A i \in 2..Len(s) : r[i] = s[i]
  BY ReplacedStack, TailStack
<1> HIDE DEF r
<1>2. \A k \in 2..Len(s) + 1 : \A x : Suits(b, r, k, x) <=> Suits(b, s, k, x)
  <2> TAKE k \in 2..Len(s) + 1
  <2> TAKE x
  <2>1. k \in Nat /\ ((k <= Len(r)) <=> (k <= Len(s)))
    BY <1>1
  <2>2. k <= Len(r) => r[k] = s[k]
    BY <1>1
  <2> QED BY <2>1, <2>2, SuitsShift
<1>3. ASSUME NEW i \in 1..Len(r) PROVE Yields(b, r, i + 1, Asks(r[i]))
  <2>1. CASE i = 1
    <3>1. 2 \in 2..Len(s) + 1 /\ i + 1 = 2
      BY <1>1, <2>1
    <3> QED BY <1>1, <1>2, <2>1, <3>1 DEF Yields
  <2>2. CASE i # 1
    <3>1. i \in 2..Len(s) /\ i \in 1..Len(s) /\ i + 1 \in 2..Len(s) + 1
      BY <1>1, <2>2
    <3>2. r[i] = s[i] /\ Yields(b, s, i + 1, Asks(s[i]))
      BY <1>1, <3>1 DEF Tied
    <3> QED BY <1>2, <3>1, <3>2 DEF Yields
  <2> QED BY <2>1, <2>2
<1>4. Suits(b, r, 1, "none")
  BY DEF Suits, Fits
<1>5. Tied(b, r, "none")
  BY <1>1, <1>3, <1>4 DEF Tied
<1> QED BY <1>5 DEF r

LEMMA ReachedBecome ==
    ASSUME NEW b, NEW S, NEW s \in Seq(S), s # <<>>, NEW f \in S, NEW v,
           Reached(b, s, v), Within(b, Asks(f), f.depth)
    PROVE  Reached(b, <<f>> \o Tail(s), "none")
<1> DEFINE r == <<f>> \o Tail(s)
<1>1. /\ Len(r) = Len(s) /\ Len(s) \in Nat
      /\ r[1] = f /\ \A i \in 2..Len(s) : r[i] = s[i]
  BY ReplacedStack, TailStack
<1> HIDE DEF r
<1>2. ASSUME NEW i \in 1..Len(r) PROVE Within(b, Asks(r[i]), r[i].depth)
  <2>1. i = 1 \/ (i \in 2..Len(s) /\ i \in 1..Len(s))
    BY <1>1
  <2> QED BY <1>1, <2>1 DEF Reached
<1>3. Reached(b, r, "none")
  BY <1>2 DEF Reached
<1> QED BY <1>3 DEF r

\* A call goes on as f and waits for the call g.
LEMMA CallsCall ==
    ASSUME NEW q, NEW lo, NEW hi, NEW s, NEW v, NEW f \in Frames(q), NEW g \in Frames(q),
           Calls(q, lo, hi, s, v), s # <<>>,
           FrameOK(q, lo, hi, f), FrameOK(q, lo, hi, g), f.pc \in {"loop", "left"}
    PROVE  Calls(q, lo, hi, <<g, f>> \o Tail(s), "none")
<1>1. s \in Seq(Frames(q))
  BY DEF Calls
<1> DEFINE r == <<g, f>> \o Tail(s)
<1>2. /\ r \in Seq(Frames(q)) /\ Len(r) = Len(s) + 1 /\ r # <<>> /\ Len(s) \in Nat
      /\ r[1] = g /\ r[2] = f /\ \A i \in 3..Len(s) + 1 : r[i] = s[i - 1]
  BY <1>1, CalledStack
<1> HIDE DEF r
<1>3. Calls(q, lo, hi, r, "none")
  <2>1. \A i \in 3..Len(r) : /\ i - 1 \in 1..Len(s) /\ i - 1 \in 2..Len(s)
                             /\ r[i] = s[i - 1]
    BY <1>2
  <2>2. ASSUME NEW i \in 1..Len(r) PROVE FrameOK(q, lo, hi, r[i])
    <3>1. i = 1 \/ i = 2 \/ i \in 3..Len(r)
      BY <1>2
    <3> QED BY <1>2, <2>1, <3>1 DEF Calls
  <2>3. ASSUME NEW i \in 2..Len(r) PROVE r[i].pc \in {"loop", "left"}
    <3>1. i = 2 \/ i \in 3..Len(r)
      BY <1>2
    <3> QED BY <1>2, <2>1, <3>1 DEF Calls
  <2> QED BY <1>2, <2>2, <2>3 DEF Calls
<1> QED BY <1>3 DEF r

LEMMA TiedCall ==
    ASSUME NEW b, NEW S, NEW s \in Seq(S), s # <<>>, NEW f \in S, NEW g \in S, NEW v,
           Tied(b, s, v),
           Asks(f) = Asks(s[1]),
           Asks(g) \in May(b) => Fits(b, f, "true"),
           Asks(g) \notin Must(b) => Fits(b, f, "false"),
           g.pc = "start"
    PROVE  Tied(b, <<g, f>> \o Tail(s), "none")
<1> DEFINE r == <<g, f>> \o Tail(s)
<1>1. /\ Len(r) = Len(s) + 1 /\ r # <<>> /\ Len(s) \in Nat /\ Len(s) >= 1
      /\ r[1] = g /\ r[2] = f /\ \A i \in 3..Len(s) + 1 : r[i] = s[i - 1]
  BY CalledStack, TailStack
<1> HIDE DEF r
<1>2. \A k \in 3..Len(s) + 2 : \A x : Suits(b, r, k, x) <=> Suits(b, s, k - 1, x)
  <2> TAKE k \in 3..Len(s) + 2
  <2> TAKE x
  <2>1. k \in Nat /\ k - 1 \in Nat /\ ((k <= Len(r)) <=> (k - 1 <= Len(s)))
    BY <1>1
  <2>2. k <= Len(r) => r[k] = s[k - 1]
    BY <1>1
  <2> QED BY <2>1, <2>2, SuitsShift
<1>3. ASSUME NEW i \in 1..Len(r) PROVE Yields(b, r, i + 1, Asks(r[i]))
  <2>1. CASE i = 1
    <3>1. \A x : Suits(b, r, 2, x) <=> Fits(b, f, x)
      BY <1>1 DEF Suits
    <3> QED BY <1>1, <2>1, <3>1 DEF Yields
  <2>2. CASE i # 1
    <3> DEFINE j == i - 1
    <3>1. j \in 1..Len(s) /\ i + 1 \in 3..Len(s) + 2 /\ (i + 1) - 1 = j + 1
      BY <1>1, <2>2
    <3>2. Asks(r[i]) = Asks(s[j])
      <4>1. CASE i = 2
        BY <1>1, <4>1
      <4>2. CASE i # 2
        <5>1. i \in 3..Len(s) + 1
          BY <1>1, <2>2, <4>2
        <5> QED BY <1>1, <5>1
      <4> QED BY <4>1, <4>2
    <3>3. Yields(b, s, j + 1, Asks(s[j]))
      BY <3>1 DEF Tied
    <3>4. \A x : Suits(b, r, i + 1, x) <=> Suits(b, s, j + 1, x)
      BY <1>2, <3>1
    <3> QED BY <3>2, <3>3, <3>4 DEF Yields
  <2> QED BY <2>1, <2>2
<1>4. Suits(b, r, 1, "none")
  BY DEF Suits, Fits
<1>5. Tied(b, r, "none")
  BY <1>1, <1>3, <1>4 DEF Tied
<1> QED BY <1>5 DEF r

LEMMA ReachedCall ==
    ASSUME NEW b, NEW S, NEW s \in Seq(S), s # <<>>, NEW f \in S, NEW g \in S, NEW v,
           Reached(b, s, v), Within(b, Asks(f), f.depth), Within(b, Asks(g), g.depth)
    PROVE  Reached(b, <<g, f>> \o Tail(s), "none")
<1> DEFINE r == <<g, f>> \o Tail(s)
<1>1. /\ Len(r) = Len(s) + 1 /\ Len(s) \in Nat
      /\ r[1] = g /\ r[2] = f /\ \A i \in 3..Len(s) + 1 : r[i] = s[i - 1]
  BY CalledStack, TailStack
<1> HIDE DEF r
<1>2. ASSUME NEW i \in 1..Len(r) PROVE Within(b, Asks(r[i]), r[i].depth)
  <2>1. i = 1 \/ i = 2 \/ (i \in 3..Len(s) + 1 /\ i - 1 \in 1..Len(s))
    BY <1>1
  <2> QED BY <1>1, <2>1 DEF Reached
<1>3. Reached(b, r, "none")
  BY <1>2 DEF Reached
<1> QED BY <1>3 DEF r

-----------------------------------------------------------------------------
(***************************************************************************)
(* What the assumptions say of a question.                                  *)
(***************************************************************************)
LEMMA BoundFacts ==
    ASSUME NEW b \in Bounds
    PROVE  /\ IsFiniteSet(b[3]) /\ b[3] \subseteq Tuple
           /\ b[1] \in {s.req : s \in Scenario}
<1>1. PICK s \in Scenario : \E V \in SUBSET Volatile(s.req) :
        b = <<s.req, s.stored \ V, s.stored \cup V>>
  BY DEF Bounds
<1> PICK V \in SUBSET Volatile(s.req) : b = <<s.req, s.stored \ V, s.stored \cup V>>
  BY <1>1
<1>2. /\ IsFiniteSet(s.stored) /\ s.stored \subseteq Tuple
      /\ IsFiniteSet(Volatile(s.req)) /\ Volatile(s.req) \subseteq Tuple
  BY QuestionAssumption DEF QuestionAssumption
<1>3. IsFiniteSet(V)
  BY <1>2, FS_Subset
<1>4. IsFiniteSet(s.stored \cup V)
  BY <1>2, <1>3, FS_Union
<1> QED BY <1>1, <1>2, <1>4

LEMMA QuestionFacts ==
    ASSUME NEW q \in {s.req : s \in Scenario}, NEW x \in Question(q)
    PROVE  /\ x = <<x[1], x[2]>> /\ x[1].kind \in Kinds /\ x[2] \in Object
           /\ Operands(x) \subseteq Question(q)
           /\ OwnCalls(x, Tuple \cup q.context) \subseteq Question(q)
BY QuestionAssumption DEF QuestionAssumption

LEMMA Equations ==
    ASSUME NEW b \in Bounds, NEW x \in Question(b[1])
    PROVE  /\ x \in May(b) <=> Holds(b[1], x, Knowledge(b[1], b[3], May(b)), Knowledge(b[1], b[2], Must(b)))
           /\ x \in Must(b) <=> Holds(b[1], x, Knowledge(b[1], b[2], Must(b)), Knowledge(b[1], b[3], May(b)))
           /\ CallsOf(x, Hi(b)) = OwnCalls(x, Hi(b)) \cup UNION {CallsOf(y, Hi(b)) : y \in Operands(x)}
<1> DEFINE may == Knowledge(b[1], b[3], May(b))
           must == Knowledge(b[1], b[2], Must(b))
<1>1. /\ may.granted = {y \in Question(b[1]) : Holds(b[1], y, may, must)}
      /\ must.granted = {y \in Question(b[1]) : Holds(b[1], y, must, may)}
      /\ \A y \in Question(b[1]) :
            CallsOf(y, may.tuples) =
                OwnCalls(y, may.tuples) \cup UNION {CallsOf(z, may.tuples) : z \in Operands(y)}
  BY MeaningAssumption DEF MeaningAssumption, May, Must
<1>2. may.granted = May(b) /\ must.granted = Must(b) /\ may.tuples = Hi(b)
  BY DEF Knowledge, Hi
<1> HIDE DEF may, must
<1>3. /\ x \in May(b) <=> Holds(b[1], x, may, must)
      /\ x \in Must(b) <=> Holds(b[1], x, must, may)
  BY <1>1, <1>2
<1>4. CallsOf(x, Hi(b)) = OwnCalls(x, Hi(b)) \cup UNION {CallsOf(y, Hi(b)) : y \in Operands(x)}
  BY <1>1, <1>2
<1> QED BY <1>3, <1>4 DEF may, must

\* The equations of each kind of question.
LEMMA Meanings ==
    ASSUME NEW b \in Bounds, NEW f, Asks(f) \in Question(b[1])
    PROVE  LET q == b[1]
               o == f.entity
               rule == f.rule
               x == Asks(f)
               left == <<rule.left, o>>
               right == <<rule.right, o>>
           IN  /\ Refers(o, rule) =>
                     /\ x \in May(b) <=> Referred(o, rule) \in May(b)
                     /\ x \in Must(b) <=> Referred(o, rule) \in Must(b)
               /\ rule.kind = "relation" /\ ~Refers(o, rule) =>
                     /\ x \in May(b) <=>
                           \/ DirectTuple(q, o, rule.relation) \in Hi(b)
                           \/ /\ q.subjectRelation = ""
                              /\ \E t \in Sought(f, Hi(b)) : Member(t) \in May(b)
                     /\ x \in Must(b) <=>
                           \/ DirectTuple(q, o, rule.relation) \in Lo(b)
                           \/ /\ q.subjectRelation = ""
                              /\ \E t \in Sought(f, Lo(b)) : Member(t) \in Must(b)
               /\ rule.kind = "or" =>
                     /\ x \in May(b) <=> left \in May(b) \/ right \in May(b)
                     /\ x \in Must(b) <=> left \in Must(b) \/ right \in Must(b)
               /\ rule.kind = "and" =>
                     /\ x \in May(b) <=> left \in May(b) /\ right \in May(b)
                     /\ x \in Must(b) <=> left \in Must(b) /\ right \in Must(b)
               /\ rule.kind = "not" =>
                     /\ x \in May(b) <=> left \notin Must(b)
                     /\ x \in Must(b) <=> left \notin May(b)
               /\ rule.kind = "hierarchical" =>
                     /\ x \in May(b) <=>
                           \E t \in Sought(f, Hi(b)) :
                              rule.permission \in Names(t.subject) /\ Parent(t, rule) \in May(b)
                     /\ x \in Must(b) <=>
                           \E t \in Sought(f, Lo(b)) :
                              rule.permission \in Names(t.subject) /\ Parent(t, rule) \in Must(b)
               /\ rule.kind = "abac" =>
                     /\ x \in May(b) <=> Attribute(q, o) = "true"
                     /\ x \in Must(b) <=> Attribute(q, o) = "true"
               /\ rule.kind = "call" =>
                     /\ x \in May(b) <=> CallOutcome(q, o, rule) = "true"
                     /\ x \in Must(b) <=> CallOutcome(q, o, rule) = "true"
               /\ rule.kind = "parentCall" =>
                     /\ x \in May(b) <=>
                           \E t \in Sought(f, Hi(b)) : ParentOutcome(q, t.subject, o, rule) = "true"
                     /\ x \in Must(b) <=>
                           \E t \in Sought(f, Lo(b)) : ParentOutcome(q, t.subject, o, rule) = "true"
<1> DEFINE q == b[1]
           may == Knowledge(q, b[3], May(b))
           must == Knowledge(q, b[2], Must(b))
           x == Asks(f)
<1>1. /\ x \in May(b) <=> Holds(q, x, may, must)
      /\ x \in Must(b) <=> Holds(q, x, must, may)
  BY Equations
<1>2. /\ may.tuples = Hi(b) /\ may.granted = May(b)
      /\ must.tuples = Lo(b) /\ must.granted = Must(b)
      /\ x[1] = f.rule /\ x[2] = f.entity
  BY DEF Knowledge, Hi, Lo, Asks
<1> HIDE DEF q, may, must, x
<1>3. CASE Refers(f.entity, f.rule)
  BY <1>1, <1>2, <1>3 DEF Holds, Refers, x, q
<1>4. CASE f.rule.kind = "relation" /\ ~Refers(f.entity, f.rule)
  BY <1>1, <1>2, <1>4 DEF Holds, Sought, x, q
<1>5. CASE f.rule.kind = "or"
  BY <1>1, <1>2, <1>5 DEF Holds, Refers, x, q
<1>6. CASE f.rule.kind = "and"
  BY <1>1, <1>2, <1>6 DEF Holds, Refers, x, q
<1>7. CASE f.rule.kind = "not"
  BY <1>1, <1>2, <1>7 DEF Holds, Refers, x, q
<1>8. CASE f.rule.kind = "hierarchical"
  BY <1>1, <1>2, <1>8 DEF Holds, Refers, Sought, x, q
<1>9. CASE f.rule.kind \in {"abac", "call"}
  BY <1>1, <1>2, <1>9 DEF Holds, Refers, x, q
<1>10. CASE f.rule.kind = "parentCall"
  BY <1>1, <1>2, <1>10 DEF Holds, Refers, Sought, x, q
<1>11. CASE f.rule.kind \notin Kinds
  BY <1>11 DEF Kinds, Refers
<1> QED BY <1>3, <1>4, <1>5, <1>6, <1>7, <1>8, <1>9, <1>10, <1>11 DEF Kinds

\* The levels of calls, as far down as calls are made.
LEMMA Levels ==
    ASSUME NEW q, NEW T
    PROVE  /\ Level(q, T)[0] = {Goal(q)}
           /\ \A i \in 1..MaxDepth :
                 Level(q, T)[i] = UNION {CallsOf(x, T) : x \in Level(q, T)[i - 1]}
<1> DEFINE Next1(S) == UNION {CallsOf(x, T) : x \in S}
           Solves(g, n) == g = [i \in 0..n |-> IF i = 0 THEN {Goal(q)} ELSE Next1(g[i - 1])]
           Bad == {n \in 0..MaxDepth : ~ \E g : Solves(g, n)}
<1>1. MaxDepth \in Nat
  BY EvaluatorAssumption DEF EvaluatorAssumption
<1>2. ASSUME Bad # {} PROVE FALSE
  <2>1. PICK m \in Bad : \A o \in Bad : ~ (<<o, m>> \in OpToRel(<, Nat))
    <3>1. Bad \subseteq Nat
      OBVIOUS
    <3> HIDE DEF Bad
    <3> QED BY <1>2, <3>1, NatLessThanWellFounded, WFMin
  <2>2. CASE m = 0
    <3> DEFINE g == [i \in 0..0 |-> {Goal(q)}]
    <3>1. Solves(g, 0)
      OBVIOUS
    <3> HIDE DEF g, Solves
    <3> QED BY <2>2, <3>1
  <2>3. CASE m # 0
    <3>1. m \in Nat /\ m - 1 \in Nat /\ m - 1 \in 0..MaxDepth /\ m - 1 < m
      BY <1>1, <2>3
    <3>2. m - 1 \notin Bad
      BY <2>1, <3>1 DEF OpToRel
    <3>3. PICK h : Solves(h, m - 1)
      BY <3>1, <3>2
    <3> DEFINE g == [i \in 0..m |-> IF i \in 0..m - 1 THEN h[i] ELSE Next1(h[m - 1])]
    <3>4. ASSUME NEW i \in 0..m
          PROVE  g[i] = IF i = 0 THEN {Goal(q)} ELSE Next1(g[i - 1])
      <4> HIDE DEF Next1
      <4>1. CASE i = 0
        BY <3>1, <3>3, <4>1
      <4>2. CASE i # 0 /\ i # m
        <5>1. i \in 0..m - 1 /\ i - 1 \in 0..m - 1 /\ i - 1 \in 0..m
          BY <3>1, <4>2
        <5> QED BY <3>3, <4>2, <5>1
      <4>3. CASE i = m
        <5>1. i \notin 0..m - 1 /\ i - 1 \in 0..m - 1 /\ i - 1 \in 0..m /\ i # 0
          BY <3>1, <4>3
        <5> QED BY <4>3, <5>1
      <4> QED BY <4>1, <4>2, <4>3
    <3>5. Solves(g, m)
      <4> HIDE DEF Next1
      <4>1. g = [i \in 0..m |-> g[i]]
        OBVIOUS
      <4> HIDE DEF g
      <4> QED BY <3>4, <4>1
    <3> HIDE DEF g, Solves
    <3> QED BY <3>5
  <2> QED BY <2>2, <2>3
<1>3. \E g : Solves(g, MaxDepth)
  <2>1. MaxDepth \in 0..MaxDepth
    BY <1>1
  <2>2. Bad = {}
    <3> HIDE DEF Bad
    <3> QED BY <1>2
  <2> HIDE DEF Solves
  <2> QED BY <2>1, <2>2
<1>4. Solves(Level(q, T), MaxDepth)
  BY <1>3 DEF Level
<1> HIDE DEF Next1
<1>5. Level(q, T)[0] = {Goal(q)}
  BY <1>1, <1>4
<1>6. ASSUME NEW i \in 1..MaxDepth
      PROVE  Level(q, T)[i] = Next1(Level(q, T)[i - 1])
  <2>1. i \in 0..MaxDepth /\ i # 0
    BY <1>1
  <2> QED BY <1>4, <2>1
<1> QED BY <1>5, <1>6 DEF Next1

LEMMA Deeper ==
    ASSUME NEW b \in Bounds, NEW x \in Question(b[1]), NEW d \in 0..MaxDepth - 1,
           Within(b, x, d), NEW y \in OwnCalls(x, Hi(b))
    PROVE  Within(b, y, d + 1)
<1>1. PICK z \in Level(b[1], Hi(b))[d] : CallsOf(x, Hi(b)) \subseteq CallsOf(z, Hi(b))
  BY DEF Within
<1>2. y \in CallsOf(x, Hi(b))
  BY Equations
<1>3. d + 1 \in 1..MaxDepth /\ (d + 1) - 1 = d
  BY EvaluatorAssumption DEF EvaluatorAssumption
<1>4. y \in Level(b[1], Hi(b))[d + 1]
  <2>1. Level(b[1], Hi(b))[d + 1] = UNION {CallsOf(w, Hi(b)) : w \in Level(b[1], Hi(b))[d]}
    BY <1>3, Levels
  <2> QED BY <1>1, <1>2, <2>1
<1> QED BY <1>4 DEF Within

LEMMA OperandWithin ==
    ASSUME NEW b \in Bounds, NEW x \in Question(b[1]), NEW d, Within(b, x, d),
           NEW y \in Operands(x)
    PROVE  Within(b, y, d)
<1>1. CallsOf(y, Hi(b)) \subseteq CallsOf(x, Hi(b))
  BY Equations
<1> QED BY <1>1 DEF Within

LEMMA NewFrame ==
    ASSUME NEW q \in {s.req : s \in Scenario}, NEW lo, NEW hi, NEW rule, NEW o,
           NEW d \in 0..MaxDepth, <<rule, o>> \in Question(q),
           NEW f, f = Frame(rule, o, d)
    PROVE  /\ f \in Frames(q) /\ FrameOK(q, lo, hi, f)
           /\ Asks(f) = <<rule, o>> /\ f.pc = "start" /\ f.depth = d
<1> DEFINE x == <<rule, o>>
<1>1. x[1] \in {y[1] : y \in Question(q)} /\ x[2] \in Object
  BY QuestionFacts
<1>2. rule \in {y[1] : y \in Question(q)} /\ o \in Object
  BY <1>1
<1> QED BY <1>2 DEF Frame, Frames, FrameOK, Asks

-----------------------------------------------------------------------------
(***************************************************************************)
(* What a state tells.                                                      *)
(***************************************************************************)
Kept == UNCHANGED <<stored, req, ever, always>>

LEMMA FixedBegun == ASSUME Begun, Kept PROVE Begun'
BY DEF Begun, Origin, Kept

LEMMA FixedAround == ASSUME Kept, NEW b PROVE Around(b)' <=> Around(b)
BY DEF Around, Kept

LEMMA RequestFacts ==
    ASSUME Begun
    PROVE  /\ req \in {s.req : s \in Scenario}
           /\ IsFiniteSet(ever) /\ ever \subseteq Tuple
           /\ always \subseteq stored /\ stored \subseteq ever
           /\ <<req, always, ever>> \in Bounds
<1>1. PICK s, V : Origin(s, V)
  BY DEF Begun
<1>2. /\ s \in Scenario /\ req = s.req
      /\ V \in SUBSET Volatile(s.req) /\ IsFiniteSet(V) /\ Cardinality(V) <= MaxCommits
      /\ always = s.stored \ V /\ ever = s.stored \cup V
      /\ always \subseteq stored /\ stored \subseteq ever
  BY <1>1 DEF Origin
<1>3. V \in {U \in SUBSET Volatile(s.req) : Cardinality(U) <= MaxCommits}
  BY <1>2
<1>4. <<req, always, ever>> \in Bounds
  BY <1>2, <1>3 DEF Bounds
<1>5. IsFiniteSet(ever) /\ ever \subseteq Tuple
  BY <1>4, BoundFacts
<1> QED BY <1>2, <1>4, <1>5

\* The call that runs.
LEMMA TopFacts ==
    ASSUME EvaluatorInv, stack # <<>>
    PROVE  /\ stack \in Seq(Frames(req)) /\ Top = stack[1] /\ Top \in Frames(req)
           /\ FrameOK(req, always, ever, Top)
           /\ Asks(Top) \in Question(req)
           /\ Top.rule.kind \in Kinds /\ Top.entity \in Object
           /\ Top.depth \in 0..MaxDepth /\ Top.todo \subseteq Tuple \cup req.context
           /\ result # "none" => Top.pc \in {"loop", "left"}
           /\ req \in {s.req : s \in Scenario}
<1>1. stack \in Seq(Frames(req)) /\ Begun
  BY DEF EvaluatorInv, Calls
<1>2. Top = stack[1] /\ Top \in Frames(req) /\ 1 \in 1..Len(stack)
  BY <1>1, TailStack DEF Top
<1>3. FrameOK(req, always, ever, Top) /\ (result # "none" => Top.pc \in {"loop", "left"})
  BY <1>2 DEF EvaluatorInv, Calls
<1>4. req \in {s.req : s \in Scenario}
  BY <1>1, RequestFacts
<1>5. Asks(Top) \in Question(req)
  BY <1>3 DEF FrameOK
<1>6. Top.rule.kind \in Kinds /\ Top.entity \in Object
  <2> DEFINE x == Asks(Top)
  <2>1. x[1].kind \in Kinds /\ x[2] \in Object
    BY <1>4, <1>5, QuestionFacts
  <2> QED BY <2>1 DEF Asks
<1>7. Top.depth \in 0..MaxDepth /\ Top.todo \subseteq Tuple \cup req.context
  BY <1>2 DEF Frames
<1> QED BY <1>1, <1>2, <1>3, <1>4, <1>5, <1>6, <1>7

LEMMA TopWithin ==
    ASSUME EvaluatorInv, stack # <<>>, NEW b \in Bounds, Around(b)
    PROVE  Within(b, Asks(Top), Top.depth) /\ b[1] = req
<1>1. Top = stack[1] /\ 1 \in 1..Len(stack)
  BY TopFacts, TailStack
<1>2. Reached(b, stack, result)
  BY DEF EvaluatorInv, Deep
<1> QED BY <1>1, <1>2 DEF Reached, Around

LEMMA TopTied ==
    ASSUME EvaluatorInv, stack # <<>>, ~shortcut, NEW b \in Bounds, Around(b), Whole(b[3])
    PROVE  /\ Tied(b, stack, result)
           /\ Yields(b, stack, 2, Asks(Top))
           /\ Fits(b, Top, result)
           /\ Top.pc = "loop" /\ result \in {"none", "false"} => Denied(b, Top)
<1>1. /\ Top = stack[1] /\ 1 \in 1..Len(stack) /\ 1 + 1 = 2 /\ 1 <= Len(stack)
  BY TopFacts, TailStack
<1>2. Tied(b, stack, result)
  BY DEF EvaluatorInv, Sound
<1>3. Yields(b, stack, 2, Asks(Top))
  BY <1>1, <1>2 DEF Tied
<1>4. Fits(b, Top, result)
  BY <1>1, <1>2 DEF Tied, Suits
<1>5. ASSUME Top.pc = "loop", result \in {"none", "false"} PROVE Denied(b, Top)
  BY <1>1, <1>2, <1>4, <1>5 DEF Tied, Fits
<1> QED BY <1>2, <1>3, <1>4, <1>5

-----------------------------------------------------------------------------
(***************************************************************************)
(* The three ways in which a stack changes.                                 *)
(***************************************************************************)
Earned(b, v) ==
    /\ v = "true" => Asks(Top) \in May(b)
    /\ v = "false" => Asks(Top) \notin Must(b)

LEMMA AnswerInv ==
    ASSUME EvaluatorInv, stack # <<>>, NEW v \in {"true", "false"} \cup Errors,
           Answer(v), Kept,
           ~shortcut' => ~shortcut /\ \A b \in Bounds : Around(b) /\ Whole(b[3]) => Earned(b, v),
           v = "depth" => \A b \in Bounds : Around(b) => Level(b[1], Hi(b))[MaxDepth] # {}
    PROVE  EvaluatorInv'
<1>1. /\ stack' = Tail(stack) /\ result' = v /\ v # "none"
      /\ req' = req /\ always' = always /\ ever' = ever
  BY DEF Answer, Kept, Errors
<1>2. stack \in Seq(Frames(req)) /\ Top = stack[1]
  BY TopFacts
<1>3. Begun'
  BY FixedBegun DEF EvaluatorInv
<1>4. Calls(req, always, ever, Tail(stack), v)
  BY CallsAnswer DEF EvaluatorInv
<1>5. Sound'
  <2> SUFFICES ASSUME ~shortcut', NEW b \in Bounds, Around(b)', Whole(b[3])
               PROVE  Tied(b, stack', result')
    BY DEF Sound
  <2>1. ~shortcut /\ Around(b) /\ Earned(b, v)
    BY FixedAround
  <2>2. Tied(b, stack, result)
    BY <2>1, TopTied
  <2>3. Tied(b, Tail(stack), v)
    BY <1>1, <1>2, <2>1, <2>2, TiedAnswer DEF Earned
  <2> QED BY <1>1, <2>3
<1>6. Deep'
  <2> SUFFICES ASSUME NEW b \in Bounds, Around(b)'
               PROVE  Reached(b, stack', result')
    BY DEF Deep
  <2>1. Around(b)
    BY FixedAround
  <2>2. Reached(b, stack, result)
    BY <2>1 DEF EvaluatorInv, Deep
  <2>3. Reached(b, Tail(stack), v)
    BY <1>2, <2>1, <2>2, ReachedAnswer
  <2> QED BY <1>1, <2>3
<1> QED BY <1>1, <1>3, <1>4, <1>5, <1>6 DEF EvaluatorInv

LEMMA BecomeInv ==
    ASSUME EvaluatorInv, stack # <<>>, NEW f \in Frames(req),
           Become(f), Kept, UNCHANGED shortcut,
           FrameOK(req, always, ever, f),
           \A b \in Bounds : Around(b) => Within(b, Asks(f), f.depth),
           \A b \in Bounds : ~shortcut /\ Around(b) /\ Whole(b[3]) =>
              Yields(b, stack, 2, Asks(f)) /\ (f.pc = "loop" => Denied(b, f))
    PROVE  EvaluatorInv'
<1>1. /\ stack' = <<f>> \o Tail(stack) /\ result' = "none"
      /\ req' = req /\ always' = always /\ ever' = ever /\ shortcut' = shortcut
  BY DEF Become, Kept
<1>2. stack \in Seq(Frames(req)) /\ Top = stack[1]
  BY TopFacts
<1>3. Begun'
  BY FixedBegun DEF EvaluatorInv
<1>4. Calls(req, always, ever, <<f>> \o Tail(stack), "none")
  BY CallsBecome DEF EvaluatorInv
<1>5. Sound'
  <2> SUFFICES ASSUME ~shortcut', NEW b \in Bounds, Around(b)', Whole(b[3])
               PROVE  Tied(b, stack', result')
    BY DEF Sound
  <2>1. ~shortcut /\ Around(b)
    BY <1>1, FixedAround
  <2>2. Tied(b, stack, result)
    BY <2>1, TopTied
  <2>3. Tied(b, <<f>> \o Tail(stack), "none")
    BY <1>2, <2>1, <2>2, TiedBecome
  <2> QED BY <1>1, <2>3
<1>6. Deep'
  <2> SUFFICES ASSUME NEW b \in Bounds, Around(b)'
               PROVE  Reached(b, stack', result')
    BY DEF Deep
  <2>1. Around(b)
    BY FixedAround
  <2>2. Reached(b, stack, result)
    BY <2>1 DEF EvaluatorInv, Deep
  <2>3. Reached(b, <<f>> \o Tail(stack), "none")
    BY <1>2, <2>1, <2>2, ReachedBecome
  <2> QED BY <1>1, <2>3
<1>7. stack' # <<>>
  BY <1>1, <1>2, ReplacedStack
<1> QED BY <1>1, <1>3, <1>4, <1>5, <1>6, <1>7 DEF EvaluatorInv, Done

LEMMA CallInv ==
    ASSUME EvaluatorInv, stack # <<>>, NEW f \in Frames(req), NEW g \in Frames(req),
           Call(g, f), Kept, UNCHANGED shortcut,
           FrameOK(req, always, ever, f), FrameOK(req, always, ever, g),
           Asks(f) = Asks(Top), f.depth = Top.depth,
           f.pc \in {"loop", "left"}, g.pc = "start",
           \A b \in Bounds : Around(b) => Within(b, Asks(g), g.depth),
           \A b \in Bounds : ~shortcut /\ Around(b) /\ Whole(b[3]) =>
              /\ Asks(g) \in May(b) => Fits(b, f, "true")
              /\ Asks(g) \notin Must(b) => Fits(b, f, "false")
    PROVE  EvaluatorInv'
<1>1. /\ stack' = <<g, f>> \o Tail(stack) /\ result' = "none"
      /\ req' = req /\ always' = always /\ ever' = ever /\ shortcut' = shortcut
  BY DEF Call, Kept
<1>2. stack \in Seq(Frames(req)) /\ Top = stack[1]
  BY TopFacts
<1>3. Begun'
  BY FixedBegun DEF EvaluatorInv
<1>4. Calls(req, always, ever, <<g, f>> \o Tail(stack), "none")
  BY CallsCall DEF EvaluatorInv
<1>5. Sound'
  <2> SUFFICES ASSUME ~shortcut', NEW b \in Bounds, Around(b)', Whole(b[3])
               PROVE  Tied(b, stack', result')
    BY DEF Sound
  <2>1. ~shortcut /\ Around(b)
    BY <1>1, FixedAround
  <2>2. Tied(b, stack, result)
    BY <2>1, TopTied
  <2>3. Tied(b, <<g, f>> \o Tail(stack), "none")
    BY <1>2, <2>1, <2>2, TiedCall
  <2> QED BY <1>1, <2>3
<1>6. Deep'
  <2> SUFFICES ASSUME NEW b \in Bounds, Around(b)'
               PROVE  Reached(b, stack', result')
    BY DEF Deep
  <2>1. Around(b)
    BY FixedAround
  <2>2. Reached(b, stack, result)
    BY <2>1 DEF EvaluatorInv, Deep
  <2>3. Within(b, Asks(f), f.depth)
    BY <2>1, TopWithin
  <2>4. Reached(b, <<g, f>> \o Tail(stack), "none")
    BY <1>2, <2>1, <2>2, <2>3, ReachedCall
  <2> QED BY <1>1, <2>4
<1>7. stack' # <<>>
  BY <1>1, <1>2, CalledStack
<1> QED BY <1>1, <1>3, <1>4, <1>5, <1>6, <1>7 DEF EvaluatorInv, Done

-----------------------------------------------------------------------------
(***************************************************************************)
(* Loops.                                                                   *)
(***************************************************************************)
LEMMA SoughtGrows ==
    ASSUME NEW f, NEW T, NEW U, T \subseteq U
    PROVE  Sought(f, T) \subseteq Sought(f, U)
BY DEF Sought, Usersets, Parents, About

LEMMA AroundFacts ==
    ASSUME Begun, NEW b \in Bounds, Around(b)
    PROVE  /\ b[1] = req /\ Lo(b) \subseteq always \cup req.context
           /\ Lo(b) \subseteq stored \cup req.context
           /\ stored \cup req.context \subseteq Hi(b)
           /\ ever \cup req.context \subseteq Hi(b)
           /\ Hi(b) \subseteq Tuple \cup req.context
BY RequestFacts, BoundFacts DEF Around, Lo, Hi

\* What a call leads to.
LEMMA OwnCallsOf ==
    ASSUME NEW f, NEW T
    PROVE  /\ Refers(f.entity, f.rule) =>
                 OwnCalls(Asks(f), T) = {Referred(f.entity, f.rule)}
           /\ f.rule.kind = "relation" /\ ~Refers(f.entity, f.rule) =>
                 OwnCalls(Asks(f), T) = {Member(t) : t \in Sought(f, T)}
           /\ f.rule.kind = "hierarchical" =>
                 OwnCalls(Asks(f), T) =
                    {Parent(t, f.rule) :
                       t \in {u \in Sought(f, T) : f.rule.permission \in Names(u.subject)}}
<1> DEFINE x == Asks(f)
<1>1. x[1] = f.rule /\ x[2] = f.entity
  BY DEF Asks
<1> HIDE DEF x
<1>2. ASSUME Refers(f.entity, f.rule)
      PROVE  OwnCalls(x, T) = {Referred(f.entity, f.rule)}
  BY <1>1, <1>2 DEF OwnCalls, Refers
<1>3. ASSUME f.rule.kind = "relation", ~Refers(f.entity, f.rule)
      PROVE  OwnCalls(x, T) = {Member(t) : t \in Sought(f, T)}
  BY <1>1, <1>3 DEF OwnCalls, Sought
<1>4. ASSUME f.rule.kind = "hierarchical"
      PROVE  OwnCalls(x, T) =
                {Parent(t, f.rule) :
                   t \in {u \in Sought(f, T) : f.rule.permission \in Names(u.subject)}}
  BY <1>1, <1>4 DEF OwnCalls, Sought, Refers
<1> QED BY <1>2, <1>3, <1>4 DEF x

\* A call to which this one leads is a question, one level deeper.
LEMMA Leads ==
    ASSUME EvaluatorInv, stack # <<>>, Top.depth < MaxDepth,
           NEW y, NEW T, T \subseteq ever \cup req.context, y \in OwnCalls(Asks(Top), T)
    PROVE  /\ y \in Question(req) /\ Top.depth + 1 \in 0..MaxDepth
           /\ \A b \in Bounds : Around(b) => Within(b, y, Top.depth + 1)
<1>1. \A U : T \subseteq U => y \in OwnCalls(Asks(Top), U)
  <2> TAKE U
  <2> HAVE T \subseteq U
  <2>1. Sought(Top, T) \subseteq Sought(Top, U)
    BY SoughtGrows
  <2>2. CASE Refers(Top.entity, Top.rule)
    <3>1. /\ OwnCalls(Asks(Top), T) = {Referred(Top.entity, Top.rule)}
          /\ OwnCalls(Asks(Top), U) = {Referred(Top.entity, Top.rule)}
      BY <2>2, OwnCallsOf
    <3> QED BY <3>1
  <2>3. CASE Top.rule.kind = "relation" /\ ~Refers(Top.entity, Top.rule)
    <3>1. /\ OwnCalls(Asks(Top), T) = {Member(t) : t \in Sought(Top, T)}
          /\ OwnCalls(Asks(Top), U) = {Member(t) : t \in Sought(Top, U)}
      BY <2>3, OwnCallsOf
    <3> QED BY <2>1, <3>1
  <2>4. CASE Top.rule.kind = "hierarchical"
    <3> DEFINE Of(V) == {Parent(t, Top.rule) :
                       t \in {u \in Sought(Top, V) : Top.rule.permission \in Names(u.subject)}}
    <3>1. OwnCalls(Asks(Top), T) = Of(T) /\ OwnCalls(Asks(Top), U) = Of(U)
      BY <2>4, OwnCallsOf
    <3>2. Of(T) \subseteq Of(U)
      BY <2>1
    <3> QED BY <3>1, <3>2
  <2>5. CASE Top.rule.kind \notin {"relation", "hierarchical"}
    <3> DEFINE x == Asks(Top)
    <3>1. x[1] = Top.rule /\ x[2] = Top.entity
      BY DEF Asks
    <3> HIDE DEF x
    <3>2. OwnCalls(x, T) = {}
      BY <2>5, <3>1 DEF OwnCalls, Refers
    <3> QED BY <3>2 DEF x
  <2> QED BY <2>2, <2>3, <2>4, <2>5
<1>2. Begun /\ req \in {s.req : s \in Scenario} /\ Asks(Top) \in Question(req)
  BY TopFacts DEF EvaluatorInv
<1>3. Top.depth \in 0..MaxDepth - 1 /\ Top.depth + 1 \in 0..MaxDepth
  BY TopFacts, EvaluatorAssumption DEF EvaluatorAssumption
<1>4. y \in Question(req)
  <2>1. ever \subseteq Tuple
    BY <1>2, RequestFacts
  <2>2. y \in OwnCalls(Asks(Top), Tuple \cup req.context)
    BY <1>1, <2>1
  <2> QED BY <1>2, <2>2, QuestionFacts
<1>5. ASSUME NEW b \in Bounds, Around(b) PROVE Within(b, y, Top.depth + 1)
  <2>1. b[1] = req /\ ever \cup req.context \subseteq Hi(b)
    BY <1>2, <1>5, AroundFacts
  <2>2. y \in OwnCalls(Asks(Top), Hi(b))
    BY <1>1, <2>1
  <2>3. Within(b, Asks(Top), Top.depth)
    BY <1>5, TopWithin
  <2> QED BY <1>2, <1>3, <2>1, <2>2, <2>3, Deeper
<1> QED BY <1>3, <1>4, <1>5

\* What the query returns: rows that are stored, and all of them when there are not
\* too many.
LEMMA RowsFacts ==
    ASSUME Begun, NEW o, NEW rule, NEW rows \in Rows(o, rule.relation)
    PROVE  /\ rows \subseteq About(o, rule, stored \cup req.context)
           /\ \A b \in Bounds : Around(b) /\ Whole(b[3]) =>
                 rows = About(o, rule, stored \cup req.context)
<1> DEFINE Of(T) == {t \in T : t.entity = o /\ t.relation = rule.relation}
           size == Min({Cardinality(Of(stored)), MaxTuplesPerQuery})
<1>1. PICK some \in kSubset(size, Of(stored)) : rows = some \cup Of(req.context)
  BY DEF Rows
<1>2. some \subseteq Of(stored) /\ Cardinality(some) = size
  BY <1>1 DEF kSubset
<1>3. About(o, rule, stored \cup req.context) = Of(stored) \cup Of(req.context)
  BY DEF About
<1>4. ASSUME NEW b \in Bounds, Around(b), Whole(b[3])
      PROVE  some = Of(stored)
  <2>1. /\ IsFiniteSet(b[3]) /\ stored \subseteq b[3] /\ MaxTuplesPerQuery \in Nat
    BY <1>4, BoundFacts, RequestFacts, EvaluatorAssumption DEF Around, EvaluatorAssumption
  <2>2. IsFiniteSet(Of(stored)) /\ Cardinality(Of(stored)) \in Nat
    <3>1. Of(stored) \subseteq b[3]
      BY <2>1
    <3> HIDE DEF Of
    <3> QED BY <2>1, <3>1, FS_Subset, FS_CardinalityType
  <2>3. Cardinality(Of(stored)) <= MaxTuplesPerQuery
    <3>1. CASE Of(stored) = {}
      <4> HIDE DEF Of
      <4> QED BY <2>1, <3>1, FS_EmptySet
    <3>2. CASE Of(stored) # {}
      <4>1. PICK t \in stored : t.entity = o /\ t.relation = rule.relation
        BY <3>2
      <4> DEFINE Same == {u \in b[3] : u.entity = t.entity /\ u.relation = t.relation}
      <4>2. Cardinality(Same) <= MaxTuplesPerQuery
        BY <1>4, <2>1, <4>1 DEF Whole
      <4>3. Of(stored) \subseteq Same /\ Same \subseteq b[3]
        BY <2>1, <4>1
      <4> HIDE DEF Of, Same
      <4>4. IsFiniteSet(Same)
        BY <2>1, <4>3, FS_Subset
      <4>5. Cardinality(Of(stored)) <= Cardinality(Same) /\ Cardinality(Same) \in Nat
        BY <4>3, <4>4, FS_Subset, FS_CardinalityType
      <4> QED BY <2>1, <2>2, <4>2, <4>5
    <3> QED BY <3>1, <3>2
  <2> HIDE DEF Of
  <2>4. size = Cardinality(Of(stored))
    <3> DEFINE c == Cardinality(Of(stored))
    <3>1. c \in Nat /\ c <= MaxTuplesPerQuery /\ MaxTuplesPerQuery \in Nat
      BY <2>1, <2>2, <2>3
    <3> HIDE DEF c
    <3>2. Min({c, MaxTuplesPerQuery}) = c
      <4>1. c \in {c, MaxTuplesPerQuery} /\ \A y \in {c, MaxTuplesPerQuery} : c <= y
        BY <3>1
      <4>2. \A x \in {c, MaxTuplesPerQuery} :
               (\A y \in {c, MaxTuplesPerQuery} : x <= y) => x = c
        BY <3>1
      <4> QED BY <4>1, <4>2 DEF Min
    <3> QED BY <3>2 DEF c
  <2> QED BY <1>2, <2>2, <2>4, FS_Subset
<1> QED BY <1>1, <1>2, <1>3, <1>4

\* A loop begins: nothing was looked at, and nothing is missing.
LEMMA LoopBegins ==
    ASSUME EvaluatorInv, stack # <<>>, Top.depth < MaxDepth,
           Top.rule.kind \in {"relation", "hierarchical", "parentCall"},
           Top.rule.kind = "relation" => Top.pc = "find",
           NEW rows \in Rows(Top.entity, Top.rule.relation),
           NEW Q, Q = IF Top.rule.kind = "relation" THEN Usersets(rows) ELSE Parents(rows),
           Become([Top EXCEPT !.pc = "loop", !.todo = Q]), Kept, UNCHANGED shortcut
    PROVE  EvaluatorInv'
<1>1. Begun
  BY DEF EvaluatorInv
<1>2. /\ Q \subseteq Sought(Top, stored \cup req.context)
      /\ \A b \in Bounds : Around(b) /\ Whole(b[3]) => Q = Sought(Top, stored \cup req.context)
  BY <1>1, RowsFacts DEF Sought, Usersets, Parents
<1>3. /\ stored \cup req.context \subseteq ever \cup req.context
      /\ ever \cup req.context \subseteq Tuple \cup req.context
  BY <1>1, RequestFacts
<1>4. Q \subseteq Sought(Top, ever \cup req.context)
  BY <1>2, <1>3, SoughtGrows
<1>5. Q \in SUBSET (Tuple \cup req.context)
  BY <1>3, <1>4 DEF Sought, Usersets, Parents, About
<1> DEFINE f == [Top EXCEPT !.pc = "loop", !.todo = Q]
<1>6. /\ f \in Frames(req) /\ Asks(f) = Asks(Top) /\ f.depth = Top.depth /\ f.pc = "loop"
      /\ f.rule = Top.rule /\ f.entity = Top.entity /\ f.todo = Q
  <2>1. Top \in Frames(req) /\ f = [Top EXCEPT !.pc = "loop", !.todo = Q]
    BY TopFacts
  <2> HIDE DEF f
  <2> QED BY <1>5, <2>1 DEF Frames, Asks
<1>7. Become(f)
  OBVIOUS
<1> HIDE DEF f
<1>8. \A T : Sought(f, T) = Sought(Top, T)
  BY <1>6 DEF Sought
<1>9. FrameOK(req, always, ever, f)
  BY <1>4, <1>6, <1>8, TopFacts DEF FrameOK
<1>10. ASSUME NEW b \in Bounds, Around(b), Whole(b[3]) PROVE Denied(b, f)
  <2>1. Sought(f, Lo(b)) \subseteq Q
    <3>1. Lo(b) \subseteq stored \cup req.context
      BY <1>1, <1>10, AroundFacts
    <3> QED BY <1>2, <1>8, <1>10, <3>1, SoughtGrows
  <2> QED BY <1>6, <2>1 DEF Denied
<1>11. \A b \in Bounds : Around(b) => Within(b, Asks(f), f.depth)
  BY <1>6, TopWithin
<1>12. \A b \in Bounds : ~shortcut /\ Around(b) /\ Whole(b[3]) =>
          Yields(b, stack, 2, Asks(f)) /\ (f.pc = "loop" => Denied(b, f))
  BY <1>6, <1>10, TopTied
<1> QED BY <1>6, <1>7, <1>9, <1>11, <1>12, BecomeInv

\* A loop ends: what is left of the rule does not grant it.
LEMMA LoopEnds ==
    ASSUME EvaluatorInv, stack # <<>>, Top.pc = "loop", Top.todo = {},
           result \in {"none", "false"}, ~shortcut,
           NEW b \in Bounds, Around(b), Whole(b[3])
    PROVE  Asks(Top) \notin Must(b)
<1>1. Denied(b, Top) /\ FrameOK(req, always, ever, Top) /\ Begun
  BY TopTied, TopFacts DEF EvaluatorInv
<1>2. b[1] = req /\ Lo(b) \subseteq always \cup req.context /\ Asks(Top) \in Question(req)
  BY <1>1, AroundFacts, TopFacts
<1>3. \A t \in Sought(Top, Lo(b)) : Refuses(b, Top, t)
  BY <1>1 DEF Denied
<1>4. CASE Top.rule.kind = "relation"
  <2>1. /\ ~Refers(Top.entity, Top.rule)
        /\ DirectTuple(req, Top.entity, Top.rule.relation) \notin Lo(b)
    BY <1>1, <1>2, <1>4 DEF FrameOK
  <2>2. \A t \in Sought(Top, Lo(b)) : Member(t) \notin Must(b)
    BY <1>3, <1>4 DEF Refuses
  <2> QED BY <1>2, <1>4, <2>1, <2>2, Meanings
<1>5. CASE Top.rule.kind = "hierarchical"
  <2>1. \A t \in Sought(Top, Lo(b)) :
           Top.rule.permission \in Names(t.subject) => Parent(t, Top.rule) \notin Must(b)
    BY <1>3, <1>5 DEF Refuses
  <2> QED BY <1>2, <1>5, <2>1, Meanings
<1>6. CASE Top.rule.kind = "parentCall"
  <2>1. \A t \in Sought(Top, Lo(b)) : ParentOutcome(req, t.subject, Top.entity, Top.rule) # "true"
    BY <1>2, <1>3, <1>6 DEF Refuses
  <2> QED BY <1>2, <1>6, <2>1, Meanings
<1> QED BY <1>1, <1>4, <1>5, <1>6 DEF FrameOK

\* A tuple of a loop: one that grants makes the rule hold; one that does not is done.
LEMMA LoopTuple ==
    ASSUME EvaluatorInv, stack # <<>>, Top.pc = "loop", NEW t \in Top.todo,
           NEW f, f = [Top EXCEPT !.todo = @ \ {t}]
    PROVE  /\ f \in Frames(req) /\ FrameOK(req, always, ever, f)
           /\ Asks(f) = Asks(Top) /\ f.depth = Top.depth /\ f.pc = "loop"
           /\ t \in Sought(Top, ever \cup req.context) /\ Top.depth < MaxDepth
           /\ \A b \in Bounds : Around(b) => t \in Sought(Top, Hi(b))
           /\ \A b \in Bounds : Denied(b, Top) /\ Refuses(b, Top, t) => Denied(b, f)
           /\ \A b : Refuses(b, f, t) <=> Refuses(b, Top, t)
<1>1. FrameOK(req, always, ever, Top) /\ Begun /\ Top \in Frames(req)
  BY TopFacts DEF EvaluatorInv
<1> DEFINE Q == Top.todo \ {t}
<1>2. Q \in SUBSET (Tuple \cup req.context)
  BY TopFacts
<1>3. f = [Top EXCEPT !.todo = Q]
  OBVIOUS
<1>4. /\ f \in Frames(req) /\ Asks(f) = Asks(Top) /\ f.depth = Top.depth /\ f.pc = "loop"
      /\ f.rule = Top.rule /\ f.entity = Top.entity /\ f.todo = Q
  <2> HIDE DEF Q
  <2> QED BY <1>1, <1>2, <1>3 DEF Frames, Asks
<1>5. \A T : Sought(f, T) = Sought(Top, T)
  BY <1>4 DEF Sought
<1>6. FrameOK(req, always, ever, f)
  BY <1>1, <1>4, <1>5 DEF FrameOK
<1>7. t \in Sought(Top, ever \cup req.context) /\ Top.depth < MaxDepth
  BY <1>1 DEF FrameOK
<1>8. ASSUME NEW b \in Bounds, Around(b) PROVE t \in Sought(Top, Hi(b))
  BY <1>1, <1>7, <1>8, AroundFacts, SoughtGrows
<1>9. \A b, u : Refuses(b, f, u) <=> Refuses(b, Top, u)
  BY <1>4 DEF Refuses
<1>10. ASSUME NEW b \in Bounds, Denied(b, Top), Refuses(b, Top, t) PROVE Denied(b, f)
  BY <1>4, <1>5, <1>9, <1>10 DEF Denied
<1> QED BY <1>4, <1>6, <1>7, <1>8, <1>9, <1>10

-----------------------------------------------------------------------------
(***************************************************************************)
(* One lemma per action.                                                    *)
(***************************************************************************)
LEMMA AtFacts ==
    ASSUME EvaluatorInv, NEW kind, NEW p, At(kind, p)
    PROVE  /\ stack # <<>> /\ Top.rule.kind = kind /\ Top.pc = p
           /\ result \in {"none", "false"} /\ Kept /\ Top.depth < MaxDepth
           /\ p = "start" => result = "none"
<1>1. /\ stack # <<>> /\ Top.rule.kind = kind /\ Top.pc = p /\ result \in {"none", "false"}
      /\ (p = "start" => Top.depth < MaxDepth) /\ Kept
  BY DEF At, Kept
<1>2. FrameOK(req, always, ever, Top) /\ (result # "none" => Top.pc \in {"loop", "left"})
  BY <1>1, TopFacts
<1> QED BY <1>1, <1>2 DEF FrameOK

LEMMA DepthExceededInv == ASSUME EvaluatorInv, DepthExceeded PROVE EvaluatorInv'
<1>1. /\ stack # <<>> /\ Top.depth >= MaxDepth /\ Answer("depth") /\ Kept
      /\ shortcut' = shortcut
  BY DEF DepthExceeded, Kept
<1>2. Top.depth = MaxDepth
  BY <1>1, TopFacts, EvaluatorAssumption DEF EvaluatorAssumption
<1>3. ASSUME NEW b \in Bounds, Around(b) PROVE Level(b[1], Hi(b))[MaxDepth] # {}
  <2>1. Within(b, Asks(Top), MaxDepth)
    BY <1>1, <1>2, <1>3, TopWithin
  <2> QED BY <2>1 DEF Within
<1>4. "depth" \in {"true", "false"} \cup Errors /\ \A b : Earned(b, "depth")
  BY DEF Errors, Earned
<1> QED BY <1>1, <1>3, <1>4, AnswerInv

\* An error that is not the depth error says nothing of the tuples.
LEMMA ErrorInv ==
    ASSUME EvaluatorInv, stack # <<>>, NEW v \in Errors, v # "depth", Answer(v), Kept,
           UNCHANGED shortcut
    PROVE  EvaluatorInv'
<1>1. v \in {"true", "false"} \cup Errors /\ \A b : Earned(b, v)
  BY DEF Errors, Earned
<1> QED BY <1>1, AnswerInv

LEMMA ReadFailsInv == ASSUME EvaluatorInv, ReadFails PROVE EvaluatorInv'
<1>1. Answer("db") /\ shortcut' = shortcut /\ "db" \in Errors /\ "db" # "depth"
  BY DEF ReadFails, Errors
<1>2. stack # <<>> /\ Kept
  BY AtFacts DEF ReadFails
<1> QED BY <1>1, <1>2, ErrorInv

LEMMA PassErrorInv == ASSUME EvaluatorInv, PassError PROVE EvaluatorInv'
<1>1. /\ stack # <<>> /\ result \in Errors /\ Answer(result) /\ Kept
      /\ shortcut' = shortcut
  BY DEF PassError, Kept
<1>2. result \in {"true", "false"} \cup Errors /\ \A b : Earned(b, result)
  BY <1>1 DEF Errors, Earned
<1>3. ASSUME result = "depth", NEW b \in Bounds, Around(b)
      PROVE  Level(b[1], Hi(b))[MaxDepth] # {}
  BY <1>3 DEF EvaluatorInv, Deep, Reached
<1> QED BY <1>1, <1>2, <1>3, AnswerInv

LEMMA PermissionReferenceInv == ASSUME EvaluatorInv, PermissionReference PROVE EvaluatorInv'
<1> DEFINE rule == PermissionRule(Top.entity, Top.rule.relation)
           f == Frame(rule, Top.entity, Top.depth + 1)
<1>1. At("relation", "start") /\ Become(f) /\ shortcut' = shortcut
  BY DEF PermissionReference
<1>2. /\ stack # <<>> /\ Top.rule.kind = "relation" /\ Kept /\ Top.depth < MaxDepth
  BY <1>1, AtFacts
<1>3. Refers(Top.entity, Top.rule) /\ Referred(Top.entity, Top.rule) = <<rule, Top.entity>>
  BY <1>2 DEF PermissionReference, Refers, Referred
<1>4. <<rule, Top.entity>> \in OwnCalls(Asks(Top), {})
  BY <1>3, OwnCallsOf
<1>5. /\ <<rule, Top.entity>> \in Question(req) /\ Top.depth + 1 \in 0..MaxDepth
      /\ \A b \in Bounds : Around(b) => Within(b, <<rule, Top.entity>>, Top.depth + 1)
  <2>1. {} \subseteq ever \cup req.context
    OBVIOUS
  <2> HIDE DEF rule
  <2> QED BY <1>2, <1>4, <2>1, Leads
<1>6. /\ f \in Frames(req) /\ FrameOK(req, always, ever, f)
      /\ Asks(f) = <<rule, Top.entity>> /\ f.pc = "start" /\ f.depth = Top.depth + 1
  <2>1. f = Frame(rule, Top.entity, Top.depth + 1) /\ req \in {s.req : s \in Scenario}
    BY <1>2, TopFacts
  <2> HIDE DEF f, rule
  <2> QED BY <1>5, <2>1, NewFrame
<1> HIDE DEF f
<1>7. ASSUME NEW b \in Bounds, ~shortcut, Around(b), Whole(b[3])
      PROVE  Yields(b, stack, 2, Asks(f))
  <2>1. Yields(b, stack, 2, Asks(Top)) /\ b[1] = req /\ Asks(Top) \in Question(req)
    BY <1>2, <1>7, TopTied, TopFacts DEF Around
  <2>2. /\ Asks(Top) \in May(b) <=> Asks(f) \in May(b)
        /\ Asks(Top) \in Must(b) <=> Asks(f) \in Must(b)
    BY <1>3, <1>6, <2>1, Meanings
  <2> QED BY <2>1, <2>2 DEF Yields
<1> QED BY <1>1, <1>2, <1>5, <1>6, <1>7, BecomeInv

LEMMA ReadDirectInv == ASSUME EvaluatorInv, ReadDirect PROVE EvaluatorInv'
<1> DEFINE tuple == DirectTuple(req, Top.entity, Top.rule.relation)
           found == tuple \in stored \cup req.context
           f == [Top EXCEPT !.pc = "find"]
<1>1. /\ At("relation", "start") /\ shortcut' = shortcut
      /\ IF found \/ req.subjectRelation # "" THEN Answer(Boolean(found)) ELSE Become(f)
  BY DEF ReadDirect
<1>2. /\ stack # <<>> /\ Top.rule.kind = "relation" /\ Kept /\ Top.depth < MaxDepth
      /\ result = "none"
  BY <1>1, AtFacts
<1>3. ~Refers(Top.entity, Top.rule)
  BY DEF ReadDirect, Refers
<1>4. Begun /\ always \subseteq stored
  BY RequestFacts DEF EvaluatorInv
<1>5. CASE found \/ req.subjectRelation # ""
  <2>1. Answer(Boolean(found)) /\ Boolean(found) \in {"true", "false"}
        /\ ((Boolean(found) = "true") <=> found)
    BY <1>1, <1>5 DEF Boolean
  <2>2. ASSUME NEW b \in Bounds, Around(b) PROVE Earned(b, Boolean(found))
    <3>1. /\ b[1] = req /\ Asks(Top) \in Question(req)
          /\ Lo(b) \subseteq stored \cup req.context /\ stored \cup req.context \subseteq Hi(b)
      BY <1>2, <1>4, <2>2, AroundFacts, TopFacts
    <3>2. CASE found
      <4>1. tuple \in Hi(b)
        BY <3>1, <3>2
      <4>2. Asks(Top) \in May(b)
        BY <1>2, <1>3, <3>1, <4>1, Meanings
      <4> QED BY <2>1, <3>2, <4>2 DEF Earned
    <3>3. CASE ~found
      <4>1. tuple \notin Lo(b) /\ req.subjectRelation # ""
        BY <1>5, <3>1, <3>3
      <4>2. Asks(Top) \notin Must(b)
        BY <1>2, <1>3, <3>1, <4>1, Meanings
      <4> QED BY <2>1, <3>3, <4>2 DEF Earned
    <3> QED BY <3>2, <3>3
  <2>3. Boolean(found) \in {"true", "false"} \cup Errors /\ Boolean(found) # "depth"
    BY <2>1
  <2> HIDE DEF found
  <2> QED BY <1>1, <1>2, <2>1, <2>2, <2>3, AnswerInv
<1>6. CASE ~found /\ req.subjectRelation = ""
  <2>1. Become(f)
    BY <1>1, <1>6
  <2>2. /\ f \in Frames(req) /\ Asks(f) = Asks(Top) /\ f.depth = Top.depth /\ f.pc = "find"
        /\ f.rule = Top.rule /\ f.entity = Top.entity
    <3>1. Top \in Frames(req) /\ f = [Top EXCEPT !.pc = "find"]
      BY <1>2, TopFacts
    <3> HIDE DEF f
    <3> QED BY <3>1 DEF Frames, Asks
  <2> HIDE DEF f
  <2>3. tuple \notin always \cup req.context
    BY <1>4, <1>6
  <2>4. FrameOK(req, always, ever, f)
    BY <1>2, <1>3, <1>6, <2>2, <2>3, TopFacts DEF FrameOK
  <2>5. \A b \in Bounds : Around(b) => Within(b, Asks(f), f.depth)
    BY <1>2, <2>2, TopWithin
  <2>6. \A b \in Bounds : ~shortcut /\ Around(b) /\ Whole(b[3]) =>
          Yields(b, stack, 2, Asks(f)) /\ (f.pc = "loop" => Denied(b, f))
    BY <1>2, <2>2, TopTied
  <2> QED BY <1>1, <1>2, <2>1, <2>2, <2>4, <2>5, <2>6, BecomeInv
<1> QED BY <1>5, <1>6

LEMMA FindUsersetsInv == ASSUME EvaluatorInv, FindUsersets PROVE EvaluatorInv'
<1>1. At("relation", "find") /\ shortcut' = shortcut
  BY DEF FindUsersets
<1>2. PICK rows \in Rows(Top.entity, Top.rule.relation) :
         Become([Top EXCEPT !.pc = "loop", !.todo = Usersets(rows)])
  BY DEF FindUsersets
<1>3. /\ stack # <<>> /\ Top.rule.kind = "relation" /\ Top.pc = "find" /\ Kept
      /\ Top.depth < MaxDepth
  BY <1>1, AtFacts
<1> DEFINE Q == Usersets(rows)
<1>4. Q = IF Top.rule.kind = "relation" THEN Usersets(rows) ELSE Parents(rows)
  BY <1>3
<1>5. Become([Top EXCEPT !.pc = "loop", !.todo = Q])
  BY <1>2
<1> HIDE DEF Q
<1> QED BY <1>1, <1>3, <1>4, <1>5, LoopBegins

LEMMA FindParentsInv == ASSUME EvaluatorInv, FindParents PROVE EvaluatorInv'
<1>1. /\ At("hierarchical", "find") \/ At("parentCall", "start")
      /\ shortcut' = shortcut
  BY DEF FindParents
<1>2. PICK rows \in Rows(Top.entity, Top.rule.relation) :
         Become([Top EXCEPT !.pc = "loop", !.todo = Parents(rows)])
  BY DEF FindParents
<1>3. /\ stack # <<>> /\ Top.rule.kind \in {"hierarchical", "parentCall"} /\ Kept
      /\ Top.depth < MaxDepth
  BY <1>1, AtFacts
<1> DEFINE Q == Parents(rows)
<1>4. Q = IF Top.rule.kind = "relation" THEN Usersets(rows) ELSE Parents(rows)
  BY <1>3
<1>5. Become([Top EXCEPT !.pc = "loop", !.todo = Q])
  BY <1>2
<1> HIDE DEF Q
<1> QED BY <1>1, <1>3, <1>4, <1>5, LoopBegins

\* A loop that has come to its end denies.
LEMMA EndedLoopInv ==
    ASSUME EvaluatorInv, stack # <<>>, Top.pc = "loop", Top.todo = {},
           result \in {"none", "false"}, Answer("false"), Kept, UNCHANGED shortcut
    PROVE  EvaluatorInv'
<1>1. ASSUME NEW b \in Bounds, ~shortcut, Around(b), Whole(b[3])
      PROVE  Earned(b, "false")
  BY <1>1, LoopEnds DEF Earned
<1>2. "false" \in {"true", "false"} \cup Errors
  OBVIOUS
<1> QED BY <1>1, <1>2, AnswerInv

\* A loop asks a question about a tuple.
LEMMA LoopCallInv ==
    ASSUME EvaluatorInv, stack # <<>>, Top.pc = "loop", NEW t \in Top.todo,
           result \in {"none", "false"},
           NEW rule, NEW o,
           <<rule, o>> \in OwnCalls(Asks(Top), ever \cup req.context),
           \A b \in Bounds : Around(b) =>
              /\ <<rule, o>> \in May(b) => Asks(Top) \in May(b)
              /\ <<rule, o>> \notin Must(b) => Refuses(b, Top, t),
           Call(Frame(rule, o, Top.depth + 1), [Top EXCEPT !.todo = @ \ {t}]),
           Kept, UNCHANGED shortcut
    PROVE  EvaluatorInv'
<1> DEFINE f == [Top EXCEPT !.todo = @ \ {t}]
           g == Frame(rule, o, Top.depth + 1)
<1>1. /\ f \in Frames(req) /\ FrameOK(req, always, ever, f)
      /\ Asks(f) = Asks(Top) /\ f.depth = Top.depth /\ f.pc = "loop" /\ Top.depth < MaxDepth
      /\ \A b \in Bounds : Denied(b, Top) /\ Refuses(b, Top, t) => Denied(b, f)
  BY LoopTuple
<1>2. /\ <<rule, o>> \in Question(req) /\ Top.depth + 1 \in 0..MaxDepth
      /\ \A b \in Bounds : Around(b) => Within(b, <<rule, o>>, Top.depth + 1)
  <2> DEFINE T == ever \cup req.context
  <2>1. T \subseteq ever \cup req.context /\ <<rule, o>> \in OwnCalls(Asks(Top), T)
    OBVIOUS
  <2> HIDE DEF T
  <2> QED BY <1>1, <2>1, Leads
<1>3. /\ g \in Frames(req) /\ FrameOK(req, always, ever, g)
      /\ Asks(g) = <<rule, o>> /\ g.pc = "start" /\ g.depth = Top.depth + 1
  <2>1. g = Frame(rule, o, Top.depth + 1) /\ req \in {s.req : s \in Scenario}
    BY TopFacts
  <2>2. <<rule, o>> \in Question(req) /\ Top.depth + 1 \in 0..MaxDepth
    BY <1>2
  <2> DEFINE d == Top.depth + 1
  <2>3. /\ g = Frame(rule, o, d) /\ d \in 0..MaxDepth
    BY <2>1, <2>2
  <2> HIDE DEF f, g, d
  <2>4. /\ g \in Frames(req) /\ FrameOK(req, always, ever, g)
        /\ Asks(g) = <<rule, o>> /\ g.pc = "start" /\ g.depth = d
    <3> DEFINE x == <<rule, o>>
    <3>1. x[1] \in {y[1] : y \in Question(req)} /\ x[2] \in Object
      BY <2>1, <2>2, QuestionFacts
    <3>2. rule \in {y[1] : y \in Question(req)} /\ o \in Object
      BY <3>1
    <3> QED BY <2>2, <2>3, <3>2 DEF Frame, Frames, FrameOK, Asks
  <2> QED BY <2>4 DEF d
<1>4. Call(g, f)
  OBVIOUS
<1> HIDE DEF f, g
<1>5. ASSUME NEW b \in Bounds, ~shortcut, Around(b), Whole(b[3])
      PROVE  /\ Asks(g) \in May(b) => Fits(b, f, "true")
             /\ Asks(g) \notin Must(b) => Fits(b, f, "false")
  <2>1. Denied(b, Top)
    BY <1>5, TopTied
  <2> QED BY <1>1, <1>3, <1>5, <2>1 DEF Fits
<1> QED BY <1>1, <1>2, <1>3, <1>4, <1>5, CallInv

\* A loop passes a tuple that grants nothing.
LEMMA LoopSkipInv ==
    ASSUME EvaluatorInv, stack # <<>>, Top.pc = "loop", NEW t \in Top.todo,
           result \in {"none", "false"},
           \A b \in Bounds : Around(b) => Refuses(b, Top, t),
           Become([Top EXCEPT !.todo = @ \ {t}]), Kept, UNCHANGED shortcut
    PROVE  EvaluatorInv'
<1> DEFINE f == [Top EXCEPT !.todo = @ \ {t}]
<1>1. /\ f \in Frames(req) /\ FrameOK(req, always, ever, f)
      /\ Asks(f) = Asks(Top) /\ f.depth = Top.depth /\ f.pc = "loop"
      /\ \A b \in Bounds : Denied(b, Top) /\ Refuses(b, Top, t) => Denied(b, f)
  BY LoopTuple
<1>2. Become(f)
  OBVIOUS
<1> HIDE DEF f
<1>3. \A b \in Bounds : Around(b) => Within(b, Asks(f), f.depth)
  BY <1>1, TopWithin
<1>4. ASSUME NEW b \in Bounds, ~shortcut, Around(b), Whole(b[3])
      PROVE  Yields(b, stack, 2, Asks(f)) /\ Denied(b, f)
  BY <1>1, <1>4, TopTied
<1> QED BY <1>1, <1>2, <1>3, <1>4, BecomeInv

LEMMA NextUsersetInv == ASSUME EvaluatorInv, NextUserset PROVE EvaluatorInv'
<1>1. At("relation", "loop") /\ shortcut' = shortcut
  BY DEF NextUserset
<1>2. /\ stack # <<>> /\ Top.rule.kind = "relation" /\ Top.pc = "loop" /\ Kept
      /\ result \in {"none", "false"}
  BY <1>1, AtFacts
<1>3. CASE Top.todo = {}
  <2>1. Answer("false")
    BY <1>3 DEF NextUserset
  <2> QED BY <1>1, <1>2, <1>3, <2>1, EndedLoopInv
<1>4. CASE Top.todo # {}
  <2>1. PICK t \in Top.todo :
           Call(Frame(Relation(t.subjectRelation), t.subject, Top.depth + 1),
                [Top EXCEPT !.todo = @ \ {t}])
    BY <1>4 DEF NextUserset
  <2>2. ~Refers(Top.entity, Top.rule) /\ req.subjectRelation = ""
    BY <1>2, TopFacts DEF FrameOK
  <2>3. /\ t \in Sought(Top, ever \cup req.context)
        /\ \A b \in Bounds : Around(b) => t \in Sought(Top, Hi(b))
    BY <1>2, LoopTuple
  <2>4. Member(t) \in OwnCalls(Asks(Top), ever \cup req.context)
    <3>1. OwnCalls(Asks(Top), ever \cup req.context) =
             {Member(u) : u \in Sought(Top, ever \cup req.context)}
      BY <1>2, <2>2, OwnCallsOf
    <3> QED BY <2>3, <3>1
  <2>5. ASSUME NEW b \in Bounds, Around(b)
        PROVE  /\ Member(t) \in May(b) => Asks(Top) \in May(b)
               /\ Member(t) \notin Must(b) => Refuses(b, Top, t)
    <3>1. b[1] = req /\ Asks(Top) \in Question(req) /\ t \in Sought(Top, Hi(b))
      BY <1>2, <2>3, <2>5, TopFacts DEF Around
    <3>2. Member(t) \in May(b) => Asks(Top) \in May(b)
      BY <1>2, <2>2, <3>1, Meanings
    <3>3. Member(t) \notin Must(b) => Refuses(b, Top, t)
      BY <1>2 DEF Refuses
    <3> QED BY <3>2, <3>3
  <2> DEFINE rule == Relation(t.subjectRelation)
             o == t.subject
  <2>6. Member(t) = <<rule, o>> /\ Call(Frame(rule, o, Top.depth + 1), [Top EXCEPT !.todo = @ \ {t}])
    BY <2>1 DEF Member
  <2> HIDE DEF rule, o
  <2> QED BY <1>1, <1>2, <2>4, <2>5, <2>6, LoopCallInv
<1> QED BY <1>3, <1>4

LEMMA NextParentInv == ASSUME EvaluatorInv, NextParent PROVE EvaluatorInv'
<1>1. At("hierarchical", "loop") /\ shortcut' = shortcut
  BY DEF NextParent
<1>2. /\ stack # <<>> /\ Top.rule.kind = "hierarchical" /\ Top.pc = "loop" /\ Kept
      /\ result \in {"none", "false"}
  BY <1>1, AtFacts
<1>3. CASE Top.todo = {}
  <2>1. Answer("false")
    BY <1>3 DEF NextParent
  <2> QED BY <1>1, <1>2, <1>3, <2>1, EndedLoopInv
<1>4. CASE Top.todo # {}
  <2> DEFINE Known(t) == Permits(t.subject, Top.rule.permission) \/ Has(t.subject, Top.rule.permission)
  <2>1. PICK t \in Top.todo :
           IF Known(t)
           THEN Call(Frame(Asked(t.subject, Top.rule.permission), t.subject, Top.depth + 1),
                     [Top EXCEPT !.todo = @ \ {t}])
           ELSE Become([Top EXCEPT !.todo = @ \ {t}])
    BY <1>4 DEF NextParent
  <2>2. /\ t \in Sought(Top, ever \cup req.context)
        /\ \A b \in Bounds : Around(b) => t \in Sought(Top, Hi(b))
    BY <1>2, LoopTuple
  <2>3. Known(t) <=> Top.rule.permission \in Names(t.subject)
    BY DEF Names, Has, Permits
  <2>4. CASE Known(t)
    <3>1. Parent(t, Top.rule) \in OwnCalls(Asks(Top), ever \cup req.context)
      <4>1. t \in {u \in Sought(Top, ever \cup req.context) :
                     Top.rule.permission \in Names(u.subject)}
        BY <2>2, <2>3, <2>4
      <4> QED BY <1>2, <4>1, OwnCallsOf
    <3>2. ASSUME NEW b \in Bounds, Around(b)
          PROVE  /\ Parent(t, Top.rule) \in May(b) => Asks(Top) \in May(b)
                 /\ Parent(t, Top.rule) \notin Must(b) => Refuses(b, Top, t)
      <4>1. b[1] = req /\ Asks(Top) \in Question(req) /\ t \in Sought(Top, Hi(b))
        BY <1>2, <2>2, <3>2, TopFacts DEF Around
      <4>2. Parent(t, Top.rule) \in May(b) => Asks(Top) \in May(b)
        BY <1>2, <2>3, <2>4, <4>1, Meanings
      <4>3. Parent(t, Top.rule) \notin Must(b) => Refuses(b, Top, t)
        BY <1>2 DEF Refuses
      <4> QED BY <4>2, <4>3
    <3> DEFINE rule == Asked(t.subject, Top.rule.permission)
               o == t.subject
    <3>3. /\ Parent(t, Top.rule) = <<rule, o>>
          /\ Call(Frame(rule, o, Top.depth + 1), [Top EXCEPT !.todo = @ \ {t}])
      BY <2>1, <2>4 DEF Parent
    <3> HIDE DEF rule, o
    <3> QED BY <1>1, <1>2, <3>1, <3>2, <3>3, LoopCallInv
  <2>5. CASE ~Known(t)
    <3>1. \A b \in Bounds : Refuses(b, Top, t)
      BY <1>2, <2>3, <2>5 DEF Refuses
    <3>2. Become([Top EXCEPT !.todo = @ \ {t}])
      BY <2>1, <2>5
    <3> QED BY <1>1, <1>2, <3>1, <3>2, LoopSkipInv
  <2> QED BY <2>4, <2>5
<1> QED BY <1>3, <1>4

LEMMA GrantedInv == ASSUME EvaluatorInv, Granted PROVE EvaluatorInv'
<1>1. /\ stack # <<>> /\ Top.pc = "loop" /\ result = "true" /\ Answer("true")
      /\ Kept /\ shortcut' = shortcut
  BY DEF Granted, Kept
<1>2. ASSUME NEW b \in Bounds, ~shortcut, Around(b), Whole(b[3])
      PROVE  Earned(b, "true")
  <2>1. Fits(b, Top, "true")
    BY <1>1, <1>2, TopTied
  <2> QED BY <1>1, <2>1 DEF Fits, Earned
<1>3. "true" \in {"true", "false"} \cup Errors
  OBVIOUS
<1> QED BY <1>1, <1>2, <1>3, AnswerInv

\* The operands of a logical rule.
LEMMA OperandFacts ==
    ASSUME EvaluatorInv, stack # <<>>, NEW rule,
           \/ Top.rule.kind \in {"or", "and", "not"} /\ rule = Top.rule.left
           \/ Top.rule.kind \in {"or", "and"} /\ rule = Top.rule.right,
           NEW f, f = Frame(rule, Top.entity, Top.depth)
    PROVE  /\ f \in Frames(req) /\ FrameOK(req, always, ever, f)
           /\ Asks(f) = <<rule, Top.entity>> /\ f.pc = "start" /\ f.depth = Top.depth
           /\ \A b \in Bounds : Around(b) => Within(b, Asks(f), f.depth)
<1> DEFINE y == <<rule, Top.entity>>
           x == Asks(Top)
<1>1. y \in Operands(x)
  <2>1. x[1] = Top.rule /\ x[2] = Top.entity
    BY DEF Asks
  <2> HIDE DEF x
  <2> QED BY <2>1 DEF Operands
<1>2. x \in Question(req) /\ req \in {s.req : s \in Scenario} /\ Top.depth \in 0..MaxDepth
  BY TopFacts
<1>3. y \in Question(req)
  <2> HIDE DEF x, y
  <2> QED BY <1>1, <1>2, QuestionFacts
<1>4. /\ f \in Frames(req) /\ FrameOK(req, always, ever, f)
      /\ Asks(f) = <<rule, Top.entity>> /\ f.pc = "start" /\ f.depth = Top.depth
  <2>1. y[1] \in {z[1] : z \in Question(req)} /\ y[2] \in Object
    <3> HIDE DEF y
    <3> QED BY <1>2, <1>3, QuestionFacts
  <2>2. rule \in {z[1] : z \in Question(req)} /\ Top.entity \in Object
    BY <2>1
  <2> QED BY <1>2, <1>3, <2>2 DEF Frame, Frames, FrameOK, Asks
<1>5. ASSUME NEW b \in Bounds, Around(b) PROVE Within(b, y, Top.depth)
  <2>1. Within(b, x, Top.depth) /\ b[1] = req
    BY <1>5, TopWithin
  <2> HIDE DEF x, y
  <2> QED BY <1>1, <1>2, <2>1, OperandWithin
<1> QED BY <1>4, <1>5

LEMMA EvaluateLeftInv == ASSUME EvaluatorInv, EvaluateLeft PROVE EvaluatorInv'
<1> DEFINE g == Frame(Top.rule.left, Top.entity, Top.depth)
           f == [Top EXCEPT !.pc = "left"]
<1>1. /\ \E kind \in {"or", "and", "not"} : At(kind, "start")
      /\ Call(g, f) /\ shortcut' = shortcut
  BY DEF EvaluateLeft
<1>2. /\ stack # <<>> /\ Top.rule.kind \in {"or", "and", "not"} /\ Kept
      /\ Top.depth < MaxDepth
  BY <1>1, AtFacts
<1>3. /\ f \in Frames(req) /\ Asks(f) = Asks(Top) /\ f.depth = Top.depth /\ f.pc = "left"
      /\ f.rule = Top.rule /\ f.entity = Top.entity
  <2>1. Top \in Frames(req) /\ f = [Top EXCEPT !.pc = "left"]
    BY <1>2, TopFacts
  <2> HIDE DEF f
  <2> QED BY <2>1 DEF Frames, Asks
<1>4. FrameOK(req, always, ever, f)
  <2> HIDE DEF f
  <2> QED BY <1>2, <1>3, TopFacts DEF FrameOK
<1>5. /\ g \in Frames(req) /\ FrameOK(req, always, ever, g)
      /\ Asks(g) = <<Top.rule.left, Top.entity>> /\ g.pc = "start" /\ g.depth = Top.depth
      /\ \A b \in Bounds : Around(b) => Within(b, Asks(g), g.depth)
  <2> DEFINE rule == Top.rule.left
  <2>1. rule = Top.rule.left /\ g = Frame(rule, Top.entity, Top.depth)
    OBVIOUS
  <2> HIDE DEF g, rule, f
  <2> QED BY <1>2, <2>1, OperandFacts
<1> HIDE DEF f, g
<1>6. ASSUME NEW b \in Bounds, ~shortcut, Around(b), Whole(b[3])
      PROVE  /\ Asks(g) \in May(b) => Fits(b, f, "true")
             /\ Asks(g) \notin Must(b) => Fits(b, f, "false")
  BY <1>3, <1>5 DEF Fits
<1> QED BY <1>1, <1>2, <1>3, <1>4, <1>5, <1>6, CallInv

LEMMA AfterLeftInv == ASSUME EvaluatorInv, AfterLeft PROVE EvaluatorInv'
<1> DEFINE f == Frame(Top.rule.right, Top.entity, Top.depth)
           left == <<Top.rule.left, Top.entity>>
           right == <<Top.rule.right, Top.entity>>
           kind == Top.rule.kind
<1>1. /\ stack # <<>> /\ Top.pc = "left" /\ result \in {"true", "false"} /\ Kept
      /\ shortcut' = shortcut
      /\ CASE kind = "not" -> Answer(Boolean(result = "false"))
           [] kind = "or" /\ result = "true" -> Answer("true")
           [] kind = "and" /\ result = "false" -> Answer("false")
           [] OTHER -> Become(f)
  BY DEF AfterLeft, Kept
<1>2. kind \in {"or", "and", "not"} /\ Asks(Top) \in Question(req)
  BY <1>1, TopFacts DEF FrameOK
<1>3. ASSUME NEW b \in Bounds, ~shortcut, Around(b), Whole(b[3])
      PROVE  /\ b[1] = req
             /\ result = "true" => left \in May(b)
             /\ result = "false" => left \notin Must(b)
             /\ Yields(b, stack, 2, Asks(Top))
  BY <1>1, <1>3, TopTied DEF Fits, Around
<1>4. CASE kind = "not"
  <2> DEFINE v == Boolean(result = "false")
  <2>1. Answer(v) /\ v \in {"true", "false"} /\ (v = "true" <=> result = "false")
    BY <1>1, <1>4 DEF Boolean
  <2> HIDE DEF v
  <2>2. ASSUME NEW b \in Bounds, ~shortcut, Around(b), Whole(b[3])
        PROVE  Earned(b, v)
    <3>1. /\ Asks(Top) \in May(b) <=> left \notin Must(b)
          /\ Asks(Top) \in Must(b) <=> left \notin May(b)
      BY <1>2, <1>3, <1>4, <2>2, Meanings
    <3> QED BY <1>1, <1>3, <2>1, <2>2, <3>1 DEF Earned
  <2>3. v \in {"true", "false"} \cup Errors /\ v # "depth"
    BY <2>1
  <2> QED BY <1>1, <2>1, <2>2, <2>3, AnswerInv
<1>5. CASE kind = "or" /\ result = "true"
  <2>1. Answer("true")
    BY <1>1, <1>5
  <2>2. ASSUME NEW b \in Bounds, ~shortcut, Around(b), Whole(b[3])
        PROVE  Earned(b, "true")
    <3>1. Asks(Top) \in May(b) <=> left \in May(b) \/ right \in May(b)
      BY <1>2, <1>3, <1>5, <2>2, Meanings
    <3> QED BY <1>3, <1>5, <2>2, <3>1 DEF Earned
  <2>3. "true" \in {"true", "false"} \cup Errors
    OBVIOUS
  <2> QED BY <1>1, <2>1, <2>2, <2>3, AnswerInv
<1>6. CASE kind = "and" /\ result = "false"
  <2>1. Answer("false")
    BY <1>1, <1>6
  <2>2. ASSUME NEW b \in Bounds, ~shortcut, Around(b), Whole(b[3])
        PROVE  Earned(b, "false")
    <3>1. Asks(Top) \in Must(b) <=> left \in Must(b) /\ right \in Must(b)
      BY <1>2, <1>3, <1>6, <2>2, Meanings
    <3> QED BY <1>3, <1>6, <2>2, <3>1 DEF Earned
  <2>3. "false" \in {"true", "false"} \cup Errors
    OBVIOUS
  <2> QED BY <1>1, <2>1, <2>2, <2>3, AnswerInv
<1>7. CASE (kind = "or" /\ result = "false") \/ (kind = "and" /\ result = "true")
  <2>1. Become(f)
    BY <1>1, <1>7
  <2>2. /\ f \in Frames(req) /\ FrameOK(req, always, ever, f)
        /\ Asks(f) = right /\ f.pc = "start" /\ f.depth = Top.depth
        /\ \A b \in Bounds : Around(b) => Within(b, Asks(f), f.depth)
    <3> DEFINE rule == Top.rule.right
    <3>1. /\ rule = Top.rule.right /\ f = Frame(rule, Top.entity, Top.depth)
          /\ right = <<rule, Top.entity>> /\ Top.rule.kind \in {"or", "and"}
      BY <1>7
    <3> HIDE DEF f, rule, right, left, kind
    <3> QED BY <1>1, <3>1, OperandFacts
  <2> HIDE DEF f
  <2>3. ASSUME NEW b \in Bounds, ~shortcut, Around(b), Whole(b[3])
        PROVE  Yields(b, stack, 2, Asks(f))
    <3>1. CASE kind = "or" /\ result = "false"
      <4>1. /\ Asks(Top) \in May(b) <=> left \in May(b) \/ right \in May(b)
            /\ Asks(Top) \in Must(b) <=> left \in Must(b) \/ right \in Must(b)
        BY <1>2, <1>3, <2>3, <3>1, Meanings
      <4> QED BY <1>3, <2>2, <2>3, <3>1, <4>1 DEF Yields
    <3>2. CASE kind = "and" /\ result = "true"
      <4>1. /\ Asks(Top) \in May(b) <=> left \in May(b) /\ right \in May(b)
            /\ Asks(Top) \in Must(b) <=> left \in Must(b) /\ right \in Must(b)
        BY <1>2, <1>3, <2>3, <3>2, Meanings
      <4> QED BY <1>3, <2>2, <2>3, <3>2, <4>1 DEF Yields
    <3> QED BY <1>7, <3>1, <3>2
  <2> QED BY <1>1, <2>1, <2>2, <2>3, BecomeInv
<1> QED BY <1>1, <1>2, <1>4, <1>5, <1>6, <1>7

LEMMA FindHierarchicalInv == ASSUME EvaluatorInv, FindHierarchical PROVE EvaluatorInv'
<1> DEFINE v == Boolean(req.subject \in HierarchyFrom(stored, Top.entity, Top.rule.relation))
<1>1. At("hierarchical", "start") /\ Answer(v) /\ shortcut'
  BY DEF FindHierarchical
<1>2. stack # <<>> /\ Kept
  BY <1>1, AtFacts
<1>3. v \in {"true", "false"} \cup Errors /\ v # "depth"
  BY DEF Boolean
<1> HIDE DEF v
<1> QED BY <1>1, <1>2, <1>3, AnswerInv

LEMMA NoShortcutInv == ASSUME EvaluatorInv, NoShortcut PROVE EvaluatorInv'
<1> DEFINE f == [Top EXCEPT !.pc = "find"]
<1>1. /\ At("hierarchical", "start") /\ shortcut' = shortcut
      /\ Become(f) \/ Answer("schema")
  BY DEF NoShortcut
<1>2. /\ stack # <<>> /\ Top.rule.kind = "hierarchical" /\ Kept /\ Top.depth < MaxDepth
  BY <1>1, AtFacts
<1>3. CASE Answer("schema")
  <2>1. "schema" \in Errors
    BY DEF Errors
  <2> QED BY <1>1, <1>2, <1>3, <2>1, ErrorInv
<1>4. CASE Become(f)
  <2>1. /\ f \in Frames(req) /\ Asks(f) = Asks(Top) /\ f.depth = Top.depth /\ f.pc = "find"
        /\ f.rule = Top.rule /\ f.entity = Top.entity
    <3>1. Top \in Frames(req) /\ f = [Top EXCEPT !.pc = "find"]
      BY <1>2, TopFacts
    <3> HIDE DEF f
    <3> QED BY <3>1 DEF Frames, Asks
  <2> HIDE DEF f
  <2>2. FrameOK(req, always, ever, f)
    BY <1>2, <2>1, TopFacts DEF FrameOK
  <2>3. \A b \in Bounds : Around(b) => Within(b, Asks(f), f.depth)
    BY <1>2, <2>1, TopWithin
  <2>4. \A b \in Bounds : ~shortcut /\ Around(b) /\ Whole(b[3]) =>
          Yields(b, stack, 2, Asks(f)) /\ (f.pc = "loop" => Denied(b, f))
    BY <1>2, <2>1, TopTied
  <2> QED BY <1>1, <1>2, <1>4, <2>1, <2>2, <2>3, <2>4, BecomeInv
<1> QED BY <1>1, <1>3, <1>4

\* What CEL gives for a value, which may be absent.
LEMMA AttributeFacts ==
    ASSUME Begun, NEW o \in Object
    PROVE  Attribute(req, o) \in {"absent", "true", "false"} /\ req.subject \in Object
<1>1. {req.attrs[o], req.ctxAttrs[o]} \subseteq {"absent", "true", "false"} /\ req.subject \in Object
  BY RequestFacts, QuestionAssumption DEF QuestionAssumption
<1> QED BY <1>1 DEF Attribute

Outcomes == {"true", "false", "cel", "schema"}

LEMMA CELFacts ==
    ASSUME NEW v \in {"absent", "true", "false"}
    PROVE  CEL(v) \in Outcomes /\ (CEL(v) = "true" <=> v = "true")
BY DEF CEL, Outcomes

\* An outcome is the answer of a rule when it grants just what the rule grants.
LEMMA OutcomeInv ==
    ASSUME EvaluatorInv, stack # <<>>, NEW v \in Outcomes,
           \A b \in Bounds : Around(b) =>
              /\ v = "true" => Asks(Top) \in May(b)
              /\ v = "false" => Asks(Top) \notin Must(b),
           Answer(v), Kept, UNCHANGED shortcut
    PROVE  EvaluatorInv'
<1>1. v \in {"true", "false"} \cup Errors /\ v # "depth"
  BY DEF Outcomes, Errors
<1>2. \A b \in Bounds : Around(b) => Earned(b, v)
  BY DEF Earned
<1> QED BY <1>1, <1>2, AnswerInv

LEMMA EvaluateABACInv == ASSUME EvaluatorInv, EvaluateABAC PROVE EvaluatorInv'
<1> DEFINE v == CEL(Attribute(req, Top.entity))
<1>1. At("abac", "start") /\ Answer(v) /\ shortcut' = shortcut
  BY DEF EvaluateABAC
<1>2. stack # <<>> /\ Top.rule.kind = "abac" /\ Kept
  BY <1>1, AtFacts
<1>3. v \in Outcomes /\ (v = "true" <=> Attribute(req, Top.entity) = "true")
  BY <1>2, TopFacts, AttributeFacts, CELFacts DEF EvaluatorInv
<1> HIDE DEF v
<1>4. ASSUME NEW b \in Bounds, Around(b)
      PROVE  /\ v = "true" => Asks(Top) \in May(b)
             /\ v = "false" => Asks(Top) \notin Must(b)
  <2>1. b[1] = req /\ Asks(Top) \in Question(req)
    BY <1>2, <1>4, TopFacts DEF Around
  <2>2. /\ Asks(Top) \in May(b) <=> Attribute(req, Top.entity) = "true"
        /\ Asks(Top) \in Must(b) <=> Attribute(req, Top.entity) = "true"
    BY <1>2, <2>1, Meanings
  <2> QED BY <1>3, <2>2
<1> QED BY <1>1, <1>2, <1>3, <1>4, OutcomeInv

LEMMA EvaluateRuleCallInv == ASSUME EvaluatorInv, EvaluateRuleCall PROVE EvaluatorInv'
<1> DEFINE v == CallOutcome(req, Top.entity, Top.rule)
<1>1. At("call", "start") /\ Answer(v) /\ shortcut' = shortcut
  BY DEF EvaluateRuleCall
<1>2. stack # <<>> /\ Top.rule.kind = "call" /\ Kept
  BY <1>1, AtFacts
<1>3. v \in Outcomes
  <2> DEFINE value == ParameterContext(req, Top.entity, Top.rule.arguments[1])
  <2>1. Begun /\ Top.entity \in Object
    BY <1>2, TopFacts DEF EvaluatorInv
  <2>2. /\ Attribute(req, Top.entity) \in {"absent", "true", "false"} /\ req.subject \in Object
        /\ Attribute(req, req.subject) \in {"absent", "true", "false"}
    BY <2>1, AttributeFacts
  <2>3. value \in {"absent", "true", "false"}
    BY <2>2 DEF ParameterContext
  <2> HIDE DEF value
  <2>4. CEL(value) \in Outcomes /\ "schema" \in Outcomes
    BY <2>3, CELFacts DEF Outcomes
  <2> QED BY <2>4 DEF CallOutcome, value
<1>4. ASSUME NEW b \in Bounds, Around(b)
      PROVE  /\ v = "true" => Asks(Top) \in May(b)
             /\ v = "false" => Asks(Top) \notin Must(b)
  <2>1. b[1] = req /\ Asks(Top) \in Question(req)
    BY <1>2, <1>4, TopFacts DEF Around
  <2>2. /\ Asks(Top) \in May(b) <=> v = "true"
        /\ Asks(Top) \in Must(b) <=> v = "true"
    BY <1>2, <2>1, Meanings
  <2> HIDE DEF v
  <2> QED BY <2>2
<1> HIDE DEF v
<1> QED BY <1>1, <1>2, <1>3, <1>4, OutcomeInv

LEMMA NextParentCallInv == ASSUME EvaluatorInv, NextParentCall PROVE EvaluatorInv'
<1>1. At("parentCall", "loop") /\ shortcut' = shortcut
  BY DEF NextParentCall
<1>2. /\ stack # <<>> /\ Top.rule.kind = "parentCall" /\ Top.pc = "loop" /\ Kept
      /\ result \in {"none", "false"}
  BY <1>1, AtFacts
<1>3. CASE Top.todo = {}
  <2>1. Answer("false")
    BY <1>3 DEF NextParentCall
  <2> QED BY <1>1, <1>2, <1>3, <2>1, EndedLoopInv
<1>4. CASE Top.todo # {}
  <2> DEFINE Outcome(t) == ParentOutcome(req, t.subject, Top.entity, Top.rule)
  <2>1. PICK t \in Top.todo :
           IF Outcome(t) = "false" THEN Become([Top EXCEPT !.todo = @ \ {t}])
                                   ELSE Answer(Outcome(t))
    BY <1>4 DEF NextParentCall
  <2>2. \A b \in Bounds : Around(b) => t \in Sought(Top, Hi(b))
    BY <1>2, LoopTuple
  <2>3. CASE Outcome(t) = "false"
    <3>1. \A b \in Bounds : Around(b) => Refuses(b, Top, t)
      BY <1>2, <2>3 DEF Refuses, Around
    <3>2. Become([Top EXCEPT !.todo = @ \ {t}])
      BY <2>1, <2>3
    <3> QED BY <1>1, <1>2, <3>1, <3>2, LoopSkipInv
  <2>4. CASE Outcome(t) # "false"
    <3> DEFINE v == Outcome(t)
    <3>1. Answer(v)
      BY <2>1, <2>4
    <3>2. v \in Outcomes
      <4>1. /\ Begun /\ Top.entity \in Object /\ t \in Tuple \cup req.context
            /\ req \in {s.req : s \in Scenario}
        BY <1>2, TopFacts DEF EvaluatorInv
      <4>2. t.subject \in Object
        BY <4>1, QuestionAssumption DEF QuestionAssumption
      <4>3. /\ Attribute(req, Top.entity) \in {"absent", "true", "false"}
            /\ Attribute(req, t.subject) \in {"absent", "true", "false"}
        BY <4>1, <4>2, AttributeFacts
      <4>4. /\ CEL(Attribute(req, Top.entity)) \in Outcomes
            /\ CEL(Attribute(req, t.subject)) \in Outcomes
            /\ "schema" \in Outcomes
        BY <4>3, CELFacts DEF Outcomes
      <4> QED BY <4>4 DEF ParentOutcome
    <3>3. ASSUME NEW b \in Bounds, Around(b)
          PROVE  v = "true" => Asks(Top) \in May(b)
      <4>1. b[1] = req /\ Asks(Top) \in Question(req) /\ t \in Sought(Top, Hi(b))
        BY <1>2, <2>2, <3>3, TopFacts DEF Around
      <4>2. Asks(Top) \in May(b) <=>
               \E u \in Sought(Top, Hi(b)) : ParentOutcome(req, u.subject, Top.entity, Top.rule) = "true"
        BY <1>2, <4>1, Meanings
      <4> QED BY <4>1, <4>2
    <3>4. v # "false"
      BY <2>4
    <3> HIDE DEF v
    <3> QED BY <1>1, <1>2, <3>1, <3>2, <3>3, <3>4, OutcomeInv
  <2> QED BY <2>3, <2>4
<1> QED BY <1>3, <1>4

\* A commit of another request takes bounds away, and widens what the calls saw.
LEMMA CommitOtherInv ==
    ASSUME EvaluatorInv, NEW t \in Volatile(req), CommitOther(t)
    PROVE  EvaluatorInv'
<1>1. /\ stack # <<>> /\ Cardinality(ever \ always) < MaxCommits /\ t \notin ever \ always
      /\ stored' = IF t \in stored THEN stored \ {t} ELSE stored \cup {t}
      /\ ever' = ever \cup {t} /\ always' = always \ {t}
      /\ req' = req /\ stack' = stack /\ result' = result /\ shortcut' = shortcut
  BY DEF CommitOther
<1>2. PICK s, V : Origin(s, V)
  BY DEF EvaluatorInv, Begun
<1>3. /\ s \in Scenario /\ req = s.req /\ V \in SUBSET Volatile(req) /\ IsFiniteSet(V)
      /\ Cardinality(V) <= MaxCommits /\ always = s.stored \ V /\ ever = s.stored \cup V
      /\ always \subseteq stored /\ stored \subseteq ever
  BY <1>2 DEF Origin
<1> DEFINE W == V \cup {t}
<1>4. Origin(s, W)'
  <2>1. ever \ always = V
    BY <1>3
  <2>2. IsFiniteSet(W) /\ Cardinality(W) = Cardinality(V) + 1 /\ Cardinality(V) \in Nat
    BY <1>1, <1>3, <2>1, FS_AddElement, FS_CardinalityType
  <2>3. Cardinality(W) <= MaxCommits
    <3>1. Cardinality(V) < MaxCommits
      BY <1>1, <2>1
    <3> HIDE DEF W
    <3> QED BY <2>2, <3>1, EvaluatorAssumption DEF EvaluatorAssumption
  <2>4. always' = s.stored \ W /\ ever' = s.stored \cup W
    BY <1>1, <1>3
  <2>5. always' \subseteq stored' /\ stored' \subseteq ever'
    BY <1>1, <1>3
  <2>6. W \in SUBSET Volatile(req')
    BY <1>1, <1>3
  <2> QED BY <1>1, <1>3, <2>2, <2>3, <2>4, <2>5, <2>6 DEF Origin
<1>5. Begun'
  BY <1>4 DEF Begun
<1>6. always' \subseteq always /\ ever \subseteq ever'
  BY <1>1
<1>7. \A f : FrameOK(req, always, ever, f) => FrameOK(req, always', ever', f)
  <2> TAKE f
  <2>1. Sought(f, ever \cup req.context) \subseteq Sought(f, ever' \cup req.context)
    BY <1>6, SoughtGrows
  <2> QED BY <1>6, <2>1 DEF FrameOK
<1>8. Calls(req, always', ever', stack, result)
  BY <1>7 DEF EvaluatorInv, Calls
<1>9. \A b : Around(b)' => Around(b)
  BY <1>1, <1>6 DEF Around
<1>10. Sound'
  BY <1>1, <1>9 DEF EvaluatorInv, Sound
<1>11. Deep'
  BY <1>1, <1>9 DEF EvaluatorInv, Deep
<1> QED BY <1>1, <1>5, <1>8, <1>10, <1>11 DEF EvaluatorInv, Done

-----------------------------------------------------------------------------
LEMMA InitInv == Init => EvaluatorInv
<1> SUFFICES ASSUME Init PROVE EvaluatorInv
  OBVIOUS
<1>1. PICK s \in Scenario :
        /\ stored = s.stored /\ req = s.req
        /\ stack = <<Frame(Asked(s.req.entity, s.req.name), s.req.entity, 0)>>
        /\ result = "none" /\ ever = s.stored /\ always = s.stored
  BY DEF Init
<1> DEFINE rule == Asked(req.entity, req.name)
           o == req.entity
           f == Frame(rule, o, 0)
<1>2. stack = <<f>> /\ Goal(req) = <<rule, o>> /\ result = "none"
  BY <1>1 DEF Goal
<1>3. Begun
  <2>1. Origin(s, {})
    <3>1. IsFiniteSet({}) /\ Cardinality({}) = 0
      BY FS_EmptySet
    <3>2. 0 <= MaxCommits
      BY EvaluatorAssumption DEF EvaluatorAssumption
    <3> QED BY <1>1, <3>1, <3>2 DEF Origin
  <2> QED BY <2>1 DEF Begun
<1>4. /\ req \in {q.req : q \in Scenario} /\ <<rule, o>> \in Question(req)
      /\ 0 \in 0..MaxDepth
  <2>1. Goal(req) \in Question(req) /\ req \in {q.req : q \in Scenario}
    BY <1>1, QuestionAssumption DEF QuestionAssumption
  <2> QED BY <1>2, <2>1, EvaluatorAssumption DEF EvaluatorAssumption
<1>5. /\ f \in Frames(req) /\ FrameOK(req, always, ever, f)
      /\ Asks(f) = <<rule, o>> /\ f.pc = "start" /\ f.depth = 0
  <2>1. f = Frame(rule, o, 0)
    OBVIOUS
  <2> HIDE DEF f, rule, o
  <2> QED BY <1>4, <2>1, NewFrame
<1> HIDE DEF f, rule, o
<1>6. /\ stack \in Seq(Frames(req)) /\ Len(stack) = 1 /\ stack[1] = f /\ stack # <<>>
  BY <1>2, <1>5
<1>7. Calls(req, always, ever, stack, result)
  <2>1. \A i \in 1..Len(stack) : i = 1
    BY <1>6
  <2>2. \A i \in 2..Len(stack) : FALSE
    BY <1>6
  <2> QED BY <1>2, <1>5, <1>6, <2>1, <2>2 DEF Calls
<1>8. Sound
  <2> SUFFICES ASSUME NEW b \in Bounds, Around(b) PROVE Tied(b, stack, result)
    BY DEF Sound
  <2>1. b[1] = req
    BY DEF Around
  <2>2. Yields(b, stack, 2, Asks(f))
    BY <1>2, <1>5, <1>6, <2>1 DEF Yields, Suits
  <2>3. \A i \in 1..Len(stack) : i = 1 /\ i + 1 = 2
    BY <1>6
  <2>4. Suits(b, stack, 1, result)
    BY <1>2 DEF Suits, Fits
  <2> QED BY <1>5, <1>6, <2>2, <2>3, <2>4 DEF Tied
<1>9. Deep
  <2> SUFFICES ASSUME NEW b \in Bounds, Around(b) PROVE Reached(b, stack, result)
    BY DEF Deep
  <2>1. b[1] = req
    BY DEF Around
  <2>2. Asks(f) \in Level(b[1], Hi(b))[0]
    <3>1. Level(b[1], Hi(b))[0] = {Goal(b[1])}
      BY Levels
    <3> QED BY <1>2, <1>5, <2>1, <3>1
  <2>3. Within(b, Asks(f), f.depth)
    BY <1>5, <2>2 DEF Within
  <2>4. \A i \in 1..Len(stack) : i = 1
    BY <1>6
  <2> QED BY <1>2, <1>6, <2>3, <2>4 DEF Reached
<1> QED BY <1>2, <1>3, <1>6, <1>7, <1>8, <1>9 DEF EvaluatorInv, Done

LEMMA StepInv == EvaluatorInv /\ [Next]_vars => EvaluatorInv'
<1> SUFFICES ASSUME EvaluatorInv, [Next]_vars PROVE EvaluatorInv'
  OBVIOUS
<1>1. CASE EvalStep
  BY <1>1, DepthExceededInv, PassErrorInv, PermissionReferenceInv, ReadDirectInv,
     FindUsersetsInv, NextUsersetInv, GrantedInv, EvaluateLeftInv, AfterLeftInv,
     FindHierarchicalInv, NoShortcutInv, FindParentsInv, NextParentInv, EvaluateABACInv,
     EvaluateRuleCallInv, NextParentCallInv DEF EvalStep
<1>2. CASE ReadFails
  BY <1>2, ReadFailsInv
<1>3. CASE \E t \in Volatile(req) : CommitOther(t)
  BY <1>3, CommitOtherInv
<1>4. CASE UNCHANGED vars
  <2>1. /\ stored' = stored /\ req' = req /\ stack' = stack /\ result' = result
        /\ shortcut' = shortcut /\ ever' = ever /\ always' = always
    BY <1>4 DEF vars
  <2>2. Kept
    BY <2>1 DEF Kept
  <2>3. Begun'
    BY <2>2, FixedBegun DEF EvaluatorInv
  <2>4. \A b : Around(b)' <=> Around(b)
    BY <2>2, FixedAround
  <2> QED BY <2>1, <2>3, <2>4 DEF EvaluatorInv, Sound, Deep, Done
<1> QED BY <1>1, <1>2, <1>3, <1>4 DEF Next

LEMMA EvaluatorInvariant == Spec => []EvaluatorInv
<1>1. Init => EvaluatorInv
  BY InitInv
<1>2. EvaluatorInv /\ [Next]_vars => EvaluatorInv'
  BY StepInv
<1> QED BY <1>1, <1>2, PTL DEF Spec

\* Calls are about the questions of the request and never deeper than MaxDepth, loops
\* go through tuples that may be stored, and the histories bracket the table.
THEOREM TypeCorrect == Spec => []TypeOK
<1>1. EvaluatorInv => TypeOK
  <2> SUFFICES ASSUME EvaluatorInv PROVE TypeOK
    OBVIOUS
  <2>1. ever \subseteq Tuple /\ always \subseteq stored /\ stored \subseteq ever
    BY RequestFacts DEF EvaluatorInv
  <2>2. stack \in Seq(Frames(req))
    BY DEF EvaluatorInv, Calls
  <2> QED BY <2>1, <2>2 DEF EvaluatorInv, TypeOK, Frames
<1> QED BY <1>1, EvaluatorInvariant, PTL

\* The bounds at the end of an evaluation are bounds it may end with.
LEMMA EndsWithin ==
    ASSUME EvaluatorInv
    PROVE  LET b == <<req, always, ever>> IN b \in Bounds /\ Around(b)
BY RequestFacts DEF EvaluatorInv, Around

\* For all schemas, requests and tuples, and for every way in which others commit
\* meanwhile: an answer agrees with every meaning the permissions can be given that
\* solves their equations, the least one among them (EvaluateRule in evaluator.go).
THEOREM BoundedAnswers == Spec => []AnswerBounded
<1>1. EvaluatorInv => AnswerBounded
  <2> SUFFICES ASSUME EvaluatorInv, Done, ~shortcut, Whole(ever)
               PROVE  /\ result = "true" => Goal(req) \in Meaning(req, always, ever).may
                      /\ result = "false" => Goal(req) \notin Meaning(req, always, ever).must
    BY DEF AnswerBounded
  <2> DEFINE b == <<req, always, ever>>
  <2>1. b \in Bounds /\ Around(b) /\ b[1] = req /\ b[2] = always /\ b[3] = ever
    BY EndsWithin
  <2> HIDE DEF b
  <2>2. Tied(b, stack, result)
    BY <2>1 DEF EvaluatorInv, Sound
  <2>3. stack = <<>> /\ ~ (1 <= Len(stack))
    BY DEF Done
  <2>4. /\ result = "true" => Goal(req) \in May(b)
        /\ result = "false" => Goal(req) \notin Must(b)
    BY <2>1, <2>2, <2>3 DEF Tied, Suits
  <2> QED BY <2>1, <2>4 DEF May, Must
<1> QED BY <1>1, EvaluatorInvariant, PTL

\* The depth error means that there were calls MaxDepth levels deep, whatever the
\* schema: operands of a rule are no level (EvaluateRule in evaluator.go).
THEOREM RealDepthErrors == Spec => []DepthErrorIsReal
<1>1. EvaluatorInv => DepthErrorIsReal
  <2> SUFFICES ASSUME EvaluatorInv, result = "depth"
               PROVE  Level(req, ever \cup req.context)[MaxDepth] # {}
    BY DEF DepthErrorIsReal
  <2> DEFINE b == <<req, always, ever>>
  <2>1. b \in Bounds /\ Around(b) /\ b[1] = req /\ Hi(b) = ever \cup req.context
    BY EndsWithin DEF Hi
  <2> HIDE DEF b
  <2>2. Reached(b, stack, result)
    BY <2>1 DEF EvaluatorInv, Deep
  <2> QED BY <2>1, <2>2 DEF Reached
<1> QED BY <1>1, EvaluatorInvariant, PTL
=============================================================================
