----------------------------- MODULE LeastMeaning -----------------------------
(***************************************************************************)
(* What Evaluator takes from its constants Question, Meaning and CallsOf:    *)
(* the questions a request leads to, the answers that the equations of      *)
(* Evaluator force, and the calls of a rule with its operands.              *)
(***************************************************************************)
EXTENDS Evaluator

RECURSIVE Closed(_, _)
Closed(Q, T) ==
    LET next == Q \cup UNION {Operands(x) \cup OwnCalls(x, T) : x \in Q}
    IN  IF next = Q THEN Q ELSE Closed(next, T)

LedTo ==
    [q \in {s.req : s \in Scenario} |-> Closed({Goal(q)}, Tuple \cup q.context)]

Questions(q) == LedTo[q]

\* Starting from nothing known: fewer and fewer questions must be answered with no
\* and with yes.
RECURSIVE Decided(_, _, _, _)
Decided(q, lo, hi, known) ==
    LET may == Knowledge(q, hi, known.may)
        must == Knowledge(q, lo, known.must)
        next == [may |-> {x \in Question(q) : Holds(q, x, may, must)},
                 must |-> {x \in Question(q) : Holds(q, x, must, may)}]
    IN  IF next = known THEN known ELSE Decided(q, lo, hi, next)

Settled(q, lo, hi) == Decided(q, lo, hi, [may |-> {}, must |-> Question(q)])

RECURSIVE CallsWithin(_, _)
CallsWithin(x, T) == OwnCalls(x, T) \cup UNION {CallsWithin(y, T) : y \in Operands(x)}
===============================================================================
