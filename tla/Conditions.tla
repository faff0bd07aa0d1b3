------------------------------- MODULE Conditions -------------------------------
(***************************************************************************)
(* The condition language of workflows (launcher-domain/src/expr.rs): the    *)
(* recursive descent parser and the evaluator. Pure functions: a behaviour    *)
(* picks a sequence of tokens and computes its tree and its value.            *)
(*                                                                          *)
(* Abstraction: the tokens are given; one comparison (<) and one reference    *)
(* (var.x) stand for their kinds. The tree of a parse error is Error.         *)
(***************************************************************************)
EXTENDS Integers, Sequences, SequencesExt, Functions, FiniteSets

CONSTANTS Tokens,     \* a subset of the tokens below
          MaxTokens,  \* length of the input
          MAX_DEPTH,  \* 32 in the code
          Error, Unset

VARIABLES toks, x, tree, value
vars == <<toks, x, tree, value>>

Literals == {"true", "null", "1"}
Leaf(t) == [op |-> "leaf", of |-> t]
Node(op, a, b) == [op |-> op, left |-> a, right |-> b]

-----------------------------------------------------------------------------
(* The parser. A result is [at: next position, tree], and the depth counts  *)
(* parentheses and negations.                                                *)

At(i) == IF i <= Len(toks) THEN toks[i] ELSE "end"
Result(i, t) == [at |-> i, tree |-> t]
Failed(r) == r.tree = Error

RECURSIVE expr(_, _), And_rest(_, _), Or_rest(_, _), not_expr(_, _), primary(_, _)

primary(i, d) ==
    CASE At(i) = "(" ->
            LET inner == expr(i + 1, d) IN
            IF ~Failed(inner) /\ At(inner.at) = ")" THEN Result(inner.at + 1, inner.tree)
                                                   ELSE Result(i, Error)
      [] At(i) \in Literals \cup {"x"} -> Result(i + 1, Leaf(At(i)))
      [] OTHER -> Result(i, Error)

comparison(i, d) ==
    LET left == primary(i, d) IN
    IF Failed(left) THEN left
    ELSE CASE At(left.at) = "exists" -> Result(left.at + 1, Node("exists", left.tree, left.tree))
           [] At(left.at) = "<" ->
                LET right == primary(left.at + 1, d) IN
                IF Failed(right) THEN right ELSE Result(right.at, Node("<", left.tree, right.tree))
           [] OTHER -> left

not_expr(i, d) ==
    IF d + 1 > MAX_DEPTH THEN Result(i, Error)
    ELSE IF At(i) = "not"
           THEN LET inner == not_expr(i + 1, d + 1) IN
                IF Failed(inner) THEN inner ELSE Result(inner.at, Node("not", inner.tree, inner.tree))
           ELSE comparison(i, d + 1)

\* Bug: what follows "and" is read up to the next "and", so "or" binds tighter.
And_rest_loose(left, d) ==
    IF Failed(left) \/ At(left.at) # "and" THEN left
    ELSE LET right == Or_rest(not_expr(left.at + 1, d), d) IN
         IF Failed(right) THEN right
         ELSE And_rest(Result(right.at, Node("and", left.tree, right.tree)), d)

\* The operands after the first one, in a loop that counts no depth.
And_rest(left, d) ==
    IF Failed(left) \/ At(left.at) # "and" THEN left
    ELSE LET right == not_expr(left.at + 1, d) IN
         IF Failed(right) THEN right
         ELSE And_rest(Result(right.at, Node("and", left.tree, right.tree)), d)
and_expr(i, d) == And_rest(not_expr(i, d), d)

Or_rest(left, d) ==
    IF Failed(left) \/ At(left.at) # "or" THEN left
    ELSE LET right == and_expr(left.at + 1, d) IN
         IF Failed(right) THEN right
         ELSE Or_rest(Result(right.at, Node("or", left.tree, right.tree)), d)
or_expr(i, d) == Or_rest(and_expr(i, d), d)

expr(i, d) == IF d + 1 > MAX_DEPTH THEN Result(i, Error) ELSE or_expr(i, d + 1)

\* Bug: what follows the expression is ignored.
Parse_prefix == expr(1, 0).tree
parse_expr ==
    LET e == expr(1, 0) IN IF e.at = Len(toks) + 1 THEN e.tree ELSE Error

-----------------------------------------------------------------------------
(* The evaluator: both operands always, and no coercion. A value is its type *)
(* and a number for what it is.                                              *)

Bool(b) == <<"bool", IF b THEN 1 ELSE 0>>
Null == <<"null", 0>>
TypeMismatch == <<"error", 0>>
Is(v, type) == v[1] = type

ValueOf(t) ==
    CASE t = "true" -> Bool(TRUE) [] t = "null" -> Null [] t = "1" -> <<"number", 1>>
      [] OTHER -> IF x = Unset THEN Null ELSE x

ordered_lt(a, b) ==
    IF Is(a, "number") /\ Is(b, "number") THEN Bool(a[2] < b[2]) ELSE TypeMismatch
logical(op, a, b) ==
    IF ~(Is(a, "bool") /\ Is(b, "bool")) THEN TypeMismatch
    ELSE CASE op = "and" -> Bool(a[2] = 1 /\ b[2] = 1)
           [] op = "or"  -> Bool(a[2] = 1 \/ b[2] = 1)
           [] op = "not" -> Bool(a[2] = 0)

RECURSIVE evaluate(_)
evaluate(t) ==
    CASE t.op = "leaf" -> ValueOf(t.of)
      [] t.op = "exists" -> Bool(t.left = Leaf("x") /\ x # Unset)
      [] OTHER ->
           LET a == evaluate(t.left)  b == evaluate(t.right) IN
           IF TypeMismatch \in {a, b} THEN TypeMismatch
           ELSE IF t.op = "<" THEN ordered_lt(a, b) ELSE logical(t.op, a, b)

-----------------------------------------------------------------------------
Init ==
    /\ toks \in UNION {[1 .. n -> Tokens] : n \in 0 .. MaxTokens}
    /\ x \in {Unset, Bool(TRUE), <<"number", 0>>} /\ (x # Unset => "x" \in Range(toks))
    /\ tree = Unset /\ value = Unset

Parse ==
    /\ tree = Unset /\ tree' = parse_expr /\ UNCHANGED <<toks, x, value>>
Evaluate ==
    /\ tree \notin {Unset, Error} /\ value = Unset /\ value' = evaluate(tree)
    /\ UNCHANGED <<toks, x, tree>>

Next == Parse \/ Evaluate
Spec == Init /\ [][Next]_vars

TypeOK == value # Unset => value[1] \in {"bool", "null", "number", "error"}

-----------------------------------------------------------------------------
(* The grammar: the trees that a sequence of tokens may stand for.           *)

Cut(s, i, j) == SubSeq(s, i, j)
Binary(s, op, L(_), R(_)) ==
    UNION {{Node(op, a, b) : a \in L(Cut(s, 1, k - 1)), b \in R(Cut(s, k + 1, Len(s)))} :
           k \in {k \in DOMAIN s : s[k] = op}}

RECURSIVE Disjunction(_), Conjunction(_), Negation(_)
Primary(s) ==
    IF Len(s) = 1 /\ s[1] \in Literals \cup {"x"} THEN {Leaf(s[1])}
    ELSE IF Len(s) > 2 /\ s[1] = "(" /\ Last(s) = ")" THEN Disjunction(Cut(s, 2, Len(s) - 1)) ELSE {}
Comparison(s) ==
    Primary(s) \cup Binary(s, "<", Primary, Primary)
    \cup (IF Len(s) > 1 /\ Last(s) = "exists" THEN {Node("exists", p, p) : p \in Primary(Front(s))} ELSE {})
Negation(s) ==
    Comparison(s) \cup (IF Len(s) > 1 /\ s[1] = "not" THEN {Node("not", p, p) : p \in Negation(Tail(s))} ELSE {})
Conjunction(s) == Negation(s) \cup Binary(s, "and", Conjunction, Negation)
Disjunction(s) == Conjunction(s) \cup Binary(s, "or", Disjunction, Conjunction)

Count(t) == Cardinality({i \in DOMAIN toks : toks[i] = t})

\* parse_expr: what it accepts has exactly one reading in the grammar, "or" under "and"
\* under "not" under the comparisons, and that is the tree; it rejects only what has none,
\* or what is nested beyond the limit.
ParsesAsGrammar ==
    tree # Unset =>
        IF tree = Error THEN Disjunction(toks) = {} \/ 2 + 2 * Count("(") + Count("not") > MAX_DEPTH
        ELSE Disjunction(toks) = {tree}

RECURSIVE Depth(_)
Depth(t) == IF t.op = "leaf" THEN 1
            ELSE 1 + (IF Depth(t.left) > Depth(t.right) THEN Depth(t.left) ELSE Depth(t.right))

-----------------------------------------------------------------------------
\* What the source says of itself and does not keep: no run checks it, and the README lists it.

\* expr.rs:67, "Depth is bounded by the parser".
DepthBounded == tree \notin {Unset, Error} => Depth(tree) <= MAX_DEPTH
=============================================================================
