---------------------------- MODULE LispMeaning ----------------------------
(***************************************************************************)
(* The expressions of tools/lisp.c and what they mean: an evaluator that   *)
(* is independent of the one in the program.  It works by substitution,    *)
(* with mathematical integers, unbounded tables and lists, and gives no    *)
(* meaning (ok is FALSE) to anything that is not right.                    *)
(***************************************************************************)
EXTENDS Integers, Sequences, FiniteSets, SequencesExt, TLC

CONSTANTS
  IntBits,         \* 32: width of an int
  StackDepth       \* nested lists for which the frames of eval fit the stack

\* The least int.
MinInt == -(2^(IntBits - 1))

Null == [type |-> "null"]                   \* the NULL pointer
Nil == [type |-> "nil"]
Num(n) == [type |-> "num", num |-> n]
Sym(s) == [type |-> "sym", sym |-> s]
Err(m) == [type |-> "err", sym |-> m]
List(f, r) == [type |-> "list", first |-> f, rest |-> r]
Func(p, b) == [type |-> "func", params |-> p, body |-> b]

IsList(n) == n.type = "list"
NumOf(n) == IF n.type = "num" THEN n.num ELSE 0
SymOf(n) == IF n.type \in {"sym", "err"} THEN n.sym ELSE ""
FirstOf(n) == IF IsList(n) THEN n.first ELSE Null

RECURSIVE Elements(_)
Elements(n) == IF IsList(n) THEN <<n.first>> \o Elements(n.rest) ELSE <<>>

Form(n) == IF n.first.type = "sym" /\ n.first.sym \in {"defun", "setq"} THEN n.first.sym ELSE "call"

Builtins == {"+", "-", "*", "/", "print"}

\* Line of the print function: numbers and symbols, nothing for other values.
Line(vals) == SelectSeq(vals, LAMBDA v : v.type \in {"num", "sym"})
-----------------------------------------------------------------------------
(* Meaning. *)

Stuck == [ok |-> FALSE]
Meaning(v, g, o) == [ok |-> TRUE, val |-> v, g |-> g, out |-> o]

\* A list that ends in nil, and so do its sublists.
RECURSIVE Proper(_)
Proper(n) == IsList(n) => /\ n.rest.type \in {"list", "nil"}
                          /\ Proper(n.first) /\ Proper(n.rest)

FromSeq(s) == FoldRight(LAMBDA f, r : List(f, r), s, Nil)

\* Values for names, except in the place of a name that is set or defined.
RECURSIVE Subst(_, _)
Subst(n, bind) ==
  CASE n.type = "sym" -> IF n.sym \in DOMAIN bind THEN bind[n.sym] ELSE n
    [] n.type = "list" ->
         LET e == Elements(n)
             keep == CASE Form(n) = "defun" -> DOMAIN e
                       [] Form(n) = "setq" -> {1, 2}
                       [] OTHER -> {}
         IN FromSeq([k \in DOMAIN e |-> IF k \in keep THEN e[k] ELSE Subst(e[k], bind)])
    [] OTHER -> n

Total(s) == FoldLeft(LAMBDA a, b : a + b, 0, s)
Multiplied(s) == FoldLeft(LAMBDA a, b : a * b, 1, s)

\* The result of a builtin; "print" shows the values.
Apply(name, vals, g, o) ==
  LET n == [k \in DOMAIN vals |-> NumOf(vals[k])]
      nums == \A k \in DOMAIN vals : vals[k].type = "num"
      number(right, v) == IF right /\ nums /\ v \in MinInt..(-MinInt - 1) THEN Meaning(Num(v), g, o) ELSE Stuck
  IN CASE name = "+" -> number(TRUE, Total(n))
       [] name = "*" -> number(TRUE, Multiplied(n))
       [] name = "-" -> IF n = <<>> THEN Stuck
                        ELSE number(TRUE, IF Len(n) = 1 THEN -n[1] ELSE n[1] - Total(Tail(n)))
       [] name = "/" -> IF Len(n) # 2 \/ n[2] = 0 THEN Stuck
                        ELSE LET q == CHOOSE q \in MinInt..(-MinInt) :
                                        LET r == n[1] - q * n[2] IN
                                        /\ r * r < n[2] * n[2]
                                        /\ r * n[1] >= 0
                             IN number(TRUE, q)
       [] name = "print" -> Meaning(Nil, g, o \o Line(vals))
       [] OTHER -> Stuck

RECURSIVE Mean(_, _, _, _), MeanAll(_, _, _, _, _)

\* The values of a sequence of expressions, in order.
MeanAll(s, depth, g, o, vals) ==
  IF s = <<>> THEN Meaning(vals, g, o)
  ELSE LET h == Mean(Head(s), depth, g, o) IN
       IF h.ok THEN MeanAll(Tail(s), depth, h.g, h.out, Append(vals, h.val)) ELSE Stuck

Mean(n, depth, g, o) ==
  LET e == Elements(n) IN
  CASE n.type \in {"num", "nil", "func"} -> Meaning(n, g, o)
    [] n.type = "sym" -> IF n.sym \in DOMAIN g THEN Meaning(g[n.sym], g, o)
                         ELSE IF n.sym \in Builtins THEN Meaning(n, g, o) ELSE Stuck
    [] n.type = "list" /\ depth >= StackDepth -> Stuck
    [] n.type = "list" /\ depth < StackDepth /\ Form(n) = "defun" ->
         IF /\ Len(e) = 4 /\ e[2].type = "sym"
            /\ LET p == Elements(e[3]) IN
               /\ \A k \in DOMAIN p : p[k].type = "sym"
               /\ Cardinality(ToSet(p)) = Len(p)
           THEN Meaning(Sym("ok"), (e[2].sym :> Func(e[3], e[4])) @@ g, o)
           ELSE Stuck
    [] n.type = "list" /\ depth < StackDepth /\ Form(n) = "setq" ->
         IF Len(e) = 3 /\ e[2].type = "sym"
           THEN LET v == Mean(e[3], depth + 1, g, o) IN
                IF v.ok THEN Meaning(v.val, (e[2].sym :> v.val) @@ v.g, v.out) ELSE Stuck
           ELSE Stuck
    [] n.type = "list" /\ depth < StackDepth /\ Form(n) = "call" ->
         LET all == MeanAll(e, depth + 1, g, o, <<>>) IN
         IF ~all.ok THEN Stuck
         ELSE LET f == Head(all.val)  a == Tail(all.val) IN
              CASE f.type = "sym" -> Apply(f.sym, a, all.g, all.out)
                [] f.type = "func" ->
                     LET p == Elements(f.params) IN
                     IF Len(p) # Len(a) THEN Stuck
                     ELSE Mean(Subst(f.body, [s \in {p[k].sym : k \in DOMAIN p} |->
                                                a[CHOOSE k \in DOMAIN p : p[k].sym = s]]),
                               depth + 1, all.g, all.out)
                [] OTHER -> Stuck
    [] OTHER -> Stuck
=============================================================================
