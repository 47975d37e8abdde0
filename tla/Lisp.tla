-------------------------------- MODULE Lisp --------------------------------
(***************************************************************************)
(* The Lisp interpreter, tools/lisp.c: reader, environment, evaluator and  *)
(* the loop of _start that runs a script.                                  *)
(*                                                                         *)
(* The script is a sequence of tokens: parentheses, numerals and names.    *)
(* White space and the cut of an atom at 31 characters are left out.  A    *)
(* node never changes once it is made, so that it is a value; the pool     *)
(* counts the nodes.  The pool is zeroed memory that is never reused: a    *)
(* field that alloc_node does not set is 0, NULL or the empty string.      *)
(***************************************************************************)
EXTENDS LispMeaning

CONSTANTS
  Scripts,         \* the files to run
  Numerals,        \* token |-> [neg, digits]; every other atom is a name
  PoolNodes,       \* nodes that fit the pool after the text of the script
  EnvSize,         \* 128: length of global_env
  ArgsSize         \* 16: length of args_eval

ASSUME LispAssumption ==
  /\ {IntBits, PoolNodes, EnvSize, ArgsSize, StackDepth} \subseteq Nat \ {0}
  /\ \A k \in DOMAIN Numerals : Numerals[k].digits # <<>>

VARIABLES
  pc,              \* "start", "read", "eval", or how the program ended
  lisp_src,        \* the tokens not yet read
  ast,             \* what read_expr returned
  global_env,      \* sequence of [sym, val]
  used,            \* nodes taken from the pool
  out,             \* what was printed
  last_res,
  text,            \* ghost: lisp_src before the last expression was read
  want             \* ghost: what the script means so far

vars == <<pc, lisp_src, ast, global_env, used, out, last_res, text, want>>

Open == "("
Close == ")"

-----------------------------------------------------------------------------
(* Numbers. *)

Wrap(n) == ((n - MinInt) % 2^IntBits) + MinInt

\* C's division rounds towards zero.
Quotient(a, b) ==
  LET abs(n) == IF n < 0 THEN -n ELSE n
      q == abs(a) \div abs(b)
  IN IF (a < 0) = (b < 0) THEN q ELSE -q

\* The value of a numeral, as read_atom computes it.
ParseInt(t) ==
  LET n == FoldLeft(LAMBDA v, d : Wrap(v * 10 + d), 0, t.digits)
  IN Wrap(IF t.neg THEN -n ELSE n)

\* buf, from its end: nothing for a number that is not positive.
Digits(n) == LET d[k \in Nat] == IF k = 0 THEN <<>> ELSE d[k \div 10] \o <<k % 10>> IN
             IF n > 0 THEN d[n] ELSE <<>>

print_int(n) ==
  LET m == IF n < 0 THEN Wrap(-n) ELSE n
  IN [neg |-> n < 0, digits |-> IF m = 0 THEN <<0>> ELSE Digits(m)]

-----------------------------------------------------------------------------
(* The reader: the node, the tokens left and the number of nodes made. *)

Result(n, s, made) == [node |-> n, src |-> s, made |-> made]

read_atom(s) ==
  Result(IF Head(s) \in DOMAIN Numerals THEN Num(ParseInt(Numerals[Head(s)])) ELSE Sym(Head(s)),
         Tail(s), 1)

\* Mutant: the closing parenthesis is not consumed.
EndList_Stays(s) == Result(Nil, s, 1)

EndList(s) == Result(Nil, Tail(s), 1)

RECURSIVE read_expr(_), read_list(_)

\* A closing parenthesis where an expression should begin is not consumed.
read_expr(s) ==
  CASE s = <<>> -> Result(Null, s, 0)
    [] s # <<>> /\ Head(s) = Open -> read_list(Tail(s))
    [] s # <<>> /\ Head(s) = Close -> Result(Err("Unexpected )"), s, 1)
    [] OTHER -> read_atom(s)

\* An error in the first element is the result; one in the rest becomes the
\* rest of the list.
read_list(s) ==
  IF s # <<>> /\ Head(s) = Close THEN EndList(s)
  ELSE LET first == read_expr(s) IN
       CASE first.node = Null -> Result(Err("EOF"), first.src, first.made + 1)
         [] first.node.type = "err" -> first
         [] OTHER -> LET rest == read_list(first.src) IN
                     Result(List(first.node, rest.node), rest.src, first.made + rest.made + 1)

-----------------------------------------------------------------------------
(* The evaluator.  A machine is [val, env, used, out, status]: the value   *)
(* last returned and the static state of the program; once it has stopped, *)
(* nothing changes any more.                                               *)

Running(m) == m.status = "running"
Stop(m, why) == [m EXCEPT !.status = why]
Return(m, v) == IF Running(m) THEN [m EXCEPT !.val = v] ELSE m

alloc_node(m, n) ==
  IF ~Running(m) THEN m
  ELSE IF m.used >= PoolNodes THEN Stop(m, "pool") ELSE [m EXCEPT !.val = n, !.used = @ + 1]

Binds(table, s) == \E k \in DOMAIN table : table[k].sym = s
SlotOf(table, s) == SelectInSeq(table, LAMBDA v : v.sym = s)

\* A new name is dropped when the table is full.
env_set(m, s, v) ==
  IF Running(m) /\ Binds(m.env, s) THEN [m EXCEPT !.env[SlotOf(m.env, s)].val = v]
  ELSE IF Running(m) /\ Len(m.env) < EnvSize
    THEN [m EXCEPT !.env = Append(@, [sym |-> s, val |-> v])] ELSE m

\* Mutant: globals hide the parameters.
Scope_GlobalFirst(m, local) == m.env \o local

\* The parameters of the running function, then the globals.
Scope(m, local) == local \o m.env

env_get(m, s, local) ==
  LET t == Scope(m, local) IN
  IF Binds(t, s) THEN Return(m, t[SlotOf(t, s)].val)
  ELSE alloc_node(m, IF s \in Builtins THEN Sym(s) ELSE Err("Variavel/Funcao nao definida"))

Shown(v) == [val |-> v, numeral |-> IF v.type = "num" THEN print_int(v.num) ELSE <<>>]
Show(m, vals) ==
  IF Running(m) THEN [m EXCEPT !.out = @ \o [k \in DOMAIN Line(vals) |-> Shown(Line(vals)[k])]] ELSE m

\* The builtins.  What is not a number counts as 0.  "-" without arguments
\* reads a slot of args_eval that was never set: not modelled further.
\* The quotient of the least int and -1 traps.
ApplyBuiltin(m, name, vals) ==
  LET n == [k \in DOMAIN vals |-> NumOf(vals[k])]
      fold(op(_, _), base, s) == alloc_node(m, Num(FoldLeft(LAMBDA a, b : Wrap(op(a, b)), base, s)))
  IN CASE name = "+" -> fold(LAMBDA a, b : a + b, 0, n)
       [] name = "*" -> fold(LAMBDA a, b : a * b, 1, n)
       [] name = "-" -> IF n = <<>> THEN Stop(m, "undefined")
                        ELSE IF Len(n) = 1 THEN alloc_node(m, Num(Wrap(-n[1])))
                        ELSE fold(LAMBDA a, b : a - b, n[1], Tail(n))
       [] name = "/" -> IF Len(n) < 2 \/ n[2] = 0 THEN alloc_node(m, Err("Divisao por zero"))
                        ELSE IF n[1] = MinInt /\ n[2] = -1 THEN Stop(m, "fault")
                        ELSE alloc_node(m, Num(Quotient(n[1], n[2])))
       [] name = "print" -> alloc_node(Show(m, vals), Nil)
       [] OTHER -> alloc_node(m, Err("Nao e uma funcao valida"))

\* new_env: parameters without an argument are not bound, arguments without
\* a parameter are ignored.
Bind(params, vals) ==
  LET p == Elements(params)
      n == IF Len(p) < Len(vals) THEN Len(p) ELSE Len(vals)
  IN [k \in 1..n |-> [sym |-> SymOf(p[k]), val |-> vals[k]]]

RECURSIVE eval(_, _, _, _), EvalArgs(_, _, _, _, _)

\* The loop over the arguments; an argument that is an error is an argument
\* like any other.
EvalArgs(rest, local, depth, m, vals) ==
  IF ~IsList(rest) \/ ~Running(m) THEN [mach |-> m, vals |-> vals]
  ELSE LET a == eval(rest.first, local, depth, m) IN
       IF Len(vals) >= ArgsSize THEN [mach |-> IF Running(a) THEN Stop(a, "overrun") ELSE a, vals |-> vals]
       ELSE EvalArgs(rest.rest, local, depth, a, Append(vals, a.val))

\* Name and parameters are needed, or a NULL pointer is followed.
Defun(n, m) ==
  IF ~IsList(n.rest) \/ ~IsList(n.rest.rest) THEN Stop(m, "fault")
  ELSE LET f == Func(n.rest.rest.first, FirstOf(n.rest.rest.rest))
       IN alloc_node(env_set(alloc_node(m, f), SymOf(n.rest.first), f), Sym("ok"))

Setq(n, local, depth, m) ==
  IF ~IsList(n.rest) THEN Stop(m, "fault")
  ELSE LET v == eval(FirstOf(n.rest.rest), local, depth, m)
       IN env_set(v, SymOf(n.rest.first), v.val)

Call(n, local, depth, m) ==
  LET f == eval(n.first, local, depth, m) IN
  IF ~Running(f) \/ f.val.type = "err" THEN f
  ELSE LET a == EvalArgs(n.rest, local, depth, f, <<>>) IN
       CASE ~Running(a.mach) -> a.mach
         [] Running(a.mach) /\ f.val.type = "sym" -> ApplyBuiltin(a.mach, f.val.sym, a.vals)
         [] Running(a.mach) /\ f.val.type = "func" ->
              eval(f.val.body, Bind(f.val.params, a.vals), depth, a.mach)
         [] OTHER -> alloc_node(a.mach, Err("Nao e uma funcao valida"))

\* The frame of eval is used from the first call on that it makes.
EvalList(n, local, depth, m) ==
  IF depth >= StackDepth THEN Stop(m, "stack")
  ELSE CASE Form(n) = "defun" -> Defun(n, m)
         [] Form(n) = "setq" -> Setq(n, local, depth + 1, m)
         [] Form(n) = "call" -> Call(n, local, depth + 1, m)

\* local_env and local_count are the sequence local; depth counts the frames.
eval(n, local, depth, m) ==
  IF ~Running(m) THEN m
  ELSE CASE n.type = "null" -> alloc_node(m, Nil)
         [] n.type \in {"num", "nil"} -> Return(m, n)
         [] n.type = "sym" -> env_get(m, n.sym, local)
         [] n.type = "list" -> EvalList(n, local, depth, m)
         [] OTHER -> alloc_node(m, Err("Erro de avaliacao"))

-----------------------------------------------------------------------------
(* _start *)

Ended == {"done", "no_file", "parse_error", "eval_error", "pool", "stack", "fault",
          "overrun", "undefined"}

Init ==
  /\ pc = "start"
  /\ lisp_src \in Scripts
  /\ ast = Null /\ last_res = Null
  /\ global_env = <<>> /\ used = 0 /\ out = <<>>
  /\ text = <<>>
  /\ want = Meaning(Null, <<>>, <<>>)

\* No file, or an empty one.  A script that does not fit the pool ends the
\* program too; PoolNodes is what it leaves.
Start ==
  /\ pc = "start"
  /\ pc' \in {"no_file", "read"}
  /\ UNCHANGED <<lisp_src, ast, global_env, used, out, last_res, text, want>>

\* Mutant: an error of the reader does not end the program.
AfterRead_GoesOn(r) ==
  IF used + r.made > PoolNodes THEN "pool" ELSE IF r.node.type = "err" THEN "read" ELSE "eval"

AfterRead(r) ==
  IF used + r.made > PoolNodes THEN "pool" ELSE IF r.node.type = "err" THEN "parse_error" ELSE "eval"

ReadExpr ==
  /\ pc = "read" /\ lisp_src # <<>>
  /\ \E r \in {read_expr(lisp_src)} :
     /\ ast' = r.node
     /\ lisp_src' = r.src
     /\ used' = used + r.made
     /\ pc' = AfterRead(r)
  /\ text' = lisp_src
  /\ UNCHANGED <<global_env, out, last_res, want>>

EvalExpr ==
  /\ pc = "eval"
  /\ \E m \in {eval(ast, <<>>, 0, [val |-> Null, env |-> global_env, used |-> used,
                                  out |-> out, status |-> "running"])} :
        /\ global_env' = m.env /\ used' = m.used /\ out' = m.out
        /\ last_res' = IF Running(m) THEN m.val ELSE last_res
        /\ pc' = IF ~Running(m) THEN m.status ELSE IF m.val.type = "err" THEN "eval_error" ELSE "read"
  /\ want' = IF want.ok /\ Proper(ast) THEN Mean(ast, 0, want.g, want.out) ELSE Stuck
  /\ UNCHANGED <<lisp_src, ast, text>>

\* The last result is shown, if there was an expression; `out` has the numbers
\* and names, not "nil" and "#<function>".
Finish ==
  /\ pc = "read" /\ lisp_src = <<>>
  /\ out' = IF last_res.type \in {"num", "sym"} THEN Append(out, Shown(last_res)) ELSE out
  /\ pc' = "done"
  /\ UNCHANGED <<lisp_src, ast, global_env, used, last_res, text, want>>

Next == Start \/ ReadExpr \/ EvalExpr \/ Finish

Spec == Init /\ [][Next]_vars

-----------------------------------------------------------------------------
(* Properties. *)

\* Types and limits: nodes come from the pool, names from the table, in which
\* each has one slot, however often it is set, in functions and out of them.
TypeOK ==
  /\ pc \in {"start", "read", "eval"} \cup Ended
  /\ pc # "pool" => used <= PoolNodes
  /\ Len(global_env) <= EnvSize
  /\ \A i, j \in DOMAIN global_env : global_env[i].sym = global_env[j].sym => i = j
  /\ \A k \in DOMAIN out : out[k].val.type \in {"num", "sym"}

\* The tokens of an expression.
RECURSIVE Unparse(_)
Unparse(n) ==
  CASE n.type = "num" -> {<<k>> : k \in {k \in DOMAIN Numerals : ParseInt(Numerals[k]) = n.num}}
    [] n.type = "sym" -> {<<n.sym>>}
    [] n.type = "nil" -> {<<Open, Close>>}
    [] n.type = "list" ->
         {<<Open>> \o h \o Tail(t) : h \in Unparse(n.first), t \in Unparse(n.rest)}

\* The reader is the inverse of writing an expression down: what read_expr
\* consumed are the tokens of what it returned, with nesting, empty lists and
\* whatever follows; unless the text ended inside a list, which read_list does
\* not report once it has an element.  A number that was printed reads back as
\* itself; except for the least int, of which print_int shows only the sign.
ReadsWhatIsWritten ==
  /\ pc = "eval" /\ Proper(ast) => \E u \in Unparse(ast) : text = u \o lisp_src
  /\ \A k \in DOMAIN out :
       out[k].val.type = "num" =>
         LET n == out[k].val.num IN
         IF n = MinInt THEN out[k].numeral.digits = <<>>
         ELSE out[k].numeral.digits # <<>> /\ ParseInt(out[k].numeral) = n

\* A script that has a meaning is run with that meaning: parameters hide
\* globals, arguments are evaluated once, from the left, before the call,
\* functions see the globals of the moment of the call, setq in a function
\* sets the global.  Only a limit of the program can stop it: the pool, the
\* table of names (from the first name on that was dropped) or the number of
\* arguments; never an error, and never a wild pointer.
RunsAsItMeans ==
  /\ TypeOK
  /\ want.ok /\ Cardinality(DOMAIN want.g) <= EnvSize =>
       \/ pc \in {"pool", "overrun", "parse_error", "no_file"}
       \/ /\ pc \in {"start", "read", "eval", "done"}
          /\ last_res = want.val
          /\ \A s \in DOMAIN want.g :
               Binds(global_env, s) /\ global_env[SlotOf(global_env, s)].val = want.g[s]
          /\ pc # "done" => [k \in DOMAIN out |-> out[k].val] = want.out

\* The loop of _start makes progress: each round consumes text or ends the
\* program, whatever the reader made of the text, so that every script comes to an
\* end; a name never loses its slot on the way.
EveryRoundConsumes ==
  [][/\ pc = "read" => pc' \in Ended \/ Len(lisp_src') < Len(lisp_src)
     /\ \A k \in DOMAIN global_env : k \in DOMAIN global_env' /\ global_env'[k].sym = global_env[k].sym]_vars
=============================================================================
