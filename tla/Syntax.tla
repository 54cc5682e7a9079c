--------------------------------- MODULE Syntax ---------------------------------
(***************************************************************************)
(* Minuet sources as ASTs, and what they mean: an evaluator that knows     *)
(* nothing of registers, blocks or jumps.  It covers functions of ints and *)
(* booleans; a program reads one number.                                   *)
(***************************************************************************)
EXTENDS FastValue, Sequences, TLC

int(n) == [node |-> "literal", type |-> "int", text |-> ToString(n), value |-> Int32(n)]
bool(b) == [node |-> "literal", type |-> "bool", text |-> IF b THEN "true" ELSE "false",
            value |-> Bool(b)]
name(x) == [node |-> "literal", type |-> "identifier", text |-> x, value |-> Dud]
string(s) == [node |-> "literal", type |-> "string", text |-> s, value |-> Dud]
double(text, z) == [node |-> "literal", type |-> "double", text |-> text, value |-> Flt64(z)]
op2(a, op, b) == [node |-> "binary", op |-> op, left |-> a, right |-> b]
minus(a) == [node |-> "unary", inner |-> a]
list(items) == [node |-> "sequence", items |-> items, is_tuple |-> FALSE]
tuple(items) == [node |-> "sequence", items |-> items, is_tuple |-> TRUE]
lambda(params, body) == [node |-> "lambda", params |-> params, body |-> body]
invoke(f, args) == [node |-> "call", callee |-> name(f), args |-> args]

do(e) == [node |-> "expr", expr |-> e]
assign(e, v) == do([node |-> "assign", left |-> e, value |-> v])
set(x, e) == assign(name(x), e)
def(x, e) == [node |-> "def", name |-> x, init_expr |-> e]
return(e) == [node |-> "return", result |-> e]
break == [node |-> "break"]
while(e, body) == [node |-> "while", check |-> e, body |-> body]
if(e, body) ==
  [node |-> "if", cond_expr |-> e, if_body |-> body, has_else |-> FALSE, else_body |-> << >>]
if_else(e, body, other) ==
  [node |-> "if", cond_expr |-> e, if_body |-> body, has_else |-> TRUE, else_body |-> other]

fun(f, params, body) == [node |-> "function", name |-> f, params |-> params, body |-> body]
native_stub(f, params) == [node |-> "native_stub", name |-> f, params |-> params]
import(path) == [node |-> "import", target |-> path]

--------------------------------------------------------------------------------
\* The meaning of expressions: a value, given the declarations, the locals, and the number
\* that the program reads.

TheOne(S) == CHOOSE x \in S : TRUE
Function(decls, f) ==
  decls[CHOOSE k \in DOMAIN decls : decls[k].node = "function" /\ decls[k].name = f]

RECURSIVE Eval(_, _, _, _), Exec(_, _, _, _)

Called(decls, f, values, input) ==
  LET params == Function(decls, f).params
      locals == [x \in {params[k] : k \in DOMAIN params} |->
                   values[CHOOSE k \in DOMAIN params : params[k] = x]]
  IN  Exec(decls, locals, Function(decls, f).body, input).value

Operate(op, a, b) ==
  IF op \in {"equ", "neq", "lt", "gt", "lte", "gte"} THEN Bool(TheOne(Compare(op, a, b)))
  ELSE TheOne(Arith(op, a, b))

Eval(decls, locals, e, input) ==
  LET value(x) == Eval(decls, locals, x, input)
  IN  CASE e.node = "literal" /\ e.type = "identifier" -> locals[e.text]
        [] e.node = "literal" /\ e.type # "identifier" -> e.value
        [] e.node = "binary" -> Operate(e.op, value(e.left), value(e.right))
        [] e.node = "call" /\ e.callee.text = "prompt_int" -> Int32(input)
        [] e.node = "call" /\ e.callee.text = "print" -> Dud
        [] OTHER -> Called(decls, e.callee.text, [k \in DOMAIN e.args |-> value(e.args[k])],
                           input)

--------------------------------------------------------------------------------
\* The meaning of statements: the locals after them, and whether control goes on to the next
\* one, leaves the loop, or leaves the function with a value

Exec(decls, locals, stmts, input) ==
  LET s == Head(stmts)
      value(e) == Eval(decls, locals, e, input)
      \* the statement as a block that stands for it, followed by the rest
      then(body) ==
        LET done == Exec(decls, locals, body, input)
        IN  IF done.flow = "next" THEN Exec(decls, done.locals, Tail(stmts), input) ELSE done
      again ==
        LET done == Exec(decls, locals, s.body, input)
        IN  CASE done.flow = "next" -> Exec(decls, done.locals, stmts, input)
              [] done.flow = "break" -> Exec(decls, done.locals, Tail(stmts), input)
              [] done.flow = "return" -> done
      bind(x, e) == Exec(decls, (x :> value(e)) @@ locals, Tail(stmts), input)
  IN  IF stmts = << >> THEN [flow |-> "next", locals |-> locals, value |-> Dud]
      ELSE CASE s.node = "return" ->
                  [flow |-> "return", locals |-> locals, value |-> value(s.result)]
             [] s.node = "break" -> [flow |-> "break", locals |-> locals, value |-> Dud]
             [] s.node = "def" -> bind(s.name, s.init_expr)
             [] s.node = "expr" /\ s.expr.node = "assign" ->
                  bind(s.expr.left.text, s.expr.value)
             [] s.node = "expr" /\ s.expr.node # "assign" -> then(<< >>)
             [] s.node = "if" ->
                  then(IF Truthy(value(s.cond_expr)) THEN s.if_body ELSE s.else_body)
             [] s.node = "while" ->
                  IF Truthy(value(s.check)) THEN again
                  ELSE Exec(decls, locals, Tail(stmts), input)

================================================================================
