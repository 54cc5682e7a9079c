-------------------------------- MODULE Analyzer --------------------------------
(***************************************************************************)
(* The semantic checks on an AST (class Analyzer).  Expressions only read  *)
(* the scopes, so checking one yields what it found; statements and        *)
(* declarations yield the scopes they leave, too.                          *)
(*                                                                         *)
(* The methods are noexcept and index and convert without asking, so some  *)
(* sources end the process: that is the outcome "ended", beside the        *)
(* "refused" of an empty optional.                                         *)
(***************************************************************************)
EXTENDS FastValue, Sequences, TLC
LOCAL INSTANCE SequencesExt

NoArity == -1    \* an `extra' that holds no int

Item(kind, group, readonly, arity) ==
  [kind |-> kind, group |-> group, readonly |-> readonly, arity |-> arity]

Computed == Item("anything", "temporary", TRUE, NoArity)
PrimitiveItem == Item("primitive", "temporary", TRUE, NoArity)
ParameterItem == Item("anything", "locator", TRUE, NoArity)
AccessedItem == Item("anything", "locator", FALSE, NoArity)
FunctionItem(arity) == Item("callable", "locator", TRUE, arity)
SequenceItem(is_tuple) ==
  Item(IF is_tuple THEN "sequence_fixed" ELSE "sequence_flexible", "temporary", is_tuple, NoArity)
ToLvalue(item) == [item EXCEPT !.group = "locator", !.readonly = FALSE]

Refused == Item("refused", "temporary", TRUE, NoArity)
Ended == Item("ended", "temporary", TRUE, NoArity)
Accepted(item) == item \notin {Refused, Ended}

--------------------------------------------------------------------------------
\* Scopes: maps from names to items, the innermost one last

NewAnalyzer == [scopes |-> << << >> >>, prepassing |-> TRUE]

LookupItem(scopes, name) ==
  LET having == {n \in DOMAIN scopes : name \in DOMAIN scopes[n]}
  IN  IF having = {} THEN Refused
      ELSE scopes[CHOOSE n \in having : \A m \in having : m <= n][name]

Recordable(scopes, name) == name \notin DOMAIN Last(scopes)
RecordItem(scopes, name, item) == [scopes EXCEPT ![Len(scopes)] = (name :> item) @@ @]

EnterScope(scopes) == Append(scopes, << >>)

LeaveScopeNot(scopes) == scopes    \* a slip: the names of a function stay
LeaveScope(scopes) == Front(scopes)

--------------------------------------------------------------------------------
\* Operators by kinds (cm_table)

Supports(kind, op) ==
  CASE kind = "anything" -> TRUE
    [] kind = "primitive" -> op # "access"
    [] kind \in {"sequence_fixed", "sequence_flexible"} -> op = "access"
    [] kind = "callable" -> FALSE

BothSupport(op, left, right) ==
  IF op = "access"
  THEN left \in {"anything", "sequence_fixed", "sequence_flexible"}
       /\ right \in {"anything", "primitive"}
  ELSE "anything" \in {left, right} \/ (Supports(left, op) /\ Supports(right, op))

Assignable(item) == ~item.readonly /\ item.group = "locator"

\* Both operands are checked whatever the first one was.
IfBothAccepted(left, right, result) ==
  CASE Ended \in {left, right} -> Ended
    [] Ended \notin {left, right} /\ Refused \in {left, right} -> Refused
    [] OTHER -> result

--------------------------------------------------------------------------------
\* Expressions: an item

RECURSIVE CheckExpr(_, _)

\* stoi ends the process with an int that is too large.  Any other token, a string too, is
\* looked up as a name.
CheckLiteral(scopes, e) ==
  CASE e.type = "int" /\ e.value.scalar_v \notin Ints -> Ended
    [] e.type \in {"bool", "double"} \/ (e.type = "int" /\ e.value.scalar_v \in Ints) ->
         PrimitiveItem
    [] OTHER -> LookupItem(scopes, e.text)

ItemChecked(sequence, item) == IF Accepted(item) THEN sequence ELSE item
CheckSequence(scopes, e) ==
  FoldLeft(LAMBDA r, item : IF Accepted(r) THEN ItemChecked(r, CheckExpr(scopes, item)) ELSE r,
           SequenceItem(e.is_tuple), e.items)

FewerArguments(callee, args) ==    \* a slip: too few arguments are as good as enough
  IF callee.kind = "callable" /\ Len(args) <= callee.arity THEN Computed ELSE Refused

\* The arguments are not checked.  A value that is no function is reported up to the last
\* argument, which has to exist; and a value that may be one has to know its arity.
CallChecked(callee, args) ==
  CASE ~Accepted(callee) -> callee
    [] Accepted(callee) /\ callee.kind \notin {"anything", "callable"} ->
         IF args = << >> THEN Ended ELSE Refused
    [] callee.kind \in {"anything", "callable"} /\ callee.arity = NoArity -> Ended
    [] OTHER -> IF callee.arity = Len(args) THEN Computed ELSE Refused
CheckCall(scopes, e) == CallChecked(CheckExpr(scopes, e.callee), e.args)

\* The report quotes the source from one before the operand, and sequences say that they
\* begin at 0.
UnaryChecked(inner, e) ==
  CASE ~Accepted(inner) -> inner
    [] Accepted(inner) /\ Supports(inner.kind, "negate") -> Computed
    [] OTHER -> IF e.inner.node = "sequence" THEN Ended ELSE Refused
CheckUnary(scopes, e) == UnaryChecked(CheckExpr(scopes, e.inner), e)

BinaryChecked(op, left, right) ==
  IfBothAccepted(left, right,
    CASE ~BothSupport(op, left.kind, right.kind) -> Refused
      [] BothSupport(op, left.kind, right.kind) /\ op = "access" -> AccessedItem
      [] OTHER -> Computed)
CheckBinary(scopes, e) ==
  BinaryChecked(e.op, CheckExpr(scopes, e.left), CheckExpr(scopes, e.right))

AssignChecked(target, value) ==
  IfBothAccepted(target, value, IF Assignable(target) THEN Computed ELSE Refused)
CheckAssign(scopes, e) == AssignChecked(CheckExpr(scopes, e.left), CheckExpr(scopes, e.value))

\* Functions as expressions are not supported yet.
CheckExpr(scopes, e) ==
  CASE e.node = "literal" -> CheckLiteral(scopes, e)
    [] e.node = "sequence" -> CheckSequence(scopes, e)
    [] e.node = "lambda" -> Refused
    [] e.node = "call" -> CheckCall(scopes, e)
    [] e.node = "unary" -> CheckUnary(scopes, e)
    [] e.node = "binary" -> CheckBinary(scopes, e)
    [] e.node = "assign" -> CheckAssign(scopes, e)

--------------------------------------------------------------------------------
\* Statements: the scopes after them, and the verdict "accepted", "refused" or "ended"

RECURSIVE CheckBlock(_, _)

Verdict(item) == IF Accepted(item) THEN "accepted" ELSE item.kind
AcceptedWith(scopes) == [scopes |-> scopes, verdict |-> "accepted"]
Checked(scopes, item) == [scopes |-> scopes, verdict |-> Verdict(item)]
IfAccepted(r, Then(_)) == IF r.verdict = "accepted" THEN Then(r.scopes) ELSE r

RedeclaredToo(scopes, name, item) ==    \* a slip: the second of two definitions is taken
  AcceptedWith(RecordItem(scopes, name, item))

Declared(scopes, name, item) ==
  IF Recordable(scopes, name) THEN AcceptedWith(RecordItem(scopes, name, item))
  ELSE Checked(scopes, Refused)

LocalDefined(scopes, name, init) ==
  IF Accepted(init) THEN Declared(scopes, name, ToLvalue(init)) ELSE Checked(scopes, init)

\* Bodies share the scope of their function.  A missing else-body is accepted.
CheckIf(scopes, s) ==
  IfAccepted(Checked(scopes, CheckExpr(scopes, s.cond_expr)), LAMBDA checked :
    IfAccepted(CheckBlock(checked, s.if_body), LAMBDA body : CheckBlock(body, s.else_body)))
CheckWhile(scopes, s) ==
  IfAccepted(Checked(scopes, CheckExpr(scopes, s.check)), LAMBDA checked :
    CheckBlock(checked, s.body))

CheckStmt(scopes, s) ==
  CASE s.node = "expr" -> Checked(scopes, CheckExpr(scopes, s.expr))
    [] s.node = "def" -> LocalDefined(scopes, s.name, CheckExpr(scopes, s.init_expr))
    [] s.node = "if" -> CheckIf(scopes, s)
    [] s.node = "return" -> Checked(scopes, CheckExpr(scopes, s.result))
    [] s.node = "while" -> CheckWhile(scopes, s)
    [] s.node = "break" -> AcceptedWith(scopes)

CheckBlock(scopes, stmts) ==
  FoldLeft(LAMBDA r, s : IfAccepted(r, LAMBDA before : CheckStmt(before, s)),
           AcceptedWith(scopes), stmts)

--------------------------------------------------------------------------------
\* Declarations: in the prepass every name and its arity, then the bodies of the functions

CheckParams(scopes, params) ==
  FoldLeft(LAMBDA r, p : IfAccepted(r, LAMBDA before : Declared(before, p, ParameterItem)),
           AcceptedWith(scopes), params)
CheckFunction(scopes, d) ==
  IfAccepted(CheckParams(EnterScope(scopes), d.params), LAMBDA entered :
    IfAccepted(CheckBlock(entered, d.body), LAMBDA body : AcceptedWith(LeaveScope(body))))

CheckDecl(an, d) ==
  CASE an.prepassing /\ d.node \in {"function", "native_stub"} ->
         Declared(an.scopes, d.name, FunctionItem(Len(d.params)))
    [] ~an.prepassing /\ d.node = "function" -> CheckFunction(an.scopes, d)
    [] OTHER -> AcceptedWith(an.scopes)

================================================================================
