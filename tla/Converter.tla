-------------------------------- MODULE Converter --------------------------------
(***************************************************************************)
(* From the AST to the intermediate form (class ASTConversion).  The state *)
(* of the object is a record cv that every operator takes and returns,     *)
(* beside what the method returns: an address, a success flag or a block.  *)
(* A method that fails leaves what it did so far.                          *)
(*                                                                         *)
(* AST nodes are records: `node' names the class, the other fields are the *)
(* class's own.  A token is its text, with the kind and the value of it.   *)
(***************************************************************************)
EXTENDS IR, FastValue
LOCAL INSTANCE SequencesExt

CONSTANT NativeIds    \* m_native_proc_ids: the ids of the registered natives by name

NoAddress == [tag |-> "none", id |-> 0]    \* std::nullopt
Found(aa) == aa.tag # "none"
NoNames == << >>                           \* an empty map

NewConversion ==
  [globals |-> NoNames,     \* names of functions and texts of constants
   locals |-> NoNames, pending_links |-> << >>, cfgs |-> << >>, consts |-> << >>,
   main_id |-> -1, error_count |-> 0, next_func |-> 0, next_local |-> 0,
   prepassing |-> TRUE,
   crashed |-> FALSE]       \* whether it followed a null pointer or could not read an int

Mapped(map, name, aa) == (name :> aa) @@ map
WithError(cv) == [cv EXCEPT !.error_count = @ + 1]

--------------------------------------------------------------------------------
\* Registers, names, blocks and links

\* gen_temp_aa: the next free register of the function
GenTemp(cv) == [cv |-> [cv EXCEPT !.next_local = @ + 1], aa |-> Temp(cv.next_local)]

ResolveConstant(cv, text, value) ==
  IF text \in DOMAIN cv.globals THEN [cv |-> cv, aa |-> cv.globals[text]]
  ELSE LET aa == Constant(Len(cv.consts))
       IN  [cv |-> [cv EXCEPT !.consts = Append(@, value),
                              !.globals = Mapped(@, text, aa)],
            aa |-> aa]

\* record_name_aa for local_slot: the first of two definitions stays.
RecordLocal(cv, name, aa) ==
  IF name \in DOMAIN cv.locals THEN [cv |-> cv, ok |-> FALSE]
  ELSE [cv |-> [cv EXCEPT !.locals = Mapped(@, name, aa)], ok |-> TRUE]

\* The tag `constant' marks the id of a native function.
LookupName(cv, name) ==
  CASE name \in DOMAIN NativeIds -> Constant(NativeIds[name])
    [] name \notin DOMAIN NativeIds /\ name \in DOMAIN cv.globals -> cv.globals[name]
    [] name \notin DOMAIN NativeIds \cup DOMAIN cv.globals /\ name \in DOMAIN cv.locals ->
         cv.locals[name]
    [] OTHER -> NoAddress

CurrentCFG(cv) == cv.cfgs[Len(cv.cfgs)]
WithCFG(cv, cfg) == [cv EXCEPT !.cfgs[Len(cv.cfgs)] = cfg]
Emit(cv, steps) == WithCFG(cv, AddSteps(CurrentCFG(cv), steps))
CurrentBB(cv) == NewestBB(CurrentCFG(cv))
AddBlock(cv) == WithCFG(cv, AddBB(CurrentCFG(cv)))
PushLink(cv, from_id, to_id) ==
  [cv EXCEPT !.pending_links = Append(@, [from |-> from_id, to |-> to_id])]

\* apply_pending_links.  link_bb follows the null pointer when there is no such block.
ApplyPendingLinks(cv) ==
  IF \E k \in DOMAIN cv.pending_links : ~HasBB(CurrentCFG(cv), cv.pending_links[k].from)
  THEN [cv EXCEPT !.crashed = TRUE]
  ELSE [WithCFG(cv, FoldLeft(LAMBDA cfg, link : LinkBB(cfg, link.from, link.to),
                             CurrentCFG(cv), cv.pending_links))
          EXCEPT !.pending_links = << >>]

--------------------------------------------------------------------------------
\* Expressions: [cv, aa], where aa is NoAddress when the method failed

RECURSIVE EmitExpr(_, _)

\* What is done with a result, unless there is none
IfFound(r, Then(_)) == IF Found(r.aa) THEN Then(r) ELSE r

\* stoi ends the process with an int that is too large.
EmitLiteral(cv, e) ==
  CASE e.type = "int" /\ e.value.scalar_v \notin Ints ->
         [cv |-> [cv EXCEPT !.crashed = TRUE], aa |-> NoAddress]
    [] e.type \in {"bool", "double"} \/ (e.type = "int" /\ e.value.scalar_v \in Ints) ->
         ResolveConstant(cv, e.text, e.value)
    [] e.type = "identifier" -> [cv |-> cv, aa |-> LookupName(cv, e.text)]
    [] OTHER -> [cv |-> WithError(cv), aa |-> NoAddress]

PushItemFrozen(dest, item) ==    \* a slip: the list is frozen with its first item
  IfFound(item, LAMBDA r : [cv |-> Emit(r.cv, <<OperTernary("seq_obj_push", dest, r.aa,
                                                            Immediate(1)),
                                                OperUnary("frz_seq_obj", dest)>>), aa |-> dest])
PushItem(dest, item) ==
  IfFound(item, LAMBDA r : [cv |-> Emit(r.cv, <<OperTernary("seq_obj_push", dest, r.aa,
                                                            Immediate(1))>>), aa |-> dest])
FrozenIf(is_tuple, filled) ==
  IfFound(filled, LAMBDA r : IF is_tuple
                             THEN [r EXCEPT !.cv = Emit(@, <<OperUnary("frz_seq_obj", r.aa)>>)]
                             ELSE r)

EmitSequence(cv, e) ==
  LET dest == GenTemp(cv)
      made == [dest EXCEPT !.cv = Emit(@, <<OperUnary("make_seq", dest.aa)>>)]
      Push(r, item) == IfFound(r, LAMBDA x : PushItem(dest.aa, EmitExpr(x.cv, item)))
  IN  FrozenIf(e.is_tuple, FoldLeft(Push, made, e.items))

\* In place: the operand, which may be a variable or a constant, is what is negated.
EmitUnary(cv, e) ==
  IfFound(EmitExpr(cv, e.inner),
          LAMBDA r : [r EXCEPT !.cv = Emit(@, <<TACUnary("neg", r.aa, r.aa)>>)])

\* Two operands, the second one also when the first one failed
EmitRight(left, e) == [left |-> left.aa, right |-> EmitExpr(left.cv, e)]
EmitBoth(cv, e_0, e_1) == EmitRight(EmitExpr(cv, e_0), e_1)
IfBothFound(both, Then(_)) ==
  IF Found(both.left) THEN IfFound(both.right, Then) ELSE [both.right EXCEPT !.aa = NoAddress]

EmitOperator(op, dest, arg_0, arg_1) ==
  [dest EXCEPT !.cv = Emit(@, <<IF op = "access"
                                THEN OperTernary("seq_obj_get", dest.aa, arg_0, arg_1)
                                ELSE TACBinary(op, dest.aa, arg_0, arg_1)>>)]
BinaryOf(op, both) ==
  IfBothFound(both, LAMBDA r : EmitOperator(op, GenTemp(r.cv), both.left, r.aa))
EmitBinary(cv, e) == BinaryOf(e.op, EmitBoth(cv, e.left, e.right))

AssignOf(both) ==
  IfBothFound(both, LAMBDA r : [cv |-> Emit(r.cv, <<TACUnary("nop", both.left, r.aa)>>),
                                aa |-> both.left])
EmitAssign(cv, e) == AssignOf(EmitBoth(cv, e.left, e.value))

\* Each argument is moved to a fresh register right after it is computed.
MoveArg(arg) ==
  LET dest == GenTemp(arg.cv)
  IN  IfFound(arg, LAMBDA r : [r EXCEPT !.cv = Emit(dest.cv, <<TACUnary("nop", dest.aa, r.aa)>>)])
EmitArgs(callee, args) ==
  FoldLeft(LAMBDA r, arg : IfFound(r, LAMBDA x : MoveArg(EmitExpr(x.cv, arg))), callee, args)

ResultSlotAfter(cv, args_n) == Temp(cv.next_local)    \* a slip: above the arguments

\* Where the result is expected: the register of the first argument, if each argument
\* took one register, and the next free one when there are none.  It is not reserved.
ResultSlot(cv, args_n) == Temp(cv.next_local - args_n)

CallOf(callee, args) ==
  LET calling_op == IF callee.aa.tag = "immediate" THEN "call" ELSE "native_call"
  IN  IfFound(EmitArgs(callee, args),
        LAMBDA r : [cv |-> Emit(r.cv, <<OperBinary(calling_op, Immediate(callee.aa.id),
                                                   Immediate(Len(args)))>>),
                    aa |-> ResultSlot(r.cv, Len(args))])
EmitCall(cv, e) == CallOf(EmitExpr(cv, e.callee), e.args)

EmitExpr(cv, e) ==
  CASE e.node = "literal" -> EmitLiteral(cv, e)
    [] e.node = "sequence" -> EmitSequence(cv, e)
    [] e.node = "call" -> EmitCall(cv, e)
    [] e.node = "unary" -> EmitUnary(cv, e)
    [] e.node = "binary" -> EmitBinary(cv, e)
    [] e.node = "assign" -> EmitAssign(cv, e)
    [] OTHER -> [cv |-> cv, aa |-> NoAddress]

--------------------------------------------------------------------------------
\* Statements: [cv, ok]; a block: [cv, bb], where bb is -1 when a statement failed

RECURSIVE EmitStmt(_, _)

Done(cv) == [cv |-> cv, ok |-> TRUE]
OkIfFound(r, Then(_)) == IF Found(r.aa) THEN Then(r) ELSE [cv |-> r.cv, ok |-> FALSE]

BlockOf(bb, items) == [cv |-> items.cv, bb |-> IF items.ok THEN bb ELSE -1]
EmitBlock(cv, stmts) ==
  BlockOf(Len(CurrentCFG(cv)),
          FoldLeft(LAMBDA r, s : IF r.ok THEN EmitStmt(r.cv, s) ELSE r, Done(AddBlock(cv)), stmts))

Recorded(r) == IF r.ok THEN r ELSE [r EXCEPT !.cv = WithError(@)]
DefOf(name, init, dest) ==
  IF Found(init)
  THEN Recorded(RecordLocal(Emit(dest.cv, <<TACUnary("nop", dest.aa, init)>>), name, dest.aa))
  ELSE [cv |-> dest.cv, ok |-> FALSE]
DefTo(name, init) == DefOf(name, init.aa, GenTemp(init.cv))
EmitDef(cv, s) == DefTo(s.name, EmitExpr(cv, s.init_expr))

EmitReturn(cv, s) ==
  OkIfFound(EmitExpr(cv, s.result), LAMBDA r : Done(Emit(r.cv, <<OperUnary("ret", r.aa)>>)))

\* Jumps to nowhere, until the emitter patches them
DudJump == OperUnary("jump", Immediate(0))
DudJumpElse(aa) == OperBinary("jump_else", aa, Immediate(0))

EmitBreak(cv) == Done(Emit(cv, <<DudJump, OperNonary("meta_mark_break")>>))

PushLinkToNewest(cv, from_id) == PushLink(cv, from_id, CurrentBB(cv))

\* After the then-body: what ends it, the else-body, and the block where both meet.
\* Only the first block of the else-body is linked to that one.
ElseOf(pre, body) ==
  LET ended == Emit(body.cv, <<OperNonary("nop"), OperNonary("meta_end_if_else")>>)
  IN  PushLinkToNewest(AddBlock(PushLink(ended, pre, body.bb)), body.bb)
EmitElse(cv, pre, else_body) ==
  ElseOf(pre, EmitBlock(Emit(cv, <<DudJump, OperNonary("meta_mark_if_else_alt"),
                                   OperNonary("nop")>>), else_body))

EmitNoElse(cv, pre, if_bb) ==
  LET post == Emit(AddBlock(cv), <<OperNonary("nop"), OperNonary("meta_end_if_else")>>)
  IN  PushLinkToNewest(PushLinkToNewest(post, if_bb), pre)

\* A body that fails does not make the statement fail.
IfOf(pre, body, s) ==
  LET linked == PushLink(body.cv, pre, body.bb)
  IN  Done(IF s.has_else THEN EmitElse(linked, pre, s.else_body)
           ELSE EmitNoElse(linked, pre, body.bb))
EmitIf(cv, s) ==
  OkIfFound(EmitExpr(Emit(cv, <<OperNonary("meta_begin_if_else")>>), s.cond_expr),
    LAMBDA r : IfOf(CurrentBB(cv),
                    EmitBlock(Emit(r.cv, <<DudJumpElse(r.aa),
                                           OperNonary("meta_mark_if_else_check")>>), s.if_body), s))

WhileOf(pre, body) ==
  LET repeated == Emit(body.cv, <<DudJump, OperNonary("meta_mark_continue")>>)
      linked == PushLink(PushLink(repeated, body.bb, pre), pre, body.bb)
      post == Emit(AddBlock(linked), <<OperNonary("nop"), OperNonary("meta_end_while")>>)
  IN  Done(PushLinkToNewest(post, pre))
EmitWhile(cv, s) ==
  OkIfFound(EmitExpr(Emit(cv, <<OperNonary("meta_begin_while"), OperNonary("nop")>>), s.check),
    LAMBDA r : WhileOf(CurrentBB(cv),
                       EmitBlock(Emit(r.cv, <<DudJumpElse(r.aa),
                                              OperNonary("meta_mark_while_check")>>), s.body)))

EmitExprStmt(cv, s) == OkIfFound(EmitExpr(cv, s.expr), LAMBDA r : Done(r.cv))

EmitStmt(cv, s) ==
  CASE s.node = "return" -> EmitReturn(cv, s)
    [] s.node = "while" -> EmitWhile(cv, s)
    [] s.node = "break" -> EmitBreak(cv)
    [] s.node = "if" -> EmitIf(cv, s)
    [] s.node = "def" -> EmitDef(cv, s)
    [] s.node = "expr" -> EmitExprStmt(cv, s)

--------------------------------------------------------------------------------
\* Declarations: [cv, ok]

PrepassCountsStubs(cv, d) ==    \* a slip: whatever is declared takes a function id
  LET counted == [cv EXCEPT !.next_func = @ + 1]
  IN  IF d.node # "function" THEN [cv |-> counted, ok |-> TRUE]
      ELSE [cv |-> [counted EXCEPT
                      !.main_id = IF d.name = "main" /\ @ = -1 THEN cv.next_func ELSE @,
                      !.globals = Mapped(@, d.name, Immediate(cv.next_func))],
            ok |-> TRUE]

\* emit_function while prepassing: an id for the name
Prepass(cv, d) ==
  LET counted == [cv EXCEPT !.next_func = @ + 1,
                            !.main_id = IF d.name = "main" /\ @ = -1 THEN cv.next_func ELSE @]
  IN  CASE d.node # "function" -> Done(cv)
        [] d.node = "function" /\ d.name \in DOMAIN cv.globals -> [cv |-> counted, ok |-> FALSE]
        [] OTHER -> [cv |-> [counted EXCEPT
                               !.globals = Mapped(@, d.name, Immediate(cv.next_func))],
                     ok |-> TRUE]

RecordParam(param, name) == RecordLocal(param.cv, name, param.aa)
RecordParams(cv, params) ==
  FoldLeft(LAMBDA r, name : IF r.ok THEN RecordParam(GenTemp(r.cv), name) ELSE r, Done(cv), params)

EndFunctionKeepsCount(cv) == [cv EXCEPT !.locals = NoNames]    \* a slip

EndFunction(cv) == [cv EXCEPT !.locals = NoNames, !.next_local = 0]

\* emit_function after the prepass: a graph of its own
FunctionOf(body) ==
  [cv |-> EndFunction(IF body.bb = -1 THEN body.cv ELSE ApplyPendingLinks(body.cv)),
   ok |-> body.bb # -1]
EmitBody(params, body) ==
  IF params.ok THEN FunctionOf(EmitBlock(params.cv, body))
  ELSE [params EXCEPT !.cv = EndFunction(@)]
EmitFunction(cv, d) ==
  EmitBody(RecordParams([cv EXCEPT !.cfgs = Append(@, << >>)], d.params), d.body)

\* Stubs and imports emit nothing.
EmitDecl(cv, d) ==
  CASE cv.prepassing -> Prepass(cv, d)
    [] ~cv.prepassing /\ d.node = "function" -> EmitFunction(cv, d)
    [] OTHER -> Done(cv)

FullIR(cv) == [cfg_list |-> cv.cfgs, constants |-> cv.consts, main_id |-> cv.main_id]

================================================================================
