----------------------------- MODULE CompilerProperties -----------------------------
(***************************************************************************)
(* What is right about the compiler of module Compiler.                    *)
(***************************************************************************)
EXTENDS Compiler
LOCAL INSTANCE SequencesExt

FunctionsOf(decls) == SelectSeq(decls, LAMBDA d : d.node = "function")

\* Every statement of a body, at any depth
RECURSIVE Within(_)
Within(stmts) ==
  UNION {{s} \cup CASE s.node = "if" -> Within(s.if_body) \cup Within(s.else_body)
                    [] s.node = "while" -> Within(s.body)
                    [] OTHER -> {} : s \in ToSet(stmts)}

\* No else body branches.
Straight(decls) ==
  \A d \in ToSet(FunctionsOf(decls)) : \A s \in Within(d.body) :
    s.node = "if" => \A t \in ToSet(s.else_body) : t.node \notin {"if", "while"}

\* Every function that is declared native is one.
Registered(decls) ==
  \A d \in ToSet(decls) : d.node = "native_stub" => d.name \in DOMAIN NativeIds

\* The events of a function, in the order of its text: a name is used or defined, a function
\* is called, or there is something that the converter refuses or ends at.  Those inside the
\* arguments of a call are not checked by the analyzer.

Event(event, name, argc, checked) ==
  [event |-> event, name |-> name, argc |-> argc, checked |-> checked]

RECURSIVE ExprEvents(_, _), BodyEvents(_)

ItemEvents(items, checked) ==
  FlattenSeq([k \in DOMAIN items |-> ExprEvents(items[k], checked)])

LiteralEvents(e, checked) ==
  CASE e.type = "identifier" -> <<Event("use", e.text, 0, checked)>>
    [] e.type = "string" -> <<Event("string", e.text, 0, checked)>>
    [] e.type = "int" /\ e.value.scalar_v \notin Ints -> <<Event("large", e.text, 0, checked)>>
    [] OTHER -> << >>

ExprEvents(e, checked) ==
  CASE e.node = "literal" -> LiteralEvents(e, checked)
    [] e.node = "sequence" -> ItemEvents(e.items, checked)
    [] e.node = "lambda" -> <<Event("lambda", "", 0, checked)>>
    [] e.node = "call" -> ExprEvents(e.callee, checked)
                          \o <<Event("call", e.callee.text, Len(e.args), checked)>>
                          \o ItemEvents(e.args, FALSE)
    [] e.node = "unary" -> ExprEvents(e.inner, checked)
    [] e.node = "binary" -> ItemEvents(<<e.left, e.right>>, checked)
    [] e.node = "assign" -> ItemEvents(<<e.left, e.value>>, checked)

StmtEvents(s) ==
  CASE s.node = "expr" -> ExprEvents(s.expr, TRUE)
    [] s.node = "return" -> ExprEvents(s.result, TRUE)
    [] s.node = "def" -> ExprEvents(s.init_expr, TRUE) \o <<Event("def", s.name, 0, TRUE)>>
    [] s.node = "if" ->
         ExprEvents(s.cond_expr, TRUE) \o BodyEvents(s.if_body) \o BodyEvents(s.else_body)
    [] s.node = "while" -> ExprEvents(s.check, TRUE) \o BodyEvents(s.body)
    [] s.node = "break" -> << >>
BodyEvents(stmts) == FlattenSeq([k \in DOMAIN stmts |-> StmtEvents(stmts[k])])

\* The functions and stubs of a name, and how many parameters it has
Named(decls, name) ==
  {d \in ToSet(decls) : d.node \in {"function", "native_stub"} /\ d.name = name}
HasArity(decls, e) == \A d \in Named(decls, e.name) : Len(d.params) = e.argc

\* The k-th event names what is declared before it: a function, a parameter or a local
Scoped(decls, params, events, k) ==
  events[k].event \in {"use", "call"} =>
    \/ Named(decls, events[k].name) # {}
    \/ events[k].name \in ToSet(params)
    \/ \E j \in 1 .. k - 1 : events[j].event = "def" /\ events[j].name = events[k].name

Local(params, events, name) ==
  \/ name \in ToSet(params)
  \/ \E j \in DOMAIN events : events[j].event = "def" /\ events[j].name = name

\* P holds of every event of every function.
AllEvents(decls, P(_, _, _)) ==
  \A d \in ToSet(FunctionsOf(decls)) :
    LET events == BodyEvents(d.body)
    IN  \A k \in DOMAIN events : P(d.params, events, k)

RECURSIVE LooseBreak(_)
LooseBreak(stmts) ==
  \E s \in ToSet(stmts) :
    \/ s.node = "break"
    \/ s.node = "if" /\ (LooseBreak(s.if_body) \/ LooseBreak(s.else_body))

\* Sources without what neither the analyzer nor the converter is ready for: native stubs
\* that nobody registered, breaks outside of loops, strings, and, in arguments, names that
\* are not declared, functions and ints that are too large
Convertible(decls) ==
  /\ Registered(decls)
  /\ \A d \in ToSet(FunctionsOf(decls)) : ~LooseBreak(d.body)
  /\ AllEvents(decls, LAMBDA params, events, k :
       /\ events[k].event \notin {"string", "lambda", "large"}
       /\ Scoped(decls, params, events, k))

\* The steps of a graph that are instructions
Instructions(cfg) ==
  SelectSeq(FlattenSeq([k \in DOMAIN cfg |-> cfg[k].steps]), LAMBDA s : ~IsMeta(s))

--------------------------------------------------------------------------------
(***************************************************************************)
(* Every statement of every function is in its chunk: the traversal of     *)
(* emit_chunk reaches each block that emit_if and emit_while linked        *)
(* (convert_ast.cpp 482-688, cfg.cpp 59-73, emitter.cpp 418-461).          *)
(***************************************************************************)
EveryStatement ==
  stage \in {"emit", "done"} =>
    \A k \in DOMAIN em.chunks : Len(em.chunks[k]) = Len(Instructions(cv.cfgs[k]))

EverythingEmitted == Straight(ast) /\ Convertible(ast) => EveryStatement

(***************************************************************************)
(* In the order in which the blocks are emitted, the marks of ifs and loops*)
(* nest and stand where the emitter looks for them, whatever the bodies    *)
(* contain: the converter adds them to the newest block at the time, and   *)
(* the order is made of links (emit_if, emit_while, emit_chunk).           *)
(***************************************************************************)
GraphsWellMarked ==
  stage \in {"emit", "done"} /\ Straight(ast) /\ Convertible(ast) => GraphsMarked

(***************************************************************************)
(* A name that the prepass gave an id means the chunk that the second pass *)
(* and the emitter put at that place, whatever stands between the          *)
(* functions; and the program starts with the first main (emit_function).  *)
(***************************************************************************)
NamesMeanChunks ==
  stage \in {"emit", "done"} =>
    LET funs == FunctionsOf(ast)
        mains == {k \in DOMAIN funs : funs[k].name = "main"}
    IN  /\ Len(cv.cfgs) = Len(funs)
        /\ \A k \in DOMAIN funs : cv.globals[funs[k].name] = Immediate(k - 1)
        /\ IF mains = {} THEN cv.main_id = -1 ELSE cv.main_id + 1 \in mains

(***************************************************************************)
(* A function starts from nothing: no registers, names or links are left   *)
(* from the one before it when it is converted, and no open if or loop     *)
(* when it is emitted (m_next_local_aa, m_locals, m_pending_links,         *)
(* m_active_ifs, m_active_loops).                                          *)
(***************************************************************************)
NothingCarriedOver ==
  stage \in {"prepass", "convert", "emit", "done"} =>
    /\ cv.next_local = 0 /\ cv.locals = NoNames /\ cv.pending_links = << >>
    /\ Straight(ast) /\ Convertible(ast) => em.active_ifs = << >> /\ em.active_loops = << >>

Analysed == stage \in {"prepass", "convert", "emit", "done", "rejected"}

(***************************************************************************)
(* What the analyzer accepted is in scope: each name stands for a function,*)
(* a parameter or an earlier local of the same function, no name of one    *)
(* function is seen in another, and a call has the arity of the function   *)
(* it names (enter_scope, leave_scope, lookup_named_item, check_call).     *)
(* Arguments are left out, which check_call does not look at.              *)
(***************************************************************************)
AcceptedIsScoped ==
  Analysed =>
    AllEvents(ast, LAMBDA params, events, k :
      events[k].checked =>
        /\ Scoped(ast, params, events, k)
        /\ events[k].event = "call" /\ ~Local(params, events, events[k].name) =>
             HasArity(ast, events[k]))

(***************************************************************************)
(* What the analyzer accepts the converter converts and the emitter emits: *)
(* the two keep their own scopes and have to agree on them (record_name_aa,*)
(* lookup_name_aa).  Convertible names the exceptions.  Only the analyzer  *)
(* itself may end the process.                                             *)
(***************************************************************************)
AcceptedConverts ==
  stage \in {"rejected", "crashed"} /\ Convertible(ast) =>
    stage = "crashed" /\ ~cv.crashed /\ ~em.crashed

(***************************************************************************)
(* Each call instruction passes as many arguments as the function has      *)
(* parameters, native ones included: the ids of emit_call mean the         *)
(* functions that check_call looked at.  It is said of sources whose locals*)
(* do not have the names of functions, whose functions are only called,    *)
(* and whose calls in arguments, which are not checked, are right.         *)
(***************************************************************************)
OnlyCalled(params, events, k) ==
  LET e == events[k]
  IN  /\ \A p \in ToSet(params) : Named(ast, p) = {}
      /\ e.event = "def" => Named(ast, e.name) = {}
      /\ e.event = "call" => Named(ast, e.name) # {} /\ (e.checked \/ HasArity(ast, e))
      /\ e.event = "use" /\ Named(ast, e.name) # {} =>
           k < Len(events) /\ events[k + 1].event = "call" /\ events[k + 1].name = e.name

CallsHaveArity ==
  stage \in {"emit", "done"} /\ Registered(ast) /\ AllEvents(ast, OnlyCalled) =>
    \A k \in DOMAIN cv.cfgs : \A s \in ToSet(Instructions(cv.cfgs[k])) :
      /\ s.op = "call" => s.args[2].id = Len(FunctionsOf(ast)[s.args[1].id + 1].params)
      /\ s.op = "native_call" =>
           \E name \in DOMAIN NativeIds :
             NativeIds[name] = s.args[1].id /\ HasArity(ast, [name |-> name, argc |-> s.args[2].id])

(***************************************************************************)
(* What the tests say of ill-formed programs (test_suite/ill_formed,       *)
(* unknown_name.mnl and invalid_calls.mnl): the analyzer refuses a name    *)
(* that is not declared and a call with too few or too many arguments,     *)
(* wherever they are.                                                      *)
(***************************************************************************)
IllFormedRefused ==
  Analysed =>
    AllEvents(ast, LAMBDA params, events, k :
      Scoped(ast, params, events, k) /\ (events[k].event = "call" => HasArity(ast, events[k])))

--------------------------------------------------------------------------------
(***************************************************************************)
(* What the diagram in emit_if says: the block after an if is where both   *)
(* of its bodies lead, so that nothing behind an else body that branches   *)
(* is lost (convert_ast.cpp 483-488).                                      *)
(***************************************************************************)
NothingLost == Convertible(ast) => EveryStatement

================================================================================
