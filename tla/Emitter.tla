--------------------------------- MODULE Emitter ---------------------------------
(***************************************************************************)
(* From the intermediate form to bytecode (class Emitter).  Its state is a *)
(* record em: the chunks, of which the last one is being written, and the  *)
(* stacks of the ifs and the loops whose jumps are still to be patched.    *)
(*                                                                         *)
(* The methods return false for steps, tags and blocks that the converter  *)
(* never produces; those returns are left out.  Indexing an empty stack is *)
(* undefined: em.crashed records it.                                       *)
(***************************************************************************)
EXTENDS Marks, Bytecode

NewEmitter == [chunks |-> << >>, active_ifs |-> << >>, active_loops |-> << >>,
               crashed |-> FALSE]

Chunk(em) == em.chunks[Len(em.chunks)]
WithFirstChunk(em, chunk) == [em EXCEPT !.chunks[1] = chunk]    \* a slip: of the first function
WithChunk(em, chunk) == [em EXCEPT !.chunks[Len(em.chunks)] = chunk]
LastIp(em) == Len(Chunk(em)) - 1
Write(em, instr) == WithChunk(em, Append(Chunk(em), instr))

Top(stack) == stack[Len(stack)]
Popped(stack) == SubSeq(stack, 1, Len(stack) - 1)

PseudoArg(aa) ==    \* translate_value_aa
  CASE aa.tag = "immediate" -> I(aa.id)
    [] aa.tag = "constant" -> C(aa.id)
    [] aa.tag = "temp" -> R(aa.id)

--------------------------------------------------------------------------------
\* Steps that are instructions

EmitTACUnary(em, step) ==
  LET dest == PseudoArg(step.args[1])
      arg_0 == PseudoArg(step.args[2])
  IN  CASE step.op = "nop" -> Write(em, Emit2("mov", dest, arg_0))
        [] step.op = "neg" /\ dest = arg_0 -> Write(em, Emit1("neg", dest))
        [] OTHER -> Write(Write(em, Emit2("mov", dest, arg_0)), Emit1("neg", dest))

\* emit_tac_binary, emit_oper_unary, emit_oper_binary, emit_oper_ternary, and the nop:
\* IR operations have the names of their opcodes.
EmitPlain(em, step) ==
  LET arg(k) == PseudoArg(step.args[k])
  IN  Write(em, CASE Len(step.args) = 0 -> Emit0(step.op)
                  [] Len(step.args) = 1 -> Emit1(step.op, arg(1))
                  [] Len(step.args) = 2 -> Emit2(step.op, arg(1), arg(2))
                  [] Len(step.args) = 3 -> Emit3(step.op, arg(1), arg(2), arg(3)))

--------------------------------------------------------------------------------
\* Marks: what emit_oper_nonary does about open ifs and loops

PushLoop(em) ==
  [em EXCEPT !.active_loops =
     Append(@, [brk_ips |-> {}, cont_ips |-> {}, start_ip |-> Len(Chunk(em)), check_ip |-> 0])]
PushIf(em) == [em EXCEPT !.active_ifs = Append(@, [check_ip |-> 0, alt_ip |-> -1])]

\* The marks name the instruction just written.
MarkLoop(em, op) ==
  LET k == Len(em.active_loops)
  IN  CASE op = "meta_mark_while_check" -> [em EXCEPT !.active_loops[k].check_ip = LastIp(em)]
        [] op = "meta_mark_break" ->
             [em EXCEPT !.active_loops[k].brk_ips = @ \cup {LastIp(em)}]
        [] op = "meta_mark_continue" ->
             [em EXCEPT !.active_loops[k].cont_ips = @ \cup {LastIp(em)}]
MarkIf(em, op) ==
  LET k == Len(em.active_ifs)
  IN  CASE op = "meta_mark_if_else_check" -> [em EXCEPT !.active_ifs[k].check_ip = LastIp(em)]
        [] op = "meta_mark_if_else_alt" -> [em EXCEPT !.active_ifs[k].alt_ip = LastIp(em)]

\* The chunk with argument k of the instructions at ips set to a position, in 16 bits.
Patched(chunk, ips, k, ip) ==
  [n \in DOMAIN chunk |->
     IF n - 1 \in ips THEN [chunk[n] EXCEPT !.args[k] = ToInt16(ip)] ELSE chunk[n]]

CloseLoopFirst(em) ==    \* a slip: the check keeps its target where a jump does
  LET loop == Top(em.active_loops)
      checked == Patched(Chunk(em), {loop.check_ip}, 1, LastIp(em))
      broken == Patched(checked, loop.brk_ips, 1, LastIp(em))
      continued == Patched(broken, loop.cont_ips, 1, loop.start_ip)
  IN  [WithChunk(em, continued) EXCEPT !.active_loops = Popped(@)]

CloseLoop(em) ==
  LET loop == Top(em.active_loops)
      checked == Patched(Chunk(em), {loop.check_ip}, 2, LastIp(em))
      broken == Patched(checked, loop.brk_ips, 1, LastIp(em))
      continued == Patched(broken, loop.cont_ips, 1, loop.start_ip)
  IN  [WithChunk(em, continued) EXCEPT !.active_loops = Popped(@)]

CloseIfAtJump(em) ==    \* a slip: a condition that is false leads to the jump over the else
  LET cond == Top(em.active_ifs)
      checked == Patched(Chunk(em), {cond.check_ip}, 2,
                         IF cond.alt_ip # -1 THEN cond.alt_ip ELSE LastIp(em))
  IN  [WithChunk(em, Patched(checked, {cond.alt_ip}, 1, LastIp(em)))
         EXCEPT !.active_ifs = Popped(@)]

CloseIf(em) ==
  LET cond == Top(em.active_ifs)
      patched == IF cond.alt_ip # -1
                 THEN Patched(Patched(Chunk(em), {cond.check_ip}, 2, cond.alt_ip + 1),
                              {cond.alt_ip}, 1, LastIp(em))
                 ELSE Patched(Chunk(em), {cond.check_ip}, 2, LastIp(em))
  IN  [WithChunk(em, patched) EXCEPT !.active_ifs = Popped(@)]

LoopMarks == {"meta_mark_while_check", "meta_mark_break", "meta_mark_continue"}
IfMarks == {"meta_mark_if_else_check", "meta_mark_if_else_alt"}

NothingOpen(em, op) ==
  \/ op \in LoopMarks \cup {"meta_end_while"} /\ em.active_loops = << >>
  \/ op \in IfMarks \cup {"meta_end_if_else"} /\ em.active_ifs = << >>

EmitMark(em, op) ==
  CASE NothingOpen(em, op) -> [em EXCEPT !.crashed = TRUE]
    [] op = "meta_begin_while" -> PushLoop(em)
    [] op = "meta_begin_if_else" -> PushIf(em)
    [] op \in LoopMarks /\ ~NothingOpen(em, op) -> MarkLoop(em, op)
    [] op \in IfMarks /\ ~NothingOpen(em, op) -> MarkIf(em, op)
    [] op = "meta_end_while" /\ ~NothingOpen(em, op) -> CloseLoop(em)
    [] op = "meta_end_if_else" /\ ~NothingOpen(em, op) -> CloseIf(em)

--------------------------------------------------------------------------------
EmitStep(em, step) ==
  CASE em.crashed -> em
    [] ~em.crashed /\ step.form = "TACUnary" -> EmitTACUnary(em, step)
    [] ~em.crashed /\ IsMeta(step) -> EmitMark(em, step.op)
    [] OTHER -> EmitPlain(em, step)

EmitSteps(em, steps) ==
  LET emitted[n \in 0 .. Len(steps)] ==
        IF n = 0 THEN em ELSE EmitStep(emitted[n - 1], steps[n])
  IN  emitted[Len(steps)]

Child(id) == IF id = DudBlock THEN << >> ELSE <<id>>

PushSuccessorsTruthyFirst(frontier, bb) ==    \* a slip: the falsy block is visited first
  (frontier \o Child(bb.truthy_id)) \o Child(bb.falsy_id)

\* The frontier is a stack: the truthy block is visited first.
PushSuccessors(frontier, bb) ==
  (frontier \o Child(bb.falsy_id)) \o Child(bb.truthy_id)

\* One turn of the loop of emit_chunk, on the blocks still to visit and those visited.
Visit(cfg, t) ==
  CASE t.frontier = << >> -> t
    [] t.frontier # << >> /\ Top(t.frontier) \in {t.visited[k] : k \in DOMAIN t.visited} ->
         [frontier |-> Popped(t.frontier), visited |-> t.visited]
    [] OTHER ->
         [frontier |-> PushSuccessors(Popped(t.frontier), GetBB(cfg, Top(t.frontier))),
          visited |-> Append(t.visited, Top(t.frontier))]

\* The blocks of a graph in the order they are emitted.  Each block pushes at most two.
Visited(cfg) ==
  LET turn[n \in 0 .. 2 * Len(cfg) + 1] ==
        IF n = 0 THEN [frontier |-> <<0>>, visited |-> << >>] ELSE Visit(cfg, turn[n - 1])
  IN  turn[2 * Len(cfg) + 1].visited

\* The steps of the blocks in that order
StepsInOrder(cfg) ==
  LET order == Visited(cfg)
      steps[n \in 0 .. Len(order)] ==
        IF n = 0 THEN << >> ELSE steps[n - 1] \o GetBB(cfg, order[n]).steps
  IN  steps[Len(order)]

\* Which blocks are visited does not depend on what was emitted before.
EmitChunk(em, cfg) ==
  EmitSteps([em EXCEPT !.chunks = Append(@, << >>)], StepsInOrder(cfg))

ProgramOf(em, ir) ==
  [chunks |-> em.chunks, constants |-> ir.constants, entry_id |-> ir.main_id]

--------------------------------------------------------------------------------
\* Every jump leads to a nop of its chunk.
JumpTarget(instr) == IF instr.op = "jump" THEN instr.args[1] ELSE instr.args[2]
JumpsToNops(chunk) ==
  \A n \in DOMAIN chunk :
    chunk[n].op \in {"jump", "jump_else"} =>
      LET ip == JumpTarget(chunk[n])
      IN  ip + 1 \in DOMAIN chunk /\ ip + 1 # n /\ chunk[ip + 1].op = "nop"

================================================================================
