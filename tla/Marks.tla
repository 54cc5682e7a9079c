---------------------------------- MODULE Marks ----------------------------------
(***************************************************************************)
(* What the emitter expects of the steps it is given and never checks: that*)
(* the marks of ifs and loops nest, each kind for itself, and stand beside *)
(* the jumps and nops they are about (emit_oper_nonary), and that a call   *)
(* comes right after the move of its last argument.                        *)
(***************************************************************************)
EXTENDS IR

IsAddress(aa) == aa.tag \in {"temp", "constant", "immediate"} /\ aa.id \in Nat

\* The steps that the converter makes
HasForm(s, form, ops, args_n) == s.form = form /\ s.op \in ops /\ Len(s.args) = args_n
IsStep(s) ==
  /\ \/ HasForm(s, "TACUnary", {"nop", "neg"}, 2)
     \/ HasForm(s, "TACBinary", {"mul", "div", "mod", "add", "sub", "equ", "neq", "lt", "gt",
                              "lte", "gte"}, 3)
     \/ HasForm(s, "OperNonary", {"nop"} \cup MetaOps, 0)
     \/ HasForm(s, "OperUnary", {"make_seq", "frz_seq_obj", "jump", "ret"}, 1)
     \/ HasForm(s, "OperBinary", {"jump_else", "call", "native_call"}, 2)
     \/ HasForm(s, "OperTernary", {"seq_obj_push", "seq_obj_get"}, 3)
  /\ \A k \in 1 .. Len(s.args) : IsAddress(s.args[k])

--------------------------------------------------------------------------------
\* A graph: its head is block 0, and its links lead to blocks of it.
Blocks(cfg) == 0 .. Len(cfg) - 1
Successors(cfg, id) == {GetBB(cfg, id).truthy_id, GetBB(cfg, id).falsy_id} \ {DudBlock}
IsSequence(s) == s \in Seq({s[k] : k \in DOMAIN s})
IsGraph(cfg) ==
  /\ IsSequence(cfg) /\ cfg # << >>
  /\ \A id \in Blocks(cfg) : IsSequence(GetBB(cfg, id).steps) /\ Successors(cfg, id) \subseteq Blocks(cfg)

--------------------------------------------------------------------------------
\* Nesting: how far each open if and loop is, the innermost one last

NoneOpen == [ifs |-> << >>, loops |-> << >>]
Inner(stack) == stack[Len(stack)]
Outer(stack) == SubSeq(stack, 1, Len(stack) - 1)
Now(stack, status) == Append(Outer(stack), status)

After(open, step) ==
  CASE step.op = "meta_begin_while" -> [open EXCEPT !.loops = Append(@, "begun")]
    [] step.op = "meta_mark_while_check" -> [open EXCEPT !.loops = Now(@, "checked")]
    [] step.op = "meta_end_while" -> [open EXCEPT !.loops = Outer(@)]
    [] step.op = "meta_begin_if_else" -> [open EXCEPT !.ifs = Append(@, "begun")]
    [] step.op = "meta_mark_if_else_check" -> [open EXCEPT !.ifs = Now(@, "checked")]
    [] step.op = "meta_mark_if_else_alt" -> [open EXCEPT !.ifs = Now(@, "alternative")]
    [] step.op = "meta_end_if_else" -> [open EXCEPT !.ifs = Outer(@)]
    [] OTHER -> open

InnerIs(stack, statuses) == stack # << >> /\ Inner(stack) \in statuses
Fits(open, step) ==
  /\ step.op = "meta_mark_while_check" => InnerIs(open.loops, {"begun"})
  /\ step.op \in {"meta_mark_break", "meta_mark_continue"} => open.loops # << >>
  /\ step.op = "meta_end_while" => InnerIs(open.loops, {"checked"})
  /\ step.op = "meta_mark_if_else_check" => InnerIs(open.ifs, {"begun"})
  /\ step.op = "meta_mark_if_else_alt" => InnerIs(open.ifs, {"checked"})
  /\ step.op = "meta_end_if_else" => InnerIs(open.ifs, {"checked", "alternative"})

Nests(steps) ==
  LET open[n \in 0 .. Len(steps)] ==
        IF n = 0 THEN NoneOpen ELSE After(open[n - 1], steps[n])
  IN  /\ \A n \in 1 .. Len(steps) : Fits(open[n - 1], steps[n])
      /\ open[Len(steps)] = NoneOpen

--------------------------------------------------------------------------------
\* Neighbours: what a mark is about, and where a patched jump lands

NopStep == OperNonary("nop")
JumpMarks == {"meta_mark_break", "meta_mark_continue", "meta_mark_if_else_alt"}
JumpElseMarks == {"meta_mark_while_check", "meta_mark_if_else_check"}

PassesArguments(step) == step.op \in {"call", "native_call"} /\ step.args[2].id > 0
MovesLast(step, args_n) ==
  step.form = "TACUnary" /\ step.op = "nop" /\ step.args[1].id >= args_n - 1

Neighbours(s, t) ==
  /\ s.op = "jump" <=> t.op \in JumpMarks
  /\ s.op = "jump_else" <=> t.op \in JumpElseMarks
  /\ s.op \in {"meta_begin_while", "meta_mark_if_else_alt"} => t = NopStep
  /\ t.op \in {"meta_end_while", "meta_end_if_else"} => s = NopStep
  /\ PassesArguments(t) => MovesLast(s, t.args[2].id)

\* As if there were a nop before the first step and after the last one.
StepAt(steps, n) == IF n \in 1 .. Len(steps) THEN steps[n] ELSE NopStep

WellMarked(steps) ==
  /\ \A n \in 1 .. Len(steps) : IsStep(steps[n])
  /\ \A n \in 0 .. Len(steps) : Neighbours(StepAt(steps, n), StepAt(steps, n + 1))
  /\ Nests(steps)

================================================================================
