----------------------------------- MODULE IR -----------------------------------
(***************************************************************************)
(* The intermediate form of a function: a control-flow graph of basic      *)
(* blocks (class CFG) that hold steps (ir/steps.hpp).  Blocks are numbered *)
(* from zero in the order they were added.                                 *)
(***************************************************************************)
EXTENDS Widths, Sequences

\* AbsAddress: its id has 16 bits, and so have the counters that it comes from.
Address(tag, n) == [tag |-> tag, id |-> ToInt16(n)]
Temp(n) == Address("temp", n)
Constant(n) == Address("constant", n)
Immediate(n) == Address("immediate", n)

\* The alternatives of std::variant Step, named by their class.
TACUnary(op, dest, arg_0) == [form |-> "TACUnary", op |-> op, args |-> <<dest, arg_0>>]
TACBinary(op, dest, arg_0, arg_1) ==
  [form |-> "TACBinary", op |-> op, args |-> <<dest, arg_0, arg_1>>]
OperNonary(op) == [form |-> "OperNonary", op |-> op, args |-> << >>]
OperUnary(op, arg_0) == [form |-> "OperUnary", op |-> op, args |-> <<arg_0>>]
OperBinary(op, arg_0, arg_1) ==
  [form |-> "OperBinary", op |-> op, args |-> <<arg_0, arg_1>>]
OperTernary(op, arg_0, arg_1, arg_2) ==
  [form |-> "OperTernary", op |-> op, args |-> <<arg_0, arg_1, arg_2>>]

\* Marks leave no instruction: they tell the emitter which jumps to patch.
MetaOps ==
  {"meta_begin_while", "meta_end_while", "meta_mark_while_check", "meta_mark_break",
   "meta_mark_continue", "meta_begin_if_else", "meta_end_if_else",
   "meta_mark_if_else_check", "meta_mark_if_else_alt"}
IsMeta(step) == step.form = "OperNonary" /\ step.op \in MetaOps

--------------------------------------------------------------------------------
DudBlock == -1

HasBB(cfg, id) == id + 1 \in DOMAIN cfg
GetBB(cfg, id) == cfg[id + 1]
NewestBB(cfg) == Len(cfg) - 1

AddBB(cfg) == Append(cfg, [steps |-> << >>, truthy_id |-> DudBlock, falsy_id |-> DudBlock])

\* Every step is added to the newest block.
AddSteps(cfg, steps) == [cfg EXCEPT ![Len(cfg)].steps = @ \o steps]

LinkTakesLast(cfg, from, to) ==    \* a slip: the later of two links wins
  [cfg EXCEPT ![from + 1].truthy_id = to]

\* The first link of a block is its truthy one, the second its falsy one; any other is
\* dropped, and link_bb reports success all the same.
LinkBB(cfg, from, to) ==
  CASE GetBB(cfg, from).truthy_id = DudBlock -> [cfg EXCEPT ![from + 1].truthy_id = to]
    [] GetBB(cfg, from).truthy_id # DudBlock /\ GetBB(cfg, from).falsy_id = DudBlock ->
         [cfg EXCEPT ![from + 1].falsy_id = to]
    [] OTHER -> cfg

================================================================================
