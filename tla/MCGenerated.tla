------------------------------- MODULE MCGenerated -------------------------------
(***************************************************************************)
(* Every well-formed program of a shape: a prelude that fills main's       *)
(* registers, any two of the units below, and a return; with any of a few  *)
(* callees.  The units hold every instruction and every native function,   *)
(* those the compiler never emits included, on operands of every kind.     *)
(***************************************************************************)
EXTENDS MCEngine

Preludes ==
  { << >>,
    << mov(0, C(0)), mov(1, C(1)) >>,
    << mov(0, C(2)), mov(1, C(2)) >>,
    << mov(0, C(3)), mov(1, C(4)) >>,
    << mov(0, C(5)), mov(1, C(6)) >>,
    << make_seq(0), push(0, C(0)), push(0, C(2)), get(1, 0, C(1)) >>,     \* r1 = the first item
    << make_seq(0), push(0, C(0)), frz(0), get(1, 0, C(0)), get(1, 0, C(1)) >>,
    << make_seq(0), push(0, C(0)), get(1, 0, C(1)), push(0, R(1)), push(0, C(3)) >>,
    << make_seq(0), push(0, R(0)), make_seq(1), push(1, R(0)), push(1, R(2)) >> }

Plain ==
  { <<nop>>, <<make_seq(1)>>, <<push(0, R(1))>>, <<frz(0)>>,
    <<Emit3("seq_obj_pop", R(1), R(0), I(1))>>, <<Emit3("seq_obj_pop", R(2), R(0), I(0))>>,
    <<get(2, 0, R(1))>>, <<Emit2("load_const", R(2), C(1))>>,
    <<mov(0, R(1))>>, <<mov(1, C(0))>>, <<Emit2("mov", R(1), I(0))>>,
    <<op1("neg", R(1))>>, <<op1("inc", R(0))>>, <<op1("dec", R(0))>>, <<op1("halt", I(0))>> }

Binary == { <<op3(op, 2, R(1), R(0))>> : op \in ArithOps \cup CompareOps }

Natives ==
  { << mov(2, R(0)), mov(3, R(1)), native(name, 2) >> :
      name \in {"list_push_back", "list_concat"} }
  \cup { << mov(2, R(0)), native(name, 1) >> :
           name \in {"print", "len_of", "list_pop_back", "list_pop_front"} }
  \cup { <<native(name, 0)>> : name \in {"prompt_int", "prompt_float"} }

Calls ==
  { <<call(1, 0)>>, << mov(2, R(0)), call(1, 1) >>, << mov(2, R(0)), mov(3, R(1)), call(1, 2) >>,
    << mov(2, R(0)), call(0, 1) >> }

Jumps(end) ==
  { <<jump(end)>>, <<jump_else(1, end)>>, <<Emit2("jump_if", R(1), I(end))>> }

Units(end) == Plain \cup Binary \cup Natives \cup Calls \cup Jumps(end)

Callees ==
  { << ret(R(0)) >>,
    << mov(1, R(0)), mov(0, C(0)), ret(R(1)) >>,
    << make_seq(1), push(1, R(0)), ret(R(1)) >> }

\* The last instruction is at the end; a jump there needs to know where that is.
Mains ==
  UNION { { pre \o first \o second \o << ret(R(1)) >> :
              first \in Plain \cup Binary \cup Natives \cup Calls,
              second \in Units(Len(pre) + 2) } : pre \in Preludes }
  \cup UNION { { pre \o first \o second \o << ret(R(1)) >> :
              first \in Jumps(Len(pre) + 2),
              second \in Units(Len(pre) + 2) } : pre \in Preludes }

Generated ==
  { p \in { Program(<<main, callee>>,
                    <<Int32(IntMax), Int32(0), Bool(TRUE), Flt64("nonzero"), Flt64("zero"),
                      Int32(-1), Int32(IntMin)>>, 0) :
              main \in Mains, callee \in Callees } : WellFormed(p) }

================================================================================
