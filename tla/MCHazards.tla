-------------------------------- MODULE MCHazards --------------------------------
(***************************************************************************)
(* Compiled programs that show where the engine departs from what its      *)
(* documents and comments say.                                             *)
(***************************************************************************)
EXTENDS MCEngine

\* fun id: [x] => { return x }
\* fun main: [] => { def xs = {1} def ys = {xs} def r = id(0) print(xs) return r }
KeepLists ==
  Program(
    << << ret(R(0)) >>,
       << make_seq(0), push(0, C(0)), mov(1, R(0)), make_seq(2), push(2, R(1)), mov(3, R(2)),
          mov(4, C(1)), call(0, 1), mov(5, R(4)), mov(6, R(1)), native("print", 1),
          ret(R(5)) >> >>,
    <<Int32(1), Int32(0)>>, 1)

\* fun dbl: [x] => { return x + x }
\* fun main: [] => { def i = 0 def acc = 0
\*                   while i < 2 { i = i + 1 acc = acc + dbl(i) } return acc }
CallInLoop ==
  Program(
    << << op3("add", 1, R(0), R(0)), ret(R(1)) >>,
       << mov(0, C(0)), mov(1, C(0)), nop,
          op3("lt", 2, R(0), C(1)), jump_else(2, 12),
          op3("add", 3, R(0), C(2)), mov(0, R(3)), mov(4, R(0)), call(0, 1),
          op3("add", 5, R(1), R(4)), mov(1, R(5)), jump(2), nop, ret(R(1)) >> >>,
    <<Int32(0), Int32(2), Int32(1)>>, 1)

HazardPrograms == {KeepLists, CallInLoop}

================================================================================
