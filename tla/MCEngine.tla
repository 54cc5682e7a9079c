-------------------------------- MODULE MCEngine --------------------------------
(***************************************************************************)
(* Compiled programs for the model checker: the instructions the compiler  *)
(* emits for the Minuet source in each comment, with the results that      *)
(* source means.  Register 1 of main keeps the number that was read.       *)
(***************************************************************************)
EXTENDS EngineProperties

\* The programs of every run are well-formed, which the theorems about programs assume.
ASSUME ProgramsWellFormed == AllWellFormed

op1(op, a) == Emit1(op, a)
mov(d, s) == Emit2("mov", R(d), s)
op3(op, d, a, b) == Emit3(op, R(d), a, b)
jump(ip) == Emit1("jump", I(ip))
jump_else(r, ip) == Emit2("jump_else", R(r), I(ip))
call(f, n) == Emit2("call", I(f), I(n))
ret(a) == Emit1("ret", a)
nop == Emit0("nop")
make_seq(d) == Emit1("make_seq", R(d))
push(d, a) == Emit3("seq_obj_push", R(d), a, I(1))
get(d, s, i) == Emit3("seq_obj_get", R(d), R(s), i)
frz(d) == Emit1("frz_seq_obj", R(d))

\* native_call by name
native(name, n) ==
  Emit2("native_call", I((CHOOSE i \in DOMAIN NativeTable : NativeTable[i] = name) - 1), I(n))

Program(chunks, constants, entry) ==
  [chunks |-> chunks, constants |-> constants, entry_id |-> entry]

--------------------------------------------------------------------------------
\* Recursion

\* fun fib: [n] => { if n < 2 { return n } return fib(n - 1) + fib(n - 2) }
\* fun main: [] => { def z = 0 def n = prompt_int() def r = fib(n) print(r) return r }
FibProgram ==
  Program(
    << << op3("lt", 1, R(0), C(0)), jump_else(1, 3), ret(R(0)), nop,
          op3("sub", 2, R(0), C(1)), mov(3, R(2)), call(0, 1),
          op3("sub", 4, R(0), C(0)), mov(5, R(4)), call(0, 1),
          op3("add", 6, R(3), R(5)), ret(R(6)) >>,
       << mov(0, C(2)), native("prompt_int", 0), mov(1, R(1)),
          mov(2, R(1)), call(0, 1), mov(3, R(2)),
          mov(4, R(3)), native("print", 1), ret(R(3)) >> >>,
    <<Int32(2), Int32(1), Int32(0)>>, 1)

\* fun fact: [n] => { if n < 2 { return 1 } return n * fact(n - 1) }
\* fun main: [] => { def z = 0 def n = prompt_int() return fact(n) }
FactProgram ==
  Program(
    << << op3("lt", 1, R(0), C(0)), jump_else(1, 3), ret(C(1)), nop,
          op3("sub", 2, R(0), C(1)), mov(3, R(2)), call(0, 1),
          op3("mul", 4, R(0), R(3)), ret(R(4)) >>,
       << mov(0, C(2)), native("prompt_int", 0), mov(1, R(1)),
          mov(2, R(1)), call(0, 1), ret(R(2)) >> >>,
    <<Int32(2), Int32(1), Int32(0)>>, 1)

\* fun even: [n] => { if n == 0 { return 1 } return odd(n - 1) } and odd the other way round
\* (one function calls the other before either returns);
\* fun main: [] => { def z = 0 def n = prompt_int() return even(n) }
ParityChunk(other, last) ==
  << op3("equ", 1, R(0), C(0)), jump_else(1, 3), ret(last), nop,
     op3("sub", 2, R(0), C(1)), mov(3, R(2)), call(other, 1), ret(R(3)) >>
ParityProgram ==
  Program(
    << ParityChunk(1, C(1)), ParityChunk(0, C(0)),
       << mov(0, C(0)), native("prompt_int", 0), mov(1, R(1)),
          mov(2, R(1)), call(0, 1), ret(R(2)) >> >>,
    <<Int32(0), Int32(1)>>, 2)

Recursion == {FibProgram, FactProgram, ParityProgram}

Fib[n \in Int] == IF n < 2 THEN n ELSE Wrap(Fib[n - 1] + Fib[n - 2])
Fact[n \in Int] == IF n < 2 THEN 1 ELSE Wrap(n * Fact[n - 1])

Means(n) ==
  CASE prgm = FibProgram -> Fib[n]
    [] prgm = FactProgram -> Fact[n]
    [] prgm = ParityProgram -> IF n % 2 = 0 THEN 1 ELSE 0

(***************************************************************************)
(* A recursive function returns what its source means: main's result is    *)
(* the value of the function at the number that was read, and the engine   *)
(* reports ok exactly when that is zero (handle_call, handle_ret, the      *)
(* arithmetic handlers).                                                   *)
(***************************************************************************)
RecursionMeans ==
  exit # Running =>
    LET result == Means(m_memory[1].scalar_v)
    IN  /\ m_memory[0] = Int32(result)
        /\ exit = IF result = 0 THEN "ok" ELSE "user_error"

================================================================================
