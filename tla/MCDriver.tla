-------------------------------- MODULE MCDriver --------------------------------
(***************************************************************************)
(* Sources for the model checker that read a number, call a function with  *)
(* it and end with an int.  Register 1 of main keeps the number.           *)
(***************************************************************************)
EXTENDS Driver, Syntax

NativeProcIds ==
  [x \in {NativeTable[i] : i \in DOMAIN NativeTable} |->
     (CHOOSE i \in DOMAIN NativeTable : NativeTable[i] = x) - 1]

n == name("n")
r == name("r")
i == name("i")
lt(a, b) == op2(a, "lt", b)
gt(a, b) == op2(a, "gt", b)
eq(a, b) == op2(a, "equ", b)
add(a, b) == op2(a, "add", b)
sub(a, b) == op2(a, "sub", b)
mul(a, b) == op2(a, "mul", b)

Main(body) ==
  fun("main", << >>, << def("z", int(0)), def("n", invoke("prompt_int", << >>)) >> \o body)
Stubs == << import("stdlib/stdio.mnl"), native_stub("print", <<"x">>), native_stub("prompt_int", << >>) >>
CallF == Main(<< return(invoke("f", <<n>>)) >>)

--------------------------------------------------------------------------------
\* Every function of a shape: ifs, elses and loops, two deep, with what they may hold

inc == set("r", add(r, int(1)))
out == return(i)
loop(body) == while(gt(i, int(0)), << set("i", sub(i, int(1))) >> \o body)

Leaves == {<< >>, <<inc>>, <<out>>}
LoopLeaves == Leaves \cup {<<break>>}

Branching(leaves) ==
  {if(gt(i, int(1)), b) : b \in leaves}
  \cup {if_else(gt(i, int(1)), b, e) : b \in leaves, e \in leaves}
  \cup {loop(b) : b \in LoopLeaves}

Nested ==
  {<< if(lt(r, int(2)), <<s>>), inc >> : s \in Branching(Leaves)}
  \cup {<< if_else(lt(i, int(2)), <<inc>>, e), s >> : s \in Branching(Leaves), e \in Leaves}
  \cup {<< if_else(gt(i, int(0)), <<s>>, e) >> : s \in Branching(Leaves), e \in {<< >>, <<out>>}}
  \cup {<< loop(<<s, inc>>) >> : s \in Branching(LoopLeaves)}
  \cup {<< loop(<<inc, if(lt(r, int(3)), <<s>>)>>), inc >> : s \in Branching(LoopLeaves)}
  \cup {<< s, t >> : s \in Branching(Leaves), t \in Branching({<<inc>>, <<out>>})}

Shaped ==
  {<< fun("f", <<"n">>, << def("r", int(0)), def("i", n) >> \o body \o << return(r) >>), CallF >> :
     body \in Nested}

--------------------------------------------------------------------------------
\* Recursion, with main before and after what it calls

FibSource ==
  << fun("f", <<"n">>, << if(lt(n, int(2)), <<return(n)>>),
       return(add(invoke("f", <<sub(n, int(1))>>), invoke("f", <<sub(n, int(2))>>))) >>),
     CallF >>

ParitySource ==
  << CallF,
     fun("f", <<"n">>, << if(eq(n, int(0)), <<return(int(1))>>),
       return(invoke("odd", <<sub(n, int(1))>>)) >>),
     fun("odd", <<"n">>, << if(eq(n, int(0)), <<return(int(0))>>),
       return(invoke("f", <<sub(n, int(1))>>)) >>) >>

\* test_suite/simple, with the number that was read in place of a literal
Arithmetic ==
  << fun("sumGaussN", <<"n">>, << return(op2(mul(n, add(n, int(1))), "div", int(2))) >>),
     fun("avgTwo", <<"x", "y">>, << return(op2(add(name("x"), name("y")), "div", int(2))) >>),
     Main(<< def("ans", invoke("sumGaussN", <<n>>)),
             def("avg", invoke("avgTwo", <<name("ans"), n>>)),
             if(op2(name("ans"), "neq", int(6)), << return(name("avg")) >>), return(int(0)) >>) >>

FibonacciIter ==
  << fun("iter_fib", <<"n">>,
       << def("iter", n), def("temp", int(0)), def("a", int(0)), def("b", int(1)),
          while(gt(name("iter"), int(0)),
            << set("temp", name("a")), set("a", name("b")), set("b", add(name("temp"), name("b"))),
               set("iter", sub(name("iter"), int(1))) >>),
          return(name("a")) >>),
     Main(<< def("ans", invoke("iter_fib", <<n>>)), do(invoke("print", <<name("ans")>>)),
             return(name("ans")) >>) >>

IsPrime ==
  << fun("isPrime", <<"n">>,
       << def("factor", op2(n, "div", int(2))), def("ans", bool(TRUE)),
          while(gt(name("factor"), int(1)),
            << if(eq(op2(n, "mod", name("factor")), int(0)), << set("ans", bool(FALSE)), break >>),
               set("factor", sub(name("factor"), int(1))) >>),
          return(name("ans")) >>),
     Main(<< if(eq(invoke("isPrime", <<n>>), bool(FALSE)), <<return(int(0))>>),
             return(int(1)) >>) >>

MoreSums ==
  << fun("sumMultiples", <<"n", "low", "high">>,
       << def("curr_n", name("low")), def("curr_sum", int(0)),
          while(op2(name("curr_n"), "lte", name("high")),
            << if(eq(op2(name("curr_n"), "mod", n), int(0)),
                  << set("curr_sum", add(name("curr_sum"), name("curr_n"))) >>),
               set("curr_n", add(name("curr_n"), int(1))) >>),
          return(name("curr_sum")) >>),
     Main(<< return(invoke("sumMultiples", <<int(2), int(1), n>>)) >>) >>

NestedLoops ==
  << fun("loop_de_loop", <<"n">>,
       << def("i", int(0)), def("j", int(0)), def("ans", int(0)),
          while(lt(i, n),
            << while(lt(name("j"), n),
                 << set("ans", add(name("ans"), int(1))), set("j", add(name("j"), int(1))) >>),
               set("i", add(i, int(1))), set("j", int(0)) >>),
          return(name("ans")) >>),
     Main(<< def("count", invoke("loop_de_loop", <<n>>)), do(invoke("print", <<name("count")>>)),
             return(name("count")) >>) >>

NumberSources ==
  {source \o Stubs : source \in Shaped \cup
     {FibSource, ParitySource, Arithmetic, FibonacciIter, IsPrime, MoreSums, NestedLoops}}

--------------------------------------------------------------------------------
\* Lists and tuples, which the evaluator knows nothing of

xs == name("xs")
ys == name("ys")
item(l, k) == op2(l, "access", int(k))
ListStubs ==
  Stubs \o << native_stub("len_of", <<"l">>), native_stub("list_push_back", <<"l", "x">>),
              native_stub("list_pop_back", <<"l">>), native_stub("list_pop_front", <<"l">>),
              native_stub("list_concat", <<"l", "m">>) >>

\* A list is filled and drained by functions it is passed to.
FillAndSum ==
  << fun("fill", <<"xs", "n">>,
       << if(lt(n, int(1)), << return(int(0)) >>), def("m", sub(n, int(1))),
          do(invoke("list_push_back", <<xs, n>>)), return(invoke("fill", <<xs, name("m")>>)) >>),
     fun("sum", <<"xs">>,
       << def("l", invoke("len_of", <<xs>>)), if(lt(name("l"), int(1)), << return(int(0)) >>),
          def("x", invoke("list_pop_front", <<xs>>)), def("y", invoke("sum", <<xs>>)),
          return(add(name("x"), name("y"))) >>),
     Main(<< def("xs", list(<< >>)), def("r", invoke("fill", <<xs, n>>)),
             return(invoke("sum", <<xs>>)) >>) >> \o ListStubs

\* Lists that are written and concatenated to each other
ConcatAndWrite ==
  << Main(<< def("xs", list(<<n>>)), def("ys", list(<<int(1), int(2)>>)),
             do(invoke("list_concat", <<xs, ys>>)),
             assign(item(xs, 1), n),
             do(invoke("list_concat", <<ys, xs>>)),
             def("t", invoke("list_pop_back", <<xs>>)), def("u", invoke("list_pop_back", <<xs>>)),
             def("v", invoke("list_pop_front", <<ys>>)), def("l", invoke("len_of", <<ys>>)),
             def("w", item(ys, 2)),
             if(op2(name("l"), "neq", int(4)), << return(int(77)) >>),
             return(add(name("t"), name("u"))) >>) >> \o ListStubs

\* A tuple whose item is written, and one of four attempts to resize it
ChangeTuple ==
  << Main(<< def("t", tuple(<<n, int(1)>>)),
             assign(item(name("t"), 1), n),
             do(invoke("print", <<name("t")>>)),
             if(eq(n, int(1)), << do(invoke("list_push_back", <<name("t"), n>>)) >>),
             if(eq(n, int(2)), << def("x", invoke("list_pop_back", <<name("t")>>)) >>),
             if(eq(n, int(3)), << def("y", invoke("list_pop_front", <<name("t")>>)) >>),
             if(eq(n, int(4)), << do(invoke("list_concat", <<name("t"), name("t")>>)) >>),
             return(int(0)) >>) >> \o ListStubs

\* Three lists fill the heap, the return of id collects them, and two more take the cells of
\* the first two.
ReuseCells ==
  << fun("id", <<"x">>, << return(name("x")) >>),
     Main(<< def("a", list(<< >>)), def("b", list(<< >>)), def("c", list(<< >>)),
             def("r", invoke("id", <<n>>)), def("d", list(<<r>>)), def("e", list(<<n, r>>)),
             return(int(0)) >>) >> \o ListStubs

ListSources == {FillAndSum, ConcatAndWrite, ChangeTuple, ReuseCells}

RunnableSources == NumberSources \cup ListSources

--------------------------------------------------------------------------------
\* A source of which the compiler and the engine make something else: the result of t
\* replaces the list that is being filled.
TupleInList ==
  << fun("t", << >>, << return(tuple(<<int(1), int(2)>>)) >>),
     fun("g", << >>, << def("xs", list(<<invoke("t", << >>)>>)), return(name("xs")) >>),
     fun("main", << >>, << def("z", int(0)), def("ys", invoke("g", << >>)), return(int(0)) >>) >>

PushSources == {TupleInList}

(***************************************************************************)
(* Each of these sources is compiled, and the program means what it does:  *)
(* main's result is the value an evaluator of the AST gives it on the      *)
(* number that was read, and the driver reports success exactly when that  *)
(* is zero.  Parameters, results, branches, loops, breaks and returns all  *)
(* have to be where the engine looks for them (convert_ast.cpp,            *)
(* emitter.cpp, vm.cpp).                                                   *)
(***************************************************************************)
ProgramMeans ==
  /\ stage \notin {"invalid", "rejected", "crashed"}
  /\ stage = "run" /\ exit # Running /\ ast \in NumberSources =>
       LET result == Called(ast, "main", << >>, m_memory[1].scalar_v)
       IN  /\ m_memory[0] = result
           /\ exit = IF result = Int32(0) THEN "ok" ELSE "user_error"

(***************************************************************************)
(* The code of these sources, every function of which ends in a return, is *)
(* such that no input can lead it astray, and not only none of these: no   *)
(* chunk is run off, and only chunks, natives and constants that are there *)
(* are named; and without lists nothing is left to be undefined but calls  *)
(* that are too deep and a division (emit_function and record_name_aa      *)
(* number what is named, emit_if and emit_while say where code goes on).   *)
(***************************************************************************)
CompiledIsSafe ==
  stage = "run" => Closed(prgm) /\ (ast \in NumberSources => Numeric(prgm))

Triangle[k \in Int] == IF k < 1 THEN 0 ELSE k + Triangle[k - 1]

(***************************************************************************)
(* Lists mean what the source says: items come out in the order and number *)
(* they went in, a list is shared with the function it is passed to and is *)
(* not with one it was concatenated to, a write to an item reaches the list*)
(* only, every attempt to resize a tuple stops the program with an error   *)
(* and leaves its two items, and lists made after a collection are new     *)
(* ones in the cells it freed (mnl_lists.cpp, handle_seq_obj_get,          *)
(* handle_mov, try_create_value).                                          *)
(***************************************************************************)
ListsMean ==
  stage = "run" /\ exit # Running =>
    LET input == m_memory[1].scalar_v
        result == m_memory[0]
        Items(cell) == m_heap.objects[cell].items
        both == <<Int32(input), Int32(input)>>
    IN  /\ ast = FillAndSum => result = Int32(Triangle[input])
        /\ ast = ConcatAndWrite =>
             /\ result = Int32(2 + input)
             /\ Items(0) = <<Int32(input)>>
             /\ Items(1) = <<Int32(2)>> \o both \o <<Int32(2)>>
        /\ ast = ChangeTuple =>
             /\ Items(0) = both
             /\ exit = IF input \in 1 .. 4 THEN "op_error" ELSE "ok"
        /\ ast = ReuseCells =>
             Items(0) = <<Int32(input)>> /\ Items(1) = both /\ m_heap.objects[2] = Null

================================================================================
