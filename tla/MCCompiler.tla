------------------------------- MODULE MCCompiler -------------------------------
(***************************************************************************)
(* Sources for the model checker that use everything the converter and the *)
(* emitter know, in any order, and some that they refuse or trip over.     *)
(***************************************************************************)
EXTENDS CompilerProperties, Syntax

CompilerNatives == "print" :> 0 @@ "prompt_int" :> 1 @@ "len_of" :> 3

x == name("x")
less == op2(x, "lt", int(3))
grow == set("x", op2(x, "add", int(1)))

--------------------------------------------------------------------------------
\* Statements of a function with a parameter p and a variable x

Plain ==
  { grow, break, return(x), def("y", minus(x)), def("f", x),
    def("xs", list(<<int(1), x>>)), def("t", tuple(<<x, bool(TRUE)>>)),
    do(op2(name("p"), "access", int(0))), do(invoke("print", <<x>>)),
    set("x", invoke("f", <<x, int(1)>>)),
    do(invoke("f", <<invoke("prompt_int", << >>), op2(x, "sub", int(1))>>)) }

\* What the converter refuses though the analyzer does not: a native function that is
\* declared but not registered, a string that reads like a name
Tripping ==
  { do(invoke("gone", <<x>>)), do(list(<<x, string("x")>>)),
    set("x", invoke("f", <<invoke("gone", <<x>>), x>>)), def("s", string("x")) }

\* What the analyzer refuses, ends at, or lets pass because it is in an argument
u == name("u")
Misused ==
  { do(u), do(name("y")), set("p", x), set("f", x), def("x", int(1)), def("p", x), def("h", name("f")),
    assign(int(1), x),
    assign(op2(name("p"), "access", x), u),
    def("e", op2(x, "add", name("f"))), do(op2(x, "access", int(0))),
    def("e", op2(list(<<x>>), "mul", x)),
    def("e", minus(list(<<x>>))), def("e", minus(name("f"))), def("e", minus(tuple(<<u>>))),
    do(invoke("x", << >>)), do(invoke("x", <<x>>)), do(invoke("p", <<x>>)), do(invoke("u", << >>)),
    do(invoke("f", <<x>>)), do(invoke("f", <<x, x, x>>)), do(invoke("print", << >>)),
    do(invoke("f", <<invoke("f", <<x>>), x>>)), do(invoke("f", <<u, x>>)),
    do(invoke("print", <<lambda(<<"a">>, <<return(x)>>)>>)), def("l", lambda(<<"a">>, <<return(x)>>)),
    do(invoke("print", <<int(IntMax + 1)>>)), def("b", int(IntMax + 1)),
    def("m", int(-IntMax - 1)), def("k", invoke("prompt_int", << >>)) }

Leaves == {<< >>, <<grow>>, <<return(x)>>}
Branching == {if(less, b) : b \in Leaves}
             \cup {if_else(less, b, e) : b \in Leaves, e \in Leaves}
             \cup {while(less, b) : b \in Leaves \cup {<<break>>}}

With(s) ==
  { <<s, grow>>, <<while(less, <<s>>)>>, <<if(less, <<s>>)>>,
    <<if_else(less, <<s>>, <<grow>>), grow>>, <<if_else(less, <<grow>>, <<s>>), grow>> }

Bodies ==
  UNION {With(s) : s \in Plain}
  \cup {<<if_else(less, <<grow>>, <<s>>), grow>> : s \in Branching}
  \cup {<<while(less, <<s, grow>>), t>> : s \in Branching, t \in Branching}
  \cup {<<s, while(invoke("f", <<x, x>>), <<t>>)>> : s \in Branching, t \in Branching}

TrippingBodies ==
  UNION {With(s) : s \in Tripping \cup Misused}
  \cup {<<def("h", name("f")), do(invoke("h", <<x, x>>))>>,
        <<def("q", list(<<x>>)), def("e", minus(name("q")))>>,
        <<def("q", tuple(<<x>>)), do(invoke("q", <<x>>))>>,
        <<def("q", invoke("f", <<x, x>>)), do(invoke("q", <<x>>))>>,
        <<if(less, <<def("q", x)>>), return(name("q"))>>,
        <<while(less, <<def("q", x)>>), def("q", int(1))>>}
  \cup {<<if(invoke("gone", <<x>>), << >>)>>, <<while(string("x"), << >>)>>}

--------------------------------------------------------------------------------
\* Functions, stubs and imports around it, in several orders

Natives == << native_stub("print", <<"x">>), native_stub("prompt_int", << >>) >>
f == fun("f", <<"x", "y">>, << return(op2(x, "sub", name("y"))) >>)
g(body) == fun("g", <<"p">>, << def("x", int(0)) >> \o body)
main == fun("main", << >>, << def("x", int(3)), return(invoke("g", <<x>>)) >>)

\* Names that are declared twice, in both orders, and a function without a body
Redeclared ==
  { << f, f, main >>, << f, main, g(<< >>), main >>,
    << f, native_stub("f", <<"x">>), main, g(<< >>) >>, << native_stub("g", << >>), main, g(<< >>) >>,
    << fun("g", <<"p", "p">>, <<return(int(0))>>), main >>,
    << fun("g", <<"f">>, <<return(name("f"))>>), main, f >>,
    << main, fun("g", <<"p", "q">>, << >>) >> }

MixedSources ==
  { << >>, <<import("a")>> \o Natives, << main, import("a"), g(<<return(x)>>) >> }
  \cup UNION {{ << f, g(body), native_stub("len_of", <<"l">>), main >> \o Natives,
                << import("a"), main, g(body) >> \o Natives \o << f >> } : body \in Bodies}
  \cup UNION {{<< f, g(body), main >> \o Natives,
                << native_stub("gone", <<"x">>), g(body), f, main >> \o Natives} :
                 body \in TrippingBodies}
  \cup Redeclared

\* Names and arities that are wrong in an argument only
WrongArguments ==
  { << f, g(<<do(invoke("f", <<e, x>>)), return(x)>>), main >> :
      e \in {x, invoke("f", <<x>>), invoke("f", <<x, x>>), u, op2(x, "add", u)} }

\* Else bodies that branch
NestedElse ==
  {<< g(<<if_else(less, <<grow>>, <<s, grow>>), return(x)>>), main >> : s \in Branching}

================================================================================
