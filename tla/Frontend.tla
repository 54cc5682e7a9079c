-------------------------------- MODULE Frontend --------------------------------
(***************************************************************************)
(* Driver::operator() from a path to a program: the loader hands all       *)
(* declarations to the compiler in the order in which it loaded them.      *)
(***************************************************************************)
EXTENDS Loader, Compiler

frontendVars == <<loaderVars, compilerVars>>

FrontendInit ==
  /\ LoaderInit
  /\ ast = << >>
  /\ stage = "load"
  /\ pos = 1
  /\ an = NewAnalyzer
  /\ cv = NewConversion
  /\ em = NewEmitter

LoadStep == stage = "load" /\ LoaderNext /\ UNCHANGED compilerVars

HandOver ==
  /\ stage = "load"
  /\ status = "loaded"
  /\ ast' = [k \in DOMAIN full_ast |-> full_ast[k].stmt_p]
  /\ stage' = "declare"
  /\ UNCHANGED <<loaderVars, pos, an, cv, em>>

CompileLoaded == stage # "load" /\ CompilerNext /\ UNCHANGED loaderVars

FrontendNext == LoadStep \/ HandOver \/ CompileLoaded

\* The loop of parse_sources runs on one thread and waits for nothing.
FrontendSpec ==
  FrontendInit /\ [][FrontendNext]_frontendVars /\ WF_loaderVars(LoadStep)

================================================================================
