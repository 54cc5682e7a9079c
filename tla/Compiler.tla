-------------------------------- MODULE Compiler --------------------------------
(***************************************************************************)
(* The pipeline of Driver::operator() from an AST to a program: two passes *)
(* of the analyzer and two of the converter over the declarations, then    *)
(* one chunk for each graph.                                               *)
(***************************************************************************)
EXTENDS Analyzer, Converter, Emission

CONSTANT Sources    \* ASTs: sequences of declarations

VARIABLES
  ast,
  an        \* the Analyzer object

compilerVars == <<ast, stage, pos, an, cv, em>>

Stages == {"declare", "check", "prepass", "convert", "emit",
           "invalid", "rejected", "crashed", "done"}

CompilerInit ==
  /\ ast \in Sources
  /\ stage = "declare"
  /\ pos = 1
  /\ an = NewAnalyzer
  /\ cv = NewConversion
  /\ em = NewEmitter

--------------------------------------------------------------------------------
\* Analyzer::operator(): a declaration that fails ends the analysis.
Analyzed(result) ==
  /\ an' = [an EXCEPT !.scopes = result.scopes]
  /\ stage' = CASE result.verdict = "accepted" -> stage
                [] result.verdict = "refused" -> "invalid"
                [] result.verdict = "ended" -> "crashed"

AnalyzeDecl ==
  /\ stage \in {"declare", "check"}
  /\ pos <= Len(ast)
  /\ Analyzed(CheckDecl(an, ast[pos]))
  /\ pos' = pos + 1
  /\ UNCHANGED <<ast, cv, em>>

EndDeclarations ==
  /\ stage = "declare"
  /\ pos > Len(ast)
  /\ stage' = "check"
  /\ pos' = 1
  /\ an' = [an EXCEPT !.prepassing = FALSE]
  /\ UNCHANGED <<ast, cv, em>>

\* The analyzer is local to check_semantics, and gone after it.
EndAnalysis ==
  /\ stage = "check"
  /\ pos > Len(ast)
  /\ stage' = "prepass"
  /\ pos' = 1
  /\ an' = NewAnalyzer
  /\ UNCHANGED <<ast, cv, em>>

--------------------------------------------------------------------------------
Converted(result) ==
  /\ cv' = result.cv
  /\ stage' = CASE result.cv.crashed -> "crashed"
                [] ~result.cv.crashed /\ ~result.ok -> "rejected"
                [] OTHER -> stage

\* ASTConversion::operator(): a declaration that fails ends the conversion.
ConvertDecl ==
  /\ stage \in {"prepass", "convert"}
  /\ pos <= Len(ast)
  /\ Converted(EmitDecl(cv, ast[pos]))
  /\ pos' = pos + 1
  /\ UNCHANGED <<ast, an, em>>

EndPrepass ==
  /\ stage = "prepass"
  /\ pos > Len(ast)
  /\ stage' = "convert"
  /\ pos' = 1
  /\ cv' = [cv EXCEPT !.prepassing = FALSE]
  /\ UNCHANGED <<ast, an, em>>

EndConversionAtLast ==    \* a slip: the emitter starts where the converter ended
  /\ stage = "convert"
  /\ pos > Len(ast)
  /\ stage' = IF cv.error_count > 0 THEN "rejected" ELSE "emit"
  /\ UNCHANGED <<ast, pos, an, cv, em>>

EndConversion ==
  /\ stage = "convert"
  /\ pos > Len(ast)
  /\ stage' = IF cv.error_count > 0 THEN "rejected" ELSE "emit"
  /\ pos' = 1
  /\ UNCHANGED <<ast, an, cv, em>>

CompilerNext ==
  \/ AnalyzeDecl
  \/ EndDeclarations
  \/ EndAnalysis
  \/ ConvertDecl
  \/ EndPrepass
  \/ EndConversion
  \/ EmitNextChunk /\ UNCHANGED <<ast, an>>
  \/ EndEmission /\ UNCHANGED <<ast, an>>

CompilerSpec == CompilerInit /\ [][CompilerNext]_compilerVars

================================================================================
