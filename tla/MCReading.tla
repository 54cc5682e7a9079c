------------------------------- MODULE MCReading -------------------------------
(***************************************************************************)
(* Texts for the model checker: sources written out by the grammar, such   *)
(* texts with one word wrong, and programs of several files; and what is   *)
(* right about reading them.                                               *)
(***************************************************************************)
EXTENDS Frontend, Parser, Grammar, MCCompiler
LOCAL INSTANCE SequencesExt

OneFile(text) == [main |-> text]
Text(decls) == Spaced(SourceWords(decls))

--------------------------------------------------------------------------------
\* Every two binary operators in both nestings, and the other expressions in an operand

Returning(e) == << fun("main", << >>, <<return(e)>>) >>
BinaryOps == DOMAIN Symbol \ {"access"}
y == name("y")

Operands2 ==
  { minus(x), invoke("f", << >>), invoke("f", <<op2(x, "lt", y), minus(int(1))>>), minus(invoke("f", <<x>>)),
    op2(x, "access", int(0)), op2(tuple(<<x>>), "access", op2(x, "sub", int(1))),
    op2(op2(x, "access", y), "access", int(0)), op2(x, "access", op2(y, "access", int(0))),
    op2(x, "access", invoke("f", <<y>>)), Call(op2(x, "access", y), <<x>>),
    list(<< >>), list(<<op2(x, "equ", y), string("x + y")>>), tuple(<<bool(TRUE), double("0.5", "nonzero")>>),
    double("0.0", "zero"), int(-1), minus(minus(x)), lambda(<<"x", "y">>, <<return(op2(x, "mul", y))>>) }

Expressions ==
  UNION {{op2(op2(x, p, y), q, int(2)), op2(x, p, op2(y, q, int(2)))} : p \in BinaryOps, q \in BinaryOps}
  \cup UNION {{op2(e, q, y), op2(y, q, e)} : e \in Operands2, q \in {"lt", "sub", "mul"}}
  \cup {minus(op2(x, q, y)) : q \in BinaryOps}

WrittenSources ==
  {Returning(e) : e \in Expressions}
  \cup {<< f, import("none"), g(body), native_stub("len_of", <<"l">>), main >> \o Natives :
          body \in UNION {With(s) : s \in Plain \cup Tripping \cup Misused}}
  \cup Redeclared

Written == {OneFile(Text(source)) : source \in WrittenSources}

--------------------------------------------------------------------------------
\* Texts with a word replaced, inserted or left out

Sample ==
  SourceWords(
    << import("none"), native_stub("print", <<"x">>),
       fun("f", <<"p", "q">>,
         << if_else(op2(name("p"), "lt", int(1)), <<return(list(<<x, int(1)>>))>>,
                    <<assign(op2(x, "access", int(0)), invoke("f", <<x, minus(op2(x, "add", y))>>))>>) >>),
       fun("main", << >>, << def("x", lambda(<<"y">>, << >>)), while(x, <<break>>) >>) >>)

WrongWords == {"fun", "}", "{", "@", "import", "(", ")", ",", "1", "x", "-", "="}

Miswritten ==
  {OneFile(Spaced(words)) : words \in
     {RemoveAt(Sample, k) : k \in DOMAIN Sample}
     \cup UNION {{ReplaceAt(Sample, k, w), InsertAt(Sample, k, w)} : k \in DOMAIN Sample, w \in WrongWords}}

--------------------------------------------------------------------------------
\* Three files that import each other, themselves or none, once or twice, in any order

ImportLists == UNION {[1 .. k -> {"main", "a", "b", "none"}] : k \in 0 .. 2}
Module(imports, decl) == Text([k \in DOMAIN imports |-> import(imports[k])] \o <<decl>>)

MainTexts ==
  {Module(i, fun("main", << >>, <<return(invoke("a", << >>))>>)) : i \in ImportLists}
ATexts == {Module(i, fun("a", << >>, <<return(int(1))>>)) : i \in ImportLists}
BTexts ==
  {Module(i, fun("b", << >>, <<return(int(2))>>)) : i \in {<< >>, <<"a">>, <<"b", "main">>}}
  \cup {"fun b : [ => { } import \"a\" ", "import \"a\" fun b : [ => { ? }"}

Linked == [main : MainTexts, a : ATexts, b : BTexts]

ReadFiles == Written \cup Miswritten \cup Linked

\* The texts are parsed once: @@ is a table where a function alone would be a formula.
ParsedTexts == [text \in Texts |-> ParseUnit(text)] @@ << >>
UnitOf(text) == ParsedTexts[text]

--------------------------------------------------------------------------------
\* The texts of an id, and its declarations
DeclsOf(id) ==
  LET items == SelectSeq(full_ast, LAMBDA item : item.src_id = id)
  IN  [k \in DOMAIN items |-> items[k].stmt_p]

Loaded == stage = "load" /\ status = "loaded"

(***************************************************************************)
(* A source is read as what the grammar says it is: writing what was read  *)
(* gives the text, so precedence, association and nesting are those of     *)
(* docs/grammar.md, and nothing is refused (parsing.cpp, lexing.cpp).      *)
(***************************************************************************)
MeansSource ==
  files \in Written =>
    /\ status \in {"loading", "loaded"}
    /\ Loaded => Text(DeclsOf(0)) = files["main"]

(***************************************************************************)
(* No text is accepted in part: the words of an accepted source are those  *)
(* of its declarations, parentheses aside, so that an error is never       *)
(* skipped over by the recovery (parse_program, recover).  A block may end *)
(* with the source, which leaves braces open.                              *)
(***************************************************************************)
Unwrapped(text) ==
  SelectSeq(Tokens(text), LAMBDA token : token.type \notin {"open_paren", "close_paren"})
Number(type, text) == Len(SelectSeq(Tokens(text), LAMBDA token : token.type = type))
ReadsBack ==
  Loaded =>
    \A id \in DOMAIN m_src_map :
      Number("open_brace", m_src_map[id]) = Number("close_brace", m_src_map[id]) =>
        Unwrapped(m_src_map[id]) = Unwrapped(Text(DeclsOf(id)))

(***************************************************************************)
(* Importing a file twice, in a circle or not at all neither declares a    *)
(* function twice nor loses one: a program is refused only if what it      *)
(* calls is in no file that was loaded (which are those it imports, by     *)
(* ClosureSpec), and otherwise each of them but the empty one has its chunk*)
(* (parse_sources, Analyzer::operator()).                                  *)
(***************************************************************************)
LinkedOnce ==
  files \in Linked /\ stage \in {"invalid", "rejected", "crashed", "done"} =>
    LET sources == visited_paths \ {"none"}
    IN  /\ stage = IF "a" \in sources THEN "done" ELSE "invalid"
        /\ stage = "done" => Len(em.chunks) = Cardinality(sources)

(***************************************************************************)
(* Loading ends, though files import each other and themselves: a source   *)
(* is left out the second time only because it was marked (parse_sources). *)
(***************************************************************************)
LoadingEnds == <>(status # "loading")

================================================================================
