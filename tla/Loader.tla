--------------------------------- MODULE Loader ---------------------------------
(***************************************************************************)
(* Driver::parse_sources: the sources of a program are taken from a stack, *)
(* which the parser pushes the imports of each on, with ids by which their *)
(* texts are found again.                                                  *)
(***************************************************************************)
EXTENDS Integers, Sequences

CONSTANTS
  FileSystems,    \* functions from paths to texts
  MainPath,
  Unit(_)         \* Parser::operator() on a text: its outcome, declarations and imports

VARIABLES
  files,
  sources_frontier,
  visited_paths,
  m_src_map,
  temp_src_id,    \* the next id
  full_ast,
  status          \* "loading", "loaded", or how the parser ended

loaderVars ==
  <<files, sources_frontier, visited_paths, m_src_map, temp_src_id, full_ast, status>>

Texts == {""} \cup UNION {{fs[p] : p \in DOMAIN fs} : fs \in FileSystems}
Failures == {"refused", "terminated"}

ASSUME MainPathAssumption == MainPath \in STRING
IsUnit(unit) ==
  /\ unit.outcome \in {"parsed"} \cup Failures
  /\ unit.imports \in Seq(STRING)
  /\ unit.decls \in Seq({unit.decls[k] : k \in DOMAIN unit.decls})
ASSUME UnitAssumption == \A text \in Texts : IsUnit(Unit(text))

PendingSource(path, id) == [file_path |-> path, src_id |-> id]
SourcedAST(stmt, id) == [stmt_p |-> stmt, src_id |-> id]

LoaderInit ==
  /\ files \in FileSystems
  /\ sources_frontier = <<PendingSource(MainPath, 0)>>
  /\ visited_paths = {}
  /\ m_src_map = << >>
  /\ temp_src_id = 1
  /\ full_ast = << >>
  /\ status = "loading"

--------------------------------------------------------------------------------
\* A file that cannot be opened reads as an empty one.
ReadSource(path) == IF path \in DOMAIN files THEN files[path] ELSE ""

Pending == status = "loading" /\ sources_frontier # << >>
TopSource == sources_frontier[Len(sources_frontier)]
Stored(id, text) ==
  [i \in DOMAIN m_src_map \cup {id} |-> IF i = id THEN text ELSE m_src_map[i]]
FrontierRest == SubSeq(sources_frontier, 1, Len(sources_frontier) - 1)

PendingAllButOne(imports) ==    \* a slip: the last import is not pushed
  [k \in 1 .. Len(imports) - 1 |-> PendingSource(imports[k], temp_src_id + k - 1)]
PendingSameId(imports) ==    \* a slip: the counter moves on after the source only
  [k \in DOMAIN imports |-> PendingSource(imports[k], temp_src_id)]

\* What the parser pushes: the last import comes out first.
PendingImports(imports) ==
  [k \in DOMAIN imports |-> PendingSource(imports[k], temp_src_id + k - 1)]
Sourced(decls, id) == [k \in DOMAIN decls |-> SourcedAST(decls[k], id)]

SkipVisitedNoPop ==    \* a slip: the source stays on the stack
  /\ Pending
  /\ TopSource.file_path \in visited_paths
  /\ UNCHANGED loaderVars

SkipVisited ==
  /\ Pending
  /\ TopSource.file_path \in visited_paths
  /\ sources_frontier' = FrontierRest
  /\ UNCHANGED <<files, visited_paths, m_src_map, temp_src_id, full_ast, status>>

\* The source on top is read and parsed; it is marked as visited when it was accepted.
Adopt(unit) ==
  /\ unit.outcome = "parsed"
  /\ sources_frontier' = FrontierRest \o PendingImports(unit.imports)
  /\ visited_paths' = visited_paths \cup {TopSource.file_path}
  /\ temp_src_id' = temp_src_id + Len(unit.imports)
  /\ full_ast' = full_ast \o Sourced(unit.decls, TopSource.src_id)
  /\ UNCHANGED status

\* What the parser pushed until then is gone with the locals of parse_sources.
Fail(unit) ==
  /\ unit.outcome \in Failures
  /\ status' = unit.outcome
  /\ UNCHANGED <<sources_frontier, visited_paths, temp_src_id, full_ast>>

LoadSourceAgain ==    \* a slip: visited or not
  /\ Pending
  /\ m_src_map' = Stored(TopSource.src_id, ReadSource(TopSource.file_path))
  /\ Adopt(Unit(ReadSource(TopSource.file_path))) \/ Fail(Unit(ReadSource(TopSource.file_path)))
  /\ UNCHANGED files

LoadSource ==
  /\ Pending
  /\ TopSource.file_path \notin visited_paths
  /\ m_src_map' = Stored(TopSource.src_id, ReadSource(TopSource.file_path))
  /\ Adopt(Unit(ReadSource(TopSource.file_path))) \/ Fail(Unit(ReadSource(TopSource.file_path)))
  /\ UNCHANGED files

EndLoading ==
  /\ status = "loading"
  /\ sources_frontier = << >>
  /\ status' = "loaded"
  /\ UNCHANGED <<files, sources_frontier, visited_paths, m_src_map, temp_src_id, full_ast>>

LoaderNext == SkipVisited \/ LoadSource \/ EndLoading

LoaderSpec == LoaderInit /\ [][LoaderNext]_loaderVars

--------------------------------------------------------------------------------
(***************************************************************************)
(* A declaration is kept with the id of the text that it was read from:    *)
(* the offsets of its tokens are looked up in that text long after, by     *)
(* the analyzer, the converter and the messages (parse_import hands out    *)
(* the ids, read_source stores the texts, parse_sources joins the two).    *)
(***************************************************************************)
OwnText ==
  \A k \in DOMAIN full_ast :
    /\ full_ast[k].src_id \in DOMAIN m_src_map
    /\ \E n \in DOMAIN Unit(m_src_map[full_ast[k].src_id]).decls :
         full_ast[k].stmt_p = Unit(m_src_map[full_ast[k].src_id]).decls[n]

(***************************************************************************)
(* The declarations of a source are in the program once each, together and *)
(* in order, and ids and paths stand for each other: what is looked up by  *)
(* an id is in the one source that was given it (parse_sources joins what  *)
(* the parser read, parse_import hands out ids before it is known whether  *)
(* the source will be loaded at all).                                      *)
(***************************************************************************)
DeclsTogether(id) ==
  LET decls == Unit(m_src_map[id]).decls
  IN  \E before \in 0 .. Len(full_ast) - Len(decls) :
        /\ \A k \in DOMAIN full_ast :
             full_ast[k].src_id = id <=> k \in before + 1 .. before + Len(decls)
        /\ \A n \in DOMAIN decls : full_ast[before + n].stmt_p = decls[n]

IdsStandForPaths ==
  \E path \in [DOMAIN m_src_map -> visited_paths] :
    /\ \A i, j \in DOMAIN m_src_map : path[i] = path[j] => i = j
    /\ \A p \in visited_paths : \E i \in DOMAIN m_src_map : p = path[i]
    /\ \A i \in DOMAIN m_src_map : m_src_map[i] = ReadSource(path[i])

UnitsWhole ==
  status \notin Failures =>
    (\A id \in DOMAIN m_src_map : DeclsTogether(id)) /\ IdsStandForPaths

(***************************************************************************)
(* The loader implements the closure: it loads a source only if the main   *)
(* one or a loaded one imports it, none twice, and ends when every import  *)
(* of every loaded source is loaded, whatever the order (parse_sources).   *)
(***************************************************************************)
Closure == INSTANCE ImportClosure WITH loaded <- visited_paths
ClosureSpec == Closure!ClosureSpec

(***************************************************************************)
(* Each turn of the loop brings loading nearer to its end: it marks one    *)
(* more of the paths that are imported, or it leaves the marks alone and   *)
(* makes the stack shorter, however often a path is pushed (parse_sources).*)
(***************************************************************************)
LoadingProgresses ==
  [][status' = "loading" =>
       \/ \E p \in Closure!Wanted(visited_paths) \ visited_paths :
            visited_paths' = visited_paths \cup {p}
       \/ /\ visited_paths' = visited_paths
          /\ Len(sources_frontier') < Len(sources_frontier)]_loaderVars

================================================================================
