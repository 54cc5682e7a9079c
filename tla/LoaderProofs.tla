------------------------------- MODULE LoaderProofs -------------------------------
(***************************************************************************)
(* Loading, for every set of files, whatever their texts parse to: the     *)
(* stack of sources implements the closure of the imports, and ids keep    *)
(* declarations and texts together.                                        *)
(***************************************************************************)
EXTENDS Loader, SequenceTheorems, TLAPS

PendingSources == [file_path : STRING, src_id : Nat]

LoaderTypeOK ==
  /\ files \in FileSystems
  /\ sources_frontier \in Seq(PendingSources)
  /\ visited_paths \subseteq STRING
  /\ temp_src_id \in Nat
  /\ DOMAIN m_src_map \subseteq 0 .. temp_src_id - 1
  /\ full_ast \in Seq({full_ast[k] : k \in DOMAIN full_ast})

\* No source that waits has the id of another or of a text that is stored.
IdsFresh ==
  status = "loading" =>
    /\ \A k \in DOMAIN sources_frontier :
         /\ sources_frontier[k].src_id < temp_src_id
         /\ sources_frontier[k].src_id \notin DOMAIN m_src_map
    /\ \A j, k \in DOMAIN sources_frontier :
         sources_frontier[j].src_id = sources_frontier[k].src_id => j = k

OnlyWanted ==
  \A k \in DOMAIN sources_frontier :
    sources_frontier[k].file_path \in Closure!Wanted(visited_paths)

NothingForgotten ==
  \A p \in Closure!Wanted(visited_paths) :
    \/ p \in visited_paths
    \/ \E k \in DOMAIN sources_frontier : p = sources_frontier[k].file_path

LoaderInv == LoaderTypeOK /\ IdsFresh /\ OnlyWanted /\ NothingForgotten /\ OwnText

--------------------------------------------------------------------------------
(***************************************************************************)
(* What a parsed source pushes: a waiting source for each import, with the *)
(* next ids in order (parse_import).                                       *)
(***************************************************************************)
LEMMA ImportsPushed ==
  ASSUME temp_src_id \in Nat, NEW imports \in Seq(STRING)
  PROVE  /\ PendingImports(imports) \in Seq(PendingSources)
         /\ Len(PendingImports(imports)) = Len(imports)
         /\ Len(imports) \in Nat
         /\ DOMAIN imports = 1 .. Len(imports)
         /\ \A k \in 1 .. Len(imports) :
              /\ PendingImports(imports)[k].file_path = imports[k]
              /\ PendingImports(imports)[k].src_id = temp_src_id + k - 1
<1>1. Len(imports) \in Nat /\ DOMAIN imports = 1 .. Len(imports) /\ \A k \in 1 .. Len(imports) : imports[k] \in STRING
  BY LenProperties, ElementOfSeq
<1>2. PendingImports(imports) \in [1 .. Len(imports) -> PendingSources]
  BY <1>1 DEF PendingImports, PendingSource, PendingSources
<1>3. PendingImports(imports) \in Seq(PendingSources)
  BY <1>1, <1>2, SeqDef
<1>4. DOMAIN PendingImports(imports) = 1 .. Len(PendingImports(imports)) /\ Len(PendingImports(imports)) \in Nat
  BY <1>3, LenProperties
<1>5. Len(PendingImports(imports)) = Len(imports)
  BY <1>1, <1>2, <1>4
<1> QED
  BY <1>1, <1>3, <1>5 DEF PendingImports, PendingSource

--------------------------------------------------------------------------------
(***************************************************************************)
(* What is read at any path can be parsed, a missing file too.             *)
(***************************************************************************)
LEMMA ReadUnits ==
  ASSUME files \in FileSystems, NEW path
  PROVE  IsUnit(Unit(ReadSource(path)))
<1>1. CASE path \in DOMAIN files
  <2>1. files[path] \in {files[p] : p \in DOMAIN files}
    BY <1>1
  <2>2. ReadSource(path) \in Texts
    BY <1>1, <2>1, Zenon DEF ReadSource, Texts
  <2> QED
    BY <2>2, UnitAssumption
<1>2. CASE path \notin DOMAIN files
  <2>1. ReadSource(path) \in Texts
    BY <1>2 DEF ReadSource, Texts
  <2> QED
    BY <2>1, UnitAssumption
<1> QED
  BY <1>1, <1>2

(***************************************************************************)
(* The source on top of the stack, and what it parses to.                  *)
(***************************************************************************)
LEMMA TopUnit ==
  ASSUME LoaderTypeOK, Pending
  PROVE  /\ Len(sources_frontier) \in Nat \ {0}
         /\ DOMAIN sources_frontier = 1 .. Len(sources_frontier)
         /\ Len(sources_frontier) \in DOMAIN sources_frontier
         /\ TopSource \in PendingSources
         /\ IsUnit(Unit(ReadSource(TopSource.file_path)))
<1>1. /\ Len(sources_frontier) \in Nat \ {0}
      /\ DOMAIN sources_frontier = 1 .. Len(sources_frontier)
      /\ sources_frontier[Len(sources_frontier)] \in PendingSources
  <2>1. sources_frontier \in Seq(PendingSources) /\ sources_frontier # << >>
    BY DEF LoaderTypeOK, Pending
  <2> QED
    BY <2>1, EmptySeq, LenProperties
<1>2. IsUnit(Unit(ReadSource(TopSource.file_path)))
  BY ReadUnits DEF LoaderTypeOK
<1> QED
  BY <1>1, <1>2 DEF TopSource

(***************************************************************************)
(* What is left of the stack when its top is taken                         *)
(***************************************************************************)
LEMMA RestShorter ==
  ASSUME LoaderTypeOK, Pending
  PROVE  /\ FrontierRest \in Seq(PendingSources)
         /\ Len(FrontierRest) = Len(sources_frontier) - 1
         /\ \A k \in 1 .. Len(sources_frontier) - 1 : FrontierRest[k] = sources_frontier[k]
<1> DEFINE n == Len(sources_frontier)
<1>1. n \in Nat \ {0}
  BY TopUnit
<1>2. \A k \in 1 .. n - 1 : sources_frontier[k] \in PendingSources
  BY <1>1, ElementOfSeq DEF LoaderTypeOK
<1>3. /\ FrontierRest \in Seq(PendingSources)
      /\ Len(FrontierRest) = IF 1 <= n - 1 THEN n - 1 - 1 + 1 ELSE 0
      /\ \A k \in 1 .. n - 1 - 1 + 1 : FrontierRest[k] = sources_frontier[1 + k - 1]
  BY <1>1, <1>2, SubSeqProperties DEF FrontierRest
<1> HIDE DEF n
<1>4. Len(FrontierRest) = n - 1 /\ \A k \in 1 .. n - 1 : FrontierRest[k] = sources_frontier[k]
  BY <1>1, <1>3
<1> QED
  BY <1>3, <1>4 DEF n

(***************************************************************************)
(* Initially only the main source waits.                                   *)
(***************************************************************************)
LEMMA LoaderInitInv == LoaderInit => LoaderInv
<1> SUFFICES ASSUME LoaderInit
             PROVE  LoaderInv
  OBVIOUS
<1>1. /\ sources_frontier \in Seq(PendingSources)
      /\ DOMAIN sources_frontier = {1}
      /\ sources_frontier[1] = PendingSource(MainPath, 0)
  BY MainPathAssumption DEF LoaderInit, PendingSource, PendingSources
<1>2. DOMAIN m_src_map = {} /\ DOMAIN full_ast = {} /\ full_ast \in Seq({full_ast[k] : k \in DOMAIN full_ast})
  BY EmptySeq DEF LoaderInit
<1>3. LoaderTypeOK
  BY <1>1, <1>2 DEF LoaderInit, LoaderTypeOK
<1>4. IdsFresh
  BY <1>1, <1>2 DEF LoaderInit, IdsFresh, PendingSource
<1>5. Closure!Wanted(visited_paths) = {MainPath}
  BY DEF LoaderInit, Closure!Wanted
<1>6. OnlyWanted /\ NothingForgotten
  BY <1>1, <1>5 DEF OnlyWanted, NothingForgotten, PendingSource
<1>7. OwnText
  BY <1>2 DEF OwnText
<1> QED
  BY <1>3, <1>4, <1>6, <1>7 DEF LoaderInv

(***************************************************************************)
(* A source that was visited before leaves the stack and nothing else.     *)
(***************************************************************************)
LEMMA SkipKeepsInv == LoaderInv /\ SkipVisited => LoaderInv'
<1> SUFFICES ASSUME LoaderInv, SkipVisited
             PROVE  LoaderInv'
  OBVIOUS
<1> USE DEF LoaderInv
<1> DEFINE n == Len(sources_frontier)
<1>1. UNCHANGED <<files, visited_paths, m_src_map, temp_src_id, full_ast, status>> /\ Pending
  BY DEF SkipVisited
<1>2. n \in Nat \ {0} /\ DOMAIN sources_frontier = 1 .. n
  BY <1>1, TopUnit
<1>3. /\ sources_frontier' \in Seq(PendingSources)
      /\ DOMAIN sources_frontier' = 1 .. n - 1
      /\ \A k \in 1 .. n - 1 : sources_frontier'[k] = sources_frontier[k]
  <2>1. sources_frontier' = FrontierRest
    BY DEF SkipVisited
  <2>2. DOMAIN FrontierRest = 1 .. Len(FrontierRest)
    BY <1>1, RestShorter, LenProperties
  <2> QED
    BY <1>1, <2>1, <2>2, RestShorter
<1>4. LoaderTypeOK'
  BY <1>1, <1>3 DEF LoaderTypeOK
<1>5. IdsFresh'
  BY <1>1, <1>2, <1>3 DEF IdsFresh
<1>6. Closure!Wanted(visited_paths)' = Closure!Wanted(visited_paths)
  BY <1>1 DEF Closure!Wanted, Closure!ImportedBy, Closure!UnitAt, Closure!TextAt
<1>7. OnlyWanted'
  BY <1>1, <1>2, <1>3, <1>6 DEF OnlyWanted
<1>8. NothingForgotten'
  <2> SUFFICES ASSUME NEW p \in Closure!Wanted(visited_paths), p \notin visited_paths
               PROVE  \E k \in 1 .. n - 1 : p = sources_frontier[k].file_path
    BY <1>1, <1>3, <1>6 DEF NothingForgotten
  <2>1. PICK k \in 1 .. n : p = sources_frontier[k].file_path
    BY <1>2 DEF NothingForgotten
  <2>2. k # n
    BY <2>1 DEF SkipVisited, TopSource
  <2> HIDE DEF n
  <2>3. k \in 1 .. n - 1
    BY <1>2, <2>2
  <2> QED
    BY <2>1, <2>3
<1>9. OwnText'
  BY <1>1 DEF OwnText
<1> QED
  BY <1>4, <1>5, <1>7, <1>8, <1>9

(***************************************************************************)
(* Storing the text of the source on top takes no id that is in use, so    *)
(* that the declarations that are there keep their texts.                  *)
(***************************************************************************)
LEMMA TextStored ==
  ASSUME LoaderInv, LoadSource
  PROVE  /\ DOMAIN m_src_map' = DOMAIN m_src_map \cup {TopSource.src_id}
         /\ TopSource.src_id \in Nat /\ TopSource.src_id < temp_src_id
         /\ TopSource.src_id \notin DOMAIN m_src_map
         /\ m_src_map'[TopSource.src_id] = ReadSource(TopSource.file_path)
         /\ \A i \in DOMAIN m_src_map : m_src_map'[i] = m_src_map[i]
<1> DEFINE id == TopSource.src_id
<1>1. Pending /\ LoaderTypeOK /\ IdsFresh
  BY DEF LoaderInv, LoadSource
<1>2. Len(sources_frontier) \in DOMAIN sources_frontier /\ TopSource \in PendingSources
  BY <1>1, TopUnit
<1>3. id \in Nat /\ id < temp_src_id /\ id \notin DOMAIN m_src_map
  BY <1>1, <1>2 DEF IdsFresh, Pending, TopSource, PendingSources
<1>4. m_src_map' = Stored(id, ReadSource(TopSource.file_path))
  BY DEF LoadSource
<1> HIDE DEF id
<1> QED
  BY <1>3, <1>4 DEF Stored, id

(***************************************************************************)
(* A source that is not accepted ends the loading.                         *)
(***************************************************************************)
LEMMA FailKeepsInv ==
  LoaderInv /\ LoadSource /\ Fail(Unit(ReadSource(TopSource.file_path))) => LoaderInv'
<1> SUFFICES ASSUME LoaderInv, LoadSource, Fail(Unit(ReadSource(TopSource.file_path)))
             PROVE  LoaderInv'
  OBVIOUS
<1>1. /\ UNCHANGED <<files, sources_frontier, visited_paths, temp_src_id, full_ast>>
      /\ status' # "loading"
  BY DEF LoadSource, Fail, Failures
<1>2. LoaderTypeOK'
  BY <1>1, TextStored DEF LoaderInv, LoaderTypeOK
<1>3. IdsFresh'
  BY <1>1 DEF IdsFresh
<1>4. Closure!Wanted(visited_paths)' = Closure!Wanted(visited_paths)
  BY <1>1 DEF Closure!Wanted, Closure!ImportedBy, Closure!UnitAt, Closure!TextAt
<1>5. OnlyWanted' /\ NothingForgotten'
  BY <1>1, <1>4 DEF LoaderInv, OnlyWanted, NothingForgotten
<1>6. OwnText'
  BY <1>1, TextStored DEF LoaderInv, OwnText
<1> QED
  BY <1>2, <1>3, <1>5, <1>6 DEF LoaderInv

(***************************************************************************)
(* The declarations of an accepted source come after those that are there. *)
(***************************************************************************)
LEMMA DeclsAppended ==
  ASSUME LoaderInv, LoadSource, Adopt(Unit(ReadSource(TopSource.file_path)))
  PROVE  LET decls == Unit(ReadSource(TopSource.file_path)).decls
         IN  /\ full_ast' \in Seq({full_ast'[k] : k \in DOMAIN full_ast'})
             /\ DOMAIN full_ast' = 1 .. Len(full_ast) + Len(decls)
             /\ \A k \in DOMAIN full_ast : full_ast'[k] = full_ast[k]
             /\ \A k \in DOMAIN decls :
                  full_ast'[Len(full_ast) + k] = SourcedAST(decls[k], TopSource.src_id)
<1> DEFINE decls == Unit(ReadSource(TopSource.file_path)).decls
           id == TopSource.src_id
           more == Sourced(decls, id)
           C == {full_ast[k] : k \in DOMAIN full_ast} \cup {SourcedAST(decls[k], id) : k \in DOMAIN decls}
<1>1. LoaderTypeOK /\ Pending
  BY DEF LoaderInv, LoadSource
<1>2. Len(decls) \in Nat /\ DOMAIN decls = 1 .. Len(decls)
  BY <1>1, TopUnit, LenProperties DEF IsUnit
<1>3. full_ast' = full_ast \o more
  BY DEF Adopt
<1> HIDE DEF decls, id
<1>4. more \in [1 .. Len(decls) -> C] /\ \A k \in DOMAIN decls : more[k] = SourcedAST(decls[k], id)
  BY <1>2 DEF Sourced
<1>5. more \in Seq(C) /\ DOMAIN more = DOMAIN decls /\ Len(more) = Len(decls)
  <2>1. more \in Seq(C)
    BY <1>2, <1>4, SeqDef
  <2> HIDE DEF more, C
  <2>2. Len(more) \in Nat /\ DOMAIN more = 1 .. Len(more)
    BY <2>1, LenProperties
  <2>3. DOMAIN more = 1 .. Len(decls)
    BY <1>4
  <2>4. \A i, j \in Nat : 1 .. i = 1 .. j => i = j
    OBVIOUS
  <2>5. Len(more) = Len(decls)
    BY <2>2, <2>3, <2>4, <1>2
  <2> QED
    BY <2>1, <2>3, <2>5, <1>2
<1>6. full_ast \in Seq(C)
  BY <1>1, SeqMonotonic DEF LoaderTypeOK
<1> HIDE DEF more, C
<1>7. full_ast' \in Seq(C) /\ DOMAIN full_ast' = 1 .. Len(full_ast') /\ Len(full_ast') = Len(full_ast) + Len(decls)
  <2>1. full_ast' \in Seq(C) /\ Len(full_ast') = Len(full_ast) + Len(more)
    BY <1>3, <1>5, <1>6, ConcatProperties
  <2> QED
    BY <2>1, <1>5, LenProperties
<1>8. full_ast' \in Seq({full_ast'[k] : k \in DOMAIN full_ast'})
  <2>1. full_ast' \in [1 .. Len(full_ast') -> {full_ast'[k] : k \in DOMAIN full_ast'}] /\ Len(full_ast') \in Nat
    BY <1>7, LenProperties
  <2> QED
    BY <2>1, SeqDef
<1>9. /\ \A k \in DOMAIN full_ast : full_ast'[k] = full_ast[k]
      /\ \A k \in DOMAIN more : full_ast'[Len(full_ast) + k] = more[k]
  BY <1>3, <1>5, <1>6
<1> QED
  BY <1>4, <1>5, <1>7, <1>8, <1>9 DEF decls, id

(***************************************************************************)
(* An accepted source makes room for its imports: they get ids that were   *)
(* never given, and what was wanted before is still loaded or waiting.     *)
(***************************************************************************)
LEMMA AdoptKeepsInv ==
  LoaderInv /\ LoadSource /\ Adopt(Unit(ReadSource(TopSource.file_path))) => LoaderInv'
<1> DEFINE n == Len(sources_frontier)
           path == TopSource.file_path
           unit == Unit(ReadSource(path))
           m == Len(unit.imports)
<1> SUFFICES ASSUME LoaderInv, LoadSource, Adopt(unit)
             PROVE  LoaderInv'
  OBVIOUS
<1>1. LoaderTypeOK /\ IdsFresh /\ OnlyWanted /\ NothingForgotten /\ OwnText /\ Pending
  BY DEF LoaderInv, LoadSource
<1>2. /\ n \in Nat \ {0}
      /\ DOMAIN sources_frontier = 1 .. n
      /\ path \in STRING
      /\ unit.imports \in Seq(STRING)
      /\ unit.decls \in Seq({unit.decls[k] : k \in DOMAIN unit.decls})
  BY <1>1, TopUnit DEF IsUnit, PendingSources
<1>3. /\ UNCHANGED <<files, status>>
      /\ visited_paths' = visited_paths \cup {path}
      /\ temp_src_id' = temp_src_id + m
      /\ full_ast' = full_ast \o Sourced(unit.decls, TopSource.src_id)
      /\ sources_frontier' = FrontierRest \o PendingImports(unit.imports)
  BY DEF LoadSource, Adopt
<1>4. /\ PendingImports(unit.imports) \in Seq(PendingSources)
      /\ Len(PendingImports(unit.imports)) = m
      /\ m \in Nat
      /\ DOMAIN unit.imports = 1 .. m
      /\ \A k \in 1 .. m : /\ PendingImports(unit.imports)[k].file_path = unit.imports[k]
                           /\ PendingImports(unit.imports)[k].src_id = temp_src_id + k - 1
  BY <1>1, <1>2, ImportsPushed DEF LoaderTypeOK
<1> DEFINE pushed == PendingImports(unit.imports)
<1>5. /\ sources_frontier' \in Seq(PendingSources)
      /\ DOMAIN sources_frontier' = 1 .. n - 1 + m
      /\ \A k \in 1 .. n - 1 : sources_frontier'[k] = sources_frontier[k]
      /\ \A k \in n .. n - 1 + m : sources_frontier'[k] = pushed[k - n + 1]
  <2>1. sources_frontier \in Seq(PendingSources) /\ sources_frontier # << >> /\ pushed \in Seq(PendingSources)
    BY <1>1, <1>4 DEF LoaderTypeOK, Pending
  <2>2. sources_frontier' = SubSeq(sources_frontier, 1, n - 1) \o pushed /\ Len(pushed) = m
    BY <1>3, <1>4 DEF FrontierRest
  <2> HIDE DEF pushed, m, unit
  <2>3. sources_frontier' \in Seq(PendingSources) /\ DOMAIN sources_frontier' = 1 .. n - 1 + m
    BY <2>1, <2>2
  <2>4. \A k \in 1 .. n - 1 : sources_frontier'[k] = sources_frontier[k]
    BY <2>1, <2>2
  <2>5. \A k \in n .. n - 1 + m : sources_frontier'[k] = pushed[k - n + 1]
    BY <2>1, <2>2
  <2> QED
    BY <2>3, <2>4, <2>5
<1>6. ASSUME NEW k \in DOMAIN sources_frontier'
      PROVE  \/ k \in 1 .. n - 1 /\ sources_frontier'[k] = sources_frontier[k]
             \/ \E i \in 1 .. m : /\ k = n - 1 + i
                                  /\ sources_frontier'[k].file_path = unit.imports[i]
                                  /\ sources_frontier'[k].src_id = temp_src_id + i - 1
  <2> HIDE DEF n, m, unit
  <2>1. CASE k <= n - 1
    BY <2>1, <1>2, <1>4, <1>5
  <2>2. CASE ~(k <= n - 1)
    <3>1. k - n + 1 \in 1 .. m /\ k = n - 1 + (k - n + 1) /\ sources_frontier'[k] = pushed[k - n + 1]
      BY <2>2, <1>2, <1>4, <1>5
    <3> QED
      BY <3>1, <1>4
  <2> QED
    BY <2>1, <2>2
<1>7. /\ full_ast' \in Seq({full_ast'[k] : k \in DOMAIN full_ast'})
      /\ \A k \in DOMAIN full_ast' :
           \/ k \in DOMAIN full_ast /\ full_ast'[k] = full_ast[k]
           \/ \E i \in DOMAIN unit.decls : full_ast'[k] = SourcedAST(unit.decls[i], TopSource.src_id)
  <2> HIDE DEF unit
  <2>1. /\ full_ast' \in Seq({full_ast'[k] : k \in DOMAIN full_ast'})
        /\ DOMAIN full_ast' = 1 .. Len(full_ast) + Len(unit.decls)
        /\ \A k \in DOMAIN full_ast : full_ast'[k] = full_ast[k]
        /\ \A k \in DOMAIN unit.decls :
             full_ast'[Len(full_ast) + k] = SourcedAST(unit.decls[k], TopSource.src_id)
    BY <1>1, DeclsAppended DEF unit, LoaderInv
  <2>2. /\ Len(full_ast) \in Nat /\ DOMAIN full_ast = 1 .. Len(full_ast)
        /\ Len(unit.decls) \in Nat /\ DOMAIN unit.decls = 1 .. Len(unit.decls)
    BY <1>1, <1>2, LenProperties DEF LoaderTypeOK, unit
  <2>3. ASSUME NEW k \in DOMAIN full_ast', k \notin DOMAIN full_ast
        PROVE  k - Len(full_ast) \in DOMAIN unit.decls /\ k = Len(full_ast) + (k - Len(full_ast))
    BY <2>1, <2>2, <2>3
  <2> QED
    BY <2>1, <2>3
<1>8. LoaderTypeOK'
  <2>1. full_ast' \in Seq({full_ast'[k] : k \in DOMAIN full_ast'})
    BY <1>7
  <2>2. DOMAIN m_src_map' \subseteq 0 .. temp_src_id' - 1 /\ temp_src_id' \in Nat
    BY <1>1, <1>3, <1>4, TextStored DEF LoaderTypeOK
  <2> QED
    BY <2>1, <2>2, <1>1, <1>2, <1>3, <1>5 DEF LoaderTypeOK
<1>9. IdsFresh'
  <2> HIDE DEF n, m, unit, path
  <2>1. ASSUME NEW k \in DOMAIN sources_frontier'
        PROVE  sources_frontier'[k].src_id < temp_src_id' /\ sources_frontier'[k].src_id \notin DOMAIN m_src_map'
    <3>1. CASE k \in 1 .. n - 1 /\ sources_frontier'[k] = sources_frontier[k]
      <4>1. /\ k \in DOMAIN sources_frontier /\ n \in DOMAIN sources_frontier /\ k # n
            /\ TopSource = sources_frontier[n]
        BY <3>1, <1>2 DEF TopSource, n
      <4>2. /\ sources_frontier[k].src_id < temp_src_id
            /\ sources_frontier[k].src_id \notin DOMAIN m_src_map
            /\ sources_frontier[k].src_id # TopSource.src_id
        BY <4>1, <1>1 DEF IdsFresh, Pending
      <4>3. sources_frontier[k] \in PendingSources
        BY <4>1, <1>2, <1>1, ElementOfSeq DEF LoaderTypeOK, n
      <4> QED
        BY <3>1, <4>2, <4>3, <1>1, <1>3, <1>4, TextStored DEF LoaderTypeOK, PendingSources
    <3>2. CASE \E i \in 1 .. m : sources_frontier'[k].src_id = temp_src_id + i - 1
      <4>1. PICK i \in 1 .. m : sources_frontier'[k].src_id = temp_src_id + i - 1
        BY <3>2
      <4>2. temp_src_id + i - 1 < temp_src_id + m /\ temp_src_id <= temp_src_id + i - 1
        BY <1>1, <1>4 DEF LoaderTypeOK
      <4> QED
        BY <4>1, <4>2, <1>1, <1>3, TextStored DEF LoaderTypeOK
    <3> QED
      BY <3>1, <3>2, <1>6
  <2>2. ASSUME NEW j \in DOMAIN sources_frontier', NEW k \in DOMAIN sources_frontier',
               sources_frontier'[j].src_id = sources_frontier'[k].src_id
        PROVE  j = k
    <3>1. ASSUME NEW i \in 1 .. n - 1
          PROVE  i \in DOMAIN sources_frontier /\ sources_frontier[i].src_id \in Nat
                 /\ sources_frontier[i].src_id < temp_src_id
      <4>1. i \in DOMAIN sources_frontier
        BY <1>2
      <4>2. sources_frontier[i] \in PendingSources
        BY <4>1, <1>1, <1>2, ElementOfSeq DEF LoaderTypeOK, n
      <4> QED
        BY <4>1, <4>2, <1>1 DEF PendingSources, IdsFresh, Pending
    <3>2. CASE j \in 1 .. n - 1 /\ k \in 1 .. n - 1
      BY <2>2, <3>1, <3>2, <1>1, <1>5 DEF IdsFresh, Pending
    <3>3. ASSUME NEW i \in 1 .. m, NEW q \in 1 .. n - 1
          PROVE  sources_frontier[q].src_id # temp_src_id + i - 1
      BY <3>1, <1>1, <1>4 DEF LoaderTypeOK
    <3>4. CASE j \notin 1 .. n - 1 /\ k \notin 1 .. n - 1
      <4>1. PICK i \in 1 .. m : j = n - 1 + i /\ sources_frontier'[j].src_id = temp_src_id + i - 1
        BY <3>4, <1>6
      <4>2. PICK q \in 1 .. m : k = n - 1 + q /\ sources_frontier'[k].src_id = temp_src_id + q - 1
        BY <3>4, <1>6
      <4> QED
        BY <2>2, <4>1, <4>2, <1>1, <1>4 DEF LoaderTypeOK
    <3>5. CASE (j \in 1 .. n - 1) # (k \in 1 .. n - 1)
      BY <2>2, <3>3, <3>5, <1>5, <1>6
    <3> QED
      BY <3>2, <3>4, <3>5
  <2> QED
    BY <2>1, <2>2 DEF IdsFresh
<1>10. /\ Closure!Wanted(visited_paths)' = Closure!Wanted(visited_paths) \cup Closure!ImportedBy(path)
      /\ Closure!ImportedBy(path) = {unit.imports[k] : k \in 1 .. m}
  <2>1. Closure!UnitAt(path) = unit
    BY DEF Closure!UnitAt, Closure!TextAt, ReadSource
  <2>2. Closure!ImportedBy(path) = {unit.imports[k] : k \in 1 .. m}
    BY <2>1, <1>4 DEF Closure!ImportedBy
  <2>3. \A p : Closure!ImportedBy(p)' = Closure!ImportedBy(p)
    BY <1>3 DEF Closure!ImportedBy, Closure!UnitAt, Closure!TextAt
  <2>4. Closure!Wanted(visited_paths)' = {MainPath} \cup UNION {Closure!ImportedBy(p) : p \in visited_paths \cup {path}}
    BY <2>3, <1>3 DEF Closure!Wanted
  <2> QED
    BY <2>2, <2>4 DEF Closure!Wanted
<1>11. OnlyWanted'
  <2> HIDE DEF n, m, unit, path
  <2> SUFFICES ASSUME NEW k \in DOMAIN sources_frontier'
               PROVE  sources_frontier'[k].file_path \in Closure!Wanted(visited_paths)'
    BY DEF OnlyWanted
  <2>1. CASE k \in 1 .. n - 1 /\ sources_frontier'[k] = sources_frontier[k]
    <3>1. k \in DOMAIN sources_frontier
      BY <2>1, <1>2
    <3> QED
      BY <2>1, <3>1, <1>1, <1>10 DEF OnlyWanted
  <2>2. CASE \E i \in 1 .. m : sources_frontier'[k].file_path = unit.imports[i]
    BY <2>2, <1>10
  <2> QED
    BY <2>1, <2>2, <1>6
<1>12. NothingForgotten'
  <2> HIDE DEF n, m, unit
  <2> SUFFICES ASSUME NEW p \in Closure!Wanted(visited_paths)', p \notin visited_paths'
               PROVE  \E k \in DOMAIN sources_frontier' : p = sources_frontier'[k].file_path
    BY DEF NothingForgotten
  <2>1. CASE p \in Closure!Wanted(visited_paths)
    <3>1. PICK k \in 1 .. n : p = sources_frontier[k].file_path
      BY <2>1, <1>1, <1>2, <1>3 DEF NothingForgotten
    <3>2. k # n
      BY <3>1, <1>3 DEF TopSource, n
    <3>3. k \in 1 .. n - 1 /\ k \in DOMAIN sources_frontier'
      BY <3>2, <1>2, <1>4, <1>5
    <3> QED
      BY <3>1, <3>3, <1>5
  <2>2. CASE p \in Closure!ImportedBy(path)
    <3>1. PICK i \in 1 .. m : p = unit.imports[i]
      BY <2>2, <1>10
    <3>2. n - 1 + i \in DOMAIN sources_frontier' /\ sources_frontier'[n - 1 + i] = pushed[i]
      BY <1>2, <1>4, <1>5
    <3> QED
      BY <3>1, <3>2, <1>4, <1>5
  <2> QED
    BY <2>1, <2>2, <1>10
<1>13. OwnText'
  <2> HIDE DEF path, n, m
  <2> SUFFICES ASSUME NEW k \in DOMAIN full_ast'
               PROVE  /\ full_ast'[k].src_id \in DOMAIN m_src_map'
                      /\ \E i \in DOMAIN Unit(m_src_map'[full_ast'[k].src_id]).decls :
                           full_ast'[k].stmt_p = Unit(m_src_map'[full_ast'[k].src_id]).decls[i]
    BY DEF OwnText
  <2>1. CASE k \in DOMAIN full_ast /\ full_ast'[k] = full_ast[k]
    BY <2>1, <1>1, TextStored DEF OwnText
  <2>2. CASE \E i \in DOMAIN unit.decls : full_ast'[k] = SourcedAST(unit.decls[i], TopSource.src_id)
    <3>1. PICK i \in DOMAIN unit.decls : full_ast'[k] = SourcedAST(unit.decls[i], TopSource.src_id)
      BY <2>2
    <3>2. full_ast'[k].src_id = TopSource.src_id /\ full_ast'[k].stmt_p = unit.decls[i]
      BY <3>1 DEF SourcedAST
    <3>3. m_src_map'[TopSource.src_id] = ReadSource(path) /\ TopSource.src_id \in DOMAIN m_src_map'
      BY TextStored DEF path
    <3> QED
      BY <3>2, <3>3
  <2>3. \/ k \in DOMAIN full_ast /\ full_ast'[k] = full_ast[k]
        \/ \E i \in DOMAIN unit.decls : full_ast'[k] = SourcedAST(unit.decls[i], TopSource.src_id)
    BY <1>7
  <2> QED
    BY <2>1, <2>2, <2>3
<1> QED
  BY <1>8, <1>9, <1>11, <1>12, <1>13 DEF LoaderInv

(***************************************************************************)
(* The invariant holds of every loading.                                   *)
(***************************************************************************)
THEOREM LoaderInvariant == LoaderSpec => []LoaderInv
<1>1. LoaderInv /\ [LoaderNext]_loaderVars => LoaderInv'
  <2> SUFFICES ASSUME LoaderInv, [LoaderNext]_loaderVars
               PROVE  LoaderInv'
    OBVIOUS
  <2>1. CASE SkipVisited
    BY <2>1, SkipKeepsInv
  <2>2. CASE LoadSource
    BY <2>2, AdoptKeepsInv, FailKeepsInv DEF LoadSource
  <2>3. CASE UNCHANGED <<files, sources_frontier, visited_paths, m_src_map, temp_src_id, full_ast>>
             /\ (status' = "loading" => status = "loading")
    <3>1. Closure!Wanted(visited_paths)' = Closure!Wanted(visited_paths)
      BY <2>3 DEF Closure!Wanted, Closure!ImportedBy, Closure!UnitAt, Closure!TextAt
    <3> QED
      BY <2>3, <3>1 DEF LoaderInv, LoaderTypeOK, IdsFresh, OnlyWanted, NothingForgotten, OwnText
  <2> QED
    BY <2>1, <2>2, <2>3 DEF LoaderNext, EndLoading, loaderVars
<1> QED
  BY <1>1, LoaderInitInv, PTL DEF LoaderSpec

(***************************************************************************)
(* A declaration always has the text that it was read from, in whatever    *)
(* way the files import each other (parse_sources, parse_import).          *)
(***************************************************************************)
THEOREM DeclarationsOwned == LoaderSpec => []OwnText
<1>1. LoaderInv => OwnText
  BY DEF LoaderInv
<1> QED
  BY <1>1, LoaderInvariant, PTL

(***************************************************************************)
(* An accepted source adds its declarations as one block under an id of    *)
(* its own, and leaves the blocks of the others where they are.            *)
(***************************************************************************)
LEMMA AdoptKeepsUnits ==
  ASSUME LoaderInv, UnitsWhole, LoadSource, Adopt(Unit(ReadSource(TopSource.file_path)))
  PROVE  UnitsWhole'
<1> DEFINE path == TopSource.file_path
           decls == Unit(ReadSource(path)).decls
           id == TopSource.src_id
           len == Len(full_ast)
<1>1. LoaderTypeOK /\ OwnText /\ Pending
  BY DEF LoaderInv, LoadSource
<1>2. /\ len \in Nat /\ DOMAIN full_ast = 1 .. len
      /\ Len(decls) \in Nat /\ DOMAIN decls = 1 .. Len(decls)
  BY <1>1, TopUnit, LenProperties DEF LoaderTypeOK, IsUnit
<1>3. /\ full_ast' \in Seq({full_ast'[k] : k \in DOMAIN full_ast'})
      /\ DOMAIN full_ast' = 1 .. len + Len(decls)
      /\ \A k \in DOMAIN full_ast : full_ast'[k] = full_ast[k]
      /\ \A k \in DOMAIN decls : full_ast'[len + k] = SourcedAST(decls[k], id)
  BY DeclsAppended
<1>4. /\ DOMAIN m_src_map' = DOMAIN m_src_map \cup {id}
      /\ id \notin DOMAIN m_src_map
      /\ m_src_map'[id] = ReadSource(path)
      /\ \A i \in DOMAIN m_src_map : m_src_map'[i] = m_src_map[i]
  BY TextStored
<1>5. /\ files' = files
      /\ visited_paths' = visited_paths \cup {path}
      /\ path \notin visited_paths
  BY DEF LoadSource, Adopt
<1>6. (\A i \in DOMAIN m_src_map : DeclsTogether(i)) /\ IdsStandForPaths
  BY <1>1 DEF UnitsWhole, Pending, Failures
<1>7. \A k \in DOMAIN full_ast : full_ast[k].src_id \in DOMAIN m_src_map
  BY <1>1 DEF OwnText
<1>8. Len(full_ast') = len + Len(decls)
  BY <1>2, <1>3, LenProperties
<1> HIDE DEF path, decls, id, len
<1>9. ASSUME NEW k \in DOMAIN full_ast'
      PROVE  \/ k \in 1 .. len /\ full_ast'[k] = full_ast[k] /\ full_ast'[k].src_id # id
             \/ k \in len + 1 .. len + Len(decls) /\ full_ast'[k].src_id = id
  <2>1. CASE k \in 1 .. len
    BY <2>1, <1>2, <1>3, <1>4, <1>7
  <2>2. CASE k \notin 1 .. len
    <3>1. k - len \in DOMAIN decls /\ k = len + (k - len) /\ k \in len + 1 .. len + Len(decls)
      BY <2>2, <1>2, <1>3
    <3>2. full_ast'[k] = SourcedAST(decls[k - len], id)
      BY <3>1, <1>3
    <3> QED
      BY <3>1, <3>2 DEF SourcedAST
  <2> QED
    BY <2>1, <2>2
<1>10. ASSUME NEW i \in DOMAIN m_src_map'
       PROVE  DeclsTogether(i)'
  <2>1. CASE i = id
    <3>1. len \in 0 .. Len(full_ast') - Len(decls)
      BY <1>2, <1>8
    <3>2. \A k \in DOMAIN full_ast' : full_ast'[k].src_id = id <=> k \in len + 1 .. len + Len(decls)
      BY <1>2, <1>9
    <3>3. \A n \in DOMAIN decls : full_ast'[len + n].stmt_p = decls[n]
      <4>1. \A d : SourcedAST(d, id).stmt_p = d
        BY DEF SourcedAST
      <4> QED
        BY <4>1, <1>3
    <3>4. Unit(m_src_map'[id]).decls = decls
      BY <1>4 DEF decls
    <3> QED
      BY <2>1, <3>1, <3>2, <3>3, <3>4 DEF DeclsTogether
  <2>2. CASE i # id
    <3> DEFINE others == Unit(m_src_map[i]).decls
    <3>1. i \in DOMAIN m_src_map /\ m_src_map'[i] = m_src_map[i]
      BY <2>2, <1>4
    <3>2. PICK before \in 0 .. len - Len(others) :
            /\ \A k \in DOMAIN full_ast :
                 full_ast[k].src_id = i <=> k \in before + 1 .. before + Len(others)
            /\ \A n \in DOMAIN others : full_ast[before + n].stmt_p = others[n]
      BY <3>1, <1>6 DEF DeclsTogether, len
    <3>3. Len(others) \in Nat /\ DOMAIN others = 1 .. Len(others)
      <4>1. PICK p : m_src_map[i] = ReadSource(p)
        BY <3>1, <1>6 DEF IdsStandForPaths
      <4> QED
        BY <4>1, <1>1, ReadUnits, LenProperties DEF IsUnit, LoaderTypeOK
    <3> HIDE DEF others
    <3>4. before \in 0 .. Len(full_ast') - Len(others)
      BY <3>2, <3>3, <1>2, <1>8
    <3>5. ASSUME NEW k \in DOMAIN full_ast'
          PROVE  full_ast'[k].src_id = i <=> k \in before + 1 .. before + Len(others)
      BY <2>2, <3>2, <3>3, <1>2, <1>9
    <3>6. ASSUME NEW n \in DOMAIN others
          PROVE  full_ast'[before + n].stmt_p = others[n]
      <4>1. before + n \in DOMAIN full_ast
        BY <3>2, <3>3, <1>2
      <4> QED
        BY <4>1, <3>2, <1>3
    <3> QED
      BY <3>1, <3>4, <3>5, <3>6 DEF DeclsTogether, others
  <2> QED
    BY <2>1, <2>2
<1>11. IdsStandForPaths'
  <2>1. PICK of \in [DOMAIN m_src_map -> visited_paths] :
          /\ \A i, j \in DOMAIN m_src_map : of[i] = of[j] => i = j
          /\ \A p \in visited_paths : \E i \in DOMAIN m_src_map : p = of[i]
          /\ \A i \in DOMAIN m_src_map : m_src_map[i] = ReadSource(of[i])
    BY <1>6 DEF IdsStandForPaths
  <2> PICK of1 : of1 = [i \in DOMAIN m_src_map' |-> IF i = id THEN path ELSE of[i]]
    OBVIOUS
  <2>2. of1 \in [DOMAIN m_src_map' -> visited_paths']
    BY <2>1, <1>4, <1>5
  <2>3. \A i, j \in DOMAIN m_src_map' : of1[i] = of1[j] => i = j
    BY <2>1, <1>4, <1>5
  <2>4. \A p \in visited_paths' : \E i \in DOMAIN m_src_map' : p = of1[i]
    BY <2>1, <1>4, <1>5
  <2>5. \A i \in DOMAIN m_src_map' : m_src_map'[i] = ReadSource(of1[i])'
    BY <2>1, <1>4, <1>5 DEF ReadSource
  <2> QED
    BY <2>2, <2>3, <2>4, <2>5 DEF IdsStandForPaths
<1> QED
  BY <1>10, <1>11 DEF UnitsWhole

(***************************************************************************)
(* The program has the declarations of each loaded source once, together   *)
(* and in order, and each id stands for one path, whichever files import   *)
(* which (parse_sources).                                                  *)
(***************************************************************************)
THEOREM SourcesStayWhole == LoaderSpec => []UnitsWhole
<1>1. LoaderInit => UnitsWhole
  <2> SUFFICES ASSUME LoaderInit PROVE UnitsWhole
    OBVIOUS
  <2>1. DOMAIN m_src_map = {} /\ visited_paths = {}
    BY DEF LoaderInit
  <2>2. m_src_map \in [DOMAIN m_src_map -> visited_paths]
    BY <2>1 DEF LoaderInit
  <2> QED
    BY <2>1, <2>2 DEF UnitsWhole, IdsStandForPaths
<1>2. LoaderInv /\ UnitsWhole /\ [LoaderNext]_loaderVars => UnitsWhole'
  <2> SUFFICES ASSUME LoaderInv, UnitsWhole, [LoaderNext]_loaderVars
               PROVE  UnitsWhole'
    OBVIOUS
  <2>1. CASE LoadSource /\ Adopt(Unit(ReadSource(TopSource.file_path)))
    BY <2>1, AdoptKeepsUnits
  <2>2. CASE LoadSource /\ Fail(Unit(ReadSource(TopSource.file_path)))
    BY <2>2 DEF Fail, UnitsWhole
  <2>3. CASE SkipVisited \/ EndLoading \/ UNCHANGED loaderVars
    <3>1. UNCHANGED <<files, visited_paths, m_src_map, full_ast>> /\ (status \in Failures => status' \in Failures)
      BY <2>3 DEF SkipVisited, EndLoading, loaderVars, Failures
    <3>2. (\A id : DeclsTogether(id)' <=> DeclsTogether(id)) /\ (IdsStandForPaths' <=> IdsStandForPaths)
      BY <3>1 DEF DeclsTogether, IdsStandForPaths, ReadSource
    <3> QED
      BY <3>1, <3>2 DEF UnitsWhole
  <2> QED
    BY <2>1, <2>2, <2>3 DEF LoaderNext, LoadSource
<1> QED
  BY <1>1, <1>2, LoaderInvariant, PTL DEF LoaderSpec

(***************************************************************************)
(* The stack of sources implements the closure of the imports: what it     *)
(* loads is imported, and it is empty only when nothing is missing         *)
(* (parse_sources).                                                        *)
(***************************************************************************)
THEOREM LoaderImplementsClosure == LoaderSpec => ClosureSpec
<1>1. LoaderInit => Closure!ClosureInit
  BY DEF LoaderInit, Closure!ClosureInit
<1>2. LoaderInv /\ [LoaderNext]_loaderVars => [Closure!ClosureNext]_(Closure!closureVars)
  <2> SUFFICES ASSUME LoaderInv, LoaderNext
               PROVE  Closure!ClosureNext \/ UNCHANGED Closure!closureVars
    BY DEF loaderVars, Closure!closureVars
  <2> DEFINE path == TopSource.file_path
  <2>1. CASE SkipVisited
    BY <2>1 DEF SkipVisited, Closure!closureVars
  <2>2. CASE LoadSource
    <3>1. path \in Closure!Wanted(visited_paths) \ visited_paths
      <4>1. Len(sources_frontier) \in DOMAIN sources_frontier
        BY <2>2, TopUnit DEF LoaderInv, LoadSource
      <4> QED
        BY <2>2, <4>1 DEF LoaderInv, OnlyWanted, LoadSource, TopSource
    <3>2. Closure!UnitAt(path) = Unit(ReadSource(path))
      BY DEF Closure!UnitAt, Closure!TextAt, ReadSource
    <3>3. CASE Adopt(Unit(ReadSource(path)))
      BY <2>2, <3>1, <3>2, <3>3
      DEF LoadSource, Pending, Adopt, Closure!ClosureNext, Closure!Load
    <3>4. CASE Fail(Unit(ReadSource(path)))
      BY <2>2, <3>1, <3>2, <3>4
      DEF LoadSource, Pending, Fail, Failures, Closure!ClosureNext, Closure!Refuse
    <3> QED
      BY <2>2, <3>3, <3>4 DEF LoadSource
  <2>3. CASE EndLoading
    <3>1. DOMAIN sources_frontier = {}
      BY <2>3 DEF EndLoading
    <3>2. Closure!Wanted(visited_paths) \subseteq visited_paths
      BY <3>1 DEF LoaderInv, NothingForgotten
    <3> QED
      BY <2>3, <3>2 DEF EndLoading, Closure!ClosureNext, Closure!Close
  <2> QED
    BY <2>1, <2>2, <2>3 DEF LoaderNext
<1> QED
  BY <1>1, <1>2, LoaderInvariant, PTL DEF LoaderSpec, ClosureSpec, Closure!ClosureSpec

(***************************************************************************)
(* Loading has a measure: a turn of the loop marks one more imported path, *)
(* of which there are as many as the files import, or shortens the stack   *)
(* (parse_sources).  That the loop ends follows under fairness.            *)
(***************************************************************************)
THEOREM LoadingGetsNearer == LoaderSpec => LoadingProgresses
<1> DEFINE Nearer ==
             status' = "loading" =>
               \/ \E p \in Closure!Wanted(visited_paths) \ visited_paths :
                    visited_paths' = visited_paths \cup {p}
               \/ /\ visited_paths' = visited_paths
                  /\ Len(sources_frontier') < Len(sources_frontier)
<1>1. LoaderInv /\ [LoaderNext]_loaderVars => [Nearer]_loaderVars
  <2> SUFFICES ASSUME LoaderInv, LoaderNext, status' = "loading" PROVE Nearer
    OBVIOUS
  <2>1. CASE SkipVisited
    <3>1. Len(sources_frontier) \in Nat /\ Len(FrontierRest) = Len(sources_frontier) - 1
      BY <2>1, TopUnit, RestShorter DEF SkipVisited, LoaderInv
    <3> QED
      BY <2>1, <3>1 DEF SkipVisited
  <2>2. CASE LoadSource
    <3>1. TopSource.file_path \in Closure!Wanted(visited_paths) \ visited_paths
      <4>1. Len(sources_frontier) \in DOMAIN sources_frontier
        BY <2>2, TopUnit DEF LoaderInv, LoadSource
      <4> QED
        BY <2>2, <4>1 DEF LoaderInv, OnlyWanted, LoadSource, TopSource
    <3>2. Adopt(Unit(ReadSource(TopSource.file_path)))
      BY <2>2 DEF LoadSource, Fail, Failures
    <3> QED
      BY <3>1, <3>2 DEF Adopt
  <2>3. CASE EndLoading
    BY <2>3 DEF EndLoading
  <2> QED
    BY <2>1, <2>2, <2>3 DEF LoaderNext
<1> QED
  BY <1>1, LoaderInvariant, PTL DEF LoaderSpec, LoadingProgresses

================================================================================
