---------------------------- MODULE HeapClientProofs ----------------------------
(***************************************************************************)
(* For every capacity, threshold, set of objects and order of calls: the   *)
(* heap invariant is inductive, and the heap implements the pool of slots. *)
(***************************************************************************)
EXTENDS HeapClient, HeapStorageProofs

\* The invariant of the class holds whatever its client calls, in whatever order.
THEOREM HeapInvariant == HeapSpec => []HeapInv
  <1>1. HeapInit => HeapInv
    BY EmptyHeapCorrect DEF HeapInit, HeapInv
  <1>2. HeapInv /\ [HeapNext]_m_heap => HeapInv'
    <2> SUFFICES ASSUME HeapInv, [HeapNext]_m_heap PROVE HeapInv'
      OBVIOUS
    <2>1. ASSUME NEW obj \in Object, CreateObject(obj) PROVE HeapInv'
      BY <2>1, CreateCorrect, ObjectAssumption DEF CreateObject, HeapInv
    <2>2. ASSUME NEW id \in Cell, DestroyObject(id) PROVE HeapInv'
      BY <2>2, DestroyCorrect DEF DestroyObject, HeapInv
    <2>3. CASE UNCHANGED m_heap
      BY <2>3 DEF HeapInv
    <2> QED
      BY <2>1, <2>2, <2>3 DEF HeapNext
  <1> QED
    BY <1>1, <1>2, PTL DEF HeapSpec

--------------------------------------------------------------------------------
\* The cardinality of the pool's module is that of this one.
LEMMA SameCardinality == \A S : Pool!Cardinality(S) = Cardinality(S)
  BY DEF Pool!Cardinality, Cardinality, Pool!IsFiniteSet, IsFiniteSet

\* A heap whose score is exact is ripe when its store weighs the threshold.
LEMMA RipeWhenWeighty ==
  ASSUME NEW h, ScoreIsExact(h)
  PROVE  IsRipe(h) = (ObjOverhead * Cardinality(DOMAIN StoreOf(h)) >= GcThreshold)
  <1>1. DOMAIN StoreOf(h) = LiveCells(h)
    BY DEF StoreOf
  <1> QED
    BY <1>1 DEF ScoreIsExact, IsRipe

\* The heap implements the pool of slots: no create overwrites a live object, no call
\* loses one that was not destroyed, and is_ripe is exact.
THEOREM HeapImplementsPool == HeapSpec => PoolSpec
  <1>1. HeapInit => Pool!Init
    <2> SUFFICES ASSUME HeapInit PROVE Pool!Init
      OBVIOUS
    <2>1. StoreOf(m_heap) = << >>
      BY EmptyHeapCorrect DEF HeapInit, StoreOf
    <2>2. ScoreIsExact(m_heap)
      BY EmptyHeapCorrect DEF HeapInit, HeapInvOf
    <2> QED
      BY <2>1, <2>2, RipeWhenWeighty, SameCardinality DEF Pool!Init, Pool!Weighs
  <1>2. HeapInv /\ HeapInv' /\ [HeapNext]_m_heap
          => [Pool!Next]_<<StoreOf(m_heap), IsRipe(m_heap)>>
    <2> SUFFICES ASSUME HeapInv, HeapInv', HeapNext
                 PROVE  Pool!Next \/ UNCHANGED <<StoreOf(m_heap), IsRipe(m_heap)>>
      <3>1. m_heap' = m_heap => UNCHANGED <<StoreOf(m_heap), IsRipe(m_heap)>>
        BY DEF StoreOf, LiveCells, IsRipe
      <3> QED
        BY <3>1
    <2>1. IsRipe(m_heap)' = Pool!Weighs(StoreOf(m_heap)')
      <3>1. ScoreIsExact(m_heap')
        BY DEF HeapInv, HeapInvOf
      <3> QED
        BY <3>1, RipeWhenWeighty, SameCardinality DEF Pool!Weighs, IsRipe, StoreOf, LiveCells
    <2>2. ASSUME NEW obj \in Object, CreateObject(obj)
          PROVE  Pool!Put
      <3> DEFINE slot == NextCell(m_heap)
      <3>1. m_heap' = TryCreate(m_heap, obj) /\ slot \in Cell
        BY <2>2 DEF CreateObject
      <3>2. slot \notin LiveCells(m_heap) /\ LiveCells(m_heap') = LiveCells(m_heap) \cup {slot}
        BY <3>1, CreateCorrect, ObjectAssumption DEF HeapInv
      <3>3. m_heap'.objects = [m_heap.objects EXCEPT ![slot] = obj]
        BY <3>1 DEF TryCreate
      <3>4. m_heap.objects \in [Cell -> Object \cup {Null}]
        BY DEF HeapInv, HeapInvOf, HeapType
      <3>5. \A c \in LiveCells(m_heap') :
              m_heap'.objects[c] = IF c = slot THEN obj ELSE m_heap.objects[c]
        BY <3>1, <3>3, <3>4 DEF LiveCells
      <3>6. DOMAIN StoreOf(m_heap) = LiveCells(m_heap) /\ slot \in Cell \ LiveCells(m_heap)
        BY <3>1, <3>2 DEF StoreOf
      <3>7. StoreOf(m_heap)' = [s \in LiveCells(m_heap) \cup {slot} |->
                                 IF s = slot THEN obj ELSE StoreOf(m_heap)[s]]
        BY <3>2, <3>5 DEF StoreOf, LiveCells
      <3> QED
        BY <3>6, <3>7 DEF Pool!Put
    <2>3. ASSUME NEW id \in Cell, DestroyObject(id)
          PROVE  \/ Pool!Remove
                 \/ StoreOf(m_heap)' = StoreOf(m_heap) /\ IsRipe(m_heap)' = IsRipe(m_heap)
      <3>1. m_heap' = TryDestroy(m_heap, id) /\ LiveCells(m_heap') = LiveCells(m_heap) \ {id}
        BY <2>3, DestroyCorrect DEF DestroyObject, HeapInv
      <3>2. CASE ~CanDestroy(m_heap, id)
        BY <3>1, <3>2 DEF TryDestroy, StoreOf, LiveCells, IsRipe
      <3>3. CASE CanDestroy(m_heap, id)
        <4>1. m_heap'.objects = [m_heap.objects EXCEPT ![id] = Null]
          BY <3>1, <3>3 DEF TryDestroy
        <4>2. m_heap.objects \in [Cell -> Object \cup {Null}]
          BY DEF HeapInv, HeapInvOf, HeapType
        <4>3. \A c \in LiveCells(m_heap) \ {id} : m_heap'.objects[c] = m_heap.objects[c]
          BY <4>1, <4>2 DEF LiveCells
        <4>4. id \in LiveCells(m_heap)
          BY <3>3 DEF CanDestroy, LiveCells
        <4>5. StoreOf(m_heap)' = [s \in LiveCells(m_heap) \ {id} |-> StoreOf(m_heap)[s]]
          BY <3>1, <4>3 DEF StoreOf, LiveCells
        <4>6. DOMAIN StoreOf(m_heap) = LiveCells(m_heap)
          BY DEF StoreOf
        <4> QED
          BY <4>4, <4>5, <4>6 DEF Pool!Remove
      <3> QED
        BY <3>2, <3>3
    <2> QED
      BY <2>1, <2>2, <2>3 DEF HeapNext, Pool!Next
  <1> QED
    BY <1>1, <1>2, HeapInvariant, PTL DEF HeapSpec, PoolSpec, Pool!Spec

================================================================================
