--------------------------- MODULE HeapStorageProofs ---------------------------
(***************************************************************************)
(* What the operations of the heap do to its invariant, for every capacity,*)
(* threshold and set of objects.  These are facts about the operators, not *)
(* about a state machine: every user of the heap cites them.               *)
(***************************************************************************)
EXTENDS HeapStorage, FiniteSetTheorems, SequenceTheorems, TLAPS

\* The live cells of a heap are finitely many, and none of an empty heap is live.
LEMMA LiveCellsFinite ==
  ASSUME NEW h
  PROVE  IsFiniteSet(LiveCells(h)) /\ Cardinality(LiveCells(h)) \in Nat
  <1>1. IsFiniteSet(Cell)
    BY FS_Interval, HeapAssumption DEF Cell
  <1>2. LiveCells(h) \in SUBSET Cell
    BY DEF LiveCells
  <1>3. IsFiniteSet(LiveCells(h))
    BY <1>1, <1>2, FS_Subset
  <1> QED
    BY <1>3, FS_CardinalityType

LEMMA EmptyHeapCorrect ==
  ASSUME NEW Objs
  PROVE  HeapInvOf(EmptyHeap, Objs) /\ LiveCells(EmptyHeap) = {}
  <1>1. LiveCells(EmptyHeap) = {}
    BY DEF LiveCells, EmptyHeap
  <1>2. HeapType(EmptyHeap, Objs)
    BY DEF HeapType, EmptyHeap
  <1>3. HolesAreFree(EmptyHeap) /\ FreshAreFree(EmptyHeap)
    BY DEF HolesAreFree, FreshAreFree, EmptyHeap
  <1>4. ScoreIsExact(EmptyHeap)
    <2>1. Cardinality(LiveCells(EmptyHeap)) = 0
      BY <1>1, FS_EmptySet
    <2>2. EmptyHeap.overhead = 0 /\ ObjOverhead * 0 = 0
      BY HeapAssumption DEF EmptyHeap
    <2> QED
      BY <2>1, <2>2 DEF ScoreIsExact
  <1> QED
    BY <1>1, <1>2, <1>3, <1>4 DEF HeapInvOf

(***************************************************************************)
(* try_create_value (heap_storage.cpp 18-42) puts the object in a cell     *)
(* that was free, and keeps the invariant.                                 *)
(***************************************************************************)
LEMMA CreateCorrect ==
  ASSUME NEW Objs, Null \notin Objs, NEW h, HeapInvOf(h, Objs),
         NEW obj \in Objs, NextCell(h) \in Cell
  PROVE  /\ NextCell(h) \notin LiveCells(h)
         /\ LiveCells(TryCreate(h, obj)) = LiveCells(h) \cup {NextCell(h)}
         /\ HeapInvOf(TryCreate(h, obj), Objs)
  <1> DEFINE cell == NextCell(h)
             g == TryCreate(h, obj)
  <1>1. /\ HeapType(h, Objs) /\ HolesAreFree(h) /\ FreshAreFree(h) /\ ScoreIsExact(h)
        /\ h.objects \in [Cell -> Objs \cup {Null}] /\ h.holes \in Seq(Cell)
        /\ h.overhead \in Int /\ h.next_id \in Nat
    BY DEF HeapInvOf, HeapType
  <1>2. h.objects[cell] = Null
    <2>1. CASE h.holes = << >>
      BY <1>1, <2>1 DEF FreshAreFree, NextCell, Cell
    <2>2. CASE h.holes # << >>
      <3>1. 1 \in DOMAIN h.holes /\ cell = h.holes[1]
        BY <1>1, <2>2 DEF NextCell
      <3> QED
        BY <1>1, <3>1 DEF HolesAreFree
    <2> QED
      BY <2>1, <2>2
  <1>3. cell \notin LiveCells(h)
    BY <1>2 DEF LiveCells
  <1>4. /\ g.objects = [h.objects EXCEPT ![cell] = obj]
        /\ g.holes = IF h.holes # << >> THEN Tail(h.holes) ELSE h.holes
        /\ g.overhead = h.overhead + ObjOverhead
        /\ g.next_id = h.next_id + 1
    BY DEF TryCreate
  <1>5. /\ g.objects[cell] = obj /\ obj # Null
        /\ \A c \in Cell : c # cell => g.objects[c] = h.objects[c]
    BY <1>1, <1>4
  <1>6. LiveCells(g) = LiveCells(h) \cup {cell}
    BY <1>5 DEF LiveCells
  <1>7. HeapType(g, Objs)
    <2>1. g.holes \in Seq(Cell)
      BY <1>1, <1>4
    <2>2. g.objects \in [Cell -> Objs \cup {Null}]
      BY <1>1, <1>4
    <2> QED
      BY <1>1, <2>1, <2>2, HeapAssumption DEF HeapType, TryCreate
  <1>8. HolesAreFree(g)
    <2>1. CASE h.holes = << >>
      BY <1>1, <1>4, <2>1 DEF HolesAreFree
    <2>2. CASE h.holes # << >>
      <3>1. /\ DOMAIN g.holes = 1 .. Len(h.holes) - 1
            /\ \A i \in DOMAIN g.holes : g.holes[i] = h.holes[i + 1]
        BY <1>1, <1>4, <2>2, HeadTailProperties, LenProperties
      <3>2. cell = h.holes[1] /\ DOMAIN h.holes = 1 .. Len(h.holes) /\ Len(h.holes) \in Nat
        BY <1>1, <2>2, LenProperties DEF NextCell
      <3>3. \A i \in DOMAIN g.holes : i + 1 \in DOMAIN h.holes /\ 1 \in DOMAIN h.holes
        BY <3>1, <3>2
      <3>4. ASSUME NEW i \in DOMAIN g.holes
            PROVE  g.holes[i] < g.next_id /\ g.objects[g.holes[i]] = Null
        <4>1. h.holes[i + 1] # cell /\ h.holes[i + 1] \in Cell
          <5>1. i + 1 # 1 /\ i + 1 \in DOMAIN h.holes /\ 1 \in DOMAIN h.holes
            BY <3>1, <3>2, <3>3
          <5> QED
            BY <1>1, <3>2, <5>1, ElementOfSeq DEF HolesAreFree
        <4>2. h.holes[i + 1] < h.next_id /\ h.objects[h.holes[i + 1]] = Null
          BY <1>1, <3>3 DEF HolesAreFree
        <4> QED
          BY <1>1, <1>4, <1>5, <3>1, <4>1, <4>2 DEF Cell
      <3>5. ASSUME NEW i \in DOMAIN g.holes, NEW j \in DOMAIN g.holes,
                   g.holes[i] = g.holes[j]
            PROVE  i = j
        <4>1. i + 1 = j + 1
          BY <1>1, <3>1, <3>3, <3>5 DEF HolesAreFree
        <4> QED
          BY <4>1, <3>1, <3>2
      <3> QED
        BY <3>4, <3>5 DEF HolesAreFree
    <2> QED
      BY <2>1, <2>2
  <1>9. FreshAreFree(g)
    <2>1. cell <= h.next_id
      <3>1. CASE h.holes = << >>
        BY <1>1, <3>1 DEF NextCell
      <3>2. CASE h.holes # << >>
        <4>1. 1 \in DOMAIN h.holes /\ cell = h.holes[1] /\ cell \in Cell
          BY <1>1, <3>2 DEF NextCell
        <4> QED
          BY <1>1, <4>1 DEF HolesAreFree, Cell
      <3> QED
        BY <3>1, <3>2
    <2> QED
      BY <1>1, <1>4, <1>5, <2>1 DEF FreshAreFree, Cell
  <1>10. ScoreIsExact(g)
    <2>1. Cardinality(LiveCells(g)) = Cardinality(LiveCells(h)) + 1
      BY <1>3, <1>6, LiveCellsFinite, FS_AddElement
    <2> QED
      BY <1>1, <1>4, <2>1, LiveCellsFinite, HeapAssumption DEF ScoreIsExact
  <1> QED
    BY <1>3, <1>6, <1>7, <1>8, <1>9, <1>10 DEF HeapInvOf

(***************************************************************************)
(* try_destroy_value (heap_storage.cpp 44-54) empties the cell, if an      *)
(* object is there, and keeps the invariant.                               *)
(***************************************************************************)
LEMMA DestroyCorrect ==
  ASSUME NEW Objs, NEW h, HeapInvOf(h, Objs), NEW id \in Cell
  PROVE  /\ LiveCells(TryDestroy(h, id)) = LiveCells(h) \ {id}
         /\ HeapInvOf(TryDestroy(h, id), Objs)
  <1>1. CASE ~CanDestroy(h, id)
    BY <1>1 DEF TryDestroy, CanDestroy, LiveCells
  <1>2. CASE CanDestroy(h, id)
    <2> DEFINE g == TryDestroy(h, id)
    <2>1. /\ HeapType(h, Objs) /\ HolesAreFree(h) /\ FreshAreFree(h) /\ ScoreIsExact(h)
          /\ h.objects \in [Cell -> Objs \cup {Null}] /\ h.holes \in Seq(Cell)
          /\ h.overhead \in Int /\ h.next_id \in Nat /\ h.objects[id] # Null
      BY <1>2 DEF HeapInvOf, HeapType, CanDestroy
    <2>2. /\ g.objects = [h.objects EXCEPT ![id] = Null]
          /\ g.holes = Append(h.holes, id)
          /\ g.overhead = h.overhead - ObjOverhead
          /\ g.next_id = h.next_id
          /\ g \in [objects : [Cell -> Objs \cup {Null}], holes : Seq(Cell),
                    overhead : Int, next_id : Nat]
      BY <1>2, <2>1, HeapAssumption DEF TryDestroy, HeapType
    <2>3. g.objects[id] = Null /\ \A c \in Cell : c # id => g.objects[c] = h.objects[c]
      BY <2>1, <2>2
    <2>4. LiveCells(g) = LiveCells(h) \ {id}
      BY <2>3 DEF LiveCells
    <2>5. id < h.next_id
      BY <2>1, HeapAssumption DEF FreshAreFree, Cell
    <2>6. HolesAreFree(g)
      <3>1. /\ DOMAIN g.holes = 1 .. Len(h.holes) + 1 /\ DOMAIN h.holes = 1 .. Len(h.holes)
            /\ \A i \in DOMAIN h.holes : g.holes[i] = h.holes[i] /\ h.holes[i] \in Cell
            /\ g.holes[Len(h.holes) + 1] = id /\ Len(h.holes) \in Nat
        BY <2>1, <2>2
      <3>2. \A i \in DOMAIN h.holes : h.holes[i] # id
        BY <2>1 DEF HolesAreFree
      <3>3. \A i \in DOMAIN g.holes : i \in DOMAIN h.holes \/ i = Len(h.holes) + 1
        BY <3>1
      <3>4. ASSUME NEW i \in DOMAIN g.holes
            PROVE  g.holes[i] < g.next_id /\ g.objects[g.holes[i]] = Null
        <4>1. CASE i \in DOMAIN h.holes
          BY <2>1, <2>2, <2>3, <3>1, <3>2, <4>1 DEF HolesAreFree
        <4>2. CASE i = Len(h.holes) + 1
          BY <2>2, <2>3, <2>5, <3>1, <4>2
        <4> QED
          BY <3>3, <4>1, <4>2
      <3>5. \A i, j \in DOMAIN g.holes : g.holes[i] = g.holes[j] => i = j
        BY <2>1, <3>1, <3>2, <3>3 DEF HolesAreFree
      <3> QED
        BY <3>4, <3>5 DEF HolesAreFree
    <2>7. FreshAreFree(g)
      BY <2>1, <2>2, <2>3 DEF FreshAreFree
    <2>8. ScoreIsExact(g)
      <3>1. Cardinality(LiveCells(g)) = Cardinality(LiveCells(h)) - 1
        <4>1. id \in LiveCells(h)
          BY <2>1 DEF LiveCells
        <4>2. IsFiniteSet(LiveCells(h))
          BY LiveCellsFinite
        <4>3. Cardinality(LiveCells(h) \ {id}) = Cardinality(LiveCells(h)) - 1
          BY <4>1, <4>2, FS_RemoveElement
        <4> QED
          BY <2>4, <4>3
      <3> QED
        BY <2>1, <2>2, <3>1, LiveCellsFinite, HeapAssumption DEF ScoreIsExact
    <2> QED
      BY <2>2, <2>4, <2>6, <2>7, <2>8 DEF HeapInvOf, HeapType
  <1> QED
    BY <1>1, <1>2

================================================================================
