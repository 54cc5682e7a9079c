----------------------------- MODULE EngineHeapProofs -----------------------------
(***************************************************************************)
(* The types of the engine's state and the soundness of its heap, proved   *)
(* for all well-formed programs, and for memories, call stacks and heaps of*)
(* any size.                                                               *)
(***************************************************************************)
EXTENDS ConventionProofs, HeapStorageProofs, ValueProofs

\* What a return copies back into the engine's registers was once there.
FramesTyped ==
  \A f \in FrameIndex :
    m_call_frames[f].old_base_ptr \in 0 .. MemLimit /\ m_call_frames[f].old_mem_top \in Register

(***************************************************************************)
(* Types and the soundness of the heap hold each other up: what a handler  *)
(* writes to a register it may have read in the heap, and what it writes to*)
(* the heap it may have read in a register.                                *)
(***************************************************************************)
EngineInv == EngineTypeOK /\ FramesTyped /\ HeapSound

--------------------------------------------------------------------------------
\* What a handler may count on when its step is defined

LEMMA DefinedSteps ==
  ASSUME NEW op, Executing(op)
  PROVE  /\ InLoop /\ HasInstruction /\ Instr.op = op /\ InBounds
         /\ op \in ArithOps \cup CompareOps \cup {"ret"} => \A o \in Operands : Fetchable(o)
         /\ (\A o \in Operands : Fetchable(o)) =>
              ~UsesDangling /\ (op = "make_seq" => NextCell(m_heap) \in Cell)
<1>1. InLoop /\ HasInstruction /\ Instr.op = op /\ UndefinedHere = {}
  BY DEF Executing
<1>2. InBounds /\ ~(Instr.op = "native_call" /\ ~HasNative)
  BY <1>1 DEF UndefinedHere
<1>3. op \in ArithOps \cup CompareOps \cup {"ret"} => \A o \in Operands : Fetchable(o)
  BY <1>1, <1>2 DEF UndefinedHere
<1>4. (\A o \in Operands : Fetchable(o)) => ~UsesDangling
  BY <1>1, <1>2 DEF UndefinedHere
<1>5. ASSUME \A o \in Operands : Fetchable(o), op = "make_seq", NextCell(m_heap) \notin Cell
      PROVE  FALSE
  <2>1. "oob_heap" \in UndefinedHere
    BY <1>1, <1>2, <1>4, <1>5 DEF UndefinedHere, Faults
  <2>2. QED
    BY <1>1, <2>1
<1>6. QED
  BY <1>1, <1>2, <1>3, <1>4, <1>5

\* The registers that a handler reads and writes are in the memory.
LEMMA CellsInMemory ==
  ASSUME InBounds
  PROVE  /\ \A o \in Operands : IsRegister(o) => Reg(o.id) \in Register
         /\ (\A o \in Operands : Fetchable(o)) =>
              /\ Instr.op \in {"seq_obj_pop", "seq_obj_get"} => Reg(Arg(2)) \in Register
              /\ Instr.op \notin {"nop", "inc", "dec", "halt", "jump", "call", "native_call",
                                  "ret"} =>
                   Reg(Arg(1)) \in Register
              /\ Instr.op = "native_call" => NativeCells \subseteq Register
<1>1. Cells \subseteq Register
  BY DEF InBounds
<1>2. \A o \in Operands : IsRegister(o) => Reg(o.id) \in Cells
  BY DEF Cells
<1>3. ASSUME \A o \in Operands : Fetchable(o)
      PROVE  /\ Instr.op \in {"seq_obj_pop", "seq_obj_get"} => Reg(Arg(2)) \in Cells
             /\ Instr.op \notin {"nop", "inc", "dec", "halt", "jump", "call", "native_call",
                                 "ret"} =>
                  Reg(Arg(1)) \in Cells
             /\ Instr.op = "native_call" => NativeCells \subseteq Cells
  BY <1>3 DEF Cells
<1>4. QED
  BY <1>1, <1>2, <1>3

\* An operand that can be fetched yields a value.
LEMMA FetchedIsValue ==
  ASSUME EngineTypeOK, InBounds, NEW o \in Operands, Fetchable(o)
  PROVE  Fetched(o) \in Value
<1>1. CASE IsConstant(o)
  <2>1. prgm.constants \in Seq(Value) /\ o.id + 1 \in DOMAIN prgm.constants
    BY <1>1 DEF InBounds, EngineTypeOK, ProgramType
  <2>2. QED
    BY <1>1, <2>1 DEF Fetched
<1>2. CASE ~IsConstant(o)
  <2>1. Reg(o.id) \in Register
    BY <1>2, CellsInMemory DEF Fetchable
  <2>2. QED
    BY <1>2, <2>1 DEF Fetched, Held, EngineTypeOK
<1>3. QED
  BY <1>1, <1>2

LEMMA HeldIsValue ==
  ASSUME EngineTypeOK, NEW id, Reg(id) \in Register
  PROVE  Held(id) \in Value
BY DEF EngineTypeOK, Held

--------------------------------------------------------------------------------
\* What a pointer leads to

\* What is in a live object is a list that counts its items.
LEMMA LiveObjects ==
  ASSUME HeapSound, NEW p, Live(p)
  PROVE  /\ p.cell \in Cell /\ p.cell \in LiveCells(m_heap)
         /\ ObjectAt(p) \in Sequence /\ Counted(ObjectAt(p)) /\ ObjectAt(p).serial = p.serial
<1>1. HeapType(m_heap, Sequence)
  BY DEF HeapSound, HeapInvOf
<1>2. p.cell \in Cell /\ m_heap.objects[p.cell] # Null /\ ObjectAt(p) = m_heap.objects[p.cell]
      /\ ObjectAt(p).serial = p.serial
  BY DEF Live, ObjectAt
<1>3. p.cell \in LiveCells(m_heap)
  BY <1>2 DEF LiveCells
<1>4. ObjectAt(p) \in Sequence
  BY <1>1, <1>2 DEF HeapType
<1>5. Counted(ObjectAt(p))
  BY <1>2, <1>3 DEF HeapSound
<1>6. QED
  BY <1>2, <1>3, <1>4, <1>5

\* The item of a sound reference is a value.
LEMMA SoundItems ==
  ASSUME HeapSound, NEW r, Sound(r)
  PROVE  ItemAt(r) \in Value
<1>1. Live(r.obj) /\ HasItem(ObjectAt(r.obj), r.pos)
  BY DEF Sound
<1>2. ObjectAt(r.obj).items \in Seq(Value)
  BY <1>1, LiveObjects, SequenceFields
<1>3. QED
  BY <1>1, <1>2 DEF ItemAt, HasItem

\* So is what a value resolves to, unless it is a reference that dangles.
LEMMA ResolvedIsValue ==
  ASSUME HeapSound, NEW v \in Value, ~EndsDangling(v)
  PROVE  Resolved(v) \in Value
BY SoundItems DEF Resolved, EndsDangling

--------------------------------------------------------------------------------
\* What a handler does to the heap: nothing, or it changes a list, or it creates one

Changes(p, s) == Live(p) /\ SameList(ObjectAt(p), s) /\ m_heap' = WithObject(p, s)

HeapStep ==
  \/ m_heap' = m_heap
  \/ \E p, s : Changes(p, s) /\ (PushTargetsFlexible => SameSize(ObjectAt(p), s))
  \/ NextCell(m_heap) \in Cell /\ m_heap' = TryCreate(m_heap, EmptySequence(m_heap.next_id))

(***************************************************************************)
(* A heap in which one list was replaced by what became of it is as sound  *)
(* as it was, and has the same lists alive.                                *)
(***************************************************************************)
LEMMA ChangeKeepsHeap ==
  ASSUME HeapSound, NEW p, NEW s, Changes(p, s)
  PROVE  HeapSound' /\ LiveCells(m_heap') = LiveCells(m_heap)
         /\ m_heap'.objects[p.cell] = s
         /\ \A c \in Cell \ {p.cell} : m_heap'.objects[c] = m_heap.objects[c]
<1>1. /\ HeapType(m_heap, Sequence) /\ HolesAreFree(m_heap) /\ FreshAreFree(m_heap)
      /\ ScoreIsExact(m_heap)
  BY DEF HeapSound, HeapInvOf
<1>2. /\ p.cell \in Cell /\ m_heap.objects[p.cell] # Null
      /\ m_heap.objects[p.cell].serial = s.serial /\ s \in Sequence /\ Counted(s) /\ s # Null
      /\ m_heap' = [m_heap EXCEPT !.objects[p.cell] = s]
  BY EngineAssumption DEF Changes, Live, ObjectAt, SameList, WithObject
<1>3. /\ m_heap'.objects = [m_heap.objects EXCEPT ![p.cell] = s]
      /\ m_heap'.holes = m_heap.holes /\ m_heap'.overhead = m_heap.overhead
      /\ m_heap'.next_id = m_heap.next_id
      /\ m_heap' \in [objects : [Cell -> Sequence \cup {Null}], holes : Seq(Cell),
                      overhead : Int, next_id : Nat]
  BY <1>1, <1>2 DEF HeapType
<1>4. m_heap'.objects[p.cell] = s /\ \A c \in Cell \ {p.cell} : m_heap'.objects[c] = m_heap.objects[c]
  BY <1>1, <1>2, <1>3 DEF HeapType
<1>5. LiveCells(m_heap') = LiveCells(m_heap)
  BY <1>2, <1>4 DEF LiveCells
<1>6. HolesAreFree(m_heap')
  <2>1. \A i \in DOMAIN m_heap.holes : m_heap.holes[i] \in Cell
    BY <1>1 DEF HeapType
  <2>2. QED
    BY <1>1, <1>2, <1>3, <1>4, <2>1 DEF HolesAreFree
<1>7. FreshAreFree(m_heap')
  BY <1>1, <1>2, <1>3, <1>4 DEF FreshAreFree
<1>8. ScoreIsExact(m_heap')
  BY <1>1, <1>3, <1>5 DEF ScoreIsExact
<1>9. HeapInvOf(m_heap', Sequence)
  BY <1>3, <1>6, <1>7, <1>8 DEF HeapInvOf, HeapType
<1>10. \A c \in LiveCells(m_heap') :
         /\ Counted(m_heap'.objects[c])
         /\ m_heap'.objects[c].serial = m_heap.objects[c].serial
  BY <1>2, <1>4, <1>5 DEF HeapSound, LiveCells
<1>11. HeapSound'
  BY <1>3, <1>5, <1>9, <1>10 DEF HeapSound
<1>12. QED
  BY <1>4, <1>5, <1>11

(***************************************************************************)
(* A heap with one more list is sound: the list is in a cell that was free,*)
(* and its serial number is new.                                           *)
(***************************************************************************)
LEMMA CreateKeepsHeap ==
  ASSUME HeapSound, NextCell(m_heap) \in Cell,
         m_heap' = TryCreate(m_heap, EmptySequence(m_heap.next_id))
  PROVE  /\ HeapSound' /\ NextCell(m_heap) \notin LiveCells(m_heap)
         /\ LiveCells(m_heap') = LiveCells(m_heap) \cup {NextCell(m_heap)}
         /\ \A c \in LiveCells(m_heap) : m_heap'.objects[c] = m_heap.objects[c]
<1> DEFINE cell == NextCell(m_heap)
           new == EmptySequence(m_heap.next_id)
<1>1. HeapInvOf(m_heap, Sequence) /\ m_heap.next_id \in Nat
      /\ m_heap.objects \in [Cell -> Sequence \cup {Null}]
  BY DEF HeapSound, HeapInvOf, HeapType
<1>2. new \in Sequence /\ Counted(new) /\ new.serial = m_heap.next_id
  BY <1>1, EmptySequenceCounts
<1>3. /\ cell \notin LiveCells(m_heap)
      /\ LiveCells(m_heap') = LiveCells(m_heap) \cup {cell}
      /\ HeapInvOf(m_heap', Sequence)
  BY <1>1, <1>2, CreateCorrect, EngineAssumption
<1>4. /\ m_heap'.objects = [m_heap.objects EXCEPT ![cell] = new]
      /\ m_heap'.next_id = m_heap.next_id + 1
  BY DEF TryCreate
<1> HIDE DEF new
<1>5. m_heap'.objects[cell] = new /\ \A c \in LiveCells(m_heap) : m_heap'.objects[c] = m_heap.objects[c]
  BY <1>1, <1>3, <1>4 DEF LiveCells
<1>6. \A c \in LiveCells(m_heap) :
        Counted(m_heap.objects[c]) /\ m_heap.objects[c].serial < m_heap.next_id
        /\ m_heap.objects[c].serial \in Nat
  <2>1. \A c \in LiveCells(m_heap) : m_heap.objects[c] \in Sequence
    BY <1>1 DEF LiveCells
  <2>2. QED
    BY <2>1, SequenceFields DEF HeapSound
<1>7. \A c \in LiveCells(m_heap') :
        Counted(m_heap'.objects[c]) /\ m_heap'.objects[c].serial < m_heap'.next_id
  BY <1>1, <1>2, <1>3, <1>4, <1>5, <1>6
<1>8. ASSUME NEW c \in LiveCells(m_heap'), NEW d \in LiveCells(m_heap'),
             m_heap'.objects[c].serial = m_heap'.objects[d].serial
      PROVE  c = d
  <2>1. CASE c \in LiveCells(m_heap) /\ d \in LiveCells(m_heap)
    BY <1>5, <1>8, <2>1 DEF HeapSound
  <2>2. CASE c = cell \/ d = cell
    BY <1>1, <1>2, <1>3, <1>5, <1>6, <1>8, <2>2
  <2>3. QED
    BY <1>3, <2>1, <2>2
<1>9. HeapSound'
  BY <1>3, <1>7, <1>8 DEF HeapSound
<1>10. QED
  BY <1>3, <1>5, <1>9

(***************************************************************************)
(* A step that changes or creates a list keeps the heap sound, and destroys*)
(* nothing.                                                                *)
(***************************************************************************)
LEMMA HeapStepKeepsHeap ==
  ASSUME HeapSound, HeapStep
  PROVE  HeapSound' /\ \A p : Live(p) => Live(p)'
<1>1. CASE m_heap' = m_heap
  BY <1>1 DEF HeapSound, Live, ObjectAt
<1>2. CASE \E p, s : Changes(p, s) /\ (PushTargetsFlexible => SameSize(ObjectAt(p), s))
  <2>1. PICK p, s : Changes(p, s)
    BY <1>2
  <2>2. HeapSound' /\ m_heap'.objects[p.cell] = s
        /\ \A c \in Cell \ {p.cell} : m_heap'.objects[c] = m_heap.objects[c]
    BY <2>1, ChangeKeepsHeap
  <2>3. s # Null /\ s.serial = m_heap.objects[p.cell].serial
    BY <2>1, EngineAssumption DEF Changes, SameList, ObjectAt
  <2>4. QED
    BY <2>2, <2>3 DEF Live, ObjectAt
<1>3. CASE NextCell(m_heap) \in Cell /\ m_heap' = TryCreate(m_heap, EmptySequence(m_heap.next_id))
  <2>1. HeapSound' /\ \A c \in LiveCells(m_heap) : m_heap'.objects[c] = m_heap.objects[c]
    BY <1>3, CreateKeepsHeap
  <2>2. QED
    BY <2>1 DEF Live, ObjectAt, LiveCells
<1>4. QED
  BY <1>1, <1>2, <1>3 DEF HeapStep

--------------------------------------------------------------------------------
\* The collection

\* The recursive function in Swept: what is left after each of the first n cells.
Sweeps(h, n, sweep) ==
  sweep = [k \in 0 .. n |-> IF k = 0 THEN h ELSE TryDestroy(sweep[k - 1], k - 1)]

LEMMA SweepsExist ==
  ASSUME NEW h, NEW n \in Nat
  PROVE  \E sweep : Sweeps(h, n, sweep)
<1> DEFINE S == {m \in Nat : \E sweep : Sweeps(h, m, sweep)}
<1>1. 0 \in S
  <2>1. Sweeps(h, 0, [k \in 0 .. 0 |-> h])
    BY DEF Sweeps
  <2>2. QED
    BY <2>1
<1>2. ASSUME NEW m \in Nat, m \in S
      PROVE  m + 1 \in S
  <2>1. PICK f : Sweeps(h, m, f)
    BY <1>2
  <2> DEFINE g == [k \in 0 .. m + 1 |-> IF k = m + 1 THEN TryDestroy(f[m], m) ELSE f[k]]
  <2>2. ASSUME NEW k \in 0 .. m + 1
        PROVE  g[k] = IF k = 0 THEN h ELSE TryDestroy(g[k - 1], k - 1)
    <3>1. CASE k = 0
      BY <2>1, <3>1 DEF Sweeps
    <3>2. CASE k = m + 1
      BY <3>2
    <3>3. CASE k \in 1 .. m
      <4>1. f[k] = TryDestroy(f[k - 1], k - 1)
        BY <2>1, <3>3 DEF Sweeps
      <4>2. g[k] = f[k] /\ g[k - 1] = f[k - 1] /\ k # 0
        BY <3>3
      <4>3. QED
        BY <4>1, <4>2
    <3>4. QED
      BY <3>1, <3>2, <3>3
  <2>3. g = [k \in 0 .. m + 1 |-> IF k = 0 THEN h ELSE TryDestroy(g[k - 1], k - 1)]
    BY <2>2
  <2> HIDE DEF g
  <2>4. QED
    BY <2>3 DEF Sweeps
<1> HIDE DEF S
<1>3. Nat \subseteq S
  BY <1>1, <1>2, NaturalInduction
<1>4. QED
  BY <1>3 DEF S

\* The collection stops at a cell, if one is empty, that has none below it.
LEMMA FirstEmptyIsFirst ==
  ASSUME NEW h
  PROVE  /\ FirstEmpty(h) \in 0 .. Capacity
         /\ 0 .. FirstEmpty(h) - 1 \subseteq LiveCells(h)
         /\ FirstEmpty(h) < Capacity => FirstEmpty(h) \in Cell \ LiveCells(h)
         /\ FirstEmpty(h) = Capacity <=> LiveCells(h) = Cell
<1>0. LiveCells(h) \subseteq Cell /\ Cell = 0 .. Capacity - 1 /\ Capacity \in Nat \ {0}
  BY HeapAssumption DEF LiveCells, Cell
<1>1. CASE LiveCells(h) = Cell
  BY <1>0, <1>1 DEF FirstEmpty
<1>2. CASE LiveCells(h) # Cell
  <2>1. Cell \ LiveCells(h) # {} /\ Cell \ LiveCells(h) \subseteq Nat
    <3>1. \E c \in Cell : c \notin LiveCells(h)
      BY <1>0, <1>2, Zenon
    <3>2. Cell \subseteq Nat
      BY <1>0
    <3>3. QED
      BY <3>1, <3>2
  <2>2. PICK c \in Cell \ LiveCells(h) : \A d \in Cell \ LiveCells(h) : c <= d
    BY <2>1, LeastNatural
  <2>3. 0 .. c - 1 \subseteq LiveCells(h)
    BY <1>0, <2>2
  <2>4. FirstEmpty(h) \in Cell \ LiveCells(h) /\ 0 .. FirstEmpty(h) - 1 \subseteq LiveCells(h)
    BY <1>2, <2>2, <2>3 DEF FirstEmpty
  <2>5. QED
    BY <1>0, <1>2, <2>4
<1>3. QED
  BY <1>1, <1>2

(***************************************************************************)
(* A collection (try_mark_and_sweep) destroys the objects of all cells     *)
(* below the first empty one, and no others; the heap stays as its class   *)
(* wants it.  Which objects are marked makes no difference.                *)
(***************************************************************************)
THEOREM SweptExactly ==
  ASSUME NEW Objs, NEW h, HeapInvOf(h, Objs)
  PROVE  /\ HeapInvOf(Swept(h), Objs)
         /\ LiveCells(Swept(h)) = LiveCells(h) \ (0 .. FirstEmpty(h) - 1)
         /\ \A c \in LiveCells(Swept(h)) : Swept(h).objects[c] = h.objects[c]
         /\ Swept(h).next_id = h.next_id
         /\ LiveCells(h) = Cell => LiveCells(Swept(h)) = {}
<1> DEFINE n == FirstEmpty(h)
           sweep == CHOOSE f : Sweeps(h, n, f)
           Left(k, g) == /\ HeapInvOf(g, Objs)
                         /\ LiveCells(g) = LiveCells(h) \ (0 .. k - 1)
                         /\ \A c \in LiveCells(g) : g.objects[c] = h.objects[c]
                         /\ g.next_id = h.next_id
           S == {k \in Nat : k <= n => Left(k, sweep[k])}
<1>1. n \in Nat /\ n <= Capacity /\ Capacity \in Nat /\ (LiveCells(h) = Cell => n = Capacity)
  BY FirstEmptyIsFirst, HeapAssumption
<1>2. Sweeps(h, n, sweep)
  BY <1>1, SweepsExist
<1>3. Swept(h) = sweep[n]
  BY DEF Swept, Sweeps
<1> HIDE DEF n, sweep
<1>4. 0 \in S
  <2>1. sweep[0] = h
    BY <1>1, <1>2 DEF Sweeps
  <2>2. QED
    BY <2>1
<1>5. ASSUME NEW k \in Nat, k \in S
      PROVE  k + 1 \in S
  <2> SUFFICES ASSUME k + 1 <= n PROVE Left(k + 1, sweep[k + 1])
    OBVIOUS
  <2> DEFINE g == sweep[k]
  <2>1. Left(k, g)
    BY <1>1, <1>5
  <2>2. sweep[k + 1] = TryDestroy(g, k)
    BY <1>1, <1>2 DEF Sweeps
  <2>3. k \in Cell
    BY <1>1 DEF Cell
  <2>4. HeapInvOf(TryDestroy(g, k), Objs) /\ LiveCells(TryDestroy(g, k)) = LiveCells(g) \ {k}
    BY <2>1, <2>3, DestroyCorrect
  <2>5. LiveCells(TryDestroy(g, k)) = LiveCells(h) \ (0 .. (k + 1) - 1)
    BY <2>1, <2>3, <2>4
  <2>6. TryDestroy(g, k).next_id = g.next_id
        /\ \A c \in Cell \ {k} : TryDestroy(g, k).objects[c] = g.objects[c]
    BY <2>1 DEF TryDestroy, HeapInvOf, HeapType
  <2>7. \A c \in LiveCells(TryDestroy(g, k)) : TryDestroy(g, k).objects[c] = h.objects[c]
    BY <2>1, <2>4, <2>6 DEF LiveCells
  <2>8. QED
    BY <2>1, <2>2, <2>4, <2>5, <2>6, <2>7
<1>6. Nat \subseteq S
  <2> HIDE DEF S
  <2>1. QED
    BY <1>4, <1>5, NaturalInduction
<1>7. Left(n, Swept(h))
  BY <1>1, <1>3, <1>6
<1>8. LiveCells(h) = Cell => LiveCells(Swept(h)) = {}
  BY <1>1, <1>7 DEF Cell
<1>9. QED
  BY <1>7, <1>8 DEF n

--------------------------------------------------------------------------------
\* What every handler but handle_call and handle_ret leaves

TypedStep ==
  /\ m_memory' \in [Register -> Value]
  /\ m_rft' \in Register
  /\ HeapStep
  /\ fault' \in Faults \cup {NoFault} /\ exit' \in Statuses \cup {Running}

LEMMA WrittenMemory ==
  ASSUME EngineTypeOK, NEW v \in Value
  PROVE  Returned(v) \in [Register -> Value] /\ \A id : Put(id, v) \in [Register -> Value]
BY DEF EngineTypeOK, Put, Returned

LEMMA RaisedTop ==
  ASSUME EngineTypeOK, NEW id, Reg(id) \in Register
  PROVE  Raised(id) \in Register
BY DEF EngineTypeOK, Raised

\* What the three ways in which a handler ends leave.
LEMMA ContinueIsTyped ==
  ASSUME EngineTypeOK, HeapStep, NEW mem \in [Register -> Value], NEW heap, NEW top \in Register,
         Continue(mem, heap, top)
  PROVE  TypedStep
BY DEF EngineTypeOK, Continue, SameActivation, TypedStep

LEMMA FailIsTyped ==
  ASSUME EngineTypeOK, NEW status, Fail(status)
  PROVE  TypedStep
BY DEF EngineTypeOK, Fail, SameActivation, TypedStep, HeapStep

LEMMA NativeIsTyped ==
  ASSUME EngineTypeOK, HeapStep, NEW mem \in [Register -> Value], NEW heap, NEW success,
         NativeDone(mem, heap, success)
  PROVE  TypedStep
BY DEF EngineTypeOK, NativeDone, SameActivation, TypedStep

\* A write through a sound reference changes one list, and not its size.
LEMMA WithItemIsHeapStep ==
  ASSUME HeapSound, NEW r, Sound(r), NEW v \in Value, m_heap' = WithItem(r, v)
  PROVE  HeapStep
<1>1. Live(r.obj) /\ HasItem(ObjectAt(r.obj), r.pos)
  BY DEF Sound
<1>2. ObjectAt(r.obj) \in Sequence /\ Counted(ObjectAt(r.obj))
  BY <1>1, LiveObjects
<1> DEFINE s == [ObjectAt(r.obj) EXCEPT !.items[r.pos + 1] = v]
<1>3. SameList(ObjectAt(r.obj), s) /\ SameSize(ObjectAt(r.obj), s)
  BY <1>1, <1>2, WriteChanges
<1>4. m_heap' = WithObject(r.obj, s)
  BY DEF WithItem
<1>5. QED
  BY <1>1, <1>3, <1>4 DEF HeapStep, Changes

(***************************************************************************)
(* The handlers of sequences: every list they change counts its items, and *)
(* every pointer they make leads somewhere.                                *)
(***************************************************************************)
LEMMA MakeSeqIsTyped ==
  ASSUME EngineInv, MakeSeq
  PROVE  TypedStep
<1> DEFINE p == [cell |-> NextCell(m_heap), serial |-> m_heap.next_id]
<1>1. Executing("make_seq")
      /\ Continue(Put(Arg(1), SeqPtr(p)), TryCreate(m_heap, EmptySequence(m_heap.next_id)), m_rft)
  BY DEF MakeSeq
<1>2. Operands = {}
  BY <1>1, DefinedSteps DEF Operands, ArithOps, CompareOps
<1>3. NextCell(m_heap) \in Cell
  BY <1>1, <1>2, DefinedSteps
<1>4. HeapStep
  BY <1>1, <1>3 DEF Continue, HeapStep
<1>5. p \in ObjectPtr
  BY <1>3 DEF ObjectPtr, Cell, EngineInv, EngineTypeOK, HeapType
<1>6. Put(Arg(1), SeqPtr(p)) \in [Register -> Value]
  BY <1>5, MadeValues, WrittenMemory DEF EngineInv
<1>7. QED
  BY <1>1, <1>4, <1>6, ContinueIsTyped DEF EngineInv, EngineTypeOK

LEMMA SeqObjPushIsTyped ==
  ASSUME EngineInv, SeqObjPush
  PROVE  TypedStep
<1>1. Executing("seq_obj_push")
  BY DEF SeqObjPush
<1>2. Operands = {Lhs} /\ InBounds /\ Instr.op = "seq_obj_push"
  BY <1>1, DefinedSteps DEF Operands, ArithOps, CompareOps
<1>3. CASE Fetchable(Lhs) /\ IsSeq(Held(Arg(1)))
  <2> DEFINE p == Held(Arg(1)).obj_p
             s == PushValue(ObjectAt(p), Fetched(Lhs))
  <2>1. Continue(m_memory, WithObject(p, s), m_rft)
    BY <1>3 DEF SeqObjPush
  <2>2. Live(p)
    BY <1>1, <1>2, <1>3, DefinedSteps DEF UsesDangling, Used, ArithOps, CompareOps
  <2>3. ObjectAt(p) \in Sequence /\ Counted(ObjectAt(p))
    BY <2>2, LiveObjects DEF EngineInv
  <2>4. Fetched(Lhs) \in Value
    BY <1>2, <1>3, FetchedIsValue DEF EngineInv
  <2>5. SameList(ObjectAt(p), s)
    BY <2>3, <2>4, PushChanges
  <2>6. PushTargetsFlexible => SameSize(ObjectAt(p), s)
    BY <1>1, <1>3 DEF PushTargetsFlexible, SameSize
  <2>7. HeapStep
    BY <2>1, <2>2, <2>5, <2>6 DEF HeapStep, Changes, Continue
  <2>8. QED
    BY <2>1, <2>7, ContinueIsTyped DEF EngineInv, EngineTypeOK
<1>4. CASE ~(Fetchable(Lhs) /\ IsSeq(Held(Arg(1))))
  BY <1>4, FailIsTyped DEF SeqObjPush, EngineInv
<1>5. QED
  BY <1>3, <1>4

LEMMA SeqObjPopIsTyped ==
  ASSUME EngineInv, SeqObjPop
  PROVE  TypedStep
<1>1. Executing("seq_obj_pop")
  BY DEF SeqObjPop
<1>2. Operands = {} /\ Instr.op = "seq_obj_pop"
  BY <1>1, DefinedSteps DEF Operands, ArithOps, CompareOps
<1>3. CASE IsSeq(Held(Arg(2)))
  <2> DEFINE p == Held(Arg(2)).obj_p
             mode == IF Arg(3) = 1 THEN "back" ELSE "front"
             s == PopRest(ObjectAt(p), mode)
  <2>1. Continue(Put(Arg(1), PoppedValue(ObjectAt(p), mode)), WithObject(p, s), m_rft)
    BY <1>3 DEF SeqObjPop
  <2>2. Live(p)
    BY <1>1, <1>2, <1>3, DefinedSteps DEF UsesDangling, Used
  <2>3. ObjectAt(p) \in Sequence /\ Counted(ObjectAt(p)) /\ mode \in {"back", "front"}
    BY <2>2, LiveObjects DEF EngineInv
  <2>4. PoppedValue(ObjectAt(p), mode) \in Value
        /\ SameList(ObjectAt(p), s) /\ SameSize(ObjectAt(p), s)
    BY <2>3, PopChanges
  <2> HIDE DEF mode
  <2>5. HeapStep
    BY <2>1, <2>2, <2>4 DEF HeapStep, Changes, Continue
  <2>6. QED
    BY <2>1, <2>4, <2>5, WrittenMemory, ContinueIsTyped DEF EngineInv, EngineTypeOK
<1>4. CASE ~IsSeq(Held(Arg(2)))
  BY <1>4, FailIsTyped DEF SeqObjPop, EngineInv
<1>5. QED
  BY <1>3, <1>4

LEMMA SeqObjGetIsTyped ==
  ASSUME EngineInv, SeqObjGet
  PROVE  TypedStep
<1>1. Executing("seq_obj_get")
  BY DEF SeqObjGet
<1>2. Operands = {Rhs} /\ InBounds /\ Instr.op = "seq_obj_get"
  BY <1>1, DefinedSteps DEF Operands, ArithOps, CompareOps
<1> DEFINE pos == Fetched(Rhs).scalar_v
           src == Held(Arg(2))
           found == /\ Fetchable(Rhs) /\ Fetched(Rhs).tag = "int32"
                    /\ IsSeq(src) /\ HasItem(ObjectAt(src.obj_p), pos)
           item == [obj |-> src.obj_p, gen |-> ObjectAt(src.obj_p).gen, pos |-> pos]
<1>3. CASE found
  <2>1. Continue(Put(Arg(1), ValRef(item)), m_heap, m_rft)
    BY <1>3 DEF SeqObjGet
  <2>2. Live(src.obj_p)
    BY <1>1, <1>2, <1>3, DefinedSteps DEF UsesDangling, Used
  <2>3. ObjectAt(src.obj_p) \in Sequence
    BY <2>2, LiveObjects DEF EngineInv
  <2>4. src \in Value
    <3>1. Reg(Arg(2)) \in Register
      BY <1>2, <1>3, CellsInMemory
    <3>2. QED
      BY <3>1, HeldIsValue DEF EngineInv
  <2>5. src.obj_p \in ObjectPtr /\ ObjectAt(src.obj_p).gen \in Nat /\ pos \in Nat
    <3>1. Len(ObjectAt(src.obj_p).items) \in Nat /\ ObjectAt(src.obj_p).gen \in Nat
      BY <2>3, SequenceFields
    <3>2. pos \in Nat
      BY <1>3, <3>1 DEF HasItem
    <3>3. src.obj_p \in ObjectPtr
      BY <1>3, <2>4, ValueFields
    <3>4. QED
      BY <3>1, <3>2, <3>3
  <2>6. item \in ItemPtr
    BY <2>5 DEF ItemPtr
  <2>7. Put(Arg(1), ValRef(item)) \in [Register -> Value]
    BY <2>6, MadeValues, WrittenMemory DEF EngineInv
  <2>8. QED
    BY <2>1, <2>7, ContinueIsTyped DEF HeapStep, Continue, EngineInv, EngineTypeOK
<1>4. CASE ~found
  <2>1. \E status : Fail(status)
    BY <1>4 DEF SeqObjGet
  <2>2. QED
    BY <2>1, FailIsTyped DEF EngineInv
<1>5. QED
  BY <1>3, <1>4

LEMMA FrzSeqObjIsTyped ==
  ASSUME EngineInv, FrzSeqObj
  PROVE  TypedStep
<1>1. Executing("frz_seq_obj")
  BY DEF FrzSeqObj
<1>2. Operands = {} /\ Instr.op = "frz_seq_obj"
  BY <1>1, DefinedSteps DEF Operands, ArithOps, CompareOps
<1>3. CASE IsSeq(Held(Arg(1)))
  <2> DEFINE p == Held(Arg(1)).obj_p
             s == Freeze(ObjectAt(p))
  <2>1. Continue(m_memory, WithObject(p, s), m_rft)
    BY <1>3 DEF FrzSeqObj
  <2>2. Live(p)
    BY <1>1, <1>2, <1>3, DefinedSteps DEF UsesDangling, Used
  <2>3. SameList(ObjectAt(p), s) /\ SameSize(ObjectAt(p), s)
    BY <2>2, LiveObjects, FreezeChanges DEF EngineInv
  <2>4. HeapStep
    BY <2>1, <2>2, <2>3 DEF HeapStep, Changes, Continue
  <2>5. QED
    BY <2>1, <2>4, ContinueIsTyped DEF EngineInv, EngineTypeOK
<1>4. CASE ~IsSeq(Held(Arg(1)))
  BY <1>4, FailIsTyped DEF FrzSeqObj, EngineInv
<1>5. QED
  BY <1>3, <1>4

(***************************************************************************)
(* Moves, arithmetic and comparisons: whatever goes to a register or       *)
(* through a reference is a value.                                         *)
(***************************************************************************)
LEMMA RegisterWriteIsTyped ==
  ASSUME EngineInv, NEW op, Executing(op), \A o \in Operands : Fetchable(o),
         op \in {"load_const", "mov"} \cup ArithOps \cup CompareOps,
         NEW v \in Value, NEW heap, Continue(Put(Arg(1), v), heap, Raised(Arg(1))), HeapStep
  PROVE  TypedStep
<1>1. Reg(Arg(1)) \in Register
  BY DefinedSteps, CellsInMemory DEF ArithOps, CompareOps
<1>2. QED
  BY <1>1, RaisedTop, WrittenMemory, ContinueIsTyped DEF EngineInv

LEMMA LoadConstIsTyped ==
  ASSUME EngineInv, LoadConst
  PROVE  TypedStep
<1>1. /\ Executing("load_const")
      /\ Continue(Put(Arg(1), Fetched(ConstantArg)), m_heap, Raised(Arg(1)))
  BY DEF LoadConst
<1>2. Operands = {ConstantArg} /\ Fetchable(ConstantArg) /\ InBounds
  BY <1>1, DefinedSteps DEF Operands, ArithOps, CompareOps, ConstantArg, Fetchable, IsConstant,
                            SameMode
<1>3. Fetched(ConstantArg) \in Value
  BY <1>2, FetchedIsValue DEF EngineInv
<1>4. HeapStep
  BY <1>1 DEF HeapStep, Continue
<1>5. QED
  BY <1>1, <1>2, <1>3, <1>4, RegisterWriteIsTyped

LEMMA MovIsTyped ==
  ASSUME EngineInv, Mov
  PROVE  TypedStep
<1>1. Executing("mov")
  BY DEF Mov
<1>2. Operands = {Lhs} /\ InBounds /\ Instr.op = "mov"
  BY <1>1, DefinedSteps DEF Operands, ArithOps, CompareOps
<1>3. CASE ~Fetchable(Lhs)
  BY <1>3, FailIsTyped DEF Mov, EngineInv
<1>4. CASE Fetchable(Lhs)
  <2>1. Fetched(Lhs) \in Value /\ Reg(Arg(1)) \in Register /\ ~UsesDangling
    BY <1>1, <1>2, <1>4, DefinedSteps, CellsInMemory, FetchedIsValue DEF EngineInv
  <2>2. CASE IsRef(Held(Arg(1))) /\ ~IsRef(Fetched(Lhs))
    <3> DEFINE r == Referent(Held(Arg(1)).fv_p)
    <3>1. Continue(m_memory, WithItem(r, Fetched(Lhs)), Raised(Arg(1)))
      BY <1>4, <2>2 DEF Mov
    <3>2. Held(Arg(1)) \in Followed
      BY <1>2, <2>2 DEF Followed, ArithOps, CompareOps
    <3>3. Sound(r)
      BY <2>1, <2>2, <3>2 DEF UsesDangling, EndsDangling
    <3>4. HeapStep
      BY <2>1, <3>1, <3>3, WithItemIsHeapStep DEF EngineInv, Continue
    <3>5. QED
      BY <2>1, <3>1, <3>4, RaisedTop, ContinueIsTyped DEF EngineInv, EngineTypeOK
  <2>3. CASE ~(IsRef(Held(Arg(1))) /\ ~IsRef(Fetched(Lhs)))
    <3>1. Continue(Put(Arg(1), Fetched(Lhs)), m_heap, Raised(Arg(1)))
      BY <1>4, <2>3 DEF Mov
    <3>2. HeapStep
      BY <3>1 DEF HeapStep, Continue
    <3>3. QED
      BY <1>1, <1>2, <1>4, <2>1, <3>1, <3>2, RegisterWriteIsTyped
  <2>4. QED
    BY <2>2, <2>3
<1>5. QED
  BY <1>3, <1>4

LEMMA NegIsTyped ==
  ASSUME EngineInv, Neg
  PROVE  TypedStep
<1> DEFINE v == Held(Arg(1))
           flipped == Bool(Resolved(v).scalar_v = 0)
           r == Referent(v.fv_p)
<1>1. Executing("neg")
  BY DEF Neg
<1>2. Operands = {} /\ Instr.op = "neg"
  BY <1>1, DefinedSteps DEF Operands, ArithOps, CompareOps
<1>3. Reg(Arg(1)) \in Register /\ ~UsesDangling
  BY <1>1, <1>2, DefinedSteps, CellsInMemory
<1>4. flipped \in Value
  BY MadeValues
<1>5. CASE Resolved(v).tag # "boolean"
  <2>1. Continue(m_memory, m_heap, m_rft)
    BY <1>5 DEF Neg
  <2>2. QED
    BY <2>1, ContinueIsTyped DEF HeapStep, Continue, EngineInv, EngineTypeOK
<1>6. CASE Resolved(v).tag = "boolean"
  <2>1. /\ m_memory' = IF IsRef(v) THEN m_memory ELSE Put(Arg(1), flipped)
        /\ m_heap' = IF IsRef(v) THEN WithItem(r, flipped) ELSE m_heap
        /\ m_rft' = Raised(Arg(1)) /\ UNCHANGED <<fault, exit>>
    BY <1>6 DEF Neg, SameActivation
  <2>2. v \in Followed
    BY <1>2 DEF Followed, ArithOps, CompareOps
  <2>3. IsRef(v) => Sound(r)
    BY <1>3, <2>2 DEF UsesDangling, EndsDangling
  <2> HIDE DEF v, flipped, r
  <2>4. HeapStep
    <3>1. CASE IsRef(v)
      BY <1>4, <2>1, <2>3, <3>1, WithItemIsHeapStep DEF EngineInv
    <3>2. CASE ~IsRef(v)
      BY <2>1, <3>2 DEF HeapStep
    <3>3. QED
      BY <3>1, <3>2
  <2>5. m_memory' \in [Register -> Value]
    BY <1>4, <2>1, WrittenMemory DEF EngineInv, EngineTypeOK
  <2>6. QED
    BY <1>3, <2>1, <2>4, <2>5, RaisedTop DEF TypedStep, EngineInv, EngineTypeOK
<1>7. QED
  BY <1>5, <1>6

\* Both operands of an operator are values, and the left one does not dangle.
LEMMA OperandsOfOperator ==
  ASSUME EngineInv, NEW op \in ArithOps \cup CompareOps, Executing(op)
  PROVE  /\ \A o \in Operands : Fetchable(o)
         /\ Fetched(Lhs) \in Value /\ Fetched(Rhs) \in Value
         /\ ~EndsDangling(Fetched(Lhs)) /\ Resolved(Fetched(Lhs)) \in Value
<1>0. Instr.op \in ArithOps \cup CompareOps /\ InBounds /\ \A o \in Operands : Fetchable(o)
  BY DefinedSteps
<1>1. Operands = {Lhs, Rhs} /\ Followed = {Fetched(Lhs)}
  BY <1>0 DEF Operands, Followed, ArithOps, CompareOps
<1>2. Fetched(Lhs) \in Value /\ Fetched(Rhs) \in Value
  BY <1>0, <1>1, FetchedIsValue DEF EngineInv
<1>3. ~EndsDangling(Fetched(Lhs))
  BY <1>0, <1>1, DefinedSteps DEF UsesDangling
<1>4. QED
  BY <1>0, <1>2, <1>3, ResolvedIsValue DEF EngineInv

LEMMA InPlaceArithIsTyped ==
  ASSUME EngineInv, NEW op \in {"mul", "add", "sub"}, InPlaceArith(op)
  PROVE  TypedStep
<1> DEFINE lhs == Fetched(Lhs)
<1>1. Executing(op) /\ op \in ArithOps
  BY DEF InPlaceArith, ArithOps
<1>2. /\ lhs \in Value /\ Fetched(Rhs) \in Value /\ ~EndsDangling(lhs) /\ Resolved(lhs) \in Value
      /\ \A o \in Operands : Fetchable(o)
  BY <1>1, OperandsOfOperator
<1>3. PICK r \in Arith(op, Resolved(lhs), Fetched(Rhs)) :
        IF IsRef(lhs)
        THEN Continue(Put(Arg(1), lhs), WithItem(Referent(lhs.fv_p), r), Raised(Arg(1)))
        ELSE Continue(Put(Arg(1), r), m_heap, Raised(Arg(1)))
  BY DEF InPlaceArith
<1>4. r \in Value
  BY <1>2, ArithmeticYieldsValues
<1> HIDE DEF lhs
<1>5. CASE IsRef(lhs)
  <2>1. Sound(Referent(lhs.fv_p))
    BY <1>2, <1>5 DEF EndsDangling
  <2>2. HeapStep
    BY <1>3, <1>4, <1>5, <2>1, WithItemIsHeapStep DEF EngineInv, Continue
  <2>3. QED
    BY <1>1, <1>2, <1>3, <1>5, <2>2, RegisterWriteIsTyped
<1>6. CASE ~IsRef(lhs)
  <2>1. HeapStep
    BY <1>3, <1>6 DEF HeapStep, Continue
  <2>2. QED
    BY <1>1, <1>2, <1>3, <1>4, <1>6, <2>1, RegisterWriteIsTyped
<1>7. QED
  BY <1>5, <1>6

LEMMA QuotientIsTyped ==
  ASSUME EngineInv, NEW op \in {"div", "mod"}, Quotient(op)
  PROVE  TypedStep
<1>1. Executing(op) /\ op \in ArithOps
  BY DEF Quotient, ArithOps
<1>2. /\ Fetched(Rhs) \in Value /\ Resolved(Fetched(Lhs)) \in Value
      /\ \A o \in Operands : Fetchable(o)
  BY <1>1, OperandsOfOperator
<1>3. PICK r \in Arith(op, Resolved(Fetched(Lhs)), Fetched(Rhs)) :
        IF r = Dud THEN Fail("math_error") ELSE Continue(Put(Arg(1), r), m_heap, Raised(Arg(1)))
  BY DEF Quotient
<1>4. r \in Value
  BY <1>2, ArithmeticYieldsValues
<1>5. CASE r = Dud
  BY <1>3, <1>5, FailIsTyped DEF EngineInv
<1>6. CASE r # Dud
  <2>1. HeapStep
    BY <1>3, <1>6 DEF HeapStep, Continue
  <2>2. QED
    BY <1>1, <1>2, <1>3, <1>4, <1>6, <2>1, RegisterWriteIsTyped
<1>7. QED
  BY <1>5, <1>6

LEMMA ComparisonIsTyped ==
  ASSUME EngineInv, NEW op \in CompareOps, Comparison(op)
  PROVE  TypedStep
<1>1. Executing(op) /\ \A o \in Operands : Fetchable(o)
  BY OperandsOfOperator DEF Comparison
<1>2. PICK holds : Continue(Put(Arg(1), Bool(holds)), m_heap, Raised(Arg(1)))
  BY DEF Comparison
<1>3. Bool(holds) \in Value
  BY MadeValues
<1>4. HeapStep
  BY <1>2 DEF HeapStep, Continue
<1>5. QED
  BY <1>1, <1>2, <1>3, <1>4, RegisterWriteIsTyped

\* The handlers that leave registers and heap as they are.
LEMMA OthersAreTyped ==
  ASSUME EngineInv
  PROVE  /\ Nop => TypedStep
         /\ Inc \/ Dec \/ Halt => TypedStep
         /\ Jump \/ JumpIf \/ JumpElse => TypedStep
         /\ UNCHANGED vars => TypedStep
         /\ Crash => TypedStep
         /\ Finish => TypedStep
<1>1. Nop => TypedStep
  BY ContinueIsTyped DEF Nop, HeapStep, Continue, EngineInv, EngineTypeOK
<1>2. Inc \/ Dec \/ Halt => TypedStep
  BY FailIsTyped DEF Inc, Dec, Halt, EngineInv
<1>3. \A ip : JumpTo(ip) => TypedStep
  BY DEF JumpTo, SameActivation, TypedStep, HeapStep, EngineInv, EngineTypeOK
<1>4. Jump \/ JumpIf \/ JumpElse => TypedStep
  BY <1>3 DEF Jump, JumpIf, JumpElse
<1>5. UNCHANGED vars => TypedStep
  BY DEF vars, TypedStep, HeapStep, EngineInv, EngineTypeOK
<1>6. Crash => TypedStep
  <2>1. \A f \in UndefinedHere : f \in Faults
    BY DEF UndefinedHere, Faults
  <2>2. QED
    BY <2>1 DEF Crash, TypedStep, HeapStep, EngineInv, EngineTypeOK
<1>7. Finish => TypedStep
  <2>1. "ok" \in Statuses /\ "user_error" \in Statuses /\ "dangling" \in Faults /\ "endless" \in Faults
    BY DEF Statuses, Faults
  <2> SUFFICES ASSUME Finish PROVE TypedStep
    OBVIOUS
  <2>2. /\ fault' \in {fault, "dangling", "endless"}
        /\ exit' \in {exit, m_res, "ok", "user_error"}
        /\ UNCHANGED <<m_memory, m_rft, m_heap>>
    BY DEF Finish
  <2>3. QED
    BY <2>1, <2>2 DEF TypedStep, HeapStep, EngineInv, EngineTypeOK
<1>8. QED
  BY <1>1, <1>2, <1>4, <1>5, <1>6, <1>7

(***************************************************************************)
(* The native functions: a list they change is live and flexible, and what *)
(* they return is a value.                                                 *)
(***************************************************************************)
LEMMA NativeArguments ==
  ASSUME EngineInv, NEW name, NativeCalled(name)
  PROVE  /\ name \in {"print", "prompt_int", "prompt_float", "len_of", "list_push_back",
                      "list_pop_back", "list_pop_front", "list_concat"} =>
              NativeArg(0) \in Value
         /\ name \in {"list_push_back", "list_concat"} => NativeArg(1) \in Value
         /\ name \in {"len_of", "list_push_back", "list_pop_back", "list_pop_front"}
              /\ IsSeq(NativeArg(0)) => Live(NativeArg(0).obj_p)
         /\ name = "list_concat" /\ IsSeq(NativeArg(0)) /\ IsSeq(NativeArg(1)) =>
              Live(NativeArg(0).obj_p) /\ Live(NativeArg(1).obj_p)
<1>1. Executing("native_call") /\ Instr.op = "native_call" /\ NativeName = name /\ InBounds
  BY DefinedSteps DEF NativeCalled
<1>2. HasNative
  BY <1>1 DEF Executing, UndefinedHere
<1>3. Operands = {}
  BY <1>1 DEF Operands, ArithOps, CompareOps
<1>4. NativeCells \subseteq Register /\ ~UsesDangling
  BY <1>1, <1>3, CellsInMemory, DefinedSteps
<1>5. NativeArg(0) \in Value
  <2>1. NativeBase \in Register
    BY <1>1, <1>2, <1>4 DEF NativeCells
  <2>2. NativeBase + 0 = NativeBase
    BY <2>1 DEF Register
  <2>3. QED
    BY <2>1, <2>2 DEF NativeArg, EngineInv, EngineTypeOK
<1>6. name \in {"list_push_back", "list_concat"} => NativeArg(1) \in Value
  <2>1. name \in {"list_push_back", "list_concat"} => NativeBase + 1 \in Register
    BY <1>1, <1>2, <1>4 DEF NativeCells
  <2>2. QED
    BY <2>1 DEF NativeArg, EngineInv, EngineTypeOK
<1>7. \A v \in Used : IsSeq(v) => Live(v.obj_p)
  BY <1>4 DEF UsesDangling
<1>8. name \in {"len_of", "list_push_back", "list_pop_back", "list_pop_front"} =>
        NativeArg(0) \in Used
  BY <1>1 DEF Used
<1>9. name = "list_concat" /\ IsSeq(NativeArg(0)) /\ IsSeq(NativeArg(1)) =>
        NativeArg(0) \in Used /\ NativeArg(1) \in Used
  BY <1>1 DEF Used
<1>10. QED
  BY <1>5, <1>6, <1>7, <1>8, <1>9

LEMMA PromptsAreTyped ==
  ASSUME EngineInv
  PROVE  PrintValue \/ PromptInt \/ PromptFloat => TypedStep
<1>1. \A mem, success : NativeDone(mem, m_heap, success) => HeapStep
  BY DEF NativeDone, HeapStep
<1>2. PrintValue => TypedStep
  BY <1>1, NativeIsTyped DEF PrintValue, EngineInv, EngineTypeOK
<1>3. ASSUME PromptInt
      PROVE  TypedStep
  <2>1. PICK n \in Inputs : NativeDone(Returned(Int32(n)), m_heap, TRUE)
    BY <1>3 DEF PromptInt
  <2>2. Int32(n) \in Value
    BY MadeValues, EngineAssumption
  <2>3. QED
    BY <1>1, <2>1, <2>2, WrittenMemory, NativeIsTyped DEF EngineInv
<1>4. ASSUME PromptFloat
      PROVE  TypedStep
  <2>1. PICK z \in Doubles : NativeDone(Returned(Flt64(z)), m_heap, TRUE)
    BY <1>4 DEF PromptFloat
  <2>2. Flt64(z) \in Value
    BY MadeValues
  <2>3. QED
    BY <1>1, <2>1, <2>2, WrittenMemory, NativeIsTyped DEF EngineInv
<1>5. QED
  BY <1>2, <1>3, <1>4

\* A native function that gives up leaves everything as it is.
LEMMA NativeFailedIsTyped ==
  ASSUME EngineInv, NativeFailed
  PROVE  TypedStep
BY NativeIsTyped DEF NativeFailed, NativeDone, HeapStep, EngineInv, EngineTypeOK

LEMMA LenOfIsTyped ==
  ASSUME EngineInv, LenOf
  PROVE  TypedStep
<1> DEFINE p == NativeArg(0).obj_p
<1>1. CASE IsSeq(NativeArg(0))
  <2>1. NativeDone(Returned(Int32(ObjectAt(p).m_length)), m_heap, TRUE)
    BY <1>1 DEF LenOf
  <2>2. Live(p)
    BY <1>1, NativeArguments DEF LenOf
  <2>3. Int32(ObjectAt(p).m_length) \in Value
    BY <2>2, LiveObjects, SequenceFields, MadeValues DEF EngineInv
  <2>4. QED
    BY <2>1, <2>3, WrittenMemory, NativeIsTyped DEF NativeDone, HeapStep, EngineInv
<1>2. CASE ~IsSeq(NativeArg(0))
  BY <1>2, NativeFailedIsTyped DEF LenOf
<1>3. QED
  BY <1>1, <1>2

LEMMA ListPushBackIsTyped ==
  ASSUME EngineInv, ListPushBack
  PROVE  TypedStep
<1> DEFINE target == NativeArg(0)
           p == target.obj_p
           s == PushValue(ObjectAt(p), NativeArg(1))
<1>1. CASE IsFlexible(target)
  <2>1. NativeDone(Returned(target), WithObject(p, s), TRUE)
    BY <1>1 DEF ListPushBack
  <2>2. Live(p) /\ target \in Value /\ NativeArg(1) \in Value
    BY <1>1, NativeArguments DEF ListPushBack, IsFlexible
  <2>3. ObjectAt(p) \in Sequence /\ Counted(ObjectAt(p))
    BY <2>2, LiveObjects DEF EngineInv
  <2>4. SameList(ObjectAt(p), s) /\ SameSize(ObjectAt(p), s)
    BY <1>1, <2>2, <2>3, PushChanges DEF IsFlexible, SameSize
  <2>5. HeapStep
    BY <2>1, <2>2, <2>4 DEF NativeDone, HeapStep, Changes
  <2>6. QED
    BY <2>1, <2>2, <2>5, WrittenMemory, NativeIsTyped DEF EngineInv
<1>2. CASE ~IsFlexible(target)
  BY <1>2, NativeFailedIsTyped DEF ListPushBack
<1>3. QED
  BY <1>1, <1>2

LEMMA PopListIsTyped ==
  ASSUME EngineInv, NEW mode \in {"back", "front"}, PopList(mode),
         NativeCalled("list_pop_back") \/ NativeCalled("list_pop_front")
  PROVE  TypedStep
<1> DEFINE target == NativeArg(0)
           p == target.obj_p
           popped == PoppedValue(ObjectAt(p), mode)
           s == PopRest(ObjectAt(p), mode)
<1>1. CASE IsFlexible(target)
  <2>1. Live(p)
    BY <1>1, NativeArguments DEF IsFlexible
  <2>2. popped \in Value /\ SameList(ObjectAt(p), s) /\ SameSize(ObjectAt(p), s)
    BY <2>1, LiveObjects, PopChanges DEF EngineInv
  <2>3. IF popped = Dud THEN NativeDone(m_memory, WithObject(p, s), FALSE)
        ELSE NativeDone(Returned(popped), WithObject(p, s), TRUE)
    BY <1>1 DEF PopList
  <2>4. HeapStep
    BY <2>1, <2>2, <2>3 DEF NativeDone, HeapStep, Changes
  <2>5. QED
    BY <2>2, <2>3, <2>4, WrittenMemory, NativeIsTyped DEF EngineInv, EngineTypeOK
<1>2. CASE ~IsFlexible(target)
  BY <1>2, NativeFailedIsTyped DEF PopList
<1>3. QED
  BY <1>1, <1>2

LEMMA ListConcatIsTyped ==
  ASSUME EngineInv, ListConcat
  PROVE  TypedStep
<1> DEFINE p == NativeArg(0).obj_p
           q == NativeArg(1).obj_p
           s == PushAll(ObjectAt(p), ObjectAt(q).items)
<1>1. CASE IsSeq(NativeArg(1)) /\ IsFlexible(NativeArg(0))
  <2>1. NativeDone(m_memory, WithObject(p, s), TRUE)
    BY <1>1 DEF ListConcat
  <2>2. Live(p) /\ Live(q)
    BY <1>1, NativeArguments DEF ListConcat, IsFlexible
  <2>3. /\ ObjectAt(p) \in Sequence /\ Counted(ObjectAt(p))
        /\ ObjectAt(q).items \in Seq(Value)
    BY <2>2, LiveObjects, SequenceFields DEF EngineInv
  <2>4. SameList(ObjectAt(p), s) /\ SameSize(ObjectAt(p), s)
    BY <1>1, <2>3, PushAllAppends DEF IsFlexible, SameSize
  <2>5. HeapStep
    BY <2>1, <2>2, <2>4 DEF NativeDone, HeapStep, Changes
  <2>6. QED
    BY <2>1, <2>5, NativeIsTyped DEF EngineInv, EngineTypeOK
<1>2. CASE ~(IsSeq(NativeArg(1)) /\ IsFlexible(NativeArg(0)))
  BY <1>2, NativeFailedIsTyped DEF ListConcat
<1>3. QED
  BY <1>1, <1>2

(***************************************************************************)
(* Every step but a call and a return leaves typed registers, and changes  *)
(* or creates at most one list.                                            *)
(***************************************************************************)
LEMMA StepIsTypedCallOrRet ==
  ASSUME EngineInv, [Next]_vars
  PROVE  TypedStep \/ Call \/ Ret
<1>1. ListPopBack \/ ListPopFront => TypedStep
  BY PopListIsTyped DEF ListPopBack, ListPopFront
<1>2. \A op \in {"mul", "add", "sub"} : InPlaceArith(op) => TypedStep
  BY InPlaceArithIsTyped
<1>3. \A op \in {"div", "mod"} : Quotient(op) => TypedStep
  BY QuotientIsTyped
<1>4. \A op \in CompareOps : Comparison(op) => TypedStep
  BY ComparisonIsTyped
<1>5. QED
  BY <1>1, <1>2, <1>3, <1>4, OthersAreTyped, MakeSeqIsTyped, SeqObjPushIsTyped, SeqObjPopIsTyped,
     SeqObjGetIsTyped, FrzSeqObjIsTyped, LoadConstIsTyped, MovIsTyped, NegIsTyped,
     PromptsAreTyped, LenOfIsTyped, ListPushBackIsTyped, ListConcatIsTyped
  DEF Next

--------------------------------------------------------------------------------
\* The invariant

(***************************************************************************)
(* The engine starts with typed registers, blank frames and an empty heap  *)
(* (Engine::Engine).                                                       *)
(***************************************************************************)
LEMMA InitTyped == Init => EngineInv
<1> SUFFICES ASSUME Init PROVE EngineInv
  OBVIOUS
<1>1. prgm \in Programs /\ Boot
  BY DEF Init
<1>2. prgm \in ProgramType /\ prgm.entry_id \in Int16
  BY <1>1, EngineAssumption DEF ProgramType
<1>3. m_heap = EmptyHeap /\ HeapInvOf(m_heap, Sequence) /\ LiveCells(m_heap) = {}
  BY <1>1, EmptyHeapCorrect DEF Boot
<1>4. HeapSound
  BY <1>3 DEF HeapSound
<1>5. BlankFrame \in CallFrame /\ BlankFrame.old_base_ptr = 0 /\ BlankFrame.old_mem_top = 0
  BY Int16Stays DEF BlankFrame, CallFrame, Statuses
<1>6. m_call_frames \in [FrameIndex -> CallFrame] /\ FramesTyped
  BY <1>1, <1>5, EngineAssumption DEF Boot, FramesTyped, Register
<1>7. m_memory \in [Register -> Value]
  BY <1>1, MadeValues DEF Boot
<1>8. EngineTypeOK
  BY <1>1, <1>2, <1>3, <1>6, <1>7, EngineAssumption, Int16Stays
  DEF Boot, EngineTypeOK, HeapInvOf, Register, Statuses
<1>9. QED
  BY <1>4, <1>6, <1>8 DEF EngineInv

\* A step within a function keeps the invariant.
LEMMA TypedStepKeepsInv ==
  ASSUME ConventionInv, ConventionInv', EngineInv, TypedStep, LocalStep
  PROVE  EngineInv'
<1>1. HeapSound'
  BY HeapStepKeepsHeap DEF TypedStep, EngineInv
<1>2. FramesTyped'
  BY DEF FramesTyped, EngineInv, LocalStep
<1>3. m_rfi' \in Int16 /\ m_rip' \in Int16
  BY DEF ConventionInv, Registers
<1>4. EngineTypeOK'
  BY <1>1, <1>3 DEF EngineTypeOK, EngineInv, LocalStep, TypedStep, HeapSound, HeapInvOf
<1>5. QED
  BY <1>1, <1>2, <1>4 DEF EngineInv

\* A call keeps it: what it saves is typed, and the callee's base is in the caller's frame
\* or right above it.
LEMMA CallKeepsInv ==
  ASSUME AllWellFormed, ConventionInv, ConventionInv', EngineInv, Call
  PROVE  EngineInv'
<1> DEFINE frame == [old_func_idx |-> m_rfi, old_func_ip |-> NextIp,
                     old_base_ptr |-> m_rbp, old_mem_top |-> m_rft,
                     old_exec_status |-> m_res]
<1>1. /\ m_call_frames' = [m_call_frames EXCEPT ![m_call_frame_ptr + 1] = frame]
      /\ m_call_frame_ptr' = m_call_frame_ptr + 1
      /\ UNCHANGED <<prgm, m_memory, m_rft, m_res, m_heap, fault, exit>>
  BY DEF Call, CallWith
<1>2. m_call_frame_ptr + 1 \in FrameIndex /\ m_rbp' \in Int /\ 0 <= m_rbp' /\ m_rbp' <= m_rft + 1
  BY CallFits
<1>3. HeapSound'
  BY <1>1 DEF HeapSound, EngineInv
<1>4. FramesTyped'
  BY <1>1, <1>2 DEF FramesTyped, EngineInv, EngineTypeOK
<1>5. /\ m_rfi' \in Int16 /\ m_rip' \in Int16 /\ m_call_frames' \in [FrameIndex -> CallFrame]
      /\ m_rrd' \in 0 .. FrameMax
  BY DEF ConventionInv, Registers
<1>6. m_call_frame_ptr' \in -1 .. FrameMax - 1 /\ m_rbp' \in 0 .. MemLimit
  BY <1>1, <1>2, EngineAssumption DEF FrameIndex, EngineInv, EngineTypeOK, Register
<1>7. EngineTypeOK'
  BY <1>1, <1>3, <1>5, <1>6 DEF EngineTypeOK, EngineInv
<1>8. QED
  BY <1>3, <1>4, <1>7 DEF EngineInv

(***************************************************************************)
(* What a return does to the heap: nothing, unless it is ripe.             *)
(***************************************************************************)
LEMMA RetHeap ==
  ASSUME HeapSound, Ret
  PROVE  /\ HeapSound'
         /\ ~IsRipe(m_heap) => m_heap' = m_heap
         /\ \A c \in LiveCells(m_heap') :
              c \in LiveCells(m_heap) /\ m_heap'.objects[c] = m_heap.objects[c]
         /\ fault' \in {fault, "dangling", NoFault, "null_cell"}
<1>1. TryMarkAndSweep(m_memory', SavedTopOfCaller)
  BY DEF Ret, RetWith
<1>2. CASE m_heap' = m_heap
  BY <1>1, <1>2 DEF HeapSound, LiveCells, TryMarkAndSweep
<1>3. CASE m_heap' # m_heap
  <2>1. IsRipe(m_heap) /\ m_heap' = Swept(m_heap) /\ fault' \in {NoFault, "null_cell"}
    BY <1>1, <1>3 DEF TryMarkAndSweep
  <2>2. HeapInvOf(m_heap, Sequence)
    BY DEF HeapSound
  <2>3. /\ HeapInvOf(m_heap', Sequence)
        /\ LiveCells(m_heap') \subseteq LiveCells(m_heap)
        /\ \A c \in LiveCells(m_heap') : m_heap'.objects[c] = m_heap.objects[c]
        /\ m_heap'.next_id = m_heap.next_id
    BY <2>1, <2>2, SweptExactly
  <2>4. HeapSound'
    BY <2>3 DEF HeapSound
  <2>5. QED
    BY <2>1, <2>3, <2>4
<1>4. QED
  BY <1>2, <1>3

\* A return keeps it: the caller's registers were typed when they were saved.
LEMMA RetKeepsInv ==
  ASSUME AllWellFormed, ConventionInv, ConventionInv', EngineInv, Ret
  PROVE  EngineInv'
<1> DEFINE caller == m_call_frames[m_call_frame_ptr]
<1>1. Executing("ret")
  BY DEF Ret, RetWith
<1>2. /\ m_memory' = [m_memory EXCEPT ![m_rbp] = Fetched(Only)]
      /\ m_rbp' = caller.old_base_ptr /\ m_rft' = caller.old_mem_top
      /\ m_call_frame_ptr' = m_call_frame_ptr - 1
      /\ UNCHANGED <<prgm, m_call_frames, exit>>
  BY DEF Ret, RetWith, SavedTopOfCaller
<1>3. m_call_frame_ptr = m_rrd - 1 /\ m_rrd \in 1 .. FrameMax /\ m_call_frame_ptr \in FrameIndex
  BY <1>1, EngineAssumption
  DEF ConventionInv, FrameDiscipline, Registers, Executing, InLoop, FrameIndex
<1>4. Operands = {Only} /\ Fetchable(Only) /\ InBounds
  <2>1. Instr.op = "ret" /\ InBounds /\ \A o \in Operands : Fetchable(o)
    BY <1>1, DefinedSteps
  <2>2. Operands = {Only}
    BY <2>1 DEF Operands, ArithOps, CompareOps
  <2>3. QED
    BY <2>1, <2>2
<1>5. m_memory' \in [Register -> Value]
  BY <1>2, <1>4, FetchedIsValue DEF EngineInv, EngineTypeOK
<1>6. m_rbp' \in 0 .. MemLimit /\ m_rft' \in Register
  BY <1>2, <1>3 DEF EngineInv, FramesTyped
<1>7. m_call_frame_ptr' \in -1 .. FrameMax - 1
  BY <1>2, <1>3, EngineAssumption
<1>8. HeapSound' /\ fault' \in Faults \cup {NoFault}
  BY RetHeap DEF EngineInv, EngineTypeOK, Faults
<1>9. m_rfi' \in Int16 /\ m_rip' \in Int16 /\ m_rrd' \in 0 .. FrameMax /\ m_res' \in Statuses
  BY DEF ConventionInv, Registers
<1>10. EngineTypeOK'
  BY <1>2, <1>5, <1>6, <1>7, <1>8, <1>9 DEF EngineTypeOK, EngineInv, HeapSound, HeapInvOf
<1>11. FramesTyped'
  BY <1>2 DEF FramesTyped, EngineInv
<1>12. QED
  BY <1>8, <1>10, <1>11 DEF EngineInv

(***************************************************************************)
(* EngineInv holds at every moment of every run of a well-formed program.  *)
(***************************************************************************)
LEMMA NextKeepsInv ==
  ASSUME AllWellFormed, ConventionInv, ConventionInv', EngineInv, [Next]_vars
  PROVE  EngineInv'
<1>1. LocalStep \/ Call \/ Ret
  BY StepIsLocalCallOrRet
<1>2. TypedStep \/ Call \/ Ret
  BY StepIsTypedCallOrRet
<1>3. QED
  BY <1>1, <1>2, TypedStepKeepsInv, CallKeepsInv, RetKeepsInv

THEOREM EngineInvHolds ==
  ASSUME AllWellFormed
  PROVE  Spec => []EngineInv
<1>1. Init => EngineInv
  BY InitTyped
<1>2. EngineInv /\ ConventionInv /\ ConventionInv' /\ [Next]_vars => EngineInv'
  BY NextKeepsInv
<1>3. QED
  BY <1>1, <1>2, ConventionHolds, PTL DEF Spec

--------------------------------------------------------------------------------
\* What holds of every run

(***************************************************************************)
(* The engine's registers, its call frames and its heap hold what their    *)
(* types say at every moment of every run of a well-formed program; the    *)
(* frame base and top stay in the memory (vm.hpp 89-105).                  *)
(***************************************************************************)
THEOREM EngineTyped ==
  ASSUME AllWellFormed
  PROVE  Spec => []EngineTypeOK
<1>1. EngineInv => EngineTypeOK
  BY DEF EngineInv
<1>2. QED
  BY <1>1, EngineInvHolds, PTL

(***************************************************************************)
(* The heap is sound at every moment: every hole is free, the score is     *)
(* exact, every list counts its items, and no two live lists share a serial*)
(* number, whatever was collected and whichever cells were used again.     *)
(***************************************************************************)
THEOREM HeapStaysSound ==
  ASSUME AllWellFormed
  PROVE  Spec => []HeapSound
<1>1. EngineInv => HeapSound
  BY DEF EngineInv
<1>2. QED
  BY <1>1, EngineInvHolds, PTL

(***************************************************************************)
(* No step but a return with a ripe heap destroys an object, whether or not*)
(* a register or an item still names it (try_create_value never takes a    *)
(* cell that is in use).                                                   *)
(***************************************************************************)
THEOREM CollectionsAloneDestroy ==
  ASSUME AllWellFormed
  PROVE  Spec => OnlyCollectionDestroys
<1> DEFINE Spared == \A p \in Handles : Live(p) => Live(p)' \/ (IsRipe(m_heap) /\ m_rrd' < m_rrd)
<1>1. ConventionInv /\ EngineInv /\ [Next]_vars => [Spared]_vars
  <2> SUFFICES ASSUME ConventionInv, EngineInv, [Next]_vars PROVE Spared
    OBVIOUS
  <2>1. CASE TypedStep
    BY <2>1, HeapStepKeepsHeap DEF TypedStep, EngineInv
  <2>2. CASE Call
    BY <2>2 DEF Call, CallWith, Live, ObjectAt
  <2>3. CASE Ret
    <3>1. m_rrd' < m_rrd
      BY <2>3 DEF Ret, RetWith, EngineInv, EngineTypeOK
    <3>2. ~IsRipe(m_heap) => m_heap' = m_heap
      BY <2>3, RetHeap DEF EngineInv
    <3>3. QED
      BY <3>1, <3>2 DEF Live, ObjectAt
  <2>4. QED
    BY <2>1, <2>2, <2>3, StepIsTypedCallOrRet
<1>2. QED
  BY <1>1, EngineInvHolds, ConventionHolds, PTL DEF Spec, OnlyCollectionDestroys

(***************************************************************************)
(* A tuple never changes its size, as long as handle_seq_obj_push, which   *)
(* does not ask, is not given one that is finished.                        *)
(***************************************************************************)
THEOREM TuplesKeepLength ==
  ASSUME AllWellFormed
  PROVE  Spec /\ []PushTargetsFlexible => FrozenKeepsLength
<1> DEFINE Kept == \A c \in LiveCells(m_heap) :
                     LET old == m_heap.objects[c]
                         new == m_heap'.objects[c]
                     IN  old.m_frozen /\ new # Null /\ new.serial = old.serial =>
                           new.m_frozen /\ Len(new.items) = Len(old.items)
<1>1. ConventionInv /\ EngineInv /\ PushTargetsFlexible /\ [Next]_vars => [Kept]_vars
  <2> SUFFICES ASSUME EngineInv, PushTargetsFlexible, [Next]_vars PROVE Kept
    OBVIOUS
  <2>1. CASE TypedStep
    <3>1. CASE m_heap' = m_heap
      BY <3>1
    <3>2. CASE \E p, s : Changes(p, s) /\ SameSize(ObjectAt(p), s)
      <4>1. PICK p, s : Changes(p, s) /\ SameSize(ObjectAt(p), s)
        BY <3>2
      <4>2. m_heap'.objects[p.cell] = s
            /\ \A c \in Cell \ {p.cell} : m_heap'.objects[c] = m_heap.objects[c]
        BY <4>1, ChangeKeepsHeap DEF EngineInv
      <4>3. QED
        BY <4>1, <4>2 DEF SameSize, ObjectAt, LiveCells
    <3>3. CASE NextCell(m_heap) \in Cell
               /\ m_heap' = TryCreate(m_heap, EmptySequence(m_heap.next_id))
      BY <3>3, CreateKeepsHeap DEF EngineInv
    <3>4. QED
      BY <2>1, <3>1, <3>2, <3>3 DEF TypedStep, HeapStep
  <2>2. CASE Call
    BY <2>2 DEF Call, CallWith
  <2>3. CASE Ret
    <3>1. HeapSound
      BY DEF EngineInv
    <3>2. \A c \in LiveCells(m_heap) :
            m_heap'.objects[c] # Null => m_heap'.objects[c] = m_heap.objects[c]
      BY <2>3, <3>1, RetHeap DEF LiveCells
    <3>3. QED
      BY <3>2
  <2>4. QED
    BY <2>1, <2>2, <2>3, StepIsTypedCallOrRet
<1>2. QED
  BY <1>1, EngineInvHolds, ConventionHolds, PTL DEF Spec, FrozenKeepsLength

--------------------------------------------------------------------------------
\* Programs without lists

(***************************************************************************)
(* NumbersStayDefined is not inductive by itself: that no pointer is       *)
(* followed rests on what all registers hold, and that no collection begins*)
(* on a heap that nothing was put in.                                      *)
(***************************************************************************)
NumbersInv ==
  /\ \A r \in Register : IsNumber(m_memory[r])
  /\ m_heap = EmptyHeap
  /\ fault \in {NoFault, "oob_frames", "trap"}

NumberStep ==
  /\ \/ m_memory' = m_memory
     \/ \E r, v : IsNumber(v) /\ m_memory' = [m_memory EXCEPT ![r] = v]
  /\ UNCHANGED <<m_heap, fault>>

\* The values that handlers make are numbers, and so are the results of arithmetic.
LEMMA MadeNumbers ==
  /\ IsNumber(Dud) /\ \A b : IsNumber(Bool(b))
  /\ \A n : IsNumber(Int32(n)) /\ \A z : IsNumber(Flt64(z))
BY DEF IsNumber, IsSeq, IsRef, Dud, Bool, Int32, Flt64

LEMMA ArithmeticYieldsNumbers ==
  ASSUME NEW op \in ArithOps, NEW a, NEW b, NEW r \in Arith(op, a, b)
  PROVE  IsNumber(r)
<1>1. CASE a.tag = b.tag /\ a.tag = "int32"
  <2>1. r = IntArith(op, a.scalar_v, b.scalar_v)
    BY <1>1 DEF Arith
  <2>2. QED
    BY <2>1, MadeNumbers DEF IntArith, ArithOps
<1>2. CASE a.tag = b.tag /\ a.tag = "flt64"
  <2>1. r \in FltArith(op, a.dbl_v, b.dbl_v)
    BY <1>2 DEF Arith
  <2>2. QED
    BY <2>1, MadeNumbers DEF FltArith
<1>3. CASE ~(a.tag = b.tag /\ a.tag \in {"int32", "flt64"})
  BY <1>3, MadeNumbers DEF Arith
<1>4. QED
  BY <1>1, <1>2, <1>3

\* What is fetched is a number.
LEMMA FetchedNumbers ==
  ASSUME NumbersInv, MakesNoList(prgm), InBounds, NEW o \in Operands, Fetchable(o)
  PROVE  IsNumber(Fetched(o))
<1>1. CASE IsConstant(o)
  BY <1>1 DEF Fetched, InBounds, MakesNoList
<1>2. CASE ~IsConstant(o)
  <2>1. Reg(o.id) \in Register
    BY <1>2, CellsInMemory DEF Fetchable
  <2>2. QED
    BY <1>2, <2>1 DEF Fetched, Held, NumbersInv
<1>3. QED
  BY <1>1, <1>2

\* A number is no pointer to follow, and nothing is behind it to be printed.
LEMMA NumbersResolve ==
  ASSUME NEW v, IsNumber(v)
  PROVE  ~EndsDangling(v) /\ ~NeverEnds(v) /\ Resolved(v) = v /\ Parts(v) = {} /\ ~Gone(v)
BY DEF IsNumber, EndsDangling, NeverEnds, Resolved, Parts, Gone, IsSeq, IsRef

\* The recursive function in Closure, for Parts.
Reaches(S, n, reach) ==
  reach = [k \in 0 .. n |->
             IF k = 0 THEN S
             ELSE LET before == reach[k - 1] IN before \cup UNION {Parts(x) : x \in before}]

LEMMA NothingBehind ==
  ASSUME NEW S, \A v \in S : Parts(v) = {}, PathBound \in Nat
  PROVE  Closure(S, Parts) = S
<1> DEFINE n == PathBound
           reach == CHOOSE f : Reaches(S, n, f)
           T == {k \in Nat : k <= n => reach[k] = S}
<1>1. S \cup UNION {Parts(x) : x \in S} = S
  OBVIOUS
<1>2. Reaches(S, n, reach)
  <2> DEFINE f == [k \in 0 .. n |-> S]
  <2>1. \A k \in 0 .. n : k # 0 => f[k - 1] = S
    OBVIOUS
  <2>2. Reaches(S, n, f)
    BY <1>1, <2>1 DEF Reaches
  <2>3. QED
    BY <2>2
<1>3. Closure(S, Parts) = reach[n]
  BY DEF Closure, Reaches
<1> HIDE DEF reach, n
<1>4. 0 \in T
  BY <1>2 DEF Reaches
<1>5. ASSUME NEW k \in Nat, k \in T
      PROVE  k + 1 \in T
  <2> SUFFICES ASSUME k + 1 <= n PROVE reach[k + 1] = S
    OBVIOUS
  <2>1. n \in Nat /\ reach[k] = S
    BY <1>5 DEF n
  <2>2. k + 1 \in 0 .. n /\ k + 1 # 0 /\ (k + 1) - 1 = k
    BY <2>1
  <2>3. reach[k + 1] = reach[k] \cup UNION {Parts(x) : x \in reach[k]}
    BY <1>2, <2>2 DEF Reaches
  <2>4. QED
    BY <1>1, <2>1, <2>3
<1> HIDE DEF T
<1>6. Nat \subseteq T
  BY <1>4, <1>5, NaturalInduction
<1>7. QED
  BY <1>3, <1>6 DEF T, n

\* There is no path in an empty heap.
LEMMA NoPath ==
  ASSUME m_heap = EmptyHeap
  PROVE  PathBound \in Nat /\ \A p : ~Live(p)
<1>1. LiveCells(m_heap) = {} /\ \A c \in Cell : m_heap.objects[c] = Null
  BY DEF EmptyHeap, LiveCells
<1>2. UNION {{c} \X DOMAIN m_heap.objects[c].items : c \in LiveCells(m_heap)} = {}
  BY <1>1
<1>3. Cardinality({}) = 0
  BY FS_EmptySet
<1>4. QED
  BY <1>1, <1>2, <1>3, HeapAssumption DEF PathBound, Live, ObjectAt

(***************************************************************************)
(* What a handler finds in registers it uses, follows or prints is a       *)
(* number.                                                                 *)
(***************************************************************************)
LEMMA NumbersUsed ==
  ASSUME NumbersInv, MakesNoList(prgm), HasInstruction, InBounds,
         Instr.op = "native_call" => HasNative, \A o \in Operands : Fetchable(o)
  PROVE  /\ \A v \in Followed \cup Used \cup Shown : IsNumber(v)
         /\ Instr.op = "native_call" => IsNumber(NativeArg(0))
<1>1. Instr.op = "native_call" => IsNumber(NativeArg(0))
  <2> SUFFICES ASSUME Instr.op = "native_call" PROVE IsNumber(NativeArg(0))
    OBVIOUS
  <2>1. NativeBase \in Register
    BY CellsInMemory DEF NativeCells
  <2>2. NativeBase + 0 = NativeBase
    BY <2>1 DEF Register
  <2>3. QED
    BY <2>1, <2>2 DEF NativeArg, NumbersInv
<1>2. \A v \in Followed : IsNumber(v)
  <2>1. Instr.op \in ArithOps \cup CompareOps => Lhs \in Operands
    BY DEF Operands, ArithOps, CompareOps
  <2>2. Instr.op \in {"mov", "neg"} => Reg(Arg(1)) \in Register
    BY CellsInMemory
  <2>3. QED
    BY <2>1, <2>2, FetchedNumbers DEF Followed, Held, NumbersInv
<1>3. \A v \in Used : IsNumber(v)
  <2>1. Instr.op \in {"seq_obj_push", "frz_seq_obj"} => Reg(Arg(1)) \in Register
    BY CellsInMemory
  <2>2. Instr.op \in {"seq_obj_pop", "seq_obj_get"} => Reg(Arg(2)) \in Register
    BY CellsInMemory
  <2>3. QED
    BY <1>1, <2>1, <2>2 DEF Used, Held, NumbersInv, IsNumber
<1>4. \A v \in Shown : IsNumber(v)
  <2>1. PathBound \in Nat
    BY NoPath DEF NumbersInv
  <2>2. CASE Instr.op = "native_call" /\ NativeName = "print"
    <3> DEFINE S == {NativeArg(0)}
    <3>1. \A v \in S : Parts(v) = {}
      BY <1>1, <2>2, NumbersResolve
    <3>2. Shown = Closure(S, Parts)
      BY <2>2 DEF Shown
    <3> HIDE DEF S
    <3>3. Shown = S
      BY <2>1, <3>1, <3>2, NothingBehind
    <3>4. QED
      BY <1>1, <2>2, <3>3 DEF S
  <2>3. CASE ~(Instr.op = "native_call" /\ NativeName = "print")
    BY <2>3 DEF Shown
  <2>4. QED
    BY <2>2, <2>3
<1>5. QED
  BY <1>1, <1>2, <1>3, <1>4

(***************************************************************************)
(* So what is undefined about an instruction is in its text, or is one of  *)
(* two things that depend on values.                                       *)
(***************************************************************************)
LEMMA NumbersFaults ==
  ASSUME NumbersInv, MakesNoList(prgm), NEW f \in UndefinedHere
  PROVE  f \in {"oob_code", "oob_memory", "oob_natives", "terminate", "oob_frames", "trap"}
<1> SUFFICES ASSUME f \notin {"oob_code", "oob_memory", "oob_natives", "terminate"}
             PROVE  f \in {"oob_frames", "trap"}
  OBVIOUS
<1>1. HasInstruction /\ InBounds /\ (Instr.op = "native_call" => HasNative)
  BY DEF UndefinedHere
<1>2. \A o \in Operands : Fetchable(o)
  BY <1>1 DEF UndefinedHere
<1>3. /\ \A v \in Followed \cup Used \cup Shown : IsNumber(v)
      /\ Instr.op = "native_call" => IsNumber(NativeArg(0))
  BY <1>1, <1>2, NumbersUsed
<1>4. ~UsesDangling
  BY <1>3, NumbersResolve DEF UsesDangling, IsNumber
<1>5. Instr.op # "make_seq"
  BY <1>1 DEF MakesNoList, HasInstruction, Instr
<1>6. \A v \in Shown : v \notin Closure(Parts(v), Parts)
  <2>1. PathBound \in Nat
    BY NoPath DEF NumbersInv
  <2>2. ASSUME NEW v \in Shown PROVE v \notin Closure(Parts(v), Parts)
    <3> DEFINE S == Parts(v)
    <3>1. S = {}
      BY <1>3, NumbersResolve
    <3> HIDE DEF S
    <3>2. Closure(S, Parts) = S
      BY <2>1, <3>1, NothingBehind
    <3>3. QED
      BY <3>1, <3>2 DEF S
  <2>3. QED
    BY <2>2
<1>7. \A v \in Followed : ~NeverEnds(v)
  BY <1>3, NumbersResolve
<1>8. ~ConcatsItself
  BY <1>3 DEF ConcatsItself, IsNumber
<1>9. QED
  BY <1>1, <1>2, <1>4, <1>5, <1>6, <1>7, <1>8 DEF UndefinedHere

(***************************************************************************)
(* The handlers: those of lists give up, and the others write a number to a*)
(* register or nothing.                                                    *)
(***************************************************************************)
LEMMA NumbersHere ==
  ASSUME NumbersInv, MakesNoList(prgm), NEW op, Executing(op)
  PROVE  /\ HasInstruction /\ Instr.op = op /\ InBounds
         /\ op # "make_seq"
         /\ \A o \in Operands : Fetchable(o) => IsNumber(Fetched(o))
         /\ (\A o \in Operands : Fetchable(o)) =>
              /\ op \in {"seq_obj_push", "frz_seq_obj", "mov", "neg"} => IsNumber(Held(Arg(1)))
              /\ op \in {"seq_obj_pop", "seq_obj_get"} => IsNumber(Held(Arg(2)))
              /\ op = "native_call" => IsNumber(NativeArg(0))
<1>1. HasInstruction /\ Instr.op = op /\ InBounds
  BY DefinedSteps
<1>2. Instr.op = "native_call" => HasNative
  BY <1>1 DEF Executing, UndefinedHere
<1>3. op # "make_seq"
  BY <1>1 DEF MakesNoList, HasInstruction, Instr
<1>4. \A o \in Operands : Fetchable(o) => IsNumber(Fetched(o))
  BY <1>1, FetchedNumbers
<1>5. ASSUME \A o \in Operands : Fetchable(o)
      PROVE  /\ op \in {"seq_obj_push", "frz_seq_obj", "mov", "neg"} => IsNumber(Held(Arg(1)))
             /\ op \in {"seq_obj_pop", "seq_obj_get"} => IsNumber(Held(Arg(2)))
             /\ op = "native_call" => IsNumber(NativeArg(0))
  <2>1. op \in {"seq_obj_push", "frz_seq_obj", "mov", "neg"} => Reg(Arg(1)) \in Register
    BY <1>1, <1>5, CellsInMemory
  <2>2. op \in {"seq_obj_pop", "seq_obj_get"} => Reg(Arg(2)) \in Register
    BY <1>1, <1>5, CellsInMemory
  <2>3. op = "native_call" => IsNumber(NativeArg(0))
    BY <1>1, <1>2, <1>5, NumbersUsed
  <2>4. QED
    BY <2>1, <2>2, <2>3 DEF Held, NumbersInv
<1>6. QED
  BY <1>1, <1>3, <1>4, <1>5

\* The ways in which a handler ends.
LEMMA EndsWithNumbers ==
  /\ \A heap, top : heap = m_heap /\ Continue(m_memory, heap, top) => NumberStep
  /\ \A id, v, top : IsNumber(v) /\ Continue(Put(id, v), m_heap, top) => NumberStep
  /\ \A status : Fail(status) => NumberStep
  /\ \A ip : JumpTo(ip) => NumberStep
  /\ \A success : NativeDone(m_memory, m_heap, success) => NumberStep
  /\ \A v : IsNumber(v) /\ NativeDone(Returned(v), m_heap, TRUE) => NumberStep
BY DEF Continue, Fail, JumpTo, NativeDone, SameActivation, NumberStep, Put, Returned

LEMMA ListHandlersGiveUp ==
  ASSUME NumbersInv, MakesNoList(prgm)
  PROVE  /\ ~MakeSeq
         /\ SeqObjPush \/ SeqObjPop \/ SeqObjGet \/ FrzSeqObj => NumberStep
         /\ LenOf \/ ListPushBack \/ ListPopBack \/ ListPopFront \/ ListConcat => NumberStep
<1>1. ~MakeSeq
  BY NumbersHere DEF MakeSeq
<1>2. SeqObjPush => NumberStep
  <2> SUFFICES ASSUME SeqObjPush PROVE NumberStep
    OBVIOUS
  <2>1. Executing("seq_obj_push")
    BY DEF SeqObjPush
  <2>2. Operands = {Lhs}
    BY <2>1, DefinedSteps DEF Operands, ArithOps, CompareOps
  <2>3. ~(Fetchable(Lhs) /\ IsSeq(Held(Arg(1))))
    BY <2>1, <2>2, NumbersHere DEF IsNumber
  <2>4. QED
    BY <2>3, EndsWithNumbers DEF SeqObjPush
<1>3. SeqObjPop => NumberStep
  <2> SUFFICES ASSUME SeqObjPop PROVE NumberStep
    OBVIOUS
  <2>1. Executing("seq_obj_pop")
    BY DEF SeqObjPop
  <2>2. Operands = {}
    BY <2>1, DefinedSteps DEF Operands, ArithOps, CompareOps
  <2>3. ~IsSeq(Held(Arg(2)))
    BY <2>1, <2>2, NumbersHere DEF IsNumber
  <2>4. QED
    BY <2>3, EndsWithNumbers DEF SeqObjPop
<1>4. SeqObjGet => NumberStep
  <2> SUFFICES ASSUME SeqObjGet PROVE NumberStep
    OBVIOUS
  <2>1. Executing("seq_obj_get")
    BY DEF SeqObjGet
  <2>2. Operands = {Rhs}
    BY <2>1, DefinedSteps DEF Operands, ArithOps, CompareOps
  <2>3. ~(Fetchable(Rhs) /\ IsSeq(Held(Arg(2))))
    BY <2>1, <2>2, NumbersHere DEF IsNumber
  <2>4. \E status : Fail(status)
    BY <2>3 DEF SeqObjGet
  <2>5. QED
    BY <2>4, EndsWithNumbers
<1>5. FrzSeqObj => NumberStep
  <2> SUFFICES ASSUME FrzSeqObj PROVE NumberStep
    OBVIOUS
  <2>1. Executing("frz_seq_obj")
    BY DEF FrzSeqObj
  <2>2. Operands = {}
    BY <2>1, DefinedSteps DEF Operands, ArithOps, CompareOps
  <2>3. ~IsSeq(Held(Arg(1)))
    BY <2>1, <2>2, NumbersHere DEF IsNumber
  <2>4. QED
    BY <2>3, EndsWithNumbers DEF FrzSeqObj
<1>6. ASSUME NEW name, NativeCalled(name)
      PROVE  ~IsSeq(NativeArg(0))
  <2>1. Executing("native_call")
    BY <1>6 DEF NativeCalled
  <2>2. Operands = {}
    BY <2>1, DefinedSteps DEF Operands, ArithOps, CompareOps
  <2>3. QED
    BY <2>1, <2>2, NumbersHere DEF IsNumber
<1>7. NativeFailed => NumberStep
  BY EndsWithNumbers DEF NativeFailed
<1>8. LenOf \/ ListPushBack \/ ListConcat => NumberStep
  BY <1>6, <1>7 DEF LenOf, ListPushBack, ListConcat, IsFlexible
<1>9. ListPopBack \/ ListPopFront => NumberStep
  BY <1>6, <1>7 DEF ListPopBack, ListPopFront, PopList, IsFlexible
<1>10. QED
  BY <1>1, <1>2, <1>3, <1>4, <1>5, <1>8, <1>9

LEMMA OtherHandlersKeepNumbers ==
  ASSUME NumbersInv, MakesNoList(prgm)
  PROVE  /\ Nop \/ LoadConst \/ Mov \/ Neg \/ Inc \/ Dec \/ Halt => NumberStep
         /\ \A op \in {"mul", "add", "sub"} : InPlaceArith(op) => NumberStep
         /\ \A op \in {"div", "mod"} : Quotient(op) => NumberStep
         /\ \A op \in CompareOps : Comparison(op) => NumberStep
         /\ Jump \/ JumpIf \/ JumpElse => NumberStep
         /\ PrintValue \/ PromptInt \/ PromptFloat => NumberStep
<1>1. Nop \/ Inc \/ Dec \/ Halt \/ Jump \/ JumpIf \/ JumpElse => NumberStep
  BY EndsWithNumbers DEF Nop, Inc, Dec, Halt, Jump, JumpIf, JumpElse
<1>2. PrintValue \/ PromptInt \/ PromptFloat => NumberStep
  BY EndsWithNumbers, MadeNumbers DEF PrintValue, PromptInt, PromptFloat
<1>3. \A op \in CompareOps : Comparison(op) => NumberStep
  BY EndsWithNumbers, MadeNumbers DEF Comparison
<1>4. LoadConst => NumberStep
  <2> SUFFICES ASSUME LoadConst PROVE NumberStep
    OBVIOUS
  <2>1. Executing("load_const")
    BY DEF LoadConst
  <2>2. Operands = {ConstantArg} /\ Fetchable(ConstantArg)
    BY <2>1, DefinedSteps DEF Operands, ArithOps, CompareOps, ConstantArg, Fetchable, IsConstant,
                              SameMode
  <2>3. IsNumber(Fetched(ConstantArg))
    BY <2>1, <2>2, NumbersHere
  <2>4. QED
    BY <2>3, EndsWithNumbers DEF LoadConst
<1>5. Mov => NumberStep
  <2> SUFFICES ASSUME Mov PROVE NumberStep
    OBVIOUS
  <2>1. Executing("mov")
    BY DEF Mov
  <2>2. Operands = {Lhs}
    BY <2>1, DefinedSteps DEF Operands, ArithOps, CompareOps
  <2>3. Fetchable(Lhs) => ~IsRef(Held(Arg(1))) /\ IsNumber(Fetched(Lhs))
    BY <2>1, <2>2, NumbersHere DEF IsNumber
  <2>4. QED
    BY <2>3, EndsWithNumbers DEF Mov
<1>6. Neg => NumberStep
  <2> SUFFICES ASSUME Neg PROVE NumberStep
    OBVIOUS
  <2>1. Executing("neg")
    BY DEF Neg
  <2>2. Operands = {}
    BY <2>1, DefinedSteps DEF Operands, ArithOps, CompareOps
  <2>3. ~IsRef(Held(Arg(1)))
    BY <2>1, <2>2, NumbersHere DEF IsNumber
  <2>4. CASE Resolved(Held(Arg(1))).tag # "boolean"
    BY <2>4, EndsWithNumbers DEF Neg
  <2>5. CASE Resolved(Held(Arg(1))).tag = "boolean"
    BY <2>3, <2>5, MadeNumbers DEF Neg, SameActivation, NumberStep, Put
  <2>6. QED
    BY <2>4, <2>5
<1>7. ASSUME NEW op \in ArithOps, Executing(op)
      PROVE  /\ IsNumber(Fetched(Lhs))
             /\ \A r \in Arith(op, Resolved(Fetched(Lhs)), Fetched(Rhs)) : IsNumber(r)
  <2>1. Lhs \in Operands /\ Fetchable(Lhs)
    BY <1>7, DefinedSteps DEF Operands, ArithOps, CompareOps
  <2>2. QED
    BY <1>7, <2>1, NumbersHere, ArithmeticYieldsNumbers
<1>8. \A op \in {"mul", "add", "sub"} : InPlaceArith(op) => NumberStep
  <2> SUFFICES ASSUME NEW op \in {"mul", "add", "sub"}, InPlaceArith(op) PROVE NumberStep
    OBVIOUS
  <2>1. Executing(op) /\ op \in ArithOps
    BY DEF InPlaceArith, ArithOps
  <2>2. ~IsRef(Fetched(Lhs)) /\ \A r \in Arith(op, Resolved(Fetched(Lhs)), Fetched(Rhs)) : IsNumber(r)
    BY <1>7, <2>1 DEF IsNumber
  <2>3. QED
    BY <2>2, EndsWithNumbers DEF InPlaceArith
<1>9. \A op \in {"div", "mod"} : Quotient(op) => NumberStep
  <2> SUFFICES ASSUME NEW op \in {"div", "mod"}, Quotient(op) PROVE NumberStep
    OBVIOUS
  <2>1. Executing(op) /\ op \in ArithOps
    BY DEF Quotient, ArithOps
  <2>2. \A r \in Arith(op, Resolved(Fetched(Lhs)), Fetched(Rhs)) : IsNumber(r)
    BY <1>7, <2>1
  <2>3. QED
    BY <2>2, EndsWithNumbers DEF Quotient
<1>10. QED
  BY <1>1, <1>2, <1>3, <1>4, <1>5, <1>6, <1>8, <1>9

\* A step of numbers keeps the invariant; so do calls, and returns do not collect.
LEMMA NumberStepKeepsInv ==
  ASSUME NumbersInv, EngineTypeOK, NumberStep
  PROVE  NumbersInv'
<1>1. m_memory \in [Register -> Value]
  BY DEF EngineTypeOK
<1>2. \A r \in Register : IsNumber(m_memory'[r])
  BY <1>1, Zenon DEF NumberStep, NumbersInv
<1>3. QED
  BY <1>2 DEF NumberStep, NumbersInv, IsNumber

LEMMA CallAndRetKeepNumbers ==
  ASSUME NumbersInv, MakesNoList(prgm), GcThreshold > 0, Call \/ Ret
  PROVE  NumberStep
<1>1. Call => NumberStep
  BY DEF Call, CallWith, NumberStep
<1>2. ASSUME Ret PROVE NumberStep
  <2>1. Executing("ret") /\ m_memory' = [m_memory EXCEPT ![m_rbp] = Fetched(Only)]
        /\ TryMarkAndSweep(m_memory', SavedTopOfCaller)
    BY <1>2 DEF Ret, RetWith
  <2>2. Operands = {Only} /\ Fetchable(Only)
    BY <2>1, DefinedSteps DEF Operands, ArithOps, CompareOps
  <2>3. IsNumber(Fetched(Only))
    BY <2>1, <2>2, NumbersHere
  <2>4. ~IsRipe(m_heap)
    BY HeapAssumption DEF NumbersInv, EmptyHeap, IsRipe
  <2>5. UNCHANGED <<m_heap, fault>>
    BY <2>1, <2>4 DEF TryMarkAndSweep
  <2>6. QED
    BY <2>1, <2>3, <2>5 DEF NumberStep
<1>3. QED
  BY <1>1, <1>2

(***************************************************************************)
(* With what a program's text rules out (StaysInCode, StaysInMemory) the   *)
(* invariant is kept by every step.                                        *)
(***************************************************************************)
LEMMA NextKeepsNumbers ==
  ASSUME NumbersInv, EngineTypeOK, MakesNoList(prgm), GcThreshold > 0, [Next]_vars,
         fault' \notin {"oob_code", "oob_memory", "oob_natives", "terminate"}
  PROVE  NumbersInv'
<1>1. CASE Crash
  <2>1. fault' \in {"oob_frames", "trap"}
    BY <1>1, NumbersFaults DEF Crash
  <2>2. QED
    BY <1>1, <2>1 DEF Crash, NumbersInv, IsNumber
<1>2. CASE Finish
  <2>1. 0 \in Register
    BY EngineAssumption DEF Register
  <2>2. IsNumber(m_memory[0])
    BY <2>1 DEF NumbersInv
  <2>3. ~EndsDangling(m_memory[0]) /\ ~NeverEnds(m_memory[0])
    BY <2>2, NumbersResolve
  <2>4. UNCHANGED <<fault, m_memory, m_heap>>
    BY <1>2, <2>3 DEF Finish
  <2>5. QED
    BY <2>4 DEF NumbersInv, IsNumber
<1>3. CASE UNCHANGED vars
  BY <1>3 DEF vars, NumbersInv, IsNumber
<1>4. CASE Next /\ ~Crash /\ ~Finish
  <2>1. NumberStep
    BY <1>4, ListHandlersGiveUp, OtherHandlersKeepNumbers, CallAndRetKeepNumbers DEF Next
  <2>2. QED
    BY <2>1, NumberStepKeepsInv
<1>5. QED
  BY <1>1, <1>2, <1>3, <1>4

(***************************************************************************)
(* A well-formed program that makes no list, whatever it computes, does    *)
(* nothing that is undefined but call too deeply or divide the smallest int*)
(* by -1, if an int that is too large wraps around as it does in the build *)
(* (the handlers, try_mark_and_sweep).                                     *)
(***************************************************************************)
THEOREM NumbersAreSafe ==
  ASSUME AllWellFormed
  PROVE  Spec => []NumbersStayDefined
<1> DEFINE Inv == Numeric(prgm) => NumbersInv
<1>1. Init => Inv
  <2> SUFFICES ASSUME Init PROVE NumbersInv
    OBVIOUS
  <2>1. \A r \in Register : m_memory[r] = Dud
    BY DEF Init, Boot
  <2>2. QED
    BY <2>1, MadeNumbers DEF Init, Boot, NumbersInv
<1>2. ConventionInv /\ EngineInv /\ Inv /\ [Next]_vars /\ StaysInCode' /\ StaysInMemory' => Inv'
  <2> SUFFICES ASSUME ConventionInv, EngineInv, Inv, [Next]_vars, StaysInCode', StaysInMemory', Numeric(prgm)'
               PROVE  NumbersInv'
    OBVIOUS
  <2>1. EngineTypeOK
    BY DEF EngineInv
  <2>2. prgm' = prgm
    <3>1. CodeStep \/ Call \/ Ret
      BY StepIsCodeCallOrRet DEF ConventionInv
    <3>2. QED
      BY <3>1 DEF CodeStep, Call, CallWith, Ret, RetWith
  <2>3. Numeric(prgm) /\ MakesNoList(prgm) /\ GcThreshold > 0
    BY <2>2 DEF Numeric, Closed, Roomy
  <2>4. fault' \notin {"oob_code", "oob_memory", "oob_natives", "terminate"}
    BY DEF Numeric, StaysInCode, StaysInMemory
  <2>5. QED
    BY <2>1, <2>3, <2>4, NextKeepsNumbers
<1>3. Inv => NumbersStayDefined
  BY DEF NumbersInv, NumbersStayDefined
<1>4. QED
  BY <1>1, <1>2, <1>3, ConventionHolds, EngineInvHolds, ClosedStaysInCode, NarrowStaysInMemory, PTL DEF Spec

================================================================================
