------------------------------- MODULE HeapClient -------------------------------
(***************************************************************************)
(* Class HeapStorage with any client and any order of calls.  Creating past*)
(* the last cell, and destroying one that does not exist, index a vector   *)
(* out of bounds, so the client below does neither.                        *)
(***************************************************************************)
EXTENDS HeapStorage

CONSTANTS
  Object,       \* the objects a client puts in the heap
  MaxCreated    \* bound of the model checker on the number of creations

ASSUME ObjectAssumption == Null \notin Object /\ MaxCreated \in Nat

VARIABLE m_heap

HeapInit == m_heap = EmptyHeap

CreateObject(obj) ==
  /\ m_heap.next_id < MaxCreated
  /\ NextCell(m_heap) \in Cell
  /\ m_heap' = TryCreate(m_heap, obj)

DestroyObject(id) == m_heap' = TryDestroy(m_heap, id)

HeapNext ==
  \/ \E obj \in Object : CreateObject(obj)
  \/ \E id \in Cell : DestroyObject(id)

HeapSpec == HeapInit /\ [][HeapNext]_m_heap

--------------------------------------------------------------------------------
(***************************************************************************)
(* Type correctness of the heap, and the invariant that its operations     *)
(* rest on (heap_storage.cpp 18-54): the hole queue lists free cells only, *)
(* each once, so that creating an object never overwrites another, and the *)
(* score that decides when to collect is exact.                            *)
(***************************************************************************)
HeapInv == HeapInvOf(m_heap, Object)

(***************************************************************************)
(* The class implements a pool of slots: an object is put in a slot that   *)
(* holds none, it stays there until it is destroyed, and the pool says it  *)
(* is ripe exactly when the objects in it weigh the threshold.             *)
(***************************************************************************)
StoreOf(h) == [c \in LiveCells(h) |-> h.objects[c]]

Pool == INSTANCE SlotPool WITH
  Slots <- Cell, store <- StoreOf(m_heap), ripe <- IsRipe(m_heap)

PoolSpec == Pool!Spec

(***************************************************************************)
(* What the comments at heap_storage.hpp 13 and 19 promise: the heap has   *)
(* room for cm_normal_max_overhead, and freed slots stay available.  So as *)
(* long as the overhead is below that capacity, the next object has a cell.*)
(***************************************************************************)
RoomBelowCapacity ==
  m_heap.overhead < Capacity * ObjOverhead => NextCell(m_heap) \in Cell

================================================================================
