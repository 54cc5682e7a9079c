------------------------------ MODULE HeapStorage ------------------------------
(***************************************************************************)
(* The heap of the virtual machine (class HeapStorage): an array of cells, *)
(* a first-in first-out queue of the cells that were freed, the id of the  *)
(* next cell nobody used yet, and the overhead score that tells when to    *)
(* collect.  The operations are operators on a heap record, so that the    *)
(* collector of module Engine can run several of them in one step; module  *)
(* HeapClient is the class with a client that calls them in any order.     *)
(***************************************************************************)
EXTENDS Integers, Sequences, FiniteSets

CONSTANTS
  Capacity,       \* cm_normal_obj_capacity, the number of cells
  ObjOverhead,    \* cm_normal_obj_overhead
  GcThreshold,    \* cm_normal_gc_threshold
  Null            \* an empty unique_ptr

ASSUME HeapAssumption ==
  /\ Capacity \in Nat \ {0}
  /\ ObjOverhead \in Nat \ {0}
  /\ GcThreshold \in Nat

Cell == 0 .. Capacity - 1

EmptyHeap ==
  [objects |-> [c \in Cell |-> Null], holes |-> << >>, overhead |-> 0, next_id |-> 0]

RipeEarly(h) == h.overhead + 1 >= GcThreshold    \* a slip: one before the threshold

IsRipe(h) == h.overhead >= GcThreshold

\* The cell the next object goes to; nothing keeps it below Capacity.
NextCell(h) == IF h.holes # << >> THEN Head(h.holes) ELSE h.next_id

\* Slips: a hole that stays in the queue; a score that is left alone.
CreateKeepsHole(h, obj) ==
  [objects |-> [h.objects EXCEPT ![NextCell(h)] = obj],
   holes |-> h.holes,
   overhead |-> h.overhead + ObjOverhead,
   next_id |-> h.next_id + 1]

\* m_next_id moves on even when the object went to a hole.
TryCreate(h, obj) ==
  [objects |-> [h.objects EXCEPT ![NextCell(h)] = obj],
   holes |-> IF h.holes # << >> THEN Tail(h.holes) ELSE h.holes,
   overhead |-> h.overhead + ObjOverhead,
   next_id |-> h.next_id + 1]

CanDestroy(h, id) == h.objects[id] # Null

\* Slips: an empty cell is freed once more; the score never goes down.
DestroyUnchecked(h, id) ==
  [objects |-> [h.objects EXCEPT ![id] = Null], holes |-> Append(h.holes, id),
   overhead |-> h.overhead - ObjOverhead, next_id |-> h.next_id]
DestroyKeepsScore(h, id) ==
  IF ~CanDestroy(h, id) THEN h
  ELSE [objects |-> [h.objects EXCEPT ![id] = Null], holes |-> Append(h.holes, id),
        overhead |-> h.overhead, next_id |-> h.next_id]

TryDestroy(h, id) ==
  IF ~CanDestroy(h, id) THEN h
  ELSE [objects |-> [h.objects EXCEPT ![id] = Null], holes |-> Append(h.holes, id),
        overhead |-> h.overhead - ObjOverhead, next_id |-> h.next_id]

--------------------------------------------------------------------------------
\* What is right about a heap h that holds objects of a set Objs

LiveCells(h) == {c \in Cell : h.objects[c] # Null}

HeapType(h, Objs) ==
  h \in [objects : [Cell -> Objs \cup {Null}], holes : Seq(Cell),
         overhead : Int, next_id : Nat]

\* A hole is a free cell that was handed out before, and is listed once.
HolesAreFree(h) ==
  /\ \A i \in DOMAIN h.holes :
       h.holes[i] < h.next_id /\ h.objects[h.holes[i]] = Null
  /\ \A i, j \in DOMAIN h.holes : h.holes[i] = h.holes[j] => i = j

\* A cell that was never handed out is free.
FreshAreFree(h) == \A c \in Cell : c >= h.next_id => h.objects[c] = Null

\* The overhead score counts the live objects.
ScoreIsExact(h) == h.overhead = ObjOverhead * Cardinality(LiveCells(h))

HeapInvOf(h, Objs) ==
  /\ HeapType(h, Objs)
  /\ HolesAreFree(h)
  /\ FreshAreFree(h)
  /\ ScoreIsExact(h)

================================================================================
