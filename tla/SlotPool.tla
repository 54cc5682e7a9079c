-------------------------------- MODULE SlotPool --------------------------------
(***************************************************************************)
(* What a heap promises its owner, whatever bookkeeping it does: objects   *)
(* live in slots, a new object takes a slot that is empty, only a destroy  *)
(* empties one, and `ripe' is raised exactly while the objects in the pool *)
(* weigh at least the threshold.                                           *)
(***************************************************************************)
EXTENDS Integers, FiniteSets

CONSTANTS Slots, Object, ObjOverhead, GcThreshold

VARIABLES store, ripe    \* store: a function from the slots in use to objects

Weighs(s) == ObjOverhead * Cardinality(DOMAIN s) >= GcThreshold

Init ==
  /\ store = << >>
  /\ ripe = Weighs(store)

Put ==
  \E slot \in Slots \ DOMAIN store, obj \in Object :
    store' = [s \in DOMAIN store \cup {slot} |-> IF s = slot THEN obj ELSE store[s]]

Remove ==
  \E slot \in DOMAIN store : store' = [s \in DOMAIN store \ {slot} |-> store[s]]

Next == (Put \/ Remove) /\ ripe' = Weighs(store')

Spec == Init /\ [][Next]_<<store, ripe>>

================================================================================
