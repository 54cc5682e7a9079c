----------------------------- MODULE SequenceValue -----------------------------
(***************************************************************************)
(* The sequence objects of the heap (class SequenceValue).  Its std::vector*)
(* keeps a capacity, and `gen' counts the buffers it has had: a pointer to *)
(* an item is good only while the buffer it was taken from is in use.  The *)
(* count of the items is an int of its own, which wraps around.            *)
(***************************************************************************)
EXTENDS FastValue, Sequences

Sequence == [items : Seq(Value), m_length : Ints, m_frozen : BOOLEAN,
             cap : Nat, gen : Nat, serial : Nat]

EmptySequence(serial) ==
  [items |-> << >>, m_length |-> 0, m_frozen |-> FALSE, cap |-> 0, gen |-> 0,
   serial |-> serial]

\* A full vector moves to a buffer of twice its size (one, when it had none).
NeedsNewBuffer(s) == Len(s.items) = s.cap
GrownCapacity(s) == IF s.cap = 0 THEN 1 ELSE 2 * s.cap

\* push_value does not look at m_frozen: its callers do, or do not.
PushValue(s, v) ==
  [s EXCEPT !.items = Append(@, v),
            !.m_length = Wrap(@ + 1),
            !.cap = IF NeedsNewBuffer(s) THEN GrownCapacity(s) ELSE @,
            !.gen = IF NeedsNewBuffer(s) THEN @ + 1 ELSE @]

\* Every value of a list, one push after the other.
PushAll(s, vs) ==
  LET pushed[n \in 0 .. Len(vs)] ==
        IF n = 0 THEN s ELSE PushValue(pushed[n - 1], vs[n])
  IN  pushed[Len(vs)]

CanPop(s) == s.items # << >> /\ ~s.m_frozen

\* The value pop_value returns, and what it leaves.
PoppedValue(s, mode) ==
  CASE ~CanPop(s) -> Dud
    [] CanPop(s) /\ mode = "back" -> s.items[Len(s.items)]
    [] CanPop(s) /\ mode = "front" -> s.items[1]

PopRestNoCount(s, mode) ==    \* a slip: the count is left alone
  IF ~CanPop(s) THEN s
  ELSE [s EXCEPT !.items = IF mode = "back" THEN SubSeq(@, 1, Len(@) - 1) ELSE Tail(@)]

PopRest(s, mode) ==
  IF ~CanPop(s) THEN s
  ELSE [s EXCEPT !.items = IF mode = "back" THEN SubSeq(@, 1, Len(@) - 1) ELSE Tail(@),
                 !.m_length = Wrap(@ - 1)]

Freeze(s) == [s EXCEPT !.m_frozen = TRUE]

\* get_value takes a std::size_t: a negative position is past every end.
HasItem(s, pos) == pos \in 0 .. Len(s.items) - 1

\* What is right about a sequence: the count is the number of items, as far as an int can
\* tell, and the items fit their buffer.
Counted(s) == s.m_length = Wrap(Len(s.items)) /\ Len(s.items) <= s.cap

================================================================================
