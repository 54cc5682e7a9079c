------------------------------- MODULE ValueProofs -------------------------------
(***************************************************************************)
(* What the operators on values and on sequences yield, for ints of any    *)
(* width and lists of any length: every result is a value again, and a     *)
(* list that counts its items goes on doing so.                            *)
(*                                                                         *)
(* Induction on the naturals comes first.  It is stated for a set and not  *)
(* for a predicate, which the provers could not instantiate.               *)
(***************************************************************************)
EXTENDS SequenceValue, WellFoundedInduction, SequenceTheorems, TLAPS

\* A set of naturals that is not empty has a least element.
LEMMA LeastNatural ==
  ASSUME NEW S, S \subseteq Nat, S # {}
  PROVE  \E n \in S : \A m \in S : n <= m
<1> DEFINE R == OpToRel(<, Nat)
<1>1. IsWellFoundedOn(R, Nat)
  BY NatLessThanWellFounded
<1>2. \A m, n \in Nat : m < n => <<m, n>> \in R
  BY DEF OpToRel
<1> HIDE DEF R
<1>3. PICK n \in S : \A m \in S : <<m, n>> \notin R
  BY <1>1, WFMin
<1>4. \A m \in S : ~(m < n)
  BY <1>2, <1>3
<1>5. QED
  BY <1>4

\* A set that 0 is in, and n + 1 with every n, holds all naturals.
LEMMA NaturalInduction ==
  ASSUME NEW S, 0 \in S, \A n \in Nat : n \in S => n + 1 \in S
  PROVE  Nat \subseteq S
<1> SUFFICES ASSUME Nat \ S # {} PROVE FALSE
  OBVIOUS
<1>1. PICK n \in Nat \ S : \A m \in Nat \ S : n <= m
  BY LeastNatural
<1>2. n - 1 \in Nat
  OBVIOUS
<1>3. n - 1 \in S
  BY <1>1, <1>2
<1>4. QED
  BY <1>2, <1>3

--------------------------------------------------------------------------------
\* Ints wrap around

\* A remainder is what is left when a multiple of the divisor is taken away.
LEMMA DivisionWithRemainder ==
  ASSUME NEW n \in Int, NEW m \in Nat \ {0}
  PROVE  n \div m \in Int /\ n % m \in 0 .. m - 1 /\ n = m * (n \div m) + (n % m)
OBVIOUS

LEMMA RemainderIsUnique ==
  ASSUME NEW m \in Nat \ {0}, NEW q \in Int, NEW r \in 0 .. m - 1
  PROVE  (m * q + r) % m = r
<1> DEFINE n == m * q + r
           d == n \div m
           s == n % m
<1>1. d \in Int /\ s \in 0 .. m - 1 /\ n = m * d + s
  BY DivisionWithRemainder
<1>2. n = m * q + r /\ m * q \in Int
  OBVIOUS
<1> HIDE DEF n, d, s
<1>3. \A a, b \in Int : a > b => m * a >= m * b + m /\ m * a \in Int /\ m * b \in Int
  OBVIOUS
<1>4. ~(d > q) /\ ~(q > d)
  BY <1>1, <1>2, <1>3
<1>5. d = q
  BY <1>1, <1>4
<1>6. s = r
  BY <1>1, <1>2, <1>5
<1>7. QED
  BY <1>6 DEF n, s

\* A remainder that is taken before an addition is lost in the one that is taken after it.
LEMMA RemainderOfSum ==
  ASSUME NEW m \in Nat \ {0}, NEW n \in Int, NEW k \in Int
  PROVE  ((n % m) + k) % m = (n + k) % m
<1> DEFINE sum == (n % m) + k
           q == (sum \div m) + (n \div m)
<1>1. sum \in Int /\ n % m \in Int /\ n \div m \in Int /\ n = m * (n \div m) + (n % m)
  BY DivisionWithRemainder
<1>2. sum \div m \in Int /\ sum % m \in 0 .. m - 1 /\ sum = m * (sum \div m) + (sum % m)
  BY <1>1, DivisionWithRemainder
<1>3. q \in Int /\ n + k = m * q + (sum % m)
  BY <1>1, <1>2
<1>4. QED
  BY <1>2, <1>3, RemainderIsUnique

(***************************************************************************)
(* Wrap yields an int, is the identity on ints, and may be left out of the *)
(* operands of a sum (the int arithmetic of the build).                    *)
(***************************************************************************)
LEMMA WrapIsInt ==
  ASSUME NEW n \in Int
  PROVE  Wrap(n) \in Ints
BY IntMaxAssumption DEF Wrap, Ints, IntMin

LEMMA WrapOfInt ==
  ASSUME NEW n \in Ints
  PROVE  Wrap(n) = n
BY IntMaxAssumption DEF Wrap, Ints, IntMin

LEMMA WrapOfSum ==
  ASSUME NEW n \in Int, NEW k \in Int
  PROVE  Wrap(Wrap(n) + k) = Wrap(n + k)
<1> DEFINE m == 2 * (IntMax + 1)
           a == n - IntMin
<1>1. m \in Nat \ {0} /\ a \in Int /\ IntMin \in Int
  BY IntMaxAssumption DEF IntMin
<1>2. \A x : Wrap(x) = ((x - IntMin) % m) + IntMin
  BY DEF Wrap
<1>3. a = n - IntMin
  OBVIOUS
<1> HIDE DEF m, a
<1>4. a % m \in Int
  BY <1>1, DivisionWithRemainder
<1>5. (Wrap(n) + k) - IntMin = (a % m) + k
  <2>1. Wrap(n) = (a % m) + IntMin
    BY <1>2, <1>3
  <2>2. QED
    BY <1>1, <1>4, <2>1
<1>6. (n + k) - IntMin = a + k
  BY <1>1, <1>3
<1>7. ((a % m) + k) % m = (a + k) % m
  BY <1>1, RemainderOfSum
<1>8. QED
  BY <1>2, <1>5, <1>6, <1>7

--------------------------------------------------------------------------------
\* Values

(***************************************************************************)
(* What the fields of a value hold, by its tag.                            *)
(***************************************************************************)
LEMMA ValueFields ==
  ASSUME NEW v \in Value
  PROVE  /\ v.tag \in {"dud", "boolean", "int32", "flt64", "val_ref", "sequence"}
         /\ v.tag = "boolean" => v.scalar_v \in {0, 1}
         /\ v.tag = "int32" => v.scalar_v \in Ints
         /\ v.tag = "flt64" => v.dbl_v \in Doubles
         /\ IsRef(v) => v.fv_p \in ItemPtr
         /\ IsSeq(v) => v.obj_p \in ObjectPtr
BY DEF Value, Dud, Bool, IsRef, IsSeq

\* The constructors of FastValue make values.
LEMMA MadeValues ==
  /\ Dud \in Value
  /\ \A b : Bool(b) \in Value
  /\ \A n \in Ints : Int32(n) \in Value
  /\ \A z \in Doubles : Flt64(z) \in Value
  /\ \A p \in ItemPtr : ValRef(p) \in Value
  /\ \A p \in ObjectPtr : SeqPtr(p) \in Value
BY DEF Value, Dud, Bool, Int32, Flt64, ValRef, SeqPtr

\* The quotient and the remainder of two ints, the second not zero, are numbers.
LEMMA TruncatedDivision ==
  ASSUME NEW a \in Int, NEW b \in Int, b # 0
  PROVE  TruncDiv(a, b) \in Int /\ TruncMod(a, b) \in Int
<1>1. AbsVal(a) \in Int /\ AbsVal(b) \in Nat \ {0}
  BY DEF AbsVal
<1>2. AbsVal(a) \div AbsVal(b) \in Int
  BY <1>1, DivisionWithRemainder
<1>3. TruncDiv(a, b) \in Int
  BY <1>2 DEF TruncDiv
<1>4. QED
  BY <1>3 DEF TruncMod

(***************************************************************************)
(* Arithmetic on two values yields values: an int result is wrapped into   *)
(* the ints, and where there is no result there is a dud (the operators of *)
(* fast_value.cpp).                                                        *)
(***************************************************************************)
THEOREM ArithmeticYieldsValues ==
  ASSUME NEW op \in {"mul", "div", "mod", "add", "sub"}, NEW a \in Value, NEW b \in Value
  PROVE  \A r \in Arith(op, a, b) : r \in Value
<1>1. CASE a.tag = "int32" /\ b.tag = "int32"
  <2> DEFINE x == a.scalar_v
             y == b.scalar_v
  <2>1. x \in Int /\ y \in Int
    BY <1>1, ValueFields, IntMaxAssumption DEF Ints, IntMin
  <2> HIDE DEF x, y
  <2>2. x * y \in Int /\ x + y \in Int /\ x - y \in Int
    BY <2>1
  <2>3. y # 0 => TruncDiv(x, y) \in Int /\ TruncMod(x, y) \in Int
    BY <2>1, TruncatedDivision
  <2>4. \A n \in Int : Int32(Wrap(n)) \in Value
    BY WrapIsInt, MadeValues
  <2>5. IntArith(op, x, y) \in Value
    BY <2>2, <2>3, <2>4, MadeValues DEF IntArith
  <2>6. Arith(op, a, b) = {IntArith(op, x, y)}
    BY <1>1 DEF Arith, x, y
  <2>7. QED
    BY <2>5, <2>6
<1>2. CASE a.tag = "flt64" /\ b.tag = "flt64"
  <2>1. Arith(op, a, b) = FltArith(op, a.dbl_v, b.dbl_v)
    BY <1>2 DEF Arith
  <2>2. \A r \in FltArith(op, a.dbl_v, b.dbl_v) : r = Dud \/ \E z \in Doubles : r = Flt64(z)
    BY DEF FltArith, Doubles
  <2>3. QED
    BY <2>1, <2>2, MadeValues
<1>3. CASE ~(a.tag = b.tag /\ a.tag \in {"int32", "flt64"})
  <2>1. Arith(op, a, b) = {Dud}
    BY <1>3 DEF Arith
  <2>2. QED
    BY <2>1, MadeValues
<1>4. QED
  BY <1>1, <1>2, <1>3

--------------------------------------------------------------------------------
\* Sequences

\* One list after a change: it is still that list and still counts its items.
SameList(s, t) == t \in Sequence /\ Counted(t) /\ t.serial = s.serial

\* A frozen list has stayed frozen, and as long as it was.
SameSize(s, t) == s.m_frozen => t.m_frozen /\ Len(t.items) = Len(s.items)

LEMMA SequenceFields ==
  ASSUME NEW s \in Sequence
  PROVE  /\ s.items \in Seq(Value) /\ Len(s.items) \in Nat
         /\ DOMAIN s.items = 1 .. Len(s.items)
         /\ s.m_length \in Ints /\ s.m_frozen \in BOOLEAN
         /\ s.cap \in Nat /\ s.gen \in Nat /\ s.serial \in Nat
BY DEF Sequence

\* A new list is empty, and counts no items.
LEMMA EmptySequenceCounts ==
  ASSUME NEW serial \in Nat
  PROVE  /\ EmptySequence(serial) \in Sequence
         /\ Counted(EmptySequence(serial))
         /\ EmptySequence(serial).serial = serial
<1>1. 0 \in Ints /\ << >> \in Seq(Value) /\ Len(<< >>) = 0
  BY IntMaxAssumption DEF Ints, IntMin
<1>2. Wrap(0) = 0
  BY <1>1, WrapOfInt
<1>3. QED
  BY <1>1, <1>2 DEF EmptySequence, Sequence, Counted

(***************************************************************************)
(* push_value puts the value at the back and keeps the count; the items    *)
(* move to another buffer exactly when they fill the one they are in.      *)
(***************************************************************************)
LEMMA PushChanges ==
  ASSUME NEW s \in Sequence, Counted(s), NEW v \in Value
  PROVE  /\ SameList(s, PushValue(s, v))
         /\ PushValue(s, v).items = Append(s.items, v)
         /\ PushValue(s, v).m_frozen = s.m_frozen
         /\ Len(s.items) + 1 <= s.cap =>
              PushValue(s, v).cap = s.cap /\ PushValue(s, v).gen = s.gen
         /\ Len(s.items) + 1 > s.cap => PushValue(s, v).gen = s.gen + 1
<1> DEFINE t == PushValue(s, v)
<1>1. /\ s.items \in Seq(Value) /\ Len(s.items) \in Nat /\ s.cap \in Nat /\ s.gen \in Nat
      /\ s.m_length \in Int /\ Len(s.items) <= s.cap /\ s.m_length = Wrap(Len(s.items))
  BY SequenceFields, IntMaxAssumption DEF Counted, Ints, IntMin
<1>2. /\ t.items = Append(s.items, v) /\ t.m_length = Wrap(s.m_length + 1)
      /\ t.cap = IF NeedsNewBuffer(s) THEN GrownCapacity(s) ELSE s.cap
      /\ t.gen = IF NeedsNewBuffer(s) THEN s.gen + 1 ELSE s.gen
      /\ t.serial = s.serial /\ t.m_frozen = s.m_frozen
  BY DEF PushValue, Sequence
<1>3. \A items \in Seq(Value), m_length \in Ints, cap \in Nat, gen \in Nat :
         [s EXCEPT !.items = items, !.m_length = m_length, !.cap = cap, !.gen = gen] \in Sequence
  BY DEF Sequence
<1>4. t = [s EXCEPT !.items = t.items, !.m_length = t.m_length, !.cap = t.cap, !.gen = t.gen]
  BY <1>2 DEF PushValue
<1> HIDE DEF t
<1>5. t.items \in Seq(Value) /\ Len(t.items) = Len(s.items) + 1
  BY <1>1, <1>2
<1>6. t.m_length \in Ints /\ t.m_length = Wrap(Len(t.items))
  <2>0. Len(s.items) \in Int /\ 1 \in Int
    BY <1>1
  <2>1. Wrap(Wrap(Len(s.items)) + 1) = Wrap(Len(s.items) + 1)
    BY <2>0, WrapOfSum, Zenon
  <2>2. Wrap(Len(s.items) + 1) \in Ints
    BY <1>1, WrapIsInt
  <2>3. QED
    BY <1>1, <1>2, <1>5, <2>1, <2>2
<1>7. t.cap \in Nat /\ Len(t.items) <= t.cap
  BY <1>1, <1>2, <1>5 DEF NeedsNewBuffer, GrownCapacity
<1>8. t.gen \in Nat
  BY <1>1, <1>2
<1>9. [s EXCEPT !.items = t.items, !.m_length = t.m_length, !.cap = t.cap, !.gen = t.gen]
         \in Sequence
  BY <1>5, <1>6, <1>7, <1>8, <1>3, Zenon
<1>10. t \in Sequence
  BY <1>4, <1>9, Zenon
<1>11. /\ Len(s.items) + 1 <= s.cap => t.cap = s.cap /\ t.gen = s.gen
       /\ Len(s.items) + 1 > s.cap => t.gen = s.gen + 1
  BY <1>1, <1>2 DEF NeedsNewBuffer
<1>12. SameList(s, t)
  BY <1>2, <1>6, <1>7, <1>10 DEF SameList, Counted
<1>13. t.items = Append(s.items, v) /\ t.m_frozen = s.m_frozen
  BY <1>2
<1>14. QED
  BY <1>11, <1>12, <1>13 DEF t

(***************************************************************************)
(* pop_value takes an item of a list that is not frozen, and counts it.    *)
(***************************************************************************)
LEMMA PopChanges ==
  ASSUME NEW s \in Sequence, Counted(s), NEW mode \in {"back", "front"}
  PROVE  /\ PoppedValue(s, mode) \in Value
         /\ SameList(s, PopRest(s, mode)) /\ SameSize(s, PopRest(s, mode))
<1>1. CASE ~CanPop(s)
  BY <1>1, MadeValues DEF PoppedValue, PopRest, SameList, SameSize
<1>2. CASE CanPop(s)
  <2> DEFINE t == PopRest(s, mode)
  <2>1. /\ s.items \in Seq(Value) /\ Len(s.items) \in Nat \ {0} /\ s.cap \in Nat
        /\ s.m_length \in Int /\ Len(s.items) <= s.cap /\ s.m_length = Wrap(Len(s.items))
        /\ s.m_frozen = FALSE
    BY <1>2, SequenceFields, IntMaxAssumption, EmptySeq DEF Counted, Ints, IntMin, CanPop
  <2>2. PoppedValue(s, mode) \in Value
    BY <1>2, <2>1 DEF PoppedValue
  <2>3. /\ t.items = IF mode = "back" THEN SubSeq(s.items, 1, Len(s.items) - 1)
                     ELSE Tail(s.items)
        /\ t.m_length = Wrap(s.m_length + (-1))
        /\ t.serial = s.serial /\ t.m_frozen = s.m_frozen /\ t.cap = s.cap /\ t.gen = s.gen
        /\ t = [items |-> t.items, m_length |-> t.m_length, m_frozen |-> t.m_frozen,
                cap |-> t.cap, gen |-> t.gen, serial |-> t.serial]
    BY <1>2, <2>1 DEF PopRest, Sequence
  <2> HIDE DEF t
  <2>4. t.items \in Seq(Value) /\ Len(t.items) = Len(s.items) + (-1)
    <3>1. /\ SubSeq(s.items, 1, Len(s.items) - 1) \in Seq(Value)
          /\ Len(SubSeq(s.items, 1, Len(s.items) - 1)) = Len(s.items) - 1
      BY <2>1, SubSeqProperties
    <3>2. Tail(s.items) \in Seq(Value) /\ Len(Tail(s.items)) = Len(s.items) - 1
      BY <2>1
    <3>3. QED
      BY <2>1, <2>3, <3>1, <3>2
  <2>5. t.m_length \in Ints /\ t.m_length = Wrap(Len(t.items))
    <3>0. Len(s.items) \in Int /\ -1 \in Int
      BY <2>1
    <3>1. Wrap(Wrap(Len(s.items)) + (-1)) = Wrap(Len(s.items) + (-1))
      BY <3>0, WrapOfSum, Zenon
    <3>2. Wrap(Len(s.items) + (-1)) \in Ints
      BY <2>1, WrapIsInt
    <3>3. QED
      BY <2>1, <2>3, <2>4, <3>1, <3>2
  <2>6. t \in Sequence
    BY <2>3, <2>4, <2>5, SequenceFields DEF Sequence
  <2>7. Len(t.items) <= t.cap
    BY <2>1, <2>3, <2>4
  <2>8. QED
    BY <2>1, <2>2, <2>3, <2>5, <2>6, <2>7 DEF SameList, SameSize, Counted, t
<1>3. QED
  BY <1>1, <1>2

\* freeze changes nothing else.
LEMMA FreezeChanges ==
  ASSUME NEW s \in Sequence, Counted(s)
  PROVE  SameList(s, Freeze(s)) /\ SameSize(s, Freeze(s))
BY DEF Freeze, Sequence, SameList, SameSize, Counted

\* So does a write to an item.
LEMMA WriteChanges ==
  ASSUME NEW s \in Sequence, Counted(s), NEW pos, HasItem(s, pos), NEW v \in Value
  PROVE  /\ SameList(s, [s EXCEPT !.items[pos + 1] = v])
         /\ SameSize(s, [s EXCEPT !.items[pos + 1] = v])
<1> DEFINE t == [s EXCEPT !.items[pos + 1] = v]
<1>1. t.items = [s.items EXCEPT ![pos + 1] = v] /\ s.items \in Seq(Value)
  BY SequenceFields DEF Sequence
<1>2. t.items \in Seq(Value) /\ Len(t.items) = Len(s.items)
  BY <1>1, ExceptSeq DEF HasItem
<1>3. t \in Sequence
  BY <1>2 DEF Sequence
<1>4. t.m_length = s.m_length /\ t.cap = s.cap /\ t.serial = s.serial /\ t.m_frozen = s.m_frozen
  BY DEF Sequence
<1> HIDE DEF t
<1>5. QED
  BY <1>2, <1>3, <1>4 DEF SameList, SameSize, Counted, t

--------------------------------------------------------------------------------
\* One push after the other

\* What the recursive function in PushAll is, up to the n-th push.
Pushes(s, vs, n, pushed) ==
  pushed = [k \in 0 .. n |-> IF k = 0 THEN s ELSE PushValue(pushed[k - 1], vs[k])]

\* There is such a function for every number of pushes.
LEMMA PushesExist ==
  ASSUME NEW s, NEW vs, NEW n \in Nat
  PROVE  \E pushed : Pushes(s, vs, n, pushed)
<1> DEFINE S == {m \in Nat : \E pushed : Pushes(s, vs, m, pushed)}
<1>1. 0 \in S
  <2>1. Pushes(s, vs, 0, [k \in 0 .. 0 |-> s])
    BY DEF Pushes
  <2>2. QED
    BY <2>1
<1>2. ASSUME NEW m \in Nat, m \in S
      PROVE  m + 1 \in S
  <2>1. PICK f : Pushes(s, vs, m, f)
    BY <1>2
  <2> DEFINE g == [k \in 0 .. m + 1 |-> IF k = m + 1 THEN PushValue(f[m], vs[m + 1]) ELSE f[k]]
  <2>2. ASSUME NEW k \in 0 .. m + 1
        PROVE  g[k] = IF k = 0 THEN s ELSE PushValue(g[k - 1], vs[k])
    <3>1. CASE k = 0
      BY <2>1, <3>1 DEF Pushes
    <3>2. CASE k = m + 1
      BY <3>2
    <3>3. CASE k \in 1 .. m
      <4>1. f[k] = PushValue(f[k - 1], vs[k])
        BY <2>1, <3>3 DEF Pushes
      <4>2. g[k] = f[k] /\ g[k - 1] = f[k - 1] /\ k # 0
        BY <3>3
      <4>3. QED
        BY <4>1, <4>2
    <3>4. QED
      BY <3>1, <3>2, <3>3
  <2>3. g = [k \in 0 .. m + 1 |-> IF k = 0 THEN s ELSE PushValue(g[k - 1], vs[k])]
    BY <2>2
  <2> HIDE DEF g
  <2>4. QED
    BY <2>3 DEF Pushes
<1> HIDE DEF S
<1>3. Nat \subseteq S
  BY <1>1, <1>2, NaturalInduction
<1>4. QED
  BY <1>3 DEF S

LEMMA PushAllIsLastPush ==
  ASSUME NEW s, NEW vs, Len(vs) \in Nat
  PROVE  \E pushed : Pushes(s, vs, Len(vs), pushed) /\ PushAll(s, vs) = pushed[Len(vs)]
<1> DEFINE pushed == CHOOSE f : Pushes(s, vs, Len(vs), f)
<1>1. Pushes(s, vs, Len(vs), pushed)
  BY PushesExist
<1>2. PushAll(s, vs) = pushed[Len(vs)]
  BY DEF PushAll, Pushes
<1>3. QED
  BY <1>1, <1>2

(***************************************************************************)
(* After n pushes a list has its old items and the first n of the pushed   *)
(* ones, and it is in its old buffer exactly when there was room for them. *)
(***************************************************************************)
AfterPushes(s, vs, n, t) ==
  /\ SameList(s, t) /\ t.m_frozen = s.m_frozen
  /\ t.items = s.items \o SubSeq(vs, 1, n)
  /\ Len(s.items) + n <= s.cap => t.cap = s.cap /\ t.gen = s.gen
  /\ Len(s.items) + n > s.cap => t.gen > s.gen

LEMMA PushesAppend ==
  ASSUME NEW s \in Sequence, Counted(s), NEW vs \in Seq(Value),
         NEW pushed, Pushes(s, vs, Len(vs), pushed)
  PROVE  \A n \in 0 .. Len(vs) : AfterPushes(s, vs, n, pushed[n])
<1> DEFINE S == {n \in Nat : n <= Len(vs) => AfterPushes(s, vs, n, pushed[n])}
<1>0. Len(vs) \in Nat /\ s.items \in Seq(Value) /\ Len(s.items) \in Nat /\ s.cap \in Nat
      /\ s.gen \in Nat /\ Len(s.items) <= s.cap
  BY SequenceFields DEF Counted
<1>1. 0 \in S
  <2>1. pushed[0] = s
    BY <1>0 DEF Pushes
  <2>2. SubSeq(vs, 1, 0) = << >> /\ s.items \o << >> = s.items
    BY <1>0
  <2>3. QED
    BY <1>0, <2>1, <2>2 DEF AfterPushes, SameList
<1>2. ASSUME NEW n \in Nat, n \in S
      PROVE  n + 1 \in S
  <2> SUFFICES ASSUME n + 1 <= Len(vs)
               PROVE  AfterPushes(s, vs, n + 1, pushed[n + 1])
    OBVIOUS
  <2> DEFINE t == pushed[n]
             u == pushed[n + 1]
  <2>1. u = PushValue(t, vs[n + 1]) /\ n + 1 \in 1 .. Len(vs) /\ vs[n + 1] \in Value
    BY <1>0 DEF Pushes
  <2>2. AfterPushes(s, vs, n, t)
    BY <1>0, <1>2
  <2> HIDE DEF t, u
  <2>3. t \in Sequence /\ Counted(t) /\ t.gen \in Nat
    BY <2>2, SequenceFields DEF AfterPushes, SameList
  <2>4. /\ SameList(t, u) /\ u.items = Append(t.items, vs[n + 1]) /\ u.m_frozen = t.m_frozen
        /\ Len(t.items) + 1 <= t.cap => u.cap = t.cap /\ u.gen = t.gen
        /\ Len(t.items) + 1 > t.cap => u.gen = t.gen + 1
    BY <2>1, <2>3, PushChanges
  <2>5. SubSeq(vs, 1, n) \in Seq(Value) /\ Len(SubSeq(vs, 1, n)) = n
    BY <1>0, SubSeqProperties
  <2> DEFINE first == SubSeq(vs, 1, n)
             v == vs[n + 1]
  <2>6. t.items = s.items \o first /\ Len(t.items) = Len(s.items) + n
    <3>1. t.items = s.items \o first /\ first \in Seq(Value) /\ Len(first) = n
      BY <2>2, <2>5 DEF AfterPushes
    <3> HIDE DEF first
    <3>2. Len(s.items \o first) = Len(s.items) + Len(first)
      BY <1>0, <3>1, ConcatProperties
    <3>3. QED
      BY <3>1, <3>2
  <2>7. u.items = s.items \o SubSeq(vs, 1, n + 1)
    <3>1. SubSeq(vs, 1, n + 1) = first \o <<v>>
      BY <1>0, <2>1, SubSeqRecursiveSecond
    <3>2. first \in Seq(Value) /\ v \in Value
      BY <2>1, <2>5
    <3>3. u.items = Append(s.items \o first, v)
      BY <2>4, <2>6
    <3> HIDE DEF first, v
    <3>4. s.items \o first \in Seq(Value) /\ <<v>> \in Seq(Value)
      BY <1>0, <3>2, ConcatProperties
    <3>5. Append(s.items \o first, v) = (s.items \o first) \o <<v>>
      BY <3>2, <3>4, AppendIsConcat
    <3>6. (s.items \o first) \o <<v>> = s.items \o (first \o <<v>>)
      <4>1. \A a, b, c \in Seq(Value) : (a \o b) \o c = a \o (b \o c)
        BY ConcatAssociative, SMTT(30)
      <4>2. QED
        BY <1>0, <3>2, <3>4, <4>1, Zenon
    <3>7. QED
      BY <3>1, <3>3, <3>5, <3>6
  <2>8. /\ Len(s.items) + (n + 1) <= s.cap => u.cap = s.cap /\ u.gen = s.gen
        /\ Len(s.items) + (n + 1) > s.cap => u.gen > s.gen
    <3> DEFINE l == Len(s.items)
    <3>1. l \in Nat /\ s.cap \in Nat /\ s.gen \in Nat /\ t.cap \in Nat /\ t.gen \in Nat
      BY <1>0, <2>3, SequenceFields
    <3>2. /\ l + n <= s.cap => t.cap = s.cap /\ t.gen = s.gen
          /\ l + n > s.cap => t.gen > s.gen
      BY <2>2 DEF AfterPushes
    <3>3. /\ (l + n) + 1 <= t.cap => u.cap = t.cap /\ u.gen = t.gen
          /\ (l + n) + 1 > t.cap => u.gen = t.gen + 1
      BY <2>4, <2>6, Zenon
    <3> HIDE DEF l
    <3>4. /\ l + (n + 1) <= s.cap => u.cap = s.cap /\ u.gen = s.gen
          /\ l + (n + 1) > s.cap => u.gen > s.gen
      BY <3>1, <3>2, <3>3
    <3>5. QED
      BY <3>4 DEF l
  <2>9. SameList(s, u) /\ u.m_frozen = s.m_frozen
    BY <2>2, <2>4 DEF AfterPushes, SameList
  <2>10. AfterPushes(s, vs, n + 1, u)
    BY <2>7, <2>8, <2>9 DEF AfterPushes
  <2>11. QED
    BY <2>10 DEF u
<1> HIDE DEF S
<1>3. Nat \subseteq S
  BY <1>1, <1>2, NaturalInduction
<1>4. QED
  BY <1>0, <1>3 DEF S

(***************************************************************************)
(* What PushAll leaves (list_concat, and the pushes of make_seq): the old  *)
(* items and then all the others, in order, and counted.  The items are    *)
(* still in the buffer they were in exactly when there was room for all.   *)
(***************************************************************************)
THEOREM PushAllAppends ==
  ASSUME NEW s \in Sequence, Counted(s), NEW vs \in Seq(Value)
  PROVE  /\ SameList(s, PushAll(s, vs))
         /\ PushAll(s, vs).items = s.items \o vs
         /\ PushAll(s, vs).m_frozen = s.m_frozen
         /\ PushAll(s, vs).gen = s.gen <=> Len(s.items) + Len(vs) <= s.cap
<1>1. Len(vs) \in Nat /\ SubSeq(vs, 1, Len(vs)) = vs
  BY SubSeqFull
<1>2. PICK pushed : Pushes(s, vs, Len(vs), pushed) /\ PushAll(s, vs) = pushed[Len(vs)]
  BY <1>1, PushAllIsLastPush
<1>3. AfterPushes(s, vs, Len(vs), PushAll(s, vs))
  BY <1>1, <1>2, PushesAppend
<1>4. s.gen \in Nat /\ s.cap \in Nat /\ Len(s.items) \in Nat
  BY SequenceFields
<1>5. PushAll(s, vs).gen = s.gen <=> Len(s.items) + Len(vs) <= s.cap
  BY <1>1, <1>3, <1>4 DEF AfterPushes
<1>6. QED
  BY <1>1, <1>3, <1>5 DEF AfterPushes

================================================================================
