------------------------------- MODULE FastValue -------------------------------
(***************************************************************************)
(* The tagged values of the virtual machine (class FastValue) and what the *)
(* operators of that class compute on two values, neither of which is a    *)
(* reference.  Following a reference needs the heap: module Engine does it *)
(* and applies these operators to what it finds.                           *)
(*                                                                         *)
(* An int is IntMax + 1 wide on its negative side, like an int32_t, and    *)
(* wraps around.  That is what the build makes of it: C++ leaves a sum, a  *)
(* difference or a product that is too large for an int undefined, and no  *)
(* preset passes -fwrapv.  A double is abstracted to whether it is zero,   *)
(* which is all that a branch or a division asks of it, so an operation on *)
(* doubles is a set of possible results.                                   *)
(***************************************************************************)
EXTENDS Integers

CONSTANT IntMax    \* the largest value of scalar_v (2^31 - 1 in the build)

ASSUME IntMaxAssumption == IntMax \in Nat \ {0}

IntMin == -IntMax - 1
Ints == IntMin .. IntMax
Doubles == {"zero", "nonzero"}    \* NaN and the infinities are "nonzero"

(***************************************************************************)
(* What a pointer names.  An object is named by its heap cell and by the   *)
(* serial number of its creation: the memory of a destroyed object may be  *)
(* used again, its serial number never is.  A reference to an item also    *)
(* names the generation of the buffer the items were in when it was taken. *)
(***************************************************************************)
ObjectPtr == [cell : Nat, serial : Nat]
ItemPtr == [obj : ObjectPtr, gen : Nat, pos : Nat]

Dud == [tag |-> "dud"]
Bool(b) == [tag |-> "boolean", scalar_v |-> IF b THEN 1 ELSE 0]
Int32(n) == [tag |-> "int32", scalar_v |-> n]
Flt64(z) == [tag |-> "flt64", dbl_v |-> z]
ValRef(p) == [tag |-> "val_ref", fv_p |-> p]
SeqPtr(p) == [tag |-> "sequence", obj_p |-> p]

Value == {Dud} \cup {Bool(FALSE), Bool(TRUE)}
         \cup [tag : {"int32"}, scalar_v : Ints]
         \cup [tag : {"flt64"}, dbl_v : Doubles]
         \cup [tag : {"val_ref"}, fv_p : ItemPtr]
         \cup [tag : {"sequence"}, obj_p : ObjectPtr]

IsRef(v) == v.tag = "val_ref"
IsSeq(v) == v.tag = "sequence"

\* The explicit conversion to bool: a reference is never truthy, whatever it refers to.
Truthy(v) ==
  \/ v.tag \in {"boolean", "int32"} /\ v.scalar_v # 0
  \/ v.tag = "flt64" /\ v.dbl_v # "zero"

--------------------------------------------------------------------------------
\* The arithmetic operators

Wrap(n) == ((n - IntMin) % (2 * (IntMax + 1))) + IntMin

AbsVal(n) == IF n < 0 THEN -n ELSE n
TruncDiv(a, b) ==
  LET q == AbsVal(a) \div AbsVal(b) IN IF (a < 0) = (b < 0) THEN q ELSE -q
TruncMod(a, b) == a - b * TruncDiv(a, b)

IntArithWide(op, a, b) ==    \* a slip: an int that does not wrap around
  CASE op = "mul" -> Int32(a * b)
    [] op = "add" -> Int32(a + b)
    [] op = "sub" -> Int32(a - b)
    [] OTHER -> Dud

IntArith(op, a, b) ==
  CASE op = "mul" -> Int32(Wrap(a * b))
    [] op = "add" -> Int32(Wrap(a + b))
    [] op = "sub" -> Int32(Wrap(a - b))
    [] op = "div" -> IF b = 0 THEN Dud ELSE Int32(Wrap(TruncDiv(a, b)))
    [] op = "mod" -> IF b = 0 THEN Dud ELSE Int32(Wrap(TruncMod(a, b)))

\* The possible results on two doubles; there is no case for % on doubles.
FltArith(op, a, b) ==
  CASE op \in {"add", "sub"} /\ "zero" \in {a, b} ->
         {Flt64(IF a = b THEN "zero" ELSE "nonzero")}
    [] op = "mul" /\ a = "zero" /\ b = "zero" -> {Flt64("zero")}
    [] op = "div" /\ b = "zero" -> {Dud}
    [] op = "mod" -> {Dud}
    [] OTHER -> {Flt64(z) : z \in Doubles}

\* What lhs op rhs may yield: a dud when the tags differ or have no case.
Arith(op, a, b) ==
  CASE a.tag = b.tag /\ a.tag = "int32" -> {IntArith(op, a.scalar_v, b.scalar_v)}
    [] a.tag = b.tag /\ a.tag = "flt64" -> FltArith(op, a.dbl_v, b.dbl_v)
    [] OTHER -> {Dud}

\* The quotient that does not fit an int: the division instruction traps.
ArithTraps(op, a, b) ==
  /\ op \in {"div", "mod"}
  /\ a.tag = "int32" /\ b.tag = "int32"
  /\ a.scalar_v = IntMin /\ b.scalar_v = -1

--------------------------------------------------------------------------------
\* The comparison operators

IntCompare(op, a, b) ==
  CASE op = "equ" -> a = b
    [] op = "lt" -> a < b
    [] op = "gt" -> a > b
    [] op = "lte" -> a <= b
    [] op = "gte" -> a >= b

FltCompare(op, a, b) ==
  CASE a = "zero" /\ b = "zero" -> {op \in {"equ", "lte", "gte"}}
    [] op = "equ" /\ a # b -> {FALSE}
    [] OTHER -> BOOLEAN

\* Everything but the scalars, and every pair of different tags, compares false;
\* only == has a case for booleans.
Holds(op, a, b) ==
  CASE a.tag = b.tag /\ a.tag = "int32" -> {IntCompare(op, a.scalar_v, b.scalar_v)}
    [] a.tag = b.tag /\ a.tag = "flt64" -> FltCompare(op, a.dbl_v, b.dbl_v)
    [] a.tag = b.tag /\ a.tag = "boolean" -> {op = "equ" /\ a.scalar_v = b.scalar_v}
    [] OTHER -> {FALSE}

\* != is the negation of ==.
Compare(op, a, b) ==
  IF op = "neq" THEN {~h : h \in Holds("equ", a, b)} ELSE Holds(op, a, b)

================================================================================
