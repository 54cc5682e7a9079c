------------------------------- MODULE EmitterProofs -------------------------------
(***************************************************************************)
(* What the emitter makes of any program whose marks nest: code that keeps *)
(* the convention of the engine, whose jumps are all patched, and that is  *)
(* what its steps mean one by one.  Also: in which order it takes the      *)
(* blocks of a graph, and that the two forms of the metadata word agree.   *)
(* The argument has four parts: a step (AnyStep), the steps of a function  *)
(* (StepsMakeChunk), one function after others (EmittedKeepsConvention),   *)
(* and a program, by the invariant EmissionInv.  (ValueProofs is here for  *)
(* its induction on the naturals.)                                         *)
(***************************************************************************)
EXTENDS Emission, ValueProofs, FiniteSetTheorems

(***************************************************************************)
(* A mode fits the four bits it has.                                       *)
(***************************************************************************)
LEMMA ModeFits ==
  ASSUME NEW a \in ArgModes
  PROVE  ModeNumber(a) \in 0 .. 15
BY DEF ArgModes, ModeNumber

(***************************************************************************)
(* The engine's masks (vm.cpp) take out of a metadata word the modes and   *)
(* the arity that encode_metadata (emitter.hpp) put into it, whatever the  *)
(* modes are.                                                              *)
(***************************************************************************)
THEOREM MasksUndoEncoding == ModesRoundTrip
<1> SUFFICES ASSUME NEW a \in ArgModes, NEW b \in ArgModes, NEW c \in ArgModes
             PROVE  /\ SameMode(FirstField(Encode1(a)), a) /\ Arity(Encode1(a)) = 1
                    /\ SameMode(FirstField(Encode2(a, b)), a)
                    /\ SameMode(SecondField(Encode2(a, b)), b)
                    /\ Arity(Encode2(a, b)) = 2
                    /\ SameMode(FirstField(Encode3(a, b, c)), a)
                    /\ SameMode(SecondField(Encode3(a, b, c)), b)
                    /\ SameMode(ThirdField(Encode3(a, b, c)), c)
                    /\ Arity(Encode3(a, b, c)) = 3
  BY DEF ModesRoundTrip
<1> DEFINE x == ModeNumber(a)
           y == ModeNumber(b)
           z == ModeNumber(c)
<1>1. x \in 0 .. 15 /\ y \in 0 .. 15 /\ z \in 0 .. 15
  BY ModeFits
<1> HIDE DEF x, y, z
<1>2. Encode1(a) = 1 + 4 * x
  BY DEF Encode1, x
<1>3. Encode2(a, b) = 2 + 4 * x + 64 * y
  BY DEF Encode2, x, y
<1>4. Encode3(a, b, c) = 3 + 4 * x + 64 * (y + 16 * z) /\ y + 16 * z \in Nat
  BY <1>1 DEF Encode3, x, y, z
<1>5. FirstField(Encode1(a)) = x /\ Arity(Encode1(a)) = 1
  BY <1>1, <1>2 DEF FirstField, Arity
<1>6. FirstField(Encode2(a, b)) = x /\ SecondField(Encode2(a, b)) = y /\ Arity(Encode2(a, b)) = 2
  <2>1. Encode2(a, b) % 4 = 2
    BY <1>1, <1>3
  <2>2. Encode2(a, b) \div 4 = x + 16 * y /\ (x + 16 * y) % 16 = x
    BY <1>1, <1>3
  <2>3. Encode2(a, b) \div 64 = y /\ y % 16 = y
    BY <1>1, <1>3
  <2>4. QED
    BY <2>1, <2>2, <2>3 DEF FirstField, SecondField, Arity
<1>7. /\ FirstField(Encode3(a, b, c)) = x /\ SecondField(Encode3(a, b, c)) = y
      /\ Arity(Encode3(a, b, c)) = 3
  <2>1. Encode3(a, b, c) % 4 = 3
    BY <1>1, <1>4
  <2>2. Encode3(a, b, c) \div 4 = x + 16 * (y + 16 * z) /\ (x + 16 * (y + 16 * z)) % 16 = x
    BY <1>1, <1>4
  <2>3. Encode3(a, b, c) \div 64 = y + 16 * z /\ (y + 16 * z) % 16 = y
    BY <1>1, <1>4
  <2>4. QED
    BY <2>1, <2>2, <2>3 DEF FirstField, SecondField, Arity
<1>8. ThirdField(Encode3(a, b, c)) = z
  <2>1. Encode3(a, b, c) \div 1024 = z
    BY <1>1, <1>4
  <2>2. QED
    BY <1>1, <2>1 DEF ThirdField
<1>9. QED
  BY <1>5, <1>6, <1>7, <1>8 DEF SameMode, x, y, z

--------------------------------------------------------------------------------
\* The emitter in the middle of a chunk

Code == [op : Opcodes, args : [1 .. 3 -> Nat], metadata : Nat]
OpenIf == [check_ip : Nat, alt_ip : Nat \cup {-1}]
OpenLoop == [brk_ips : SUBSET Nat, cont_ips : SUBSET Nat, start_ip : Nat, check_ip : Nat]
Statuses == {"begun", "checked", "alternative"}

\* An emitter that has emitted the chunks before, and works on chunk c
NotCrashed == FALSE
EmitterWith(chunks, ifs, loops) ==
  [chunks |-> chunks, active_ifs |-> ifs, active_loops |-> loops, crashed |-> NotCrashed]
Emitting(before, c, ifs, loops) == EmitterWith(Append(before, c), ifs, loops)

IsAt(c, ip, op) == ip + 1 \in DOMAIN c /\ c[ip + 1].op = op

\* There is a nop at ip, or one is due, after step s.
NopAt(c, ip, s) ==
  IsAt(c, ip, "nop") \/ (ip = Len(c) /\ s.op \in {"meta_begin_while", "meta_mark_if_else_alt"})

IfTracked(c, cond, status, s) ==
  /\ status # "begun" => IsAt(c, cond.check_ip, "jump_else")
  /\ status = "alternative" => IsAt(c, cond.alt_ip, "jump") /\ NopAt(c, cond.alt_ip + 1, s)
  /\ status # "alternative" => cond.alt_ip = -1

LoopTracked(c, loop, status, s) ==
  /\ NopAt(c, loop.start_ip, s)
  /\ status = "checked" => IsAt(c, loop.check_ip, "jump_else")
  /\ \A ip \in loop.brk_ips \cup loop.cont_ips : IsAt(c, ip, "jump")

\* The jump at ip will be patched when the if or loop ends.
AwaitsIf(cond, status, ip) ==
  \/ status # "begun" /\ ip = cond.check_ip
  \/ status = "alternative" /\ ip = cond.alt_ip
AwaitsLoop(loop, status, ip) ==
  \/ status = "checked" /\ ip = loop.check_ip
  \/ ip \in loop.brk_ips \cup loop.cont_ips
Awaits(ifs, loops, open, ip) ==
  \/ \E k \in 1 .. Len(ifs) : AwaitsIf(ifs[k], open.ifs[k], ip)
  \/ \E k \in 1 .. Len(loops) : AwaitsLoop(loops[k], open.loops[k], ip)

IsJump(i) == i.op \in {"jump", "jump_else"}
Lands(c, i) == IsAt(c, JumpTarget(i), "nop")

CallsMoved(c) ==
  \A n \in 1 .. Len(c) :
    /\ c[n].op # "jump_if"
    /\ HasArguments(c[n]) =>
         n > 1 /\ c[n - 1].op = "mov" /\ c[n - 1].args[1] >= c[n].args[2] - 1

Opcode(s) == IF s.form = "TACUnary" /\ s.op = "nop" THEN "mov" ELSE s.op

\* The last instruction is that of step s, if s is no mark.
LastIs(c, open, s) ==
  \/ IsMeta(s)
  \/ c = << >> /\ s = NopStep /\ open = NoneOpen
  \/ /\ c # << >>
     /\ c[Len(c)].op = Opcode(s)
     /\ s.form = "TACUnary" /\ s.op = "nop" => c[Len(c)].args[1] = s.args[1].id

(***************************************************************************)
(* After step s the open ifs and loops know where their jumps are, and     *)
(* every other jump but one that was just written leads to a nop.          *)
(***************************************************************************)
Typed(c, ifs, loops, open) ==
  /\ c \in Seq(Code) /\ ifs \in Seq(OpenIf) /\ loops \in Seq(OpenLoop)
  /\ open \in [ifs : Seq(Statuses), loops : Seq(Statuses)]
  /\ Len(open.ifs) = Len(ifs) /\ Len(open.loops) = Len(loops)

Tracked(c, ifs, loops, open, s) ==
  /\ \A k \in 1 .. Len(ifs) : IfTracked(c, ifs[k], open.ifs[k], s)
  /\ \A k \in 1 .. Len(loops) : LoopTracked(c, loops[k], open.loops[k], s)

JumpsKnown(c, ifs, loops, open, s) ==
  \A n \in 1 .. Len(c) :
    IsJump(c[n]) =>
      \/ Lands(c, c[n])
      \/ Awaits(ifs, loops, open, n - 1)
      \/ n = Len(c) /\ s.op \in {"jump", "jump_else"}

Tracks(c, ifs, loops, open, s) ==
  /\ Typed(c, ifs, loops, open)
  /\ Tracked(c, ifs, loops, open, s)
  /\ JumpsKnown(c, ifs, loops, open, s)
  /\ CallsMoved(c)
  /\ LastIs(c, open, s)

--------------------------------------------------------------------------------
\* Stacks

\* What the top of a non-empty stack, and the rest of it, are.
LEMMA StackFacts ==
  ASSUME NEW S, NEW stack \in Seq(S), stack # << >>
  PROVE  /\ Len(stack) \in Nat \ {0} /\ Len(stack) \in DOMAIN stack
         /\ Inner(stack) = stack[Len(stack)] /\ Inner(stack) \in S
         /\ Outer(stack) \in Seq(S) /\ Len(Outer(stack)) = Len(stack) - 1
         /\ \A k \in 1 .. Len(stack) - 1 : Outer(stack)[k] = stack[k]
<1>1. Len(stack) \in Nat \ {0} /\ DOMAIN stack = 1 .. Len(stack)
  BY EmptySeq, LenProperties
<1>2. \A k \in 1 .. Len(stack) - 1 : stack[k] \in S
  BY <1>1, ElementOfSeq
<1> DEFINE n == Len(stack)
<1> HIDE DEF n
<1>3. /\ SubSeq(stack, 1, n - 1) \in Seq(S)
      /\ Len(SubSeq(stack, 1, n - 1)) = IF 1 <= n - 1 THEN n - 1 - 1 + 1 ELSE 0
      /\ \A k \in 1 .. n - 1 - 1 + 1 : SubSeq(stack, 1, n - 1)[k] = stack[1 + k - 1]
  BY <1>1, <1>2, SubSeqProperties DEF n
<1>4. /\ n \in Nat \ {0}
      /\ Len(SubSeq(stack, 1, n - 1)) = n - 1
      /\ \A k \in 1 .. n - 1 : SubSeq(stack, 1, n - 1)[k] = stack[k]
  BY <1>1, <1>3 DEF n
<1> QED
  BY <1>1, <1>3, <1>4, ElementOfSeq DEF n, Inner, Outer

\* Changing the top of a stack changes nothing under it.
LEMMA NowFacts ==
  ASSUME NEW S, NEW stack \in Seq(S), stack # << >>, NEW x \in S
  PROVE  /\ Now(stack, x) \in Seq(S) /\ Len(Now(stack, x)) = Len(stack)
         /\ Now(stack, x)[Len(stack)] = x
         /\ \A k \in 1 .. Len(stack) - 1 : Now(stack, x)[k] = stack[k]
<1>1. /\ Outer(stack) \in Seq(S) /\ Len(Outer(stack)) = Len(stack) - 1
      /\ Len(stack) \in Nat \ {0}
      /\ \A k \in 1 .. Len(stack) - 1 : Outer(stack)[k] = stack[k]
  BY StackFacts
<1>2. /\ Append(Outer(stack), x) \in Seq(S)
      /\ Len(Append(Outer(stack), x)) = Len(Outer(stack)) + 1
      /\ \A k \in 1 .. Len(Outer(stack)) : Append(Outer(stack), x)[k] = Outer(stack)[k]
      /\ Append(Outer(stack), x)[Len(Outer(stack)) + 1] = x
  BY <1>1, AppendProperties
<1> QED
  BY <1>1, <1>2 DEF Now

--------------------------------------------------------------------------------
\* The chunk that is being written is the last one.

\* Replacing the last element is appending another one instead.
LEMMA LastReplaced ==
  ASSUME NEW S, NEW s \in Seq(S), NEW x \in S, NEW y \in S
  PROVE  [Append(s, x) EXCEPT ![Len(s) + 1] = y] = Append(s, y)
<1> DEFINE n == Len(s) + 1
           t == Append(s, x)
           u == Append(s, y)
<1>1. t \in Seq(S) /\ Len(t) = n /\ n \in Nat /\ n \in 1 .. Len(t) /\ \A j \in 1 .. Len(s) : t[j] = s[j]
  BY AppendProperties, LenProperties
<1>2. u \in Seq(S) /\ Len(u) = n /\ u[n] = y /\ \A j \in 1 .. Len(s) : u[j] = s[j]
  BY AppendProperties, LenProperties
<1>3. Len(s) \in Nat
  BY LenProperties
<1> HIDE DEF t, u
<1>4. /\ [t EXCEPT ![n] = y] \in Seq(S)
      /\ Len([t EXCEPT ![n] = y]) = Len(t)
      /\ \A j \in 1 .. Len(t) : [t EXCEPT ![n] = y][j] = IF j = n THEN y ELSE t[j]
  BY <1>1, ExceptSeq
<1>5. \A j \in 1 .. n : [t EXCEPT ![n] = y][j] = u[j]
  BY <1>1, <1>2, <1>3, <1>4
<1> DEFINE v == [t EXCEPT ![n] = y]
<1>6. v \in Seq(S) /\ Len(v) = n /\ \A j \in 1 .. n : v[j] = u[j]
  BY <1>1, <1>4, <1>5
<1> HIDE DEF v
<1>7. v = u
  BY <1>2, <1>6, SeqEqual
<1> QED
  BY <1>7 DEF v, t, u

\* The fields of an emitter, and below: what setting one of them makes of it.
LEMMA FieldsWith ==
  ASSUME NEW chunks, NEW ifs, NEW loops, NEW es, es = EmitterWith(chunks, ifs, loops)
  PROVE  es.active_ifs = ifs /\ es.active_loops = loops /\ es.crashed = NotCrashed
BY DEF EmitterWith

\* Setting the open ifs of an emitter leaves the rest of it.
LEMMA IfsChangedWith ==
  ASSUME NEW chunks, NEW ifs, NEW loops, NEW es, es = EmitterWith(chunks, ifs, loops), NEW x
  PROVE  [es EXCEPT !.active_ifs = x] = EmitterWith(chunks, x, loops)
BY DEF EmitterWith

\* Setting the chunks of an emitter leaves the rest of it.
LEMMA ChunksChangedWith ==
  ASSUME NEW chunks, NEW ifs, NEW loops, NEW es, es = EmitterWith(chunks, ifs, loops), NEW x
  PROVE  es.chunks = chunks /\ [es EXCEPT !.chunks = x] = EmitterWith(x, ifs, loops)
BY DEF EmitterWith

\* Setting the open loops of an emitter leaves the rest of it.
LEMMA LoopsChangedWith ==
  ASSUME NEW chunks, NEW ifs, NEW loops, NEW es, es = EmitterWith(chunks, ifs, loops), NEW x
  PROVE  [es EXCEPT !.active_loops = x] = EmitterWith(chunks, ifs, x)
BY DEF EmitterWith

\* The fields of an emitter that is writing chunk c.
LEMMA EmittingFields ==
  ASSUME NEW before, NEW c, NEW ifs, NEW loops, NEW es, es = Emitting(before, c, ifs, loops)
  PROVE  es.active_ifs = ifs /\ es.active_loops = loops /\ es.crashed = NotCrashed
<1> DEFINE chunks == Append(before, c)
<1>1. es = EmitterWith(chunks, ifs, loops)
  BY DEF Emitting
<1> HIDE DEF chunks
<1> QED
  BY <1>1, FieldsWith

\* Setting the open ifs leaves the chunk being written, and the rest.
LEMMA IfsChanged ==
  ASSUME NEW before, NEW c, NEW ifs, NEW loops, NEW es, es = Emitting(before, c, ifs, loops),
         NEW x
  PROVE  [es EXCEPT !.active_ifs = x] = Emitting(before, c, x, loops)
<1> DEFINE chunks == Append(before, c)
<1>1. es = EmitterWith(chunks, ifs, loops) /\ Emitting(before, c, x, loops) = EmitterWith(chunks, x, loops)
  BY DEF Emitting
<1> HIDE DEF chunks
<1>2. [es EXCEPT !.active_ifs = x] = EmitterWith(chunks, x, loops)
  BY <1>1, IfsChangedWith
<1> QED
  BY <1>1, <1>2

\* Setting the open loops leaves the chunk being written, and the rest.
LEMMA LoopsChanged ==
  ASSUME NEW before, NEW c, NEW ifs, NEW loops, NEW es, es = Emitting(before, c, ifs, loops),
         NEW x
  PROVE  [es EXCEPT !.active_loops = x] = Emitting(before, c, ifs, x)
<1> DEFINE chunks == Append(before, c)
<1>1. es = EmitterWith(chunks, ifs, loops) /\ Emitting(before, c, ifs, x) = EmitterWith(chunks, ifs, x)
  BY DEF Emitting
<1> HIDE DEF chunks
<1>2. [es EXCEPT !.active_loops = x] = EmitterWith(chunks, ifs, x)
  BY <1>1, LoopsChangedWith
<1> QED
  BY <1>1, <1>2

\* What an emitter is writing, and what it is after the chunk was replaced.
LEMMA EmittingFacts ==
  ASSUME NEW before \in Seq(Seq(Code)), NEW c \in Seq(Code), NEW ifs, NEW loops
  PROVE  /\ Chunk(Emitting(before, c, ifs, loops)) = c
         /\ \A d \in Seq(Code) :
              WithChunk(Emitting(before, c, ifs, loops), d) = Emitting(before, d, ifs, loops)
<1> DEFINE es == Emitting(before, c, ifs, loops)
           n == Len(before) + 1
<1>1. Len(Append(before, c)) = n /\ Append(before, c)[n] = c
  BY AppendProperties, LenProperties
<1>2. es.chunks = Append(before, c)
  BY DEF Emitting, EmitterWith
<1>3. Chunk(es) = c
  BY <1>1, <1>2 DEF Chunk
<1>4. ASSUME NEW d \in Seq(Code)
      PROVE  WithChunk(es, d) = Emitting(before, d, ifs, loops)
  <2>1. [Append(before, c) EXCEPT ![n] = d] = Append(before, d)
    BY LastReplaced
  <2>2. WithChunk(es, d) = [es EXCEPT !.chunks = [Append(before, c) EXCEPT ![n] = d]]
    BY <1>1, <1>2 DEF WithChunk
  <2> HIDE DEF n
  <2> QED
    BY <2>1, <2>2 DEF Emitting, EmitterWith
<1> QED
  BY <1>3, <1>4

\* Writing an instruction adds it at the end of the chunk and touches no other.
LEMMA WriteFacts ==
  ASSUME NEW before \in Seq(Seq(Code)), NEW c \in Seq(Code), NEW ifs, NEW loops, NEW i \in Code
  PROVE  /\ Write(Emitting(before, c, ifs, loops), i) = Emitting(before, Append(c, i), ifs, loops)
         /\ Append(c, i) \in Seq(Code) /\ Len(Append(c, i)) = Len(c) + 1
         /\ Append(c, i)[Len(c) + 1] = i
         /\ \A n \in 1 .. Len(c) : Append(c, i)[n] = c[n]
         /\ Len(c) \in Nat
<1>1. /\ Append(c, i) \in Seq(Code) /\ Len(Append(c, i)) = Len(c) + 1
      /\ Append(c, i)[Len(c) + 1] = i
      /\ \A n \in 1 .. Len(c) : Append(c, i)[n] = c[n]
  BY AppendProperties
<1>2. Len(c) \in Nat
  BY LenProperties
<1>3. Write(Emitting(before, c, ifs, loops), i) = Emitting(before, Append(c, i), ifs, loops)
  <2> DEFINE es == Emitting(before, c, ifs, loops)
  <2>1. Chunk(es) = c /\ WithChunk(es, Append(c, i)) = Emitting(before, Append(c, i), ifs, loops)
    <3> DEFINE d == Append(c, i)
    <3>1. d \in Seq(Code)
      BY <1>1
    <3> HIDE DEF d
    <3>2. Chunk(es) = c /\ WithChunk(es, d) = Emitting(before, d, ifs, loops)
      BY <3>1, EmittingFacts
    <3> QED
      BY <3>2 DEF d
  <2> HIDE DEF es
  <2>2. Write(es, i) = WithChunk(es, Append(c, i))
    BY <2>1 DEF Write
  <2> QED
    BY <2>1, <2>2 DEF es
<1> QED
  BY <1>1, <1>2, <1>3

--------------------------------------------------------------------------------
\* Steps that are instructions

(***************************************************************************)
(* An instruction that is written moves nothing that is tracked; if a nop  *)
(* is due it is that nop.                                                  *)
(***************************************************************************)
LEMMA InstructionTracked ==
  ASSUME NEW c, NEW ifs, NEW loops, NEW open, NEW s, NEW t, NEW i \in Code,
         Tracks(c, ifs, loops, open, s), Neighbours(s, t), ~IsMeta(t),
         t.op \notin MetaOps,
         i.op = Opcode(t), i.op # "jump_if",
         t.form = "TACUnary" /\ t.op = "nop" => i.args[1] = t.args[1].id,
         HasArguments(i) => PassesArguments(t) /\ i.args[2] = t.args[2].id
  PROVE  Tracks(Append(c, i), ifs, loops, open, t)
<1> DEFINE d == Append(c, i)
           len == Len(c)
<1>1. c \in Seq(Code) /\ DOMAIN c = 1 .. len /\ len \in Nat
  BY LenProperties DEF Tracks, Typed
<1>2. /\ d \in Seq(Code) /\ Len(d) = len + 1 /\ d[len + 1] = i /\ d # << >>
      /\ \A n \in 1 .. len : d[n] = c[n]
  BY <1>1, AppendProperties
<1>3. DOMAIN d = 1 .. len + 1
  BY <1>2, LenProperties
<1> HIDE DEF d, len
<1>4. ASSUME NEW ip, NEW op, IsAt(c, ip, op)
      PROVE  IsAt(d, ip, op)
  BY <1>1, <1>2, <1>3, <1>4 DEF IsAt
<1>5. ASSUME NEW ip, NopAt(c, ip, s)
      PROVE  IsAt(d, ip, "nop")
  <2>1. CASE IsAt(c, ip, "nop")
    BY <2>1, <1>4
  <2>2. CASE ip = len /\ s.op \in {"meta_begin_while", "meta_mark_if_else_alt"}
    <3>1. t = NopStep
      BY <2>2 DEF Neighbours
    <3>2. i.op = "nop"
      BY <3>1 DEF Opcode, NopStep, OperNonary
    <3> QED
      BY <2>2, <3>2, <1>1, <1>2, <1>3 DEF IsAt
  <2> QED
    BY <1>5, <2>1, <2>2 DEF NopAt, len
<1>6. Typed(d, ifs, loops, open)
  BY <1>2 DEF Tracks, Typed
<1>7. Tracked(d, ifs, loops, open, t)
  <2>1. ASSUME NEW k \in 1 .. Len(ifs)
        PROVE  IfTracked(d, ifs[k], open.ifs[k], t)
    <3>1. IfTracked(c, ifs[k], open.ifs[k], s)
      BY DEF Tracks, Tracked
    <3> QED
      BY <3>1, <1>4, <1>5 DEF IfTracked, NopAt
  <2>2. ASSUME NEW k \in 1 .. Len(loops)
        PROVE  LoopTracked(d, loops[k], open.loops[k], t)
    <3>1. LoopTracked(c, loops[k], open.loops[k], s)
      BY DEF Tracks, Tracked
    <3> QED
      BY <3>1, <1>4, <1>5 DEF LoopTracked, NopAt
  <2> QED
    BY <2>1, <2>2 DEF Tracked
<1>8. JumpsKnown(d, ifs, loops, open, t)
  <2> SUFFICES ASSUME NEW n \in 1 .. len + 1, IsJump(d[n])
               PROVE  \/ Lands(d, d[n])
                      \/ Awaits(ifs, loops, open, n - 1)
                      \/ n = len + 1 /\ t.op \in {"jump", "jump_else"}
    BY <1>2 DEF JumpsKnown
  <2>1. CASE n = len + 1
    BY <2>1, <1>2 DEF IsJump, Opcode
  <2>2. CASE n \in 1 .. len
    <3>1. d[n] = c[n] /\ s.op \notin {"jump", "jump_else"}
      BY <2>2, <1>2 DEF Neighbours, JumpMarks, JumpElseMarks, MetaOps
    <3>2. Lands(c, c[n]) \/ Awaits(ifs, loops, open, n - 1)
      BY <2>2, <3>1 DEF Tracks, JumpsKnown, len
    <3> QED
      BY <3>1, <3>2, <1>4 DEF Lands
  <2> QED
    BY <2>1, <2>2, <1>1
<1>9. CallsMoved(d)
  <2> SUFFICES ASSUME NEW n \in 1 .. len + 1
               PROVE  /\ d[n].op # "jump_if"
                      /\ HasArguments(d[n]) =>
                           n > 1 /\ d[n - 1].op = "mov" /\ d[n - 1].args[1] >= d[n].args[2] - 1
    BY <1>2 DEF CallsMoved
  <2>1. CASE n \in 1 .. len
    <3>1. d[n] = c[n] /\ (n > 1 => d[n - 1] = c[n - 1])
      BY <2>1, <1>1, <1>2
    <3> QED
      BY <2>1, <3>1 DEF Tracks, CallsMoved, len
  <2>2. CASE n = len + 1 /\ HasArguments(i)
    <3>1. MovesLast(s, i.args[2])
      BY <2>2 DEF Neighbours
    <3>2. c # << >> /\ c[len].op = "mov" /\ c[len].args[1] = s.args[1].id
      BY <3>1 DEF MovesLast, Tracks, LastIs, IsMeta, NopStep, OperNonary, Opcode, len
    <3>3. len > 0
      BY <3>2, <1>1, EmptySeq DEF len
    <3>4. d[n - 1] = c[len] /\ d[n] = i
      BY <2>2, <3>3, <1>1, <1>2
    <3> QED
      BY <2>2, <3>1, <3>2, <3>3, <3>4, <1>1 DEF MovesLast
  <2>3. CASE n = len + 1 /\ ~HasArguments(i)
    BY <2>3, <1>2
  <2> QED
    BY <2>1, <2>2, <2>3, <1>1
<1>10. LastIs(d, open, t)
  BY <1>2 DEF LastIs
<1> QED
  BY <1>6, <1>7, <1>8, <1>9, <1>10 DEF Tracks, d

\* The overloads of encode_instruction make instructions out of any addresses.
LEMMA MadeCode ==
  ASSUME NEW op \in Opcodes, NEW a, NEW b, NEW c,
         \A x \in {a, b, c} : x.value \in Nat /\ x.tag \in ArgModes
  PROVE  {Emit0(op), Emit1(op, a), Emit2(op, a, b), Emit3(op, a, b, c)} \subseteq Code
<1>1. ModeNumber(a.tag) \in Nat /\ ModeNumber(b.tag) \in Nat /\ ModeNumber(c.tag) \in Nat
  BY ModeFits
<1>2. Encode1(a.tag) \in Nat /\ Encode2(a.tag, b.tag) \in Nat /\ Encode3(a.tag, b.tag, c.tag) \in Nat
  BY <1>1 DEF Encode1, Encode2, Encode3
<1>3. \A x, y, z \in Nat : <<x, y, z>> \in [1 .. 3 -> Nat]
  OBVIOUS
<1> QED
  BY <1>2, <1>3 DEF Emit0, Emit1, Emit2, Emit3, Code

\* translate_value_aa gives an argument of the mode and the number of the address.
LEMMA Translated ==
  ASSUME NEW aa, IsAddress(aa)
  PROVE  PseudoArg(aa).value = aa.id /\ PseudoArg(aa).value \in Nat /\ PseudoArg(aa).tag \in ArgModes
BY DEF IsAddress, PseudoArg, R, C, I, ArgModes

\* What emit_oper_binary and its like write: the operation and the ids of its operands.
LEMMA PlainInstruction ==
  ASSUME NEW t, IsStep(t), ~IsMeta(t), t.form # "TACUnary"
  PROVE  \E i \in Code :
           /\ \A es : EmitPlain(es, t) = Write(es, i)
           /\ i.op = t.op
           /\ t.form = "OperBinary" => i.args[2] = t.args[2].id
<1> DEFINE arg(k) == PseudoArg(t.args[k])
<1>1. t.op \in Opcodes
  BY DEF IsStep, HasForm, IsMeta, Opcodes
<1>2. ASSUME NEW k \in 1 .. Len(t.args)
      PROVE  arg(k).value = t.args[k].id /\ arg(k).value \in Nat /\ arg(k).tag \in ArgModes
  BY Translated DEF IsStep
<1> HIDE DEF arg
<1>3. CASE Len(t.args) = 0
  <2>1. \A es : EmitPlain(es, t) = Write(es, Emit0(t.op))
    BY <1>3 DEF EmitPlain
  <2>2. Emit0(t.op) \in Code
    BY <1>1, MadeCode DEF Code, Emit0
  <2> QED
    BY <1>3, <2>1, <2>2 DEF Emit0, IsStep, HasForm
<1>4. CASE Len(t.args) = 1
  <2>1. \A es : EmitPlain(es, t) = Write(es, Emit1(t.op, arg(1)))
    BY <1>4 DEF EmitPlain, arg
  <2>2. Emit1(t.op, arg(1)) \in Code
    BY <1>1, <1>2, <1>4, MadeCode
  <2> QED
    BY <1>4, <2>1, <2>2 DEF Emit1, IsStep, HasForm
<1>5. CASE Len(t.args) = 2
  <2>1. \A es : EmitPlain(es, t) = Write(es, Emit2(t.op, arg(1), arg(2)))
    BY <1>5 DEF EmitPlain, arg
  <2>2. Emit2(t.op, arg(1), arg(2)) \in Code
    BY <1>1, <1>2, <1>5, MadeCode
  <2>3. Emit2(t.op, arg(1), arg(2)).args[2] = t.args[2].id
    BY <1>2, <1>5 DEF Emit2
  <2> QED
    BY <2>1, <2>2, <2>3 DEF Emit2
<1>6. CASE Len(t.args) = 3
  <2>1. \A es : EmitPlain(es, t) = Write(es, Emit3(t.op, arg(1), arg(2), arg(3)))
    BY <1>6 DEF EmitPlain, arg
  <2>2. Emit3(t.op, arg(1), arg(2), arg(3)) \in Code
    BY <1>1, <1>2, <1>6, MadeCode
  <2> QED
    BY <1>6, <2>1, <2>2 DEF Emit3, IsStep, HasForm
<1> QED
  BY <1>3, <1>4, <1>5, <1>6 DEF IsStep, HasForm

(***************************************************************************)
(* The instructions that a step makes depend on nothing but the step.      *)
(***************************************************************************)
LEMMA InstructionsOf ==
  ASSUME NEW t, IsStep(t), ~IsMeta(t)
  PROVE  \E code \in Seq(Code) :
           \A ifs, loops : \A before \in Seq(Seq(Code)), c \in Seq(Code) :
             EmitStep(Emitting(before, c, ifs, loops), t) = Emitting(before, c \o code, ifs, loops)
<1>1. ASSUME NEW before \in Seq(Seq(Code)), NEW c \in Seq(Code), NEW ifs, NEW loops,
             NEW i \in Code, NEW es, es = Emitting(before, c, ifs, loops)
      PROVE  /\ Write(es, i) = Emitting(before, c \o <<i>>, ifs, loops)
             /\ ~es.crashed
  <2>1. Write(es, i) = Emitting(before, Append(c, i), ifs, loops)
    BY <1>1, WriteFacts
  <2>2. Append(c, i) = c \o <<i>>
    BY AppendIsConcat
  <2>3. es.crashed = NotCrashed
    BY <1>1, EmittingFields
  <2> QED
    BY <2>1, <2>2, <2>3 DEF NotCrashed
<1>2. CASE t.form # "TACUnary"
  <2>1. PICK i \in Code : \A es : EmitPlain(es, t) = Write(es, i)
    BY <1>2, PlainInstruction
  <2>2. ASSUME NEW before \in Seq(Seq(Code)), NEW c \in Seq(Code), NEW ifs, NEW loops
        PROVE  EmitStep(Emitting(before, c, ifs, loops), t) = Emitting(before, c \o <<i>>, ifs, loops)
    <3> DEFINE es == Emitting(before, c, ifs, loops)
    <3>1. ~es.crashed /\ Write(es, i) = Emitting(before, c \o <<i>>, ifs, loops)
      BY <1>1
    <3>2. EmitStep(es, t) = EmitPlain(es, t)
      BY <1>2, <3>1 DEF EmitStep
    <3> QED
      BY <2>1, <3>1, <3>2
  <2> DEFINE code == <<i>>
  <2>3. code \in Seq(Code)
    OBVIOUS
  <2>4. ASSUME NEW before \in Seq(Seq(Code)), NEW c \in Seq(Code), NEW ifs, NEW loops
        PROVE  EmitStep(Emitting(before, c, ifs, loops), t) = Emitting(before, c \o code, ifs, loops)
    BY <2>2
  <2> HIDE DEF code
  <2> QED
    BY <2>3, <2>4
<1>3. CASE t.form = "TACUnary"
  <2> DEFINE dest == PseudoArg(t.args[1])
             arg_0 == PseudoArg(t.args[2])
             mov == Emit2("mov", dest, arg_0)
             neg == Emit1("neg", dest)
             one == (t.op = "neg" /\ dest = arg_0)
             code == IF t.op = "nop" THEN <<mov>> ELSE IF one THEN <<neg>> ELSE <<mov>> \o <<neg>>
  <2>1. Len(t.args) = 2 /\ t.op \in {"nop", "neg"}
    BY <1>3 DEF IsStep, HasForm
  <2>2. mov \in Code /\ neg \in Code
    <3>1. /\ dest.value \in Nat /\ dest.tag \in ArgModes
          /\ arg_0.value \in Nat /\ arg_0.tag \in ArgModes
      BY <2>1, Translated DEF IsStep
    <3> QED
      BY <3>1, MadeCode DEF Opcodes
  <2>3. ASSUME NEW es, ~es.crashed
        PROVE  EmitStep(es, t) = IF t.op = "nop" THEN Write(es, mov)
                                 ELSE IF one THEN Write(es, neg) ELSE Write(Write(es, mov), neg)
    BY <1>3, <2>1, <2>3 DEF EmitStep, EmitTACUnary
  <2> HIDE DEF mov, neg, one
  <2>4. <<mov>> \in Seq(Code) /\ <<neg>> \in Seq(Code) /\ <<mov>> \o <<neg>> \in Seq(Code)
    BY <2>2, ConcatProperties
  <2>5. code \in Seq(Code)
    BY <2>4
  <2>6. ASSUME NEW before \in Seq(Seq(Code)), NEW c \in Seq(Code), NEW ifs, NEW loops
        PROVE  EmitStep(Emitting(before, c, ifs, loops), t) = Emitting(before, c \o code, ifs, loops)
    <3> DEFINE es == Emitting(before, c, ifs, loops)
               moved == c \o <<mov>>
    <3>1. /\ ~es.crashed /\ Write(es, mov) = Emitting(before, moved, ifs, loops)
          /\ Write(es, neg) = Emitting(before, c \o <<neg>>, ifs, loops)
      BY <1>1, <2>2
    <3>2. moved \in Seq(Code) /\ moved \o <<neg>> = c \o (<<mov>> \o <<neg>>)
      BY <2>4, ConcatProperties, ConcatAssociative
    <3> HIDE DEF moved
    <3>3. Write(Emitting(before, moved, ifs, loops), neg)
            = Emitting(before, moved \o <<neg>>, ifs, loops)
      BY <1>1, <2>2, <3>2
    <3>4. EmitStep(es, t) = IF t.op = "nop" THEN Write(es, mov)
                            ELSE IF one THEN Write(es, neg) ELSE Write(Write(es, mov), neg)
      BY <2>3, <3>1
    <3> HIDE DEF es
    <3>5. EmitStep(es, t) = Emitting(before, c \o code, ifs, loops)
      BY <3>1, <3>2, <3>3, <3>4 DEF moved
    <3> QED
      BY <3>5 DEF es
  <2> HIDE DEF code
  <2> QED
    BY <2>5, <2>6
<1> QED
  BY <1>2, <1>3

\* So what a step makes in any chunk is what it makes by itself.
LEMMA InstructionAlone ==
  ASSUME NEW t, IsStep(t), ~IsMeta(t), NEW before \in Seq(Seq(Code)), NEW c \in Seq(Code),
         NEW ifs, NEW loops
  PROVE  /\ Alone(t) \in Seq(Code)
         /\ EmitStep(Emitting(before, c, ifs, loops), t) = Emitting(before, c \o Alone(t), ifs, loops)
<1>1. PICK code \in Seq(Code) :
        \A i, l : \A b \in Seq(Seq(Code)), k \in Seq(Code) :
          EmitStep(Emitting(b, k, i, l), t) = Emitting(b, k \o code, i, l)
  BY InstructionsOf
<1>2. << >> \in Seq(Seq(Code)) /\ << >> \in Seq(Code) /\ << >> \o code = code
  BY ConcatEmptySeq
<1>3. [NewEmitter EXCEPT !.chunks = << << >> >>] = Emitting(<< >>, << >>, << >>, << >>)
  <2> DEFINE one == << << >> >>
  <2>1. Append(<< >>, << >>) = one
    OBVIOUS
  <2>2. NewEmitter = EmitterWith(<< >>, << >>, << >>)
    BY DEF NewEmitter, EmitterWith, NotCrashed
  <2> HIDE DEF one
  <2>3. [NewEmitter EXCEPT !.chunks = one] = EmitterWith(one, << >>, << >>)
    BY <2>2, ChunksChangedWith
  <2> QED
    BY <2>1, <2>3 DEF Emitting, one
<1> DEFINE fresh == [NewEmitter EXCEPT !.chunks = << << >> >>]
           empty == << >>
<1>4. Alone(t) = Chunk(EmitStep(fresh, t))
  BY DEF Alone
<1>5. fresh = Emitting(empty, empty, empty, empty) /\ empty \in Seq(Seq(Code)) /\ empty \in Seq(Code)
      /\ empty \o code = code
  BY <1>2, <1>3
<1> HIDE DEF fresh, empty
<1>6. EmitStep(fresh, t) = Emitting(empty, code, empty, empty)
  <2>1. EmitStep(Emitting(empty, empty, empty, empty), t) = Emitting(empty, empty \o code, empty, empty)
    BY <1>1, <1>5
  <2> QED
    BY <2>1, <1>5
<1>7. Chunk(Emitting(empty, code, empty, empty)) = code
  BY <1>5, EmittingFacts
<1>8. Alone(t) = code
  BY <1>4, <1>6, <1>7
<1> QED
  BY <1>1, <1>8

(***************************************************************************)
(* A step that is no mark writes its instruction, or two (emit_tac_unary). *)
(***************************************************************************)
LEMMA InstructionStep ==
  ASSUME NEW before \in Seq(Seq(Code)), NEW c, NEW ifs, NEW loops, NEW open, NEW s, NEW t,
         Tracks(c, ifs, loops, open, s), Neighbours(s, t), IsStep(t), ~IsMeta(t)
  PROVE  \E d : /\ EmitStep(Emitting(before, c, ifs, loops), t) = Emitting(before, d, ifs, loops)
                /\ Tracks(d, ifs, loops, open, t)
<1> DEFINE es == Emitting(before, c, ifs, loops)
<1>1. c \in Seq(Code) /\ ~es.crashed
  <2>1. c \in Seq(Code)
    BY DEF Tracks, Typed
  <2>2. es.crashed = NotCrashed
    BY EmittingFields
  <2> QED
    BY <2>1, <2>2 DEF NotCrashed
<1>2. t.op \notin MetaOps /\ t.op # "jump_if"
  BY DEF IsStep, HasForm, IsMeta, MetaOps
<1>3. CASE t.form # "TACUnary"
  <2>1. EmitStep(es, t) = EmitPlain(es, t)
    BY <1>1, <1>3 DEF EmitStep
  <2>2. PICK i \in Code : /\ EmitPlain(es, t) = Write(es, i)
                          /\ i.op = t.op
                          /\ t.form = "OperBinary" => i.args[2] = t.args[2].id
    BY <1>3, PlainInstruction
  <2>3. Write(es, i) = Emitting(before, Append(c, i), ifs, loops)
    BY <1>1, WriteFacts
  <2>4. HasArguments(i) => PassesArguments(t) /\ i.args[2] = t.args[2].id
    <3> SUFFICES ASSUME HasArguments(i)
                 PROVE  PassesArguments(t) /\ i.args[2] = t.args[2].id
      OBVIOUS
    <3>1. t.op \in {"call", "native_call"} /\ i.args[2] > 0
      BY <2>2 DEF HasArguments
    <3>2. t.form = "OperBinary"
      BY <3>1 DEF IsStep, HasForm, MetaOps
    <3> QED
      BY <2>2, <3>1, <3>2 DEF PassesArguments
  <2>5. Tracks(Append(c, i), ifs, loops, open, t)
    BY <1>2, <1>3, <2>2, <2>4, InstructionTracked DEF Opcode
  <2> QED
    BY <2>1, <2>2, <2>3, <2>5
<1>4. CASE t.form = "TACUnary"
  <2> DEFINE dest == PseudoArg(t.args[1])
             arg_0 == PseudoArg(t.args[2])
             mov == Emit2("mov", dest, arg_0)
             neg == Emit1("neg", dest)
  <2>1. Len(t.args) = 2 /\ t.op \in {"nop", "neg"}
    BY <1>4 DEF IsStep, HasForm
  <2>2. /\ dest.value = t.args[1].id /\ dest.value \in Nat /\ dest.tag \in ArgModes
        /\ arg_0.value \in Nat /\ arg_0.tag \in ArgModes
    BY <2>1, Translated DEF IsStep
  <2>3. mov \in Code /\ neg \in Code
    BY <2>2, MadeCode DEF Opcodes
  <2>4. mov.op = "mov" /\ mov.args[1] = t.args[1].id /\ neg.op = "neg"
    BY <2>2 DEF Emit1, Emit2
  <2>5. /\ t.op = "nop" => EmitStep(es, t) = Write(es, mov)
        /\ t.op = "neg" => EmitStep(es, t) \in {Write(es, neg), Write(Write(es, mov), neg)}
    BY <1>1, <1>4, <2>1 DEF EmitStep, EmitTACUnary
  <2> HIDE DEF dest, arg_0, mov, neg
  <2>6. ~HasArguments(mov) /\ ~HasArguments(neg)
    BY <2>4 DEF HasArguments
  <2>7. CASE t.op = "nop"
    <3>1. Write(es, mov) = Emitting(before, Append(c, mov), ifs, loops)
      BY <1>1, <2>3, WriteFacts
    <3>2. Tracks(Append(c, mov), ifs, loops, open, t)
      BY <1>2, <1>4, <2>3, <2>4, <2>6, <2>7, InstructionTracked DEF Opcode
    <3> QED
      BY <2>5, <2>7, <3>1, <3>2
  <2>8. CASE t.op = "neg" /\ EmitStep(es, t) = Write(es, neg)
    <3>1. Write(es, neg) = Emitting(before, Append(c, neg), ifs, loops)
      BY <1>1, <2>3, WriteFacts
    <3>2. Tracks(Append(c, neg), ifs, loops, open, t)
      BY <1>2, <1>4, <2>3, <2>4, <2>6, <2>8, InstructionTracked DEF Opcode
    <3> QED
      BY <2>8, <3>1, <3>2
  <2>9. CASE t.op = "neg" /\ EmitStep(es, t) = Write(Write(es, mov), neg)
    <3> DEFINE move == TACUnary("nop", t.args[1], t.args[2])
               d == Append(c, mov)
    <3>1. move.form = "TACUnary" /\ move.op = "nop" /\ move.args[1] = t.args[1]
      BY DEF TACUnary
    <3>2. Neighbours(s, move) /\ Neighbours(move, t)
      BY <2>9, <3>1
      DEF Neighbours, JumpMarks, JumpElseMarks, PassesArguments, NopStep, OperNonary
    <3>3. ~IsMeta(move) /\ move.op \notin MetaOps
      BY <3>1 DEF IsMeta, MetaOps
    <3> HIDE DEF move
    <3>4. Tracks(d, ifs, loops, open, move)
      BY <2>3, <2>4, <2>6, <3>1, <3>2, <3>3, InstructionTracked DEF Opcode
    <3>5. Tracks(Append(d, neg), ifs, loops, open, t)
      BY <1>2, <1>4, <2>3, <2>4, <2>6, <2>9, <3>2, <3>4, InstructionTracked DEF Opcode
    <3>6. Write(es, mov) = Emitting(before, d, ifs, loops)
      BY <1>1, <2>3, WriteFacts
    <3>7. d \in Seq(Code)
      BY <3>4 DEF Tracks, Typed
    <3> HIDE DEF d
    <3>8. Write(Emitting(before, d, ifs, loops), neg) = Emitting(before, Append(d, neg), ifs, loops)
      BY <2>3, <3>7, WriteFacts
    <3> QED
      BY <2>9, <3>5, <3>6, <3>8
  <2> QED
    BY <2>1, <2>5, <2>7, <2>8, <2>9
<1> QED
  BY <1>3, <1>4


--------------------------------------------------------------------------------
\* Marks

\* Chunk d is chunk c with some jumps patched.
Patches(c, d) ==
  /\ d \in Seq(Code) /\ Len(d) = Len(c) /\ CallsMoved(d)
  /\ \A n \in 1 .. Len(c) : d[n].op = c[n].op /\ (IsJump(c[n]) /\ Lands(c, c[n]) => Lands(d, d[n]))
  /\ SameButTargets(d, c)

(***************************************************************************)
(* A mark may open an if or loop, note something about the innermost one,  *)
(* or close it; every jump that nothing awaits any more has been patched.  *)
(***************************************************************************)
LEMMA MarkTracked ==
  ASSUME NEW c, NEW ifs, NEW loops, NEW open, NEW s, NEW t,
         Tracks(c, ifs, loops, open, s), IsMeta(t),
         NEW d, Patches(c, d), NEW ifs2, NEW loops2, NEW open2,
         Typed(d, ifs2, loops2, open2), Tracked(c, ifs2, loops2, open2, t),
         \A n \in 1 .. Len(c) : 
            IsJump(c[n]) /\ Awaits(ifs, loops, open, n - 1)
              => Awaits(ifs2, loops2, open2, n - 1) \/ Lands(d, d[n]),
         s.op \in {"jump", "jump_else"} => Awaits(ifs2, loops2, open2, Len(c) - 1)
  PROVE  Tracks(d, ifs2, loops2, open2, t)
<1>1. DOMAIN c = 1 .. Len(c) /\ DOMAIN d = 1 .. Len(c) /\ Len(d) = Len(c)
  BY LenProperties DEF Tracks, Typed, Patches
<1>2. \A ip, op : IsAt(d, ip, op) <=> IsAt(c, ip, op)
  BY <1>1 DEF IsAt, Patches
<1>3. \A ip : NopAt(d, ip, t) <=> NopAt(c, ip, t)
  BY <1>1, <1>2 DEF NopAt
<1>4. Tracked(d, ifs2, loops2, open2, t)
  <2>1. ASSUME NEW k \in 1 .. Len(ifs2)
        PROVE  IfTracked(d, ifs2[k], open2.ifs[k], t)
    BY <1>2, <1>3 DEF Tracked, IfTracked
  <2>2. ASSUME NEW k \in 1 .. Len(loops2)
        PROVE  LoopTracked(d, loops2[k], open2.loops[k], t)
    BY <1>2, <1>3 DEF Tracked, LoopTracked
  <2> QED
    BY <2>1, <2>2 DEF Tracked
<1>5. JumpsKnown(d, ifs2, loops2, open2, t)
  <2> SUFFICES ASSUME NEW n \in 1 .. Len(c), IsJump(d[n])
               PROVE  Lands(d, d[n]) \/ Awaits(ifs2, loops2, open2, n - 1)
    BY <1>1 DEF JumpsKnown
  <2>1. IsJump(c[n])
    BY DEF IsJump, Patches
  <2>2. \/ Lands(c, c[n]) \/ Awaits(ifs, loops, open, n - 1)
        \/ n = Len(c) /\ s.op \in {"jump", "jump_else"}
    BY <2>1 DEF Tracks, JumpsKnown
  <2> QED
    BY <2>1, <2>2 DEF Patches
<1> QED
  BY <1>4, <1>5 DEF Tracks, Patches, LastIs

\* What a mark finds
LEMMA MarkFinds ==
  ASSUME NEW c, NEW ifs, NEW loops, NEW open, NEW s, NEW t,
         Tracks(c, ifs, loops, open, s), Neighbours(s, t), IsMeta(t)
  PROVE  /\ Tracked(c, ifs, loops, open, t) /\ Patches(c, c)
         /\ \A k \in 1 .. Len(loops) : IsAt(c, loops[k].start_ip, "nop")
         /\ \A k \in 1 .. Len(ifs) :
              open.ifs[k] = "alternative" => IsAt(c, ifs[k].alt_ip + 1, "nop")
         /\ t.op \in JumpMarks => IsAt(c, Len(c) - 1, "jump")
         /\ t.op \in JumpElseMarks => IsAt(c, Len(c) - 1, "jump_else")
         /\ t.op \notin JumpMarks \cup JumpElseMarks => s.op \notin {"jump", "jump_else"}
<1>1. DOMAIN c = 1 .. Len(c) /\ Len(c) \in Nat /\ c \in Seq(Code)
  BY LenProperties DEF Tracks, Typed
<1>2. t # NopStep
  BY DEF IsMeta, NopStep, OperNonary, MetaOps
<1>3. s.op \notin {"meta_begin_while", "meta_mark_if_else_alt"}
  BY <1>2 DEF Neighbours
<1>4. \A ip : NopAt(c, ip, s) => IsAt(c, ip, "nop")
  BY <1>3 DEF NopAt
<1>5. /\ \A k \in 1 .. Len(loops) : IsAt(c, loops[k].start_ip, "nop")
      /\ \A k \in 1 .. Len(ifs) :
           open.ifs[k] = "alternative" => IsAt(c, ifs[k].alt_ip + 1, "nop")
  BY <1>4 DEF Tracks, Tracked, LoopTracked, IfTracked
<1>6. Tracked(c, ifs, loops, open, t)
  <2>1. ASSUME NEW k \in 1 .. Len(ifs)
        PROVE  IfTracked(c, ifs[k], open.ifs[k], t)
    BY <1>5 DEF Tracks, Tracked, IfTracked, NopAt
  <2>2. ASSUME NEW k \in 1 .. Len(loops)
        PROVE  LoopTracked(c, loops[k], open.loops[k], t)
    BY <1>5 DEF Tracks, Tracked, LoopTracked, NopAt
  <2> QED
    BY <2>1, <2>2 DEF Tracked
<1>7. Patches(c, c)
  BY <1>1 DEF Patches, Tracks, SameButTargets
<1>8. ASSUME s.op \in {"jump", "jump_else"}
      PROVE  IsAt(c, Len(c) - 1, s.op)
  <2>1. c # << >> /\ c[Len(c)].op = s.op
    BY <1>8 DEF Tracks, LastIs, IsMeta, MetaOps, NopStep, OperNonary, Opcode
  <2>2. Len(c) > 0
    BY <1>1, <2>1, EmptySeq
  <2> QED
    BY <1>1, <2>1, <2>2 DEF IsAt
<1> QED
  BY <1>5, <1>6, <1>7, <1>8 DEF Neighbours

\* When an if or a loop is closed, the last instruction is its end: a nop.
LEMMA EndFinds ==
  ASSUME NEW c, NEW ifs, NEW loops, NEW open, NEW s, NEW t,
         Tracks(c, ifs, loops, open, s), Neighbours(s, t),
         t.op \in {"meta_end_while", "meta_end_if_else"}, open # NoneOpen
  PROVE  IsAt(c, Len(c) - 1, "nop")
<1>1. DOMAIN c = 1 .. Len(c) /\ Len(c) \in Nat /\ c \in Seq(Code)
  BY LenProperties DEF Tracks, Typed
<1>2. s = NopStep
  BY DEF Neighbours
<1>3. c # << >> /\ c[Len(c)].op = "nop"
  BY <1>2 DEF Tracks, LastIs, IsMeta, MetaOps, NopStep, OperNonary, Opcode
<1>4. Len(c) > 0
  BY <1>1, <1>3, EmptySeq
<1> QED
  BY <1>1, <1>3, <1>4 DEF IsAt

--------------------------------------------------------------------------------
\* Marks that note something about the innermost if or loop

\* Setting the top of a stack to what it is changes nothing.
LEMMA NowSame ==
  ASSUME NEW S, NEW stack \in Seq(S), stack # << >>
  PROVE  Now(stack, Inner(stack)) = stack
<1> DEFINE now == Now(stack, Inner(stack))
           n == Len(stack)
<1>1. n \in Nat /\ Inner(stack) = stack[n] /\ Inner(stack) \in S
  BY StackFacts
<1>2. now \in Seq(S) /\ Len(now) = n /\ now[n] = Inner(stack)
      /\ \A k \in 1 .. n - 1 : now[k] = stack[k]
  BY <1>1, NowFacts
<1> HIDE DEF now, n
<1>3. \A k \in 1 .. n : now[k] = stack[k]
  BY <1>1, <1>2
<1> QED
  BY <1>1, <1>2, <1>3, SeqEqual DEF now, n

\* NowFacts for the statuses of open ifs and loops.
LEMMA NowStatus ==
  ASSUME NEW stack \in Seq(Statuses), stack # << >>, NEW status \in Statuses
  PROVE  /\ Now(stack, status) \in Seq(Statuses) /\ Len(Now(stack, status)) = Len(stack)
         /\ Now(stack, status)[Len(stack)] = status
         /\ \A k \in 1 .. Len(stack) - 1 : Now(stack, status)[k] = stack[k]
BY NowFacts

\* A mark that makes the innermost loop remember where a jump of it is keeps
\* the emitter on track, when what the loop remembers now is right.
LEMMA LoopNoted ==
  ASSUME NEW c, NEW ifs, NEW loops, NEW open, NEW s, NEW t,
         Tracks(c, ifs, loops, open, s), Neighbours(s, t), IsMeta(t),
         open.loops # << >>, NEW loop \in OpenLoop, NEW status \in Statuses,
         LoopTracked(c, loop, status, t),
         \A ip : AwaitsLoop(Top(loops), Inner(open.loops), ip) => AwaitsLoop(loop, status, ip),
         s.op \in {"jump", "jump_else"} => AwaitsLoop(loop, status, Len(c) - 1)
  PROVE  Tracks(c, ifs, [loops EXCEPT ![Len(loops)] = loop],
                [open EXCEPT !.loops = Now(@, status)], t)
<1> DEFINE n == Len(loops)
           loops2 == [loops EXCEPT ![n] = loop]
           now == Now(open.loops, status)
           open2 == [open EXCEPT !.loops = now]
<1>1. /\ loops \in Seq(OpenLoop) /\ open \in [ifs : Seq(Statuses), loops : Seq(Statuses)]
      /\ open.loops \in Seq(Statuses) /\ Len(open.loops) = n /\ Len(open.ifs) = Len(ifs)
      /\ c \in Seq(Code) /\ ifs \in Seq(OpenIf)
  BY DEF Tracks, Typed
<1>2. n \in Nat \ {0} /\ Inner(open.loops) = open.loops[n] /\ Top(loops) = loops[n]
  BY <1>1, StackFacts DEF Top
<1>3. now \in Seq(Statuses) /\ Len(now) = n /\ now[n] = status
      /\ \A k \in 1 .. n - 1 : now[k] = open.loops[k]
  <2> DEFINE stack == open.loops
  <2>1. stack \in Seq(Statuses) /\ stack # << >> /\ Len(stack) = n
    BY <1>1
  <2> HIDE DEF stack, n
  <2>2. /\ Now(stack, status) \in Seq(Statuses) /\ Len(Now(stack, status)) = Len(stack)
        /\ Now(stack, status)[Len(stack)] = status
        /\ \A k \in 1 .. Len(stack) - 1 : Now(stack, status)[k] = stack[k]
    BY <2>1, NowStatus
  <2> QED
    BY <2>1, <2>2 DEF stack
<1>4. n \in 1 .. n
  BY <1>2
<1> HIDE DEF n, now
<1>5. loops2 \in Seq(OpenLoop) /\ Len(loops2) = n
      /\ \A k \in 1 .. n : loops2[k] = IF k = n THEN loop ELSE loops[k]
  BY <1>1, <1>4, ExceptSeq DEF n
<1>6. open2.ifs = open.ifs /\ open2.loops = now
      /\ open2 \in [ifs : Seq(Statuses), loops : Seq(Statuses)]
  BY <1>1, <1>3
<1> HIDE DEF loops2, open2
<1>7. Typed(c, ifs, loops2, open2)
  BY <1>1, <1>3, <1>5, <1>6 DEF Typed
<1>8. Tracked(c, ifs, loops, open, t) /\ Patches(c, c)
  BY MarkFinds
<1>9. Tracked(c, ifs, loops2, open2, t)
  <2>1. ASSUME NEW k \in 1 .. n
        PROVE  LoopTracked(c, loops2[k], now[k], t)
    <3>1. CASE k = n
      BY <3>1, <1>3, <1>4, <1>5
    <3>2. CASE k \in 1 .. n - 1
      <4>1. loops2[k] = loops[k] /\ now[k] = open.loops[k] /\ k \in 1 .. n
        BY <3>2, <1>2, <1>3, <1>5
      <4> QED
        BY <4>1, <1>8 DEF Tracked, n
    <3> QED
      BY <3>1, <3>2, <1>2
  <2> QED
    BY <2>1, <1>5, <1>6, <1>8 DEF Tracked
<1>10. \A ip : Awaits(ifs, loops, open, ip) => Awaits(ifs, loops2, open2, ip)
  <2> SUFFICES ASSUME NEW ip, NEW k \in 1 .. n, AwaitsLoop(loops[k], open.loops[k], ip)
               PROVE  AwaitsLoop(loops2[k], now[k], ip)
    BY <1>5, <1>6 DEF Awaits, n
  <2>1. CASE k = n
    BY <2>1, <1>2, <1>3, <1>4, <1>5
  <2>2. CASE k \in 1 .. n - 1
    BY <2>2, <1>2, <1>3, <1>5
  <2> QED
    BY <2>1, <2>2, <1>2
<1>11. s.op \in {"jump", "jump_else"} => Awaits(ifs, loops2, open2, Len(c) - 1)
  BY <1>3, <1>4, <1>5, <1>6 DEF Awaits
<1>12. Tracks(c, ifs, loops2, open2, t)
  BY <1>7, <1>8, <1>9, <1>10, <1>11, MarkTracked
<1> QED
  BY <1>12 DEF loops2, open2, now, n

\* The same for the innermost if.
LEMMA IfNoted ==
  ASSUME NEW c, NEW ifs, NEW loops, NEW open, NEW s, NEW t,
         Tracks(c, ifs, loops, open, s), Neighbours(s, t), IsMeta(t),
         open.ifs # << >>, NEW cond \in OpenIf, NEW status \in Statuses,
         IfTracked(c, cond, status, t),
         \A ip : AwaitsIf(Top(ifs), Inner(open.ifs), ip) => AwaitsIf(cond, status, ip),
         s.op \in {"jump", "jump_else"} => AwaitsIf(cond, status, Len(c) - 1)
  PROVE  Tracks(c, [ifs EXCEPT ![Len(ifs)] = cond], loops,
                [open EXCEPT !.ifs = Now(@, status)], t)
<1> DEFINE n == Len(ifs)
           ifs2 == [ifs EXCEPT ![n] = cond]
           now == Now(open.ifs, status)
           open2 == [open EXCEPT !.ifs = now]
<1>1. /\ ifs \in Seq(OpenIf) /\ open \in [ifs : Seq(Statuses), loops : Seq(Statuses)]
      /\ open.ifs \in Seq(Statuses) /\ Len(open.ifs) = n /\ Len(open.loops) = Len(loops)
      /\ c \in Seq(Code) /\ loops \in Seq(OpenLoop)
  BY DEF Tracks, Typed
<1>2. n \in Nat \ {0} /\ Inner(open.ifs) = open.ifs[n] /\ Top(ifs) = ifs[n]
  BY <1>1, StackFacts DEF Top
<1>3. now \in Seq(Statuses) /\ Len(now) = n /\ now[n] = status
      /\ \A k \in 1 .. n - 1 : now[k] = open.ifs[k]
  <2> DEFINE stack == open.ifs
  <2>1. stack \in Seq(Statuses) /\ stack # << >> /\ Len(stack) = n
    BY <1>1
  <2> HIDE DEF stack, n
  <2>2. /\ Now(stack, status) \in Seq(Statuses) /\ Len(Now(stack, status)) = Len(stack)
        /\ Now(stack, status)[Len(stack)] = status
        /\ \A k \in 1 .. Len(stack) - 1 : Now(stack, status)[k] = stack[k]
    BY <2>1, NowStatus
  <2> QED
    BY <2>1, <2>2 DEF stack
<1>4. n \in 1 .. n
  BY <1>2
<1> HIDE DEF n, now
<1>5. ifs2 \in Seq(OpenIf) /\ Len(ifs2) = n
      /\ \A k \in 1 .. n : ifs2[k] = IF k = n THEN cond ELSE ifs[k]
  BY <1>1, <1>4, ExceptSeq DEF n
<1>6. open2.loops = open.loops /\ open2.ifs = now
      /\ open2 \in [ifs : Seq(Statuses), loops : Seq(Statuses)]
  BY <1>1, <1>3
<1> HIDE DEF ifs2, open2
<1>7. Typed(c, ifs2, loops, open2)
  BY <1>1, <1>3, <1>5, <1>6 DEF Typed
<1>8. Tracked(c, ifs, loops, open, t) /\ Patches(c, c)
  BY MarkFinds
<1>9. Tracked(c, ifs2, loops, open2, t)
  <2>1. ASSUME NEW k \in 1 .. n
        PROVE  IfTracked(c, ifs2[k], now[k], t)
    <3>1. CASE k = n
      BY <3>1, <1>3, <1>4, <1>5
    <3>2. CASE k \in 1 .. n - 1
      <4>1. ifs2[k] = ifs[k] /\ now[k] = open.ifs[k] /\ k \in 1 .. n
        BY <3>2, <1>2, <1>3, <1>5
      <4> QED
        BY <4>1, <1>8 DEF Tracked, n
    <3> QED
      BY <3>1, <3>2, <1>2
  <2> QED
    BY <2>1, <1>5, <1>6, <1>8 DEF Tracked
<1>10. \A ip : Awaits(ifs, loops, open, ip) => Awaits(ifs2, loops, open2, ip)
  <2> SUFFICES ASSUME NEW ip, NEW k \in 1 .. n, AwaitsIf(ifs[k], open.ifs[k], ip)
               PROVE  AwaitsIf(ifs2[k], now[k], ip)
    BY <1>5, <1>6 DEF Awaits, n
  <2>1. CASE k = n
    BY <2>1, <1>2, <1>3, <1>4, <1>5
  <2>2. CASE k \in 1 .. n - 1
    BY <2>2, <1>2, <1>3, <1>5
  <2> QED
    BY <2>1, <2>2, <1>2
<1>11. s.op \in {"jump", "jump_else"} => Awaits(ifs2, loops, open2, Len(c) - 1)
  BY <1>3, <1>4, <1>5, <1>6 DEF Awaits
<1>12. Tracks(c, ifs2, loops, open2, t)
  BY <1>7, <1>8, <1>9, <1>10, <1>11, MarkTracked
<1> QED
  BY <1>12 DEF ifs2, open2, now, n

--------------------------------------------------------------------------------
\* Marks that open an if or a loop

\* A new loop starts at the next instruction and knows of no jump yet.
LEMMA LoopOpened ==
  ASSUME NEW c, NEW ifs, NEW loops, NEW open, NEW s, NEW t,
         Tracks(c, ifs, loops, open, s), Neighbours(s, t), IsMeta(t),
         t.op = "meta_begin_while"
  PROVE  Tracks(c, ifs,
                Append(loops, [brk_ips |-> {}, cont_ips |-> {}, start_ip |-> Len(c), check_ip |-> 0]),
                [open EXCEPT !.loops = Append(@, "begun")], t)
<1> DEFINE n == Len(loops)
           loop == [brk_ips |-> {}, cont_ips |-> {}, start_ip |-> Len(c), check_ip |-> 0]
           loops2 == Append(loops, loop)
           begun == Append(open.loops, "begun")
           open2 == [open EXCEPT !.loops = begun]
<1>1. /\ loops \in Seq(OpenLoop) /\ open \in [ifs : Seq(Statuses), loops : Seq(Statuses)]
      /\ open.loops \in Seq(Statuses) /\ Len(open.loops) = n /\ Len(open.ifs) = Len(ifs)
      /\ c \in Seq(Code) /\ ifs \in Seq(OpenIf)
  BY DEF Tracks, Typed
<1>2. n \in Nat /\ Len(c) \in Nat
  BY <1>1, LenProperties
<1>3. loop \in OpenLoop /\ "begun" \in Statuses
  BY <1>2 DEF OpenLoop, Statuses
<1>4. LoopTracked(c, loop, "begun", t)
  BY DEF LoopTracked, NopAt
<1> HIDE DEF n, loop
<1>5. loops2 \in Seq(OpenLoop) /\ Len(loops2) = n + 1 /\ loops2[n + 1] = loop
      /\ \A k \in 1 .. n : loops2[k] = loops[k]
  BY <1>1, <1>3, AppendProperties DEF n
<1>6. begun \in Seq(Statuses) /\ Len(begun) = n + 1 /\ begun[n + 1] = "begun"
      /\ \A k \in 1 .. n : begun[k] = open.loops[k]
  BY <1>1, <1>3, AppendProperties
<1> HIDE DEF loops2, begun
<1>7. open2.ifs = open.ifs /\ open2.loops = begun
      /\ open2 \in [ifs : Seq(Statuses), loops : Seq(Statuses)]
  BY <1>1, <1>6
<1> HIDE DEF open2
<1>8. Typed(c, ifs, loops2, open2)
  BY <1>1, <1>5, <1>6, <1>7 DEF Typed
<1>9. /\ Tracked(c, ifs, loops, open, t) /\ Patches(c, c)
      /\ s.op \notin {"jump", "jump_else"}
  BY MarkFinds DEF JumpMarks, JumpElseMarks
<1>10. Tracked(c, ifs, loops2, open2, t)
  <2>1. ASSUME NEW k \in 1 .. n + 1
        PROVE  LoopTracked(c, loops2[k], begun[k], t)
    <3>1. CASE k = n + 1
      BY <3>1, <1>4, <1>5, <1>6
    <3>2. CASE k \in 1 .. n
      BY <3>2, <1>5, <1>6, <1>9 DEF Tracked, n
    <3> QED
      BY <3>1, <3>2, <1>2
  <2> QED
    BY <2>1, <1>5, <1>7, <1>9 DEF Tracked
<1>11. \A ip : Awaits(ifs, loops, open, ip) => Awaits(ifs, loops2, open2, ip)
  <2> SUFFICES ASSUME NEW ip, NEW k \in 1 .. n, AwaitsLoop(loops[k], open.loops[k], ip)
               PROVE  k \in 1 .. n + 1 /\ AwaitsLoop(loops2[k], begun[k], ip)
    BY <1>5, <1>7 DEF Awaits, n
  <2> QED
    BY <1>2, <1>5, <1>6
<1>12. Tracks(c, ifs, loops2, open2, t)
  BY <1>8, <1>9, <1>10, <1>11, MarkTracked
<1> QED
  BY <1>12 DEF loops2, open2, begun, loop

\* A new if knows of no jump yet.
LEMMA IfOpened ==
  ASSUME NEW c, NEW ifs, NEW loops, NEW open, NEW s, NEW t,
         Tracks(c, ifs, loops, open, s), Neighbours(s, t), IsMeta(t),
         t.op = "meta_begin_if_else"
  PROVE  Tracks(c, Append(ifs, [check_ip |-> 0, alt_ip |-> -1]), loops,
                [open EXCEPT !.ifs = Append(@, "begun")], t)
<1> DEFINE n == Len(ifs)
           cond == [check_ip |-> 0, alt_ip |-> -1]
           ifs2 == Append(ifs, cond)
           begun == Append(open.ifs, "begun")
           open2 == [open EXCEPT !.ifs = begun]
<1>1. /\ ifs \in Seq(OpenIf) /\ open \in [ifs : Seq(Statuses), loops : Seq(Statuses)]
      /\ open.ifs \in Seq(Statuses) /\ Len(open.ifs) = n /\ Len(open.loops) = Len(loops)
      /\ c \in Seq(Code) /\ loops \in Seq(OpenLoop)
  BY DEF Tracks, Typed
<1>2. n \in Nat
  BY <1>1, LenProperties
<1>3. cond \in OpenIf /\ "begun" \in Statuses
  BY DEF OpenIf, Statuses
<1>4. IfTracked(c, cond, "begun", t)
  BY DEF IfTracked
<1> HIDE DEF n, cond
<1>5. ifs2 \in Seq(OpenIf) /\ Len(ifs2) = n + 1 /\ ifs2[n + 1] = cond
      /\ \A k \in 1 .. n : ifs2[k] = ifs[k]
  BY <1>1, <1>3, AppendProperties DEF n
<1>6. begun \in Seq(Statuses) /\ Len(begun) = n + 1 /\ begun[n + 1] = "begun"
      /\ \A k \in 1 .. n : begun[k] = open.ifs[k]
  BY <1>1, <1>3, AppendProperties
<1> HIDE DEF ifs2, begun
<1>7. open2.loops = open.loops /\ open2.ifs = begun
      /\ open2 \in [ifs : Seq(Statuses), loops : Seq(Statuses)]
  BY <1>1, <1>6
<1> HIDE DEF open2
<1>8. Typed(c, ifs2, loops, open2)
  BY <1>1, <1>5, <1>6, <1>7 DEF Typed
<1>9. /\ Tracked(c, ifs, loops, open, t) /\ Patches(c, c)
      /\ s.op \notin {"jump", "jump_else"}
  BY MarkFinds DEF JumpMarks, JumpElseMarks
<1>10. Tracked(c, ifs2, loops, open2, t)
  <2>1. ASSUME NEW k \in 1 .. n + 1
        PROVE  IfTracked(c, ifs2[k], begun[k], t)
    <3>1. CASE k = n + 1
      BY <3>1, <1>4, <1>5, <1>6
    <3>2. CASE k \in 1 .. n
      BY <3>2, <1>5, <1>6, <1>9 DEF Tracked, n
    <3> QED
      BY <3>1, <3>2, <1>2
  <2> QED
    BY <2>1, <1>5, <1>7, <1>9 DEF Tracked
<1>11. \A ip : Awaits(ifs, loops, open, ip) => Awaits(ifs2, loops, open2, ip)
  <2> SUFFICES ASSUME NEW ip, NEW k \in 1 .. n, AwaitsIf(ifs[k], open.ifs[k], ip)
               PROVE  k \in 1 .. n + 1 /\ AwaitsIf(ifs2[k], begun[k], ip)
    BY <1>5, <1>7 DEF Awaits, n
  <2> QED
    BY <1>2, <1>5, <1>6
<1>12. Tracks(c, ifs2, loops, open2, t)
  BY <1>8, <1>9, <1>10, <1>11, MarkTracked
<1> QED
  BY <1>12 DEF ifs2, open2, begun, cond

--------------------------------------------------------------------------------
\* Marks that close an if or a loop

\* A position that 16 bits can count is not cut when it is stored in them.
LEMMA PositionStays ==
  ASSUME NEW ip \in Nat, ip <= Int16Max
  PROVE  ToInt16(ip) = ip
<1>1. Int16Max + 1 = 32768 /\ Int16Max \in Nat
  BY DEF Int16Max
<1>2. ip + 32768 >= 0 /\ ip + 32768 < 65536
  BY <1>1
<1> QED
  BY <1>2 DEF ToInt16

\* Patching jumps to lead to a nop
LEMMA PatchedFacts ==
  ASSUME NEW c \in Seq(Code), Countable(c), CallsMoved(c), NEW ips \in SUBSET Int, NEW k, NEW op,
         (k = 1 /\ op = "jump") \/ (k = 2 /\ op = "jump_else"),
         \A x \in ips : IsAt(c, x, op), NEW ip \in Nat, IsAt(c, ip, "nop")
  PROVE  /\ Patches(c, Patched(c, ips, k, ip))
         /\ \A x \in ips : Lands(Patched(c, ips, k, ip), Patched(c, ips, k, ip)[x + 1])
<1> DEFINE d == Patched(c, ips, k, ip)
<1>1. DOMAIN c = 1 .. Len(c) /\ Len(c) \in Nat /\ \A n \in 1 .. Len(c) : c[n] \in Code
  BY LenProperties, ElementOfSeq
<1>0. ToInt16(ip) = ip
  <2>1. ip + 1 \in 1 .. Len(c) /\ Len(c) <= Int16Max /\ Int16Max \in Nat
    BY <1>1 DEF IsAt, Countable, Int16Max
  <2> QED
    BY <2>1, <1>1, PositionStays
<1>2. /\ DOMAIN d = 1 .. Len(c)
      /\ \A n \in 1 .. Len(c) :
           d[n] = IF n - 1 \in ips THEN [c[n] EXCEPT !.args[k] = ip] ELSE c[n]
  BY <1>0, <1>1 DEF Patched
<1> HIDE DEF d
<1>3. ASSUME NEW n \in 1 .. Len(c)
      PROVE  /\ d[n] \in Code /\ d[n].op = c[n].op
             /\ n - 1 \notin ips => d[n] = c[n]
             /\ n - 1 \in ips => c[n].op = op /\ d[n].args = [c[n].args EXCEPT ![k] = ip]
             /\ d[n].metadata = c[n].metadata
  <2>1. n - 1 \in ips => c[n].op = op
    <3>1. (n - 1) + 1 = n
      OBVIOUS
    <3> QED
      BY <3>1 DEF IsAt
  <2>2. c[n] \in Code
    BY <1>1
  <2>3. CASE n - 1 \in ips
    <3> DEFINE args == [c[n].args EXCEPT ![k] = ip]
    <3>1. d[n] = [c[n] EXCEPT !.args = args]
      BY <1>2, <2>3
    <3>2. args \in [1 .. 3 -> Nat]
      BY <2>2 DEF Code
    <3> HIDE DEF args
    <3>3. d[n] \in Code /\ d[n].op = c[n].op /\ d[n].args = args /\ d[n].metadata = c[n].metadata
      BY <2>2, <3>1, <3>2 DEF Code
    <3> QED
      BY <2>1, <2>3, <3>3 DEF args
  <2>4. CASE n - 1 \notin ips
    BY <1>2, <2>2, <2>4
  <2> QED
    BY <2>3, <2>4
<1>4. d \in Seq(Code) /\ Len(d) = Len(c)
  <2>1. d = [n \in 1 .. Len(c) |-> d[n]]
    BY <1>2 DEF d, Patched
  <2>2. \A n \in 1 .. Len(c) : d[n] \in Code
    BY <1>3
  <2> QED
    BY <1>1, <1>2, <2>1, <2>2, IsASeq, LenProperties
<1>5. IsAt(d, ip, "nop") /\ \A x : IsAt(c, x, "nop") => IsAt(d, x, "nop")
  BY <1>1, <1>2, <1>3 DEF IsAt
<1>6. ASSUME NEW n \in 1 .. Len(c), n - 1 \in ips
      PROVE  JumpTarget(d[n]) = ip
  <2>1. d[n].op = op /\ d[n].args = [c[n].args EXCEPT ![k] = ip] /\ c[n] \in Code
    BY <1>1, <1>3, <1>6
  <2>2. d[n].args[k] = ip
    BY <2>1 DEF Code
  <2> QED
    BY <2>1, <2>2 DEF JumpTarget
<1>7. ASSUME NEW n \in 1 .. Len(c), IsJump(c[n]), Lands(c, c[n])
      PROVE  Lands(d, d[n])
  <2>1. CASE n - 1 \in ips
    BY <2>1, <1>5, <1>6 DEF Lands
  <2>2. CASE n - 1 \notin ips
    BY <2>2, <1>3, <1>5, <1>7 DEF Lands
  <2> QED
    BY <2>1, <2>2
<1>8. CallsMoved(d)
  <2> SUFFICES ASSUME NEW n \in 1 .. Len(c)
               PROVE  /\ d[n].op # "jump_if"
                      /\ HasArguments(d[n]) =>
                           n > 1 /\ d[n - 1].op = "mov" /\ d[n - 1].args[1] >= d[n].args[2] - 1
    BY <1>4 DEF CallsMoved
  <2>1. d[n].op # "jump_if"
    BY <1>3 DEF CallsMoved
  <2>2. ASSUME HasArguments(d[n])
        PROVE  n > 1 /\ d[n - 1].op = "mov" /\ d[n - 1].args[1] >= d[n].args[2] - 1
    <3>1. d[n] = c[n]
      BY <2>2, <1>3 DEF HasArguments
    <3>2. n > 1 /\ c[n - 1].op = "mov" /\ c[n - 1].args[1] >= c[n].args[2] - 1
      BY <2>2, <3>1 DEF CallsMoved
    <3>3. n - 1 \in 1 .. Len(c)
      BY <3>2, <1>1
    <3>4. d[n - 1] = c[n - 1]
      BY <3>2, <3>3, <1>3
    <3> QED
      BY <3>1, <3>2, <3>4
  <2> QED
    BY <2>1, <2>2
<1>9. ASSUME NEW x \in ips
      PROVE  Lands(d, d[x + 1])
  <2>1. x + 1 \in 1 .. Len(c) /\ (x + 1) - 1 = x
    <3>1. x \in Int /\ IsAt(c, x, op)
      OBVIOUS
    <3> QED
      BY <1>1, <3>1 DEF IsAt
  <2>2. JumpTarget(d[x + 1]) = ip
    BY <2>1, <1>6
  <2> QED
    BY <2>2, <1>5 DEF Lands
<1>10. SameButTargets(d, c)
  <2> SUFFICES ASSUME NEW n \in 1 .. Len(c), NEW j \in 1 .. 3
               PROVE  d[n].args[j] = c[n].args[j] \/ IsTarget(c[n], j)
    BY <1>3, <1>4 DEF SameButTargets
  <2>1. CASE n - 1 \in ips /\ j = k
    BY <2>1, <1>3 DEF IsTarget
  <2>2. CASE n - 1 \in ips /\ j # k
    <3>1. c[n].args \in [1 .. 3 -> Nat]
      BY <1>1 DEF Code
    <3> QED
      BY <2>2, <3>1, <1>3
  <2>3. CASE n - 1 \notin ips
    BY <2>3, <1>3
  <2> QED
    BY <2>1, <2>2, <2>3
<1> QED
  BY <1>3, <1>4, <1>7, <1>8, <1>9, <1>10 DEF Patches, d

\* A patch changes no operation and no length.
LEMMA PatchesKeepOps ==
  ASSUME NEW c \in Seq(Code), NEW d, Patches(c, d)
  PROVE  /\ \A x, op : IsAt(d, x, op) <=> IsAt(c, x, op)
         /\ Countable(c) => Countable(d)
<1>1. DOMAIN c = 1 .. Len(c) /\ DOMAIN d = 1 .. Len(c)
  BY LenProperties DEF Patches
<1> QED
  BY <1>1 DEF Patches, IsAt, Countable

\* Patching twice is patching: no instruction but a jump changes, and only its target.
LEMMA PatchesCompose ==
  ASSUME NEW c, NEW d, NEW e, Patches(c, d), Patches(d, e)
  PROVE  Patches(c, e)
<1>1. Len(d) = Len(c)
  BY DEF Patches
<1> QED
  BY <1>1 DEF Patches, IsJump, SameButTargets, IsTarget

\* A jump that leads to a nop does so after any later patching.
LEMMA StillLands ==
  ASSUME NEW c, NEW d, NEW e, Patches(c, d), Patches(d, e),
         NEW n \in 1 .. Len(c), IsJump(c[n]), Lands(d, d[n])
  PROVE  Lands(e, e[n])
BY DEF Patches, IsJump

(***************************************************************************)
(* The end of a loop leads the check and every break to the nop before the *)
(* mark, and every continue to the nop the loop starts with.               *)
(***************************************************************************)
LoopPatches(c, loop, ip) ==
  Patched(Patched(Patched(c, {loop.check_ip}, 2, ip), loop.brk_ips, 1, ip),
          loop.cont_ips, 1, loop.start_ip)

\* Closing a loop patches its check, its breaks and its continues, so that every
\* jump the loop was keeping leads to a nop, and all others stay as they are.
LEMMA LoopClosed ==
  ASSUME NEW c, NEW ifs, NEW loops, NEW open, NEW s, NEW t,
         Tracks(c, ifs, loops, open, s), Neighbours(s, t), IsMeta(t), Fits(open, t),
         t.op = "meta_end_while", Countable(c),
         NEW loop, loop = Top(loops), NEW ip, ip = Len(c) - 1,
         NEW checked, checked = Patched(c, {loop.check_ip}, 2, ip),
         NEW broken, broken = Patched(checked, loop.brk_ips, 1, ip),
         NEW continued, continued = Patched(broken, loop.cont_ips, 1, loop.start_ip)
  PROVE  /\ Tracks(continued, ifs, Outer(loops), [open EXCEPT !.loops = Outer(@)], t)
         /\ Patches(c, continued)
<1> DEFINE n == Len(loops)
           loops2 == Outer(loops)
           outer == Outer(open.loops)
           open2 == [open EXCEPT !.loops = outer]
<1>1. /\ loops \in Seq(OpenLoop) /\ open \in [ifs : Seq(Statuses), loops : Seq(Statuses)]
      /\ open.loops \in Seq(Statuses) /\ Len(open.loops) = n /\ Len(open.ifs) = Len(ifs)
      /\ c \in Seq(Code) /\ ifs \in Seq(OpenIf) /\ CallsMoved(c)
  BY DEF Tracks, Typed
<1>2. open.loops # << >> /\ Inner(open.loops) = "checked" /\ open # NoneOpen
  BY DEF Fits, InnerIs, NoneOpen
<1>3. /\ n \in Nat \ {0} /\ open.loops[n] = "checked"
      /\ outer \in Seq(Statuses) /\ Len(outer) = n - 1
      /\ \A k \in 1 .. n - 1 : outer[k] = open.loops[k]
  <2> DEFINE stack == open.loops
  <2>1. stack \in Seq(Statuses) /\ stack # << >> /\ Len(stack) = n
    BY <1>1, <1>2
  <2> HIDE DEF stack, n
  <2>2. /\ Len(stack) \in Nat \ {0} /\ Inner(stack) = stack[Len(stack)]
        /\ Outer(stack) \in Seq(Statuses) /\ Len(Outer(stack)) = Len(stack) - 1
        /\ \A k \in 1 .. Len(stack) - 1 : Outer(stack)[k] = stack[k]
    BY <2>1, StackFacts
  <2> QED
    BY <1>2, <2>1, <2>2 DEF stack
<1>4. /\ loops2 \in Seq(OpenLoop) /\ Len(loops2) = n - 1
      /\ \A k \in 1 .. n - 1 : loops2[k] = loops[k]
      /\ loop = loops[n] /\ loop \in OpenLoop
  <2>1. loops # << >>
    BY <1>3
  <2>2. /\ Inner(loops) = loops[Len(loops)] /\ Inner(loops) \in OpenLoop
        /\ Outer(loops) \in Seq(OpenLoop) /\ Len(Outer(loops)) = Len(loops) - 1
        /\ \A k \in 1 .. Len(loops) - 1 : Outer(loops)[k] = loops[k]
    BY <1>1, <2>1, StackFacts
  <2> QED
    BY <2>2 DEF Top
<1> HIDE DEF n, outer, loops2
<1>5. open2.ifs = open.ifs /\ open2.loops = outer
      /\ open2 \in [ifs : Seq(Statuses), loops : Seq(Statuses)]
  BY <1>1, <1>3
<1> HIDE DEF open2
<1>6. /\ Tracked(c, ifs, loops, open, t) /\ IsAt(c, ip, "nop")
      /\ s.op \notin {"jump", "jump_else"}
  <2>1. t.op \notin JumpMarks \cup JumpElseMarks
    BY DEF JumpMarks, JumpElseMarks
  <2>2. Tracked(c, ifs, loops, open, t)
    BY MarkFinds
  <2>3. s.op \notin {"jump", "jump_else"}
    BY <2>1, MarkFinds
  <2>4. IsAt(c, Len(c) - 1, "nop")
    BY <1>2, EndFinds
  <2> QED
    BY <2>2, <2>3, <2>4
<1>7. /\ IsAt(c, loop.check_ip, "jump_else") /\ IsAt(c, loop.start_ip, "nop")
      /\ \A x \in loop.brk_ips \cup loop.cont_ips : IsAt(c, x, "jump")
  <2>1. LoopTracked(c, loop, "checked", t) /\ t.op = "meta_end_while"
    BY <1>3, <1>4, <1>6 DEF Tracked, n
  <2> QED
    BY <2>1 DEF LoopTracked, NopAt
<1>8. /\ ip \in Nat /\ loop.start_ip \in Nat /\ {loop.check_ip} \in SUBSET Int
      /\ loop.brk_ips \in SUBSET Int /\ loop.cont_ips \in SUBSET Int
  <2>1. ip \in Nat
    BY <1>1, <1>6, LenProperties DEF IsAt
  <2> QED
    BY <2>1, <1>4 DEF OpenLoop
<1>9. Patches(c, checked) /\ Lands(checked, checked[loop.check_ip + 1])
  <2>1. \A x \in {loop.check_ip} : IsAt(c, x, "jump_else")
    BY <1>7
  <2> QED
    BY <2>1, <1>1, <1>6, <1>8, PatchedFacts
<1>10. /\ checked \in Seq(Code) /\ CallsMoved(checked) /\ Countable(checked)
       /\ \A x, op : IsAt(checked, x, op) <=> IsAt(c, x, op)
  BY <1>1, <1>9, PatchesKeepOps DEF Patches
<1>11. Patches(checked, broken) /\ \A x \in loop.brk_ips : Lands(broken, broken[x + 1])
  <2>1. \A x \in loop.brk_ips : IsAt(checked, x, "jump")
    BY <1>7, <1>10
  <2> QED
    BY <2>1, <1>6, <1>8, <1>10, PatchedFacts
<1>12. /\ Patches(c, broken) /\ Countable(broken)
       /\ \A x, op : IsAt(broken, x, op) <=> IsAt(c, x, op)
  <2>1. Countable(broken) /\ \A x, op : IsAt(broken, x, op) <=> IsAt(checked, x, op)
    BY <1>10, <1>11, PatchesKeepOps
  <2>2. Patches(c, broken)
    BY <1>9, <1>11, PatchesCompose
  <2> QED
    BY <2>1, <2>2, <1>10
<1>13. /\ Patches(broken, continued)
       /\ \A x \in loop.cont_ips : Lands(continued, continued[x + 1])
  <2>1. \A x \in loop.cont_ips : IsAt(broken, x, "jump")
    BY <1>7, <1>12
  <2>2. broken \in Seq(Code) /\ CallsMoved(broken) /\ IsAt(broken, loop.start_ip, "nop")
    BY <1>7, <1>12 DEF Patches
  <2> QED
    BY <2>1, <2>2, <1>8, <1>12, PatchedFacts
<1>14. Patches(c, continued)
  BY <1>12, <1>13, PatchesCompose
<1>15. ASSUME NEW m \in 1 .. Len(c), IsJump(c[m]), AwaitsLoop(loop, "checked", m - 1)
       PROVE  Lands(continued, continued[m])
  <2>1. (m - 1) + 1 = m
    OBVIOUS
  <2>2. CASE m - 1 = loop.check_ip
    <3>1. Lands(checked, checked[m])
      BY <1>9, <2>1, <2>2
    <3>2. Lands(broken, broken[m])
      BY <3>1, <1>9, <1>11, <1>15, StillLands
    <3> QED
      BY <3>2, <1>12, <1>13, <1>15, StillLands
  <2>3. CASE m - 1 \in loop.brk_ips
    <3>1. Lands(broken, broken[m])
      BY <1>11, <2>1, <2>3
    <3> QED
      BY <3>1, <1>12, <1>13, <1>15, StillLands
  <2>4. CASE m - 1 \in loop.cont_ips
    BY <1>13, <2>1, <2>4
  <2> QED
    BY <1>15, <2>2, <2>3, <2>4 DEF AwaitsLoop
<1>16. Typed(continued, ifs, loops2, open2)
  BY <1>1, <1>3, <1>4, <1>5, <1>14 DEF Typed, Patches
<1>17. Tracked(c, ifs, loops2, open2, t)
  <2>1. ASSUME NEW k \in 1 .. n - 1
        PROVE  LoopTracked(c, loops2[k], outer[k], t)
    <3>1. loops2[k] = loops[k] /\ outer[k] = open.loops[k] /\ k \in 1 .. n
      BY <1>3, <1>4
    <3> QED
      BY <3>1, <1>6 DEF Tracked, n
  <2> QED
    BY <2>1, <1>4, <1>5, <1>6 DEF Tracked
<1>18. ASSUME NEW m \in 1 .. Len(c), IsJump(c[m]), Awaits(ifs, loops, open, m - 1)
       PROVE  Awaits(ifs, loops2, open2, m - 1) \/ Lands(continued, continued[m])
  <2>1. CASE \E k \in 1 .. Len(ifs) : AwaitsIf(ifs[k], open.ifs[k], m - 1)
    BY <2>1, <1>5 DEF Awaits
  <2>2. ASSUME NEW k \in 1 .. n, AwaitsLoop(loops[k], open.loops[k], m - 1)
        PROVE  Awaits(ifs, loops2, open2, m - 1) \/ Lands(continued, continued[m])
    <3>1. CASE k = n
      BY <2>2, <3>1, <1>3, <1>4, <1>15, <1>18
    <3>2. CASE k \in 1 .. n - 1
      <4>1. AwaitsLoop(loops2[k], open2.loops[k], m - 1)
        BY <2>2, <3>2, <1>3, <1>4, <1>5
      <4> QED
        BY <4>1, <3>2, <1>4 DEF Awaits
    <3> QED
      BY <3>1, <3>2, <1>3
  <2> QED
    BY <1>18, <2>1, <2>2 DEF Awaits, n
<1>19. Tracks(continued, ifs, loops2, open2, t)
  BY <1>6, <1>14, <1>16, <1>17, <1>18, MarkTracked
<1> QED
  BY <1>14, <1>19 DEF loops2, open2, outer

(***************************************************************************)
(* The end of an if leads the check to the nop after the jump over the     *)
(* else, or to the nop before the mark if there is no else, and that jump  *)
(* to the nop before the mark.                                             *)
(***************************************************************************)
IfPatches(c, cond, ip) ==
  IF cond.alt_ip # -1
  THEN Patched(Patched(c, {cond.check_ip}, 2, cond.alt_ip + 1), {cond.alt_ip}, 1, ip)
  ELSE Patched(c, {cond.check_ip}, 2, ip)

\* Patching an if makes the jumps it was keeping lead to nops, also when it
\* had no alternative.
LEMMA IfPatched ==
  ASSUME NEW c \in Seq(Code), Countable(c), CallsMoved(c), NEW cond \in OpenIf, NEW status, NEW t,
         status \in {"checked", "alternative"}, IfTracked(c, cond, status, t),
         status = "alternative" => IsAt(c, cond.alt_ip + 1, "nop"),
         NEW ip \in Nat, IsAt(c, ip, "nop"),
         NEW patched, patched = IfPatches(c, cond, ip)
  PROVE  /\ Patches(c, patched)
         /\ \A m \in 1 .. Len(c) :
              IsJump(c[m]) /\ AwaitsIf(cond, status, m - 1) => Lands(patched, patched[m])
<1>1. cond.check_ip \in Nat /\ cond.alt_ip \in Nat \cup {-1}
  BY DEF OpenIf
<1>2. {cond.check_ip} \in SUBSET Int /\ {cond.alt_ip} \in SUBSET Int
  BY <1>1
<1>3. \A x \in {cond.check_ip} : IsAt(c, x, "jump_else")
  BY DEF IfTracked
<1>4. CASE status = "checked"
  <2>1. patched = Patched(c, {cond.check_ip}, 2, ip)
    BY <1>4 DEF IfTracked, IfPatches
  <2>2. Patches(c, patched) /\ \A x \in {cond.check_ip} : Lands(patched, patched[x + 1])
    BY <1>2, <1>3, <2>1, PatchedFacts
  <2>3. ASSUME NEW m \in 1 .. Len(c), AwaitsIf(cond, status, m - 1)
        PROVE  Lands(patched, patched[m])
    <3>1. m - 1 = cond.check_ip /\ (m - 1) + 1 = m
      BY <1>4, <2>3 DEF AwaitsIf
    <3> QED
      BY <2>2, <3>1
  <2> QED
    BY <2>2, <2>3
<1>5. CASE status = "alternative"
  <2> DEFINE checked == Patched(c, {cond.check_ip}, 2, cond.alt_ip + 1)
  <2>1. IsAt(c, cond.alt_ip, "jump")
    BY <1>5 DEF IfTracked
  <2>2. DOMAIN c = 1 .. Len(c) /\ Len(c) \in Nat
    BY LenProperties
  <2>3. cond.alt_ip + 1 \in Nat \ {0}
    BY <1>1, <2>1, <2>2 DEF IsAt
  <2>4. cond.alt_ip # -1
    BY <1>1, <2>3
  <2>5. Patches(c, checked) /\ \A x \in {cond.check_ip} : Lands(checked, checked[x + 1])
    BY <1>2, <1>3, <1>5, <2>3, PatchedFacts
  <2>6. patched = Patched(checked, {cond.alt_ip}, 1, ip)
    BY <2>4 DEF IfPatches
  <2> HIDE DEF checked
  <2>7. checked \in Seq(Code) /\ CallsMoved(checked) /\ Countable(checked)
    BY <2>5, PatchesKeepOps DEF Patches
  <2>8. \A x, op : IsAt(checked, x, op) <=> IsAt(c, x, op)
    BY <2>5, PatchesKeepOps
  <2>9. IsAt(checked, ip, "nop") /\ \A x \in {cond.alt_ip} : IsAt(checked, x, "jump")
    BY <2>1, <2>8
  <2>10. Patches(checked, patched) /\ \A x \in {cond.alt_ip} : Lands(patched, patched[x + 1])
    BY <1>2, <2>6, <2>7, <2>9, PatchedFacts
  <2>11. Patches(c, patched)
    BY <2>5, <2>10, PatchesCompose
  <2>12. ASSUME NEW m \in 1 .. Len(c), IsJump(c[m]), AwaitsIf(cond, status, m - 1)
         PROVE  Lands(patched, patched[m])
    <3>1. (m - 1) + 1 = m
      OBVIOUS
    <3>2. CASE m - 1 = cond.check_ip
      <4>1. Lands(checked, checked[m])
        BY <2>5, <3>1, <3>2
      <4> QED
        BY <4>1, <2>5, <2>10, <2>12, StillLands
    <3>3. CASE m - 1 = cond.alt_ip
      BY <2>10, <3>1, <3>3
    <3> QED
      BY <2>12, <3>2, <3>3 DEF AwaitsIf
  <2> QED
    BY <2>11, <2>12
<1> QED
  BY <1>4, <1>5

\* Closing an if keeps the emitter on track.
LEMMA IfClosed ==
  ASSUME NEW c, NEW ifs, NEW loops, NEW open, NEW s, NEW t,
         Tracks(c, ifs, loops, open, s), Neighbours(s, t), IsMeta(t), Fits(open, t),
         t.op = "meta_end_if_else", Countable(c),
         NEW cond, cond = Top(ifs), NEW ip, ip = Len(c) - 1,
         NEW patched, patched = IfPatches(c, cond, ip)
  PROVE  /\ Tracks(patched, Outer(ifs), loops, [open EXCEPT !.ifs = Outer(@)], t)
         /\ Patches(c, patched)
<1> DEFINE n == Len(ifs)
           ifs2 == Outer(ifs)
           outer == Outer(open.ifs)
           open2 == [open EXCEPT !.ifs = outer]
<1>1. /\ ifs \in Seq(OpenIf) /\ open \in [ifs : Seq(Statuses), loops : Seq(Statuses)]
      /\ open.ifs \in Seq(Statuses) /\ Len(open.ifs) = n /\ Len(open.loops) = Len(loops)
      /\ c \in Seq(Code) /\ loops \in Seq(OpenLoop) /\ CallsMoved(c)
  BY DEF Tracks, Typed
<1>2. /\ open.ifs # << >> /\ Inner(open.ifs) \in {"checked", "alternative"}
      /\ open # NoneOpen
  BY DEF Fits, InnerIs, NoneOpen
<1>3. /\ n \in Nat \ {0} /\ open.ifs[n] \in {"checked", "alternative"}
      /\ outer \in Seq(Statuses) /\ Len(outer) = n - 1
      /\ \A k \in 1 .. n - 1 : outer[k] = open.ifs[k]
  <2> DEFINE stack == open.ifs
  <2>1. stack \in Seq(Statuses) /\ stack # << >> /\ Len(stack) = n
    BY <1>1, <1>2
  <2> HIDE DEF stack, n
  <2>2. /\ Len(stack) \in Nat \ {0} /\ Inner(stack) = stack[Len(stack)]
        /\ Outer(stack) \in Seq(Statuses) /\ Len(Outer(stack)) = Len(stack) - 1
        /\ \A k \in 1 .. Len(stack) - 1 : Outer(stack)[k] = stack[k]
    BY <2>1, StackFacts
  <2> QED
    BY <1>2, <2>1, <2>2 DEF stack
<1>4. /\ ifs2 \in Seq(OpenIf) /\ Len(ifs2) = n - 1
      /\ \A k \in 1 .. n - 1 : ifs2[k] = ifs[k]
      /\ cond = ifs[n] /\ cond \in OpenIf
  <2>1. ifs # << >>
    BY <1>3
  <2>2. /\ Inner(ifs) = ifs[Len(ifs)] /\ Inner(ifs) \in OpenIf
        /\ Outer(ifs) \in Seq(OpenIf) /\ Len(Outer(ifs)) = Len(ifs) - 1
        /\ \A k \in 1 .. Len(ifs) - 1 : Outer(ifs)[k] = ifs[k]
    BY <1>1, <2>1, StackFacts
  <2> QED
    BY <2>2 DEF Top
<1> HIDE DEF n, outer, ifs2
<1>5. open2.loops = open.loops /\ open2.ifs = outer
      /\ open2 \in [ifs : Seq(Statuses), loops : Seq(Statuses)]
  BY <1>1, <1>3
<1> HIDE DEF open2
<1>6. /\ Tracked(c, ifs, loops, open, t) /\ IsAt(c, ip, "nop")
      /\ s.op \notin {"jump", "jump_else"}
  <2>1. t.op \notin JumpMarks \cup JumpElseMarks
    BY DEF JumpMarks, JumpElseMarks
  <2>2. Tracked(c, ifs, loops, open, t)
    BY MarkFinds
  <2>3. s.op \notin {"jump", "jump_else"}
    BY <2>1, MarkFinds
  <2>4. IsAt(c, Len(c) - 1, "nop")
    BY <1>2, EndFinds
  <2> QED
    BY <2>2, <2>3, <2>4
<1>7. /\ Patches(c, patched)
      /\ \A m \in 1 .. Len(c) :
           IsJump(c[m]) /\ AwaitsIf(cond, open.ifs[n], m - 1) => Lands(patched, patched[m])
  <2>1. ip \in Nat
    BY <1>1, <1>6, LenProperties DEF IsAt
  <2>2. IfTracked(c, cond, open.ifs[n], t) /\ n \in 1 .. n
    BY <1>3, <1>4, <1>6 DEF Tracked, n
  <2>3. open.ifs[n] = "alternative" => IsAt(c, cond.alt_ip + 1, "nop")
    BY <2>2 DEF IfTracked, NopAt
  <2> QED
    <3> DEFINE status == open.ifs[n]
    <3>1. /\ c \in Seq(Code) /\ CallsMoved(c) /\ cond \in OpenIf
          /\ status \in {"checked", "alternative"} /\ IfTracked(c, cond, status, t)
          /\ status = "alternative" => IsAt(c, cond.alt_ip + 1, "nop")
          /\ ip \in Nat /\ IsAt(c, ip, "nop")
      BY <1>1, <1>3, <1>4, <1>6, <2>1, <2>2, <2>3
    <3> HIDE DEF status
    <3>2. Patches(c, patched)
      BY <3>1, IfPatched
    <3>3. ASSUME NEW m \in 1 .. Len(c), IsJump(c[m]), AwaitsIf(cond, status, m - 1)
          PROVE  Lands(patched, patched[m])
      BY <3>1, <3>3, IfPatched
    <3> QED
      BY <3>2, <3>3 DEF status
<1>8. Typed(patched, ifs2, loops, open2)
  BY <1>1, <1>3, <1>4, <1>5, <1>7 DEF Typed, Patches
<1>9. Tracked(c, ifs2, loops, open2, t)
  <2>1. ASSUME NEW k \in 1 .. n - 1
        PROVE  IfTracked(c, ifs2[k], outer[k], t)
    <3>1. ifs2[k] = ifs[k] /\ outer[k] = open.ifs[k] /\ k \in 1 .. n
      BY <1>3, <1>4
    <3> QED
      BY <3>1, <1>6 DEF Tracked, n
  <2> QED
    BY <2>1, <1>4, <1>5, <1>6 DEF Tracked
<1>10. ASSUME NEW m \in 1 .. Len(c), IsJump(c[m]), Awaits(ifs, loops, open, m - 1)
       PROVE  Awaits(ifs2, loops, open2, m - 1) \/ Lands(patched, patched[m])
  <2>1. CASE \E k \in 1 .. Len(loops) : AwaitsLoop(loops[k], open.loops[k], m - 1)
    BY <2>1, <1>5 DEF Awaits
  <2>2. ASSUME NEW k \in 1 .. n, AwaitsIf(ifs[k], open.ifs[k], m - 1)
        PROVE  Awaits(ifs2, loops, open2, m - 1) \/ Lands(patched, patched[m])
    <3>1. CASE k = n
      BY <2>2, <3>1, <1>4, <1>7, <1>10
    <3>2. CASE k \in 1 .. n - 1
      <4>1. AwaitsIf(ifs2[k], open2.ifs[k], m - 1)
        BY <2>2, <3>2, <1>3, <1>4, <1>5
      <4> QED
        BY <4>1, <3>2, <1>4 DEF Awaits
    <3> QED
      BY <3>1, <3>2, <1>3
  <2> QED
    BY <1>10, <2>1, <2>2 DEF Awaits, n
<1>11. Tracks(patched, ifs2, loops, open2, t)
  BY <1>6, <1>7, <1>8, <1>9, <1>10, MarkTracked
<1> QED
  BY <1>7, <1>11 DEF ifs2, open2, outer

--------------------------------------------------------------------------------
\* Every step

\* What a mark does to the emitter
LEMMA MarkEffect ==
  ASSUME NEW before \in Seq(Seq(Code)), NEW c \in Seq(Code), NEW ifs, NEW loops, NEW t,
         IsMeta(t), ~NothingOpen(Emitting(before, c, ifs, loops), t.op)
  PROVE  EmitStep(Emitting(before, c, ifs, loops), t) =
           EmitMark(Emitting(before, c, ifs, loops), t.op)
<1> DEFINE es == Emitting(before, c, ifs, loops)
<1>1. es.crashed = NotCrashed
  BY EmittingFields
<1>2. ~es.crashed /\ t.form # "TACUnary"
  BY <1>1 DEF IsMeta, NotCrashed
<1> HIDE DEF es
<1>3. EmitStep(es, t) = EmitMark(es, t.op)
  BY <1>2 DEF EmitStep
<1> QED
  BY <1>3 DEF es

\* What becomes of the open loops and ifs
LoopBegun(loops, ip) ==
  Append(loops, [brk_ips |-> {}, cont_ips |-> {}, start_ip |-> ip, check_ip |-> 0])
IfBegun(ifs) == Append(ifs, [check_ip |-> 0, alt_ip |-> -1])

LoopChecked(loops, ip) == [loops EXCEPT ![Len(loops)] = [Top(loops) EXCEPT !.check_ip = ip]]
LoopBroken(loops, ip) ==
  [loops EXCEPT ![Len(loops)] = [Top(loops) EXCEPT !.brk_ips = Top(loops).brk_ips \cup {ip}]]
LoopContinued(loops, ip) ==
  [loops EXCEPT ![Len(loops)] = [Top(loops) EXCEPT !.cont_ips = Top(loops).cont_ips \cup {ip}]]
IfChecked(ifs, ip) == [ifs EXCEPT ![Len(ifs)] = [Top(ifs) EXCEPT !.check_ip = ip]]
IfAlternative(ifs, ip) == [ifs EXCEPT ![Len(ifs)] = [Top(ifs) EXCEPT !.alt_ip = ip]]

\* What push_loop and push_if do to an emitter, in terms of its parts.
LEMMA OpensEffect ==
  ASSUME NEW before \in Seq(Seq(Code)), NEW c \in Seq(Code), NEW ifs, NEW loops,
         NEW es, es = Emitting(before, c, ifs, loops)
  PROVE  /\ PushLoop(es) = Emitting(before, c, ifs, LoopBegun(loops, Len(c)))
         /\ PushIf(es) = Emitting(before, c, IfBegun(ifs), loops)
<1>1. Chunk(es) = c
  BY EmittingFacts
<1>2. es.active_loops = loops /\ es.active_ifs = ifs
  BY EmittingFields
<1>3. PushLoop(es) = [es EXCEPT !.active_loops = LoopBegun(loops, Len(c))]
  BY <1>1, <1>2 DEF PushLoop, LoopBegun
<1>4. PushIf(es) = [es EXCEPT !.active_ifs = IfBegun(ifs)]
  BY <1>2 DEF PushIf, IfBegun
<1>5. \A x : [es EXCEPT !.active_loops = x] = Emitting(before, c, ifs, x)
  BY LoopsChanged
<1>6. \A x : [es EXCEPT !.active_ifs = x] = Emitting(before, c, x, loops)
  BY IfsChanged
<1> QED
  BY <1>3, <1>4, <1>5, <1>6

\* What the marks of a loop do to an emitter, in terms of its parts.
LEMMA LoopNotes ==
  ASSUME NEW before \in Seq(Seq(Code)), NEW c \in Seq(Code), NEW ifs, NEW loops,
         NEW es, es = Emitting(before, c, ifs, loops), NEW ip, ip = Len(c) - 1
  PROVE  /\ MarkLoop(es, "meta_mark_while_check") = Emitting(before, c, ifs, LoopChecked(loops, ip))
         /\ MarkLoop(es, "meta_mark_break") = Emitting(before, c, ifs, LoopBroken(loops, ip))
         /\ MarkLoop(es, "meta_mark_continue") = Emitting(before, c, ifs, LoopContinued(loops, ip))
<1>1. LastIp(es) = ip /\ es.active_loops = loops
  <2>1. Chunk(es) = c
    BY EmittingFacts
  <2>2. es.active_loops = loops
    BY EmittingFields
  <2> QED
    BY <2>1, <2>2 DEF LastIp
<1>2. \A x : [es EXCEPT !.active_loops = x] = Emitting(before, c, ifs, x)
  BY LoopsChanged
<1>3. MarkLoop(es, "meta_mark_while_check") = [es EXCEPT !.active_loops = LoopChecked(loops, ip)]
  BY <1>1 DEF MarkLoop, LoopChecked, Top
<1>4. MarkLoop(es, "meta_mark_break") = [es EXCEPT !.active_loops = LoopBroken(loops, ip)]
  BY <1>1 DEF MarkLoop, LoopBroken, Top
<1>5. MarkLoop(es, "meta_mark_continue") = [es EXCEPT !.active_loops = LoopContinued(loops, ip)]
  BY <1>1 DEF MarkLoop, LoopContinued, Top
<1> QED
  BY <1>2, <1>3, <1>4, <1>5

\* What the marks of an if do to an emitter, in terms of its parts.
LEMMA IfNotes ==
  ASSUME NEW before \in Seq(Seq(Code)), NEW c \in Seq(Code), NEW ifs, NEW loops,
         NEW es, es = Emitting(before, c, ifs, loops), NEW ip, ip = Len(c) - 1
  PROVE  /\ MarkIf(es, "meta_mark_if_else_check") = Emitting(before, c, IfChecked(ifs, ip), loops)
         /\ MarkIf(es, "meta_mark_if_else_alt") = Emitting(before, c, IfAlternative(ifs, ip), loops)
<1>1. LastIp(es) = ip /\ es.active_ifs = ifs
  <2>1. Chunk(es) = c
    BY EmittingFacts
  <2>2. es.active_ifs = ifs
    BY EmittingFields
  <2> QED
    BY <2>1, <2>2 DEF LastIp
<1>2. \A x : [es EXCEPT !.active_ifs = x] = Emitting(before, c, x, loops)
  BY IfsChanged
<1>3. MarkIf(es, "meta_mark_if_else_check") = [es EXCEPT !.active_ifs = IfChecked(ifs, ip)]
  BY <1>1 DEF MarkIf, IfChecked, Top
<1>4. MarkIf(es, "meta_mark_if_else_alt") = [es EXCEPT !.active_ifs = IfAlternative(ifs, ip)]
  BY <1>1 DEF MarkIf, IfAlternative, Top
<1> QED
  BY <1>2, <1>3, <1>4

\* What closing a loop or an if does to an emitter, in terms of its parts.
LEMMA ClosesEffect ==
  ASSUME NEW before \in Seq(Seq(Code)), NEW c \in Seq(Code), NEW ifs, NEW loops,
         NEW es, es = Emitting(before, c, ifs, loops), NEW ip, ip = Len(c) - 1
  PROVE  /\ LoopPatches(c, Top(loops), ip) \in Seq(Code) =>
              CloseLoop(es) = Emitting(before, LoopPatches(c, Top(loops), ip), ifs, Outer(loops))
         /\ IfPatches(c, Top(ifs), ip) \in Seq(Code) =>
              CloseIf(es) = Emitting(before, IfPatches(c, Top(ifs), ip), Outer(ifs), loops)
<1>1. Chunk(es) = c
  BY EmittingFacts
<1>2. es.active_ifs = ifs /\ es.active_loops = loops
  BY EmittingFields
<1>3. LastIp(es) = ip
  BY <1>1 DEF LastIp
<1>4. ASSUME NEW d, d = LoopPatches(c, Top(loops), ip), d \in Seq(Code)
      PROVE  CloseLoop(es) = Emitting(before, d, ifs, Outer(loops))
  <2> DEFINE em2 == WithChunk(es, d)
  <2>1. CloseLoop(es) = [em2 EXCEPT !.active_loops = Popped(@)]
    BY <1>1, <1>2, <1>3, <1>4 DEF CloseLoop, LoopPatches
  <2>2. em2 = Emitting(before, d, ifs, loops)
    BY <1>4, EmittingFacts
  <2> HIDE DEF em2
  <2>3. em2.active_loops = loops
    BY <2>2, EmittingFields
  <2>4. \A x : [em2 EXCEPT !.active_loops = x] = Emitting(before, d, ifs, x)
    BY <2>2, LoopsChanged
  <2> QED
    BY <2>1, <2>3, <2>4 DEF Popped, Outer
<1>5. ASSUME NEW d, d = IfPatches(c, Top(ifs), ip), d \in Seq(Code)
      PROVE  CloseIf(es) = Emitting(before, d, Outer(ifs), loops)
  <2> DEFINE em2 == WithChunk(es, d)
  <2>1. CloseIf(es) = [em2 EXCEPT !.active_ifs = Popped(@)]
    BY <1>1, <1>2, <1>3, <1>5 DEF CloseIf, IfPatches
  <2>2. em2 = Emitting(before, d, ifs, loops)
    BY <1>5, EmittingFacts
  <2> HIDE DEF em2
  <2>3. em2.active_ifs = ifs
    BY <2>2, EmittingFields
  <2>4. \A x : [em2 EXCEPT !.active_ifs = x] = Emitting(before, d, x, loops)
    BY <2>2, IfsChanged
  <2> QED
    BY <2>1, <2>3, <2>4 DEF Popped, Outer
<1> QED
  BY <1>4, <1>5

\* The innermost loop, and the innermost if
LEMMA InnerLoop ==
  ASSUME NEW c, NEW ifs, NEW loops, NEW open, NEW s, NEW t,
         Tracks(c, ifs, loops, open, s), Neighbours(s, t), IsMeta(t), open.loops # << >>
  PROVE  /\ Top(loops) \in OpenLoop /\ IsAt(c, Top(loops).start_ip, "nop")
         /\ LoopTracked(c, Top(loops), Inner(open.loops), t)
         /\ Inner(open.loops) \in Statuses
<1> DEFINE n == Len(loops)
           stack == open.loops
<1>1. /\ loops \in Seq(OpenLoop) /\ Len(stack) = n /\ stack \in Seq(Statuses) /\ stack # << >>
  BY DEF Tracks, Typed
<1> HIDE DEF stack
<1>2. Len(stack) \in Nat \ {0} /\ Inner(stack) = stack[Len(stack)] /\ Inner(stack) \in Statuses
  BY <1>1, StackFacts
<1>3. n \in 1 .. n /\ Top(loops) = loops[n]
  BY <1>1, <1>2 DEF Top
<1>4. loops[n] \in OpenLoop
  BY <1>1, <1>3, ElementOfSeq
<1>5. Tracked(c, ifs, loops, open, t) /\ \A k \in 1 .. Len(loops) : IsAt(c, loops[k].start_ip, "nop")
  BY MarkFinds
<1>6. LoopTracked(c, loops[n], stack[n], t)
  BY <1>3, <1>5 DEF Tracked, stack
<1> QED
  BY <1>1, <1>2, <1>3, <1>4, <1>5, <1>6 DEF stack

\* What is known of the innermost open if.
LEMMA InnerIf ==
  ASSUME NEW c, NEW ifs, NEW loops, NEW open, NEW s, NEW t,
         Tracks(c, ifs, loops, open, s), Neighbours(s, t), IsMeta(t), open.ifs # << >>
  PROVE  /\ Top(ifs) \in OpenIf /\ IfTracked(c, Top(ifs), Inner(open.ifs), t)
         /\ Inner(open.ifs) \in Statuses
<1> DEFINE n == Len(ifs)
           stack == open.ifs
<1>1. /\ ifs \in Seq(OpenIf) /\ Len(stack) = n /\ stack \in Seq(Statuses) /\ stack # << >>
  BY DEF Tracks, Typed
<1> HIDE DEF stack
<1>2. Len(stack) \in Nat \ {0} /\ Inner(stack) = stack[Len(stack)] /\ Inner(stack) \in Statuses
  BY <1>1, StackFacts
<1>3. n \in 1 .. n /\ Top(ifs) = ifs[n]
  BY <1>1, <1>2 DEF Top
<1>4. ifs[n] \in OpenIf
  BY <1>1, <1>3, ElementOfSeq
<1>5. Tracked(c, ifs, loops, open, t)
  BY MarkFinds
<1>6. IfTracked(c, ifs[n], stack[n], t)
  BY <1>3, <1>5 DEF Tracked, stack
<1> QED
  BY <1>1, <1>2, <1>3, <1>4, <1>6 DEF stack

\* The marks of the check, of a break and of a continue
LEMMA LoopMarked ==
  ASSUME NEW c, NEW ifs, NEW loops, NEW open, NEW s, NEW t,
         Tracks(c, ifs, loops, open, s), Neighbours(s, t), IsMeta(t), Fits(open, t),
         NEW top, top = Top(loops), NEW ip, ip = Len(c) - 1, NEW n, n = Len(loops)
  PROVE  /\ t.op = "meta_mark_while_check"
              => Tracks(c, ifs, [loops EXCEPT ![n] = [top EXCEPT !.check_ip = ip]],
                        [open EXCEPT !.loops = Now(@, "checked")], t)
         /\ t.op = "meta_mark_break"
              => Tracks(c, ifs, [loops EXCEPT ![n] = [top EXCEPT !.brk_ips = top.brk_ips \cup {ip}]],
                        open, t)
         /\ t.op = "meta_mark_continue"
              => Tracks(c, ifs, [loops EXCEPT ![n] = [top EXCEPT !.cont_ips = top.cont_ips \cup {ip}]],
                        open, t)
<1>1. c \in Seq(Code) /\ Len(c) \in Nat /\ DOMAIN c = 1 .. Len(c)
  BY LenProperties DEF Tracks, Typed
<1>2. ASSUME open.loops # << >>
      PROVE  /\ top \in OpenLoop /\ IsAt(c, top.start_ip, "nop")
             /\ LoopTracked(c, top, Inner(open.loops), t)
             /\ Inner(open.loops) \in Statuses
  BY <1>2, InnerLoop
<1>3. s.op = "jump" <=> t.op \in JumpMarks
  BY DEF Neighbours
<1>4. s.op = "jump_else" <=> t.op \in JumpElseMarks
  BY DEF Neighbours
<1>5. /\ t.op \in JumpMarks => IsAt(c, ip, "jump")
      /\ t.op \in JumpElseMarks => IsAt(c, ip, "jump_else")
  BY MarkFinds
<1>6. ASSUME t.op \in JumpMarks \cup JumpElseMarks
      PROVE  ip \in Nat
  BY <1>1, <1>5, <1>6 DEF IsAt
<1>7. CASE t.op = "meta_mark_while_check"
  <2> DEFINE loop == [top EXCEPT !.check_ip = ip]
  <2>1. open.loops # << >> /\ Inner(open.loops) = "begun"
    BY <1>7 DEF Fits, InnerIs
  <2>2. top \in OpenLoop /\ IsAt(c, top.start_ip, "nop") /\ LoopTracked(c, top, "begun", t)
    BY <1>2, <2>1
  <2>3. ip \in Nat /\ IsAt(c, ip, "jump_else") /\ s.op # "jump"
    BY <1>3, <1>5, <1>6, <1>7 DEF JumpElseMarks, JumpMarks
  <2>4. /\ loop \in OpenLoop /\ loop.check_ip = ip /\ loop.start_ip = top.start_ip
        /\ loop.brk_ips = top.brk_ips /\ loop.cont_ips = top.cont_ips
    BY <2>2, <2>3 DEF OpenLoop
  <2> HIDE DEF loop
  <2>5. LoopTracked(c, loop, "checked", t)
    BY <2>2, <2>3, <2>4 DEF LoopTracked, NopAt
  <2>6. \A x : AwaitsLoop(Top(loops), Inner(open.loops), x) => AwaitsLoop(loop, "checked", x)
    BY <2>1, <2>4 DEF AwaitsLoop
  <2>7. s.op \in {"jump", "jump_else"} => AwaitsLoop(loop, "checked", Len(c) - 1)
    BY <2>4 DEF AwaitsLoop
  <2>8. "checked" \in Statuses
    BY DEF Statuses
  <2>9. Tracks(c, ifs, [loops EXCEPT ![Len(loops)] = loop], [open EXCEPT !.loops = Now(@, "checked")], t)
    BY <2>1, <2>4, <2>5, <2>6, <2>7, <2>8, LoopNoted
  <2> QED
    BY <1>7, <2>9 DEF loop
<1>8. ASSUME open.loops # << >>
      PROVE  [open EXCEPT !.loops = Now(@, Inner(open.loops))] = open
  <2> DEFINE stack == open.loops
  <2>1. stack \in Seq(Statuses) /\ open \in [ifs : Seq(Statuses), loops : Seq(Statuses)]
    BY DEF Tracks, Typed
  <2>2. stack # << >>
    BY <1>8
  <2> HIDE DEF stack
  <2>3. Now(stack, Inner(stack)) = stack
    BY <2>1, <2>2, NowSame
  <2>4. [open EXCEPT !.loops = open.loops] = open
    BY <2>1
  <2> QED
    BY <2>3, <2>4 DEF stack
<1>9. CASE t.op = "meta_mark_break"
  <2> DEFINE brk_ips == top.brk_ips \cup {ip}
             loop == [top EXCEPT !.brk_ips = brk_ips]
             status == Inner(open.loops)
  <2>1. open.loops # << >>
    BY <1>9 DEF Fits
  <2>2. /\ top \in OpenLoop /\ IsAt(c, top.start_ip, "nop") /\ LoopTracked(c, top, status, t)
        /\ status \in Statuses
    BY <1>2, <2>1
  <2>3. ip \in Nat /\ IsAt(c, ip, "jump") /\ s.op # "jump_else"
    BY <1>4, <1>5, <1>6, <1>9 DEF JumpElseMarks, JumpMarks
  <2>4. brk_ips \in SUBSET Nat
    BY <2>2, <2>3 DEF OpenLoop
  <2>5. \A x : x \in brk_ips <=> x \in top.brk_ips \/ x = ip
    OBVIOUS
  <2> HIDE DEF brk_ips, status
  <2>6. /\ loop \in OpenLoop /\ loop.check_ip = top.check_ip /\ loop.start_ip = top.start_ip
        /\ loop.brk_ips = brk_ips /\ loop.cont_ips = top.cont_ips
    BY <2>2, <2>4 DEF OpenLoop
  <2> HIDE DEF loop
  <2>7. LoopTracked(c, loop, status, t)
    BY <2>2, <2>3, <2>5, <2>6 DEF LoopTracked, NopAt
  <2>8. \A x : AwaitsLoop(top, status, x) => AwaitsLoop(loop, status, x)
    BY <2>5, <2>6 DEF AwaitsLoop
  <2>9. s.op \in {"jump", "jump_else"} => AwaitsLoop(loop, status, Len(c) - 1)
    BY <2>5, <2>6 DEF AwaitsLoop
  <2>10. \A x : AwaitsLoop(Top(loops), Inner(open.loops), x) => AwaitsLoop(loop, status, x)
    BY <2>8 DEF status
  <2>11. Tracks(c, ifs, [loops EXCEPT ![Len(loops)] = loop], [open EXCEPT !.loops = Now(@, status)], t)
    BY <2>1, <2>2, <2>6, <2>7, <2>9, <2>10, LoopNoted
  <2>12. [open EXCEPT !.loops = Now(@, status)] = open
    BY <1>8, <2>1 DEF status
  <2>13. Tracks(c, ifs, [loops EXCEPT ![n] = loop], open, t)
    BY <2>11, <2>12
  <2> QED
    BY <1>9, <2>13 DEF loop, brk_ips
<1>10. CASE t.op = "meta_mark_continue"
  <2> DEFINE cont_ips == top.cont_ips \cup {ip}
             loop == [top EXCEPT !.cont_ips = cont_ips]
             status == Inner(open.loops)
  <2>1. open.loops # << >>
    BY <1>10 DEF Fits
  <2>2. /\ top \in OpenLoop /\ IsAt(c, top.start_ip, "nop") /\ LoopTracked(c, top, status, t)
        /\ status \in Statuses
    BY <1>2, <2>1
  <2>3. ip \in Nat /\ IsAt(c, ip, "jump") /\ s.op # "jump_else"
    BY <1>4, <1>5, <1>6, <1>10 DEF JumpElseMarks, JumpMarks
  <2>4. cont_ips \in SUBSET Nat
    BY <2>2, <2>3 DEF OpenLoop
  <2>5. \A x : x \in cont_ips <=> x \in top.cont_ips \/ x = ip
    OBVIOUS
  <2> HIDE DEF cont_ips, status
  <2>6. /\ loop \in OpenLoop /\ loop.check_ip = top.check_ip /\ loop.start_ip = top.start_ip
        /\ loop.brk_ips = top.brk_ips /\ loop.cont_ips = cont_ips
    BY <2>2, <2>4 DEF OpenLoop
  <2> HIDE DEF loop
  <2>7. LoopTracked(c, loop, status, t)
    BY <2>2, <2>3, <2>5, <2>6 DEF LoopTracked, NopAt
  <2>8. \A x : AwaitsLoop(top, status, x) => AwaitsLoop(loop, status, x)
    BY <2>5, <2>6 DEF AwaitsLoop
  <2>9. s.op \in {"jump", "jump_else"} => AwaitsLoop(loop, status, Len(c) - 1)
    BY <2>5, <2>6 DEF AwaitsLoop
  <2>10. \A x : AwaitsLoop(Top(loops), Inner(open.loops), x) => AwaitsLoop(loop, status, x)
    BY <2>8 DEF status
  <2>11. Tracks(c, ifs, [loops EXCEPT ![Len(loops)] = loop], [open EXCEPT !.loops = Now(@, status)], t)
    BY <2>1, <2>2, <2>6, <2>7, <2>9, <2>10, LoopNoted
  <2>12. [open EXCEPT !.loops = Now(@, status)] = open
    BY <1>8, <2>1 DEF status
  <2>13. Tracks(c, ifs, [loops EXCEPT ![n] = loop], open, t)
    BY <2>11, <2>12
  <2> QED
    BY <1>10, <2>13 DEF loop, cont_ips
<1> QED
  BY <1>7, <1>9, <1>10

\* The marks of an if's check and of its else
LEMMA IfMarked ==
  ASSUME NEW c, NEW ifs, NEW loops, NEW open, NEW s, NEW t,
         Tracks(c, ifs, loops, open, s), Neighbours(s, t), IsMeta(t), Fits(open, t),
         NEW top, top = Top(ifs), NEW ip, ip = Len(c) - 1, NEW n, n = Len(ifs)
  PROVE  /\ t.op = "meta_mark_if_else_check"
              => Tracks(c, [ifs EXCEPT ![n] = [top EXCEPT !.check_ip = ip]], loops,
                        [open EXCEPT !.ifs = Now(@, "checked")], t)
         /\ t.op = "meta_mark_if_else_alt"
              => Tracks(c, [ifs EXCEPT ![n] = [top EXCEPT !.alt_ip = ip]], loops,
                        [open EXCEPT !.ifs = Now(@, "alternative")], t)
<1>1. c \in Seq(Code) /\ Len(c) \in Nat /\ DOMAIN c = 1 .. Len(c)
  BY LenProperties DEF Tracks, Typed
<1>2. ASSUME open.ifs # << >>
      PROVE  top \in OpenIf /\ IfTracked(c, top, Inner(open.ifs), t)
  BY <1>2, InnerIf
<1>3. /\ s.op = "jump" <=> t.op \in JumpMarks
      /\ s.op = "jump_else" <=> t.op \in JumpElseMarks
  BY DEF Neighbours
<1>4. /\ t.op \in JumpMarks => IsAt(c, ip, "jump")
      /\ t.op \in JumpElseMarks => IsAt(c, ip, "jump_else")
  BY MarkFinds
<1>5. ASSUME t.op \in JumpMarks \cup JumpElseMarks
      PROVE  ip \in Nat
  BY <1>1, <1>4, <1>5 DEF IsAt
<1>6. CASE t.op = "meta_mark_if_else_check"
  <2> DEFINE cond == [top EXCEPT !.check_ip = ip]
  <2>1. open.ifs # << >> /\ Inner(open.ifs) = "begun"
    BY <1>6 DEF Fits, InnerIs
  <2>2. top \in OpenIf /\ IfTracked(c, top, "begun", t)
    BY <1>2, <2>1
  <2>3. ip \in Nat /\ IsAt(c, ip, "jump_else")
    BY <1>4, <1>5, <1>6 DEF JumpElseMarks
  <2>4. cond \in OpenIf /\ cond.check_ip = ip /\ cond.alt_ip = top.alt_ip
    BY <2>2, <2>3 DEF OpenIf
  <2> HIDE DEF cond
  <2>5. IfTracked(c, cond, "checked", t)
    BY <2>2, <2>3, <2>4 DEF IfTracked
  <2>6. \A x : AwaitsIf(Top(ifs), Inner(open.ifs), x) => AwaitsIf(cond, "checked", x)
    BY <2>1 DEF AwaitsIf
  <2>7. s.op \in {"jump", "jump_else"} => AwaitsIf(cond, "checked", Len(c) - 1)
    BY <2>4 DEF AwaitsIf
  <2>8. "checked" \in Statuses
    BY DEF Statuses
  <2>9. Tracks(c, [ifs EXCEPT ![Len(ifs)] = cond], loops, [open EXCEPT !.ifs = Now(@, "checked")], t)
    BY <2>1, <2>4, <2>5, <2>6, <2>7, <2>8, IfNoted
  <2> QED
    BY <1>6, <2>9 DEF cond
<1>7. CASE t.op = "meta_mark_if_else_alt"
  <2> DEFINE cond == [top EXCEPT !.alt_ip = ip]
  <2>1. open.ifs # << >> /\ Inner(open.ifs) = "checked"
    BY <1>7 DEF Fits, InnerIs
  <2>2. top \in OpenIf /\ IfTracked(c, top, "checked", t)
    BY <1>2, <2>1
  <2>3. ip \in Nat /\ IsAt(c, ip, "jump") /\ s.op # "jump_else"
    BY <1>3, <1>4, <1>5, <1>7 DEF JumpMarks, JumpElseMarks
  <2>4. cond \in OpenIf /\ cond.check_ip = top.check_ip /\ cond.alt_ip = ip
    BY <2>2, <2>3 DEF OpenIf
  <2> HIDE DEF cond
  <2>5. IfTracked(c, cond, "alternative", t)
    <3>1. NopAt(c, ip + 1, t)
      BY <1>1, <1>7 DEF NopAt
    <3> QED
      BY <2>2, <2>3, <2>4, <3>1 DEF IfTracked
  <2>6. \A x : AwaitsIf(Top(ifs), Inner(open.ifs), x) => AwaitsIf(cond, "alternative", x)
    BY <2>1, <2>4 DEF AwaitsIf
  <2>7. s.op \in {"jump", "jump_else"} => AwaitsIf(cond, "alternative", Len(c) - 1)
    BY <2>4 DEF AwaitsIf
  <2>8. "alternative" \in Statuses
    BY DEF Statuses
  <2>9. Tracks(c, [ifs EXCEPT ![Len(ifs)] = cond], loops, [open EXCEPT !.ifs = Now(@, "alternative")], t)
    BY <2>1, <2>4, <2>5, <2>6, <2>7, <2>8, IfNoted
  <2> QED
    BY <1>7, <2>9 DEF cond
<1> QED
  BY <1>6, <1>7

\* A mark that fits what is open keeps the emitter on track.
LEMMA MarkStep ==
  ASSUME NEW before \in Seq(Seq(Code)), NEW c, NEW ifs, NEW loops, NEW open, NEW s, NEW t,
         Tracks(c, ifs, loops, open, s), Neighbours(s, t), IsMeta(t), Fits(open, t), Countable(c)
  PROVE  \E d, ifs2, loops2 :
           /\ EmitStep(Emitting(before, c, ifs, loops), t) = Emitting(before, d, ifs2, loops2)
           /\ Tracks(d, ifs2, loops2, After(open, t), t)
           /\ d = c \/ Patches(c, d)
<1> DEFINE es == Emitting(before, c, ifs, loops)
           ip == Len(c) - 1
<1>1. c \in Seq(Code) /\ Len(ifs) = Len(open.ifs) /\ Len(loops) = Len(open.loops)
      /\ open.ifs \in Seq(Statuses) /\ open.loops \in Seq(Statuses)
  BY DEF Tracks, Typed
<1>2. es.active_ifs = ifs /\ es.active_loops = loops
  BY EmittingFields
<1> HIDE DEF es
<1>3. /\ open.ifs # << >> => ifs # << >>
      /\ open.loops # << >> => loops # << >>
  <2>1. \A stack \in Seq(Statuses) : stack # << >> => Len(stack) # 0
    BY EmptySeq
  <2>2. Len(<< >>) = 0
    OBVIOUS
  <2> QED
    BY <1>1, <2>1, <2>2
<1>4. ~NothingOpen(es, t.op)
  BY <1>2, <1>3 DEF NothingOpen, LoopMarks, IfMarks, Fits, InnerIs
<1>5. EmitStep(es, t) = EmitMark(es, t.op)
  BY <1>1, <1>4, MarkEffect DEF es
<1>6. t.op \in MetaOps
  BY DEF IsMeta
<1>7. es = Emitting(before, c, ifs, loops)
  BY DEF es
<1> HIDE DEF ip
<1>8. CASE t.op = "meta_begin_while"
  <2> DEFINE open2 == [open EXCEPT !.loops = Append(@, "begun")]
  <2>1. EmitMark(es, t.op) = PushLoop(es)
    BY <1>4, <1>8 DEF EmitMark, LoopMarks, IfMarks
  <2>2. PushLoop(es) = Emitting(before, c, ifs, LoopBegun(loops, Len(c)))
    BY <1>1, <1>7, OpensEffect
  <2>3. Tracks(c, ifs, LoopBegun(loops, Len(c)), open2, t)
    BY <1>8, LoopOpened DEF LoopBegun
  <2>4. After(open, t) = open2
    BY <1>8 DEF After
  <2> HIDE DEF open2
  <2> QED
    BY <1>5, <1>7, <2>1, <2>2, <2>3, <2>4
<1>9. CASE t.op = "meta_begin_if_else"
  <2> DEFINE open2 == [open EXCEPT !.ifs = Append(@, "begun")]
  <2>1. EmitMark(es, t.op) = PushIf(es)
    BY <1>4, <1>9 DEF EmitMark, LoopMarks, IfMarks
  <2>2. PushIf(es) = Emitting(before, c, IfBegun(ifs), loops)
    BY <1>1, <1>7, OpensEffect
  <2>3. Tracks(c, IfBegun(ifs), loops, open2, t)
    BY <1>9, IfOpened DEF IfBegun
  <2>4. After(open, t) = open2
    BY <1>9 DEF After
  <2> HIDE DEF open2
  <2> QED
    BY <1>5, <1>7, <2>1, <2>2, <2>3, <2>4
<1>10. CASE t.op \in LoopMarks
  <2> DEFINE open2 == [open EXCEPT !.loops = Now(@, "checked")]
  <2>1. EmitMark(es, t.op) = MarkLoop(es, t.op)
    BY <1>4, <1>10 DEF EmitMark, LoopMarks, IfMarks
  <2>2. ip = Len(c) - 1
    BY DEF ip
  <2>3. /\ MarkLoop(es, "meta_mark_while_check") = Emitting(before, c, ifs, LoopChecked(loops, ip))
        /\ MarkLoop(es, "meta_mark_break") = Emitting(before, c, ifs, LoopBroken(loops, ip))
        /\ MarkLoop(es, "meta_mark_continue") = Emitting(before, c, ifs, LoopContinued(loops, ip))
    BY <1>1, <1>7, <2>2, LoopNotes
  <2>4. /\ t.op = "meta_mark_while_check" => Tracks(c, ifs, LoopChecked(loops, ip), open2, t)
        /\ t.op = "meta_mark_break" => Tracks(c, ifs, LoopBroken(loops, ip), open, t)
        /\ t.op = "meta_mark_continue" => Tracks(c, ifs, LoopContinued(loops, ip), open, t)
    BY LoopMarked DEF LoopChecked, LoopBroken, LoopContinued, ip
  <2>5. CASE t.op = "meta_mark_while_check"
    <3>1. After(open, t) = open2
      BY <2>5 DEF After
    <3> HIDE DEF open2
    <3> QED
      BY <1>5, <1>7, <2>1, <2>3, <2>4, <2>5, <3>1
  <2>6. CASE t.op = "meta_mark_break"
    <3>1. After(open, t) = open
      BY <2>6 DEF After
    <3> QED
      BY <1>5, <1>7, <2>1, <2>3, <2>4, <2>6, <3>1
  <2>7. CASE t.op = "meta_mark_continue"
    <3>1. After(open, t) = open
      BY <2>7 DEF After
    <3> QED
      BY <1>5, <1>7, <2>1, <2>3, <2>4, <2>7, <3>1
  <2> QED
    BY <1>10, <2>5, <2>6, <2>7 DEF LoopMarks
<1>11. CASE t.op \in IfMarks
  <2> DEFINE open2 == [open EXCEPT !.ifs = Now(@, "checked")]
             open3 == [open EXCEPT !.ifs = Now(@, "alternative")]
  <2>1. EmitMark(es, t.op) = MarkIf(es, t.op)
    BY <1>4, <1>11 DEF EmitMark, LoopMarks, IfMarks
  <2>2. ip = Len(c) - 1
    BY DEF ip
  <2>3. /\ MarkIf(es, "meta_mark_if_else_check") = Emitting(before, c, IfChecked(ifs, ip), loops)
        /\ MarkIf(es, "meta_mark_if_else_alt") = Emitting(before, c, IfAlternative(ifs, ip), loops)
    BY <1>1, <1>7, <2>2, IfNotes
  <2>4. /\ t.op = "meta_mark_if_else_check" => Tracks(c, IfChecked(ifs, ip), loops, open2, t)
        /\ t.op = "meta_mark_if_else_alt" => Tracks(c, IfAlternative(ifs, ip), loops, open3, t)
    BY IfMarked DEF IfChecked, IfAlternative, ip
  <2>5. CASE t.op = "meta_mark_if_else_check"
    <3>1. After(open, t) = open2
      BY <2>5 DEF After
    <3> HIDE DEF open2
    <3> QED
      BY <1>5, <1>7, <2>1, <2>3, <2>4, <2>5, <3>1
  <2>6. CASE t.op = "meta_mark_if_else_alt"
    <3>1. After(open, t) = open3
      BY <2>6 DEF After
    <3> HIDE DEF open3
    <3> QED
      BY <1>5, <1>7, <2>1, <2>3, <2>4, <2>6, <3>1
  <2> QED
    BY <1>11, <2>5, <2>6 DEF IfMarks
<1>12. CASE t.op = "meta_end_while"
  <2> DEFINE continued == LoopPatches(c, Top(loops), ip)
             open2 == [open EXCEPT !.loops = Outer(@)]
  <2>1. EmitMark(es, t.op) = CloseLoop(es)
    BY <1>4, <1>12 DEF EmitMark, LoopMarks, IfMarks
  <2>2. Tracks(continued, ifs, Outer(loops), open2, t) /\ Patches(c, continued)
    BY <1>12, LoopClosed DEF LoopPatches, ip
  <2>3. continued \in Seq(Code)
    BY <2>2 DEF Tracks, Typed
  <2>4. ip = Len(c) - 1
    BY DEF ip
  <2>5. CloseLoop(es) = Emitting(before, continued, ifs, Outer(loops))
    BY <1>1, <1>7, <2>3, <2>4, ClosesEffect
  <2>6. After(open, t) = open2
    BY <1>12 DEF After
  <2> HIDE DEF continued, open2
  <2> QED
    BY <1>5, <1>7, <2>1, <2>2, <2>5, <2>6
<1>13. CASE t.op = "meta_end_if_else"
  <2> DEFINE patched == IfPatches(c, Top(ifs), ip)
             open2 == [open EXCEPT !.ifs = Outer(@)]
  <2>1. EmitMark(es, t.op) = CloseIf(es)
    BY <1>4, <1>13 DEF EmitMark, LoopMarks, IfMarks
  <2>2. Tracks(patched, Outer(ifs), loops, open2, t) /\ Patches(c, patched)
    BY <1>13, IfClosed DEF ip
  <2>3. patched \in Seq(Code)
    BY <2>2 DEF Tracks, Typed
  <2>4. ip = Len(c) - 1
    BY DEF ip
  <2>5. CloseIf(es) = Emitting(before, patched, Outer(ifs), loops)
    BY <1>1, <1>7, <2>3, <2>4, ClosesEffect
  <2>6. After(open, t) = open2
    BY <1>13 DEF After
  <2> HIDE DEF patched, open2
  <2> QED
    BY <1>5, <1>7, <2>1, <2>2, <2>5, <2>6
<1> QED
  BY <1>6, <1>8, <1>9, <1>10, <1>11, <1>12, <1>13 DEF MetaOps, LoopMarks, IfMarks

(***************************************************************************)
(* One step, whatever it is: it adds what it makes by itself, and may set  *)
(* targets of jumps.                                                       *)
(***************************************************************************)
LEMMA AnyStep ==
  ASSUME NEW before \in Seq(Seq(Code)), NEW c, NEW ifs, NEW loops, NEW open, NEW s, NEW t,
         Tracks(c, ifs, loops, open, s), Neighbours(s, t), IsStep(t), Fits(open, t),
         Countable(c)
  PROVE  /\ Alone(t) \in Seq(Code)
         /\ \E d, ifs2, loops2 :
              /\ EmitStep(Emitting(before, c, ifs, loops), t) = Emitting(before, d, ifs2, loops2)
              /\ Tracks(d, ifs2, loops2, After(open, t), t)
              /\ SameButTargets(d, c \o Alone(t))
<1>0. c \in Seq(Code)
  BY DEF Tracks, Typed
<1>1. CASE IsMeta(t)
  <2>1. Alone(t) = << >>
    BY <1>1 DEF Alone
  <2>2. << >> \in Seq(Code) /\ c \o << >> = c
    BY <1>0, ConcatEmptySeq
  <2>3. PICK d, ifs2, loops2 :
          /\ EmitStep(Emitting(before, c, ifs, loops), t) = Emitting(before, d, ifs2, loops2)
          /\ Tracks(d, ifs2, loops2, After(open, t), t)
          /\ d = c \/ Patches(c, d)
    BY <1>1, MarkStep
  <2>4. SameButTargets(d, c)
    BY <2>3 DEF Patches, SameButTargets
  <2> QED
    BY <2>1, <2>2, <2>3, <2>4
<1>2. CASE ~IsMeta(t)
  <2>1. t.op \notin MetaOps
    BY <1>2 DEF IsStep, HasForm, IsMeta, MetaOps
  <2>2. After(open, t) = open
    BY <2>1 DEF After, MetaOps
  <2>3. PICK d : /\ EmitStep(Emitting(before, c, ifs, loops), t) = Emitting(before, d, ifs, loops)
                 /\ Tracks(d, ifs, loops, open, t)
    BY <1>2, InstructionStep
  <2>4. /\ Alone(t) \in Seq(Code)
        /\ EmitStep(Emitting(before, c, ifs, loops), t)
             = Emitting(before, c \o Alone(t), ifs, loops)
    BY <1>0, <1>2, InstructionAlone
  <2>5. d = c \o Alone(t)
    <3> DEFINE code == c \o Alone(t)
    <3>1. d \in Seq(Code) /\ code \in Seq(Code)
      BY <1>0, <2>3, <2>4, ConcatProperties DEF Tracks, Typed
    <3>2. Emitting(before, d, ifs, loops) = Emitting(before, code, ifs, loops)
      BY <2>3, <2>4
    <3> HIDE DEF code
    <3>3. d = code
      BY <3>1, <3>2, EmittingFacts
    <3> QED
      BY <3>3 DEF code
  <2>6. SameButTargets(d, c \o Alone(t))
    BY <2>5 DEF SameButTargets
  <2> QED
    BY <2>2, <2>3, <2>4, <2>6
<1> QED
  BY <1>1, <1>2

--------------------------------------------------------------------------------
\* All steps

\* What the recursive function of EmitSteps is, up to step n
Emits(es, steps, n, emitted) ==
  emitted = [k \in 0 .. n |-> IF k = 0 THEN es ELSE EmitStep(emitted[k - 1], steps[k])]

\* The emitter after each of the first n steps: there is such a function, whatever n is.
LEMMA EmitsExist ==
  ASSUME NEW es, NEW steps, NEW n \in Nat
  PROVE  \E emitted : Emits(es, steps, n, emitted)
<1> DEFINE S == {m \in Nat : \E emitted : Emits(es, steps, m, emitted)}
<1>1. 0 \in S
  <2>1. Emits(es, steps, 0, [k \in 0 .. 0 |-> es])
    BY DEF Emits
  <2> QED
    BY <2>1
<1>2. ASSUME NEW m \in Nat, m \in S
      PROVE  m + 1 \in S
  <2>1. PICK f : Emits(es, steps, m, f)
    BY <1>2
  <2> DEFINE g == [k \in 0 .. m + 1 |-> IF k = m + 1 THEN EmitStep(f[m], steps[m + 1]) ELSE f[k]]
  <2>2. ASSUME NEW k \in 0 .. m + 1
        PROVE  g[k] = IF k = 0 THEN es ELSE EmitStep(g[k - 1], steps[k])
    <3>1. CASE k = 0
      BY <2>1, <3>1 DEF Emits
    <3>2. CASE k = m + 1
      BY <3>2
    <3>3. CASE k \in 1 .. m
      <4>1. f[k] = EmitStep(f[k - 1], steps[k])
        BY <2>1, <3>3 DEF Emits
      <4>2. g[k] = f[k] /\ g[k - 1] = f[k - 1] /\ k # 0
        BY <3>3
      <4> QED
        BY <4>1, <4>2
    <3> QED
      BY <3>1, <3>2, <3>3
  <2>3. g = [k \in 0 .. m + 1 |-> IF k = 0 THEN es ELSE EmitStep(g[k - 1], steps[k])]
    BY <2>2
  <2> HIDE DEF g
  <2> QED
    BY <2>3 DEF Emits
<1> HIDE DEF S
<1>3. Nat \subseteq S
  BY <1>1, <1>2, NaturalInduction
<1> QED
  BY <1>3 DEF S

\* EmitSteps is what is left after the last of these.
LEMMA EmitStepsIsLast ==
  ASSUME NEW es, NEW steps, Len(steps) \in Nat
  PROVE  \E emitted : /\ EmitSteps(es, steps) = emitted[Len(steps)]
                      /\ emitted[0] = es
                      /\ \A n \in 1 .. Len(steps) : emitted[n] = EmitStep(emitted[n - 1], steps[n])
<1> DEFINE emitted == CHOOSE f : Emits(es, steps, Len(steps), f)
<1>1. Emits(es, steps, Len(steps), emitted)
  BY EmitsExist
<1>2. EmitSteps(es, steps) = emitted[Len(steps)]
  BY DEF EmitSteps, Emits
<1> HIDE DEF emitted
<1>3. emitted[0] = es /\ \A n \in 1 .. Len(steps) : emitted[n] = EmitStep(emitted[n - 1], steps[n])
  <2> DEFINE len == Len(steps)
  <2>1. emitted = [k \in 0 .. len |-> IF k = 0 THEN es ELSE EmitStep(emitted[k - 1], steps[k])]
    BY <1>1 DEF Emits
  <2>2. len \in Nat
    OBVIOUS
  <2> HIDE DEF len
  <2>3. \A k \in 0 .. len : emitted[k] = IF k = 0 THEN es ELSE EmitStep(emitted[k - 1], steps[k])
    BY <2>1
  <2>4. emitted[0] = es
    BY <2>2, <2>3
  <2>5. ASSUME NEW n \in 1 .. len
        PROVE  emitted[n] = EmitStep(emitted[n - 1], steps[n])
    <3>1. n \in 0 .. len /\ n # 0
      BY <2>2
    <3> QED
      BY <2>3, <3>1
  <2> QED
    BY <2>4, <2>5 DEF len
<1> QED
  BY <1>2, <1>3

\* The same for the recursive function of Translation
Coded(code, step) == code \o Alone(step)

Codes(steps, n, code) ==
  code = [k \in 0 .. n |-> IF k = 0 THEN << >> ELSE Coded(code[k - 1], steps[k])]

\* What the first n steps make one by one: there is such a function.
LEMMA CodesExist ==
  ASSUME NEW steps, NEW n \in Nat
  PROVE  \E code : Codes(steps, n, code)
<1> DEFINE S == {m \in Nat : \E code : Codes(steps, m, code)}
<1>1. 0 \in S
  <2>1. Codes(steps, 0, [k \in 0 .. 0 |-> << >>])
    BY DEF Codes
  <2> QED
    BY <2>1
<1>2. ASSUME NEW m \in Nat, m \in S
      PROVE  m + 1 \in S
  <2>1. PICK f : Codes(steps, m, f)
    BY <1>2
  <2> DEFINE g == [k \in 0 .. m + 1 |-> IF k = m + 1 THEN Coded(f[m], steps[m + 1]) ELSE f[k]]
  <2>2. ASSUME NEW k \in 0 .. m + 1
        PROVE  g[k] = IF k = 0 THEN << >> ELSE Coded(g[k - 1], steps[k])
    <3>1. CASE k = 0
      BY <2>1, <3>1 DEF Codes
    <3>2. CASE k = m + 1
      BY <3>2
    <3>3. CASE k \in 1 .. m
      <4>1. f[k] = Coded(f[k - 1], steps[k])
        BY <2>1, <3>3 DEF Codes
      <4>2. g[k] = f[k] /\ g[k - 1] = f[k - 1] /\ k # 0
        BY <3>3
      <4> QED
        BY <4>1, <4>2
    <3> QED
      BY <3>1, <3>2, <3>3
  <2>3. g = [k \in 0 .. m + 1 |-> IF k = 0 THEN << >> ELSE Coded(g[k - 1], steps[k])]
    BY <2>2
  <2> HIDE DEF g
  <2> QED
    BY <2>3 DEF Codes
<1> HIDE DEF S
<1>3. Nat \subseteq S
  BY <1>1, <1>2, NaturalInduction
<1> QED
  BY <1>3 DEF S

\* A translation is what there is after the last of these.
LEMMA TranslationIsLast ==
  ASSUME NEW steps, Len(steps) \in Nat
  PROVE  \E code : /\ Translation(steps) = code[Len(steps)]
                   /\ code[0] = << >>
                   /\ \A n \in 1 .. Len(steps) : code[n] = code[n - 1] \o Alone(steps[n])
<1> DEFINE code == CHOOSE f : Codes(steps, Len(steps), f)
           len == Len(steps)
<1>1. Codes(steps, len, code)
  BY CodesExist
<1>2. Translation(steps) = code[len]
  BY DEF Translation, Codes, Coded
<1>3. len \in Nat
  OBVIOUS
<1> HIDE DEF code, len
<1>4. \A k \in 0 .. len : code[k] = IF k = 0 THEN << >> ELSE Coded(code[k - 1], steps[k])
  BY <1>1 DEF Codes
<1>5. code[0] = << >>
  BY <1>3, <1>4
<1>6. ASSUME NEW n \in 1 .. len
      PROVE  code[n] = code[n - 1] \o Alone(steps[n])
  <2>1. n \in 0 .. len /\ n # 0
    BY <1>3
  <2>2. code[n] = Coded(code[n - 1], steps[n])
    BY <1>4, <2>1
  <2> QED
    BY <2>2 DEF Coded
<1> QED
  BY <1>2, <1>5, <1>6 DEF len

\* What a step makes by itself is code.
LEMMA AloneIsCode ==
  ASSUME NEW t, IsStep(t)
  PROVE  Alone(t) \in Seq(Code)
<1>1. CASE IsMeta(t)
  <2>1. Alone(t) = << >> /\ << >> \in Seq(Code)
    BY <1>1 DEF Alone
  <2> QED
    BY <2>1
<1>2. CASE ~IsMeta(t)
  <2>1. << >> \in Seq(Seq(Code)) /\ << >> \in Seq(Code)
    OBVIOUS
  <2> QED
    BY <1>2, <2>1, InstructionAlone
<1> QED
  BY <1>1, <1>2

\* Code that is the same but for targets, before the same code
LEMMA SameAppended ==
  ASSUME NEW b \in Seq(Code), NEW c \in Seq(Code), NEW d, NEW a \in Seq(Code),
         SameButTargets(c, b), SameButTargets(d, c \o a)
  PROVE  b \o a \in Seq(Code) /\ SameButTargets(d, b \o a)
<1> DEFINE ca == c \o a
           ba == b \o a
<1>1. /\ Len(b) \in Nat /\ Len(a) \in Nat /\ Len(c) = Len(b)
      /\ \A n \in 1 .. Len(c) : c[n].op = b[n].op /\ c[n].metadata = b[n].metadata
      /\ \A n \in 1 .. Len(c), k \in 1 .. 3 : c[n].args[k] = b[n].args[k] \/ IsTarget(b[n], k)
  BY LenProperties DEF SameButTargets
<1>2. /\ ba \in Seq(Code) /\ Len(ba) = Len(b) + Len(a)
      /\ \A n \in 1 .. Len(b) + Len(a) : ba[n] = IF n <= Len(b) THEN b[n] ELSE a[n - Len(b)]
  BY ConcatProperties
<1>3. /\ Len(ca) = Len(c) + Len(a)
      /\ \A n \in 1 .. Len(c) + Len(a) : ca[n] = IF n <= Len(c) THEN c[n] ELSE a[n - Len(c)]
  BY ConcatProperties
<1>4. SameButTargets(d, ca)
  OBVIOUS
<1> HIDE DEF ca, ba
<1>5. /\ Len(ca) = Len(b) + Len(a)
      /\ \A n \in 1 .. Len(b) + Len(a) : ca[n] = IF n <= Len(b) THEN c[n] ELSE a[n - Len(b)]
  BY <1>1, <1>3
<1>6. Len(d) = Len(ba)
  BY <1>2, <1>4, <1>5 DEF SameButTargets
<1>7. ASSUME NEW n \in 1 .. Len(d)
      PROVE  /\ d[n].op = ba[n].op /\ d[n].metadata = ba[n].metadata
             /\ \A k \in 1 .. 3 : d[n].args[k] = ba[n].args[k] \/ IsTarget(ba[n], k)
  <2>1. /\ d[n].op = ca[n].op /\ d[n].metadata = ca[n].metadata
        /\ \A k \in 1 .. 3 : d[n].args[k] = ca[n].args[k] \/ IsTarget(ca[n], k)
    BY <1>4 DEF SameButTargets
  <2>2. CASE n <= Len(b)
    <3>1. n \in 1 .. Len(c) /\ ba[n] = b[n] /\ ca[n] = c[n]
      BY <1>1, <1>2, <1>5, <1>6, <2>2
    <3> QED
      BY <1>1, <2>1, <3>1 DEF IsTarget
  <2>3. CASE n > Len(b)
    <3>1. ba[n] = ca[n]
      BY <1>1, <1>2, <1>5, <1>6, <2>3
    <3> QED
      BY <2>1, <3>1
  <2> QED
    BY <1>1, <1>2, <1>6, <2>2, <2>3
<1> QED
  BY <1>2, <1>6, <1>7 DEF SameButTargets, ba

\* The same for the recursive function of Nests
Opens(steps, n, open) ==
  open = [k \in 0 .. n |-> IF k = 0 THEN NoneOpen ELSE After(open[k - 1], steps[k])]

\* What is open after each of the first n steps: there is such a function.
LEMMA OpensExist ==
  ASSUME NEW steps, NEW n \in Nat
  PROVE  \E open : Opens(steps, n, open)
<1> DEFINE S == {m \in Nat : \E open : Opens(steps, m, open)}
<1>1. 0 \in S
  <2>1. Opens(steps, 0, [k \in 0 .. 0 |-> NoneOpen])
    BY DEF Opens
  <2> QED
    BY <2>1
<1>2. ASSUME NEW m \in Nat, m \in S
      PROVE  m + 1 \in S
  <2>1. PICK f : Opens(steps, m, f)
    BY <1>2
  <2> DEFINE g == [k \in 0 .. m + 1 |-> IF k = m + 1 THEN After(f[m], steps[m + 1]) ELSE f[k]]
  <2>2. ASSUME NEW k \in 0 .. m + 1
        PROVE  g[k] = IF k = 0 THEN NoneOpen ELSE After(g[k - 1], steps[k])
    <3>1. CASE k = 0
      BY <2>1, <3>1 DEF Opens
    <3>2. CASE k = m + 1
      BY <3>2
    <3>3. CASE k \in 1 .. m
      <4>1. f[k] = After(f[k - 1], steps[k])
        BY <2>1, <3>3 DEF Opens
      <4>2. g[k] = f[k] /\ g[k - 1] = f[k - 1] /\ k # 0
        BY <3>3
      <4> QED
        BY <4>1, <4>2
    <3> QED
      BY <3>1, <3>2, <3>3
  <2>3. g = [k \in 0 .. m + 1 |-> IF k = 0 THEN NoneOpen ELSE After(g[k - 1], steps[k])]
    BY <2>2
  <2> HIDE DEF g
  <2> QED
    BY <2>3 DEF Opens
<1> HIDE DEF S
<1>3. Nat \subseteq S
  BY <1>1, <1>2, NaturalInduction
<1> QED
  BY <1>3 DEF S

\* When the marks nest, each fits what is open before it, and nothing is open at the end.
LEMMA NestingOpens ==
  ASSUME NEW steps, Len(steps) \in Nat, Nests(steps)
  PROVE  \E open : /\ open[0] = NoneOpen /\ open[Len(steps)] = NoneOpen
                   /\ \A n \in 1 .. Len(steps) :
                        Fits(open[n - 1], steps[n]) /\ open[n] = After(open[n - 1], steps[n])
<1> DEFINE open == CHOOSE f : Opens(steps, Len(steps), f)
<1>1. Opens(steps, Len(steps), open)
  BY OpensExist
<1>2. /\ \A n \in 1 .. Len(steps) : Fits(open[n - 1], steps[n])
      /\ open[Len(steps)] = NoneOpen
  BY DEF Nests, Opens
<1> HIDE DEF open
<1> DEFINE len == Len(steps)
<1>3. open = [k \in 0 .. len |-> IF k = 0 THEN NoneOpen ELSE After(open[k - 1], steps[k])]
  BY <1>1 DEF Opens
<1>4. len \in Nat
  OBVIOUS
<1> HIDE DEF len
<1>5. \A k \in 0 .. len : open[k] = IF k = 0 THEN NoneOpen ELSE After(open[k - 1], steps[k])
  BY <1>3
<1>6. open[0] = NoneOpen
  BY <1>4, <1>5
<1>7. ASSUME NEW n \in 1 .. len
      PROVE  open[n] = After(open[n - 1], steps[n])
  <2>1. n \in 0 .. len /\ n # 0
    BY <1>4
  <2> QED
    BY <1>5, <2>1
<1> QED
  BY <1>2, <1>6, <1>7 DEF len

--------------------------------------------------------------------------------
\* The traversal

Elems(s) == {s[k] : k \in 1 .. Len(s)}

\* A set of blocks that the links do not leave
ClosedUnder(cfg, S) == \A id \in S : Successors(cfg, id) \subseteq S

\* What the recursive function of Visited is, up to turn n
Turns(cfg, n, turn) ==
  turn = [k \in 0 .. n |->
            IF k = 0 THEN [frontier |-> <<0>>, visited |-> << >>] ELSE Visit(cfg, turn[k - 1])]

\* The state of the loop after each of its first n turns: there is such a function.
LEMMA TurnsExist ==
  ASSUME NEW cfg, NEW n \in Nat
  PROVE  \E turn : Turns(cfg, n, turn)
<1> DEFINE S == {m \in Nat : \E turn : Turns(cfg, m, turn)}
           first == [frontier |-> <<0>>, visited |-> << >>]
<1> HIDE DEF first
<1>1. 0 \in S
  <2>1. Turns(cfg, 0, [k \in 0 .. 0 |-> first])
    BY DEF Turns, first
  <2> QED
    BY <2>1
<1>2. ASSUME NEW m \in Nat, m \in S
      PROVE  m + 1 \in S
  <2>1. PICK f : Turns(cfg, m, f)
    BY <1>2
  <2>2. f = [k \in 0 .. m |-> IF k = 0 THEN first ELSE Visit(cfg, f[k - 1])]
    BY <2>1 DEF Turns, first
  <2> DEFINE g == [k \in 0 .. m + 1 |-> IF k = m + 1 THEN Visit(cfg, f[m]) ELSE f[k]]
  <2>3. ASSUME NEW k \in 0 .. m + 1
        PROVE  g[k] = IF k = 0 THEN first ELSE Visit(cfg, g[k - 1])
    <3>1. CASE k = 0
      BY <2>2, <3>1
    <3>2. CASE k = m + 1
      BY <3>2
    <3>3. CASE k \in 1 .. m
      <4>1. f[k] = Visit(cfg, f[k - 1])
        BY <2>2, <3>3
      <4>2. g[k] = f[k] /\ g[k - 1] = f[k - 1] /\ k # 0
        BY <3>3
      <4> QED
        BY <4>1, <4>2
    <3> QED
      BY <3>1, <3>2, <3>3
  <2>4. g = [k \in 0 .. m + 1 |-> IF k = 0 THEN first ELSE Visit(cfg, g[k - 1])]
    BY <2>3
  <2> HIDE DEF g
  <2> QED
    BY <2>4 DEF Turns, first
<1> HIDE DEF S
<1>3. Nat \subseteq S
  BY <1>1, <1>2, NaturalInduction
<1> QED
  BY <1>3 DEF S

\* Visited is what has been visited after the last turn.
LEMMA VisitedIsLast ==
  ASSUME NEW cfg, NEW n \in Nat, n = 2 * Len(cfg) + 1
  PROVE  \E turn : /\ Visited(cfg) = turn[n].visited
                   /\ turn[0].frontier = <<0>> /\ turn[0].visited = << >>
                   /\ \A k \in 1 .. n : turn[k] = Visit(cfg, turn[k - 1])
<1> DEFINE turn == CHOOSE f : Turns(cfg, n, f)
<1>1. Turns(cfg, n, turn)
  BY TurnsExist
<1>2. Visited(cfg) = turn[n].visited
  BY DEF Visited, Turns
<1> HIDE DEF turn
<1>3. turn[0] = [frontier |-> <<0>>, visited |-> << >>]
  BY <1>1 DEF Turns
<1>4. \A k \in 1 .. n : turn[k] = Visit(cfg, turn[k - 1])
  BY <1>1 DEF Turns
<1>5. turn[0].frontier = <<0>> /\ turn[0].visited = << >>
  BY <1>3
<1> QED
  BY <1>2, <1>4, <1>5

\* The elements of a stack are its top and the rest.
LEMMA TopAndRest ==
  ASSUME NEW S, NEW stack \in Seq(S), stack # << >>
  PROVE  /\ Popped(stack) \in Seq(S) /\ Len(Popped(stack)) = Len(stack) - 1
         /\ Top(stack) \in S /\ Elems(stack) = Elems(Popped(stack)) \cup {Top(stack)}
         /\ Len(stack) \in Nat \ {0}
<1>1. /\ Popped(stack) \in Seq(S) /\ Len(Popped(stack)) = Len(stack) - 1
      /\ \A k \in 1 .. Len(stack) - 1 : Popped(stack)[k] = stack[k]
      /\ Top(stack) = stack[Len(stack)] /\ Top(stack) \in S
      /\ Len(stack) \in Nat \ {0}
  BY StackFacts DEF Popped, Outer, Top, Inner
<1> DEFINE n == Len(stack)
<1>2. 1 .. n = (1 .. n - 1) \cup {n}
  BY <1>1
<1> QED
  BY <1>1, <1>2 DEF Elems

\* The elements of one sequence after another
LEMMA ElemsOfConcat ==
  ASSUME NEW S, NEW s \in Seq(S), NEW t \in Seq(S)
  PROVE  s \o t \in Seq(S) /\ Len(s \o t) = Len(s) + Len(t) /\ Elems(s \o t) = Elems(s) \cup Elems(t)
<1>1. /\ s \o t \in Seq(S) /\ Len(s \o t) = Len(s) + Len(t)
      /\ \A k \in 1 .. Len(s) + Len(t) :
           (s \o t)[k] = IF k <= Len(s) THEN s[k] ELSE t[k - Len(s)]
  BY ConcatProperties
<1>2. Len(s) \in Nat /\ Len(t) \in Nat
  BY LenProperties
<1> DEFINE u == s \o t
<1> HIDE DEF u
<1>3. Elems(s) \cup Elems(t) \subseteq Elems(u)
  <2>1. ASSUME NEW k \in 1 .. Len(s)
        PROVE  s[k] \in Elems(u)
    BY <1>1, <1>2 DEF Elems, u
  <2>2. ASSUME NEW k \in 1 .. Len(t)
        PROVE  t[k] \in Elems(u)
    <3>1. Len(s) + k \in 1 .. Len(u) /\ u[Len(s) + k] = t[k]
      BY <1>1, <1>2 DEF u
    <3> QED
      BY <3>1 DEF Elems
  <2> QED
    BY <2>1, <2>2 DEF Elems
<1>4. Elems(u) \subseteq Elems(s) \cup Elems(t)
  <2> SUFFICES ASSUME NEW k \in 1 .. Len(s) + Len(t)
               PROVE  u[k] \in Elems(s) \cup Elems(t)
    BY <1>1 DEF Elems, u
  <2>1. CASE k <= Len(s)
    BY <1>1, <1>2, <2>1 DEF Elems, u
  <2>2. CASE k > Len(s)
    <3>1. k - Len(s) \in 1 .. Len(t) /\ u[k] = t[k - Len(s)]
      BY <1>1, <1>2, <2>2 DEF u
    <3> QED
      BY <3>1 DEF Elems
  <2> QED
    BY <1>2, <2>1, <2>2
<1> QED
  BY <1>1, <1>3, <1>4 DEF u

\* A link as a sequence
LEMMA ChildFacts ==
  ASSUME NEW S, NEW id, id # DudBlock => id \in S
  PROVE  Child(id) \in Seq(S) /\ Len(Child(id)) \in 0 .. 1 /\ Elems(Child(id)) = {id} \ {DudBlock}
<1>1. CASE id = DudBlock
  <2>1. Child(id) = << >> /\ << >> \in Seq(S) /\ Len(<< >>) = 0
    BY <1>1 DEF Child
  <2> QED
    BY <1>1, <2>1 DEF Elems
<1>2. CASE id # DudBlock
  <2>1. Child(id) = <<id>> /\ <<id>> \in Seq(S) /\ Len(<<id>>) = 1 /\ <<id>>[1] = id
    BY <1>2 DEF Child
  <2>2. 1 .. 1 = {1}
    OBVIOUS
  <2> QED
    BY <1>2, <2>1, <2>2 DEF Elems
<1> QED
  BY <1>1, <1>2

\* The frontier after a block was visited
LEMMA SuccessorsPushed ==
  ASSUME NEW S, NEW cfg, NEW id, Successors(cfg, id) \subseteq S, NEW frontier \in Seq(S)
  PROVE  LET f == PushSuccessors(frontier, GetBB(cfg, id))
         IN  /\ f \in Seq(S) /\ Len(f) \in Nat /\ Len(f) <= Len(frontier) + 2
             /\ Elems(f) = Elems(frontier) \cup Successors(cfg, id)
<1> DEFINE bb == GetBB(cfg, id)
           falsy == Child(bb.falsy_id)
           truthy == Child(bb.truthy_id)
           half == frontier \o falsy
<1>1. (bb.falsy_id # DudBlock => bb.falsy_id \in S) /\ (bb.truthy_id # DudBlock => bb.truthy_id \in S)
  BY DEF Successors
<1>2. Successors(cfg, id) = ({bb.falsy_id} \ {DudBlock}) \cup ({bb.truthy_id} \ {DudBlock})
  BY DEF Successors
<1> HIDE DEF bb
<1>3. falsy \in Seq(S) /\ Len(falsy) \in 0 .. 1 /\ Elems(falsy) = {bb.falsy_id} \ {DudBlock}
  BY <1>1, ChildFacts
<1>4. truthy \in Seq(S) /\ Len(truthy) \in 0 .. 1 /\ Elems(truthy) = {bb.truthy_id} \ {DudBlock}
  BY <1>1, ChildFacts
<1> HIDE DEF falsy, truthy
<1>5. half \in Seq(S) /\ Len(half) = Len(frontier) + Len(falsy)
      /\ Elems(half) = Elems(frontier) \cup Elems(falsy)
  BY <1>3, ElemsOfConcat
<1> HIDE DEF half
<1>6. half \o truthy \in Seq(S) /\ Len(half \o truthy) = Len(half) + Len(truthy)
      /\ Elems(half \o truthy) = Elems(half) \cup Elems(truthy)
  BY <1>4, <1>5, ElemsOfConcat
<1>7. PushSuccessors(frontier, GetBB(cfg, id)) = half \o truthy
  BY DEF PushSuccessors, half, falsy, truthy, bb
<1>8. Len(frontier) \in Nat
  BY LenProperties
<1>9. Len(half \o truthy) \in Nat /\ Len(half \o truthy) <= Len(frontier) + 2
  <2> DEFINE a == Len(frontier)
             b == Len(falsy)
             c == Len(truthy)
             d == Len(half \o truthy)
  <2>1. d = (a + b) + c /\ a \in Nat /\ b \in 0 .. 1 /\ c \in 0 .. 1
    BY <1>3, <1>4, <1>5, <1>6, <1>8
  <2> HIDE DEF a, b, c, d
  <2>2. d \in Nat /\ d <= a + 2
    BY <2>1
  <2> QED
    BY <2>2 DEF a, d
<1> QED
  BY <1>2, <1>3, <1>4, <1>5, <1>6, <1>7, <1>9

(***************************************************************************)
(* The loop of emit_chunk before turn n + 1: no block was visited twice;   *)
(* what is linked to a visited block is visited or waits; nothing else is  *)
(* there than what the head leads to; and each block visited has paid for  *)
(* the two turns that its links may take.                                  *)
(***************************************************************************)
NoRepeats(s) == \A j, k \in 1 .. Len(s) : s[j] = s[k] => j = k
Exploring(cfg, frontier, visited, n) ==
  /\ frontier \in Seq(Blocks(cfg)) /\ visited \in Seq(Blocks(cfg)) /\ NoRepeats(visited)
  /\ 0 \in Elems(visited) \cup Elems(frontier)
  /\ \A id \in Elems(visited) : Successors(cfg, id) \subseteq Elems(visited) \cup Elems(frontier)
  /\ \A S : 0 \in S /\ ClosedUnder(cfg, S) => Elems(visited) \cup Elems(frontier) \subseteq S
  /\ frontier # << >> => n + Len(frontier) <= 1 + 2 * Len(visited)

\* What IsGraph says in terms of indices
LEMMA GraphFacts ==
  ASSUME NEW cfg, IsGraph(cfg)
  PROVE  /\ Len(cfg) \in Nat \ {0} /\ 0 \in Blocks(cfg)
         /\ \A id \in Blocks(cfg) : Successors(cfg, id) \subseteq Blocks(cfg)
<1>1. PICK T : cfg \in Seq(T) /\ cfg # << >>
  BY DEF IsGraph, IsSequence
<1>2. Len(cfg) \in Nat /\ Len(cfg) # 0
  BY <1>1, LenProperties, EmptySeq
<1> QED
  BY <1>2 DEF IsGraph, Blocks

\* The first turn
LEMMA ExploringBegins ==
  ASSUME NEW cfg, IsGraph(cfg)
  PROVE  Exploring(cfg, <<0>>, << >>, 0)
<1>1. 0 \in Blocks(cfg)
  BY GraphFacts
<1>2. <<0>> \in Seq(Blocks(cfg)) /\ Len(<<0>>) = 1 /\ <<0>>[1] = 0
  BY <1>1
<1>3. << >> \in Seq(Blocks(cfg)) /\ Len(<< >>) = 0
  OBVIOUS
<1>4. 1 .. 1 = {1} /\ 1 .. 0 = {}
  OBVIOUS
<1>5. Elems(<<0>>) = {0}
  BY <1>2, <1>4 DEF Elems
<1>6. Elems(<< >>) = {}
  BY <1>3, <1>4 DEF Elems
<1>7. NoRepeats(<< >>)
  BY <1>3, <1>4 DEF NoRepeats
<1>8. 0 + Len(<<0>>) <= 1 + 2 * Len(<< >>)
  BY <1>2, <1>3
<1> QED
  BY <1>2, <1>3, <1>5, <1>6, <1>7, <1>8 DEF Exploring

\* Appending what is not there leaves no repeats.
LEMMA StillNoRepeats ==
  ASSUME NEW S, NEW s \in Seq(S), NEW x \in S, NoRepeats(s), x \notin Elems(s)
  PROVE  /\ Append(s, x) \in Seq(S) /\ Len(Append(s, x)) = Len(s) + 1
         /\ NoRepeats(Append(s, x)) /\ Elems(Append(s, x)) = Elems(s) \cup {x}
<1> DEFINE u == Append(s, x)
           n == Len(s)
<1>1. /\ u \in Seq(S) /\ Len(u) = n + 1 /\ n \in Nat /\ u[n + 1] = x
      /\ \A k \in 1 .. n : u[k] = s[k]
  BY AppendProperties, LenProperties
<1> HIDE DEF u
<1>2. 1 .. n + 1 = (1 .. n) \cup {n + 1}
  BY <1>1
<1>3. NoRepeats(u)
  <2> SUFFICES ASSUME NEW j \in 1 .. n + 1, NEW k \in 1 .. n + 1, u[j] = u[k]
               PROVE  j = k
    BY <1>1 DEF NoRepeats
  <2>1. \A m \in 1 .. n : u[m] # x
    BY <1>1 DEF Elems
  <2>2. CASE j \in 1 .. n /\ k \in 1 .. n
    BY <1>1, <2>2 DEF NoRepeats
  <2>3. CASE j = n + 1 \/ k = n + 1
    BY <1>1, <1>2, <2>1, <2>3
  <2> QED
    BY <1>2, <2>2, <2>3
<1>4. Elems(u) = Elems(s) \cup {x}
  BY <1>1, <1>2 DEF Elems
<1> QED
  BY <1>1, <1>3, <1>4 DEF u

\* A turn of the loop
LEMMA ExploringGoesOn ==
  ASSUME NEW cfg, IsGraph(cfg), NEW t, NEW n \in Nat, Exploring(cfg, t.frontier, t.visited, n)
  PROVE  Exploring(cfg, Visit(cfg, t).frontier, Visit(cfg, t).visited, n + 1)
<1> DEFINE f == t.frontier
           v == t.visited
           B == Blocks(cfg)
           top == Top(f)
           rest == Popped(f)
           u == Visit(cfg, t)
<1>1. f \in Seq(B) /\ v \in Seq(B) /\ NoRepeats(v)
  BY DEF Exploring
<1>2. \A id \in B : Successors(cfg, id) \subseteq B
  BY GraphFacts
<1>3. Elems(v) = {v[k] : k \in DOMAIN v} /\ Len(v) \in Nat
  <2>1. DOMAIN v = 1 .. Len(v)
    BY <1>1, LenProperties
  <2> QED
    BY <1>1, <2>1, LenProperties DEF Elems
<1>4. CASE f = << >>
  <2>1. u = t
    BY <1>4 DEF Visit
  <2> QED
    BY <1>4, <2>1 DEF Exploring
<1>5. CASE f # << >> /\ top \in Elems(v)
  <2>1. u.frontier = rest /\ u.visited = v
    BY <1>3, <1>5 DEF Visit
  <2>2. /\ rest \in Seq(B) /\ Len(rest) = Len(f) - 1 /\ Elems(f) = Elems(rest) \cup {top}
        /\ Len(f) \in Nat \ {0}
    BY <1>1, <1>5, TopAndRest
  <2>3. n + Len(f) <= 1 + 2 * Len(v)
    BY <1>5 DEF Exploring
  <2>4. (n + 1) + Len(rest) <= 1 + 2 * Len(v)
    <3> DEFINE a == Len(f)
               b == Len(rest)
               c == Len(v)
    <3>1. a \in Nat \ {0} /\ b = a - 1 /\ c \in Nat /\ n + a <= 1 + 2 * c
      BY <1>3, <2>2, <2>3
    <3> HIDE DEF a, b, c
    <3>2. (n + 1) + b <= 1 + 2 * c
      BY <3>1
    <3> QED
      BY <3>2 DEF b, c
  <2>5. Elems(v) \cup Elems(f) = Elems(v) \cup Elems(rest)
    BY <1>5, <2>2
  <2> HIDE DEF f, v, rest, top, u
  <2>6. Exploring(cfg, f, v, n)
    BY DEF f, v
  <2>7. Exploring(cfg, rest, v, n + 1)
    BY <2>2, <2>4, <2>5, <2>6 DEF Exploring, B
  <2> QED
    BY <2>1, <2>7 DEF u
<1>6. CASE f # << >> /\ top \notin Elems(v)
  <2> DEFINE g == PushSuccessors(rest, GetBB(cfg, top))
             w == Append(v, top)
  <2>1. u.frontier = g /\ u.visited = w
    BY <1>3, <1>6 DEF Visit
  <2>2. /\ rest \in Seq(B) /\ Len(rest) = Len(f) - 1 /\ Elems(f) = Elems(rest) \cup {top}
        /\ Len(f) \in Nat \ {0} /\ top \in B
    BY <1>1, <1>6, TopAndRest
  <2>3. /\ g \in Seq(B) /\ Len(g) \in Nat /\ Len(g) <= Len(rest) + 2
        /\ Elems(g) = Elems(rest) \cup Successors(cfg, top)
    BY <1>2, <2>2, SuccessorsPushed
  <2>4. w \in Seq(B) /\ Len(w) = Len(v) + 1 /\ NoRepeats(w) /\ Elems(w) = Elems(v) \cup {top}
    BY <1>1, <1>6, <2>2, StillNoRepeats
  <2>5. n + Len(f) <= 1 + 2 * Len(v)
    BY <1>6 DEF Exploring
  <2> HIDE DEF f, v, rest, top, u, g, w, B
  <2>6. (n + 1) + Len(g) <= 1 + 2 * Len(w)
    BY <1>3, <2>2, <2>3, <2>4, <2>5
  <2>7. Exploring(cfg, f, v, n)
    BY DEF f, v
  <2>8. Elems(w) \cup Elems(g) = (Elems(v) \cup Elems(f)) \cup Successors(cfg, top)
    BY <2>2, <2>3, <2>4
  <2>9. 0 \in Elems(w) \cup Elems(g)
    BY <2>7, <2>8 DEF Exploring
  <2>10. \A id \in Elems(w) : Successors(cfg, id) \subseteq Elems(w) \cup Elems(g)
    BY <2>4, <2>7, <2>8 DEF Exploring
  <2>11. \A S : 0 \in S /\ ClosedUnder(cfg, S) => Elems(w) \cup Elems(g) \subseteq S
    <3> SUFFICES ASSUME NEW S, 0 \in S, ClosedUnder(cfg, S)
                 PROVE  Elems(w) \cup Elems(g) \subseteq S
      OBVIOUS
    <3>1. Elems(v) \cup Elems(f) \subseteq S
      BY <2>7 DEF Exploring
    <3>2. top \in S
      BY <2>2, <3>1
    <3>3. Successors(cfg, top) \subseteq S
      BY <3>2 DEF ClosedUnder
    <3> QED
      BY <2>8, <3>1, <3>3
  <2>12. Exploring(cfg, g, w, n + 1)
    BY <2>3, <2>4, <2>6, <2>9, <2>10, <2>11 DEF Exploring, B
  <2> QED
    BY <2>1, <2>12 DEF u
<1> QED
  BY <1>4, <1>5, <1>6

\* Counting from 1 and from 0
LEMMA IntervalsCount ==
  ASSUME NEW n \in Nat
  PROVE  /\ IsFiniteSet(1 .. n) /\ Cardinality(1 .. n) = n
         /\ IsFiniteSet(0 .. n - 1) /\ Cardinality(0 .. n - 1) = n
<1>1. 0 \in Int /\ 1 \in Int /\ n \in Int /\ n - 1 \in Int
  OBVIOUS
<1>2. IsFiniteSet(1 .. n) /\ IsFiniteSet(0 .. n - 1)
  BY <1>1, FS_Interval
<1>3. Cardinality(1 .. n) = IF 1 > n THEN 0 ELSE n - 1 + 1
  BY <1>1, FS_Interval
<1>4. Cardinality(0 .. n - 1) = IF 0 > n - 1 THEN 0 ELSE (n - 1) - 0 + 1
  BY <1>1, FS_Interval
<1>5. Cardinality(1 .. n) = n
  BY <1>3
<1>6. Cardinality(0 .. n - 1) = n
  BY <1>4
<1> QED
  BY <1>2, <1>5, <1>6

\* There are no more blocks without repeats than blocks.
LEMMA RoomForVisited ==
  ASSUME NEW cfg, IsGraph(cfg), NEW s \in Seq(Blocks(cfg)), NoRepeats(s)
  PROVE  Len(s) \in Nat /\ Len(s) <= Len(cfg)
<1> DEFINE n == Len(s)
           m == Len(cfg)
<1>1. n \in Nat /\ m \in Nat \ {0}
  BY GraphFacts, LenProperties
<1>2. s \in [1 .. n -> Blocks(cfg)]
  BY LenProperties, ElementOfSeq
<1>3. IsFiniteSet(1 .. n) /\ Cardinality(1 .. n) = n
  BY <1>1, IntervalsCount
<1>4. IsFiniteSet(Blocks(cfg)) /\ Cardinality(Blocks(cfg)) = m
  BY <1>1, IntervalsCount DEF Blocks
<1>5. ASSUME m < n PROVE FALSE
  <2>1. \E x, y \in 1 .. n : x # y /\ s[x] = s[y]
    BY <1>2, <1>3, <1>4, <1>5, FS_PigeonHole
  <2> QED
    BY <2>1 DEF NoRepeats
<1> QED
  BY <1>1, <1>5

(***************************************************************************)
(* emit_chunk emits each block that the head leads to once, and no other,  *)
(* whatever the links of the graph are; its loop takes at most two turns   *)
(* for each block and one more.                                            *)
(***************************************************************************)
THEOREM BlocksVisitedOnce ==
  ASSUME NEW cfg, IsGraph(cfg)
  PROVE  /\ Visited(cfg) \in Seq(Blocks(cfg)) /\ NoRepeats(Visited(cfg))
         /\ 0 \in Elems(Visited(cfg)) /\ ClosedUnder(cfg, Elems(Visited(cfg)))
         /\ \A S : 0 \in S /\ ClosedUnder(cfg, S) => Elems(Visited(cfg)) \subseteq S
<1> DEFINE n == 2 * Len(cfg) + 1
<1>1. Len(cfg) \in Nat \ {0} /\ n \in Nat
  BY GraphFacts
<1>2. PICK turn : /\ Visited(cfg) = turn[n].visited
                  /\ turn[0].frontier = <<0>> /\ turn[0].visited = << >>
                  /\ \A k \in 1 .. n : turn[k] = Visit(cfg, turn[k - 1])
  BY <1>1, VisitedIsLast
<1> DEFINE Good(k) == Exploring(cfg, turn[k].frontier, turn[k].visited, k)
           S == {k \in Nat : k <= n => Good(k)}
<1>3. Good(0)
  BY <1>2, ExploringBegins
<1>4. ASSUME NEW k \in Nat, k + 1 <= n, Good(k)
      PROVE  Good(k + 1)
  <2>1. k + 1 \in 1 .. n /\ (k + 1) - 1 = k
    BY <1>1, <1>4
  <2>2. turn[k + 1] = Visit(cfg, turn[k])
    BY <1>2, <2>1
  <2>3. Exploring(cfg, Visit(cfg, turn[k]).frontier, Visit(cfg, turn[k]).visited, k + 1)
    BY <1>4, ExploringGoesOn
  <2> QED
    BY <2>2, <2>3
<1> HIDE DEF Good
<1>5. 0 \in S
  BY <1>3
<1>6. ASSUME NEW k \in Nat, k \in S
      PROVE  k + 1 \in S
  BY <1>1, <1>4, <1>6
<1> HIDE DEF S
<1>7. Nat \subseteq S
  BY <1>5, <1>6, NaturalInduction
<1>8. Good(n)
  BY <1>1, <1>7 DEF S
<1> DEFINE f == turn[n].frontier
           v == turn[n].visited
<1>9. Exploring(cfg, f, v, n)
  BY <1>8 DEF Good
<1> HIDE DEF f, v
<1>10. v \in Seq(Blocks(cfg)) /\ NoRepeats(v) /\ f \in Seq(Blocks(cfg))
  BY <1>9 DEF Exploring
<1>11. Len(v) \in Nat /\ Len(v) <= Len(cfg) /\ Len(f) \in Nat
  BY <1>10, RoomForVisited, LenProperties
<1>12. f = << >>
  <2> SUFFICES ASSUME f # << >> PROVE FALSE
    OBVIOUS
  <2>1. n + Len(f) <= 1 + 2 * Len(v)
    BY <1>9 DEF Exploring
  <2>2. Len(f) # 0
    BY <1>10, EmptySeq
  <2> QED
    BY <1>1, <1>11, <2>1, <2>2
<1>13. Elems(f) = {}
  BY <1>12 DEF Elems
<1>14. /\ 0 \in Elems(v) /\ ClosedUnder(cfg, Elems(v))
       /\ \A X : 0 \in X /\ ClosedUnder(cfg, X) => Elems(v) \subseteq X
  BY <1>9, <1>13 DEF Exploring, ClosedUnder
<1> QED
  BY <1>2, <1>10, <1>14 DEF v

--------------------------------------------------------------------------------
\* The steps in the order of the traversal

StepsOf(cfg, id) == GetBB(cfg, id).steps
AllSteps(cfg) ==
  UNION {{StepsOf(cfg, id)[k] : k \in DOMAIN StepsOf(cfg, id)} : id \in Blocks(cfg)}

Joined(cfg, id, steps) == steps \o GetBB(cfg, id).steps

\* What the recursive function of StepsInOrder is, up to block n
Joins(cfg, order, n, joined) ==
  joined = [k \in 0 .. n |-> IF k = 0 THEN << >> ELSE Joined(cfg, order[k], joined[k - 1])]

\* The steps of the first n blocks: there is such a function, whatever n is.
LEMMA JoinsExist ==
  ASSUME NEW cfg, NEW order, NEW n \in Nat
  PROVE  \E joined : Joins(cfg, order, n, joined)
<1> DEFINE S == {m \in Nat : \E joined : Joins(cfg, order, m, joined)}
<1>1. 0 \in S
  <2>1. Joins(cfg, order, 0, [k \in 0 .. 0 |-> << >>])
    BY DEF Joins
  <2> QED
    BY <2>1
<1>2. ASSUME NEW m \in Nat, m \in S
      PROVE  m + 1 \in S
  <2>1. PICK f : Joins(cfg, order, m, f)
    BY <1>2
  <2> DEFINE g == [k \in 0 .. m + 1 |->
                     IF k = m + 1 THEN Joined(cfg, order[m + 1], f[m]) ELSE f[k]]
  <2>2. ASSUME NEW k \in 0 .. m + 1
        PROVE  g[k] = IF k = 0 THEN << >> ELSE Joined(cfg, order[k], g[k - 1])
    <3>1. CASE k = 0
      BY <2>1, <3>1 DEF Joins
    <3>2. CASE k = m + 1
      BY <3>2
    <3>3. CASE k \in 1 .. m
      <4>1. f[k] = Joined(cfg, order[k], f[k - 1])
        BY <2>1, <3>3 DEF Joins
      <4>2. g[k] = f[k] /\ g[k - 1] = f[k - 1] /\ k # 0
        BY <3>3
      <4> QED
        BY <4>1, <4>2
    <3> QED
      BY <3>1, <3>2, <3>3
  <2>3. g = [k \in 0 .. m + 1 |-> IF k = 0 THEN << >> ELSE Joined(cfg, order[k], g[k - 1])]
    BY <2>2
  <2> HIDE DEF g
  <2> QED
    BY <2>3 DEF Joins
<1> HIDE DEF S
<1>3. Nat \subseteq S
  BY <1>1, <1>2, NaturalInduction
<1> QED
  BY <1>3 DEF S

\* The steps of a graph in order are a sequence of its steps.
LEMMA StepsAreCounted ==
  ASSUME NEW cfg, IsGraph(cfg)
  PROVE  StepsInOrder(cfg) \in Seq(AllSteps(cfg)) /\ Len(StepsInOrder(cfg)) \in Nat
<1> DEFINE order == Visited(cfg)
           n == Len(order)
           T == AllSteps(cfg)
<1>1. order \in Seq(Blocks(cfg)) /\ n \in Nat /\ \A k \in 1 .. n : order[k] \in Blocks(cfg)
  BY BlocksVisitedOnce, LenProperties, ElementOfSeq
<1>2. \A id \in Blocks(cfg) : GetBB(cfg, id).steps \in Seq(T)
  <2> SUFFICES ASSUME NEW id \in Blocks(cfg) PROVE StepsOf(cfg, id) \in Seq(T)
    BY DEF StepsOf
  <2> DEFINE s == StepsOf(cfg, id)
             E == {s[k] : k \in DOMAIN s}
  <2>1. s \in Seq(E)
    BY DEF IsGraph, IsSequence, StepsOf
  <2>2. E \subseteq T
    BY DEF AllSteps
  <2> HIDE DEF s, E, T
  <2>3. s \in Seq(T)
    BY <2>1, <2>2
  <2> QED
    BY <2>3 DEF s
<1> DEFINE joined == CHOOSE f : Joins(cfg, order, n, f)
<1> HIDE DEF T
<1>3. Joins(cfg, order, n, joined)
  BY <1>1, JoinsExist
<1>4. StepsInOrder(cfg) = joined[n]
  BY DEF StepsInOrder, Joins, Joined
<1> HIDE DEF joined, order, n
<1>5. joined[0] = << >> /\ \A k \in 1 .. n : joined[k] = Joined(cfg, order[k], joined[k - 1])
  BY <1>1, <1>3 DEF Joins
<1> DEFINE S == {k \in Nat : k <= n => joined[k] \in Seq(T)}
<1>6. 0 \in S
  <2>1. << >> \in Seq(T)
    OBVIOUS
  <2> QED
    BY <1>5, <2>1
<1>7. ASSUME NEW k \in Nat, k \in S
      PROVE  k + 1 \in S
  <2> SUFFICES ASSUME k + 1 <= n PROVE joined[k + 1] \in Seq(T)
    OBVIOUS
  <2> DEFINE s == joined[k]
             t == GetBB(cfg, order[k + 1]).steps
  <2>1. k + 1 \in 1 .. n /\ (k + 1) - 1 = k /\ k <= n
    BY <1>1
  <2>2. s \in Seq(T)
    BY <1>7, <2>1
  <2>3. t \in Seq(T)
    BY <1>1, <1>2, <2>1
  <2>4. joined[k + 1] = s \o t
    BY <1>5, <2>1 DEF Joined
  <2> HIDE DEF s, t
  <2>5. s \o t \in Seq(T)
    BY <2>2, <2>3, ConcatProperties
  <2> QED
    BY <2>4, <2>5
<1> HIDE DEF S
<1>8. Nat \subseteq S
  BY <1>6, <1>7, NaturalInduction
<1>9. joined[n] \in Seq(T)
  BY <1>1, <1>8 DEF S
<1> QED
  BY <1>4, <1>9, LenProperties DEF T

--------------------------------------------------------------------------------
\* Between chunks

\* An empty chunk is on track.
LEMMA NothingTracked ==
  Tracks(<< >>, << >>, << >>, NoneOpen, NopStep)
<1>1. Typed(<< >>, << >>, << >>, NoneOpen)
  BY DEF Typed, NoneOpen
<1>2. Tracked(<< >>, << >>, << >>, NoneOpen, NopStep) /\ JumpsKnown(<< >>, << >>, << >>, NoneOpen, NopStep)
      /\ CallsMoved(<< >>)
  BY DEF Tracked, JumpsKnown, CallsMoved
<1> QED
  BY <1>1, <1>2 DEF Tracks, LastIs

\* A chunk after whose last step nothing is open
LEMMA FinishedChunk ==
  ASSUME NEW c, NEW ifs, NEW loops, NEW s,
         Tracks(c, ifs, loops, NoneOpen, s), Neighbours(s, NopStep), Countable(c)
  PROVE  /\ ifs = << >> /\ loops = << >> /\ c \in Seq(Code)
         /\ WellFormedChunk(c) /\ JumpsToNops(c)
<1>1. /\ c \in Seq(Code) /\ ifs \in Seq(OpenIf) /\ loops \in Seq(OpenLoop)
      /\ Len(ifs) = 0 /\ Len(loops) = 0
  BY DEF Tracks, Typed, NoneOpen
<1>2. ifs = << >> /\ loops = << >>
  BY <1>1, EmptySeq
<1>3. DOMAIN c = 1 .. Len(c) /\ \A n \in 1 .. Len(c) : c[n] \in Code
  BY <1>1, LenProperties, ElementOfSeq
<1>4. s.op \notin {"jump", "jump_else"}
  BY DEF Neighbours, NopStep, OperNonary, JumpMarks, JumpElseMarks
<1>5. ASSUME NEW n \in 1 .. Len(c), IsJump(c[n])
      PROVE  IsAt(c, JumpTarget(c[n]), "nop")
  <2>1. Lands(c, c[n]) \/ Awaits(ifs, loops, NoneOpen, n - 1)
    BY <1>4, <1>5 DEF Tracks, JumpsKnown
  <2>2. ~Awaits(ifs, loops, NoneOpen, n - 1)
    BY <1>1 DEF Awaits
  <2> QED
    BY <2>1, <2>2 DEF Lands
<1>6. JumpsToNops(c)
  <2> SUFFICES ASSUME NEW n \in 1 .. Len(c), c[n].op \in {"jump", "jump_else"}
               PROVE  /\ JumpTarget(c[n]) + 1 \in DOMAIN c /\ JumpTarget(c[n]) + 1 # n
                      /\ c[JumpTarget(c[n]) + 1].op = "nop"
    BY <1>3 DEF JumpsToNops
  <2>1. IsAt(c, JumpTarget(c[n]), "nop")
    BY <1>5 DEF IsJump
  <2> QED
    BY <2>1 DEF IsAt
<1>7. WellFormedChunk(c)
  <2> SUFFICES ASSUME NEW n \in 1 .. Len(c)
               PROVE  /\ \A k \in 1 .. 3 : c[n].args[k] >= 0
                      /\ HasArguments(c[n]) =>
                           n > 1 /\ c[n - 1].op = "mov" /\ c[n - 1].args[1] >= c[n].args[2] - 1
                      /\ c[n].op = "jump" => Landing(c, c[n].args[1])
                      /\ c[n].op \in {"jump_if", "jump_else"} => Landing(c, c[n].args[2])
    BY <1>3 DEF WellFormedChunk, WellFormedInstruction
  <2>1. \A k \in 1 .. 3 : c[n].args[k] >= 0
    <3>1. c[n].args \in [1 .. 3 -> Nat]
      BY <1>3 DEF Code
    <3> QED
      BY <3>1
  <2>2. /\ c[n].op # "jump_if"
        /\ HasArguments(c[n]) =>
             n > 1 /\ c[n - 1].op = "mov" /\ c[n - 1].args[1] >= c[n].args[2] - 1
    BY DEF Tracks, CallsMoved
  <2>3. IsJump(c[n]) => Landing(c, JumpTarget(c[n]))
    BY <1>5 DEF IsAt, Landing, HasArguments
  <2>4. /\ c[n].op = "jump" => Landing(c, c[n].args[1])
        /\ c[n].op = "jump_else" => Landing(c, c[n].args[2])
    BY <2>3 DEF IsJump, JumpTarget
  <2> QED
    BY <2>1, <2>2, <2>4
<1> QED
  BY <1>1, <1>2, <1>6, <1>7

\* From an empty chunk, well marked steps make one that keeps the convention.
LEMMA StepsMakeChunk ==
  ASSUME NEW before \in Seq(Seq(Code)), NEW steps, Len(steps) \in Nat, WellMarked(steps),
         Countable(Translation(steps))
  PROVE  /\ Translation(steps) \in Seq(Code)
         /\ \E c \in Seq(Code) :
              /\ EmitSteps(Emitting(before, << >>, << >>, << >>), steps)
                   = Emitting(before, c, << >>, << >>)
              /\ WellFormedChunk(c) /\ JumpsToNops(c)
              /\ SameButTargets(c, Translation(steps))
<1> DEFINE es == Emitting(before, << >>, << >>, << >>)
           len == Len(steps)
<1> HIDE DEF es
<1>1. PICK emitted : /\ EmitSteps(es, steps) = emitted[len] /\ emitted[0] = es
                     /\ \A n \in 1 .. len : emitted[n] = EmitStep(emitted[n - 1], steps[n])
  BY EmitStepsIsLast
<1>2. Nests(steps)
  BY DEF WellMarked
<1>3. PICK open : /\ open[0] = NoneOpen /\ open[len] = NoneOpen
                  /\ \A n \in 1 .. len :
                       Fits(open[n - 1], steps[n]) /\ open[n] = After(open[n - 1], steps[n])
  BY <1>2, NestingOpens
<1>15. PICK code : /\ Translation(steps) = code[len] /\ code[0] = << >>
                   /\ \A n \in 1 .. len : code[n] = code[n - 1] \o Alone(steps[n])
  BY TranslationIsLast
<1> DEFINE Reached(n) ==
             /\ code[n] \in Seq(Code)
             /\ Countable(code[n]) =>
                  \E c, ifs, loops : /\ emitted[n] = Emitting(before, c, ifs, loops)
                                     /\ Tracks(c, ifs, loops, open[n], StepAt(steps, n))
                                     /\ SameButTargets(c, code[n])
           S == {n \in Nat : n <= len => Reached(n)}
<1>4. len \in Nat
  OBVIOUS
<1>5. /\ \A n \in 1 .. len : IsStep(steps[n])
      /\ \A n \in 0 .. len : Neighbours(StepAt(steps, n), StepAt(steps, n + 1))
  BY DEF WellMarked
<1>6. Reached(0)
  <2>1. StepAt(steps, 0) = NopStep
    BY <1>4 DEF StepAt
  <2>2. emitted[0] = Emitting(before, << >>, << >>, << >>) /\ open[0] = NoneOpen
    BY <1>1, <1>3 DEF es
  <2>3. code[0] \in Seq(Code) /\ SameButTargets(<< >>, code[0])
    BY <1>15 DEF SameButTargets
  <2> QED
    BY <2>1, <2>2, <2>3, NothingTracked
<1>7. ASSUME NEW n \in Nat, n + 1 <= len, Reached(n)
      PROVE  Reached(n + 1)
  <2> DEFINE t == steps[n + 1]
             s == StepAt(steps, n)
  <2>1. n + 1 \in 1 .. len /\ n \in 0 .. len /\ (n + 1) - 1 = n
    BY <1>4, <1>7
  <2>2. StepAt(steps, n + 1) = t
    BY <2>1 DEF StepAt
  <2>4. /\ emitted[n + 1] = EmitStep(emitted[n], t)
        /\ Fits(open[n], t) /\ open[n + 1] = After(open[n], t)
        /\ code[n + 1] = code[n] \o Alone(t)
    BY <1>1, <1>3, <1>15, <2>1
  <2>5. IsStep(t) /\ Neighbours(s, t)
    BY <1>5, <2>1, <2>2
  <2> HIDE DEF s, t
  <2>6. /\ code[n] \in Seq(Code) /\ Alone(t) \in Seq(Code) /\ code[n + 1] \in Seq(Code)
        /\ Len(code[n + 1]) = Len(code[n]) + Len(Alone(t))
    <3>1. code[n] \in Seq(Code) /\ Alone(t) \in Seq(Code)
      BY <1>7, <2>5, AloneIsCode
    <3> QED
      BY <2>4, <3>1, ConcatProperties
  <2> SUFFICES ASSUME Countable(code[n + 1])
               PROVE  \E d, ifs2, loops2 :
                        /\ emitted[n + 1] = Emitting(before, d, ifs2, loops2)
                        /\ Tracks(d, ifs2, loops2, open[n + 1], t)
                        /\ SameButTargets(d, code[n + 1])
    BY <2>2, <2>6
  <2>7. Countable(code[n])
    <3>1. Len(code[n]) \in Nat /\ Len(Alone(t)) \in Nat /\ Int16Max \in Nat
      BY <2>6, LenProperties DEF Int16Max
    <3> QED
      BY <2>6, <3>1 DEF Countable
  <2>3. PICK c, ifs, loops : /\ emitted[n] = Emitting(before, c, ifs, loops)
                             /\ Tracks(c, ifs, loops, open[n], s)
                             /\ SameButTargets(c, code[n])
    BY <1>7, <2>7 DEF s
  <2>8. Countable(c) /\ c \in Seq(Code)
    BY <2>3, <2>7 DEF Countable, SameButTargets, Tracks, Typed
  <2>9. PICK d, ifs2, loops2 :
          /\ EmitStep(Emitting(before, c, ifs, loops), t) = Emitting(before, d, ifs2, loops2)
          /\ Tracks(d, ifs2, loops2, After(open[n], t), t)
          /\ SameButTargets(d, c \o Alone(t))
    BY <2>3, <2>4, <2>5, <2>8, AnyStep
  <2>10. SameButTargets(d, code[n + 1])
    BY <2>3, <2>4, <2>6, <2>8, <2>9, SameAppended
  <2> QED
    BY <2>3, <2>4, <2>9, <2>10
<1> HIDE DEF Reached, len
<1>8. 0 \in S
  BY <1>6
<1>9. ASSUME NEW n \in Nat, n \in S
      PROVE  n + 1 \in S
  BY <1>4, <1>7, <1>9
<1> HIDE DEF S
<1>10. Nat \subseteq S
  BY <1>8, <1>9, NaturalInduction
<1>11. Reached(len)
  BY <1>4, <1>10 DEF S
<1>16. Translation(steps) \in Seq(Code) /\ Countable(code[len])
  BY <1>11, <1>15 DEF Reached
<1>12. PICK c, ifs, loops : /\ emitted[len] = Emitting(before, c, ifs, loops)
                            /\ Tracks(c, ifs, loops, open[len], StepAt(steps, len))
                            /\ SameButTargets(c, code[len])
  BY <1>11, <1>16 DEF Reached
<1>13. Neighbours(StepAt(steps, len), NopStep)
  <2>1. StepAt(steps, len + 1) = NopStep
    BY <1>4 DEF StepAt, len
  <2> QED
    BY <1>4, <1>5, <2>1
<1>14. /\ ifs = << >> /\ loops = << >> /\ c \in Seq(Code)
       /\ WellFormedChunk(c) /\ JumpsToNops(c)
  <2>1. Countable(c)
    BY <1>12, <1>16 DEF Countable, SameButTargets
  <2> QED
    BY <1>3, <1>12, <1>13, <2>1, FinishedChunk
<1> QED
  BY <1>1, <1>15, <1>12, <1>14, <1>16 DEF es, len

\* A translation is code.
LEMMA TranslationIsCode ==
  ASSUME NEW steps, Len(steps) \in Nat, WellMarked(steps), Countable(Translation(steps))
  PROVE  Translation(steps) \in Seq(Code)
<1>1. << >> \in Seq(Seq(Code))
  OBVIOUS
<1> QED
  BY <1>1, StepsMakeChunk

(***************************************************************************)
(* The emitter between two functions: no if or loop is open, nothing was   *)
(* undefined, and every chunk so far keeps the convention of the engine and*)
(* has all its jumps patched to lead to a nop.                             *)
(***************************************************************************)
Resting(es) ==
  \E chunks \in Seq(Seq(Code)) :
    /\ es = EmitterWith(chunks, << >>, << >>)
    /\ \A k \in 1 .. Len(chunks) : WellFormedChunk(chunks[k]) /\ JumpsToNops(chunks[k])

\* An emitter begins at rest.
THEOREM BeginsAtRest == Resting(NewEmitter)
<1>1. << >> \in Seq(Seq(Code)) /\ Len(<< >>) = 0
  OBVIOUS
<1>2. NewEmitter = EmitterWith(<< >>, << >>, << >>)
  BY DEF NewEmitter, EmitterWith, NotCrashed
<1> SUFFICES \E chunks \in Seq(Seq(Code)) :
               /\ NewEmitter = EmitterWith(chunks, << >>, << >>)
               /\ \A k \in 1 .. Len(chunks) : WellFormedChunk(chunks[k]) /\ JumpsToNops(chunks[k])
  BY DEF Resting
<1> WITNESS << >> \in Seq(Seq(Code))
<1>3. \A k \in 1 .. Len(<< >>) : FALSE
  BY <1>1
<1> QED
  BY <1>2, <1>3

(***************************************************************************)
(* Whatever the function is, if its marks nest and stand beside what they  *)
(* are about, emit_chunk leaves nothing open, indexes no empty stack, adds *)
(* one chunk, and that chunk keeps the convention that the engine relies on*)
(* (WellFormedChunk): the instruction before a call moves its last argument*)
(* and no jump skips it; and each of its jumps leads to a nop.             *)
(***************************************************************************)
THEOREM EmittedKeepsConvention ==
  ASSUME NEW es, Resting(es), NEW cfg,
         IsGraph(cfg), WellMarked(StepsInOrder(cfg)), Countable(Translation(StepsInOrder(cfg)))
  PROVE  /\ Resting(EmitChunk(es, cfg))
         /\ Len(EmitChunk(es, cfg).chunks) = Len(es.chunks) + 1
         /\ SameButTargets(EmitChunk(es, cfg).chunks[Len(es.chunks) + 1],
                           Translation(StepsInOrder(cfg)))
         /\ \A k \in 1 .. Len(es.chunks) : EmitChunk(es, cfg).chunks[k] = es.chunks[k]
<1>1. PICK before \in Seq(Seq(Code)) :
        /\ es = EmitterWith(before, << >>, << >>)
        /\ \A k \in 1 .. Len(before) : WellFormedChunk(before[k]) /\ JumpsToNops(before[k])
  BY DEF Resting
<1> DEFINE steps == StepsInOrder(cfg)
           begun == Append(before, << >>)
<1>2. [es EXCEPT !.chunks = Append(@, << >>)] = Emitting(before, << >>, << >>, << >>)
  <2> HIDE DEF begun
  <2>1. es.chunks = before /\ [es EXCEPT !.chunks = begun] = EmitterWith(begun, << >>, << >>)
    BY <1>1, ChunksChangedWith
  <2> QED
    BY <2>1 DEF Emitting, begun
<1>3. PICK c \in Seq(Code) :
        /\ EmitSteps(Emitting(before, << >>, << >>, << >>), steps) = Emitting(before, c, << >>, << >>)
        /\ WellFormedChunk(c) /\ JumpsToNops(c)
        /\ SameButTargets(c, Translation(steps))
  BY StepsMakeChunk, StepsAreCounted
<1> DEFINE chunks == Append(before, c)
<1>4. EmitChunk(es, cfg) = EmitterWith(chunks, << >>, << >>)
  BY <1>2, <1>3 DEF EmitChunk, Emitting
<1>5. /\ chunks \in Seq(Seq(Code)) /\ Len(chunks) = Len(before) + 1
      /\ chunks[Len(before) + 1] = c /\ \A k \in 1 .. Len(before) : chunks[k] = before[k]
      /\ Len(before) \in Nat
  BY AppendProperties, LenProperties
<1> HIDE DEF chunks
<1>6. ASSUME NEW k \in 1 .. Len(chunks)
      PROVE  WellFormedChunk(chunks[k]) /\ JumpsToNops(chunks[k])
  <2>1. CASE k = Len(before) + 1
    BY <1>3, <1>5, <2>1
  <2>2. CASE k \in 1 .. Len(before)
    BY <1>1, <1>5, <2>2
  <2> QED
    BY <1>5, <2>1, <2>2
<1>7. EmitChunk(es, cfg).chunks = chunks /\ es.chunks = before
  BY <1>1, <1>4, ChunksChangedWith
<1> QED
  BY <1>3, <1>4, <1>5, <1>6, <1>7 DEF Resting

--------------------------------------------------------------------------------
\* The emission of a program

(***************************************************************************)
(* The inductive invariant: the emitter is new until it begins, and between*)
(* two graphs it is at rest, with a chunk for each graph before pos, which *)
(* is what the steps of that graph mean.                                   *)
(***************************************************************************)
EmissionInv ==
  /\ Preparing => em = NewEmitter
  /\ GraphsMarked => Resting(em)
  /\ stage \in {"emit", "done"} => pos \in Nat
  /\ GraphsMarked /\ stage = "emit" => pos \in 1 .. Len(cv.cfgs) + 1 /\ Len(em.chunks) = pos - 1
  /\ GraphsMarked /\ stage = "done" => Len(em.chunks) = Len(cv.cfgs)
  /\ CodeTranslatesSteps

\* What a list of marked graphs is, in terms of indices
LEMMA MarkedFacts ==
  ASSUME GraphsMarked
  PROVE  /\ Len(cv.cfgs) \in Nat /\ DOMAIN cv.cfgs = 1 .. Len(cv.cfgs)
         /\ \A k \in 1 .. Len(cv.cfgs) : /\ IsGraph(cv.cfgs[k])
                                         /\ WellMarked(StepsInOrder(cv.cfgs[k]))
                                         /\ Countable(Translation(StepsInOrder(cv.cfgs[k])))
<1>1. PICK T : cv.cfgs \in Seq(T)
  BY DEF GraphsMarked, IsSequence
<1>2. Len(cv.cfgs) \in Nat /\ DOMAIN cv.cfgs = 1 .. Len(cv.cfgs)
  BY <1>1, LenProperties
<1> QED
  BY <1>2 DEF GraphsMarked

\* The next graph finds the emitter at rest, and leaves it so.
LEMMA NextGraphEmitted ==
  ASSUME GraphsMarked, EmissionInv, EmitNextChunk
  PROVE  /\ Resting(em') /\ Len(em'.chunks) = Len(em.chunks) + 1
         /\ \A k \in 1 .. Len(em.chunks) : em'.chunks[k] = em.chunks[k]
         /\ pos \in 1 .. Len(cv.cfgs) /\ Len(em.chunks) = pos - 1
         /\ SameButTargets(em'.chunks[pos], Translation(StepsInOrder(cv.cfgs[pos])))
<1>1. pos \in 1 .. Len(cv.cfgs) /\ Len(em.chunks) = pos - 1 /\ Resting(em)
  BY MarkedFacts DEF EmissionInv, EmitNextChunk
<1>2. /\ IsGraph(cv.cfgs[pos]) /\ WellMarked(StepsInOrder(cv.cfgs[pos]))
      /\ Countable(Translation(StepsInOrder(cv.cfgs[pos])))
  BY <1>1, MarkedFacts
<1>3. em' = EmitChunk(em, cv.cfgs[pos])
  BY DEF EmitNextChunk
<1> DEFINE before == em
           cfg == cv.cfgs[pos]
<1>4. /\ Resting(before) /\ IsGraph(cfg) /\ WellMarked(StepsInOrder(cfg))
      /\ Countable(Translation(StepsInOrder(cfg))) /\ em' = EmitChunk(before, cfg)
  BY <1>1, <1>2, <1>3
<1> HIDE DEF before, cfg
<1>5. /\ Resting(EmitChunk(before, cfg))
      /\ Len(EmitChunk(before, cfg).chunks) = Len(before.chunks) + 1
      /\ \A k \in 1 .. Len(before.chunks) : EmitChunk(before, cfg).chunks[k] = before.chunks[k]
      /\ SameButTargets(EmitChunk(before, cfg).chunks[Len(before.chunks) + 1],
                        Translation(StepsInOrder(cfg)))
  BY <1>4, EmittedKeepsConvention
<1>6. Len(before.chunks) + 1 = pos
  BY <1>1 DEF before
<1>7. SameButTargets(em'.chunks[pos], Translation(StepsInOrder(cfg)))
  BY <1>4, <1>5, <1>6
<1>8. /\ Resting(em') /\ Len(em'.chunks) = Len(before.chunks) + 1
      /\ \A k \in 1 .. Len(before.chunks) : em'.chunks[k] = before.chunks[k]
  BY <1>4, <1>5
<1> QED
  BY <1>1, <1>7, <1>8 DEF before, cfg

\* What Resting says of the fields of the emitter
LEMMA RestingFacts ==
  ASSUME NEW es, Resting(es)
  PROVE  /\ ~es.crashed /\ es.active_ifs = << >> /\ es.active_loops = << >>
         /\ Len(es.chunks) \in Nat /\ DOMAIN es.chunks = 1 .. Len(es.chunks)
         /\ \A k \in DOMAIN es.chunks :
              /\ WellFormedChunk(es.chunks[k]) /\ JumpsToNops(es.chunks[k])
              /\ DOMAIN es.chunks[k] = 1 .. Len(es.chunks[k])
<1>1. PICK chunks \in Seq(Seq(Code)) :
        /\ es = EmitterWith(chunks, << >>, << >>)
        /\ \A k \in 1 .. Len(chunks) : WellFormedChunk(chunks[k]) /\ JumpsToNops(chunks[k])
  BY DEF Resting
<1>2. es.active_ifs = << >> /\ es.active_loops = << >> /\ ~es.crashed
  <2>1. es.active_ifs = << >> /\ es.active_loops = << >> /\ es.crashed = NotCrashed
    BY <1>1, FieldsWith
  <2>2. ~NotCrashed
    BY DEF NotCrashed
  <2> QED
    BY <2>1, <2>2
<1>3. es.chunks = chunks
  BY <1>1, ChunksChangedWith
<1>4. Len(chunks) \in Nat /\ DOMAIN chunks = 1 .. Len(chunks)
  BY LenProperties
<1>5. ASSUME NEW k \in DOMAIN chunks
      PROVE  DOMAIN chunks[k] = 1 .. Len(chunks[k])
  <2>1. chunks[k] \in Seq(Code)
    BY <1>4
  <2> QED
    BY <2>1, LenProperties
<1> QED
  BY <1>1, <1>2, <1>3, <1>4, <1>5

\* Every step keeps the invariant.
LEMMA EmissionInvKept ==
  ASSUME EmissionInv, [EmissionNext]_emissionVars
  PROVE  EmissionInv'
<1>1. CASE Prepare
  <2>1. em = NewEmitter /\ em' = NewEmitter /\ Resting(NewEmitter)
    BY <1>1, BeginsAtRest DEF Prepare, EmissionInv
  <2>2. Resting(em') /\ Len(em'.chunks) = 0
    BY <2>1 DEF NewEmitter
  <2>3. stage' # "done" /\ (stage' = "emit" => pos' = 1)
    BY <1>1 DEF Prepare
  <2>4. (GraphsMarked => Len(cv.cfgs) \in Nat)'
    BY MarkedFacts, PTL
  <2>5. CodeTranslatesSteps'
    <3>1. DOMAIN em'.chunks = 1 .. Len(em'.chunks)
      BY <2>2, RestingFacts
    <3> QED
      BY <2>2, <3>1 DEF CodeTranslatesSteps
  <2> QED
    BY <2>1, <2>2, <2>3, <2>4, <2>5 DEF EmissionInv
<1>2. CASE EmitNextChunk
  <2>1. cv' = cv /\ stage = "emit" /\ stage' \in {"emit", "crashed"} /\ pos' = pos + 1 /\ pos \in Nat
    BY <1>2 DEF EmitNextChunk, EmissionInv
  <2>2. GraphsMarked' <=> GraphsMarked
    BY <2>1 DEF GraphsMarked
  <2>3. pos' \in Nat /\ ~Preparing' /\ stage' # "done"
    BY <2>1 DEF Preparing
  <2>4. CASE GraphsMarked
    <3>1. /\ Resting(em') /\ Len(em'.chunks) = Len(em.chunks) + 1
          /\ pos \in 1 .. Len(cv.cfgs) /\ Len(em.chunks) = pos - 1
          /\ \A k \in 1 .. Len(em.chunks) : em'.chunks[k] = em.chunks[k]
          /\ SameButTargets(em'.chunks[pos], Translation(StepsInOrder(cv.cfgs[pos])))
      BY <1>2, <2>4, NextGraphEmitted
    <3>2. DOMAIN em.chunks = 1 .. Len(em.chunks) /\ DOMAIN em'.chunks = 1 .. Len(em'.chunks)
      BY <2>4, <3>1, RestingFacts DEF EmissionInv
    <3>3. ASSUME NEW k \in DOMAIN em'.chunks
          PROVE  SameButTargets(em'.chunks[k], Translation(StepsInOrder(cv.cfgs[k])))
      <4>1. CASE k = pos
        BY <3>1, <4>1
      <4>2. CASE k # pos
        <5>1. k \in 1 .. Len(em.chunks)
          BY <2>1, <3>1, <3>2, <4>2
        <5>2. SameButTargets(em.chunks[k], Translation(StepsInOrder(cv.cfgs[k])))
          BY <2>4, <3>2, <5>1 DEF EmissionInv, CodeTranslatesSteps
        <5> QED
          BY <3>1, <5>1, <5>2
      <4> QED
        BY <4>1, <4>2
    <3>4. CodeTranslatesSteps'
      BY <2>1, <3>3 DEF CodeTranslatesSteps
    <3> QED
      BY <2>1, <2>2, <2>3, <2>4, <3>1, <3>4, MarkedFacts DEF EmissionInv
  <2>5. CASE ~GraphsMarked
    BY <2>2, <2>3, <2>5 DEF EmissionInv, CodeTranslatesSteps
  <2> QED
    BY <2>4, <2>5
<1>3. CASE EndEmission
  <2>1. UNCHANGED <<pos, cv, em>> /\ stage = "emit" /\ stage' = "done" /\ pos > Len(cv.cfgs)
    BY <1>3 DEF EndEmission
  <2>2. (GraphsMarked' <=> GraphsMarked) /\ ~Preparing'
    BY <2>1 DEF GraphsMarked, Preparing
  <2>3. GraphsMarked => Len(em.chunks) = Len(cv.cfgs)
    BY <2>1, MarkedFacts DEF EmissionInv
  <2>4. CodeTranslatesSteps'
    BY <2>1, <2>2 DEF EmissionInv, CodeTranslatesSteps
  <2> QED
    BY <2>1, <2>2, <2>3, <2>4 DEF EmissionInv
<1>4. CASE UNCHANGED emissionVars
  BY <1>4 DEF EmissionInv, emissionVars, GraphsMarked, Preparing, CodeTranslatesSteps
<1> QED
  BY <1>1, <1>2, <1>3, <1>4 DEF EmissionNext

\* The invariant holds of every behaviour.
THEOREM EmissionInvHolds == EmissionSpec => []EmissionInv
<1>1. EmissionInit => EmissionInv
  <2> SUFFICES ASSUME EmissionInit PROVE EmissionInv
    OBVIOUS
  <2>1. em = NewEmitter /\ stage \notin {"emit", "done"}
    BY DEF EmissionInit, Preparing
  <2>2. Resting(em)
    BY <2>1, BeginsAtRest
  <2>3. CodeTranslatesSteps
    <3>1. DOMAIN em.chunks = 1 .. Len(em.chunks) /\ Len(em.chunks) = 0
      BY <2>1, <2>2, RestingFacts DEF NewEmitter
    <3> QED
      BY <3>1 DEF CodeTranslatesSteps
  <2> QED
    BY <2>1, <2>2, <2>3 DEF EmissionInv
<1> QED
  BY <1>1, EmissionInvKept, PTL DEF EmissionSpec

(***************************************************************************)
(* Whatever program the emitter is given, as long as the marks of each of  *)
(* its graphs nest, the code keeps the convention that the engine and its  *)
(* theorems rely on, every jump leads to a nop of its chunk, and nothing is*)
(* left open from one function to the next (emit_oper_nonary).             *)
(***************************************************************************)
THEOREM CodeConventionKept == EmissionSpec => []CodeKeepsConvention
<1>1. EmissionInv => CodeKeepsConvention
  <2> SUFFICES ASSUME EmissionInv, GraphsMarked PROVE CodeKeepsConvention
    BY DEF CodeKeepsConvention
  <2>1. Resting(em)
    BY DEF EmissionInv
  <2> QED
    BY <2>1, RestingFacts DEF EmissionInv, CodeKeepsConvention
<1> QED
  BY <1>1, EmissionInvHolds, PTL

(***************************************************************************)
(* The code of every function is what its steps mean one by one, in the    *)
(* order of its blocks: whatever program it is, the patches of the emitter *)
(* change nothing but the targets of jumps (emit_chunk, emit_oper_nonary). *)
(***************************************************************************)
THEOREM CodeTranslated == EmissionSpec => []CodeTranslatesSteps
<1>1. EmissionInv => CodeTranslatesSteps
  BY DEF EmissionInv
<1> QED
  BY <1>1, EmissionInvHolds, PTL

(***************************************************************************)
(* A chunk that is finished is never touched again: the jumps that a       *)
(* function patches are its own (emit_chunk, emit_oper_nonary).            *)
(***************************************************************************)
THEOREM FinishedChunksStay == EmissionSpec => FinishedChunksStand
<1> DEFINE Kept == \A k \in DOMAIN em.chunks : k \in DOMAIN em'.chunks /\ em'.chunks[k] = em.chunks[k]
<1>1. EmissionInv /\ [EmissionNext]_emissionVars => [GraphsMarked => Kept]_em
  <2> SUFFICES ASSUME EmissionInv, [EmissionNext]_emissionVars, GraphsMarked, em' # em
               PROVE  Kept
    OBVIOUS
  <2>1. EmitNextChunk
    BY DEF EmissionNext, Prepare, EndEmission, emissionVars
  <2>2. /\ Resting(em') /\ Len(em'.chunks) = Len(em.chunks) + 1
        /\ \A k \in 1 .. Len(em.chunks) : em'.chunks[k] = em.chunks[k]
    BY <2>1, NextGraphEmitted
  <2>3. Resting(em)
    BY DEF EmissionInv
  <2>4. Len(em.chunks) \in Nat /\ DOMAIN em.chunks = 1 .. Len(em.chunks)
    BY <2>3, RestingFacts
  <2>5. DOMAIN em'.chunks = 1 .. Len(em'.chunks)
    BY <2>2, RestingFacts
  <2> QED
    BY <2>2, <2>4, <2>5
<1> QED
  BY <1>1, EmissionInvHolds, PTL DEF EmissionSpec, FinishedChunksStand

(***************************************************************************)
(* The program that is handed over to the engine has one chunk for each    *)
(* graph and is one that the engine's theorems are about: WellFormed is    *)
(* what they assume of every program that is run.                          *)
(***************************************************************************)
HandsOverWellFormed ==
  stage = "done" /\ GraphsMarked =>
    \A ir : /\ WellFormed(ProgramOf(em, ir))
            /\ Len(ProgramOf(em, ir).chunks) = Len(cv.cfgs)

THEOREM EmittedProgramWellFormed == EmissionSpec => []HandsOverWellFormed
<1>1. CodeKeepsConvention => HandsOverWellFormed
  <2> SUFFICES ASSUME CodeKeepsConvention, stage = "done", GraphsMarked, NEW ir
               PROVE  /\ WellFormed(ProgramOf(em, ir))
                      /\ Len(ProgramOf(em, ir).chunks) = Len(cv.cfgs)
    BY DEF HandsOverWellFormed
  <2>1. ProgramOf(em, ir).chunks = em.chunks
    BY DEF ProgramOf
  <2> QED
    BY <2>1 DEF CodeKeepsConvention, WellFormed
<1> QED
  BY <1>1, CodeConventionKept, PTL

--------------------------------------------------------------------------------
\* What patching leaves of a program

(***************************************************************************)
(* An instruction that is closed but for its target is closed once the     *)
(* target is a nop of its chunk, since nothing else of it was patched.     *)
(***************************************************************************)
LEMMA PatchedIsClosed ==
  ASSUME NEW p, NEW q, NEW natives_n, NEW f \in DOMAIN p.chunks, NEW n \in DOMAIN p.chunks[f],
         DOMAIN q.chunks = DOMAIN p.chunks, q.constants = p.constants,
         \A g \in DOMAIN p.chunks : /\ SameButTargets(q.chunks[g], p.chunks[g])
                                   /\ DOMAIN q.chunks[g] = 1 .. Len(q.chunks[g])
                                   /\ DOMAIN p.chunks[g] = 1 .. Len(p.chunks[g])
                                   /\ JumpsToNops(q.chunks[g]),
         ClosedInstruction(p, natives_n, p.chunks[f], n)
  PROVE  ClosedInstruction(q, natives_n, q.chunks[f], n)
<1> DEFINE i == p.chunks[f][n]
           j == q.chunks[f][n]
<1>1. \A g \in DOMAIN p.chunks : DOMAIN q.chunks[g] = DOMAIN p.chunks[g]
  BY DEF SameButTargets
<1>2. /\ j.op = i.op /\ j.metadata = i.metadata
      /\ \A k \in 1 .. 3 : j.args[k] = i.args[k] \/ IsTarget(i, k)
  BY <1>1 DEF SameButTargets
<1>3. /\ j.op = "jump" => j.args[1] + 1 \in DOMAIN q.chunks[f]
      /\ j.op = "jump_else" => j.args[2] + 1 \in DOMAIN q.chunks[f]
  BY <1>1 DEF JumpsToNops, JumpTarget
<1>4. /\ GoesOn(i.op) => n + 1 \in DOMAIN p.chunks[f]
      /\ i.op = "jump_if" => i.args[2] + 1 \in DOMAIN p.chunks[f]
      /\ i.op = "call" => i.args[1] + 1 \in DOMAIN p.chunks /\ 1 \in DOMAIN p.chunks[i.args[1] + 1]
      /\ i.op = "native_call" => i.args[1] + 1 \in 1 .. natives_n
  BY DEF ClosedInstruction
<1>5. /\ i.op \in ArithOps \cup CompareOps \cup {"ret"} =>
           \A k \in OperandArgs(i.op) : InMode(i, k, "constant") \/ InMode(i, k, "reg")
      /\ \A k \in OperandArgs(i.op) :
           InMode(i, k, "constant") \/ i.op = "load_const" => i.args[k] + 1 \in DOMAIN p.constants
  BY DEF ClosedInstruction
<1> HIDE DEF i, j
<1>6. \A k, mode : InMode(j, k, mode) <=> InMode(i, k, mode)
  BY <1>2 DEF InMode
<1>7. ASSUME NEW k \in OperandArgs(i.op)
      PROVE  j.args[k] = i.args[k]
  <2>1. i.op \notin {"jump", "jump_else"} /\ k \in 1 .. 3
    BY DEF OperandArgs, ArithOps, CompareOps
  <2> QED
    BY <1>2, <2>1 DEF IsTarget
<1>8. /\ i.op \in {"call", "native_call"} => j.args[1] = i.args[1]
      /\ i.op = "jump_if" => j.args[2] = i.args[2]
  BY <1>2 DEF IsTarget
<1>9. /\ GoesOn(j.op) => n + 1 \in DOMAIN q.chunks[f]
      /\ j.op = "jump" => j.args[1] + 1 \in DOMAIN q.chunks[f]
      /\ j.op \in {"jump_if", "jump_else"} => j.args[2] + 1 \in DOMAIN q.chunks[f]
      /\ j.op = "call" => j.args[1] + 1 \in DOMAIN q.chunks /\ 1 \in DOMAIN q.chunks[j.args[1] + 1]
      /\ j.op = "native_call" => j.args[1] + 1 \in 1 .. natives_n
  BY <1>1, <1>2, <1>3, <1>4, <1>8
<1>10. /\ j.op \in ArithOps \cup CompareOps \cup {"ret"} =>
            \A k \in OperandArgs(j.op) : InMode(j, k, "constant") \/ InMode(j, k, "reg")
       /\ \A k \in OperandArgs(j.op) :
            InMode(j, k, "constant") \/ j.op = "load_const" => j.args[k] + 1 \in DOMAIN q.constants
  BY <1>2, <1>5, <1>6, <1>7
<1> QED
  BY <1>9, <1>10 DEF ClosedInstruction, j

\* Nor does it name other registers.
LEMMA PatchedIsNarrow ==
  ASSUME NEW i, NEW j, NEW k \in 1 .. 3, NEW width, j.op = i.op, j.metadata = i.metadata,
         j.args[k] = i.args[k] \/ IsTarget(i, k),
         NamesRegister(i, k) => i.args[k] < width, NamesRegister(j, k)
  PROVE  j.args[k] < width
<1>1. NamesRegister(i, k)
  BY DEF NamesRegister, InMode
<1>2. ~IsTarget(i, k)
  BY <1>1 DEF NamesRegister, IsTarget, OperandArgs, ArithOps, CompareOps
<1> QED
  BY <1>1, <1>2

(***************************************************************************)
(* The program that is handed over is closed, and narrow, if what its steps*)
(* mean one by one is, before any jump is patched.  So that a program stays*)
(* in its code and its memory is up to the converter and the steps alone:  *)
(* the order of the blocks and the patches (emit_chunk, emit_oper_nonary)  *)
(* cannot lead it astray.                                                  *)
(***************************************************************************)
HandsOverAsTranslated ==
  stage = "done" /\ GraphsMarked =>
    \A ir, natives_n, width :
      /\ ClosedFrom(AsTranslated(ir), natives_n) => ClosedFrom(ProgramOf(em, ir), natives_n)
      /\ Narrow(AsTranslated(ir), width) => Narrow(ProgramOf(em, ir), width)

THEOREM PatchingLeadsNowhereElse == EmissionSpec => []HandsOverAsTranslated
<1>1. EmissionInv => HandsOverAsTranslated
  <2> SUFFICES ASSUME EmissionInv, stage = "done", GraphsMarked, NEW ir, NEW natives_n, NEW width
               PROVE  /\ ClosedFrom(AsTranslated(ir), natives_n) =>
                           ClosedFrom(ProgramOf(em, ir), natives_n)
                      /\ Narrow(AsTranslated(ir), width) => Narrow(ProgramOf(em, ir), width)
    BY DEF HandsOverAsTranslated
  <2> DEFINE p == AsTranslated(ir)
             q == ProgramOf(em, ir)
  <2>1. /\ p.chunks = [k \in DOMAIN cv.cfgs |-> Translation(StepsInOrder(cv.cfgs[k]))]
        /\ q.chunks = em.chunks /\ q.constants = p.constants /\ q.entry_id = p.entry_id
    BY DEF AsTranslated, ProgramOf
  <2>2. /\ DOMAIN em.chunks = 1 .. Len(cv.cfgs) /\ DOMAIN cv.cfgs = 1 .. Len(cv.cfgs)
        /\ \A k \in 1 .. Len(cv.cfgs) : /\ JumpsToNops(em.chunks[k])
                                       /\ DOMAIN em.chunks[k] = 1 .. Len(em.chunks[k])
    BY RestingFacts, MarkedFacts DEF EmissionInv
  <2>3. ASSUME NEW f \in 1 .. Len(cv.cfgs)
        PROVE  /\ SameButTargets(q.chunks[f], p.chunks[f])
               /\ DOMAIN p.chunks[f] = 1 .. Len(p.chunks[f])
    <3>1. /\ IsGraph(cv.cfgs[f]) /\ WellMarked(StepsInOrder(cv.cfgs[f]))
          /\ Countable(Translation(StepsInOrder(cv.cfgs[f])))
      BY MarkedFacts
    <3>2. Translation(StepsInOrder(cv.cfgs[f])) \in Seq(Code)
      BY <3>1, StepsAreCounted, TranslationIsCode
    <3>3. p.chunks[f] = Translation(StepsInOrder(cv.cfgs[f]))
      BY <2>1, <2>2
    <3>4. SameButTargets(em.chunks[f], Translation(StepsInOrder(cv.cfgs[f])))
      BY <2>2 DEF EmissionInv, CodeTranslatesSteps
    <3> QED
      BY <2>1, <3>2, <3>3, <3>4, LenProperties
  <2>4. /\ DOMAIN p.chunks = 1 .. Len(cv.cfgs) /\ DOMAIN q.chunks = DOMAIN p.chunks
        /\ \A f \in DOMAIN p.chunks :
             /\ SameButTargets(q.chunks[f], p.chunks[f])
             /\ DOMAIN q.chunks[f] = 1 .. Len(q.chunks[f])
             /\ DOMAIN p.chunks[f] = 1 .. Len(p.chunks[f])
             /\ JumpsToNops(q.chunks[f])
    BY <2>1, <2>2, <2>3
  <2>5. \A f \in DOMAIN p.chunks : DOMAIN q.chunks[f] = DOMAIN p.chunks[f]
    BY <2>4 DEF SameButTargets
  <2> HIDE DEF p, q
  <2>6. ClosedFrom(p, natives_n) => ClosedFrom(q, natives_n)
    <3> SUFFICES ASSUME ClosedFrom(p, natives_n) PROVE ClosedFrom(q, natives_n)
      OBVIOUS
    <3>1. \A f \in DOMAIN p.chunks : \A n \in DOMAIN p.chunks[f] :
            ClosedInstruction(p, natives_n, p.chunks[f], n)
      BY DEF ClosedFrom
    <3>2. \A f \in DOMAIN p.chunks : \A n \in DOMAIN p.chunks[f] :
            ClosedInstruction(q, natives_n, q.chunks[f], n)
      BY <2>1, <2>4, <3>1, PatchedIsClosed
    <3> QED
      BY <2>1, <2>4, <2>5, <3>2 DEF ClosedFrom
  <2>7. Narrow(p, width) => Narrow(q, width)
    <3> SUFFICES ASSUME Narrow(p, width), NEW f \in DOMAIN q.chunks, NEW n \in DOMAIN q.chunks[f],
                        NEW k \in 1 .. 3, NamesRegister(q.chunks[f][n], k)
                 PROVE  q.chunks[f][n].args[k] < width
      BY DEF Narrow
    <3>1. f \in DOMAIN p.chunks /\ n \in DOMAIN p.chunks[f] /\ n \in 1 .. Len(q.chunks[f])
      BY <2>4, <2>5
    <3>2. /\ q.chunks[f][n].op = p.chunks[f][n].op
          /\ q.chunks[f][n].metadata = p.chunks[f][n].metadata
          /\ q.chunks[f][n].args[k] = p.chunks[f][n].args[k] \/ IsTarget(p.chunks[f][n], k)
      BY <2>4, <3>1 DEF SameButTargets
    <3>3. NamesRegister(p.chunks[f][n], k) => p.chunks[f][n].args[k] < width
      BY <3>1 DEF Narrow
    <3> QED
      BY <3>2, <3>3, PatchedIsNarrow
  <2> QED
    BY <2>6, <2>7 DEF p, q
<1> QED
  BY <1>1, EmissionInvHolds, PTL

================================================================================
