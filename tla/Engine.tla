--------------------------------- MODULE Engine ---------------------------------
(***************************************************************************)
(* The register machine that runs a compiled program (class VM::Engine):   *)
(* one action per instruction handler and per native function.             *)
(*                                                                         *)
(* The engine checks no bound and follows raw pointers, so what it does is *)
(* undefined whenever a program leaves an array, uses a pointer to what is *)
(* gone, or makes a noexcept function throw.  Such a step ends the run: it *)
(* records in `fault' what went wrong, and nothing is promised afterwards. *)
(***************************************************************************)
EXTENDS SequenceValue, HeapStorage, Bytecode

CONSTANTS
  Programs,     \* the programs to run: records [chunks, constants, entry_id]
  MemLimit,     \* EngineConfig::reg_buffer_limit
  FrameMax,     \* EngineConfig::call_frame_max
  Inputs        \* the ints a read of the standard input may yield

Register == 0 .. MemLimit - 1
FrameIndex == 0 .. FrameMax - 1
ProgramType ==
  [chunks : Seq(Seq(Instruction)), constants : Seq(Value), entry_id : Int16]

ASSUME EngineAssumption ==
  /\ MemLimit \in Nat \ {0}
  /\ FrameMax \in Nat \ {0}
  /\ FrameMax <= Int16Max    \* call_frame_max is an int16_t, and so is m_rrd
  /\ Inputs \subseteq Ints
  /\ Null \notin Sequence
  /\ \A p \in Programs : p \in ProgramType

VARIABLES
  prgm,               \* the program (m_chunk_view, m_const_view)
  m_memory,           \* the registers
  m_call_frames, m_call_frame_ptr,
  m_rfi,              \* the chunk that runs, and
  m_rip,              \*   the instruction in it
  m_rbp,              \* the base of the current register frame, and
  m_rft,              \*   its top
  m_rrd,              \* the number of active calls
  m_res,              \* the execution status
  m_heap,
  fault,              \* what undefined behaviour the run met, if any
  exit                \* what operator() returned, once it did

vars == <<prgm, m_memory, m_call_frames, m_call_frame_ptr, m_rfi, m_rip, m_rbp, m_rft,
          m_rrd, m_res, m_heap, fault, exit>>

Statuses == {"ok", "setup_error", "op_error", "arg_error", "mem_error", "math_error",
             "user_error"}
Faults == {"oob_code", "oob_memory", "oob_frames", "oob_heap", "oob_natives", "dangling",
           "endless", "terminate", "trap", "null_cell"}
NoFault == "none"
Running == "running"

CallFrame == [old_func_idx : Int16, old_func_ip : Int16, old_base_ptr : Int,
              old_mem_top : Int, old_exec_status : Statuses]
BlankFrame == [old_func_idx |-> 0, old_func_ip |-> 0, old_base_ptr |-> 0,
               old_mem_top |-> 0, old_exec_status |-> "ok"]

\* The native functions, in the order the application registers them.
NativeTable == <<"print", "prompt_int", "prompt_float", "len_of", "list_push_back",
                 "list_pop_back", "list_pop_front", "list_concat">>

\* The constructor of the engine, given a program
Boot ==
  /\ m_memory = [r \in Register |-> Dud]
  /\ m_call_frames = [f \in FrameIndex |-> BlankFrame]
  /\ m_call_frame_ptr = 0
  /\ m_rfi = prgm.entry_id    \* -1 when the program has no main
  /\ m_rip = 0 /\ m_rbp = 0 /\ m_rft = 0
  /\ m_rrd = 1
  /\ m_res = IF prgm.entry_id >= 0 THEN "ok" ELSE "setup_error"
  /\ m_heap = EmptyHeap
  /\ fault = NoFault
  /\ exit = Running

Init == prgm \in Programs /\ Boot

--------------------------------------------------------------------------------
\* The instruction at hand, its registers and its operands

InLoop == exit = Running /\ fault = NoFault /\ m_rrd > 0 /\ m_res = "ok"

HasInstruction ==
  m_rfi + 1 \in DOMAIN prgm.chunks /\ m_rip + 1 \in DOMAIN prgm.chunks[m_rfi + 1]
Instr == prgm.chunks[m_rfi + 1][m_rip + 1]
NextIp == ToInt16(m_rip + 1)    \* ++m_rip
Arg(k) == Instr.args[k]

RegAbsolute(id) == id    \* a slip: the base is left out
Reg(id) == m_rbp + id
Held(id) == m_memory[Reg(id)]
Put(id, v) == [m_memory EXCEPT ![Reg(id)] = v]
Raised(id) == IF Reg(id) > m_rft THEN Reg(id) ELSE m_rft    \* std::max(m_rft, ...)

Lhs == [mode |-> SecondField(Instr.metadata), id |-> Arg(2)]
Rhs == [mode |-> ThirdField(Instr.metadata), id |-> Arg(3)]
Only == [mode |-> FirstField(Instr.metadata), id |-> Arg(1)]
ConstantArg == [mode |-> ModeNumber("constant"), id |-> Arg(2)]

Operands ==
  CASE Instr.op \in ArithOps \cup CompareOps -> {Lhs, Rhs}
    [] Instr.op \in {"mov", "seq_obj_push"} -> {Lhs}
    [] Instr.op = "seq_obj_get" -> {Rhs}
    [] Instr.op = "load_const" -> {ConstantArg}
    [] Instr.op = "ret" -> {Only}
    [] OTHER -> {}

\* fetch_value yields something for constants and registers only.
IsConstant(o) == SameMode(o.mode, "constant")
IsRegister(o) == SameMode(o.mode, "reg")
Fetchable(o) == IsConstant(o) \/ IsRegister(o)
Fetched(o) == IF IsConstant(o) THEN prgm.constants[o.id + 1] ELSE Held(o.id)

\* A native function finds its arguments, and leaves its result, below the frame top.
NativeBase == m_rft - Arg(2) + 1
NativeArg(k) == m_memory[NativeBase + k]
NativeName == NativeTable[Arg(1) + 1]
HasNative == Arg(1) + 1 \in DOMAIN NativeTable
NativeCells ==
  IF ~HasNative THEN {}
  ELSE IF NativeName \in {"list_push_back", "list_concat"} THEN {NativeBase, NativeBase + 1}
  ELSE {NativeBase}

\* The cells of m_memory the handler indexes, those of its operands included.
Cells ==
  {Reg(o.id) : o \in {o \in Operands : IsRegister(o)}}
  \cup
  CASE \E o \in Operands : ~Fetchable(o) -> {}
    [] Instr.op \in {"seq_obj_pop", "seq_obj_get"} -> {Reg(Arg(1)), Reg(Arg(2))}
    [] Instr.op = "native_call" -> NativeCells
    [] Instr.op = "ret" -> {m_rbp}
    [] Instr.op \in {"nop", "inc", "dec", "halt", "jump", "call"} -> {}
    [] OTHER -> {Reg(Arg(1))}

InBounds ==
  /\ Cells \subseteq Register
  /\ \A o \in Operands : IsConstant(o) => o.id + 1 \in DOMAIN prgm.constants

--------------------------------------------------------------------------------
\* Pointers into the heap

ObjectAt(p) == m_heap.objects[p.cell]
Live(p) == p.cell \in Cell /\ ObjectAt(p) # Null /\ ObjectAt(p).serial = p.serial

\* A reference is sound while its item is in the buffer it was taken from.
Sound(r) == Live(r.obj) /\ ObjectAt(r.obj).gen = r.gen /\ HasItem(ObjectAt(r.obj), r.pos)
ItemAt(r) == ObjectAt(r.obj).items[r.pos + 1]

WithObject(p, s) == [m_heap EXCEPT !.objects[p.cell] = s]
WithItem(r, v) == WithObject(r.obj, [ObjectAt(r.obj) EXCEPT !.items[r.pos + 1] = v])

\* As many as the objects and items there are: no path without a cycle is longer.
PathBound ==
  Capacity + Cardinality(UNION {{c} \X DOMAIN m_heap.objects[c].items : c \in LiveCells(m_heap)})

\* Everything reached from the set S by steps that NextOf gives.
Closure(S, NextOf(_)) ==
  LET reach[n \in 0 .. PathBound] ==
        IF n = 0 THEN S
        ELSE LET before == reach[n - 1] IN before \cup UNION {NextOf(x) : x \in before}
  IN  reach[PathBound]

\* The last reference of a chain of references to references; the operators of FastValue
\* recurse to the value it refers to.
Referent(r) ==
  LET hop[n \in 0 .. PathBound] ==
        IF n = 0 THEN r
        ELSE LET last == hop[n - 1]
             IN  IF Sound(last) /\ IsRef(ItemAt(last)) THEN ItemAt(last).fv_p ELSE last
  IN  hop[PathBound]

Resolved(v) == IF IsRef(v) THEN ItemAt(Referent(v.fv_p)) ELSE v
EndsDangling(v) == IsRef(v) /\ ~Sound(Referent(v.fv_p))
NeverEnds(v) == IsRef(v) /\ Sound(Referent(v.fv_p)) /\ IsRef(ItemAt(Referent(v.fv_p)))

\* What to_string looks into when it prints a value.
Parts(v) ==
  CASE IsSeq(v) /\ Live(v.obj_p) ->
         {ObjectAt(v.obj_p).items[i] : i \in DOMAIN ObjectAt(v.obj_p).items}
    [] IsRef(v) /\ Sound(v.fv_p) -> {ItemAt(v.fv_p)}
    [] OTHER -> {}
Gone(v) ==
  \/ IsSeq(v) /\ ~Live(v.obj_p)
  \/ IsRef(v) /\ ~Sound(v.fv_p)

\* The values whose references the handler follows, whose objects it uses, and which it
\* prints.
Followed ==
  CASE Instr.op \in ArithOps \cup CompareOps -> {Fetched(Lhs)}
    [] Instr.op = "mov" /\ ~IsRef(Fetched(Lhs)) -> {Held(Arg(1))}
    [] Instr.op = "neg" -> {Held(Arg(1))}
    [] OTHER -> {}

Used ==
  CASE Instr.op \in {"seq_obj_push", "frz_seq_obj"} -> {Held(Arg(1))}
    [] Instr.op = "seq_obj_pop" -> {Held(Arg(2))}
    [] Instr.op = "seq_obj_get" /\ Fetched(Rhs).tag = "int32" -> {Held(Arg(2))}
    [] Instr.op = "native_call" /\ NativeName = "list_concat" ->
         IF IsSeq(NativeArg(0)) /\ IsSeq(NativeArg(1)) THEN {NativeArg(0), NativeArg(1)} ELSE {}
    [] Instr.op = "native_call"
         /\ NativeName \in {"len_of", "list_push_back", "list_pop_back", "list_pop_front"} ->
         {NativeArg(0)}
    [] OTHER -> {}

Shown == IF Instr.op = "native_call" /\ NativeName = "print"
         THEN Closure({NativeArg(0)}, Parts) ELSE {}

UsesDangling ==
  \/ \E v \in Followed : EndsDangling(v)
  \/ \E v \in Used : IsSeq(v) /\ ~Live(v.obj_p)
  \/ \E v \in Shown : Gone(v)

\* list_concat of a list onto itself: the first push invalidates at least the end iterator
\* that the loop over the items holds.
ConcatsItself ==
  /\ Instr.op = "native_call" /\ NativeName = "list_concat"
  /\ IsSeq(NativeArg(0)) /\ NativeArg(0) = NativeArg(1)
  /\ ~ObjectAt(NativeArg(0).obj_p).m_frozen /\ ObjectAt(NativeArg(0).obj_p).items # << >>

\* The undefined behaviour that executing the instruction is.
UndefinedHere ==
  IF ~HasInstruction THEN {"oob_code"}
  ELSE IF ~InBounds THEN {"oob_memory"}
  ELSE IF Instr.op = "native_call" /\ ~HasNative THEN {"oob_natives"}
  ELSE IF \E o \in Operands : ~Fetchable(o)
       THEN IF Instr.op \in ArithOps \cup CompareOps \cup {"ret"} THEN {"terminate"} ELSE {}
  ELSE IF UsesDangling THEN {"dangling"}
  ELSE {f \in Faults :
         \/ f = "endless" /\ \E v \in Followed : NeverEnds(v)
         \/ f = "endless" /\ \E v \in Shown : v \in Closure(Parts(v), Parts)
         \/ f = "dangling" /\ ConcatsItself
         \/ f = "oob_frames" /\ Instr.op = "call" /\ m_call_frame_ptr + 1 \notin FrameIndex
         \/ f = "oob_heap" /\ Instr.op = "make_seq" /\ NextCell(m_heap) \notin Cell
         \/ f = "trap" /\ Instr.op \in {"div", "mod"}
              /\ ArithTraps(Instr.op, Resolved(Fetched(Lhs)), Fetched(Rhs))}

Crash ==
  /\ InLoop
  /\ \E f \in UndefinedHere : fault' = f
  /\ UNCHANGED <<prgm, m_memory, m_call_frames, m_call_frame_ptr, m_rfi, m_rip, m_rbp,
                 m_rft, m_rrd, m_res, m_heap, exit>>

--------------------------------------------------------------------------------
\* What the handlers have in common

Executing(op) == InLoop /\ HasInstruction /\ Instr.op = op /\ UndefinedHere = {}

SameActivation ==
  UNCHANGED <<prgm, m_call_frames, m_call_frame_ptr, m_rfi, m_rbp, m_rrd, fault, exit>>

\* The handler did its work: registers, heap and frame top as given; next instruction.
Continue(mem, heap, top) ==
  /\ m_memory' = mem
  /\ m_heap' = heap
  /\ m_rft' = top
  /\ m_rip' = NextIp
  /\ SameActivation /\ UNCHANGED m_res

\* The handler gave up before it changed anything.
Fail(status) ==
  /\ m_res' = status
  /\ SameActivation /\ UNCHANGED <<m_memory, m_heap, m_rft, m_rip>>

JumpTo(ip) ==
  /\ m_rip' = ip
  /\ SameActivation /\ UNCHANGED <<m_memory, m_heap, m_rft, m_res>>

Nop == Executing("nop") /\ Continue(m_memory, m_heap, m_rft)

--------------------------------------------------------------------------------
\* Sequences

\* handle_make_seq
MakeSeq ==
  /\ Executing("make_seq")
  /\ LET serial == m_heap.next_id
         p == [cell |-> NextCell(m_heap), serial |-> serial]
     IN  Continue(Put(Arg(1), SeqPtr(p)), TryCreate(m_heap, EmptySequence(serial)), m_rft)

\* handle_seq_obj_push: whatever the mode, and frozen or not, the value goes to the back.
SeqObjPush ==
  /\ Executing("seq_obj_push")
  /\ IF Fetchable(Lhs) /\ IsSeq(Held(Arg(1)))
     THEN LET p == Held(Arg(1)).obj_p
          IN  Continue(m_memory, WithObject(p, PushValue(ObjectAt(p), Fetched(Lhs))), m_rft)
     ELSE Fail("mem_error")

\* handle_seq_obj_pop: SequenceOpPolicy::back is 1.
SeqObjPop ==
  /\ Executing("seq_obj_pop")
  /\ IF IsSeq(Held(Arg(2)))
     THEN LET p == Held(Arg(2)).obj_p
              mode == IF Arg(3) = 1 THEN "back" ELSE "front"
          IN  Continue(Put(Arg(1), PoppedValue(ObjectAt(p), mode)),
                       WithObject(p, PopRest(ObjectAt(p), mode)), m_rft)
     ELSE Fail("mem_error")

\* handle_seq_obj_get: a reference to the item, not a copy of it.
SeqObjGet ==
  /\ Executing("seq_obj_get")
  /\ IF ~Fetchable(Rhs) \/ Fetched(Rhs).tag # "int32" THEN Fail("arg_error")
     ELSE LET pos == Fetched(Rhs).scalar_v
              src == Held(Arg(2))
          IN  IF IsSeq(src) /\ HasItem(ObjectAt(src.obj_p), pos)
              THEN LET item == [obj |-> src.obj_p, gen |-> ObjectAt(src.obj_p).gen, pos |-> pos]
                   IN  Continue(Put(Arg(1), ValRef(item)), m_heap, m_rft)
              ELSE Fail("mem_error")

\* handle_frz_seq_obj
FrzSeqObj ==
  /\ Executing("frz_seq_obj")
  /\ IF IsSeq(Held(Arg(1)))
     THEN LET p == Held(Arg(1)).obj_p
          IN  Continue(m_memory, WithObject(p, Freeze(ObjectAt(p))), m_rft)
     ELSE Fail("mem_error")

--------------------------------------------------------------------------------
\* Moves, arithmetic, comparisons and jumps

\* handle_load_const
LoadConst ==
  /\ Executing("load_const")
  /\ Continue(Put(Arg(1), Fetched(ConstantArg)), m_heap, Raised(Arg(1)))

\* A slip: the destination is replaced, whatever it holds.
MovReplaces ==
  Executing("mov") /\ Fetchable(Lhs) /\ Continue(Put(Arg(1), Fetched(Lhs)), m_heap, Raised(Arg(1)))

\* handle_mov: a value goes through a reference that the destination holds; a reference
\* takes its place.
Mov ==
  /\ Executing("mov")
  /\ IF ~Fetchable(Lhs) THEN Fail("mem_error")
     ELSE IF IsRef(Held(Arg(1))) /\ ~IsRef(Fetched(Lhs))
          THEN Continue(m_memory, WithItem(Referent(Held(Arg(1)).fv_p), Fetched(Lhs)),
                        Raised(Arg(1)))
          ELSE Continue(Put(Arg(1), Fetched(Lhs)), m_heap, Raised(Arg(1)))

\* handle_neg: flips a boolean and reports an error; steps over anything else.
Neg ==
  /\ Executing("neg")
  /\ LET v == Held(Arg(1))
         flipped == Bool(Resolved(v).scalar_v = 0)
     IN  IF Resolved(v).tag # "boolean" THEN Continue(m_memory, m_heap, m_rft)
         ELSE /\ m_memory' = IF IsRef(v) THEN m_memory ELSE Put(Arg(1), flipped)
              /\ m_heap' = IF IsRef(v) THEN WithItem(Referent(v.fv_p), flipped) ELSE m_heap
              /\ m_rft' = Raised(Arg(1))
              /\ m_res' = "arg_error"
              /\ SameActivation /\ UNCHANGED m_rip

\* handle_inc, handle_dec (neither is implemented), and halt
Inc == Executing("inc") /\ Fail("op_error")
Dec == Executing("dec") /\ Fail("op_error")
Halt == Executing("halt") /\ Fail("op_error")

\* handle_mul, handle_add, handle_sub: the left value is copied to the destination and
\* changed there; when it is a reference, what it refers to changes.
InPlaceArith(op) ==
  /\ Executing(op)
  /\ LET lhs == Fetched(Lhs)
     IN  \E r \in Arith(op, Resolved(lhs), Fetched(Rhs)) :
           IF IsRef(lhs)
           THEN Continue(Put(Arg(1), lhs), WithItem(Referent(lhs.fv_p), r), Raised(Arg(1)))
           ELSE Continue(Put(Arg(1), r), m_heap, Raised(Arg(1)))

\* handle_div, handle_mod: the result is a new value; without one the handler fails.
Quotient(op) ==
  /\ Executing(op)
  /\ \E r \in Arith(op, Resolved(Fetched(Lhs)), Fetched(Rhs)) :
       IF r = Dud THEN Fail("math_error")
       ELSE Continue(Put(Arg(1), r), m_heap, Raised(Arg(1)))

\* handle_cmp_eq, _ne, _lt, _gt, _lte, _gte
Comparison(op) ==
  /\ Executing(op)
  /\ \E holds \in Compare(op, Resolved(Fetched(Lhs)), Fetched(Rhs)) :
       Continue(Put(Arg(1), Bool(holds)), m_heap, Raised(Arg(1)))

Jump == Executing("jump") /\ JumpTo(Arg(1))

\* handle_jmp_if, handle_jmp_else
JumpIf ==
  /\ Executing("jump_if")
  /\ JumpTo(IF Truthy(Held(Arg(1))) THEN Arg(2) ELSE NextIp)
JumpElse ==
  /\ Executing("jump_else")
  /\ JumpTo(IF Truthy(Held(Arg(1))) THEN NextIp ELSE Arg(2))

--------------------------------------------------------------------------------
\* Calls and returns

\* handle_call, with the instruction to return to and the callee's base
CallWith(old_rip, base) ==
  /\ Executing("call")
  /\ m_call_frame_ptr' = m_call_frame_ptr + 1
  /\ m_call_frames' = [m_call_frames EXCEPT ![m_call_frame_ptr + 1] =
       [old_func_idx |-> m_rfi, old_func_ip |-> old_rip, old_base_ptr |-> m_rbp,
        old_mem_top |-> m_rft, old_exec_status |-> m_res]]
  /\ m_rrd' = m_rrd + 1
  /\ m_rfi' = Arg(1)
  /\ m_rip' = 0
  /\ m_rbp' = base
  /\ UNCHANGED <<prgm, m_memory, m_rft, m_res, m_heap, fault, exit>>

\* Slips: the call returns to itself, or one instruction too far; the base is one register
\* too low, or too high by the arguments.
CallSkips == CallWith(ToInt16(m_rip + 2), m_rft - Arg(2) + 1)
CallAbove == CallWith(NextIp, m_rft + Arg(2) + 1)
CallAgain == CallWith(m_rip, m_rft - Arg(2) + 1)
CallBelow == CallWith(NextIp, m_rft - Arg(2))

\* The callee's base is its first argument, the last of which is at the top.
Call == CallWith(NextIp, m_rft - Arg(2) + 1)

\* try_mark_and_sweep, first half: what is marked from the registers up to the top.
ObjectsIn(p) ==
  {v.obj_p : v \in {w \in Parts(SeqPtr(p)) : IsSeq(w)}}
MarkedFrom(mem, top) ==
  Closure({mem[r].obj_p : r \in {r \in 0 .. top : IsSeq(mem[r])}}, ObjectsIn)

\* Second half: the marks are not looked at.  Every cell is destroyed in turn, and the
\* first empty one is dereferenced.
FirstEmpty(h) == IF LiveCells(h) = Cell THEN Capacity
                 ELSE CHOOSE c \in Cell \ LiveCells(h) : 0 .. c - 1 \subseteq LiveCells(h)
Swept(h) ==
  LET sweep[n \in 0 .. FirstEmpty(h)] ==
        IF n = 0 THEN h ELSE TryDestroy(sweep[n - 1], n - 1)
  IN  sweep[FirstEmpty(h)]

TryMarkAndSweep(mem, top) ==
  IF ~IsRipe(m_heap) THEN UNCHANGED <<m_heap, fault>>
  ELSE IF \E p \in MarkedFrom(mem, top) : ~Live(p)
       THEN fault' = "dangling" /\ UNCHANGED m_heap
       ELSE /\ m_heap' = Swept(m_heap)
            /\ fault' = IF FirstEmpty(m_heap) = Capacity THEN NoFault ELSE "null_cell"

\* handle_ret: the value goes to the base of the frame, the caller's registers come back
\* from the call frame, and the heap may be collected.
RetWith(top, ptr) ==
  /\ Executing("ret")
  /\ LET caller == m_call_frames[m_call_frame_ptr]
     IN  /\ m_memory' = [m_memory EXCEPT ![m_rbp] = Fetched(Only)]
         /\ m_rfi' = caller.old_func_idx
         /\ m_rip' = caller.old_func_ip
         /\ m_rbp' = caller.old_base_ptr
         /\ m_rft' = top
         /\ m_res' = caller.old_exec_status
         /\ TryMarkAndSweep(m_memory', top)
  /\ m_call_frame_ptr' = ptr
  /\ m_rrd' = m_rrd - 1
  /\ UNCHANGED <<prgm, m_call_frames, exit>>

SavedTopOfCaller == m_call_frames[m_call_frame_ptr].old_mem_top

\* Slips: the callee's top stays; the call frame stays.
RetKeepsTop == RetWith(m_rft, m_call_frame_ptr - 1)
RetKeepsFrame == RetWith(SavedTopOfCaller, m_call_frame_ptr)

Ret == RetWith(SavedTopOfCaller, m_call_frame_ptr - 1)

--------------------------------------------------------------------------------
\* Native functions

\* handle_native_call, with what the function left and whether it returned true
NativeDone(mem, heap, success) ==
  /\ m_memory' = mem
  /\ m_heap' = heap
  /\ m_res' = IF success THEN "ok" ELSE "op_error"
  /\ m_rip' = NextIp
  /\ SameActivation /\ UNCHANGED m_rft

NativeCalled(name) == Executing("native_call") /\ NativeName = name
Returned(v) == [m_memory EXCEPT ![NativeBase] = v]    \* handle_native_fn_return
NativeFailed == NativeDone(m_memory, m_heap, FALSE)

PrintValue == NativeCalled("print") /\ NativeDone(m_memory, m_heap, TRUE)

PromptInt ==
  /\ NativeCalled("prompt_int")
  /\ \E n \in Inputs : NativeDone(Returned(Int32(n)), m_heap, TRUE)

PromptFloat ==
  /\ NativeCalled("prompt_float")
  /\ \E z \in Doubles : NativeDone(Returned(Flt64(z)), m_heap, TRUE)

LenOf ==
  /\ NativeCalled("len_of")
  /\ IF IsSeq(NativeArg(0))
     THEN NativeDone(Returned(Int32(ObjectAt(NativeArg(0).obj_p).m_length)), m_heap, TRUE)
     ELSE NativeFailed

IsFlexibleUnfrozen(v) == IsSeq(v)    \* a slip: is_frozen is not asked
IsFlexible(v) == IsSeq(v) /\ ~ObjectAt(v.obj_p).m_frozen

ListPushBack ==
  /\ NativeCalled("list_push_back")
  /\ LET target == NativeArg(0)
     IN  IF IsFlexible(target)
         THEN NativeDone(Returned(target),
                         WithObject(target.obj_p,
                                    PushValue(ObjectAt(target.obj_p), NativeArg(1))), TRUE)
         ELSE NativeFailed

\* A dud that was popped is gone all the same, but it is not returned.
PopList(mode) ==
  LET target == NativeArg(0)
      popped == PoppedValue(ObjectAt(target.obj_p), mode)
      rest == WithObject(target.obj_p, PopRest(ObjectAt(target.obj_p), mode))
  IN  IF ~IsFlexible(target) THEN NativeFailed
      ELSE IF popped = Dud THEN NativeDone(m_memory, rest, FALSE)
           ELSE NativeDone(Returned(popped), rest, TRUE)

ListPopBack == NativeCalled("list_pop_back") /\ PopList("back")
ListPopFront == NativeCalled("list_pop_front") /\ PopList("front")

\* Leaves nothing at the base: the caller goes on with the target that is there.
ListConcat ==
  /\ NativeCalled("list_concat")
  /\ LET target == NativeArg(0)
         source == NativeArg(1)
     IN  IF IsSeq(source) /\ IsFlexible(target)
         THEN NativeDone(m_memory,
                         WithObject(target.obj_p,
                                    PushAll(ObjectAt(target.obj_p), ObjectAt(source.obj_p).items)),
                         TRUE)
         ELSE NativeFailed

--------------------------------------------------------------------------------
\* The end of the loop, and the machine

\* Main's result is whatever is in register 0, compared with a zero.
Finish ==
  /\ exit = Running /\ fault = NoFault /\ ~InLoop
  /\ IF m_res # "ok" THEN exit' = m_res /\ UNCHANGED fault
     ELSE IF EndsDangling(m_memory[0]) THEN fault' = "dangling" /\ UNCHANGED exit
     ELSE IF NeverEnds(m_memory[0]) THEN fault' = "endless" /\ UNCHANGED exit
     ELSE /\ exit' \in {IF zero THEN "ok" ELSE "user_error" :
                        zero \in Compare("equ", Resolved(m_memory[0]), Int32(0))}
          /\ UNCHANGED fault
  /\ UNCHANGED <<prgm, m_memory, m_call_frames, m_call_frame_ptr, m_rfi, m_rip, m_rbp,
                 m_rft, m_rrd, m_res, m_heap>>

Next ==
  \/ Nop \/ MakeSeq \/ SeqObjPush \/ SeqObjPop \/ SeqObjGet \/ FrzSeqObj
  \/ LoadConst \/ Mov \/ Neg \/ Inc \/ Dec \/ Halt
  \/ \E op \in {"mul", "add", "sub"} : InPlaceArith(op)
  \/ \E op \in {"div", "mod"} : Quotient(op)
  \/ \E op \in CompareOps : Comparison(op)
  \/ Jump \/ JumpIf \/ JumpElse \/ Call \/ Ret
  \/ PrintValue \/ PromptInt \/ PromptFloat \/ LenOf
  \/ ListPushBack \/ ListPopBack \/ ListPopFront \/ ListConcat
  \/ Crash \/ Finish

\* The loop of operator() goes on as long as it can.
Spec == Init /\ [][Next]_vars /\ WF_vars(Next)

================================================================================
