----------------------------- MODULE EngineProperties -----------------------------
(***************************************************************************)
(* What is right about the engine of module Engine.                        *)
(***************************************************************************)
EXTENDS Engine

(***************************************************************************)
(* Type correctness of the engine's registers (vm.hpp 89-105).             *)
(***************************************************************************)
EngineTypeOK ==
  /\ prgm \in ProgramType
  /\ m_memory \in [Register -> Value]
  /\ m_call_frames \in [FrameIndex -> CallFrame]
  /\ m_call_frame_ptr \in -1 .. FrameMax - 1
  /\ m_rfi \in Int16 /\ m_rip \in Int16
  /\ m_rbp \in 0 .. MemLimit
  /\ m_rft \in Register
  /\ m_rrd \in 0 .. FrameMax
  /\ m_res \in Statuses
  /\ HeapType(m_heap, Sequence)
  /\ fault \in Faults \cup {NoFault}
  /\ exit \in Statuses \cup {Running}

--------------------------------------------------------------------------------
\* The calling convention

(***************************************************************************)
(* Every program that runs is well-formed (module Bytecode): what the      *)
(* theorems about the engine assume.                                       *)
(***************************************************************************)
AllWellFormed == \A p \in Programs : WellFormed(p)

(***************************************************************************)
(* The frames of the active calls (handle_call, handle_ret): there is one  *)
(* for each caller, their bases rise from the outermost to the current one,*)
(* and no base is more than one above the top its caller had.              *)
(***************************************************************************)
SavedBase(k) == IF k = m_rrd THEN m_rbp ELSE m_call_frames[k].old_base_ptr
SavedTop(k) == IF k = m_rrd THEN m_rft ELSE m_call_frames[k].old_mem_top

FrameDiscipline ==
  /\ m_call_frame_ptr = m_rrd - 1
  /\ \A k \in 1 .. m_rrd :
       /\ 0 <= SavedBase(k) /\ SavedBase(k) <= SavedTop(k) + 1
       /\ k > 1 => /\ SavedBase(k - 1) <= SavedBase(k)
                   /\ SavedBase(k) <= SavedTop(k - 1) + 1

(***************************************************************************)
(* A running function, and a native function it calls, leaves the registers*)
(* below its base alone: those are its callers' (every m_rbp + n, and      *)
(* handle_native_fn_return).                                               *)
(***************************************************************************)
CallersKept == \A r \in Register : r < m_rbp => m_memory'[r] = m_memory[r]

CallerRegistersIntact == [][CallersKept]_vars

(***************************************************************************)
(* Calls and returns (handle_call, handle_ret) implement a stack of        *)
(* activations: the current one is in the registers, and the k-th caller's *)
(* was saved in the k-th call frame.                                       *)
(***************************************************************************)
Activation(k) ==
  IF k = m_rrd THEN [func |-> m_rfi, ip |-> m_rip, base |-> m_rbp, top |-> m_rft]
  ELSE [func |-> m_call_frames[k].old_func_idx, ip |-> m_call_frames[k].old_func_ip,
        base |-> m_call_frames[k].old_base_ptr, top |-> m_call_frames[k].old_mem_top]

Stack == INSTANCE ActivationStack WITH
  Main <- {p.entry_id : p \in Programs},
  stack <- [k \in 1 .. m_rrd |-> Activation(k)]

ActivationSpec == Stack!Spec

--------------------------------------------------------------------------------
\* The heap and the lists in it

(***************************************************************************)
(* The heap keeps its own invariant under the engine, collections included;*)
(* a list knows how many items it has, and no two live lists were created  *)
(* as the same object (heap_storage.cpp 18-54, sequence_value.cpp 31-56).  *)
(***************************************************************************)
HeapSound ==
  /\ HeapInvOf(m_heap, Sequence)
  /\ \A c \in LiveCells(m_heap) :
       LET s == m_heap.objects[c]
       IN  Counted(s) /\ s.serial < m_heap.next_id
  /\ \A c, d \in LiveCells(m_heap) :
       m_heap.objects[c].serial = m_heap.objects[d].serial => c = d

(***************************************************************************)
(* A tuple never changes its size: after frz_seq_obj neither an            *)
(* instruction nor a native function (mnl_lists.cpp) adds or removes an    *)
(* item, and nothing makes the list flexible again.                        *)
(***************************************************************************)
FrozenKeepsLength ==
  [][\A c \in LiveCells(m_heap) :
       LET old == m_heap.objects[c]
           new == m_heap'.objects[c]
       IN  old.m_frozen /\ new # Null /\ new.serial = old.serial =>
             new.m_frozen /\ Len(new.items) = Len(old.items)]_vars

(***************************************************************************)
(* The one instruction that adds an item without asking whether the list is*)
(* frozen, seq_obj_push, is only given lists that are being filled: what   *)
(* docs/vm.md:34 says, "if it's flexible", is up to the compiled program   *)
(* (handle_seq_obj_push, emit_sequence).                                   *)
(***************************************************************************)
PushTargetsFlexible ==
  Executing("seq_obj_push") /\ IsSeq(Held(Arg(1))) =>
    ~ObjectAt(Held(Arg(1)).obj_p).m_frozen

(***************************************************************************)
(* Only a collection destroys: an object that a register or an item of a   *)
(* list names stays alive through every step but a return with a ripe heap *)
(* (handle_make_seq, try_create_value, try_mark_and_sweep).                *)
(***************************************************************************)
Handles ==
  {v.obj_p : v \in {v \in {m_memory[r] : r \in Register} : IsSeq(v)}}
  \cup UNION {ObjectsIn([cell |-> c, serial |-> m_heap.objects[c].serial]) :
              c \in LiveCells(m_heap)}

OnlyCollectionDestroys ==
  [][\A p \in Handles : Live(p) => Live(p)' \/ (IsRipe(m_heap) /\ m_rrd' < m_rrd)]_vars

(***************************************************************************)
(* The program meets no undefined behaviour on any input: every register it*)
(* names is in m_memory, every frame in m_call_frames, every pointer it    *)
(* follows (handle_mov, handle_seq_obj_push, operator+= ...) is good.      *)
(* What an int too large for its width is, is taken from the build: it     *)
(* wraps around (IntArith in module FastValue).                            *)
(***************************************************************************)
RunsDefined == fault = NoFault

(***************************************************************************)
(* The engine checks no position, id or mode, and does not have to: a      *)
(* program that is closed stays in its code, calls native functions that   *)
(* are there and fetches every operand, whatever it computes, and however  *)
(* its calls, returns and jumps follow each other (operator(), handle_call,*)
(* handle_ret, handle_jmp_else, fetch_value).                              *)
(***************************************************************************)
Closed(p) == ClosedFrom(p, Len(NativeTable))

StaysInCode == fault \in {"oob_code", "oob_natives", "terminate"} => ~Closed(prgm)

(***************************************************************************)
(* Registers do not run out before call frames do: a closed program whose  *)
(* instructions name registers below a width, with more room than that     *)
(* many for each frame, indexes no cell outside of m_memory at any depth   *)
(* of calls.  Where a callee's registers are depends on the top that every *)
(* caller left (driver.cpp 29-32, handle_call, handle_native_call).        *)
(***************************************************************************)
Pairs == {i \in DOMAIN NativeTable : NativeTable[i] \in {"list_push_back", "list_concat"}}
PairsGiven(p) ==
  \A f \in DOMAIN p.chunks : \A n \in DOMAIN p.chunks[f] :
    LET i == p.chunks[f][n]
    IN  i.op = "native_call" /\ i.args[1] + 1 \in Pairs => i.args[2] > 0

Roomy(p, width) == FrameMax * width < MemLimit /\ Narrow(p, width) /\ PairsGiven(p)

StaysInMemory ==
  fault = "oob_memory" => ~(Closed(prgm) /\ \E width \in 1 .. MemLimit : Roomy(prgm, width))

(***************************************************************************)
(* A program that makes no list can do two undefined things only: call     *)
(* more deeply than there are frames, and divide the smallest int by -1.   *)
(* That assumes of the build that a sum, a difference or a product too     *)
(* large for an int wraps around: C++ leaves that undefined as well, and no*)
(* preset passes -fwrapv (IntArith in module FastValue).  Its registers    *)
(* never come to hold a pointer, so that handlers of lists give up, no     *)
(* chain of references is followed, and the collection, which would        *)
(* dereference an empty cell, never begins (handle_seq_obj_get, handle_mov,*)
(* handle_ret, try_mark_and_sweep, is_ripe).                               *)
(***************************************************************************)
IsNumber(v) == ~IsSeq(v) /\ ~IsRef(v)
MakesNoList(p) ==
  /\ \A f \in DOMAIN p.chunks : \A n \in DOMAIN p.chunks[f] : p.chunks[f][n].op # "make_seq"
  /\ \A k \in DOMAIN p.constants : IsNumber(p.constants[k])

Numeric(p) ==
  Closed(p) /\ MakesNoList(p) /\ GcThreshold > 0 /\ \E width \in 1 .. MemLimit : Roomy(p, width)

NumbersStayDefined == Numeric(prgm) => fault \in {NoFault, "oob_frames", "trap"}

(***************************************************************************)
(* The loop of operator() ends and the engine returns a status, for        *)
(* programs whose loops and recursion are bounded (handle_jmp_else,        *)
(* handle_call, handle_ret).                                               *)
(***************************************************************************)
Terminates == <>(exit # Running)

--------------------------------------------------------------------------------
\* What the documents and the comments say, and the engine does not do

(***************************************************************************)
(* What a register frame holds for the callee (vm.md:57, "prepares a       *)
(* register frame above the latest argument register"): the last argument, *)
(* which the instruction before the call moved to its register, is at the  *)
(* top, from where handle_call counts the callee's base.                   *)
(***************************************************************************)
ArgumentsDelivered ==
  InLoop /\ HasInstruction /\ HasArguments(Instr) =>
    Reg(prgm.chunks[m_rfi + 1][m_rip].args[1]) = m_rft

(***************************************************************************)
(* The comment at vm.cpp 213: "If the value is unmarked, the VM can collect*)
(* it", so a marked one is spared.                                         *)
(***************************************************************************)
CollectionSparesMarked ==
  [][m_rrd' < m_rrd =>
       \A p \in MarkedFrom(m_memory', m_rft') :
         Live(p) => m_heap'.objects[p.cell] = ObjectAt(p)]_vars

====================================================================================
