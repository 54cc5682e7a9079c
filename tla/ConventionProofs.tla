----------------------------- MODULE ConventionProofs -----------------------------
(***************************************************************************)
(* The calling convention, proved for all well-formed programs (of any     *)
(* number of functions, of at most 32767 instructions each: WellFormed) and*)
(* for memories and call stacks of any size: the frames of the active      *)
(* calls are in order, no function touches its callers' registers, and a   *)
(* closed program leaves neither its code nor, when it is narrow enough,   *)
(* the memory.                                                             *)
(***************************************************************************)
EXTENDS EngineProperties, TLAPS

\* The chunk that runs, and whether the instruction before position ip in a chunk is a call.
Chunk == prgm.chunks[m_rfi + 1]
AfterCall(func, ip) ==
  /\ func + 1 \in DOMAIN prgm.chunks
  /\ ip \in DOMAIN prgm.chunks[func + 1]
  /\ prgm.chunks[func + 1][ip].op = "call"

Registers ==
  /\ prgm \in Programs
  /\ DOMAIN m_memory = Register
  /\ m_call_frames \in [FrameIndex -> CallFrame]
  /\ m_rfi \in Int /\ m_rip \in Int /\ m_rbp \in Int /\ m_rft \in Int
  /\ m_rfi \in Int16 /\ m_rip \in Int16
  /\ m_rrd \in 0 .. FrameMax
  /\ m_res \in Statuses

\* Every caller goes on right after its call.
ReturnsAfterCalls ==
  \A k \in 1 .. m_rrd - 1 :
    AfterCall(m_call_frames[k].old_func_idx, m_call_frames[k].old_func_ip)

\* When a call is next, its arguments are between the base and the top.
ArgumentsInFrame ==
  m_rrd > 0 /\ HasInstruction /\ HasArguments(Instr) => m_rbp + Arg(2) <= m_rft + 1

(***************************************************************************)
(* FrameDiscipline is not inductive by itself: that a callee's base is not *)
(* below its caller's needs the arguments in the caller's frame when it    *)
(* calls, and that they are needs every return to land after a call, where *)
(* no second call with arguments can be.                                   *)
(***************************************************************************)
ConventionInv ==
  /\ Registers
  /\ FrameDiscipline
  /\ ReturnsAfterCalls
  /\ ArgumentsInFrame

--------------------------------------------------------------------------------
\* What every handler but handle_call and handle_ret does

KeepsBelow(mem) ==
  /\ DOMAIN mem = Register
  /\ \A r \in Register : r < m_rbp => mem[r] = m_memory[r]

Follows ==
  HasInstruction /\ m_rip' = m_rip + 1 /\ (Instr.op = "mov" => m_rft' >= Reg(Arg(1)))

Lands == m_rip' \in Int16 /\ Landing(Chunk, m_rip')

LocalStep ==
  /\ UNCHANGED <<prgm, m_call_frames, m_call_frame_ptr, m_rfi, m_rbp, m_rrd>>
  /\ m_rft' \in Int /\ m_rft' >= m_rft
  /\ m_res' \in Statuses
  /\ KeepsBelow(m_memory')
  /\ m_rip' = m_rip \/ Follows \/ Lands

(***************************************************************************)
(* An instruction of a program is one, and its arguments are not negative. *)
(***************************************************************************)
LEMMA InstructionAt ==
  ASSUME AllWellFormed, NEW p \in Programs, NEW f \in DOMAIN p.chunks,
         NEW n \in DOMAIN p.chunks[f]
  PROVE  /\ p.chunks[f] \in Seq(Instruction)
         /\ WellFormedChunk(p.chunks[f])
         /\ \A k \in 1 .. 3 : p.chunks[f][n].args[k] \in Nat /\ p.chunks[f][n].args[k] \in Int16
<1>1. p.chunks \in Seq(Seq(Instruction))
  BY EngineAssumption DEF ProgramType
<1>2. p.chunks[f] \in Seq(Instruction)
  BY <1>1
<1>3. WellFormedChunk(p.chunks[f])
  BY DEF AllWellFormed, WellFormed
<1>4. \A i \in Instruction : i.args \in [1 .. 3 -> Int16]
  BY DEF Instruction
<1>5. Int16 \subseteq Int
  BY DEF Int16
<1>6. \A k \in 1 .. 3 : p.chunks[f][n].args[k] \in Int /\ p.chunks[f][n].args[k] \in Int16
  <2>1. p.chunks[f][n] \in Instruction
    BY <1>2
  <2>2. p.chunks[f][n].args \in [1 .. 3 -> Int16]
    BY <1>4, <2>1
  <2>3. QED
    BY <1>5, <2>2
<1>7. \A k \in 1 .. 3 : p.chunks[f][n].args[k] >= 0
  BY <1>3 DEF WellFormedChunk, WellFormedInstruction
<1>8. QED
  BY <1>2, <1>3, <1>6, <1>7

\* At an instruction, the engine's chunk is well-formed and the instruction's
\* arguments are not negative.
LEMMA InstructionTyped ==
  ASSUME AllWellFormed, Registers, HasInstruction
  PROVE  /\ m_rip + 1 \in DOMAIN Chunk
         /\ Instr = Chunk[m_rip + 1]
         /\ WellFormedChunk(Chunk)
         /\ Arg(1) \in Nat /\ Arg(2) \in Nat /\ Arg(3) \in Nat
         /\ Arg(1) \in Int16 /\ Arg(2) \in Int16 /\ Arg(3) \in Int16
<1>1. prgm \in Programs /\ m_rfi + 1 \in DOMAIN prgm.chunks /\ m_rip + 1 \in DOMAIN Chunk
  BY DEF Registers, HasInstruction, Chunk
<1>2. Instr = Chunk[m_rip + 1]
  BY DEF Instr, Chunk
<1>3. /\ WellFormedChunk(Chunk)
      /\ \A k \in 1 .. 3 : Chunk[m_rip + 1].args[k] \in Nat /\ Chunk[m_rip + 1].args[k] \in Int16
  BY <1>1, InstructionAt DEF Chunk
<1>4. QED
  BY <1>1, <1>2, <1>3 DEF Arg

(***************************************************************************)
(* The 16-bit numbers are numbers, among them those from 0 to Int16Max, and*)
(* none of them is cut when it is stored in 16 bits.                       *)
(***************************************************************************)
LEMMA Int16Stays ==
  /\ Int16 \subseteq Int /\ 0 \in Int16
  /\ \A n \in Nat : n <= Int16Max => n \in Int16
  /\ \A n \in Int16 : ToInt16(n) = n
  /\ \A n \in Int : ToInt16(n) \in Int16
<1>1. Int16Max \in Nat /\ Int16Max + 1 = 32768
  BY DEF Int16Max
<1>2. \A n \in Int16 : n \in Int /\ n + 32768 >= 0 /\ n + 32768 < 65536
  BY <1>1 DEF Int16
<1>3. 0 \in Int16 /\ \A n \in Nat : n <= Int16Max => n \in Int16
  BY <1>1 DEF Int16
<1>4. ASSUME NEW n \in Int16 PROVE ToInt16(n) = n
  BY <1>2 DEF ToInt16
<1>5. ASSUME NEW n \in Int PROVE ToInt16(n) \in Int16
  BY <1>1 DEF ToInt16, Int16
<1>6. QED
  BY <1>2, <1>3, <1>4, <1>5

(***************************************************************************)
(* The next position never wraps around in a well-formed program: the      *)
(* position after the last instruction can still be counted.               *)
(***************************************************************************)
LEMMA NextIpFollows ==
  ASSUME AllWellFormed, Registers, HasInstruction
  PROVE  NextIp = m_rip + 1 /\ NextIp \in Int16
<1>1. m_rip + 1 \in DOMAIN Chunk /\ Len(Chunk) <= Int16Max
  BY InstructionTyped DEF WellFormedChunk, Countable
<1>2. Chunk \in Seq(Instruction)
  <2>1. prgm \in Programs /\ m_rfi + 1 \in DOMAIN prgm.chunks /\ m_rip + 1 \in DOMAIN prgm.chunks[m_rfi + 1]
    BY DEF Registers, HasInstruction
  <2>2. QED
    BY <2>1, InstructionAt DEF Chunk
<1>3. m_rip + 1 \in Nat /\ m_rip + 1 <= Int16Max
  <2>1. DOMAIN Chunk = 1 .. Len(Chunk) /\ Len(Chunk) \in Nat /\ m_rip \in Int /\ Int16Max \in Nat
    BY <1>2 DEF Registers, Int16Max
  <2>2. QED
    BY <1>1, <2>1
<1>4. m_rip + 1 \in Int16
  BY <1>3, Int16Stays
<1>5. QED
  BY <1>4, Int16Stays DEF NextIp

(***************************************************************************)
(* The bases and tops of the active frames are numbers.                    *)
(***************************************************************************)
LEMMA SavedTyped ==
  ASSUME Registers, NEW k \in 1 .. m_rrd
  PROVE  SavedBase(k) \in Int /\ SavedTop(k) \in Int
<1>1. k # m_rrd => k \in FrameIndex
  BY EngineAssumption DEF Registers, FrameIndex
<1>2. k # m_rrd => m_call_frames[k].old_base_ptr \in Int /\ m_call_frames[k].old_mem_top \in Int
  BY <1>1 DEF Registers, CallFrame
<1>3. QED
  BY <1>2 DEF SavedBase, SavedTop, Registers

(***************************************************************************)
(* Writing a register of the frame leaves the cells below the base alone.  *)
(***************************************************************************)
LEMMA PutKeepsBelow ==
  ASSUME Registers, NEW id \in Nat, NEW v
  PROVE  KeepsBelow(Put(id, v))
BY DEF Registers, KeepsBelow, Put, Reg, Register

\* Leaving the registers as they are leaves the callers' as they are.
LEMMA MemoryKeepsBelow ==
  ASSUME Registers
  PROVE  KeepsBelow(m_memory)
BY DEF Registers, KeepsBelow

(***************************************************************************)
(* The top that a write leaves is over the old one and the register.       *)
(***************************************************************************)
LEMMA RaisedBounds ==
  ASSUME Registers, NEW id \in Nat
  PROVE  Raised(id) \in Int /\ Raised(id) >= m_rft /\ Raised(id) >= Reg(id)
BY DEF Registers, Raised, Reg

\* A handler that finishes its work is a local step.
LEMMA ContinueIsLocal ==
  ASSUME AllWellFormed, Registers, HasInstruction,
         NEW mem, NEW heap, NEW top \in Int, top >= m_rft, KeepsBelow(mem),
         Instr.op = "mov" => top >= Reg(Arg(1)),
         Continue(mem, heap, top)
  PROVE  LocalStep
BY NextIpFollows DEF Continue, SameActivation, LocalStep, Follows, Registers

\* A handler that gives up is a local step.
LEMMA FailIsLocal ==
  ASSUME Registers, NEW status \in Statuses, Fail(status)
  PROVE  LocalStep
BY MemoryKeepsBelow DEF Fail, SameActivation, LocalStep, Registers

\* A jump to the next instruction or to a landing is a local step.
LEMMA JumpIsLocal ==
  ASSUME Registers, HasInstruction, Instr.op # "mov",
         NEW ip \in Int16, ip = m_rip + 1 \/ Landing(Chunk, ip),
         JumpTo(ip)
  PROVE  LocalStep
BY MemoryKeepsBelow DEF JumpTo, SameActivation, LocalStep, Registers, Follows, Lands

\* A native call that keeps the registers below the base is a local step.
LEMMA NativeIsLocal ==
  ASSUME AllWellFormed, Registers, HasInstruction, Instr.op # "mov",
         NEW mem, NEW heap, NEW success \in BOOLEAN, KeepsBelow(mem),
         NativeDone(mem, heap, success)
  PROVE  LocalStep
BY NextIpFollows DEF NativeDone, SameActivation, LocalStep, Follows, Registers, Statuses

(***************************************************************************)
(* A handler that writes its first register, or none, is a local step.     *)
(***************************************************************************)
LEMMA WriteIsLocal ==
  ASSUME AllWellFormed, Registers, HasInstruction, NEW v, NEW heap, NEW top,
         top = Raised(Arg(1)) \/ (top = m_rft /\ Instr.op # "mov"),
         Continue(Put(Arg(1), v), heap, top)
  PROVE  LocalStep
<1>1. Arg(1) \in Nat
  BY InstructionTyped
<1>2. KeepsBelow(Put(Arg(1), v))
  BY <1>1, PutKeepsBelow
<1>3. top \in Int /\ top >= m_rft /\ (Instr.op = "mov" => top >= Reg(Arg(1)))
  BY <1>1, RaisedBounds DEF Registers
<1>4. QED
  BY <1>2, <1>3, ContinueIsLocal

\* A handler that changes no register is a local step.
LEMMA RestIsLocal ==
  ASSUME AllWellFormed, Registers, HasInstruction, NEW heap, NEW top,
         top = Raised(Arg(1)) \/ (top = m_rft /\ Instr.op # "mov"),
         Continue(m_memory, heap, top)
  PROVE  LocalStep
<1>1. Arg(1) \in Nat
  BY InstructionTyped
<1>2. top \in Int /\ top >= m_rft /\ (Instr.op = "mov" => top >= Reg(Arg(1)))
  BY <1>1, RaisedBounds DEF Registers
<1>3. QED
  BY <1>2, MemoryKeepsBelow, ContinueIsLocal

\* An argument of a native call is not below the caller's frame, and not above its top plus one.
LEMMA NativeBaseInFrame ==
  ASSUME AllWellFormed, ConventionInv, InLoop, HasInstruction, Instr.op = "native_call"
  PROVE  /\ NativeBase \in Int /\ m_rbp <= NativeBase /\ NativeBase <= m_rft + 1
         /\ Arg(2) > 0 => NativeBase <= m_rft
<1>1. Arg(2) \in Nat
  BY InstructionTyped DEF ConventionInv
<1>2. m_rbp <= m_rft + 1
  BY DEF ConventionInv, FrameDiscipline, SavedBase, SavedTop, InLoop, Registers
<1>3. Arg(2) > 0 => m_rbp + Arg(2) <= m_rft + 1
  BY DEF ConventionInv, ArgumentsInFrame, HasArguments, Arg, InLoop
<1>4. QED
  BY <1>1, <1>2, <1>3 DEF NativeBase, ConventionInv, Registers

(***************************************************************************)
(* A native function's result is not below the caller's frame.             *)
(***************************************************************************)
LEMMA ReturnedKeepsBelow ==
  ASSUME AllWellFormed, ConventionInv, InLoop, HasInstruction, Instr.op = "native_call",
         NEW v
  PROVE  KeepsBelow(Returned(v))
BY NativeBaseInFrame DEF Returned, KeepsBelow, ConventionInv, Registers, Register

(***************************************************************************)
(* Every handler but handle_call and handle_ret is a local step.           *)
(***************************************************************************)
LEMMA HandlersAreLocal ==
  ASSUME AllWellFormed, ConventionInv
  PROVE  /\ Nop => LocalStep
         /\ MakeSeq => LocalStep
         /\ SeqObjPush => LocalStep
         /\ SeqObjPop => LocalStep
         /\ SeqObjGet => LocalStep
         /\ FrzSeqObj => LocalStep
         /\ LoadConst => LocalStep
         /\ Mov => LocalStep
         /\ Neg => LocalStep
         /\ Inc \/ Dec \/ Halt => LocalStep
         /\ \A op \in {"mul", "add", "sub"} : InPlaceArith(op) => LocalStep
         /\ \A op \in {"div", "mod"} : Quotient(op) => LocalStep
         /\ \A op \in CompareOps : Comparison(op) => LocalStep
<1> USE DEF Executing, Statuses
<1>0. Registers
  BY DEF ConventionInv
<1>1. Nop => LocalStep
  BY <1>0, RestIsLocal DEF Nop
<1>2. MakeSeq => LocalStep
  BY <1>0, WriteIsLocal DEF MakeSeq
<1>3. SeqObjPush => LocalStep
  BY <1>0, RestIsLocal, FailIsLocal DEF SeqObjPush
<1>4. SeqObjPop => LocalStep
  BY <1>0, WriteIsLocal, FailIsLocal DEF SeqObjPop
<1>5. SeqObjGet => LocalStep
  BY <1>0, WriteIsLocal, FailIsLocal DEF SeqObjGet
<1>6. FrzSeqObj => LocalStep
  BY <1>0, RestIsLocal, FailIsLocal DEF FrzSeqObj
<1>7. LoadConst => LocalStep
  BY <1>0, WriteIsLocal DEF LoadConst
<1>8. Mov => LocalStep
  BY <1>0, WriteIsLocal, RestIsLocal, FailIsLocal DEF Mov
<1>10. Inc \/ Dec \/ Halt => LocalStep
  BY <1>0, FailIsLocal DEF Inc, Dec, Halt
<1>11. ASSUME NEW op \in {"mul", "add", "sub"}, InPlaceArith(op)
       PROVE  LocalStep
  BY <1>0, <1>11, WriteIsLocal DEF InPlaceArith
<1>12. ASSUME NEW op \in {"div", "mod"}, Quotient(op)
       PROVE  LocalStep
  BY <1>0, <1>12, WriteIsLocal, FailIsLocal DEF Quotient
<1>13. ASSUME NEW op \in CompareOps, Comparison(op)
       PROVE  LocalStep
  BY <1>0, <1>13, WriteIsLocal DEF Comparison
<1>9. Neg => LocalStep
  <2> SUFFICES ASSUME Neg PROVE LocalStep
    OBVIOUS
  <2>1. CASE Resolved(Held(Arg(1))).tag # "boolean"
    BY <1>0, <2>1, RestIsLocal DEF Neg
  <2>2. CASE Resolved(Held(Arg(1))).tag = "boolean"
    <3>1. Arg(1) \in Nat
      BY <1>0, InstructionTyped DEF Neg
    <3>2. /\ SameActivation /\ m_rip' = m_rip
          /\ m_rft' = Raised(Arg(1)) /\ m_res' = "arg_error"
          /\ m_memory' = m_memory
               \/ m_memory' = Put(Arg(1), Bool(Resolved(Held(Arg(1))).scalar_v = 0))
      BY <2>2 DEF Neg
    <3>3. KeepsBelow(m_memory')
      BY <1>0, <3>1, <3>2, PutKeepsBelow, MemoryKeepsBelow
    <3>4. QED
      BY <1>0, <3>1, <3>2, <3>3, RaisedBounds DEF LocalStep, SameActivation, Registers
  <2>3. QED
    BY <2>1, <2>2
<1>14. QED
  BY <1>1, <1>2, <1>3, <1>4, <1>5, <1>6, <1>7, <1>8, <1>9, <1>10, <1>11, <1>12, <1>13

\* The jumps go to the next instruction or to a landing.
LEMMA JumpsAreLocal ==
  ASSUME AllWellFormed, ConventionInv
  PROVE  Jump \/ JumpIf \/ JumpElse => LocalStep
<1> USE DEF Executing
<1>0. Registers
  BY DEF ConventionInv
<1>1. HasInstruction =>
        /\ WellFormedChunk(Chunk) /\ m_rip + 1 \in DOMAIN Chunk /\ Instr = Chunk[m_rip + 1]
        /\ Arg(1) \in Int16 /\ Arg(2) \in Int16
  BY <1>0, InstructionTyped
<1>2. HasInstruction /\ Instr.op = "jump" => Landing(Chunk, Arg(1))
  BY <1>1 DEF WellFormedChunk, WellFormedInstruction, Arg
<1>3. HasInstruction /\ Instr.op \in {"jump_if", "jump_else"} => Landing(Chunk, Arg(2))
  BY <1>1 DEF WellFormedChunk, WellFormedInstruction, Arg
<1>4. HasInstruction => NextIp = m_rip + 1 /\ NextIp \in Int16
  BY <1>0, NextIpFollows
<1>5. Jump => LocalStep
  BY <1>0, <1>1, <1>2, JumpIsLocal DEF Jump
<1>6. JumpIf => LocalStep
  BY <1>0, <1>1, <1>3, <1>4, JumpIsLocal DEF JumpIf
<1>7. JumpElse => LocalStep
  BY <1>0, <1>1, <1>3, <1>4, JumpIsLocal DEF JumpElse
<1>8. QED
  BY <1>5, <1>6, <1>7

\* The native functions keep to the frame of the function that calls them.
LEMMA NativesAreLocal ==
  ASSUME AllWellFormed, ConventionInv
  PROVE  /\ PrintValue => LocalStep
         /\ PromptInt => LocalStep
         /\ PromptFloat => LocalStep
         /\ LenOf => LocalStep
         /\ ListPushBack => LocalStep
         /\ ListPopBack \/ ListPopFront => LocalStep
         /\ ListConcat => LocalStep
<1> USE DEF Executing, NativeCalled, NativeFailed
<1>0. Registers /\ KeepsBelow(m_memory)
  BY MemoryKeepsBelow DEF ConventionInv
<1>1. \A name : NativeCalled(name) => InLoop /\ HasInstruction /\ Instr.op = "native_call"
  OBVIOUS
<1>2. PrintValue => LocalStep
  BY <1>0, NativeIsLocal DEF PrintValue
<1>3. PromptInt => LocalStep
  BY <1>0, ReturnedKeepsBelow, NativeIsLocal DEF PromptInt
<1>4. PromptFloat => LocalStep
  BY <1>0, ReturnedKeepsBelow, NativeIsLocal DEF PromptFloat
<1>5. LenOf => LocalStep
  BY <1>0, ReturnedKeepsBelow, NativeIsLocal DEF LenOf
<1>6. ListPushBack => LocalStep
  BY <1>0, ReturnedKeepsBelow, NativeIsLocal DEF ListPushBack
<1>7. ListPopBack \/ ListPopFront => LocalStep
  BY <1>0, ReturnedKeepsBelow, NativeIsLocal DEF ListPopBack, ListPopFront, PopList
<1>8. ListConcat => LocalStep
  BY <1>0, NativeIsLocal DEF ListConcat
<1>9. QED
  BY <1>2, <1>3, <1>4, <1>5, <1>6, <1>7, <1>8

\* A step that ends the run, and a step of something else, are local steps.
LEMMA StopsAreLocal ==
  ASSUME Registers
  PROVE  Crash \/ Finish \/ UNCHANGED vars => LocalStep
BY MemoryKeepsBelow DEF Crash, Finish, vars, LocalStep, Registers

--------------------------------------------------------------------------------
\* The invariant

(***************************************************************************)
(* The engine starts with main's activation alone (Engine::Engine).        *)
(***************************************************************************)
LEMMA InitConvention ==
  ASSUME AllWellFormed, Init
  PROVE  ConventionInv
<1>1. prgm \in Programs /\ prgm.entry_id \in Int16 /\ 1 \in 0 .. FrameMax
  <2>1. prgm \in Programs /\ prgm \in ProgramType
    BY EngineAssumption DEF Init, Boot
  <2>2. prgm.entry_id \in Int16
    BY <2>1 DEF ProgramType
  <2>3. 1 \in 0 .. FrameMax
    BY EngineAssumption
  <2>4. QED
    BY <2>1, <2>2, <2>3
<1>2. Registers
  <2>1. BlankFrame \in CallFrame
    BY Int16Stays DEF BlankFrame, CallFrame, Statuses
  <2>2. m_rfi \in Int16 /\ m_rip \in Int16
    BY <1>1, Int16Stays DEF Init, Boot
  <2>3. m_rfi \in Int /\ m_rip \in Int
    BY <2>2, Int16Stays
  <2>4. QED
    BY <1>1, <2>1, <2>2, <2>3 DEF Init, Boot, Registers, Register, Statuses
<1>3. FrameDiscipline
  BY DEF Init, Boot, FrameDiscipline, SavedBase, SavedTop
<1>4. ReturnsAfterCalls
  BY DEF Init, Boot, ReturnsAfterCalls
<1>5. ArgumentsInFrame
  <2> SUFFICES ASSUME HasInstruction, HasArguments(Instr) PROVE FALSE
    BY DEF ArgumentsInFrame
  <2>1. WellFormedChunk(Chunk) /\ m_rip + 1 \in DOMAIN Chunk /\ Instr = Chunk[m_rip + 1]
    BY <1>2, InstructionTyped
  <2>2. m_rip + 1 = 1
    BY DEF Init, Boot
  <2>3. QED
    BY <2>1, <2>2 DEF WellFormedChunk, WellFormedInstruction
<1>6. QED
  BY <1>2, <1>3, <1>4, <1>5 DEF ConventionInv

(***************************************************************************)
(* A local step keeps the invariant: it can only raise the top, and the    *)
(* instruction it leads to is a call with arguments only after the move of *)
(* the last one.                                                           *)
(***************************************************************************)
LEMMA LocalStepKeepsConvention ==
  ASSUME AllWellFormed, ConventionInv, LocalStep
  PROVE  ConventionInv'
<1>1. Registers'
  <2>1. m_rip' \in Int16
    <3>1. CASE Follows
      BY <3>1, NextIpFollows DEF Follows, ConventionInv
    <3>2. CASE m_rip' = m_rip \/ Lands
      BY <3>2 DEF Lands, ConventionInv, Registers
    <3>3. QED
      BY <3>1, <3>2 DEF LocalStep
  <2>2. m_rip' \in Int
    BY <2>1, Int16Stays
  <2>3. QED
    BY <2>1, <2>2 DEF LocalStep, KeepsBelow, ConventionInv, Registers
<1>2. FrameDiscipline'
  <2>0. /\ Registers /\ FrameDiscipline
        /\ m_rrd' = m_rrd /\ m_rbp' = m_rbp /\ m_call_frames' = m_call_frames
        /\ m_call_frame_ptr' = m_call_frame_ptr
        /\ m_rft \in Int /\ m_rft' \in Int /\ m_rft' >= m_rft /\ m_rrd \in Nat
    BY DEF LocalStep, ConventionInv, Registers
  <2>1. \A k \in 1 .. m_rrd : SavedBase(k)' = SavedBase(k)
    BY <2>0 DEF SavedBase
  <2>2. \A k \in 1 .. m_rrd : SavedTop(k)' = IF k = m_rrd THEN m_rft' ELSE SavedTop(k)
    BY <2>0 DEF SavedTop
  <2>3. \A k \in 1 .. m_rrd : SavedTop(k)' \in Int /\ SavedTop(k)' >= SavedTop(k)
    BY <2>0, <2>2, SavedTyped DEF SavedTop
  <2>4. SUFFICES ASSUME NEW k \in 1 .. m_rrd
                 PROVE  /\ 0 <= SavedBase(k)' /\ SavedBase(k)' <= SavedTop(k)' + 1
                        /\ k > 1 => /\ SavedBase(k - 1)' <= SavedBase(k)'
                                    /\ SavedBase(k)' <= SavedTop(k - 1)' + 1
    BY <2>0 DEF FrameDiscipline
  <2>5. /\ 0 <= SavedBase(k) /\ SavedBase(k) <= SavedTop(k) + 1
        /\ k > 1 => k - 1 \in 1 .. m_rrd /\ SavedBase(k - 1) <= SavedBase(k)
                     /\ SavedBase(k) <= SavedTop(k - 1) + 1
    BY <2>0 DEF FrameDiscipline
  <2>6. QED
    BY <2>0, <2>1, <2>3, <2>5, SavedTyped
<1>3. ReturnsAfterCalls'
  BY DEF LocalStep, ConventionInv, ReturnsAfterCalls, AfterCall
<1>4. ArgumentsInFrame'
  <2> SUFFICES ASSUME (m_rrd > 0)', HasInstruction', HasArguments(Instr)'
               PROVE  (m_rbp + Arg(2) <= m_rft + 1)'
    BY DEF ArgumentsInFrame
  <2>0. /\ Registers /\ Chunk' = Chunk /\ m_rbp' = m_rbp /\ m_rft' >= m_rft /\ m_rft' \in Int
        /\ m_rrd > 0
    BY DEF LocalStep, ConventionInv, Chunk
  <2>1. /\ WellFormedChunk(Chunk) /\ m_rip' + 1 \in DOMAIN Chunk
        /\ Instr' = Chunk[m_rip' + 1] /\ Arg(2)' \in Nat
    <3>1. /\ prgm' \in Programs /\ m_rfi' + 1 \in DOMAIN prgm'.chunks
          /\ m_rip' + 1 \in DOMAIN prgm'.chunks[m_rfi' + 1]
      BY <1>1 DEF Registers, HasInstruction
    <3>2. /\ WellFormedChunk(prgm'.chunks[m_rfi' + 1])
          /\ \A k \in 1 .. 3 : prgm'.chunks[m_rfi' + 1][m_rip' + 1].args[k] \in Nat
      BY <3>1, InstructionAt
    <3>3. QED
      BY <2>0, <3>1, <3>2 DEF Chunk, Instr, Arg
  <2>2. CASE m_rip' = m_rip
    BY <2>0, <2>1, <2>2 DEF ConventionInv, ArgumentsInFrame, HasInstruction, Instr, Arg,
                            HasArguments, LocalStep, Registers
  <2>3. CASE Follows
    <3>1. /\ m_rip + 1 \in DOMAIN Chunk /\ Instr = Chunk[m_rip + 1] /\ Arg(1) \in Nat
      BY <2>0, <2>3, InstructionTyped DEF Follows
    <3>0. HasArguments(Chunk[m_rip' + 1])
      BY <2>1 DEF HasArguments
    <3>2. /\ m_rip' = m_rip + 1 /\ Chunk[m_rip' + 1 - 1].op = "mov"
          /\ Chunk[m_rip' + 1 - 1].args[1] >= Chunk[m_rip' + 1].args[2] - 1
      BY <2>1, <2>3, <3>0 DEF WellFormedChunk, WellFormedInstruction, Follows
    <3>3. m_rip' + 1 - 1 = m_rip + 1
      BY <2>0, <3>2 DEF Registers
    <3>4. Instr.op = "mov" /\ Arg(1) >= Arg(2)'- 1
      BY <2>1, <3>1, <3>2, <3>3 DEF Arg
    <3>5. m_rft' >= m_rbp + Arg(1)
      BY <2>3, <3>4 DEF Follows, Reg
    <3>6. QED
      BY <2>0, <2>1, <3>1, <3>4, <3>5 DEF Registers
  <2>4. CASE Lands
    BY <2>1, <2>4 DEF Lands, Landing
  <2>5. QED
    BY <2>2, <2>3, <2>4 DEF LocalStep
<1>5. QED
  BY <1>1, <1>2, <1>3, <1>4 DEF ConventionInv

(***************************************************************************)
(* A call that is made has a frame to use, and the callee's base is inside *)
(* the caller's frame or right above it, since that is where the arguments *)
(* are (handle_call).                                                      *)
(***************************************************************************)
LEMMA CallFits ==
  ASSUME AllWellFormed, ConventionInv, Call
  PROVE  /\ m_call_frame_ptr + 1 = m_rrd /\ m_rrd \in 1 .. FrameMax - 1 /\ m_rrd \in FrameIndex
         /\ Arg(1) \in Nat /\ m_rip + 1 \in DOMAIN Chunk /\ Instr = Chunk[m_rip + 1]
         /\ m_rbp' \in Int /\ m_rbp <= m_rbp' /\ m_rbp' <= m_rft + 1 /\ 0 <= m_rbp'
<1>1. /\ Registers /\ FrameDiscipline /\ ArgumentsInFrame
      /\ InLoop /\ HasInstruction /\ Instr.op = "call"
      /\ m_rbp' = m_rft - Arg(2) + 1
  BY DEF ConventionInv, Call, CallWith, Executing
<1>2. m_call_frame_ptr + 1 = m_rrd /\ m_rrd \in 1 .. FrameMax - 1 /\ m_rrd \in FrameIndex
  <2>1. m_call_frame_ptr + 1 \in FrameIndex
    <3>1. UndefinedHere = {} /\ Instr.op = "call" /\ "oob_frames" \in Faults
      BY DEF Call, CallWith, Executing, Faults
    <3>2. ~(\E o \in Operands : ~Fetchable(o))
      BY <3>1 DEF Operands, ArithOps, CompareOps
    <3>3. QED
      BY <3>1, <3>2 DEF UndefinedHere
  <2>2. QED
    BY <1>1, <2>1, EngineAssumption DEF InLoop, FrameDiscipline, FrameIndex, Registers
<1>3. Arg(1) \in Nat /\ Arg(2) \in Nat /\ m_rip + 1 \in DOMAIN Chunk /\ Instr = Chunk[m_rip + 1]
  BY <1>1, InstructionTyped
<1>4. m_rbp' \in Int /\ m_rbp <= m_rbp' /\ m_rbp' <= m_rft + 1 /\ 0 <= m_rbp'
  <2>1. 0 <= m_rbp /\ m_rbp <= m_rft + 1
    BY <1>1, <1>2 DEF FrameDiscipline, SavedBase, SavedTop
  <2>2. Arg(2) > 0 => m_rbp + Arg(2) <= m_rft + 1
    BY <1>1, <1>2 DEF ArgumentsInFrame, HasArguments, Arg
  <2>3. QED
    BY <1>1, <1>3, <2>1, <2>2 DEF Registers
<1>5. QED
  BY <1>2, <1>3, <1>4

(***************************************************************************)
(* A call keeps the invariant: the new frame is the caller's registers, and*)
(* the callee starts at its first instruction.                             *)
(***************************************************************************)
LEMMA CallKeepsConvention ==
  ASSUME AllWellFormed, ConventionInv, Call
  PROVE  ConventionInv'
<1> DEFINE frame == [old_func_idx |-> m_rfi, old_func_ip |-> m_rip + 1,
                     old_base_ptr |-> m_rbp, old_mem_top |-> m_rft,
                     old_exec_status |-> m_res]
<1>1. /\ Registers /\ FrameDiscipline /\ ReturnsAfterCalls
      /\ HasInstruction /\ Instr.op = "call"
      /\ m_call_frames' = [m_call_frames EXCEPT ![m_call_frame_ptr + 1] = frame]
      /\ m_call_frame_ptr' = m_call_frame_ptr + 1
      /\ m_rrd' = m_rrd + 1 /\ m_rfi' = Arg(1) /\ m_rip' = 0
      /\ UNCHANGED <<prgm, m_memory, m_rft, m_res>>
      /\ NextIp = m_rip + 1 /\ NextIp \in Int16
  BY NextIpFollows DEF ConventionInv, Call, CallWith, Executing
<1>2. m_call_frame_ptr + 1 = m_rrd /\ m_rrd \in 1 .. FrameMax - 1 /\ m_rrd \in FrameIndex
  BY CallFits
<1>3. /\ Arg(1) \in Nat /\ Arg(1) \in Int16
      /\ m_rip + 1 \in DOMAIN Chunk /\ Instr = Chunk[m_rip + 1]
  BY <1>1, CallFits, InstructionTyped
<1>4. m_rbp' \in Int /\ m_rbp <= m_rbp' /\ m_rbp' <= m_rft + 1 /\ 0 <= m_rbp'
  BY CallFits
<1>5. m_call_frames'[m_rrd] = frame /\ \A k \in 1 .. m_rrd - 1 : m_call_frames'[k] = m_call_frames[k]
  BY <1>1, <1>2, EngineAssumption DEF Registers, FrameIndex
<1>6. Registers'
  <2>1. frame \in CallFrame
    BY <1>1 DEF CallFrame, Registers
  <2>2. m_call_frames' \in [FrameIndex -> CallFrame]
    BY <1>1, <2>1 DEF Registers
  <2>3. m_rfi' \in Int16 /\ m_rip' \in Int16 /\ m_rfi' \in Int /\ m_rip' \in Int
    BY <1>1, <1>3, Int16Stays
  <2>4. QED
    BY <1>1, <1>2, <1>4, <2>2, <2>3, EngineAssumption DEF Registers
<1>7. FrameDiscipline'
  <2>1. \A k \in 1 .. m_rrd : SavedBase(k)' = SavedBase(k) /\ SavedTop(k)' = SavedTop(k)
    BY <1>1, <1>2, <1>5 DEF SavedBase, SavedTop
  <2>2. \A k \in {m_rrd + 1} : SavedBase(k)' = m_rbp' /\ SavedTop(k)' = m_rft
    BY <1>1 DEF SavedBase, SavedTop
  <2>3. SavedBase(m_rrd) = m_rbp /\ SavedTop(m_rrd) = m_rft
    BY DEF SavedBase, SavedTop
  <2>4. SUFFICES ASSUME NEW k \in 1 .. m_rrd + 1
                 PROVE  /\ 0 <= SavedBase(k)' /\ SavedBase(k)' <= SavedTop(k)' + 1
                        /\ k > 1 => /\ SavedBase(k - 1)' <= SavedBase(k)'
                                    /\ SavedBase(k)' <= SavedTop(k - 1)' + 1
    BY <1>1, <1>2 DEF FrameDiscipline
  <2>5. CASE k = m_rrd + 1
    <3>1. k > 1 /\ k - 1 = m_rrd /\ k - 1 \in 1 .. m_rrd
      BY <1>2, <2>5
    <3>2. SavedBase(k - 1)' = m_rbp /\ SavedTop(k - 1)' = m_rft
      BY <2>1, <2>3, <3>1
    <3>3. SavedBase(k)' = m_rbp' /\ SavedTop(k)' = m_rft
      BY <2>2, <2>5
    <3>4. QED
      BY <1>1, <1>4, <3>1, <3>2, <3>3 DEF Registers
  <2>6. CASE k \in 1 .. m_rrd
    <3>1. k > 1 => k - 1 \in 1 .. m_rrd
      BY <1>2, <2>6
    <3>2. QED
      BY <1>1, <2>1, <2>6, <3>1 DEF FrameDiscipline
  <2>7. QED
    BY <1>2, <2>5, <2>6
<1>8. ReturnsAfterCalls'
  <2>1. AfterCall(m_rfi, m_rip + 1)
    BY <1>1, <1>3 DEF AfterCall, HasInstruction, Chunk
  <2>2. SUFFICES ASSUME NEW k \in 1 .. m_rrd
                 PROVE  AfterCall(m_call_frames'[k].old_func_idx, m_call_frames'[k].old_func_ip)
    BY <1>1, <1>2 DEF ReturnsAfterCalls, AfterCall
  <2>3. QED
    BY <1>1, <1>2, <1>5, <2>1 DEF ReturnsAfterCalls
<1>9. ArgumentsInFrame'
  <2> SUFFICES ASSUME HasInstruction', HasArguments(Instr)' PROVE FALSE
    BY DEF ArgumentsInFrame
  <2>1. /\ prgm' \in Programs /\ m_rfi' + 1 \in DOMAIN prgm'.chunks
        /\ m_rip' + 1 \in DOMAIN prgm'.chunks[m_rfi' + 1]
    BY <1>6 DEF Registers, HasInstruction
  <2>2. WellFormedChunk(prgm'.chunks[m_rfi' + 1])
    BY <2>1, InstructionAt
  <2>3. m_rip' + 1 = 1
    BY <1>1
  <2>4. QED
    BY <2>1, <2>2, <2>3 DEF WellFormedChunk, WellFormedInstruction, Instr
<1>10. QED
  BY <1>6, <1>7, <1>8, <1>9 DEF ConventionInv

(***************************************************************************)
(* A return keeps the invariant: the caller's frame is as it was, and after*)
(* a call there is no second call with arguments (handle_ret).             *)
(***************************************************************************)
LEMMA RetKeepsConvention ==
  ASSUME AllWellFormed, ConventionInv, Ret
  PROVE  ConventionInv'
<1> DEFINE caller == m_call_frames[m_rrd - 1]
<1>1. /\ Registers /\ FrameDiscipline /\ ReturnsAfterCalls
      /\ m_rrd \in 1 .. FrameMax /\ m_rrd - 1 \in FrameIndex /\ m_call_frame_ptr = m_rrd - 1
  BY EngineAssumption DEF ConventionInv, FrameDiscipline, Registers, FrameIndex, Ret, RetWith,
                          Executing, InLoop
<1>2. /\ DOMAIN m_memory' = Register
      /\ m_rfi' = caller.old_func_idx /\ m_rip' = caller.old_func_ip
      /\ m_rbp' = caller.old_base_ptr /\ m_rft' = caller.old_mem_top
      /\ m_res' = caller.old_exec_status
      /\ m_call_frame_ptr' = m_call_frame_ptr - 1 /\ m_rrd' = m_rrd - 1
      /\ UNCHANGED <<prgm, m_call_frames>>
  BY <1>1 DEF Ret, RetWith, SavedTopOfCaller, Registers
<1>3. Registers'
  <2>1. caller \in CallFrame
    BY <1>1 DEF Registers
  <2>2. /\ caller.old_func_idx \in Int16 /\ caller.old_func_ip \in Int16
        /\ caller.old_base_ptr \in Int /\ caller.old_mem_top \in Int
        /\ caller.old_exec_status \in Statuses
    BY <2>1 DEF CallFrame
  <2>3. m_rrd - 1 \in 0 .. FrameMax
    BY <1>1, EngineAssumption
  <2>4. caller.old_func_idx \in Int /\ caller.old_func_ip \in Int
    BY <2>2, Int16Stays
  <2>5. QED
    BY <1>1, <1>2, <2>2, <2>3, <2>4 DEF Registers
<1>4. FrameDiscipline'
  <2>1. \A k \in 1 .. m_rrd - 1 : SavedBase(k)' = SavedBase(k) /\ SavedTop(k)' = SavedTop(k)
    BY <1>1, <1>2 DEF SavedBase, SavedTop
  <2>2. SUFFICES ASSUME NEW k \in 1 .. m_rrd - 1
                 PROVE  /\ 0 <= SavedBase(k)' /\ SavedBase(k)' <= SavedTop(k)' + 1
                        /\ k > 1 => /\ SavedBase(k - 1)' <= SavedBase(k)'
                                    /\ SavedBase(k)' <= SavedTop(k - 1)' + 1
    BY <1>1, <1>2 DEF FrameDiscipline
  <2>3. k \in 1 .. m_rrd /\ (k > 1 => k - 1 \in 1 .. m_rrd - 1)
    BY <1>1
  <2>4. QED
    BY <1>1, <2>1, <2>3 DEF FrameDiscipline
<1>5. ReturnsAfterCalls'
  BY <1>1, <1>2 DEF ReturnsAfterCalls, AfterCall
<1>6. ArgumentsInFrame'
  <2> SUFFICES ASSUME (m_rrd > 0)', HasInstruction', HasArguments(Instr)' PROVE FALSE
    BY DEF ArgumentsInFrame
  <2>1. AfterCall(m_rfi', m_rip')
    BY <1>1, <1>2 DEF ReturnsAfterCalls
  <2>2. /\ prgm' = prgm /\ prgm' \in Programs /\ m_rfi' + 1 \in DOMAIN prgm'.chunks
        /\ m_rip' + 1 \in DOMAIN prgm'.chunks[m_rfi' + 1] /\ m_rip' \in Int
    BY <1>2, <1>3 DEF Registers, HasInstruction
  <2>3. WellFormedChunk(prgm'.chunks[m_rfi' + 1])
    BY <2>2, InstructionAt
  <2>4. prgm'.chunks[m_rfi' + 1][m_rip' + 1 - 1].op = "mov"
    BY <2>2, <2>3 DEF WellFormedChunk, WellFormedInstruction, Instr
  <2>5. m_rip' + 1 - 1 = m_rip'
    <3>1. m_rip' \in Int
      BY <1>3 DEF Registers
    <3>2. \A n \in Int : n + 1 - 1 = n
      OBVIOUS
    <3>3. QED
      BY <3>1, <3>2
  <2>6. QED
    BY <2>1, <2>2, <2>4, <2>5 DEF AfterCall
<1>7. QED
  BY <1>3, <1>4, <1>5, <1>6 DEF ConventionInv

(***************************************************************************)
(* Every step is a local step, a call or a return.                         *)
(***************************************************************************)
LEMMA StepIsLocalCallOrRet ==
  ASSUME AllWellFormed, ConventionInv, [Next]_vars
  PROVE  LocalStep \/ Call \/ Ret
<1>1. Registers
  BY DEF ConventionInv
<1>2. QED
  BY <1>1, HandlersAreLocal, JumpsAreLocal, NativesAreLocal, StopsAreLocal DEF Next

--------------------------------------------------------------------------------
\* What holds of every run

(***************************************************************************)
(* ConventionInv holds at every moment of every run.                       *)
(***************************************************************************)
THEOREM ConventionHolds ==
  ASSUME AllWellFormed
  PROVE  Spec => []ConventionInv
<1>1. Init => ConventionInv
  BY InitConvention
<1>2. ConventionInv /\ [Next]_vars => ConventionInv'
  BY StepIsLocalCallOrRet, LocalStepKeepsConvention, CallKeepsConvention, RetKeepsConvention
<1>3. QED
  BY <1>1, <1>2, PTL DEF Spec

(***************************************************************************)
(* The frames of the active calls are in order at every moment of every    *)
(* run of every well-formed program (handle_call, handle_ret).             *)
(***************************************************************************)
THEOREM FramesInOrder ==
  ASSUME AllWellFormed
  PROVE  Spec => []FrameDiscipline
<1>1. ConventionInv => FrameDiscipline
  BY DEF ConventionInv
<1>2. QED
  BY <1>1, ConventionHolds, PTL

(***************************************************************************)
(* No step of a well-formed program changes a register below the base of   *)
(* the function that makes it (every m_rbp + n, handle_native_fn_return,   *)
(* handle_ret).                                                            *)
(***************************************************************************)
THEOREM CallersProtected ==
  ASSUME AllWellFormed
  PROVE  Spec => CallerRegistersIntact
<1>1. ConventionInv /\ [Next]_vars => [CallersKept]_vars
  <2> SUFFICES ASSUME ConventionInv, [Next]_vars PROVE CallersKept
    OBVIOUS
  <2>1. CASE LocalStep
    BY <2>1 DEF LocalStep, KeepsBelow, CallersKept
  <2>2. CASE Call
    BY <2>2 DEF Call, CallWith, CallersKept
  <2>3. CASE Ret
    BY <2>3 DEF Ret, RetWith, CallersKept, ConventionInv, Registers, Register
  <2>4. QED
    BY <2>1, <2>2, <2>3, StepIsLocalCallOrRet
<1>2. QED
  BY <1>1, ConventionHolds, PTL DEF Spec, CallerRegistersIntact


--------------------------------------------------------------------------------
\* Where a step leads, and what it does to the top

Advances == HasInstruction /\ GoesOn(Instr.op) /\ m_rip' = m_rip + 1
Jumps ==
  /\ HasInstruction
  /\ \/ Instr.op = "jump" /\ m_rip' = Arg(1)
     \/ Instr.op \in {"jump_if", "jump_else"} /\ m_rip' \in {Arg(2), m_rip + 1}
Stays == m_rip' = m_rip /\ (InLoop' => InLoop)

RaisesTop == HasInstruction /\ NamesRegister(Instr, 1) /\ m_rft' = Raised(Arg(1))

CodeStep ==
  /\ UNCHANGED <<prgm, m_call_frames, m_call_frame_ptr, m_rfi, m_rbp, m_rrd>>
  /\ fault' \in {fault, "dangling", "endless"} \/ (InLoop /\ fault' \in UndefinedHere)
  /\ Advances \/ Jumps \/ Stays
  /\ m_rft' = m_rft \/ RaisesTop

\* A handler that finishes its work goes on with the next instruction.
LEMMA ContinueIsCode ==
  ASSUME AllWellFormed, Registers, HasInstruction, NEW mem, NEW heap, NEW top, GoesOn(Instr.op),
         top = m_rft \/ (top = Raised(Arg(1)) /\ NamesRegister(Instr, 1)),
         Continue(mem, heap, top)
  PROVE  CodeStep
BY NextIpFollows DEF Continue, SameActivation, CodeStep, Advances, RaisesTop

\* A handler that gives up stays where it is.
LEMMA FailIsCode ==
  ASSUME InLoop, NEW status, Fail(status)
  PROVE  CodeStep
BY DEF Fail, SameActivation, CodeStep, Stays

\* A native function is one instruction.
LEMMA NativeIsCode ==
  ASSUME AllWellFormed, Registers, HasInstruction, Instr.op = "native_call", NEW mem, NEW heap, NEW success,
         NativeDone(mem, heap, success)
  PROVE  CodeStep
BY NextIpFollows DEF NativeDone, SameActivation, CodeStep, Advances, GoesOn

(***************************************************************************)
(* Every step but a call and a return goes to the next instruction, to the *)
(* target of a jump, or nowhere, and raises the top to a register that the *)
(* instruction names, or not at all.                                       *)
(***************************************************************************)
LEMMA StepIsCodeCallOrRet ==
  ASSUME AllWellFormed, Registers, [Next]_vars
  PROVE  CodeStep \/ Call \/ Ret
<1> USE DEF Executing, NativeCalled, NativeFailed
<1>0. ASSUME NEW op, Executing(op),
             op \in {"nop", "make_seq", "seq_obj_push", "seq_obj_pop", "seq_obj_get", "frz_seq_obj",
                    "load_const", "mov", "neg"} \cup ArithOps \cup CompareOps
      PROVE  /\ InLoop /\ HasInstruction /\ GoesOn(Instr.op)
             /\ op # "nop" => NamesRegister(Instr, 1)
  BY <1>0 DEF GoesOn, NamesRegister, ArithOps, CompareOps
<1>1. Nop => CodeStep
  BY <1>0, ContinueIsCode DEF Nop
<1>2. MakeSeq => CodeStep
  BY <1>0, ContinueIsCode DEF MakeSeq
<1>3. SeqObjPush => CodeStep
  BY <1>0, ContinueIsCode, FailIsCode DEF SeqObjPush
<1>4. SeqObjPop => CodeStep
  BY <1>0, ContinueIsCode, FailIsCode DEF SeqObjPop
<1>5. SeqObjGet => CodeStep
  BY <1>0, ContinueIsCode, FailIsCode DEF SeqObjGet
<1>6. FrzSeqObj => CodeStep
  BY <1>0, ContinueIsCode, FailIsCode DEF FrzSeqObj
<1>7. LoadConst => CodeStep
  BY <1>0, ContinueIsCode DEF LoadConst
<1>8. Mov => CodeStep
  BY <1>0, ContinueIsCode, FailIsCode DEF Mov
<1>9. Neg => CodeStep
  <2> SUFFICES ASSUME Neg PROVE CodeStep
    OBVIOUS
  <2>0. InLoop /\ HasInstruction /\ GoesOn(Instr.op) /\ NamesRegister(Instr, 1)
    BY <1>0 DEF Neg
  <2>1. CASE Resolved(Held(Arg(1))).tag # "boolean"
    BY <2>0, <2>1, ContinueIsCode DEF Neg
  <2>2. CASE Resolved(Held(Arg(1))).tag = "boolean"
    <3>1. SameActivation /\ m_rft' = Raised(Arg(1)) /\ m_rip' = m_rip
      BY <2>2 DEF Neg
    <3>2. QED
      BY <2>0, <3>1 DEF SameActivation, CodeStep, Stays, RaisesTop
  <2>3. QED
    BY <2>1, <2>2
<1>10. Inc \/ Dec \/ Halt => CodeStep
  BY FailIsCode DEF Inc, Dec, Halt
<1>11. ASSUME NEW op \in {"mul", "add", "sub"}, InPlaceArith(op)
       PROVE  CodeStep
  <2>1. op \in ArithOps /\ Executing(op)
    BY <1>11 DEF InPlaceArith, ArithOps
  <2>2. QED
    BY <1>11, <2>1, <1>0, ContinueIsCode DEF InPlaceArith, ArithOps
<1>12. ASSUME NEW op \in {"div", "mod"}, Quotient(op)
       PROVE  CodeStep
  BY <1>12, <1>0, ContinueIsCode, FailIsCode DEF Quotient, ArithOps
<1>13. ASSUME NEW op \in CompareOps, Comparison(op)
       PROVE  CodeStep
  BY <1>13, <1>0, ContinueIsCode DEF Comparison, CompareOps
<1>14. Jump \/ JumpIf \/ JumpElse => CodeStep
  BY NextIpFollows DEF Jump, JumpIf, JumpElse, JumpTo, SameActivation, CodeStep, Jumps
<1>15. PrintValue \/ PromptInt \/ PromptFloat \/ LenOf => CodeStep
  BY NativeIsCode DEF PrintValue, PromptInt, PromptFloat, LenOf
<1>16. ListPushBack \/ ListPopBack \/ ListPopFront \/ ListConcat => CodeStep
  BY NativeIsCode DEF ListPushBack, ListPopBack, ListPopFront, PopList, ListConcat
<1>17. Crash => CodeStep
  BY DEF Crash, CodeStep, Stays
<1>18. Finish => CodeStep
  BY DEF Finish, CodeStep, Stays, InLoop
<1>19. UNCHANGED vars => CodeStep
  BY DEF vars, CodeStep, Stays, InLoop
<1>20. QED
  BY <1>1, <1>2, <1>3, <1>4, <1>5, <1>6, <1>7, <1>8, <1>9, <1>10, <1>11, <1>12, <1>13, <1>14,
     <1>15, <1>16, <1>17, <1>18, <1>19 DEF Next

--------------------------------------------------------------------------------
\* Closed programs stay in their code

Position(func, ip) == func + 1 \in DOMAIN prgm.chunks /\ ip + 1 \in DOMAIN prgm.chunks[func + 1]

(***************************************************************************)
(* StaysInCode is not inductive by itself: a return goes on after a call   *)
(* that was made long before, so every saved position has to have an       *)
(* instruction too.                                                        *)
(***************************************************************************)
CodeInv ==
  /\ InLoop => Position(m_rfi, m_rip)
  /\ \A k \in 1 .. m_rrd - 1 :
       Position(m_call_frames[k].old_func_idx, m_call_frames[k].old_func_ip)
  /\ fault \notin {"oob_code", "oob_natives", "terminate"}

(***************************************************************************)
(* An instruction of a closed program is a closed one.                     *)
(***************************************************************************)
LEMMA ClosedHere ==
  ASSUME AllWellFormed, Registers, Closed(prgm), HasInstruction
  PROVE  /\ m_rip + 1 \in DOMAIN Chunk /\ Instr = Chunk[m_rip + 1] /\ m_rip \in Int
         /\ ClosedInstruction(prgm, Len(NativeTable), Chunk, m_rip + 1)
         /\ \A k \in 1 .. 3 : Arg(k) = Instr.args[k]
BY InstructionTyped DEF Closed, ClosedFrom, HasInstruction, Chunk, Registers, Arg

(***************************************************************************)
(* The operands of an instruction are arguments of it in their modes; a    *)
(* constant that is loaded needs none.                                     *)
(***************************************************************************)
LEMMA OperandsAreArguments ==
  ASSUME NEW o \in Operands
  PROVE  \E k \in OperandArgs(Instr.op) :
           /\ k \in 1 .. 3 /\ o.id = Arg(k)
           /\ \/ o.mode = Field(Instr.metadata, k)
              \/ Instr.op = "load_const" /\ IsConstant(o) /\ ~IsRegister(o)
<1>1. Field(Instr.metadata, 1) = FirstField(Instr.metadata)
      /\ Field(Instr.metadata, 2) = SecondField(Instr.metadata)
      /\ Field(Instr.metadata, 3) = ThirdField(Instr.metadata)
  BY DEF Field
<1>2. CASE Instr.op \in ArithOps \cup CompareOps
  <2>1. o \in {Lhs, Rhs} /\ OperandArgs(Instr.op) = {2, 3}
    BY <1>2 DEF Operands, OperandArgs, ArithOps, CompareOps
  <2>2. QED
    BY <1>1, <2>1 DEF Lhs, Rhs
<1>3. CASE Instr.op \in {"mov", "seq_obj_push"}
  BY <1>1, <1>3 DEF Operands, OperandArgs, Lhs, ArithOps, CompareOps
<1>4. CASE Instr.op = "seq_obj_get"
  BY <1>1, <1>4 DEF Operands, OperandArgs, Rhs, ArithOps, CompareOps
<1>5. CASE Instr.op = "load_const"
  BY <1>5 DEF Operands, OperandArgs, ConstantArg, ArithOps, CompareOps, IsConstant, IsRegister,
              SameMode, ModeNumber
<1>6. CASE Instr.op = "ret"
  BY <1>1, <1>6 DEF Operands, OperandArgs, Only, ArithOps, CompareOps
<1>7. QED
  BY <1>2, <1>3, <1>4, <1>5, <1>6 DEF Operands

\* In a closed program what an instruction runs into is none of three things.
LEMMA ClosedFaults ==
  ASSUME AllWellFormed, Registers, Closed(prgm), HasInstruction
  PROVE  UndefinedHere \cap {"oob_code", "oob_natives", "terminate"} = {}
<1>1. ClosedInstruction(prgm, Len(NativeTable), Chunk, m_rip + 1) /\ Instr = Chunk[m_rip + 1]
      /\ Arg(1) = Instr.args[1] /\ Arg(2) = Instr.args[2] /\ Arg(3) = Instr.args[3]
  BY ClosedHere
<1>2. Instr.op = "native_call" => HasNative
  BY <1>1 DEF ClosedInstruction, HasNative, NativeTable
<1>3. Instr.op \in ArithOps \cup CompareOps \cup {"ret"} => \A o \in Operands : Fetchable(o)
  BY <1>1, OperandsAreArguments DEF ClosedInstruction, InMode, Fetchable, IsConstant, IsRegister
<1>4. QED
  BY <1>2, <1>3 DEF UndefinedHere

\* Every position that a step within a function goes to has an instruction.
LEMMA CodeStepStays ==
  ASSUME AllWellFormed, ConventionInv, Closed(prgm), CodeInv, CodeStep
  PROVE  CodeInv'
<1>1. /\ Registers /\ UNCHANGED <<prgm, m_call_frames, m_rfi, m_rrd>>
      /\ \A func, ip : Position(func, ip)' <=> Position(func', ip')
  BY DEF ConventionInv, CodeStep, Position
<1>2. InLoop' => Position(m_rfi, m_rip')
  <2>1. CASE Advances
    BY <1>1, <2>1, ClosedHere DEF Advances, ClosedInstruction, Position, HasInstruction, Chunk
  <2>2. CASE Jumps
    BY <1>1, <2>2, ClosedHere DEF Jumps, ClosedInstruction, Position, HasInstruction, Chunk, GoesOn
  <2>3. CASE Stays
    BY <2>3 DEF Stays, CodeInv
  <2>4. QED
    BY <2>1, <2>2, <2>3 DEF CodeStep
<1>3. fault' \notin {"oob_code", "oob_natives", "terminate"}
  <2>1. InLoop => HasInstruction
    BY DEF CodeInv, Position, HasInstruction
  <2>2. QED
    BY <1>1, <2>1, ClosedFaults DEF CodeStep, CodeInv
<1>4. QED
  BY <1>1, <1>2, <1>3 DEF CodeInv, Position

\* A call leads to a chunk with an instruction, and will come back to one.
LEMMA CallStays ==
  ASSUME AllWellFormed, ConventionInv, Closed(prgm), CodeInv, Call
  PROVE  CodeInv'
<1>1. /\ Registers /\ HasInstruction /\ Instr.op = "call"
      /\ m_call_frame_ptr + 1 = m_rrd /\ m_rrd \in FrameIndex /\ m_rrd \in Int
      /\ m_call_frames \in [FrameIndex -> CallFrame] /\ m_rip \in Int
      /\ NextIp = m_rip + 1
  BY CallFits, NextIpFollows DEF ConventionInv, Call, CallWith, Executing, Registers
<1>2. /\ m_rrd' = m_rrd + 1 /\ m_rfi' = Arg(1) /\ m_rip' = 0 /\ UNCHANGED <<prgm, fault>>
      /\ m_call_frames'[m_rrd].old_func_idx = m_rfi
      /\ m_call_frames'[m_rrd].old_func_ip = m_rip + 1
      /\ \A k \in FrameIndex \ {m_rrd} : m_call_frames'[k] = m_call_frames[k]
  BY <1>1 DEF Call, CallWith
<1>3. ClosedInstruction(prgm, Len(NativeTable), Chunk, m_rip + 1) /\ Instr = Chunk[m_rip + 1]
      /\ Arg(1) = Instr.args[1]
  BY <1>1, ClosedHere
<1>4. Position(m_rfi, m_rip + 1)
  BY <1>1, <1>3 DEF ClosedInstruction, GoesOn, Position, Chunk, HasInstruction
<1>5. Position(Arg(1), 0)
  BY <1>1, <1>3 DEF ClosedInstruction, Position
<1>6. \A k \in 1 .. m_rrd :
        Position(m_call_frames'[k].old_func_idx, m_call_frames'[k].old_func_ip)
  <2> SUFFICES ASSUME NEW k \in 1 .. m_rrd
               PROVE  Position(m_call_frames'[k].old_func_idx, m_call_frames'[k].old_func_ip)
    OBVIOUS
  <2>1. CASE k = m_rrd
    BY <1>2, <1>4, <2>1
  <2>2. CASE k # m_rrd
    <3>1. k \in FrameIndex \ {m_rrd} /\ k \in 1 .. m_rrd - 1
      BY <1>1, <2>2, EngineAssumption DEF FrameIndex
    <3>2. QED
      BY <1>2, <3>1 DEF CodeInv
  <2>3. QED
    BY <2>1, <2>2
<1>7. QED
  BY <1>1, <1>2, <1>5, <1>6 DEF CodeInv, Position

\* A return leads to where its call was left.
LEMMA RetStays ==
  ASSUME AllWellFormed, ConventionInv, Closed(prgm), CodeInv, Ret
  PROVE  CodeInv'
<1>1. /\ m_call_frame_ptr = m_rrd - 1 /\ m_rrd \in Int
      /\ m_rfi' = m_call_frames[m_rrd - 1].old_func_idx
      /\ m_rip' = m_call_frames[m_rrd - 1].old_func_ip
      /\ m_rrd' = m_rrd - 1 /\ UNCHANGED <<prgm, m_call_frames>>
  BY DEF ConventionInv, Registers, FrameDiscipline, Ret, RetWith
<1>2. InLoop' => Position(m_rfi', m_rip')
  BY <1>1 DEF InLoop, CodeInv
<1>3. fault' \in {fault, NoFault, "dangling", "null_cell"}
  BY DEF Ret, RetWith, TryMarkAndSweep
<1>4. QED
  BY <1>1, <1>2, <1>3 DEF CodeInv, Position, NoFault

(***************************************************************************)
(* CodeInv holds at every moment of every run of a closed program.         *)
(***************************************************************************)
THEOREM CodeInvHolds ==
  ASSUME AllWellFormed
  PROVE  Spec => [](Closed(prgm) => CodeInv)
<1> DEFINE Inv == Closed(prgm) => CodeInv
<1>1. Init => Inv
  BY DEF Init, Boot, Closed, ClosedFrom, CodeInv, Position, InLoop, NoFault
<1>2. ConventionInv /\ Inv /\ [Next]_vars => Inv'
  <2> SUFFICES ASSUME ConventionInv, Inv, [Next]_vars, Closed(prgm)' PROVE CodeInv'
    OBVIOUS
  <2>1. CodeStep \/ Call \/ Ret
    BY StepIsCodeCallOrRet DEF ConventionInv
  <2>2. prgm' = prgm
    BY <2>1 DEF CodeStep, Call, CallWith, Ret, RetWith
  <2>3. Closed(prgm) /\ CodeInv
    BY <2>2 DEF Closed
  <2>4. QED
    BY <2>1, <2>3, CodeStepStays, CallStays, RetStays
<1>3. QED
  BY <1>1, <1>2, ConventionHolds, PTL DEF Spec

(***************************************************************************)
(* A closed program whose functions 16 bits can count never leaves its     *)
(* code, calls a native function that is not there or has an operand that  *)
(* cannot be fetched, in any run (operator(), handle_call, handle_ret,     *)
(* handle_native_call).                                                    *)
(***************************************************************************)
THEOREM ClosedStaysInCode ==
  ASSUME AllWellFormed
  PROVE  Spec => []StaysInCode
<1>1. (Closed(prgm) => CodeInv) => StaysInCode
  BY DEF CodeInv, StaysInCode
<1>2. QED
  BY <1>1, CodeInvHolds, PTL

--------------------------------------------------------------------------------
\* Programs of a width stay in the memory

Span(k, width) == k * width

\* Spans add up.
LEMMA Spans ==
  ASSUME NEW width \in Nat, NEW k \in Nat
  PROVE  /\ Span(k, width) \in Nat /\ Span(0, width) = 0
         /\ Span(k + 1, width) = Span(k, width) + width
BY DEF Span

\* More frames span more registers.
LEMMA SpansGrow ==
  ASSUME NEW width \in Nat, NEW k \in Nat, NEW n \in Nat, k <= n
  PROVE  Span(k, width) <= Span(n, width)
<1>1. n - k \in Nat /\ (n - k) * width >= 0
  OBVIOUS
<1>2. n * width = k * width + (n - k) * width
  OBVIOUS
<1>3. QED
  BY <1>1, <1>2 DEF Span

(***************************************************************************)
(* StaysInMemory needs a bound for each frame: a base is at most a width   *)
(* above the one below it, because the top, from which it is counted, is   *)
(* less than a width above the base of its own frame.                      *)
(***************************************************************************)
RoomInv(width) ==
  /\ \A k \in 1 .. m_rrd :
       SavedBase(k) <= Span(k - 1, width) /\ SavedTop(k) < SavedBase(k) + width
  /\ fault # "oob_memory"

\* The frame that runs has its width of registers and one more.
LEMMA FrameHasRoom ==
  ASSUME ConventionInv, NEW width \in 1 .. MemLimit, Roomy(prgm, width), RoomInv(width),
         m_rrd > 0
  PROVE  0 <= m_rbp /\ m_rft < m_rbp + width /\ m_rbp + width < MemLimit
<1>1. m_rrd \in 1 .. FrameMax /\ m_rbp \in Int /\ m_rft \in Int /\ width \in Nat
      /\ FrameMax \in Nat /\ MemLimit \in Nat
  BY EngineAssumption DEF ConventionInv, Registers
<1>2. 0 <= m_rbp /\ m_rbp <= Span(m_rrd - 1, width) /\ m_rft < m_rbp + width
  BY <1>1 DEF RoomInv, SavedBase, SavedTop, ConventionInv, FrameDiscipline
<1>3. Span(m_rrd, width) = Span(m_rrd - 1, width) + width /\ Span(m_rrd - 1, width) \in Nat
  <2>1. m_rrd - 1 \in Nat /\ m_rrd - 1 + 1 = m_rrd
    BY <1>1
  <2>2. QED
    BY <1>1, <2>1, Spans
<1>4. Span(m_rrd, width) <= Span(FrameMax, width) /\ Span(FrameMax, width) < MemLimit
  BY <1>1, SpansGrow DEF Roomy, Span
<1>5. Span(m_rrd, width) \in Int /\ Span(FrameMax, width) \in Int
  BY <1>1 DEF Span
<1>6. QED
  BY <1>1, <1>2, <1>3, <1>4, <1>5

\* A register that the instruction names is below the width.
LEMMA NarrowHere ==
  ASSUME AllWellFormed, Registers, HasInstruction, NEW width, Narrow(prgm, width),
         NEW k \in 1 .. 3, NamesRegister(Instr, k)
  PROVE  Arg(k) \in Nat /\ Arg(k) < width
BY InstructionTyped DEF Narrow, HasInstruction, Instr, Arg

(***************************************************************************)
(* What an instruction indexes is in the memory, and its constants exist.  *)
(***************************************************************************)
LEMMA FitsInBounds ==
  ASSUME AllWellFormed, ConventionInv, Closed(prgm), InLoop, HasInstruction,
         NEW width \in 1 .. MemLimit, Roomy(prgm, width), RoomInv(width)
  PROVE  InBounds
<1>1. /\ Registers /\ m_rbp \in Int /\ m_rft \in Int /\ MemLimit \in Nat /\ width \in Nat
      /\ 0 <= m_rbp /\ m_rft < m_rbp + width /\ m_rbp + width < MemLimit
  BY FrameHasRoom, EngineAssumption DEF ConventionInv, Registers, InLoop
<1>2. ASSUME NEW k \in 1 .. 3, NamesRegister(Instr, k)
      PROVE  Reg(Arg(k)) \in Register
  <2>1. Arg(k) \in Nat /\ Arg(k) < width
    BY <1>1, <1>2, NarrowHere DEF Roomy
  <2>2. QED
    BY <1>1, <2>1 DEF Reg, Register
<1>3. ASSUME NEW o \in Operands, IsRegister(o)
      PROVE  Reg(o.id) \in Register
  <2>1. PICK k \in OperandArgs(Instr.op) :
          k \in 1 .. 3 /\ o.id = Arg(k) /\ o.mode = Field(Instr.metadata, k)
    BY <1>3, OperandsAreArguments
  <2>2. NamesRegister(Instr, k)
    BY <1>3, <2>1 DEF NamesRegister, InMode, IsRegister
  <2>3. QED
    BY <1>2, <2>1, <2>2
<1>4. ASSUME NEW o \in Operands, IsConstant(o)
      PROVE  o.id + 1 \in DOMAIN prgm.constants
  <2>1. PICK k \in OperandArgs(Instr.op) :
          /\ k \in 1 .. 3 /\ o.id = Arg(k)
          /\ o.mode = Field(Instr.metadata, k) \/ Instr.op = "load_const"
    BY OperandsAreArguments
  <2>2. /\ ClosedInstruction(prgm, Len(NativeTable), Chunk, m_rip + 1)
        /\ Instr = Chunk[m_rip + 1] /\ Arg(k) = Instr.args[k]
    BY <1>1, <2>1, ClosedHere
  <2>3. QED
    BY <1>4, <2>1, <2>2 DEF ClosedInstruction, InMode, IsConstant
<1>5. Instr.op = "native_call" => NativeCells \subseteq Register
  <2> SUFFICES ASSUME Instr.op = "native_call", HasNative PROVE NativeCells \subseteq Register
    BY DEF NativeCells
  <2>1. /\ NativeBase \in Int /\ m_rbp <= NativeBase /\ NativeBase <= m_rft + 1
        /\ Arg(2) > 0 => NativeBase <= m_rft
    BY NativeBaseInFrame
  <2>2. NativeBase \in Register /\ (Arg(2) > 0 => NativeBase + 1 \in Register)
    BY <1>1, <2>1 DEF Register
  <2>3. NativeName \in {"list_push_back", "list_concat"} => Arg(2) > 0
    BY <1>1, InstructionTyped DEF Roomy, PairsGiven, Pairs, HasInstruction, HasNative, NativeName, Arg, Chunk
  <2>4. QED
    BY <2>2, <2>3 DEF NativeCells
<1>6. Cells \subseteq Register
  <2>1. m_rbp \in Register
    BY <1>1 DEF Register
  <2>2. QED
    BY <1>2, <1>3, <1>5, <2>1 DEF Cells, NamesRegister
<1>7. QED
  BY <1>4, <1>6 DEF InBounds

\* A step within a function leaves the frames their room.
LEMMA CodeStepFits ==
  ASSUME AllWellFormed, ConventionInv, Closed(prgm), CodeInv, CodeStep,
         NEW width \in 1 .. MemLimit, Roomy(prgm, width), RoomInv(width)
  PROVE  RoomInv(width)'
<1>1. /\ Registers /\ m_rrd \in Nat /\ m_rft \in Int /\ m_rbp \in Int /\ width \in Nat
      /\ UNCHANGED <<m_call_frames, m_rbp, m_rrd>>
  BY EngineAssumption DEF ConventionInv, Registers, CodeStep
<1>2. m_rft' <= m_rft \/ m_rft' < m_rbp + width
  <2>1. CASE RaisesTop
    <3>1. Arg(1) \in Nat /\ Arg(1) < width
      BY <1>1, <2>1, NarrowHere DEF RaisesTop, Roomy
    <3>2. QED
      BY <1>1, <2>1, <3>1 DEF RaisesTop, Raised, Reg
  <2>2. QED
    BY <1>1, <2>1 DEF CodeStep
<1>3. m_rft' \in Int
  <2>1. RaisesTop => Arg(1) \in Nat
    BY <1>1, NarrowHere DEF RaisesTop, Roomy
  <2>2. QED
    BY <1>1, <2>1 DEF CodeStep, RaisesTop, Raised, Reg
<1>4. ASSUME NEW k \in 1 .. m_rrd
      PROVE  SavedBase(k)' <= Span(k - 1, width) /\ SavedTop(k)' < SavedBase(k)' + width
  <2>1. SavedBase(k)' = SavedBase(k) /\ SavedBase(k) <= Span(k - 1, width)
        /\ SavedTop(k) < SavedBase(k) + width
    BY <1>1 DEF SavedBase, RoomInv
  <2>2. CASE k = m_rrd
    <3>1. SavedBase(k) = m_rbp /\ SavedTop(k)' = m_rft' /\ SavedTop(k) = m_rft
      BY <1>1, <2>2 DEF SavedBase, SavedTop
    <3>2. QED
      BY <1>1, <1>2, <1>3, <2>1, <3>1
  <2>3. CASE k # m_rrd
    BY <1>1, <2>1, <2>3 DEF SavedTop
  <2>4. QED
    BY <2>2, <2>3
<1>5. fault' # "oob_memory"
  <2>1. InLoop => InBounds /\ HasInstruction
    BY FitsInBounds DEF CodeInv, Position, HasInstruction
  <2>2. InLoop => "oob_memory" \notin UndefinedHere
    BY <2>1 DEF UndefinedHere
  <2>3. QED
    BY <2>2 DEF CodeStep, RoomInv
<1>6. QED
  BY <1>1, <1>4, <1>5 DEF RoomInv

\* A callee's frame starts at most a width above its caller's.
LEMMA CallFitsIn ==
  ASSUME AllWellFormed, ConventionInv, Call,
         NEW width \in 1 .. MemLimit, Roomy(prgm, width), RoomInv(width)
  PROVE  RoomInv(width)'
<1>1. /\ Registers /\ HasInstruction /\ Instr.op = "call" /\ InLoop
      /\ m_call_frame_ptr + 1 = m_rrd /\ m_rrd \in FrameIndex /\ m_rrd \in Nat \ {0}
      /\ m_call_frames \in [FrameIndex -> CallFrame] /\ m_rft \in Int /\ m_rbp \in Int
      /\ Arg(2) \in Nat /\ width \in Nat /\ width > 0
  BY CallFits, InstructionTyped, EngineAssumption
     DEF ConventionInv, Call, CallWith, Executing, Registers, InLoop
<1>2. /\ m_rrd' = m_rrd + 1 /\ m_rbp' = m_rft - Arg(2) + 1 /\ UNCHANGED <<m_rft, fault>>
      /\ m_call_frames'[m_rrd].old_base_ptr = m_rbp
      /\ m_call_frames'[m_rrd].old_mem_top = m_rft
      /\ \A k \in FrameIndex \ {m_rrd} : m_call_frames'[k] = m_call_frames[k]
  BY <1>1 DEF Call, CallWith
<1>3. Arg(2) <= width
  <2> SUFFICES ASSUME Arg(2) > 0 PROVE Arg(2) <= width
    BY <1>1
  <2>1. /\ WellFormedChunk(Chunk) /\ m_rip + 1 \in DOMAIN Chunk /\ Instr = Chunk[m_rip + 1]
        /\ m_rip \in Int /\ m_rip + 1 \in Nat /\ Chunk \in Seq(Instruction)
    BY <1>1, InstructionTyped, InstructionAt DEF Registers, HasInstruction, Chunk
  <2>2. HasArguments(Chunk[m_rip + 1]) /\ Chunk[m_rip + 1].args[2] = Arg(2)
    BY <1>1, <2>1 DEF HasArguments, Arg
  <2>3. /\ m_rip + 1 > 1 /\ Chunk[m_rip + 1 - 1].op = "mov"
        /\ Chunk[m_rip + 1 - 1].args[1] >= Arg(2) - 1
    BY <2>1, <2>2 DEF WellFormedChunk, WellFormedInstruction
  <2>4. m_rip + 1 - 1 = m_rip /\ m_rip \in DOMAIN Chunk
    BY <2>1, <2>3
  <2>5. Chunk[m_rip].args[1] \in Nat /\ NamesRegister(Chunk[m_rip], 1)
    <3>1. prgm \in Programs /\ m_rfi + 1 \in DOMAIN prgm.chunks /\ Chunk = prgm.chunks[m_rfi + 1]
      BY <1>1 DEF Registers, HasInstruction, Chunk
    <3>2. Chunk[m_rip].args[1] \in Nat
      BY <2>4, <3>1, InstructionAt
    <3>3. QED
      BY <2>3, <2>4, <3>2 DEF NamesRegister
  <2>6. Chunk[m_rip].args[1] < width
    BY <1>1, <2>4, <2>5 DEF Roomy, Narrow, HasInstruction, Chunk
  <2>7. QED
    BY <1>1, <2>3, <2>4, <2>5, <2>6
<1>4. \A k \in 1 .. m_rrd : SavedBase(k)' = SavedBase(k) /\ SavedTop(k)' = SavedTop(k)
  <2> SUFFICES ASSUME NEW k \in 1 .. m_rrd
               PROVE  SavedBase(k)' = SavedBase(k) /\ SavedTop(k)' = SavedTop(k)
    OBVIOUS
  <2>1. k # m_rrd => k \in FrameIndex \ {m_rrd}
    BY <1>1, EngineAssumption DEF FrameIndex
  <2>2. k # m_rrd + 1
    BY <1>1
  <2>3. QED
    BY <1>2, <2>1, <2>2 DEF SavedBase, SavedTop
<1>5. m_rbp <= Span(m_rrd - 1, width) /\ m_rft < m_rbp + width
  BY <1>1 DEF RoomInv, SavedBase, SavedTop
<1>6. Span(m_rrd, width) = Span(m_rrd - 1, width) + width /\ Span(m_rrd - 1, width) \in Nat
  <2>1. m_rrd - 1 \in Nat /\ m_rrd - 1 + 1 = m_rrd
    BY <1>1
  <2>2. QED
    BY <1>1, <2>1, Spans
<1>7. m_rbp' <= Span(m_rrd, width) /\ m_rft < m_rbp' + width
  BY <1>1, <1>2, <1>3, <1>5, <1>6
<1>8. SUFFICES ASSUME NEW k \in 1 .. m_rrd + 1
               PROVE  SavedBase(k)' <= Span(k - 1, width) /\ SavedTop(k)' < SavedBase(k)' + width
  BY <1>1, <1>2 DEF RoomInv
<1>9. CASE k = m_rrd + 1
  <2>1. SavedBase(k)' = m_rbp' /\ SavedTop(k)' = m_rft /\ k - 1 = m_rrd
    BY <1>1, <1>2, <1>9 DEF SavedBase, SavedTop
  <2>2. QED
    BY <1>7, <2>1
<1>10. CASE k \in 1 .. m_rrd
  BY <1>4, <1>10 DEF RoomInv
<1>11. QED
  BY <1>1, <1>9, <1>10

\* A return leaves the callers' frames as they are.
LEMMA RetFitsIn ==
  ASSUME ConventionInv, Ret, NEW width, RoomInv(width)
  PROVE  RoomInv(width)'
<1>1. /\ m_rrd \in Nat \ {0} /\ m_call_frame_ptr = m_rrd - 1
      /\ m_rbp' = m_call_frames[m_rrd - 1].old_base_ptr
      /\ m_rft' = m_call_frames[m_rrd - 1].old_mem_top
      /\ m_rrd' = m_rrd - 1 /\ UNCHANGED m_call_frames
  BY EngineAssumption DEF ConventionInv, Registers, FrameDiscipline, Ret, RetWith, Executing, InLoop,
                          SavedTopOfCaller
<1>2. \A k \in 1 .. m_rrd - 1 : SavedBase(k)' = SavedBase(k) /\ SavedTop(k)' = SavedTop(k)
  BY <1>1 DEF SavedBase, SavedTop
<1>3. fault' \in {fault, NoFault, "dangling", "null_cell"}
  BY DEF Ret, RetWith, TryMarkAndSweep
<1>4. \A k \in 1 .. m_rrd - 1 : k \in 1 .. m_rrd
  BY <1>1
<1>5. QED
  BY <1>1, <1>2, <1>3, <1>4 DEF RoomInv, NoFault

(***************************************************************************)
(* A closed program whose width fits never indexes a cell outside of the   *)
(* registers, at any depth of calls the frames allow (handle_call,         *)
(* handle_ret, handle_native_call, driver.cpp 29-32).                      *)
(***************************************************************************)
THEOREM NarrowStaysInMemory ==
  ASSUME AllWellFormed
  PROVE  Spec => []StaysInMemory
<1> DEFINE Code == Closed(prgm) => CodeInv
           Inv == \A width \in 1 .. MemLimit :
                    Closed(prgm) /\ Roomy(prgm, width) => RoomInv(width)
<1>1. Init => Inv
  <2> SUFFICES ASSUME Init, NEW width \in 1 .. MemLimit PROVE RoomInv(width)
    OBVIOUS
  <2>1. width \in Nat /\ width > 0
    BY EngineAssumption
  <2>2. Span(0, width) = 0
    BY <2>1, Spans
  <2>3. m_rrd = 1 /\ SavedBase(1) = 0 /\ SavedTop(1) = 0 /\ fault # "oob_memory"
    BY DEF Init, Boot, SavedBase, SavedTop, NoFault
  <2>4. QED
    BY <2>1, <2>2, <2>3 DEF RoomInv
<1>2. ConventionInv /\ Code /\ Inv /\ [Next]_vars => Inv'
  <2> SUFFICES ASSUME ConventionInv, Code, Inv, [Next]_vars, NEW width \in 1 .. MemLimit,
                      Closed(prgm)', Roomy(prgm, width)'
               PROVE  RoomInv(width)'
    OBVIOUS
  <2>1. CodeStep \/ Call \/ Ret
    BY StepIsCodeCallOrRet DEF ConventionInv
  <2>2. prgm' = prgm
    BY <2>1 DEF CodeStep, Call, CallWith, Ret, RetWith
  <2>3. Closed(prgm) /\ CodeInv /\ Roomy(prgm, width) /\ RoomInv(width)
    BY <2>2 DEF Closed, Roomy
  <2>4. QED
    BY <2>1, <2>3, CodeStepFits, CallFitsIn, RetFitsIn
<1>3. Inv => StaysInMemory
  BY DEF RoomInv, StaysInMemory
<1>4. QED
  BY <1>1, <1>2, <1>3, ConventionHolds, CodeInvHolds, PTL DEF Spec

================================================================================
