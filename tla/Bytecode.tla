------------------------------- MODULE Bytecode --------------------------------
(***************************************************************************)
(* Instructions: an opcode, three 16-bit arguments and a metadata word     *)
(* with the number of arguments in its two low bits and the address mode   *)
(* of each one in four bits above.  The emitter packs the modes, the       *)
(* engine unpacks them with masks; both forms are here.                    *)
(***************************************************************************)
EXTENDS Widths, Sequences

ArgModes == {"immediate", "constant", "reg", "stack", "heap"}

\* enum class ArgMode
ModeNumber(mode) ==
  CASE mode = "immediate" -> 0
    [] mode = "constant" -> 1
    [] mode = "reg" -> 2
    [] mode = "stack" -> 3
    [] mode = "heap" -> 4

\* enum class Opcode, without the end marker
Opcodes ==
  {"nop", "make_seq", "seq_obj_push", "seq_obj_pop", "seq_obj_get", "frz_seq_obj",
   "load_const", "mov", "neg", "inc", "dec", "mul", "div", "mod", "add", "sub",
   "equ", "neq", "lt", "gt", "lte", "gte", "jump", "jump_if", "jump_else", "call",
   "native_call", "ret", "halt"}

ArithOps == {"mul", "div", "mod", "add", "sub"}
CompareOps == {"equ", "neq", "lt", "gt", "lte", "gte"}

Instruction == [op : Opcodes, args : [1 .. 3 -> Int16], metadata : UInt16]

--------------------------------------------------------------------------------
\* The emitter's side: pseudo-arguments, and the instruction made of some of them

R(n) == [tag |-> "reg", value |-> n]
C(n) == [tag |-> "constant", value |-> n]
I(n) == [tag |-> "immediate", value |-> n]

Arity(metadata) == metadata % 4

\* encode_metadata, by the number of arguments
Encode1(a0) == 1 + 4 * ModeNumber(a0)
Encode2(a0, a1) == 2 + 4 * ModeNumber(a0) + 64 * ModeNumber(a1)
Encode3(a0, a1, a2) ==
  3 + 4 * ModeNumber(a0) + 64 * ModeNumber(a1) + 1024 * ModeNumber(a2)

Emit0(op) == [op |-> op, args |-> <<0, 0, 0>>, metadata |-> 0]
Emit1(op, a0) ==
  [op |-> op, args |-> <<a0.value, 0, 0>>, metadata |-> Encode1(a0.tag)]
Emit2(op, a0, a1) ==
  [op |-> op, args |-> <<a0.value, a1.value, 0>>, metadata |-> Encode2(a0.tag, a1.tag)]
Emit3(op, a0, a1, a2) ==
  [op |-> op, args |-> <<a0.value, a1.value, a2.value>>,
   metadata |-> Encode3(a0.tag, a1.tag, a2.tag)]

--------------------------------------------------------------------------------
\* The engine's side: the masks of the handlers, for the first to the third argument

FirstField(metadata) == (metadata \div 4) % 16
SecondField(metadata) == (metadata \div 64) % 16
ThirdField(metadata) == (metadata \div 1024) % 16

SameMode(field, mode) == field = ModeNumber(mode)

(***************************************************************************)
(* The modes the engine unpacks are the ones the emitter packed: a field   *)
(* never runs into its neighbours, nor into the arity.                     *)
(***************************************************************************)
ModesRoundTrip ==
  \A a, b, c \in ArgModes :
    /\ SameMode(FirstField(Encode1(a)), a) /\ Arity(Encode1(a)) = 1
    /\ SameMode(FirstField(Encode2(a, b)), a) /\ SameMode(SecondField(Encode2(a, b)), b)
    /\ Arity(Encode2(a, b)) = 2
    /\ SameMode(FirstField(Encode3(a, b, c)), a)
    /\ SameMode(SecondField(Encode3(a, b, c)), b)
    /\ SameMode(ThirdField(Encode3(a, b, c)), c)
    /\ Arity(Encode3(a, b, c)) = 3

--------------------------------------------------------------------------------
(***************************************************************************)
(* What the engine expects of a program it runs and never checks: register *)
(* numbers and jump targets are not negative; the instruction before a call*)
(* with arguments moves the last of them to a register that has room below *)
(* it for the others; no jump skips that move; and a function is not longer*)
(* than its 16-bit position can count, the one after its end included.     *)
(***************************************************************************)
HasArguments(i) == i.op \in {"call", "native_call"} /\ i.args[2] > 0

Landing(chunk, ip) == ip + 1 \in DOMAIN chunk => ~HasArguments(chunk[ip + 1])

WellFormedInstruction(chunk, n) ==
  /\ \A k \in 1 .. 3 : chunk[n].args[k] >= 0
  /\ HasArguments(chunk[n]) =>
       n > 1 /\ chunk[n - 1].op = "mov" /\ chunk[n - 1].args[1] >= chunk[n].args[2] - 1
  /\ chunk[n].op = "jump" => Landing(chunk, chunk[n].args[1])
  /\ chunk[n].op \in {"jump_if", "jump_else"} => Landing(chunk, chunk[n].args[2])

Countable(chunk) == Len(chunk) <= Int16Max
WellFormedChunk(chunk) ==
  Countable(chunk) /\ \A n \in DOMAIN chunk : WellFormedInstruction(chunk, n)

WellFormed(p) == \A f \in DOMAIN p.chunks : WellFormedChunk(p.chunks[f])

(***************************************************************************)
(* A closed program has a next instruction wherever one is executed: after *)
(* every instruction but those that go elsewhere or end the run, where a   *)
(* jump leads, and at the start of a function that is called.  Its natives *)
(* and constants exist, and so do the modes of operands that are fetched   *)
(* without asking.                                                         *)
(***************************************************************************)
Field(metadata, k) ==
  CASE k = 1 -> FirstField(metadata)
    [] k = 2 -> SecondField(metadata)
    [] k = 3 -> ThirdField(metadata)

InMode(i, k, mode) == SameMode(Field(i.metadata, k), mode)

\* The arguments that are operands
OperandArgs(op) ==
  CASE op \in ArithOps \cup CompareOps -> {2, 3}
    [] op \in {"mov", "seq_obj_push", "load_const"} -> {2}
    [] op = "seq_obj_get" -> {3}
    [] op = "ret" -> {1}
    [] OTHER -> {}

GoesOn(op) == op \notin {"jump", "ret", "inc", "dec", "halt"}

ClosedInstruction(p, natives_n, chunk, n) ==
  LET i == chunk[n]
  IN  /\ GoesOn(i.op) => n + 1 \in DOMAIN chunk
      /\ i.op = "jump" => i.args[1] + 1 \in DOMAIN chunk
      /\ i.op \in {"jump_if", "jump_else"} => i.args[2] + 1 \in DOMAIN chunk
      /\ i.op = "call" => i.args[1] + 1 \in DOMAIN p.chunks /\ 1 \in DOMAIN p.chunks[i.args[1] + 1]
      /\ i.op = "native_call" => i.args[1] + 1 \in 1 .. natives_n
      /\ i.op \in ArithOps \cup CompareOps \cup {"ret"} =>
           \A k \in OperandArgs(i.op) : InMode(i, k, "constant") \/ InMode(i, k, "reg")
      /\ \A k \in OperandArgs(i.op) :
           InMode(i, k, "constant") \/ i.op = "load_const" => i.args[k] + 1 \in DOMAIN p.constants

ClosedFrom(p, natives_n) ==
  /\ p.entry_id >= 0 => p.entry_id + 1 \in DOMAIN p.chunks /\ 1 \in DOMAIN p.chunks[p.entry_id + 1]
  /\ \A f \in DOMAIN p.chunks : \A n \in DOMAIN p.chunks[f] :
       ClosedInstruction(p, natives_n, p.chunks[f], n)

(***************************************************************************)
(* The registers that instructions name are below a width.                 *)
(***************************************************************************)
NamesRegister(i, k) ==
  \/ k = 1 /\ i.op \notin {"nop", "inc", "dec", "halt", "jump", "call", "native_call", "ret"}
  \/ k = 2 /\ i.op \in {"seq_obj_pop", "seq_obj_get"}
  \/ k \in OperandArgs(i.op) /\ InMode(i, k, "reg")

Narrow(p, width) ==
  \A f \in DOMAIN p.chunks : \A n \in DOMAIN p.chunks[f] : \A k \in 1 .. 3 :
    NamesRegister(p.chunks[f][n], k) => p.chunks[f][n].args[k] < width

================================================================================
