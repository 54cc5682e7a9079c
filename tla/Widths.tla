--------------------------------- MODULE Widths ---------------------------------
(***************************************************************************)
(* The 16-bit integers of the intermediate form, of instructions and of the*)
(* engine's position.  A wider number that is stored in one keeps its low  *)
(* bits only, so that a position or a register past the last one comes out *)
(* negative.                                                               *)
(***************************************************************************)
EXTENDS Integers

Int16Max == 32767
Int16 == -32768 .. Int16Max
UInt16 == 0 .. 65535

\* A number stored in an int16_t
ToInt16(n) == ((n + 32768) % 65536) - 32768

================================================================================
