----------------------------- MODULE ActivationStack -----------------------------
(***************************************************************************)
(* What calls and returns promise, without frames and registers: a stack   *)
(* of activations, each at an instruction of its function, with the base   *)
(* and the top of the registers it uses.  Only the innermost activation    *)
(* runs.  It may work, call, or return, and whoever it returns to goes on  *)
(* where it was, after its call.                                           *)
(***************************************************************************)
EXTENDS Integers, Sequences

CONSTANT Main    \* the functions a program may start with

VARIABLE stack   \* of activations [func, ip, base, top], the innermost last

Last == stack[Len(stack)]
Callers(s) == SubSeq(s, 1, Len(s) - 1)

Init ==
  \E f \in Main : stack = << [func |-> f, ip |-> 0, base |-> 0, top |-> 0] >>

\* The innermost activation runs on: it keeps its base, and its top never goes down.
Work ==
  /\ stack # << >>
  /\ Len(stack') = Len(stack)
  /\ Callers(stack') = Callers(stack)
  /\ stack'[Len(stack)].func = Last.func
  /\ stack'[Len(stack)].base = Last.base
  /\ stack'[Len(stack)].top >= Last.top

\* A call leaves the caller after its call instruction, and starts the callee at its first
\* instruction, with registers that begin no lower than the caller's and leave no gap
\* above the caller's top.
Invoke ==
  /\ stack # << >>
  /\ Len(stack') = Len(stack) + 1
  /\ Callers(stack') = [stack EXCEPT ![Len(stack)].ip = @ + 1]
  /\ LET callee == stack'[Len(stack) + 1]
     IN  /\ callee.ip = 0
         /\ Last.base <= callee.base /\ callee.base <= Last.top + 1
         /\ callee.top = Last.top

\* A return drops the innermost activation and nothing else.
Resume == stack # << >> /\ stack' = Callers(stack)

Next == Work \/ Invoke \/ Resume

Spec == Init /\ [][Next]_stack

================================================================================
