------------------------------ MODULE ActivationProofs ------------------------------
(***************************************************************************)
(* Calls and returns implement a stack of activations, for all well-formed *)
(* programs.                                                               *)
(***************************************************************************)
EXTENDS ConventionProofs

\* The stack of module ActivationStack that the engine's registers and frames stand for.
StackOf == [k \in 1 .. m_rrd |-> Activation(k)]

(***************************************************************************)
(* A function on 1 .. n is a sequence of n elements, and all but the last  *)
(* of them are the function on 1 .. n - 1.                                 *)
(***************************************************************************)
LEMMA FunctionIsSequence ==
  ASSUME NEW n \in Nat, NEW f, f = [k \in 1 .. n |-> f[k]]
  PROVE  /\ Len(f) = n
         /\ f = << >> <=> n = 0
         /\ n > 0 => SubSeq(f, 1, n - 1) = [k \in 1 .. n - 1 |-> f[k]]
<1> DEFINE S == {f[k] : k \in 1 .. n}
<1>1. f \in [1 .. n -> S]
  OBVIOUS
<1> HIDE DEF S
<1>2. f \in Seq(S) /\ Len(f) = n
  BY <1>1
<1>3. ASSUME n > 0
      PROVE  SubSeq(f, 1, n - 1) = [k \in 1 .. n - 1 |-> f[k]]
  <2>1. 1 \in 1 .. n /\ n - 1 \in 0 .. n
    BY <1>3
  <2>2. QED
    BY <1>2, <1>3, <2>1
<1>4. f = << >> <=> n = 0
  BY <1>2
<1>5. QED
  BY <1>2, <1>3, <1>4

(***************************************************************************)
(* The stack has one element for each active call; all but the last one are*)
(* its callers.                                                            *)
(***************************************************************************)
StackShape ==
  m_rrd \in Nat =>
    /\ Len(StackOf) = m_rrd
    /\ StackOf = << >> <=> m_rrd = 0
    /\ m_rrd > 0 => SubSeq(StackOf, 1, m_rrd - 1) = [k \in 1 .. m_rrd - 1 |-> Activation(k)]
    /\ m_rrd > 0 =>
         StackOf[m_rrd] = [func |-> m_rfi, ip |-> m_rip, base |-> m_rbp, top |-> m_rft]

\* That is so in every state, and so before and after a step.
LEMMA StackIsShaped == StackShape /\ StackShape'
<1>1. StackShape
  <2> SUFFICES ASSUME m_rrd \in Nat
               PROVE  /\ Len(StackOf) = m_rrd
                      /\ StackOf = << >> <=> m_rrd = 0
                      /\ m_rrd > 0 =>
                           SubSeq(StackOf, 1, m_rrd - 1) = [k \in 1 .. m_rrd - 1 |-> Activation(k)]
                      /\ m_rrd > 0 =>
                           StackOf[m_rrd]
                             = [func |-> m_rfi, ip |-> m_rip, base |-> m_rbp, top |-> m_rft]
    BY DEF StackShape
  <2>1. StackOf = [k \in 1 .. m_rrd |-> StackOf[k]]
    BY DEF StackOf
  <2>2. /\ Len(StackOf) = m_rrd
        /\ StackOf = << >> <=> m_rrd = 0
        /\ m_rrd > 0 => SubSeq(StackOf, 1, m_rrd - 1) = [k \in 1 .. m_rrd - 1 |-> StackOf[k]]
    BY <2>1, FunctionIsSequence
  <2>3. m_rrd > 0 =>
          [k \in 1 .. m_rrd - 1 |-> StackOf[k]] = [k \in 1 .. m_rrd - 1 |-> Activation(k)]
    BY DEF StackOf
  <2>4. m_rrd > 0 =>
          StackOf[m_rrd] = [func |-> m_rfi, ip |-> m_rip, base |-> m_rbp, top |-> m_rft]
    BY DEF StackOf, Activation
  <2>5. QED
    BY <2>2, <2>3, <2>4
<1>2. QED
  BY <1>1, PTL

--------------------------------------------------------------------------------
\* The three kinds of step

(***************************************************************************)
(* A local step is work of the innermost activation, or changes nothing.   *)
(***************************************************************************)
LEMMA LocalStepIsWork ==
  ASSUME ConventionInv, LocalStep
  PROVE  Stack!Work \/ StackOf' = StackOf
<1>1. /\ m_rrd \in Nat /\ m_rrd' = m_rrd /\ StackShape /\ StackShape'
      /\ m_rfi' = m_rfi /\ m_rbp' = m_rbp /\ m_rft' >= m_rft
  BY StackIsShaped DEF ConventionInv, Registers, LocalStep
<1>2. CASE m_rrd = 0
  BY <1>1, <1>2 DEF StackShape
<1>3. CASE m_rrd > 0
  <2>1. \A k \in 1 .. m_rrd - 1 : Activation(k)' = Activation(k)
    BY <1>1 DEF Activation, LocalStep
  <2>2. SubSeq(StackOf', 1, m_rrd - 1) = SubSeq(StackOf, 1, m_rrd - 1)
    BY <1>1, <1>3, <2>1 DEF StackShape
  <2>3. /\ StackOf # << >> /\ Len(StackOf) = m_rrd /\ Len(StackOf') = m_rrd
        /\ StackOf'[m_rrd].func = StackOf[m_rrd].func
        /\ StackOf'[m_rrd].base = StackOf[m_rrd].base
        /\ StackOf'[m_rrd].top >= StackOf[m_rrd].top
    BY <1>1, <1>3 DEF StackShape
  <2>4. QED
    BY <2>2, <2>3 DEF Stack!Work, Stack!Callers, Stack!Last, StackOf
<1>4. QED
  BY <1>1, <1>2, <1>3

(***************************************************************************)
(* handle_call invokes.                                                    *)
(***************************************************************************)
LEMMA CallIsInvoke ==
  ASSUME AllWellFormed, ConventionInv, Call
  PROVE  Stack!Invoke
<1>1. /\ Registers /\ m_rrd \in Nat /\ m_rrd > 0 /\ m_rrd' = m_rrd + 1
      /\ StackShape /\ StackShape'
      /\ m_rip' = 0 /\ m_rft' = m_rft /\ NextIp = m_rip + 1
  BY StackIsShaped, NextIpFollows DEF ConventionInv, Registers, Call, CallWith, Executing, InLoop
<1>2. /\ m_rrd \in FrameIndex /\ m_call_frame_ptr + 1 = m_rrd
      /\ m_rbp <= m_rbp' /\ m_rbp' <= m_rft + 1
  BY CallFits
<1>3. \A k \in 1 .. m_rrd - 1 : Activation(k)' = Activation(k)
  <2>1. \A k \in 1 .. m_rrd - 1 : m_call_frames'[k] = m_call_frames[k]
    BY <1>1, <1>2, EngineAssumption DEF Registers, FrameIndex, Call, CallWith
  <2>2. QED
    BY <1>1, <2>1 DEF Activation
<1>4. \A k \in {m_rrd} :
        Activation(k)' = [func |-> m_rfi, ip |-> m_rip + 1, base |-> m_rbp, top |-> m_rft]
  <2>1. m_call_frames'[m_rrd] =
          [old_func_idx |-> m_rfi, old_func_ip |-> m_rip + 1, old_base_ptr |-> m_rbp,
           old_mem_top |-> m_rft, old_exec_status |-> m_res]
    BY <1>1, <1>2 DEF Registers, Call, CallWith
  <2>2. QED
    BY <1>1, <2>1 DEF Activation
<1>5. SubSeq(StackOf', 1, m_rrd' - 1) = [StackOf EXCEPT ![m_rrd].ip = @ + 1]
  <2>1. SubSeq(StackOf', 1, m_rrd' - 1) = [k \in 1 .. m_rrd |-> Activation(k)']
    <3>1. m_rrd' \in Nat /\ m_rrd' > 0 /\ m_rrd' - 1 = m_rrd
      BY <1>1
    <3>2. SubSeq(StackOf', 1, m_rrd' - 1) = [k \in 1 .. m_rrd' - 1 |-> Activation(k)']
      BY <1>1, <3>1 DEF StackShape
    <3>3. QED
      BY <3>1, <3>2
  <2>2. DOMAIN StackOf = 1 .. m_rrd /\ \A k \in 1 .. m_rrd : StackOf[k] = Activation(k)
    BY DEF StackOf
  <2>3. [StackOf EXCEPT ![m_rrd].ip = @ + 1]
          = [k \in 1 .. m_rrd |->
               IF k = m_rrd
               THEN [func |-> m_rfi, ip |-> m_rip + 1, base |-> m_rbp, top |-> m_rft]
               ELSE Activation(k)]
    <3>1. [StackOf[m_rrd] EXCEPT !.ip = @ + 1]
            = [func |-> m_rfi, ip |-> m_rip + 1, base |-> m_rbp, top |-> m_rft]
      <4>1. StackOf[m_rrd] = [func |-> m_rfi, ip |-> m_rip, base |-> m_rbp, top |-> m_rft]
        BY <1>1 DEF StackShape
      <4>2. \A a, b, c, d :
              [[func |-> a, ip |-> b, base |-> c, top |-> d] EXCEPT !.ip = @ + 1]
                = [func |-> a, ip |-> b + 1, base |-> c, top |-> d]
        OBVIOUS
      <4>3. QED
        BY <4>1, <4>2
    <3>2. [StackOf EXCEPT ![m_rrd].ip = @ + 1]
            = [k \in 1 .. m_rrd |->
                 IF k = m_rrd THEN [StackOf[m_rrd] EXCEPT !.ip = @ + 1] ELSE StackOf[k]]
      BY <2>2
    <3>3. QED
      BY <2>2, <3>1, <3>2
  <2>4. \A k \in 1 .. m_rrd :
          Activation(k)' =
            IF k = m_rrd
            THEN [func |-> m_rfi, ip |-> m_rip + 1, base |-> m_rbp, top |-> m_rft]
            ELSE Activation(k)
    BY <1>1, <1>3, <1>4
  <2>5. QED
    BY <2>1, <2>3, <2>4
<1>6. /\ StackOf # << >> /\ Len(StackOf) = m_rrd /\ Len(StackOf') = m_rrd'
      /\ StackOf[m_rrd].base = m_rbp /\ StackOf[m_rrd].top = m_rft
      /\ StackOf'[m_rrd'].ip = 0 /\ StackOf'[m_rrd'].base = m_rbp'
      /\ StackOf'[m_rrd'].top = m_rft
  BY <1>1 DEF StackShape
<1>7. QED
  BY <1>1, <1>2, <1>5, <1>6 DEF Stack!Invoke, Stack!Callers, Stack!Last, StackOf

(***************************************************************************)
(* handle_ret resumes the caller.                                          *)
(***************************************************************************)
LEMMA RetIsResume ==
  ASSUME ConventionInv, Ret
  PROVE  Stack!Resume
<1>1. /\ Registers /\ m_rrd \in Nat /\ m_rrd > 0 /\ m_rrd' = m_rrd - 1
      /\ m_call_frame_ptr = m_rrd - 1 /\ m_call_frames' = m_call_frames
      /\ StackShape
  BY StackIsShaped DEF ConventionInv, FrameDiscipline, Registers, Ret, RetWith, Executing, InLoop
<1>2. \A k \in 1 .. m_rrd - 1 : Activation(k)' = Activation(k)
  BY <1>1 DEF Activation, Ret, RetWith, SavedTopOfCaller
<1>3. StackOf' = SubSeq(StackOf, 1, m_rrd - 1)
  BY <1>1, <1>2 DEF StackOf, StackShape
<1>4. StackOf # << >> /\ Len(StackOf) = m_rrd
  BY <1>1 DEF StackShape
<1>5. QED
  BY <1>3, <1>4 DEF Stack!Resume, Stack!Callers, StackOf

--------------------------------------------------------------------------------
\* The refinement

(***************************************************************************)
(* Every run of every well-formed program is a run of the stack of         *)
(* activations (Engine::Engine, handle_call, handle_ret).                  *)
(***************************************************************************)
THEOREM EngineImplementsStack ==
  ASSUME AllWellFormed
  PROVE  Spec => ActivationSpec
<1>1. Init => Stack!Init
  <2> SUFFICES ASSUME Init PROVE Stack!Init
    OBVIOUS
  <2>1. prgm \in Programs /\ prgm.entry_id \in {p.entry_id : p \in Programs}
    BY DEF Init, Boot
  <2>2. StackOf = << [func |-> prgm.entry_id, ip |-> 0, base |-> 0, top |-> 0] >>
    BY DEF Init, Boot, StackOf, Activation
  <2>3. QED
    BY <2>1, <2>2 DEF Stack!Init, StackOf
<1>2. ConventionInv /\ [Next]_vars => [Stack!Next]_StackOf
  BY StepIsLocalCallOrRet, LocalStepIsWork, CallIsInvoke, RetIsResume DEF Stack!Next
<1>3. QED
  BY <1>1, <1>2, ConventionHolds, PTL DEF Spec, ActivationSpec, Stack!Spec, StackOf

================================================================================
