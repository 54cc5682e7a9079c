-------------------------------- MODULE Emission --------------------------------
(***************************************************************************)
(* generate_program: the emitter makes one chunk of each graph of a        *)
(* program.  What comes before, the analysis and the conversion, is        *)
(* anything that leaves the emitter alone; module Compiler says what it is.*)
(***************************************************************************)
EXTENDS Emitter

VARIABLES
  stage,    \* what the driver is doing, or how it ended
  pos,      \* the declaration or graph that is next
  cv,       \* the ASTConversion object
  em        \* the Emitter object

emissionVars == <<stage, pos, cv, em>>

Preparing == stage \notin {"emit", "done", "invalid", "rejected", "crashed"}

EmissionInit ==
  /\ Preparing
  /\ em = NewEmitter

Prepare ==
  /\ Preparing
  /\ stage' # "done"
  /\ stage' = "emit" => pos' = 1
  /\ UNCHANGED em

\* Emitter::operator()
EmitNextChunk ==
  /\ stage = "emit"
  /\ pos <= Len(cv.cfgs)
  /\ em' = EmitChunk(em, cv.cfgs[pos])
  /\ stage' = IF em'.crashed THEN "crashed" ELSE stage
  /\ pos' = pos + 1
  /\ UNCHANGED cv

EndEmission ==
  /\ stage = "emit"
  /\ pos > Len(cv.cfgs)
  /\ stage' = "done"
  /\ UNCHANGED <<pos, cv, em>>

EmissionNext == Prepare \/ EmitNextChunk \/ EndEmission

EmissionSpec == EmissionInit /\ [][EmissionNext]_emissionVars

--------------------------------------------------------------------------------
\* What the emitter makes of a step by itself, and of a list of steps if nothing is patched
Alone(step) ==
  IF IsMeta(step) THEN << >>
  ELSE Chunk(EmitStep([NewEmitter EXCEPT !.chunks = << << >> >>], step))
Translation(steps) ==
  LET code[n \in 0 .. Len(steps)] ==
        IF n = 0 THEN << >> ELSE code[n - 1] \o Alone(steps[n])
  IN  code[Len(steps)]

\* What the emitter expects of the converter, whose steps it does not check, and of the size
\* of a function, which it does not check either: 16 bits are to count its instructions.
GraphsMarked ==
  /\ IsSequence(cv.cfgs)
  /\ \A k \in DOMAIN cv.cfgs :
       /\ IsGraph(cv.cfgs[k]) /\ WellMarked(StepsInOrder(cv.cfgs[k]))
       /\ Countable(Translation(StepsInOrder(cv.cfgs[k])))

(***************************************************************************)
(* The code keeps the convention that the engine relies on, every jump was *)
(* patched, to lead to a nop of its chunk, and nothing stays open from one *)
(* function to the next, of which each has one chunk: blocks are emitted in*)
(* the order in which the marks nest, so that each mark finds its own if or*)
(* loop (emit_oper_nonary, m_active_ifs, m_active_loops).                  *)
(***************************************************************************)
CodeKeepsConvention ==
  GraphsMarked =>
    /\ ~em.crashed /\ em.active_ifs = << >> /\ em.active_loops = << >>
    /\ \A k \in DOMAIN em.chunks : WellFormedChunk(em.chunks[k]) /\ JumpsToNops(em.chunks[k])
    /\ stage = "emit" => Len(em.chunks) = pos - 1
    /\ stage = "done" => Len(em.chunks) = Len(cv.cfgs)

IsTarget(i, k) ==
  \/ i.op = "jump" /\ k = 1
  \/ i.op = "jump_else" /\ k = 2
SameButTargets(c, d) ==
  /\ Len(c) = Len(d)
  /\ \A n \in 1 .. Len(c) :
       /\ c[n].op = d[n].op /\ c[n].metadata = d[n].metadata
       /\ \A k \in 1 .. 3 : c[n].args[k] = d[n].args[k] \/ IsTarget(d[n], k)

(***************************************************************************)
(* The chunk of a function is what its steps mean one by one, in the order *)
(* of its blocks, whatever was emitted before it and around them: marks add*)
(* no code, and what is patched later is the target of a jump and no other *)
(* argument, such as the condition (emit_chunk, emit_oper_nonary).         *)
(***************************************************************************)
CodeTranslatesSteps ==
  GraphsMarked =>
    \A k \in DOMAIN em.chunks :
      SameButTargets(em.chunks[k], Translation(StepsInOrder(cv.cfgs[k])))

\* The program that the steps mean, if nothing is patched
AsTranslated(ir) ==
  [chunks |-> [k \in DOMAIN cv.cfgs |-> Translation(StepsInOrder(cv.cfgs[k]))],
   constants |-> ir.constants, entry_id |-> ir.main_id]

(***************************************************************************)
(* The code of a function is not touched after its chunk was finished: the *)
(* positions that are patched count within a chunk, and come from stacks   *)
(* that all functions of a program share (emit_chunk, m_result_chunks).    *)
(***************************************************************************)
FinishedChunksStand ==
  [][GraphsMarked =>
       \A k \in DOMAIN em.chunks : k \in DOMAIN em'.chunks /\ em'.chunks[k] = em.chunks[k]]_em

================================================================================
