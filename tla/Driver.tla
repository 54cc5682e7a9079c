--------------------------------- MODULE Driver ---------------------------------
(***************************************************************************)
(* The rest of Driver::operator(): the program that the compiler made is   *)
(* run by an engine of its own.  The converter and the emitter are local   *)
(* to the functions that use them, and gone by then.                       *)
(***************************************************************************)
EXTENDS Compiler, EngineProperties

driverVars == <<compilerVars, vars>>

NoProgram == [chunks |-> << >>, constants |-> << >>, entry_id |-> -1]

DriverInit ==
  /\ CompilerInit
  /\ prgm = NoProgram /\ Boot

CompileStep == CompilerNext /\ UNCHANGED vars

\* The constructor of the engine.  A program without a main is its error to report.
Launch ==
  /\ stage = "done"
  /\ stage' = "run"
  /\ prgm' = ProgramOf(em, FullIR(cv))
  /\ m_rfi' = prgm'.entry_id
  /\ m_res' = IF prgm'.entry_id >= 0 THEN "ok" ELSE "setup_error"
  /\ cv' = NewConversion
  /\ em' = NewEmitter
  /\ UNCHANGED <<ast, pos, an, m_memory, m_call_frames, m_call_frame_ptr, m_rip, m_rbp, m_rft,
                 m_rrd, m_heap, fault, exit>>

RunStep == stage = "run" /\ Next /\ UNCHANGED compilerVars

DriverNext == CompileStep \/ Launch \/ RunStep

DriverSpec == DriverInit /\ [][DriverNext]_driverVars

================================================================================
