------------------------------- MODULE Session -------------------------------
(***************************************************************************)
(* What the emulator unit promises its users, without threads, mutexes or  *)
(* machines: at most one session at a time executes the loaded program,    *)
(* the published phase follows the session, and the program is replaced    *)
(* only between sessions.  UiController implements it.                     *)
(***************************************************************************)
CONSTANTS Programs, NoProgram

VARIABLES phase,    \* the published state of the unit
          session,  \* "none", or the session that executes: "run" or "debug"
          program   \* the loaded program

vars == <<phase, session, program>>

\* Phases that tell of a program in execution.
Executing == {"kRunning", "kRunningDebug"}

\* What a session of each kind may publish, and where it may end.
Reports == [run |-> {"kRunning", "kTerminated"},
            debug |-> {"kRunningDebug", "kDebugPaused", "kTerminated"}]
Settled == [run |-> {"kTerminated"}, debug |-> {"kDebugPaused", "kTerminated"}]

Init == phase = "kDefault" /\ session = "none" /\ program = NoProgram

\* A program is loaded, and announced, only while nothing executes.
Load ==
  /\ session = "none"
  /\ program' \in Programs
  /\ UNCHANGED <<phase, session>>

Ready ==
  /\ session = "none" /\ program # NoProgram
  /\ phase' = "kReady"
  /\ UNCHANGED <<session, program>>

Begin ==
  /\ session = "none" /\ program # NoProgram
  /\ phase \notin Executing
  /\ session' \in {"run", "debug"}
  /\ UNCHANGED <<phase, program>>

Report ==
  /\ session # "none"
  /\ phase' \in Reports[session]
  /\ UNCHANGED <<session, program>>

\* A run session leaves the unit terminated; only a debug session may leave
\* it paused.
End ==
  /\ session # "none" /\ phase \in Settled[session]
  /\ session' = "none"
  /\ UNCHANGED <<phase, program>>

\* The user's Terminate, at any time once a program is there.
Terminate ==
  /\ program # NoProgram
  /\ phase' = "kTerminated"
  /\ UNCHANGED <<session, program>>

Next == Load \/ Ready \/ Begin \/ Report \/ End \/ Terminate

Spec == Init /\ [][Next]_vars
=============================================================================
