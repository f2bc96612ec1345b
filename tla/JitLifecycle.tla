----------------------------- MODULE JitLifecycle -----------------------------
(***************************************************************************)
(* What the JIT engine promises to the application, without saying how:    *)
(* sessions are opened one at a time, every worker of a session is gone    *)
(* before the next one opens, and a worker leaves a session only because   *)
(* the application closes it or because a worker of it failed.  A worker   *)
(* may also hang in the code it runs, and then never leaves.               *)
(* JitEngine implements this specification (see Lifecycle there).          *)
(***************************************************************************)

CONSTANT Workers            \* the hardware threads the engine can run

VARIABLES
  phase,                    \* "off", "on" or "closing"
  live,                     \* the workers that have not left yet
  hung,                     \* workers that will not take another step
  failed                    \* a worker reported a failure nobody cleared yet

lifecycleVars == <<phase, live, hung, failed>>

LifecycleInit ==
  /\ phase = "off"
  /\ live = {}
  /\ hung = {}
  /\ failed = FALSE

(* A session opens with a non-empty set of workers, after a clean end.     *)
Open ==
  /\ phase = "off"
  /\ live = {}
  /\ ~failed
  /\ phase' = "on"
  /\ live' \in (SUBSET Workers) \ {{}}
  /\ UNCHANGED <<hung, failed>>

(* A worker leaves once the session closes or has failed.                  *)
Leave(w) ==
  /\ w \in live \ hung
  /\ phase = "closing" \/ failed
  /\ live' = live \ {w}
  /\ UNCHANGED <<phase, hung, failed>>

(* A worker hits an address it cannot run and takes the session down.      *)
Fail(w) ==
  /\ w \in live \ hung
  /\ live' = live \ {w}
  /\ failed' = TRUE
  /\ UNCHANGED <<phase, hung>>

(* The guest's code keeps a worker for ever, or takes the process down.    *)
Hang ==
  /\ live # {}
  /\ hung' \in SUBSET Workers
  /\ hung \subseteq hung'
  /\ UNCHANGED <<phase, live, failed>>

(* The application closes a session; closing after a failure clears it.    *)
Close ==
  /\ phase = "on" \/ failed
  /\ phase # "closing"
  /\ phase' = "closing"
  /\ failed' = FALSE
  /\ UNCHANGED <<live, hung>>

(* Closing ends when the last worker is gone.                              *)
Closed ==
  /\ phase = "closing"
  /\ live = {}
  /\ phase' = "off"
  /\ UNCHANGED <<live, hung, failed>>

(* Loading another executable between two sessions forgets the failure.    *)
Forget ==
  /\ phase = "off"
  /\ failed
  /\ failed' = FALSE
  /\ UNCHANGED <<phase, live, hung>>

LifecycleNext ==
  \/ Open \/ Close \/ Closed \/ Forget \/ Hang
  \/ \E w \in Workers : Leave(w) \/ Fail(w)

LifecycleSafety == LifecycleInit /\ [][LifecycleNext]_lifecycleVars

LifecycleSpec ==
  /\ LifecycleSafety
  /\ \A w \in Workers : WF_lifecycleVars(phase = "closing" /\ (Leave(w) \/ Fail(w)))
  /\ WF_lifecycleVars(Closed)
===============================================================================
