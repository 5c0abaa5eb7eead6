---------------------------- MODULE FoldService -----------------------------
(***************************************************************************)
(* What the staged fold executor promises the releases that call it: the   *)
(* contract of StagedFoldExecutorV1::fold in                               *)
(* crates/pos-runtime/src/staged_executor.rs, without its queue, cancel    *)
(* flags, callbacks and clocks.                                            *)
(*                                                                         *)
(* One job is alive at a time.  A caller that gives up leaves its job      *)
(* behind as an orphan and quarantines the service until the orphan ends;  *)
(* a result is delivered only to the caller whose own job completed; a     *)
(* dying worker closes the service for good.  StagedExecutor implements    *)
(* this specification, and ProtectedRelease is written against it.         *)
(***************************************************************************)
CONSTANT Callers   \* releases that fold

VARIABLES
  health,    \* "ready", "busy" or "quarantined"
  alive,     \* a job is claimed, queued or running
  owner,     \* the caller that waits for the live job; empty for an orphan
  call,      \* the state of each caller's fold
  dead       \* the worker's host code has panicked

vars == <<health, alive, owner, call, dead>>

Init ==
  /\ health = "ready"
  /\ alive = FALSE
  /\ owner = {}
  /\ call = [c \in Callers |-> "out"]
  /\ dead = FALSE

\* A fold takes the service only when it is ready, and then no job is alive.
Begin(c) ==
  /\ call[c] = "out"
  /\ health = "ready" /\ ~alive
  /\ health' = "busy"
  /\ alive' = TRUE /\ owner' = {c}
  /\ call' = [call EXCEPT ![c] = "working"]
  /\ UNCHANGED dead

\* The live job ends, with a result or, once cancelled, without one; the
\* service is ready again, quarantined or not.
Complete ==
  /\ alive
  /\ health' = "ready"
  /\ alive' = FALSE /\ owner' = {}
  /\ \E end \in {"completed", "broken"} :
       call' = [c \in Callers |-> IF c \in owner THEN end ELSE call[c]]
  /\ UNCHANGED dead

\* The fold returns what its own job produced: a projection or an error.
Deliver(c) ==
  /\ call[c] = "completed"
  /\ call' = [call EXCEPT ![c] = "out"]
  /\ UNCHANGED <<health, alive, owner, dead>>

\* The fold returns without a result.  If its job is still alive it becomes
\* an orphan.  Whichever job is alive, the service is quarantined until it ends.
GiveUp(c) ==
  /\ call[c] # "out"
  /\ call' = [call EXCEPT ![c] = "out"]
  /\ owner' = owner \ {c}
  /\ health' = IF health = "busy" THEN "quarantined" ELSE health
  /\ UNCHANGED <<alive, dead>>

\* Host code of the worker panics outside every callback ...
Break ==
  /\ alive
  /\ call' = [c \in Callers |-> IF c \in owner THEN "broken" ELSE call[c]]
  /\ owner' = {}
  /\ UNCHANGED <<health, alive, dead>>

\* ... which is contained by a quarantine that never ends.
Contain ==
  /\ alive /\ owner = {}
  /\ health' = "quarantined" /\ alive' = FALSE /\ dead' = TRUE
  /\ UNCHANGED <<owner, call>>

Next ==
  \/ \E c \in Callers : Begin(c) \/ Deliver(c) \/ GiveUp(c)
  \/ Complete \/ Break \/ Contain

Spec == Init /\ [][Next]_vars

=============================================================================
