---------------------------- MODULE ReleaseFence ----------------------------
(***************************************************************************)
(* What the protected-use fence of crates/pos-core/src/trusted_clock.rs    *)
(* promises the hosts that release through it, without its rows, samples,  *)
(* marks and transactions.                                                 *)
(*                                                                         *)
(* One guard is open at a time, over all processes.  A value moves at most *)
(* once in a guard.  A process that overran admits no guard until its flag *)
(* is cleared, and the latch closes only for a flag.  It closes and opens  *)
(* only while no guard is open, and no process admits a guard while it is  *)
(* closed.  A process that dies takes its flag with it.                    *)
(*                                                                         *)
(* That a flag is cleared only after its overrun was latched is not part   *)
(* of this contract: ClearFlag is unconditional, since two threads of one  *)
(* process can indeed lose an overrun that way.  OverrunAccounted of       *)
(* TrustedClock is about that.  TrustedClock implements this specification.*)
(***************************************************************************)
CONSTANTS
  Releasers,   \* threads that release
  Processes,
  HomeOf       \* the process of each thread

VARIABLES
  open,      \* the thread whose guard is open, if any
  moved,     \* the value has moved in the open guard
  latched,   \* the durable latch is closed
  flagged    \* processes with an overrun that may not be latched yet

vars == <<open, moved, latched, flagged>>

Init == open = {} /\ moved = FALSE /\ latched = FALSE /\ flagged = {}

OpenGuard(t) ==
  /\ open = {} /\ ~latched /\ HomeOf[t] \notin flagged
  /\ open' = {t} /\ moved' = FALSE
  /\ UNCHANGED <<latched, flagged>>

Move(t) ==
  /\ open = {t} /\ ~moved
  /\ moved' = TRUE
  /\ UNCHANGED <<open, latched, flagged>>

Overrun(t) ==
  /\ open = {t} /\ moved
  /\ flagged' = flagged \cup {HomeOf[t]}
  /\ UNCHANGED <<open, moved, latched>>

CloseGuard(t) ==
  /\ open = {t}
  /\ open' = {} /\ moved' = FALSE
  /\ UNCHANGED <<latched, flagged>>

CloseLatch ==
  /\ open = {} /\ flagged # {}
  /\ latched' = TRUE
  /\ UNCHANGED <<open, moved, flagged>>

ClearFlag(p) ==
  /\ flagged' = flagged \ {p}
  /\ UNCHANGED <<open, moved, latched>>

OpenLatch ==
  /\ open = {} /\ latched
  /\ latched' = FALSE
  /\ UNCHANGED <<open, moved, flagged>>

Die(p) ==
  /\ open' = {t \in open : HomeOf[t] # p}
  /\ moved' = (moved /\ open' # {})
  /\ flagged' = flagged \ {p}
  /\ UNCHANGED latched

Next ==
  \/ \E t \in Releasers : OpenGuard(t) \/ Move(t) \/ Overrun(t) \/ CloseGuard(t)
  \/ \E p \in Processes : ClearFlag(p) \/ Die(p)
  \/ CloseLatch \/ OpenLatch

Spec == Init /\ [][Next]_vars

=============================================================================
