-------------------------- MODULE ProtectedRelease --------------------------
(***************************************************************************)
(* Protected Replay and Compare of crates/pos-time/src (lib.rs, replay.rs, *)
(* compare.rs), inside the read fence of                                   *)
(* crates/pos-runtime/src/erasure_host/world_replay_read.rs.               *)
(*                                                                         *)
(* A release owns an open guard of the trusted clock, a host with its      *)
(* store interval and gates, and one registry per arm (Replay has one arm, *)
(* Compare two).  It verifies and reads each arm's Events, folds each on   *)
(* the process-wide executor, revalidates, stages the install and hands it *)
(* over.  Every `?` of the code is a failure; panics unwind.  Releases of  *)
(* different hosts run concurrently and meet in the executor, which is     *)
(* here the contract FoldService that StagedExecutor implements.           *)
(*                                                                         *)
(* Deadlines are outcomes: P1, the read budget and the handoff may refuse  *)
(* at any time.  StagedExecutor and TrustedClock say when they do.         *)
(***************************************************************************)
EXTENDS Integers, FiniteSets

CONSTANT Releases   \* threads, each with its own guard, host and registries

VARIABLES
  health, alive, owner, call, dead,   \* the executor (FoldService)
  rel,        \* the release each thread is in
  registry,   \* the projection State of each arm
  host        \* "ready" or "poisoned"

executor == <<health, alive, owner, call, dead>>
vars == <<executor, rel, registry, host>>

Fold == INSTANCE FoldService WITH Callers <- Releases

Arms == 1..2

Idle == [pc |-> "idle", arms |-> 0, guard |-> FALSE, armed |-> FALSE, p2 |-> 0, read |-> {},
         folded |-> 0, interval |-> "none", end |-> "none"]

InFence == {"gates", "verify", "read", "fold", "folding", "staging", "staged", "handoff"}

\* A registry holds "prior" State, which includes State of a subject that the
\* range to be read revokes; that subject may be "forgotten"; or the registry
\* holds the "installed" fold, from which the subject is absent.
Init ==
  /\ Fold!Init
  /\ rel = [r \in Releases |-> Idle]
  /\ registry = [r \in Releases |-> [a \in Arms |-> "prior"]]
  /\ host = [r \in Releases |-> "ready"]

----------------------------------------------------------------------------
(* The guard and its failure-path signal                                   *)

\* Dropping PendingReplayGuardV1: P2 is evaluated while it is armed, then the
\* guard itself is released.
DropPending(s) ==
  [s EXCEPT !.p2 = IF s.armed THEN @ + 1 ELSE @, !.armed = FALSE, !.guard = FALSE]

StartMutant(r) ==
  /\ rel[r].pc \in {"idle", "done"}
  /\ \E n \in Arms :
       rel' = [rel EXCEPT ![r] = [Idle EXCEPT !.pc = "admit", !.arms = n, !.guard = TRUE,
                                              !.armed = TRUE, !.p2 = rel[r].p2]]
  /\ registry' = [registry EXCEPT ![r] = [a \in Arms |-> "prior"]]
  /\ UNCHANGED <<executor, host>>

\* The caller opened a guard and asks for a Replay or a Compare.
Start(r) ==
  /\ rel[r].pc \in {"idle", "done"}
  /\ \E n \in Arms :
       rel' = [rel EXCEPT ![r] = [Idle EXCEPT !.pc = "admit", !.arms = n, !.guard = TRUE,
                                              !.armed = TRUE]]
  /\ registry' = [registry EXCEPT ![r] = [a \in Arms |-> "prior"]]
  /\ UNCHANGED <<executor, host>>

----------------------------------------------------------------------------
(* Before the fence                                                        *)

\* require_staged_release
RequireStaged(r) ==
  /\ rel[r].pc = "admit"
  /\ health # "quarantined"
  /\ rel' = [rel EXCEPT ![r].pc = "prepare"]
  /\ UNCHANGED <<executor, registry, host>>

\* read_intent and prepare_world_replay_read of every arm
PrepareReads(r) ==
  /\ rel[r].pc = "prepare"
  /\ host[r] = "ready"
  /\ rel' = [rel EXCEPT ![r].pc = "interval"]
  /\ UNCHANGED <<executor, registry, host>>

\* begin_fork_replay_read_interval: a store already inside a transaction
\* lends its interval instead of giving one away.
BeginInterval(r) ==
  /\ rel[r].pc = "interval"
  /\ host[r] = "ready"
  /\ \E i \in {"owned", "unowned"} :
       rel' = [rel EXCEPT ![r].pc = "gates", ![r].interval = i]
  /\ UNCHANGED <<executor, registry, host>>

\* A refusal before an interval is owned.  A storage failure of the interval
\* poisons the host.
FailEarly(r) ==
  /\ rel[r].pc \in {"admit", "prepare", "interval"}
  /\ rel' = [rel EXCEPT ![r] = [DropPending(rel[r]) EXCEPT !.pc = "return", !.end = "err"]]
  /\ \/ UNCHANGED host
     \/ rel[r].pc = "interval" /\ host' = [host EXCEPT ![r] = "poisoned"]
  /\ UNCHANGED <<executor, registry>>

----------------------------------------------------------------------------
(* Inside the fence                                                        *)

\* ReadFenceV1::member for every arm and ancestor
EnterGates(r) ==
  /\ rel[r].pc = "gates"
  /\ rel' = [rel EXCEPT ![r].pc = "verify"]
  /\ UNCHANGED <<executor, registry, host>>

\* observe_world_replay_use, require_prepared_world_replay and
\* validate_world_replay_forks of every arm
Verify(r) ==
  /\ rel[r].pc = "verify"
  /\ rel' = [rel EXCEPT ![r].pc = "read"]
  /\ UNCHANGED <<executor, registry, host>>

\* read_world_replay_events of the next arm; its revoked subjects are kept
\* even if a later arm fails.  Both histories share the fork's prefix.
ReadArm(r) ==
  LET a == Cardinality(rel[r].read) + 1 IN
  /\ rel[r].pc = "read"
  /\ rel' = [rel EXCEPT ![r].read = @ \cup {a},
                        ![r].pc = IF a = rel[r].arms THEN "fold" ELSE "read"]
  /\ UNCHANGED <<executor, registry, host>>

\* fold_staged: the worker is claimed ...
BeginFold(r) ==
  /\ rel[r].pc = "fold"
  /\ Fold!Begin(r)
  /\ rel' = [rel EXCEPT ![r].pc = "folding"]
  /\ UNCHANGED <<registry, host>>

EndFoldMutant(r) ==
  /\ rel[r].pc = "folding"
  /\ Fold!Deliver(r)
  /\ rel' = [rel EXCEPT ![r].folded = @ + 1, ![r].pc = "staging"]
  /\ UNCHANGED <<registry, host>>

\* ... and delivers this arm's projection; Compare then folds its other arm.
EndFold(r) ==
  /\ rel[r].pc = "folding"
  /\ Fold!Deliver(r)
  /\ rel' = [rel EXCEPT ![r].folded = @ + 1,
                        ![r].pc = IF rel[r].folded + 1 = rel[r].arms THEN "staging" ELSE "fold"]
  /\ UNCHANGED <<registry, host>>

\* The fold delivers an error, or returns without a result at its deadline.
FailFold(r) ==
  /\ rel[r].pc = "folding"
  /\ Fold!Deliver(r) \/ Fold!GiveUp(r)
  /\ rel' = [rel EXCEPT ![r] = [DropPending(rel[r]) EXCEPT !.pc = "rollback", !.end = "err"]]
  /\ UNCHANGED <<registry, host>>

\* Revalidation of every arm, P1, the diverged entities and prepare_install
\* or prepare_install_pair.
Stage(r) ==
  /\ rel[r].pc = "staging"
  /\ rel' = [rel EXCEPT ![r].pc = "staged"]
  /\ UNCHANGED <<executor, registry, host>>

FailPrepareMutant(r) ==
  /\ rel[r].pc \in {"gates", "verify", "read", "staging"}
  /\ rel' = [rel EXCEPT ![r] = [DropPending(rel[r]) EXCEPT !.pc = "rollback", !.end = "err"]]
  /\ UNCHANGED <<executor, registry, host>>

\* Any of these steps refuses, a claim of a busy or quarantined worker
\* included: the pending guard is dropped, and the interval rolled back after.
FailPrepare(r) ==
  /\ rel[r].pc \in {"gates", "verify", "read", "fold", "staging"}
  /\ rel' = [rel EXCEPT ![r] = [DropPending(rel[r]) EXCEPT !.pc = "rollback", !.end = "err"]]
  /\ UNCHANGED <<executor, registry, host>>

\* The last budget checkpoint after staging.
VerdictOk(r) ==
  /\ rel[r].pc = "staged"
  /\ rel' = [rel EXCEPT ![r].pc = "handoff"]
  /\ UNCHANGED <<executor, registry, host>>

\* finish_protected_effect_interval of an owned interval may fail, which
\* poisons the host.
SettleInterval(r) ==
  \/ UNCHANGED host
  \/ rel[r].interval = "owned" /\ host' = [host EXCEPT ![r] = "poisoned"]

\* A refused verdict rolls the interval back first; the staged install and
\* the pending guard are dropped by PendingReplayGuardV1::handoff.
VerdictFails(r) ==
  /\ rel[r].pc = "staged"
  /\ SettleInterval(r)
  /\ rel' = [rel EXCEPT ![r] = [DropPending(rel[r]) EXCEPT !.pc = "return", !.end = "err",
                                                          !.interval = "none"]]
  /\ UNCHANGED <<executor, registry>>

\* handoff_checked moves every arm at once and releases the guard.
HandoffOk(r) ==
  /\ rel[r].pc = "handoff"
  /\ registry' = [registry EXCEPT ![r] = [a \in Arms |-> IF a <= rel[r].arms THEN "installed"
                                                         ELSE @[a]]]
  /\ rel' = [rel EXCEPT ![r].pc = "rollback", ![r].end = "ok", ![r].armed = FALSE,
                        ![r].guard = FALSE]
  /\ UNCHANGED <<executor, host>>

HandoffRefusedMutant(r) ==
  /\ rel[r].pc = "handoff"
  /\ rel' = [rel EXCEPT ![r].pc = "rollback", ![r].end = "err", ![r].p2 = @ + 1,
                        ![r].guard = FALSE]
  /\ UNCHANGED <<executor, registry, host>>

\* A refused handoff has released the guard by itself; P2 was disarmed and is
\* evaluated afterwards by handoff_with_p2_on.
HandoffRefused(r) ==
  /\ rel[r].pc = "handoff"
  /\ rel' = [rel EXCEPT ![r].pc = "rollback", ![r].end = "err", ![r].p2 = @ + 1,
                        ![r].armed = FALSE, ![r].guard = FALSE]
  /\ UNCHANGED <<executor, registry, host>>

\* A panic before the handoff: unwinding drops the pending guard, and in the
\* fence rolls back and poisons the host.
Unwind(r) ==
  /\ rel[r].pc \in {"admit", "prepare", "interval", "gates", "verify", "read", "fold", "staging"}
  /\ rel' = [rel EXCEPT ![r] = [DropPending(rel[r]) EXCEPT !.pc = "done", !.end = "unwound",
                                                          !.interval = "none"]]
  /\ host' = IF rel[r].pc \in {"admit", "prepare"} THEN host
             ELSE [host EXCEPT ![r] = "poisoned"]
  /\ UNCHANGED <<executor, registry>>

----------------------------------------------------------------------------
(* After the fence                                                         *)

RollbackMutant(r) ==
  /\ rel[r].pc = "rollback"
  /\ SettleInterval(r)
  /\ rel' = [rel EXCEPT ![r].pc = "return", ![r].interval = "none",
                        ![r].end = IF host'[r] = "poisoned" THEN "err" ELSE @]
  /\ UNCHANGED <<executor, registry>>

\* ReadFenceV1::rollback.  An installed success stays a success even if the
\* cleanup fails.
Rollback(r) ==
  /\ rel[r].pc = "rollback"
  /\ SettleInterval(r)
  /\ rel' = [rel EXCEPT ![r].pc = "return", ![r].interval = "none"]
  /\ UNCHANGED <<executor, registry>>

\* forget_revoked_subjects: nothing to forget in State the subject is absent from.
Forget(state) == IF state = "prior" THEN "forgotten" ELSE state

ReturnMutant(r) ==
  /\ rel[r].pc = "return"
  /\ rel' = [rel EXCEPT ![r].pc = "done"]
  /\ registry' =
       [registry EXCEPT ![r] =
          [a \in Arms |-> IF rel[r].end = "err" /\ rel[r].read = 1..rel[r].arms THEN Forget(@[a])
                          ELSE @[a]]]
  /\ UNCHANGED <<executor, host>>

\* forget_on_failure for each arm whose range was read and verified.
Return(r) ==
  /\ rel[r].pc = "return"
  /\ rel' = [rel EXCEPT ![r].pc = "done"]
  /\ registry' =
       [registry EXCEPT ![r] =
          [a \in Arms |-> IF rel[r].end = "err" /\ a \in rel[r].read THEN Forget(@[a]) ELSE @[a]]]
  /\ UNCHANGED <<executor, host>>

----------------------------------------------------------------------------

\* What the thread of a release does once it has started, unless it panics.
Step(r) ==
  \/ RequireStaged(r) \/ PrepareReads(r) \/ BeginInterval(r) \/ FailEarly(r)
  \/ EnterGates(r) \/ Verify(r) \/ ReadArm(r)
  \/ BeginFold(r) \/ EndFold(r) \/ FailFold(r) \/ Stage(r) \/ FailPrepare(r)
  \/ VerdictOk(r) \/ VerdictFails(r) \/ HandoffOk(r) \/ HandoffRefused(r)
  \/ Rollback(r) \/ Return(r)

\* The executor's worker goes on by itself.
Work ==
  /\ Fold!Complete \/ Fold!Break \/ Fold!Contain
  /\ UNCHANGED <<rel, registry, host>>

Next == (\E r \in Releases : Start(r) \/ Step(r) \/ Unwind(r)) \/ Work

\* The scheduler runs the thread of a started release.  A fold returns by its
\* deadline whatever the worker does (StagedExecutor, FoldReturns), so giving
\* up is one of the thread's own steps; nothing is asked of the worker.
Spec == Init /\ [][Next]_vars /\ \A r \in Releases : WF_vars(Step(r))

----------------------------------------------------------------------------
(* Properties                                                              *)

ReleaseStates ==
  [pc : InFence \cup {"idle", "admit", "prepare", "interval", "rollback", "return", "done"},
   arms : {0} \cup Arms, guard : BOOLEAN, armed : BOOLEAN, p2 : 0..1, read : SUBSET Arms,
   folded : 0..2, interval : {"none", "owned", "unowned"}, end : {"none", "ok", "err", "unwound"}]

\* The shape of every variable.
TypeOK ==
  /\ health \in {"ready", "busy", "quarantined"}
  /\ alive \in BOOLEAN /\ owner \in SUBSET Releases /\ dead \in BOOLEAN
  /\ call \in [Releases -> {"out", "working", "completed", "broken"}]
  /\ rel \in [Releases -> ReleaseStates]
  /\ registry \in [Releases -> [Arms -> {"prior", "forgotten", "installed"}]]
  /\ host \in [Releases -> {"ready", "poisoned"}]

Ended(r) == rel[r].pc = "done"

\* A release that says it succeeded has installed all its arms, and one that
\* does not has installed none, whatever the cleanup of its interval did
\* (ReadFenceV1::arm, PreparedInstallPairV1::commit).
ResultMatchesRegistry ==
  \A r \in Releases : Ended(r) =>
    \A a \in 1..rel[r].arms : (rel[r].end = "ok") <=> (registry[r][a] = "installed")

\* Once an arm's revocations were read, its revoked subject is gone when the
\* release ends: absent from the installed State, forgotten after an error
\* although only the other arm failed, or behind a poisoned host after a panic.
RevokedNotVisible ==
  \A r \in Releases : Ended(r) =>
    \A a \in rel[r].read : registry[r][a] # "prior" \/ host[r] = "poisoned"

\* P2 has exactly one owner on every path: it is evaluated once when a release
\* fails or unwinds and never when it succeeds, and the guard is given back
\* (PendingReplayGuardV1, handoff_with_p2_on).
P2Once ==
  \A r \in Releases :
    /\ Ended(r) => ~rel[r].guard /\ rel[r].p2 = (IF rel[r].end = "ok" THEN 0 ELSE 1)
    /\ rel[r].armed => rel[r].guard

\* A registry changes in two ways only: all arms of a release together, each
\* folded by its own delivered job, under the open guard and inside the fence;
\* or by forgetting arms that were read, once guard and interval are given up.
RegistrySteps ==
  [][\A r \in Releases : registry'[r] # registry[r] /\ ~(Ended(r) \/ rel[r].pc = "idle") =>
       \/ /\ rel[r].guard /\ rel[r].interval # "none"
          /\ rel[r].folded = rel[r].arms /\ rel[r].read = 1..rel[r].arms
          /\ \A a \in 1..rel[r].arms : registry'[r][a] = "installed"
       \/ /\ ~rel[r].guard /\ rel[r].interval = "none"
          /\ \A a \in Arms \ rel[r].read : registry'[r][a] = registry[r][a]]_vars

\* A started release ends, and gives its guard back, although the worker may
\* hang, die or be quarantined by the other release.
ReleaseEnds == \A r \in Releases : rel[r].pc = "admit" ~> Ended(r)

----------------------------------------------------------------------------
(* The inductive invariant                                                 *)

BeforeFence == {"admit", "prepare", "interval"}
AfterFence == {"rollback", "return", "done"}

\* Until its fate is decided a release owns its guard and the armed P2, has
\* touched no registry, and holds an interval exactly inside the fence.
Undecided(r) ==
  rel[r].pc \in BeforeFence \cup InFence =>
    /\ rel[r].guard /\ rel[r].armed /\ rel[r].p2 = 0 /\ rel[r].end = "none"
    /\ rel[r].arms \in Arms
    /\ (rel[r].interval = "none") <=> (rel[r].pc \in BeforeFence)
    /\ \A a \in Arms : registry[r][a] = "prior"

\* All arms are read before the first fold, and all are folded before staging.
ArmsInOrder(r) ==
  /\ rel[r].pc \in BeforeFence \cup {"gates", "verify"} => rel[r].read = {} /\ rel[r].folded = 0
  /\ rel[r].pc = "read" =>
       rel[r].folded = 0 /\ (rel[r].read = {} \/ (rel[r].read = {1} /\ rel[r].arms = 2))
  /\ rel[r].pc \in {"fold", "folding"} =>
       rel[r].read = 1..rel[r].arms /\ rel[r].folded < rel[r].arms
  /\ rel[r].pc \in {"staging", "staged", "handoff"} =>
       rel[r].read = 1..rel[r].arms /\ rel[r].folded = rel[r].arms

\* Once it is decided the guard is gone, P2 was evaluated if it failed, and the
\* registries agree with the result.
Decided(r) ==
  rel[r].pc \in AfterFence =>
    /\ ~rel[r].guard /\ ~rel[r].armed
    /\ rel[r].arms \in Arms /\ rel[r].read \subseteq 1..rel[r].arms
    /\ rel[r].p2 = (IF rel[r].end = "ok" THEN 0 ELSE 1)
    /\ rel[r].pc # "rollback" => rel[r].interval = "none"
    /\ rel[r].pc # "done" => rel[r].end \in {"ok", "err"}
    /\ \A a \in 1..rel[r].arms : (rel[r].end = "ok") <=> (registry[r][a] = "installed")

\* What RevokedNotVisible says of one release.
Forgotten(r) ==
  rel[r].pc = "done" => \A a \in rel[r].read : registry[r][a] # "prior" \/ host[r] = "poisoned"

ReleaseOK(r) ==
  /\ rel[r].pc = "idle" => rel[r] = Idle
  /\ Undecided(r) /\ ArmsInOrder(r) /\ Decided(r) /\ Forgotten(r)

IInv == TypeOK /\ \A r \in Releases : ReleaseOK(r)

=============================================================================
