--------------------------- MODULE StagedExecutor ---------------------------
(***************************************************************************)
(* The process-global staged fold executor (ADR-113) of                    *)
(* crates/pos-runtime/src/staged_executor.rs.                              *)
(*                                                                         *)
(* Guard threads, each inside a release guard, hand a job to the one       *)
(* worker of the process and wait for its reply with a timed wait.  The    *)
(* atomic HEALTH arbitrates between them.  Every load, store and exchange  *)
(* of HEALTH and of a cancel flag is a step of its own, so a timeout, the  *)
(* worker's last instructions and a second guard thread's claim interleave *)
(* in every order.                                                         *)
(*                                                                         *)
(* Time is kept as ages that saturate just above the last instant the code *)
(* distinguishes; Tick advances all of them together.                      *)
(***************************************************************************)
EXTENDS Integers, Sequences, FiniteSets, FiniteSetsExt

CONSTANTS
  Guards,           \* threads that hold a release guard
  Jobs,             \* identities for StagedJobV1 values
  NoJob,
  FoldDeadline,     \* STAGED_FOLD_DEADLINE_V1
  HandoffDeadline,  \* STAGED_HANDOFF_DEADLINE_V1
  PrepareBound,     \* MEASURED_PREPARE_BOUND_V1
  CallbackBound,    \* the admitted callback_bound of every consumer
  PassBound,        \* STAGED_ACCOUNTING_PASS_BOUND_V1
  Callbacks         \* builds and applies of one plan

ASSUME ConstantsAssumption ==
  /\ NoJob \notin Jobs
  /\ FoldDeadline \in Nat \ {0}
  /\ HandoffDeadline \in Nat /\ FoldDeadline <= HandoffDeadline
  /\ PrepareBound \in Nat /\ CallbackBound \in Nat /\ PassBound \in Nat
  /\ Callbacks \in Nat

VARIABLES
  health,    \* HEALTH
  guard,     \* the call each guard thread is in
  job,       \* the jobs
  queue,     \* the worker's channel
  worker,    \* where the worker is in run_contained_job
  panicked   \* history: host code of some job panicked outside a callback

vars == <<health, guard, job, queue, worker, panicked>>

MaxAge == HandoffDeadline + 1
NoReply == "none"

IdleGuard == [pc |-> "idle", age |-> 0, arms |-> 0, timer |-> 0, job |-> NoJob, late |-> FALSE]

\* A job is free, claimed (HEALTH taken, not sent yet), queued, running,
\* or done: HEALTH was given back.
FreeJob == [state |-> "free", age |-> 0, cancel |-> FALSE, abandoned |-> FALSE, reply |-> NoReply]

IdleWorker == [pc |-> "idle", job |-> NoJob, left |-> 0, cb |-> 0, outcome |-> NoReply,
               late |-> FALSE]

Live == {"claimed", "queued", "running"}

Init ==
  /\ health = "ready"
  /\ guard = [g \in Guards |-> IdleGuard]
  /\ job = [j \in Jobs |-> FreeJob]
  /\ queue = <<>>
  /\ worker = IdleWorker
  /\ panicked = FALSE

\* fits_before
Fits(age, bound, deadline) == age + bound <= deadline

----------------------------------------------------------------------------
(* Guard threads                                                           *)

\* A protected release: require_staged_release, inside a guard that was
\* opened some time ago.  Replay folds one arm, Compare two.
StartRelease(g) ==
  /\ guard[g].pc = "idle"
  /\ health # "quarantined"
  /\ \E age \in 0..MaxAge, arms \in {1, 2} :
       guard' = [guard EXCEPT ![g] = [IdleGuard EXCEPT !.pc = "guarded", !.age = age,
                                                       !.arms = arms]]
  /\ UNCHANGED <<health, job, queue, worker, panicked>>

AdmitMutant(g) ==
  /\ guard[g].pc = "guarded"
  /\ guard' = [guard EXCEPT ![g].pc = "admitted", ![g].timer = FoldDeadline - guard[g].age]
  /\ UNCHANGED <<health, job, queue, worker, panicked>>

\* admit_plan: the wait that is left until the fold deadline.
Admit(g) ==
  /\ guard[g].pc = "guarded"
  /\ guard[g].age < FoldDeadline
  /\ guard' = [guard EXCEPT ![g].pc = "admitted", ![g].timer = FoldDeadline - guard[g].age]
  /\ UNCHANGED <<health, job, queue, worker, panicked>>

\* claim_worker: compare_exchange(READY, BUSY).
Claim(g) ==
  /\ guard[g].pc = "admitted"
  /\ health = "ready"
  /\ health' = "busy"
  /\ \E j \in Jobs :
       /\ job[j].state = "free"
       /\ job' = [job EXCEPT ![j] = [FreeJob EXCEPT !.state = "claimed"]]
       /\ guard' = [guard EXCEPT ![g].pc = "claimed", ![g].job = j]
  /\ UNCHANGED <<queue, worker, panicked>>

\* fold: the job is sent and the timed wait begins.
Send(g) ==
  /\ guard[g].pc = "claimed"
  /\ job' = [job EXCEPT ![guard[g].job].state = "queued", ![guard[g].job].age = guard[g].age]
  /\ queue' = Append(queue, guard[g].job)
  /\ guard' = [guard EXCEPT ![g].pc = "waiting"]
  /\ UNCHANGED <<health, worker, panicked>>

\* recv_timeout returns the worker's reply.
Receive(g) ==
  LET j == guard[g].job IN
  /\ guard[g].pc = "waiting"
  /\ job[j].reply \in {"ok", "late", "err"}
  /\ job' = [job EXCEPT ![j] = FreeJob]
  /\ guard' = [guard EXCEPT ![g] =
                 IF job[j].reply = "err" THEN IdleGuard
                 ELSE [guard[g] EXCEPT !.pc = "folded", !.arms = guard[g].arms - 1, !.timer = 0,
                                       !.job = NoJob, !.late = (job[j].reply = "late")]]
  /\ UNCHANGED <<health, queue, worker, panicked>>

TimeOutMutant(g) ==
  /\ guard[g].pc = "waiting"
  /\ job[guard[g].job].reply = "gone"
  /\ job' = [job EXCEPT ![guard[g].job].cancel = TRUE]
  /\ guard' = [guard EXCEPT ![g].pc = "abandoning"]
  /\ UNCHANGED <<health, queue, worker, panicked>>

\* recv_timeout fails, at the deadline or because the sender is gone: the
\* cancel flag is stored first.
TimeOut(g) ==
  LET j == guard[g].job IN
  /\ guard[g].pc = "waiting"
  /\ \/ guard[g].timer = 0 /\ job[j].reply = NoReply
     \/ job[j].reply = "gone"
  /\ job' = [job EXCEPT ![j].cancel = TRUE]
  /\ guard' = [guard EXCEPT ![g].pc = "abandoning"]
  /\ UNCHANGED <<health, queue, worker, panicked>>

BlindStoreMutant == "quarantined"

NoExchangeMutant == health

\* compare_exchange(BUSY, QUARANTINED).
HealthAfterTimeout == IF health = "busy" THEN "quarantined" ELSE health

\* The exchange that follows the timeout.  The fold then returns and its guard
\* is released.
Quarantine(g) ==
  LET j == guard[g].job IN
  /\ guard[g].pc = "abandoning"
  /\ health' = HealthAfterTimeout
  /\ job' = [job EXCEPT ![j] = IF job[j].reply = NoReply /\ job[j].state # "free"
                               THEN [@ EXCEPT !.abandoned = TRUE] ELSE FreeJob]
  /\ guard' = [guard EXCEPT ![g] = IdleGuard]
  /\ UNCHANGED <<queue, worker, panicked>>

\* The second arm of a Compare folds in the same guard.
NextArm(g) ==
  /\ guard[g].pc = "folded"
  /\ guard[g].arms > 0
  /\ guard' = [guard EXCEPT ![g].pc = "guarded"]
  /\ UNCHANGED <<health, job, queue, worker, panicked>>

\* check_handoff_reserve, then the trusted-clock handoff.
HandOff(g) ==
  /\ guard[g].pc = "folded"
  /\ guard[g].arms = 0
  /\ Fits(guard[g].age, PrepareBound, HandoffDeadline)
  /\ guard' = [guard EXCEPT ![g].pc = "handingOff"]
  /\ UNCHANGED <<health, job, queue, worker, panicked>>

\* The handoff ends, or a failed check tears the release down.  A thread
\* that claimed the worker or waits for it never gives up this way.
EndRelease(g) ==
  /\ guard[g].pc \in {"guarded", "admitted", "folded", "handingOff"}
  /\ guard' = [guard EXCEPT ![g] = IdleGuard]
  /\ UNCHANGED <<health, job, queue, worker, panicked>>

----------------------------------------------------------------------------
(* The worker                                                              *)

cur == worker.job

TakeJob ==
  /\ worker.pc = "idle"
  /\ queue # <<>>
  /\ worker' = [IdleWorker EXCEPT !.pc = "gate", !.job = Head(queue), !.left = Callbacks]
  /\ queue' = Tail(queue)
  /\ job' = [job EXCEPT ![Head(queue)].state = "running"]
  /\ UNCHANGED <<health, guard, panicked>>

StartCallbackMutant ==
  /\ worker.pc = "gate"
  /\ worker.left > 0
  /\ ~job[cur].cancel
  /\ worker' = [worker EXCEPT !.pc = "callback", !.cb = 0]
  /\ UNCHANGED <<health, guard, job, queue, panicked>>

\* WorkerGateV1::before passes: the next callback starts.
StartCallback ==
  /\ worker.pc = "gate"
  /\ worker.left > 0
  /\ ~job[cur].cancel
  /\ Fits(job[cur].age, CallbackBound, FoldDeadline)
  /\ worker' = [worker EXCEPT !.pc = "callback", !.cb = 0]
  /\ UNCHANGED <<health, guard, job, queue, panicked>>

\* The running callback has neither passed its bound nor the fold deadline.
InTime == worker.cb <= CallbackBound /\ job[cur].age <= FoldDeadline

\* The callback returns within its bound (WorkerGateV1::after).  The deadline is
\* not looked at again; late is history, for DeliveredInTime.
EndCallback ==
  /\ worker.pc = "callback"
  /\ worker.cb <= CallbackBound
  /\ worker' = [worker EXCEPT !.pc = "gate", !.left = @ - 1, !.late = @ \/ ~InTime]
  /\ UNCHANGED <<health, guard, job, queue, panicked>>

\* A callback panics, exceeds its bound or breaks a staged limit; or, between
\* callbacks, the provider refuses the recorded consumers, an exact pass finds
\* a limit broken, or the reducers panic when they are dropped.
FailFold ==
  /\ worker.pc \in {"gate", "callback"}
  /\ worker' = [worker EXCEPT !.pc = "folded", !.outcome = "err"]
  /\ UNCHANGED <<health, guard, job, queue, panicked>>

\* The gate refuses the next callback, or a pass that is due.
RefuseGate ==
  /\ worker.pc = "gate"
  /\ \/ job[cur].cancel
     \/ worker.left > 0 /\ ~Fits(job[cur].age, CallbackBound, FoldDeadline)
     \/ ~Fits(job[cur].age, PassBound, FoldDeadline)
  /\ worker' = [worker EXCEPT !.pc = "folded", !.outcome = "err"]
  /\ UNCHANGED <<health, guard, job, queue, panicked>>

\* The last exact pass: the staged projection is complete.
FinishFold ==
  /\ worker.pc = "gate"
  /\ worker.left = 0
  /\ ~job[cur].cancel
  /\ Fits(job[cur].age, PassBound, FoldDeadline)
  /\ worker' = [worker EXCEPT !.pc = "folded",
                              !.outcome = IF worker.late THEN "late" ELSE "ok"]
  /\ UNCHANGED <<health, guard, job, queue, panicked>>

\* run_job looks at the cancel flag once the fold has ended.
CheckCancel ==
  /\ worker.pc = "folded"
  /\ worker' = [worker EXCEPT !.pc = IF job[cur].cancel THEN "discard" ELSE "publish"]
  /\ UNCHANGED <<health, guard, job, queue, panicked>>

\* An abandoned job whose guard thread has returned leaves nothing behind.
Ended(j, reply) ==
  IF job[j].abandoned THEN FreeJob ELSE [job[j] EXCEPT !.state = "done", !.reply = reply]

DiscardMutant ==
  /\ worker.pc = "discard"
  /\ job' = [job EXCEPT ![cur] = Ended(cur, "gone")]
  /\ worker' = IdleWorker
  /\ UNCHANGED <<health, guard, queue, panicked>>

\* Cancelled: the result is dropped, HEALTH becomes READY, the sender drops.
Discard ==
  /\ worker.pc = "discard"
  /\ health' = "ready"
  /\ job' = [job EXCEPT ![cur] = Ended(cur, "gone")]
  /\ worker' = IdleWorker
  /\ UNCHANGED <<guard, queue, panicked>>

\* Not cancelled: HEALTH becomes READY before the reply is sent.
Publish ==
  /\ worker.pc = "publish"
  /\ health' = "ready"
  /\ job' = [job EXCEPT ![cur].state = "done"]
  /\ worker' = [worker EXCEPT !.pc = "reply"]
  /\ UNCHANGED <<guard, queue, panicked>>

Reply ==
  /\ worker.pc = "reply"
  /\ job' = [job EXCEPT ![cur] = Ended(cur, worker.outcome)]
  /\ worker' = IdleWorker
  /\ UNCHANGED <<health, guard, queue, panicked>>

\* Host code outside every callback panics: unwinding drops the sender.
HostPanic ==
  /\ worker.pc = "gate"
  /\ job' = [job EXCEPT ![cur] = Ended(cur, "gone")]
  /\ worker' = [IdleWorker EXCEPT !.pc = "panicked"]
  /\ UNCHANGED <<health, guard, queue, panicked>>

ContainPanicMutant ==
  /\ worker.pc = "panicked"
  /\ health' = "ready"
  /\ panicked' = TRUE
  /\ worker' = IdleWorker
  /\ UNCHANGED <<guard, job, queue>>

\* run_contained_job quarantines for the rest of the process.
ContainPanic ==
  /\ worker.pc = "panicked"
  /\ health' = "quarantined"
  /\ panicked' = TRUE
  /\ worker' = IdleWorker
  /\ UNCHANGED <<guard, job, queue>>

\* Time passes for everyone.
Older(age) == Min({age + 1, MaxAge})

Tick ==
  /\ guard' = [g \in Guards |-> IF guard[g].pc = "idle" THEN guard[g] ELSE
                 [guard[g] EXCEPT !.age = Older(@),
                    !.timer = IF guard[g].pc = "waiting" THEN Max({@ - 1, 0}) ELSE @]]
  /\ job' = [j \in Jobs |-> IF job[j].state \in {"queued", "running"}
                            THEN [job[j] EXCEPT !.age = Older(@)] ELSE job[j]]
  /\ worker' = [worker EXCEPT !.cb = IF worker.pc = "callback"
                                     THEN Min({@ + 1, CallbackBound + 1}) ELSE @]
  /\ UNCHANGED <<health, queue, panicked>>

GuardStep(g) ==
  \/ StartRelease(g) \/ Admit(g) \/ Claim(g) \/ Send(g) \/ Receive(g)
  \/ TimeOut(g) \/ Quarantine(g) \/ NextArm(g) \/ HandOff(g) \/ EndRelease(g)

WorkerStep ==
  \/ TakeJob \/ StartCallback \/ EndCallback \/ FailFold \/ RefuseGate \/ FinishFold
  \/ CheckCancel \/ Discard \/ Publish \/ Reply \/ HostPanic \/ ContainPanic

Next == (\E g \in Guards : GuardStep(g)) \/ WorkerStep \/ Tick

Spec == Init /\ [][Next]_vars

\* Time passes and a guard thread inside fold keeps running: the scheduler
\* owes it that.  Starting releases, and everything the worker does,
\* callbacks above all, may stop for ever.
FoldStep(g) == Send(g) \/ Receive(g) \/ TimeOut(g) \/ Quarantine(g)

GuardSpec == Spec /\ WF_vars(Tick) /\ \A g \in Guards : WF_vars(FoldStep(g))

\* Callbacks return as well, so that the worker keeps running.
WorkerFairness == WF_vars(WorkerStep)

----------------------------------------------------------------------------
(* Properties                                                              *)

Ages == 0..MaxAge
Outcomes == {NoReply, "ok", "late", "err"}

GuardStates ==
  [pc : {"idle", "guarded", "admitted", "claimed", "waiting", "abandoning", "folded",
         "handingOff"},
   age : Ages, arms : 0..2, timer : 0..FoldDeadline, job : Jobs \cup {NoJob}, late : BOOLEAN]

JobStates ==
  [state : {"free", "claimed", "queued", "running", "done"}, age : Ages, cancel : BOOLEAN,
   abandoned : BOOLEAN, reply : Outcomes \cup {"gone"}]

WorkerStates ==
  [pc : {"idle", "gate", "callback", "folded", "discard", "publish", "reply", "panicked"},
   job : Jobs \cup {NoJob}, left : 0..Callbacks, cb : 0..(CallbackBound + 1),
   outcome : Outcomes, late : BOOLEAN]

\* The shape of every variable.
TypeOK ==
  /\ health \in {"ready", "busy", "quarantined"}
  /\ guard \in [Guards -> GuardStates]
  /\ job \in [Jobs -> JobStates]
  /\ queue \in Seq(Jobs)
  /\ worker \in WorkerStates
  /\ panicked \in BOOLEAN

InFold == {"claimed", "waiting", "abandoning"}

\* HEALTH never loses or doubles a job: at most one is claimed, queued or
\* running, none while HEALTH is READY, and one whenever it is not, unless
\* host code panicked.  No two guard threads wait for the same job.
SingleClaim ==
  /\ \A i, j \in Jobs : job[i].state \in Live /\ job[j].state \in Live => i = j
  /\ health = "ready" => \A j \in Jobs : job[j].state \notin Live
  /\ health # "ready" => \/ \E j \in Jobs : job[j].state \in Live
                         \/ panicked
                         \/ worker.pc = "panicked"
  /\ \A g, h \in Guards :
       guard[g].pc \in InFold /\ guard[h].pc \in InFold /\ guard[g].job = guard[h].job => g = h

\* A job its guard thread gave up on runs, or waits to run, only while the
\* executor is quarantined, whichever way the timeout raced the worker's last
\* steps and another thread's claim (the exchange in fold).
AbandonedMeansQuarantined ==
  \A j \in Jobs : job[j].abandoned /\ job[j].state \in Live => health = "quarantined"

\* After host code panicked the executor is quarantined for the rest of the
\* process (run_contained_job).
HostPanicPermanent == panicked => health = "quarantined"

GuardsInTime == \A g \in Guards : ~guard[g].late

\* A callback that keeps its bound never runs past the fold deadline, although
\* it is only looked at before it starts and after it ends; and a fold that
\* reaches the handoff had all of its callbacks return by then (WorkerGateV1).
DeliveredInTime ==
  /\ GuardsInTime
  /\ worker.pc = "callback" /\ worker.cb <= CallbackBound => InTime

\* A guard thread leaves fold although callbacks may never return.
FoldReturns == \A g \in Guards : guard[g].pc \in InFold ~> guard[g].pc \notin InFold

\* A quarantine ends if callbacks return, unless host code panicked.
QuarantineEnds == WorkerFairness => (health = "quarantined" ~> (health = "ready" \/ panicked))

----------------------------------------------------------------------------
(* Refinement                                                              *)

\* The guard threads in fold whose job is alive.
Waiters == {g \in Guards : guard[g].pc \in InFold /\ job[guard[g].job].state \in Live}

\* A fold whose job ended without a sender never delivers a result.
Call(g) ==
  IF guard[g].pc \notin InFold THEN "out"
  ELSE IF g \in Waiters THEN "working"
  ELSE IF job[guard[g].job].reply = "gone" THEN "broken" ELSE "completed"

Calls == [g \in Guards |-> Call(g)]

\* A panicking worker is alive until the panic is contained.
JobAlive == worker.pc = "panicked" \/ \E j \in Jobs : job[j].state \in Live

Service == INSTANCE FoldService WITH
  Callers <- Guards, alive <- JobAlive, owner <- Waiters, call <- Calls, dead <- panicked

\* The executor implements the service its callers rely on: every step of a
\* guard thread and of the worker is a step of the contract or invisible to it.
ImplementsFoldService == Service!Spec

----------------------------------------------------------------------------
(* The inductive invariant                                                 *)

Busy == {"gate", "callback", "folded", "discard", "publish"}

\* A release that has an arm to fold counts it, and so does the worker with
\* the callback it runs.
ArmsLeft ==
  \A g \in Guards : guard[g].pc \in {"guarded", "admitted"} \cup InFold => guard[g].arms > 0
CallbackLeft == worker.pc = "callback" => worker.left > 0

\* A guard thread in fold owns a job that it has not given up.
GuardOwnsJob ==
  \A g \in Guards : guard[g].pc \in InFold =>
    /\ guard[g].job \in Jobs
    /\ ~job[guard[g].job].abandoned
    /\ guard[g].pc = "claimed" => job[guard[g].job].state = "claimed"
    /\ guard[g].pc # "claimed" => job[guard[g].job].state \in {"queued", "running", "done"}

\* The running job is the worker's, the queued one is in the queue, and only
\* a job that has ended carries a reply.
JobPlaces ==
  /\ worker.pc \in Busy => cur \in Jobs /\ job[cur].state = "running"
  /\ worker.pc = "reply" => cur \in Jobs /\ job[cur].state = "done" /\ job[cur].reply = NoReply
  /\ queue = <<>> \/ \E j \in Jobs : queue = <<j>> /\ job[j].state = "queued"
  /\ \A j \in Jobs :
       /\ job[j].state = "running" => worker.pc \in Busy /\ cur = j
       /\ job[j].state = "queued" => queue = <<j>>
       /\ job[j].state \in Live => job[j].reply = NoReply

\* Once host code has panicked no job is left and HEALTH is not READY.
PanicEnds ==
  panicked \/ worker.pc = "panicked" =>
    health # "ready" /\ \A j \in Jobs : job[j].state \notin Live

\* No late outcome exists anywhere, and a running callback started early
\* enough to end in time if it keeps its bound.
NothingLate ==
  /\ ~worker.late /\ worker.outcome # "late"
  /\ \A j \in Jobs : job[j].reply # "late"
  /\ worker.pc = "callback" /\ worker.cb <= CallbackBound =>
       job[cur].age + CallbackBound <= FoldDeadline + worker.cb

IInv ==
  /\ TypeOK /\ SingleClaim /\ AbandonedMeansQuarantined /\ HostPanicPermanent
  /\ GuardsInTime /\ ArmsLeft /\ CallbackLeft
  /\ GuardOwnsJob /\ JobPlaces /\ PanicEnds /\ NothingLate

=============================================================================
