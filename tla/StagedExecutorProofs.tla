------------------------ MODULE StagedExecutorProofs ------------------------
(***************************************************************************)
(* Proofs about the staged fold executor, for any number of guard threads  *)
(* and jobs and any deadlines.                                             *)
(***************************************************************************)
EXTENDS StagedExecutor, TLAPS

\* Max of FiniteSetsExt on a two-element set: the wait that Tick counts down.
LEMMA MaxOfTwo ==
  ASSUME NEW a \in Int, NEW b \in Int
  PROVE  Max({a, b}) = IF a >= b THEN a ELSE b
BY DEF Max

\* Min of FiniteSetsExt on a two-element set: the ages that Tick saturates.
LEMMA MinOfTwo ==
  ASSUME NEW a \in Int, NEW b \in Int
  PROVE  Min({a, b}) = IF a <= b THEN a ELSE b
BY DEF Min

\* An age stays within its saturated range and grows by at most one.
LEMMA OlderType ==
  ASSUME NEW a \in Ages
  PROVE  Older(a) \in Ages /\ Older(a) <= a + 1
BY MinOfTwo, ConstantsAssumption DEF Older, Ages, MaxAge

\* The initial records have the type of their variable.
LEMMA InitialRecords ==
  /\ 0 \in Ages /\ 0 \in 0..FoldDeadline /\ FoldDeadline \in Nat
  /\ IdleGuard \in GuardStates
  /\ FreeJob \in JobStates
  /\ IdleWorker \in WorkerStates
<1>1. 0 \in Ages /\ 0 \in 0..FoldDeadline /\ FoldDeadline \in Nat
  BY ConstantsAssumption DEF Ages, MaxAge
<1>2. IdleGuard \in GuardStates
  BY <1>1 DEF IdleGuard, GuardStates
<1>3. FreeJob \in JobStates
  BY <1>1 DEF FreeJob, JobStates, NoReply, Outcomes
<1>4. IdleWorker \in WorkerStates
  BY <1>1, ConstantsAssumption DEF IdleWorker, WorkerStates, NoReply, Outcomes
<1> QED BY <1>1, <1>2, <1>3, <1>4

\* The executor starts READY with well-typed guard threads, jobs and worker.
LEMMA TypeInit == Init => TypeOK
<1> SUFFICES ASSUME Init PROVE TypeOK OBVIOUS
<1> USE InitialRecords DEF Init
<1>1. health \in {"ready", "busy", "quarantined"} OBVIOUS
<1>2. guard \in [Guards -> GuardStates] OBVIOUS
<1>3. job \in [Jobs -> JobStates] OBVIOUS
<1>4. queue \in Seq(Jobs) OBVIOUS
<1>5. worker \in WorkerStates OBVIOUS
<1>6. panicked \in BOOLEAN OBVIOUS
<1> QED BY <1>1, <1>2, <1>3, <1>4, <1>5, <1>6 DEF TypeOK

\* The guard record that require_staged_release leaves has its type.
LEMMA OpenedGuard ==
  ASSUME NEW age \in Ages, NEW arms \in {1, 2}
  PROVE  [IdleGuard EXCEPT !.pc = "guarded", !.age = age, !.arms = arms] \in GuardStates
<1>1. arms \in 0..2 OBVIOUS
<1>2. \A r \in GuardStates :
        [r EXCEPT !.pc = "guarded", !.age = age, !.arms = arms] \in GuardStates
  BY <1>1 DEF GuardStates
<1> QED BY <1>2, InitialRecords

\* Every step of a guard thread (fold, the handoff reserve) keeps the types.
LEMMA TypeGuardStep ==
  ASSUME TypeOK, ArmsLeft, GuardOwnsJob, NEW g \in Guards, GuardStep(g)
  PROVE  TypeOK'
<1> USE ConstantsAssumption, InitialRecords
<1>1. guard \in [Guards -> GuardStates] BY DEF TypeOK
<1>2. job \in [Jobs -> JobStates] BY DEF TypeOK
<1>3. queue \in Seq(Jobs) BY DEF TypeOK
<1>4. worker \in WorkerStates BY DEF TypeOK
<1>5. health \in {"ready", "busy", "quarantined"} BY DEF TypeOK
<1>6. guard[g].pc \in InFold => guard[g].job \in Jobs BY DEF GuardOwnsJob
<1>7. guard[g].pc = "waiting" => guard[g].arms > 0 BY DEF ArmsLeft, InFold
<1>8. CASE StartRelease(g)
  <2> PICK age \in 0..MaxAge, arms \in {1, 2} :
         guard' = [guard EXCEPT ![g] = [IdleGuard EXCEPT !.pc = "guarded", !.age = age,
                                                         !.arms = arms]]
    BY <1>8 DEF StartRelease
  <2>a. [IdleGuard EXCEPT !.pc = "guarded", !.age = age, !.arms = arms] \in GuardStates
    BY OpenedGuard DEF Ages
  <2>1. guard' \in [Guards -> GuardStates]
    BY <1>1, <2>a
  <2> QED BY <1>8, <2>1 DEF StartRelease, TypeOK
<1>9. CASE Admit(g)
  <2>1. guard' \in [Guards -> GuardStates]
    <3>1. FoldDeadline - guard[g].age \in 0..FoldDeadline
      BY <1>9, <1>1 DEF Admit, GuardStates
    <3> QED BY <1>9, <1>1, <3>1 DEF Admit, GuardStates
  <2> QED BY <1>9, <2>1 DEF Admit, TypeOK
<1>10. CASE Claim(g)
  <2>1. health' \in {"ready", "busy", "quarantined"}
    BY <1>10 DEF Claim
  <2> PICK j \in Jobs :
         /\ job' = [job EXCEPT ![j] = [FreeJob EXCEPT !.state = "claimed"]]
         /\ guard' = [guard EXCEPT ![g].pc = "claimed", ![g].job = j]
    BY <1>10 DEF Claim
  <2>2. guard' \in [Guards -> GuardStates]
    BY <1>1 DEF GuardStates
  <2>a. [FreeJob EXCEPT !.state = "claimed"] \in JobStates
    BY DEF JobStates, FreeJob
  <2>3. job' \in [Jobs -> JobStates]
    BY <1>2, <2>a
  <2> QED BY <1>10, <2>2, <2>3 DEF Claim, TypeOK
<1>11. CASE Send(g)
  <2>1. guard' \in [Guards -> GuardStates]
    BY <1>11, <1>1 DEF Send, GuardStates
  <2>2. job' \in [Jobs -> JobStates]
    <3>1. guard[g].job \in Jobs /\ guard[g].age \in Ages
      BY <1>11, <1>1, <1>6 DEF Send, InFold, GuardStates
    <3> QED BY <1>11, <1>2, <3>1 DEF Send, JobStates
  <2>3. queue' \in Seq(Jobs)
    BY <1>11, <1>3, <1>6 DEF Send, InFold
  <2> QED BY <1>11, <2>1, <2>2 DEF Send, TypeOK
<1>12. CASE Receive(g)
  <2>1. guard' \in [Guards -> GuardStates]
    <3>1. guard[g].arms - 1 \in 0..2
      BY <1>12, <1>1, <1>7 DEF Receive, GuardStates
    <3>2. \A b \in BOOLEAN :
            [guard[g] EXCEPT !.pc = "folded", !.arms = guard[g].arms - 1, !.timer = 0, !.job = NoJob,
                             !.late = b] \in GuardStates
      BY <1>1, <3>1 DEF GuardStates
    <3>3. CASE job[guard[g].job].reply = "err"
      BY <1>12, <1>1, <3>3 DEF Receive
    <3>4. CASE job[guard[g].job].reply # "err"
      <4>1. guard' = [guard EXCEPT ![g] =
                        [guard[g] EXCEPT !.pc = "folded", !.arms = guard[g].arms - 1, !.timer = 0,
                           !.job = NoJob, !.late = (job[guard[g].job].reply = "late")]]
        BY <1>12, <3>4 DEF Receive
      <4>2. (job[guard[g].job].reply = "late") \in BOOLEAN OBVIOUS
      <4> QED BY <1>1, <3>2, <4>1, <4>2
    <3> QED BY <3>3, <3>4
  <2>2. job' \in [Jobs -> JobStates]
    BY <1>12, <1>2 DEF Receive
  <2> QED BY <1>12, <2>1 DEF Receive, TypeOK
<1>13. CASE TimeOut(g)
  <2>1. guard' \in [Guards -> GuardStates]
    BY <1>13, <1>1 DEF TimeOut, GuardStates
  <2>2. job' \in [Jobs -> JobStates]
    BY <1>13, <1>1, <1>2 DEF TimeOut, JobStates
  <2> QED BY <1>13, <2>1, <2>2 DEF TimeOut, TypeOK
<1>14. CASE Quarantine(g)
  <2>1. health' \in {"ready", "busy", "quarantined"}
    BY <1>14, <1>5 DEF Quarantine, HealthAfterTimeout
  <2>2. guard' \in [Guards -> GuardStates]
    BY <1>14, <1>1 DEF Quarantine, HealthAfterTimeout
  <2>3. job' \in [Jobs -> JobStates]
    BY <1>14, <1>1, <1>2 DEF Quarantine, HealthAfterTimeout, JobStates
  <2> QED BY <1>14, <2>3 DEF Quarantine, HealthAfterTimeout, TypeOK
<1>15. CASE NextArm(g)
  <2>1. guard' \in [Guards -> GuardStates]
    BY <1>15, <1>1 DEF NextArm, GuardStates
  <2> QED BY <1>15, <2>1 DEF NextArm, TypeOK
<1>16. CASE HandOff(g)
  <2>1. guard' \in [Guards -> GuardStates]
    BY <1>16, <1>1 DEF HandOff, GuardStates
  <2> QED BY <1>16, <2>1 DEF HandOff, TypeOK
<1>17. CASE EndRelease(g)
  <2>1. guard' \in [Guards -> GuardStates]
    BY <1>17, <1>1 DEF EndRelease
  <2> QED BY <1>17 DEF EndRelease, TypeOK
<1> QED BY <1>8, <1>9, <1>10, <1>11, <1>12, <1>13, <1>14, <1>15, <1>16, <1>17 DEF GuardStep

\* Every step of the worker (run_contained_job, run_job) keeps the types.
LEMMA TypeWorkerStep ==
  ASSUME TypeOK, CallbackLeft, JobPlaces, WorkerStep
  PROVE  TypeOK'
<1> USE ConstantsAssumption, InitialRecords
<1>1. 0 \in 0..(CallbackBound + 1) /\ Callbacks \in 0..Callbacks OBVIOUS
<1>2. job \in [Jobs -> JobStates] BY DEF TypeOK
<1>3. queue \in Seq(Jobs) BY DEF TypeOK
<1>4. worker \in WorkerStates BY DEF TypeOK
<1>5. health \in {"ready", "busy", "quarantined"} BY DEF TypeOK
<1>6. worker.pc \in Busy \cup {"reply"} => cur \in Jobs BY DEF JobPlaces, Busy
<1>7. \A j \in Jobs, r \in Outcomes \cup {"gone"} : Ended(j, r) \in JobStates
  BY <1>2 DEF Ended, JobStates
<1>8. CASE TakeJob
  <2>1. worker' \in WorkerStates
    <3>1. \A r \in WorkerStates, j \in Jobs :
            [r EXCEPT !.pc = "gate", !.job = j, !.left = Callbacks] \in WorkerStates
      BY <1>1 DEF WorkerStates
    <3>2. Head(queue) \in Jobs
      BY <1>8, <1>3 DEF TakeJob
    <3> QED BY <1>8, <3>1, <3>2 DEF TakeJob
  <2>2. queue' \in Seq(Jobs)
    BY <1>8, <1>3 DEF TakeJob
  <2>3. job' \in [Jobs -> JobStates]
    BY <1>8, <1>2 DEF TakeJob, JobStates
  <2> QED BY <1>8, <2>1, <2>3 DEF TakeJob, TypeOK
<1>9. CASE StartCallback
  <2>1. worker' \in WorkerStates
    BY <1>9, <1>1, <1>4 DEF StartCallback, WorkerStates
  <2> QED BY <1>9, <2>1 DEF StartCallback, TypeOK
<1>10. CASE EndCallback
  <2>1. worker' \in WorkerStates
    <3>1. worker.left - 1 \in 0..Callbacks
      BY <1>10, <1>4 DEF EndCallback, CallbackLeft, WorkerStates
    <3> QED BY <1>10, <1>4, <3>1 DEF EndCallback, WorkerStates
  <2> QED BY <1>10, <2>1 DEF EndCallback, TypeOK
<1>11. CASE FailFold
  <2>1. worker' \in WorkerStates
    BY <1>11, <1>4 DEF FailFold, WorkerStates, Outcomes
  <2> QED BY <1>11, <2>1 DEF FailFold, TypeOK
<1>12. CASE RefuseGate
  <2>1. worker' \in WorkerStates
    BY <1>12, <1>4 DEF RefuseGate, WorkerStates, Outcomes
  <2> QED BY <1>12, <2>1 DEF RefuseGate, TypeOK
<1>13. CASE FinishFold
  <2>1. worker' \in WorkerStates
    BY <1>13, <1>4 DEF FinishFold, WorkerStates, Outcomes
  <2> QED BY <1>13, <2>1 DEF FinishFold, TypeOK
<1>14. CASE CheckCancel
  <2>1. worker' \in WorkerStates
    BY <1>14, <1>4 DEF CheckCancel, WorkerStates
  <2> QED BY <1>14, <2>1 DEF CheckCancel, TypeOK
<1>15. CASE Discard
  <2>1. health' \in {"ready", "busy", "quarantined"}
    BY <1>15 DEF Discard
  <2>2. job' \in [Jobs -> JobStates]
    BY <1>15, <1>2, <1>6, <1>7 DEF Discard, JobStates
  <2>3. worker' \in WorkerStates
    BY <1>15 DEF Discard
  <2> QED BY <1>15, <2>2 DEF Discard, TypeOK
<1>16. CASE Publish
  <2>1. health' \in {"ready", "busy", "quarantined"}
    BY <1>16 DEF Publish
  <2>2. job' \in [Jobs -> JobStates]
    BY <1>16, <1>2, <1>6, <1>7 DEF Publish, JobStates
  <2>3. worker' \in WorkerStates
    BY <1>16, <1>4 DEF Publish, WorkerStates
  <2> QED BY <1>16, <2>2, <2>3 DEF Publish, TypeOK
<1>17. CASE Reply
  <2>1. job' \in [Jobs -> JobStates]
    <3>1. worker.outcome \in Outcomes
      BY <1>4 DEF WorkerStates
    <3> QED BY <1>17, <1>2, <1>7, <3>1 DEF Reply
  <2>2. worker' \in WorkerStates
    BY <1>17 DEF Reply
  <2> QED BY <1>17, <2>1 DEF Reply, TypeOK
<1>18. CASE HostPanic
  <2>1. job' \in [Jobs -> JobStates]
    BY <1>18, <1>2, <1>6, <1>7 DEF HostPanic, JobStates
  <2>2. worker' \in WorkerStates
    BY <1>18 DEF HostPanic, WorkerStates
  <2> QED BY <1>18, <2>1, <2>2 DEF HostPanic, TypeOK
<1>19. CASE ContainPanic
  <2>1. health' \in {"ready", "busy", "quarantined"}
    BY <1>19 DEF ContainPanic
  <2>2. panicked' \in BOOLEAN
    BY <1>19 DEF ContainPanic
  <2>3. worker' \in WorkerStates
    BY <1>19 DEF ContainPanic
  <2> QED BY <1>19 DEF ContainPanic, TypeOK
<1> QED BY <1>8, <1>9, <1>10, <1>11, <1>12, <1>13, <1>14, <1>15, <1>16, <1>17, <1>18, <1>19 DEF
           WorkerStep

\* Every step of a guard thread keeps the inductive invariant.
LEMMA GuardStepKeeps ==
  ASSUME IInv, NEW g \in Guards, GuardStep(g)
  PROVE  IInv'
<1> USE ConstantsAssumption DEF Live, InFold, Busy, cur, NoReply
<1>1. guard \in [Guards -> GuardStates] BY DEF IInv, TypeOK
<1>2. job \in [Jobs -> JobStates] BY DEF IInv, TypeOK
<1>3. worker \in WorkerStates BY DEF IInv, TypeOK
<1>4. health \in {"ready", "busy", "quarantined"} BY DEF IInv, TypeOK
<1>5. TypeOK' BY TypeGuardStep DEF IInv
<1>6. CASE StartRelease(g)
  <2>1. ArmsLeft' /\ GuardsInTime' /\ GuardOwnsJob' /\ SingleClaim'
    BY <1>6 DEF StartRelease, IInv, ArmsLeft, GuardsInTime, GuardOwnsJob, SingleClaim,
       IdleGuard
  <2>2. /\ AbandonedMeansQuarantined' /\ HostPanicPermanent' /\ CallbackLeft'
        /\ JobPlaces' /\ PanicEnds' /\ NothingLate'
    BY <1>6 DEF StartRelease, IInv, AbandonedMeansQuarantined, HostPanicPermanent,
       CallbackLeft, JobPlaces, PanicEnds, NothingLate
  <2> QED BY <1>5, <2>1, <2>2 DEF IInv
<1>7. CASE Admit(g)
  <2>1. ArmsLeft' /\ GuardsInTime' /\ GuardOwnsJob' /\ SingleClaim'
    BY <1>7, <1>1 DEF Admit, IInv, ArmsLeft, GuardsInTime, GuardOwnsJob, SingleClaim
  <2>2. /\ AbandonedMeansQuarantined' /\ HostPanicPermanent' /\ CallbackLeft'
        /\ JobPlaces' /\ PanicEnds' /\ NothingLate'
    BY <1>7 DEF Admit, IInv, AbandonedMeansQuarantined, HostPanicPermanent, CallbackLeft,
       JobPlaces, PanicEnds, NothingLate
  <2> QED BY <1>5, <2>1, <2>2 DEF IInv
<1>8. CASE Claim(g)
  <2>1. ArmsLeft' /\ CallbackLeft' /\ GuardsInTime'
    BY <1>8, <1>1 DEF Claim, IInv, ArmsLeft, CallbackLeft, GuardsInTime
  <2>2. GuardOwnsJob'
    BY <1>8, <1>1, <1>2 DEF Claim, IInv, GuardOwnsJob, FreeJob
  <2>3. JobPlaces'
    BY <1>8 DEF Claim, IInv, JobPlaces, FreeJob
  <2>4. SingleClaim'
    BY <1>8, <1>1, <1>2 DEF Claim, IInv, SingleClaim, GuardOwnsJob
  <2>5. AbandonedMeansQuarantined' /\ HostPanicPermanent' /\ PanicEnds'
    BY <1>8 DEF Claim, IInv, AbandonedMeansQuarantined, HostPanicPermanent, PanicEnds, FreeJob
  <2>6. NothingLate'
    BY <1>8 DEF Claim, IInv, NothingLate, JobPlaces, FreeJob
  <2> QED BY <1>5, <2>1, <2>2, <2>3, <2>4, <2>5, <2>6 DEF IInv
<1>9. CASE Send(g)
  <2>1. ArmsLeft' /\ CallbackLeft' /\ GuardsInTime'
    BY <1>9 DEF Send, IInv, ArmsLeft, CallbackLeft, GuardsInTime
  <2>2. GuardOwnsJob'
    BY <1>9, <1>1, <1>2 DEF Send, IInv, GuardOwnsJob, SingleClaim
  <2>3. JobPlaces'
    <3>1. guard[g].job \in Jobs /\ job[guard[g].job].state = "claimed"
      BY <1>9 DEF Send, IInv, GuardOwnsJob
    <3>2. \A j \in Jobs : job[j].state \in Live => j = guard[g].job
      BY <3>1 DEF IInv, SingleClaim
    <3>3. queue = <<>>
      BY <3>1, <3>2 DEF IInv, JobPlaces
    <3>4. queue' = <<guard[g].job>>
      BY <1>9, <3>3 DEF Send
    <3> QED BY <1>9, <1>1, <1>2, <3>1, <3>2, <3>4 DEF Send, IInv, GuardStates, WorkerStates,
       JobPlaces
  <2>4. SingleClaim'
    BY <1>9, <1>1, <1>2, <1>3, <1>4 DEF Send, IInv, GuardStates, JobStates, WorkerStates,
       SingleClaim, GuardOwnsJob, JobPlaces, PanicEnds
  <2>5. AbandonedMeansQuarantined' /\ HostPanicPermanent' /\ PanicEnds'
    BY <1>9, <1>1, <1>2, <1>3, <1>4 DEF Send, IInv, GuardStates, JobStates, WorkerStates,
       AbandonedMeansQuarantined, HostPanicPermanent, PanicEnds, SingleClaim, GuardOwnsJob,
       JobPlaces
  <2>6. NothingLate'
    <3>1. guard[g].job \in Jobs /\ job[guard[g].job].state = "claimed"
      BY <1>9 DEF Send, IInv, GuardOwnsJob
    <3>2. worker.pc = "callback" => cur \in Jobs /\ cur # guard[g].job
      BY <3>1 DEF IInv, JobPlaces
    <3>3. worker' = worker /\ \A j \in Jobs : job'[j].reply = job[j].reply
      BY <1>9, <1>2 DEF Send
    <3>4. worker.pc = "callback" => job'[cur].age = job[cur].age
      BY <1>9, <1>2, <3>2 DEF Send
    <3> QED BY <3>3, <3>4 DEF IInv, NothingLate
  <2> QED BY <1>5, <2>1, <2>2, <2>3, <2>4, <2>5, <2>6 DEF IInv
<1>10. CASE Receive(g)
  <2>1. ArmsLeft' /\ CallbackLeft' /\ GuardsInTime'
    BY <1>10, <1>2 DEF Receive, IInv, JobStates, ArmsLeft, CallbackLeft, GuardsInTime,
       NothingLate, GuardOwnsJob, IdleGuard
  <2>2. GuardOwnsJob'
    BY <1>10, <1>1 DEF Receive, IInv, GuardOwnsJob, SingleClaim, IdleGuard
  <2>3. JobPlaces'
    BY <1>10 DEF Receive, IInv, JobPlaces, FreeJob
  <2>4. SingleClaim'
    BY <1>10 DEF Receive, IInv, SingleClaim, JobPlaces, IdleGuard, FreeJob
  <2>5. AbandonedMeansQuarantined' /\ HostPanicPermanent' /\ PanicEnds'
    BY <1>10 DEF Receive, IInv, AbandonedMeansQuarantined, HostPanicPermanent, PanicEnds, FreeJob
  <2>6. NothingLate'
    BY <1>10 DEF Receive, IInv, NothingLate, JobPlaces, FreeJob
  <2> QED BY <1>5, <2>1, <2>2, <2>3, <2>4, <2>5, <2>6 DEF IInv
<1>11. CASE TimeOut(g)
  <2>1. ArmsLeft' /\ CallbackLeft' /\ GuardsInTime'
    BY <1>11 DEF TimeOut, IInv, ArmsLeft, CallbackLeft, GuardsInTime
  <2>2. GuardOwnsJob'
    BY <1>11 DEF TimeOut, IInv, GuardOwnsJob
  <2>3. JobPlaces'
    BY <1>11 DEF TimeOut, IInv, JobPlaces
  <2>4. SingleClaim'
    BY <1>11 DEF TimeOut, IInv, SingleClaim
  <2>5. AbandonedMeansQuarantined' /\ HostPanicPermanent' /\ PanicEnds'
    BY <1>11 DEF TimeOut, IInv, AbandonedMeansQuarantined, HostPanicPermanent, PanicEnds
  <2>6. NothingLate'
    BY <1>11 DEF TimeOut, IInv, NothingLate
  <2> QED BY <1>5, <2>1, <2>2, <2>3, <2>4, <2>5, <2>6 DEF IInv
<1>12. CASE Quarantine(g)
  <2>1. ArmsLeft' /\ CallbackLeft' /\ GuardsInTime'
    BY <1>12 DEF Quarantine, IInv, ArmsLeft, CallbackLeft, GuardsInTime, IdleGuard
  <2>2. GuardOwnsJob'
    BY <1>12, <1>1 DEF Quarantine, IInv, WorkerStates, GuardOwnsJob, SingleClaim, JobPlaces,
       IdleGuard, FreeJob
  <2>3. JobPlaces'
    BY <1>12, <1>1, <1>2, <1>3, <1>4 DEF Quarantine, IInv, GuardStates, JobStates,
       WorkerStates, JobPlaces, SingleClaim, GuardOwnsJob, IdleGuard, FreeJob
  <2>4. SingleClaim'
    BY <1>12, <1>1, <1>2, <1>3, <1>4 DEF Quarantine, HealthAfterTimeout, IInv, GuardStates,
       JobStates, WorkerStates, SingleClaim, GuardOwnsJob, JobPlaces, PanicEnds, IdleGuard,
       FreeJob
  <2>5. AbandonedMeansQuarantined' /\ HostPanicPermanent' /\ PanicEnds'
    <3>1. \A j \in Jobs : job'[j].state \in Live => job[j].state \in Live
      BY <1>12 DEF Quarantine, FreeJob
    <3>2. (\E j \in Jobs : job[j].state \in Live) => health' = "quarantined"
      BY <1>12, <1>4 DEF Quarantine, HealthAfterTimeout, IInv, SingleClaim
    <3>3. AbandonedMeansQuarantined'
      BY <3>1, <3>2 DEF AbandonedMeansQuarantined
    <3>4. worker' = worker /\ panicked' = panicked /\ (health # "ready" => health' # "ready")
      BY <1>12 DEF Quarantine, HealthAfterTimeout
    <3>5. PanicEnds'
      BY <3>1, <3>4 DEF IInv, PanicEnds
    <3>6. HostPanicPermanent'
      BY <1>12 DEF Quarantine, HealthAfterTimeout, IInv, HostPanicPermanent
    <3> QED BY <3>3, <3>5, <3>6
  <2>6. NothingLate'
    BY <1>12 DEF Quarantine, HealthAfterTimeout, IInv, NothingLate, JobPlaces, FreeJob
  <2> QED BY <1>5, <2>1, <2>2, <2>3, <2>4, <2>5, <2>6 DEF IInv
<1>13. CASE NextArm(g)
  <2>1. ArmsLeft' /\ GuardsInTime' /\ GuardOwnsJob' /\ SingleClaim'
    BY <1>13 DEF NextArm, IInv, ArmsLeft, GuardsInTime, GuardOwnsJob, SingleClaim
  <2>2. /\ AbandonedMeansQuarantined' /\ HostPanicPermanent' /\ CallbackLeft'
        /\ JobPlaces' /\ PanicEnds' /\ NothingLate'
    BY <1>13 DEF NextArm, IInv, AbandonedMeansQuarantined, HostPanicPermanent, CallbackLeft,
       JobPlaces, PanicEnds, NothingLate
  <2> QED BY <1>5, <2>1, <2>2 DEF IInv
<1>14. CASE HandOff(g)
  <2>1. ArmsLeft' /\ GuardsInTime' /\ GuardOwnsJob' /\ SingleClaim'
    BY <1>14 DEF HandOff, IInv, ArmsLeft, GuardsInTime, GuardOwnsJob, SingleClaim
  <2>2. /\ AbandonedMeansQuarantined' /\ HostPanicPermanent' /\ CallbackLeft'
        /\ JobPlaces' /\ PanicEnds' /\ NothingLate'
    BY <1>14 DEF HandOff, IInv, AbandonedMeansQuarantined, HostPanicPermanent, CallbackLeft,
       JobPlaces, PanicEnds, NothingLate
  <2> QED BY <1>5, <2>1, <2>2 DEF IInv
<1>15. CASE EndRelease(g)
  <2>1. ArmsLeft' /\ GuardsInTime' /\ GuardOwnsJob' /\ SingleClaim'
    BY <1>15 DEF EndRelease, IInv, ArmsLeft, GuardsInTime, GuardOwnsJob, SingleClaim, IdleGuard
  <2>2. /\ AbandonedMeansQuarantined' /\ HostPanicPermanent' /\ CallbackLeft'
        /\ JobPlaces' /\ PanicEnds' /\ NothingLate'
    BY <1>15 DEF EndRelease, IInv, AbandonedMeansQuarantined, HostPanicPermanent, CallbackLeft,
       JobPlaces, PanicEnds, NothingLate
  <2> QED BY <1>5, <2>1, <2>2 DEF IInv
<1> QED BY <1>6, <1>7, <1>8, <1>9, <1>10, <1>11, <1>12, <1>13, <1>14, <1>15 DEF GuardStep

\* A running callback that keeps its bound is before the fold deadline.
LEMMA RunsInTime == IInv => DeliveredInTime
<1> SUFFICES ASSUME IInv, worker.pc = "callback", worker.cb <= CallbackBound PROVE InTime
  BY DEF DeliveredInTime, IInv
<1>1. job[cur].age + CallbackBound <= FoldDeadline + worker.cb BY DEF IInv, NothingLate
<1>2. job[cur] \in JobStates BY DEF IInv, TypeOK, JobPlaces, Busy
<1>3. job[cur].age \in Int /\ worker.cb \in Int
  BY <1>2, ConstantsAssumption DEF JobStates, Ages, MaxAge, IInv, TypeOK, WorkerStates
<1> QED BY <1>1, <1>3, ConstantsAssumption DEF InTime

\* Every step of the worker keeps the inductive invariant.
LEMMA WorkerStepKeeps ==
  ASSUME IInv, WorkerStep
  PROVE  IInv'
<1> USE ConstantsAssumption DEF Live, InFold, Busy, cur, NoReply
<1>1. guard \in [Guards -> GuardStates] BY DEF IInv, TypeOK
<1>2. job \in [Jobs -> JobStates] BY DEF IInv, TypeOK
<1>3. worker \in WorkerStates BY DEF IInv, TypeOK
<1>4. health \in {"ready", "busy", "quarantined"} BY DEF IInv, TypeOK
<1>5. TypeOK' BY TypeWorkerStep DEF IInv
<1>6. CASE TakeJob
  <2>1. ArmsLeft' /\ CallbackLeft' /\ GuardsInTime'
    BY <1>6 DEF TakeJob, IInv, ArmsLeft, CallbackLeft, GuardsInTime
  <2>2. GuardOwnsJob'
    BY <1>6 DEF TakeJob, IInv, GuardOwnsJob, JobPlaces
  <2>3. JobPlaces'
    <3>1. PICK j \in Jobs : queue = <<j>> /\ job[j].state = "queued"
      BY <1>6 DEF TakeJob, IInv, JobPlaces
    <3>2. Head(queue) = j /\ Tail(queue) = <<>>
      BY <3>1
    <3>3. \A i \in Jobs : job[i].state \in Live => i = j
      BY <3>1 DEF IInv, SingleClaim
    <3>4. /\ worker'.pc = "gate" /\ worker'.job = j /\ queue' = <<>>
          /\ job' = [job EXCEPT ![j].state = "running"]
      BY <1>6, <3>2 DEF TakeJob, IdleWorker
    <3> QED BY <1>2, <3>1, <3>3, <3>4 DEF IInv, JobPlaces
  <2>4. SingleClaim'
    BY <1>6 DEF TakeJob, IInv, SingleClaim, JobPlaces
  <2>5. AbandonedMeansQuarantined' /\ HostPanicPermanent' /\ PanicEnds'
    BY <1>6 DEF TakeJob, IInv, AbandonedMeansQuarantined, HostPanicPermanent, PanicEnds, JobPlaces
  <2>6. NothingLate'
    BY <1>6 DEF TakeJob, IInv, NothingLate, IdleWorker
  <2> QED BY <1>5, <2>1, <2>2, <2>3, <2>4, <2>5, <2>6 DEF IInv
<1>7. CASE StartCallback
  <2>1. /\ ArmsLeft' /\ GuardsInTime' /\ GuardOwnsJob'
        /\ AbandonedMeansQuarantined' /\ HostPanicPermanent'
    BY <1>7 DEF StartCallback, IInv, ArmsLeft, GuardsInTime, GuardOwnsJob,
       AbandonedMeansQuarantined, HostPanicPermanent
  <2>2. JobPlaces' /\ SingleClaim' /\ PanicEnds'
    BY <1>7 DEF StartCallback, IInv, JobPlaces, SingleClaim, PanicEnds
  <2>3. CallbackLeft' /\ NothingLate'
    BY <1>7 DEF StartCallback, IInv, CallbackLeft, NothingLate, Fits
  <2> QED BY <1>5, <2>1, <2>2, <2>3 DEF IInv
<1>8. CASE EndCallback
  <2>1. /\ ArmsLeft' /\ GuardsInTime' /\ GuardOwnsJob'
        /\ AbandonedMeansQuarantined' /\ HostPanicPermanent'
    BY <1>8 DEF EndCallback, IInv, ArmsLeft, GuardsInTime, GuardOwnsJob,
       AbandonedMeansQuarantined, HostPanicPermanent
  <2>2. JobPlaces' /\ SingleClaim' /\ PanicEnds'
    BY <1>8 DEF EndCallback, IInv, JobPlaces, SingleClaim, PanicEnds
  <2>3. CallbackLeft' /\ NothingLate'
    <3>1. InTime BY <1>8, RunsInTime DEF EndCallback, DeliveredInTime
    <3> QED BY <1>8, <1>3, <3>1 DEF EndCallback, IInv, WorkerStates, CallbackLeft, NothingLate
  <2> QED BY <1>5, <2>1, <2>2, <2>3 DEF IInv
<1>9. CASE FailFold
  <2>1. /\ ArmsLeft' /\ GuardsInTime' /\ GuardOwnsJob'
        /\ AbandonedMeansQuarantined' /\ HostPanicPermanent'
    BY <1>9 DEF FailFold, IInv, ArmsLeft, GuardsInTime, GuardOwnsJob,
       AbandonedMeansQuarantined, HostPanicPermanent
  <2>2. JobPlaces' /\ SingleClaim' /\ PanicEnds'
    BY <1>9 DEF FailFold, IInv, JobPlaces, SingleClaim, PanicEnds
  <2>3. CallbackLeft' /\ NothingLate'
    BY <1>9 DEF FailFold, IInv, CallbackLeft, NothingLate
  <2> QED BY <1>5, <2>1, <2>2, <2>3 DEF IInv
<1>10. CASE RefuseGate
  <2>1. /\ ArmsLeft' /\ GuardsInTime' /\ GuardOwnsJob'
        /\ AbandonedMeansQuarantined' /\ HostPanicPermanent'
    BY <1>10 DEF RefuseGate, IInv, ArmsLeft, GuardsInTime, GuardOwnsJob,
       AbandonedMeansQuarantined, HostPanicPermanent
  <2>2. JobPlaces' /\ SingleClaim' /\ PanicEnds'
    BY <1>10 DEF RefuseGate, IInv, JobPlaces, SingleClaim, PanicEnds
  <2>3. CallbackLeft' /\ NothingLate'
    BY <1>10 DEF RefuseGate, IInv, CallbackLeft, NothingLate
  <2> QED BY <1>5, <2>1, <2>2, <2>3 DEF IInv
<1>11. CASE FinishFold
  <2>1. /\ ArmsLeft' /\ GuardsInTime' /\ GuardOwnsJob'
        /\ AbandonedMeansQuarantined' /\ HostPanicPermanent'
    BY <1>11 DEF FinishFold, IInv, ArmsLeft, GuardsInTime, GuardOwnsJob,
       AbandonedMeansQuarantined, HostPanicPermanent
  <2>2. JobPlaces' /\ SingleClaim' /\ PanicEnds'
    BY <1>11 DEF FinishFold, IInv, JobPlaces, SingleClaim, PanicEnds
  <2>3. CallbackLeft' /\ NothingLate'
    BY <1>11, <1>3 DEF FinishFold, IInv, WorkerStates, CallbackLeft, NothingLate, Ages
  <2> QED BY <1>5, <2>1, <2>2, <2>3 DEF IInv
<1>12. CASE CheckCancel
  <2>1. /\ ArmsLeft' /\ GuardsInTime' /\ GuardOwnsJob'
        /\ AbandonedMeansQuarantined' /\ HostPanicPermanent'
    BY <1>12 DEF CheckCancel, IInv, ArmsLeft, GuardsInTime, GuardOwnsJob,
       AbandonedMeansQuarantined, HostPanicPermanent
  <2>2. JobPlaces' /\ SingleClaim' /\ PanicEnds'
    BY <1>12 DEF CheckCancel, IInv, JobPlaces, SingleClaim, PanicEnds
  <2>3. CallbackLeft' /\ NothingLate'
    BY <1>12 DEF CheckCancel, IInv, CallbackLeft, NothingLate
  <2> QED BY <1>5, <2>1, <2>2, <2>3 DEF IInv
<1>13. CASE Discard
  <2>1. ArmsLeft' /\ CallbackLeft' /\ GuardsInTime'
    BY <1>13 DEF Discard, IInv, ArmsLeft, CallbackLeft, GuardsInTime, IdleWorker
  <2>2. GuardOwnsJob'
    BY <1>13 DEF Discard, IInv, GuardOwnsJob, JobPlaces, Ended
  <2>3. JobPlaces'
    BY <1>13, <1>2 DEF Discard, IInv, JobPlaces, IdleWorker, FreeJob, Ended
  <2>4. SingleClaim'
    BY <1>13, <1>2 DEF Discard, IInv, SingleClaim, JobPlaces, FreeJob, Ended
  <2>5. AbandonedMeansQuarantined' /\ HostPanicPermanent' /\ PanicEnds'
    BY <1>13, <1>2 DEF Discard, IInv, AbandonedMeansQuarantined, HostPanicPermanent, PanicEnds,
       SingleClaim, JobPlaces, IdleWorker, FreeJob, Ended
  <2>6. NothingLate'
    BY <1>13 DEF Discard, IInv, NothingLate, IdleWorker, FreeJob, Ended
  <2> QED BY <1>5, <2>1, <2>2, <2>3, <2>4, <2>5, <2>6 DEF IInv
<1>14. CASE Publish
  <2>1. ArmsLeft' /\ CallbackLeft' /\ GuardsInTime'
    BY <1>14 DEF Publish, IInv, ArmsLeft, CallbackLeft, GuardsInTime
  <2>2. GuardOwnsJob'
    BY <1>14 DEF Publish, IInv, GuardOwnsJob, JobPlaces
  <2>3. JobPlaces'
    BY <1>14, <1>2 DEF Publish, IInv, JobPlaces
  <2>4. SingleClaim'
    BY <1>14, <1>2 DEF Publish, IInv, SingleClaim, JobPlaces
  <2>5. AbandonedMeansQuarantined' /\ HostPanicPermanent' /\ PanicEnds'
    BY <1>14, <1>2 DEF Publish, IInv, AbandonedMeansQuarantined, HostPanicPermanent, PanicEnds,
       SingleClaim, JobPlaces
  <2>6. NothingLate'
    BY <1>14 DEF Publish, IInv, NothingLate
  <2> QED BY <1>5, <2>1, <2>2, <2>3, <2>4, <2>5, <2>6 DEF IInv
<1>15. CASE Reply
  <2>1. ArmsLeft' /\ CallbackLeft' /\ GuardsInTime'
    BY <1>15 DEF Reply, IInv, ArmsLeft, CallbackLeft, GuardsInTime, IdleWorker
  <2>2. GuardOwnsJob'
    BY <1>15 DEF Reply, IInv, GuardOwnsJob, JobPlaces, Ended
  <2>3. JobPlaces'
    BY <1>15 DEF Reply, IInv, JobPlaces, IdleWorker, FreeJob, Ended
  <2>4. SingleClaim'
    BY <1>15 DEF Reply, IInv, SingleClaim, JobPlaces, FreeJob, Ended
  <2>5. AbandonedMeansQuarantined' /\ HostPanicPermanent' /\ PanicEnds'
    BY <1>15 DEF Reply, IInv, AbandonedMeansQuarantined, HostPanicPermanent, PanicEnds,
       IdleWorker, FreeJob, Ended
  <2>6. NothingLate'
    BY <1>15 DEF Reply, IInv, NothingLate, IdleWorker, FreeJob, Ended
  <2> QED BY <1>5, <2>1, <2>2, <2>3, <2>4, <2>5, <2>6 DEF IInv
<1>16. CASE HostPanic
  <2>1. ArmsLeft' /\ CallbackLeft' /\ GuardsInTime'
    BY <1>16 DEF HostPanic, IInv, ArmsLeft, CallbackLeft, GuardsInTime
  <2>2. GuardOwnsJob'
    BY <1>16 DEF HostPanic, IInv, GuardOwnsJob, JobPlaces, Ended
  <2>3. JobPlaces'
    BY <1>16, <1>2 DEF HostPanic, IInv, JobPlaces, FreeJob, Ended
  <2>4. SingleClaim'
    BY <1>16 DEF HostPanic, IInv, SingleClaim, FreeJob, Ended
  <2>5. AbandonedMeansQuarantined' /\ HostPanicPermanent' /\ PanicEnds'
    BY <1>16, <1>2 DEF HostPanic, IInv, AbandonedMeansQuarantined, HostPanicPermanent,
       PanicEnds, SingleClaim, JobPlaces, FreeJob, Ended
  <2>6. NothingLate'
    BY <1>16 DEF HostPanic, IInv, NothingLate, IdleWorker, FreeJob, Ended
  <2> QED BY <1>5, <2>1, <2>2, <2>3, <2>4, <2>5, <2>6 DEF IInv
<1>17. CASE ContainPanic
  <2>1. ArmsLeft' /\ CallbackLeft' /\ GuardsInTime'
    BY <1>17 DEF ContainPanic, IInv, ArmsLeft, CallbackLeft, GuardsInTime, IdleWorker
  <2>2. GuardOwnsJob'
    BY <1>17 DEF ContainPanic, IInv, GuardOwnsJob
  <2>3. JobPlaces'
    BY <1>17 DEF ContainPanic, IInv, JobPlaces, IdleWorker
  <2>4. SingleClaim'
    BY <1>17 DEF ContainPanic, IInv, SingleClaim
  <2>5. AbandonedMeansQuarantined' /\ HostPanicPermanent' /\ PanicEnds'
    BY <1>17 DEF ContainPanic, IInv, AbandonedMeansQuarantined, HostPanicPermanent, PanicEnds
  <2>6. NothingLate'
    BY <1>17 DEF ContainPanic, IInv, NothingLate, IdleWorker
  <2> QED BY <1>5, <2>1, <2>2, <2>3, <2>4, <2>5, <2>6 DEF IInv
<1> QED BY <1>6, <1>7, <1>8, <1>9, <1>10, <1>11, <1>12, <1>13, <1>14, <1>15, <1>16, <1>17 DEF
           WorkerStep

\* Time keeps it: only ages, the wait and the callback's age change.
LEMMA TickKeeps ==
  ASSUME IInv, Tick
  PROVE  IInv'
<1> USE ConstantsAssumption
<1>1. guard \in [Guards -> GuardStates] BY DEF IInv, TypeOK
<1>2. job \in [Jobs -> JobStates] BY DEF IInv, TypeOK
<1>3. worker \in WorkerStates BY DEF IInv, TypeOK
<1>4. \A g \in Guards :
        /\ guard'[g] \in GuardStates
        /\ guard'[g].pc = guard[g].pc /\ guard'[g].arms = guard[g].arms
        /\ guard'[g].job = guard[g].job /\ guard'[g].late = guard[g].late
  <2> SUFFICES ASSUME NEW g \in Guards
               PROVE  /\ guard'[g] \in GuardStates
                      /\ guard'[g].pc = guard[g].pc /\ guard'[g].arms = guard[g].arms
                      /\ guard'[g].job = guard[g].job /\ guard'[g].late = guard[g].late
    OBVIOUS
  <2>1. guard[g] \in GuardStates BY <1>1
  <2>2. Older(guard[g].age) \in Ages BY <2>1, OlderType DEF GuardStates
  <2>3. Max({guard[g].timer - 1, 0}) \in 0..FoldDeadline
    BY <2>1, MaxOfTwo DEF GuardStates
  <2>4. guard'[g] = IF guard[g].pc = "idle" THEN guard[g] ELSE
                      [guard[g] EXCEPT !.age = Older(guard[g].age),
                         !.timer = IF guard[g].pc = "waiting"
                                   THEN Max({guard[g].timer - 1, 0}) ELSE guard[g].timer]
    BY DEF Tick
  <2> QED BY <2>1, <2>2, <2>3, <2>4 DEF GuardStates
<1>5. \A j \in Jobs :
        /\ job'[j] \in JobStates
        /\ job'[j].state = job[j].state /\ job'[j].abandoned = job[j].abandoned
        /\ job'[j].reply = job[j].reply /\ job'[j].age <= job[j].age + 1
  <2> SUFFICES ASSUME NEW j \in Jobs
               PROVE  /\ job'[j] \in JobStates
                      /\ job'[j].state = job[j].state /\ job'[j].abandoned = job[j].abandoned
                      /\ job'[j].reply = job[j].reply /\ job'[j].age <= job[j].age + 1
    OBVIOUS
  <2>1. job[j] \in JobStates BY <1>2
  <2>2. /\ Older(job[j].age) \in Ages /\ Older(job[j].age) <= job[j].age + 1
        /\ job[j].age <= job[j].age + 1
    BY <2>1, OlderType DEF JobStates, Ages, MaxAge
  <2>3. job'[j] = IF job[j].state \in {"queued", "running"}
                  THEN [job[j] EXCEPT !.age = Older(job[j].age)] ELSE job[j]
    BY DEF Tick
  <2> QED BY <2>1, <2>2, <2>3 DEF JobStates
<1>6. /\ worker' \in WorkerStates
      /\ worker'.pc = worker.pc /\ worker'.job = worker.job /\ worker'.left = worker.left
      /\ worker'.outcome = worker.outcome /\ worker'.late = worker.late
      /\ worker.pc = "callback" /\ worker'.cb <= CallbackBound
           => worker.cb <= CallbackBound /\ worker'.cb = worker.cb + 1
  <2>1. worker.cb \in 0..(CallbackBound + 1) BY <1>3 DEF WorkerStates
  <2>2. Min({worker.cb + 1, CallbackBound + 1}) =
          IF worker.cb <= CallbackBound THEN worker.cb + 1 ELSE CallbackBound + 1
    BY <2>1, MinOfTwo
  <2>3. worker' = [worker EXCEPT !.cb = IF worker.pc = "callback"
                     THEN Min({worker.cb + 1, CallbackBound + 1}) ELSE worker.cb]
    BY DEF Tick
  <2> QED BY <1>3, <2>1, <2>2, <2>3 DEF WorkerStates
<1>7. health' = health /\ panicked' = panicked /\ queue' = queue BY DEF Tick
<1>8. TypeOK'
  <2>1. guard' \in [Guards -> GuardStates] BY <1>4 DEF Tick
  <2>2. job' \in [Jobs -> JobStates] BY <1>5 DEF Tick
  <2> QED BY <1>6, <1>7, <2>1, <2>2 DEF IInv, TypeOK
<1>9. ArmsLeft' /\ CallbackLeft' /\ GuardsInTime'
  BY <1>4, <1>6 DEF IInv, ArmsLeft, CallbackLeft, GuardsInTime
<1>10. GuardOwnsJob'
  BY <1>4, <1>5 DEF IInv, GuardOwnsJob
<1>11. JobPlaces'
  BY <1>5, <1>6, <1>7 DEF IInv, JobPlaces, cur
<1>12. SingleClaim'
  BY <1>4, <1>5, <1>6, <1>7 DEF IInv, SingleClaim
<1>13. AbandonedMeansQuarantined' /\ HostPanicPermanent' /\ PanicEnds'
  BY <1>5, <1>6, <1>7 DEF IInv, AbandonedMeansQuarantined, HostPanicPermanent, PanicEnds
<1>14. NothingLate'
  <2>1. worker.pc = "callback" => cur \in Jobs
    BY DEF IInv, JobPlaces, Busy
  <2>2. worker.pc = "callback" /\ worker'.cb <= CallbackBound =>
          job'[cur].age + CallbackBound <= FoldDeadline + worker'.cb
    <3> SUFFICES ASSUME worker.pc = "callback", worker'.cb <= CallbackBound
                 PROVE  job'[cur].age + CallbackBound <= FoldDeadline + worker'.cb
      OBVIOUS
    <3>1. job[cur].age + CallbackBound <= FoldDeadline + worker.cb
      BY <1>6 DEF IInv, NothingLate
    <3>2. job'[cur].age <= job[cur].age + 1 /\ worker'.cb = worker.cb + 1
      BY <1>5, <1>6, <2>1
    <3>3. job[cur].age \in Int /\ job'[cur].age \in Int /\ worker.cb \in Int
      BY <1>2, <1>3, <1>5, <2>1 DEF JobStates, WorkerStates, Ages, MaxAge
    <3> QED BY <3>1, <3>2, <3>3
  <2> QED BY <1>5, <1>6, <2>2 DEF IInv, NothingLate, cur
<1> QED BY <1>8, <1>9, <1>10, <1>11, <1>12, <1>13, <1>14 DEF IInv

\* The inductive invariant holds initially.
LEMMA InitKeeps == Init => IInv
<1> SUFFICES ASSUME Init PROVE IInv OBVIOUS
<1>1. TypeOK BY TypeInit
<1>2. ArmsLeft /\ CallbackLeft /\ GuardsInTime /\ GuardOwnsJob
  BY DEF Init, IdleGuard, IdleWorker, ArmsLeft, CallbackLeft, GuardsInTime, GuardOwnsJob,
     InFold
<1>3. JobPlaces /\ SingleClaim /\ AbandonedMeansQuarantined /\ HostPanicPermanent /\ PanicEnds
  BY DEF Init, IdleGuard, IdleWorker, FreeJob, JobPlaces, SingleClaim,
     AbandonedMeansQuarantined, HostPanicPermanent, PanicEnds, Busy, Live, InFold
<1>4. NothingLate
  BY ConstantsAssumption DEF Init, IdleWorker, FreeJob, NothingLate, NoReply
<1> QED BY <1>1, <1>2, <1>3, <1>4 DEF IInv

\* Every reachable state satisfies the inductive invariant.
THEOREM Invariance == Spec => []IInv
<1>1. ASSUME IInv, [Next]_vars PROVE IInv'
  <2>1. CASE \E g \in Guards : GuardStep(g) BY <1>1, <2>1, GuardStepKeeps
  <2>2. CASE WorkerStep BY <1>1, <2>2, WorkerStepKeeps
  <2>3. CASE Tick BY <1>1, <2>3, TickKeeps
  <2>4. CASE UNCHANGED vars
    BY <1>1, <2>4 DEF vars, IInv, TypeOK, SingleClaim, AbandonedMeansQuarantined,
       HostPanicPermanent, GuardsInTime, ArmsLeft, CallbackLeft, GuardOwnsJob, JobPlaces,
       PanicEnds, NothingLate, cur
  <2> QED BY <1>1, <2>1, <2>2, <2>3, <2>4 DEF Next
<1> QED BY <1>1, InitKeeps, PTL DEF Spec

\* No age, wait, callback count or health value leaves its range (admit_plan).
THEOREM ExecutorTypeOK == Spec => []TypeOK
BY Invariance, PTL DEF IInv

\* HEALTH never loses or doubles a job (claim_worker, run_job).
THEOREM ExecutorSingleClaim == Spec => []SingleClaim
BY Invariance, PTL DEF IInv

\* A job given up at its deadline runs only in quarantine (fold, run_job).
THEOREM ExecutorAbandonedMeansQuarantined == Spec => []AbandonedMeansQuarantined
BY Invariance, PTL DEF IInv

\* A host panic closes the executor for good (run_contained_job).
THEOREM ExecutorHostPanicPermanent == Spec => []HostPanicPermanent
BY Invariance, PTL DEF IInv

\* Callbacks that keep their bounds end by the fold deadline, and what a fold
\* hands over was computed by then (WorkerGateV1).
THEOREM ExecutorDeliveredInTime == Spec => []DeliveredInTime
BY Invariance, RunsInTime, PTL

=============================================================================
