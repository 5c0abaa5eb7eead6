---------------------- MODULE StagedExecutorRefinement ----------------------
(***************************************************************************)
(* The staged fold executor implements FoldService, for any number of      *)
(* guard threads and jobs and any deadlines: every step of a guard thread, *)
(* of the worker and of time is a step of the contract or invisible to it. *)
(***************************************************************************)
EXTENDS StagedExecutorProofs

\* What the contract sees of the executor is the same after the step.
SameView ==
  UNCHANGED <<health, JobAlive, Waiters, Calls, panicked>>

\* Where a guard thread in fold finds its job.
LEMMA OwnedJob ==
  ASSUME IInv, NEW g \in Guards, guard[g].pc \in InFold
  PROVE  guard[g].job \in Jobs
BY DEF IInv, GuardOwnsJob

\* A step is invisible if every guard thread stays in or out of fold with its
\* job, every job stays alive or not, and no job loses its sender.
LEMMA Invisible ==
  ASSUME IInv,
         \A g \in Guards : /\ (guard'[g].pc \in InFold) <=> (guard[g].pc \in InFold)
                           /\ guard[g].pc \in InFold => guard'[g].job = guard[g].job,
         \A j \in Jobs : (job'[j].state \in Live) <=> (job[j].state \in Live),
         \A g \in Guards : guard[g].pc \in InFold =>
           ((job'[guard[g].job].reply = "gone") <=> (job[guard[g].job].reply = "gone")),
         (worker'.pc = "panicked") <=> (worker.pc = "panicked"),
         health' = health, panicked' = panicked
  PROVE  SameView
<1>1. JobAlive' = JobAlive BY DEF JobAlive
<1>2. \A g \in Guards : guard[g].pc \in InFold => guard[g].job \in Jobs BY OwnedJob
<1>3. Waiters' = Waiters BY <1>2 DEF Waiters
<1>4. \A g \in Guards : Call(g)' = Call(g) BY <1>2, <1>3 DEF Call
<1>5. Calls' = Calls BY <1>4 DEF Calls
<1> QED BY <1>1, <1>3, <1>5 DEF SameView

\* An idle executor is an idle service.
LEMMA InitRefines == Init => Service!Init
<1> SUFFICES ASSUME Init PROVE Service!Init OBVIOUS
<1>1. JobAlive = FALSE BY DEF Init, JobAlive, IdleWorker, FreeJob, Live
<1>2. Waiters = {} BY DEF Init, Waiters, IdleGuard, InFold
<1>3. Calls = [g \in Guards |-> "out"] BY DEF Init, Calls, Call, IdleGuard, InFold
<1> QED BY <1>1, <1>2, <1>3 DEF Init, Service!Init

\* Everything a guard thread does outside fold, sending its job and the cancel
\* flag it stores at its deadline are invisible; so is time.
LEMMA GuardInvisible ==
  ASSUME IInv, NEW g \in Guards,
         \/ StartRelease(g) \/ Admit(g) \/ NextArm(g) \/ HandOff(g) \/ EndRelease(g)
         \/ Send(g) \/ TimeOut(g)
  PROVE  SameView
<1>1. guard \in [Guards -> GuardStates] /\ job \in [Jobs -> JobStates] BY DEF IInv, TypeOK
<1>2. health' = health /\ panicked' = panicked /\ worker' = worker
  BY DEF StartRelease, Admit, NextArm, HandOff, EndRelease, Send, TimeOut
<1>3. \A h \in Guards \ {g} : guard'[h] = guard[h]
  <2>1. CASE StartRelease(g) BY <1>1, <2>1 DEF StartRelease
  <2>2. CASE Admit(g) BY <1>1, <2>2 DEF Admit
  <2>3. CASE NextArm(g) BY <1>1, <2>3 DEF NextArm
  <2>4. CASE HandOff(g) BY <1>1, <2>4 DEF HandOff
  <2>5. CASE EndRelease(g) BY <1>1, <2>5 DEF EndRelease
  <2>6. CASE Send(g) BY <1>1, <2>6 DEF Send
  <2>7. CASE TimeOut(g) BY <1>1, <2>7 DEF TimeOut
  <2> QED BY <2>1, <2>2, <2>3, <2>4, <2>5, <2>6, <2>7
<1>4. CASE StartRelease(g) \/ Admit(g) \/ NextArm(g) \/ HandOff(g) \/ EndRelease(g)
  <2>1. job' = job BY <1>4 DEF StartRelease, Admit, NextArm, HandOff, EndRelease
  <2>2. guard[g].pc \notin InFold
    BY <1>4 DEF StartRelease, Admit, NextArm, HandOff, EndRelease, InFold
  <2>3. guard'[g].pc \notin InFold
    <3>1. CASE StartRelease(g)
      <4>1. PICK age \in 0..MaxAge, arms \in {1, 2} :
              guard' = [guard EXCEPT ![g] = [IdleGuard EXCEPT !.pc = "guarded", !.age = age,
                                                              !.arms = arms]]
        BY <3>1 DEF StartRelease
      <4>2. guard'[g].pc = "guarded" BY <1>1, <4>1 DEF IdleGuard
      <4> QED BY <4>2 DEF InFold
    <3>2. CASE Admit(g)
      <4>1. guard'[g].pc = "admitted" BY <1>1, <3>2 DEF Admit, GuardStates
      <4> QED BY <4>1 DEF InFold
    <3>3. CASE NextArm(g)
      <4>1. guard'[g].pc = "guarded" BY <1>1, <3>3 DEF NextArm, GuardStates
      <4> QED BY <4>1 DEF InFold
    <3>4. CASE HandOff(g)
      <4>1. guard'[g].pc = "handingOff" BY <1>1, <3>4 DEF HandOff, GuardStates
      <4> QED BY <4>1 DEF InFold
    <3>5. CASE EndRelease(g)
      <4>1. guard'[g].pc = "idle" BY <1>1, <3>5 DEF EndRelease, IdleGuard
      <4> QED BY <4>1 DEF InFold
    <3> QED BY <1>4, <3>1, <3>2, <3>3, <3>4, <3>5
  <2>4. \A h \in Guards : /\ (guard'[h].pc \in InFold) <=> (guard[h].pc \in InFold)
                          /\ guard[h].pc \in InFold => guard'[h].job = guard[h].job
    BY <1>3, <2>2, <2>3
  <2> QED BY <1>2, <2>1, <2>4, Invisible
<1>5. CASE Send(g) \/ TimeOut(g)
  <2>1. guard[g].pc \in InFold /\ guard[g].job \in Jobs
    BY <1>5, OwnedJob DEF Send, TimeOut, InFold
  <2>2. guard'[g].pc \in InFold /\ guard'[g].job = guard[g].job
    <3>1. CASE Send(g) BY <1>1, <3>1 DEF Send, InFold, GuardStates
    <3>2. CASE TimeOut(g) BY <1>1, <3>2 DEF TimeOut, InFold, GuardStates
    <3> QED BY <1>5, <3>1, <3>2
  <2>3. \A h \in Guards : /\ (guard'[h].pc \in InFold) <=> (guard[h].pc \in InFold)
                          /\ guard[h].pc \in InFold => guard'[h].job = guard[h].job
    BY <1>3, <2>1, <2>2
  <2>4. Send(g) => job[guard[g].job].state = "claimed"
    BY DEF Send, IInv, GuardOwnsJob, InFold
  <2>5. \A j \in Jobs : /\ (job'[j].state \in Live) <=> (job[j].state \in Live)
                        /\ job'[j].reply = job[j].reply
    BY <1>1, <1>5, <2>1, <2>4 DEF Send, TimeOut, Live, JobStates
  <2> QED BY <1>2, <2>3, <2>5, OwnedJob, Invisible
<1> QED BY <1>4, <1>5

\* Time is invisible to the contract.
LEMMA TickInvisible ==
  ASSUME IInv, Tick
  PROVE  SameView
<1>1. guard \in [Guards -> GuardStates] /\ job \in [Jobs -> JobStates] BY DEF IInv, TypeOK
<1>2. \A g \in Guards : guard'[g].pc = guard[g].pc /\ guard'[g].job = guard[g].job
  BY <1>1 DEF Tick, GuardStates
<1>3. \A j \in Jobs : job'[j].state = job[j].state /\ job'[j].reply = job[j].reply
  BY <1>1 DEF Tick, JobStates
<1>4. worker'.pc = worker.pc BY DEF Tick, IInv, TypeOK, WorkerStates
<1>5. health' = health /\ panicked' = panicked BY DEF Tick
<1> QED BY <1>2, <1>3, <1>4, <1>5, OwnedJob, Invisible

\* While HEALTH is READY no job is alive and nobody waits for one.
LEMMA NothingAlive ==
  ASSUME IInv, \A j \in Jobs : job[j].state \notin Live
  PROVE  Waiters = {}
BY OwnedJob DEF Waiters

\* claim_worker begins a fold of the contract.
LEMMA ClaimRefines ==
  ASSUME IInv, NEW g \in Guards, Claim(g)
  PROVE  Service!Begin(g)
<1>1. guard \in [Guards -> GuardStates] /\ job \in [Jobs -> JobStates] BY DEF IInv, TypeOK
<1>2. PICK j \in Jobs :
        /\ job[j].state = "free"
        /\ job' = [job EXCEPT ![j] = [FreeJob EXCEPT !.state = "claimed"]]
        /\ guard' = [guard EXCEPT ![g].pc = "claimed", ![g].job = j]
  BY DEF Claim
<1>3. /\ guard[g].pc = "admitted" /\ health = "ready" /\ health' = "busy" /\ worker' = worker
      /\ panicked' = panicked
  BY DEF Claim
<1>4. \A i \in Jobs : job[i].state \notin Live BY <1>3 DEF IInv, SingleClaim
<1>5. ~JobAlive BY <1>3, <1>4 DEF JobAlive, IInv, PanicEnds
<1>6. job'[j].state = "claimed" /\ \A i \in Jobs \ {j} : job'[i] = job[i]
  BY <1>1, <1>2 DEF FreeJob
<1>7. JobAlive' BY <1>6 DEF JobAlive, Live
<1>8. /\ guard'[g].pc = "claimed" /\ guard'[g].job = j
      /\ \A h \in Guards \ {g} : guard'[h] = guard[h]
  BY <1>1, <1>2 DEF GuardStates
<1>9. \A h \in Guards : guard[h].pc \in InFold => guard[h].job \in Jobs \ {j}
  BY <1>2 DEF IInv, GuardOwnsJob, InFold
<1>10. Waiters' = {g}
  BY <1>4, <1>6, <1>8, <1>9 DEF Waiters, InFold, Live
<1>11. Call(g) = "out" BY <1>3 DEF Call, InFold
<1>12. Call(g)' = "working" BY <1>8, <1>10 DEF Call, InFold
<1>13. ASSUME NEW h \in Guards \ {g} PROVE Call(h)' = Call(h)
  <2>1. h \notin Waiters /\ h \notin Waiters' BY <1>4, <1>10, NothingAlive
  <2>2. guard[h].pc \in InFold => job'[guard[h].job] = job[guard[h].job] BY <1>6, <1>9
  <2> QED BY <1>8, <2>1, <2>2 DEF Call
<1>14. Calls' = [Calls EXCEPT ![g] = "working"] BY <1>12, <1>13 DEF Calls
<1>15. Calls[g] = "out" BY <1>11 DEF Calls
<1> QED BY <1>3, <1>5, <1>7, <1>10, <1>14, <1>15 DEF Service!Begin

\* recv_timeout delivers what the thread's own job produced.
LEMMA ReceiveRefines ==
  ASSUME IInv, NEW g \in Guards, Receive(g)
  PROVE  Service!Deliver(g)
<1>1. guard \in [Guards -> GuardStates] /\ job \in [Jobs -> JobStates] BY DEF IInv, TypeOK
<1> DEFINE j == guard[g].job
<1>2. /\ guard[g].pc \in InFold /\ j \in Jobs
      /\ job[j].reply \in {"ok", "late", "err"} /\ job' = [job EXCEPT ![j] = FreeJob]
      /\ health' = health /\ worker' = worker /\ panicked' = panicked
  BY OwnedJob DEF Receive, InFold
<1>3. job[j].state \notin Live BY <1>2 DEF IInv, JobPlaces, NoReply
<1>4. /\ guard'[g].pc \notin InFold
      /\ \A h \in Guards \ {g} : guard'[h] = guard[h]
  BY <1>1 DEF Receive, InFold, IdleGuard, GuardStates
<1>5. /\ job'[j].state \notin Live
      /\ \A i \in Jobs \ {j} : job'[i] = job[i]
  BY <1>1, <1>2 DEF FreeJob, Live
<1>6. JobAlive' = JobAlive BY <1>2, <1>3, <1>5 DEF JobAlive
<1>7. \A h \in Guards \ {g} : guard[h].pc \in InFold => guard[h].job \in Jobs \ {j}
  BY <1>2, OwnedJob DEF IInv, SingleClaim
<1>8. Waiters' = Waiters BY <1>3, <1>4, <1>5, <1>7 DEF Waiters
<1>9. Call(g) = "completed" BY <1>2, <1>3 DEF Call, Waiters
<1>10. Call(g)' = "out" BY <1>4 DEF Call
<1>11. \A h \in Guards \ {g} : Call(h)' = Call(h) BY <1>4, <1>5, <1>7, <1>8 DEF Call
<1>12. Calls' = [Calls EXCEPT ![g] = "out"] BY <1>10, <1>11 DEF Calls
<1>13. Calls[g] = "completed" BY <1>9 DEF Calls
<1> QED BY <1>2, <1>6, <1>8, <1>12, <1>13 DEF Service!Deliver

\* The exchange after a timeout gives the fold up.
LEMMA QuarantineRefines ==
  ASSUME IInv, NEW g \in Guards, Quarantine(g)
  PROVE  Service!GiveUp(g)
<1>1. guard \in [Guards -> GuardStates] /\ job \in [Jobs -> JobStates] BY DEF IInv, TypeOK
<1> DEFINE j == guard[g].job
<1>2. /\ guard[g].pc \in InFold /\ j \in Jobs
      /\ worker' = worker /\ panicked' = panicked
      /\ health' = (IF health = "busy" THEN "quarantined" ELSE health)
      /\ guard' = [guard EXCEPT ![g] = IdleGuard]
  BY OwnedJob DEF Quarantine, InFold, HealthAfterTimeout
<1>3. job' = [job EXCEPT ![j] = IF job[j].reply = NoReply /\ job[j].state # "free"
                                THEN [job[j] EXCEPT !.abandoned = TRUE] ELSE FreeJob]
  BY <1>1 DEF Quarantine
<1>4. job[j].state \in Live => job[j].reply = NoReply /\ job[j].state # "free"
  BY <1>2 DEF IInv, JobPlaces, Live
<1>5. /\ (job'[j].state \in Live) <=> (job[j].state \in Live)
      /\ \A i \in Jobs \ {j} : job'[i] = job[i]
  BY <1>1, <1>2, <1>3, <1>4 DEF FreeJob, Live, JobStates
<1>6. guard'[g].pc \notin InFold /\ \A h \in Guards \ {g} : guard'[h] = guard[h]
  BY <1>1, <1>2 DEF InFold, IdleGuard
<1>7. JobAlive' = JobAlive BY <1>2, <1>5 DEF JobAlive
<1>8. \A h \in Guards \ {g} : guard[h].pc \in InFold => guard[h].job \in Jobs \ {j}
  BY <1>2, OwnedJob DEF IInv, SingleClaim
<1>9. Waiters' = Waiters \ {g} BY <1>5, <1>6, <1>8 DEF Waiters
<1>10. Call(g) # "out" /\ Call(g)' = "out" BY <1>2, <1>6 DEF Call
<1>11. \A h \in Guards \ {g} : Call(h)' = Call(h) BY <1>5, <1>6, <1>8, <1>9 DEF Call
<1>12. Calls' = [Calls EXCEPT ![g] = "out"] BY <1>10, <1>11 DEF Calls
<1>13. Calls[g] # "out" BY <1>10 DEF Calls
<1> QED BY <1>2, <1>7, <1>9, <1>12, <1>13 DEF Service!GiveUp

\* The worker's steps between taking a job and giving HEALTH back, and the
\* reply it sends afterwards, are invisible.
LEMMA WorkerInvisible ==
  ASSUME IInv,
         \/ TakeJob \/ StartCallback \/ EndCallback \/ FailFold \/ RefuseGate \/ FinishFold
         \/ CheckCancel \/ Reply
  PROVE  SameView
<1>1. job \in [Jobs -> JobStates] /\ worker \in WorkerStates BY DEF IInv, TypeOK
<1>2. guard' = guard /\ health' = health /\ panicked' = panicked
  BY DEF TakeJob, StartCallback, EndCallback, FailFold, RefuseGate, FinishFold, CheckCancel, Reply
<1>3. worker.pc # "panicked" /\ worker'.pc # "panicked"
  <2>1. CASE TakeJob BY <2>1 DEF TakeJob, IdleWorker
  <2>2. CASE StartCallback BY <1>1, <2>2 DEF StartCallback, WorkerStates
  <2>3. CASE EndCallback BY <1>1, <2>3 DEF EndCallback, WorkerStates
  <2>4. CASE FailFold BY <1>1, <2>4 DEF FailFold, WorkerStates
  <2>5. CASE RefuseGate BY <1>1, <2>5 DEF RefuseGate, WorkerStates
  <2>6. CASE FinishFold BY <1>1, <2>6 DEF FinishFold, WorkerStates
  <2>7. CASE CheckCancel BY <1>1, <2>7 DEF CheckCancel, WorkerStates
  <2>8. CASE Reply BY <2>8 DEF Reply, IdleWorker
  <2> QED BY <2>1, <2>2, <2>3, <2>4, <2>5, <2>6, <2>7, <2>8
<1>4. /\ \A j \in Jobs : (job'[j].state \in Live) <=> (job[j].state \in Live)
      /\ \A g \in Guards : guard[g].pc \in InFold =>
           ((job'[guard[g].job].reply = "gone") <=> (job[guard[g].job].reply = "gone"))
  <2>1. CASE TakeJob
    <3>1. PICK j \in Jobs : queue = <<j>> /\ job[j].state = "queued"
      BY <2>1 DEF TakeJob, IInv, JobPlaces
    <3>2. job' = [job EXCEPT ![j].state = "running"] BY <2>1, <3>1 DEF TakeJob
    <3>3. \A i \in Jobs : /\ job'[i].state = (IF i = j THEN "running" ELSE job[i].state)
                          /\ job'[i].reply = job[i].reply
      BY <1>1, <3>1, <3>2 DEF JobStates
    <3> QED BY <3>1, <3>3, OwnedJob DEF Live
  <2>2. CASE Reply
    <3>1. /\ cur \in Jobs /\ job[cur].state = "done" /\ job[cur].reply = NoReply
          /\ job' = [job EXCEPT ![cur] = Ended(cur, worker.outcome)]
      BY <2>2 DEF Reply, IInv, JobPlaces
    <3>2. \A i \in Jobs \ {cur} : job'[i] = job[i] BY <1>1, <3>1
    <3>3. job'[cur].state \in {"free", "done"} BY <1>1, <3>1 DEF Ended, FreeJob, JobStates
    <3>4. ~job[cur].abandoned => job'[cur].reply = worker.outcome
      BY <1>1, <3>1 DEF Ended, JobStates
    <3>5. worker.outcome # "gone" BY <1>1 DEF WorkerStates, Outcomes, NoReply
    <3>6. \A g \in Guards : guard[g].pc \in InFold /\ guard[g].job = cur => ~job[cur].abandoned
      BY DEF IInv, GuardOwnsJob
    <3> QED BY <3>1, <3>2, <3>3, <3>4, <3>5, <3>6, OwnedJob DEF Live, NoReply
  <2>3. CASE ~(TakeJob \/ Reply)
    <3>1. job' = job
      BY <2>3 DEF StartCallback, EndCallback, FailFold, RefuseGate, FinishFold, CheckCancel
    <3> QED BY <3>1
  <2> QED BY <2>1, <2>2, <2>3
<1> QED BY <1>2, <1>3, <1>4, Invisible

\* When the worker's job, the only one alive, ends, whoever waits for it gets
\* the end the job left and nobody else notices.
LEMMA JobEnds ==
  ASSUME IInv, NEW end, worker.pc \in Busy,
         guard' = guard,
         \A i \in Jobs \ {cur} : job'[i] = job[i],
         job'[cur].state \notin Live,
         ~job[cur].abandoned =>
           end = IF job'[cur].reply = "gone" THEN "broken" ELSE "completed"
  PROVE  /\ JobAlive
         /\ \A j \in Jobs : job'[j].state \notin Live
         /\ Waiters' = {}
         /\ Calls' = [g \in Guards |-> IF g \in Waiters THEN end ELSE Calls[g]]
<1>1. cur \in Jobs /\ job[cur].state \in Live BY DEF IInv, JobPlaces, Live
<1>2. JobAlive BY <1>1 DEF JobAlive
<1>3. \A j \in Jobs : job[j].state \in Live => j = cur BY <1>1 DEF IInv, SingleClaim
<1>4. \A j \in Jobs : job'[j].state \notin Live BY <1>3
<1>5. \A g \in Guards : guard[g].pc \in InFold => guard[g].job \in Jobs BY OwnedJob
<1>6. Waiters' = {} BY <1>4, <1>5 DEF Waiters
<1>7. \A g \in Guards : g \in Waiters <=> (guard[g].pc \in InFold /\ guard[g].job = cur)
  BY <1>1, <1>3, <1>5 DEF Waiters
<1>8. \A g \in Waiters : Call(g)' = end
  BY <1>6, <1>7 DEF Call, Waiters, IInv, GuardOwnsJob
<1>9. \A g \in Guards \ Waiters : Call(g)' = Call(g)
  BY <1>5, <1>6, <1>7 DEF Call
<1>10. Calls' = [g \in Guards |-> IF g \in Waiters THEN end ELSE Calls[g]]
  BY <1>8, <1>9 DEF Calls
<1> QED BY <1>2, <1>4, <1>6, <1>10

\* A discarded job leaves its caller without a result.
LEMMA DiscardRefines ==
  ASSUME IInv, Discard
  PROVE  Service!Complete
<1>1. job \in [Jobs -> JobStates] BY DEF IInv, TypeOK
<1>2. /\ worker.pc = "discard" /\ health' = "ready" /\ guard' = guard /\ panicked' = panicked
      /\ worker' = IdleWorker /\ job' = [job EXCEPT ![cur] = Ended(cur, "gone")]
  BY DEF Discard
<1>3. cur \in Jobs BY <1>2 DEF IInv, JobPlaces, Busy
<1>4. \A i \in Jobs \ {cur} : job'[i] = job[i] BY <1>1, <1>2
<1>5. job'[cur] = Ended(cur, "gone") BY <1>1, <1>2, <1>3
<1>6. job'[cur].state \notin Live BY <1>1, <1>3, <1>5 DEF Ended, FreeJob, Live, JobStates
<1>7. ~job[cur].abandoned => job'[cur].reply = "gone" BY <1>1, <1>3, <1>5 DEF Ended, JobStates
<1>8. /\ JobAlive
      /\ \A j \in Jobs : job'[j].state \notin Live
      /\ Waiters' = {}
      /\ Calls' = [g \in Guards |-> IF g \in Waiters THEN "broken" ELSE Calls[g]]
  <2>1. worker.pc \in Busy BY <1>2 DEF Busy
  <2> QED BY <1>2, <1>4, <1>6, <1>7, <2>1, JobEnds
<1>9. JobAlive' = FALSE BY <1>2, <1>8 DEF JobAlive, IdleWorker
<1> QED BY <1>2, <1>8, <1>9 DEF Service!Complete

\* HEALTH becomes READY before the reply is sent: that is where the contract's
\* job ends with a result.
LEMMA PublishRefines ==
  ASSUME IInv, Publish
  PROVE  Service!Complete
<1>1. job \in [Jobs -> JobStates] /\ worker \in WorkerStates BY DEF IInv, TypeOK
<1>2. /\ worker.pc = "publish" /\ health' = "ready" /\ guard' = guard /\ panicked' = panicked
      /\ job' = [job EXCEPT ![cur].state = "done"]
  BY DEF Publish
<1>3. cur \in Jobs /\ job[cur].reply = NoReply
  BY <1>2 DEF IInv, JobPlaces, Busy, Live
<1>4. \A i \in Jobs \ {cur} : job'[i] = job[i] BY <1>1, <1>2
<1>5. job'[cur].state = "done" /\ job'[cur].reply = NoReply
  BY <1>1, <1>2, <1>3 DEF JobStates
<1>6. /\ JobAlive
      /\ \A j \in Jobs : job'[j].state \notin Live
      /\ Waiters' = {}
      /\ Calls' = [g \in Guards |-> IF g \in Waiters THEN "completed" ELSE Calls[g]]
  <2>1. worker.pc \in Busy BY <1>2 DEF Busy
  <2>2. job'[cur].state \notin Live BY <1>5 DEF Live
  <2>3. job'[cur].reply # "gone" BY <1>5 DEF NoReply
  <2> QED BY <1>2, <1>4, <2>1, <2>2, <2>3, JobEnds
<1>7. worker'.pc = "reply" BY <1>1 DEF Publish, WorkerStates
<1>8. JobAlive' = FALSE BY <1>6, <1>7 DEF JobAlive
<1> QED BY <1>2, <1>6, <1>8 DEF Service!Complete

\* A host panic drops the sender: the caller's fold is broken.
LEMMA HostPanicRefines ==
  ASSUME IInv, HostPanic
  PROVE  Service!Break
<1>1. job \in [Jobs -> JobStates] BY DEF IInv, TypeOK
<1>2. /\ worker.pc = "gate" /\ health' = health /\ guard' = guard /\ panicked' = panicked
      /\ worker'.pc = "panicked" /\ job' = [job EXCEPT ![cur] = Ended(cur, "gone")]
  BY DEF HostPanic, IdleWorker
<1>3. cur \in Jobs BY <1>2 DEF IInv, JobPlaces, Busy
<1>4. \A i \in Jobs \ {cur} : job'[i] = job[i] BY <1>1, <1>2
<1>5. job'[cur] = Ended(cur, "gone") BY <1>1, <1>2, <1>3
<1>6. job'[cur].state \notin Live BY <1>1, <1>3, <1>5 DEF Ended, FreeJob, Live, JobStates
<1>7. ~job[cur].abandoned => job'[cur].reply = "gone" BY <1>1, <1>3, <1>5 DEF Ended, JobStates
<1>8. /\ JobAlive
      /\ Waiters' = {}
      /\ Calls' = [g \in Guards |-> IF g \in Waiters THEN "broken" ELSE Calls[g]]
  <2>1. worker.pc \in Busy BY <1>2 DEF Busy
  <2> QED BY <1>2, <1>4, <1>6, <1>7, <2>1, JobEnds
<1>9. JobAlive' = JobAlive BY <1>2, <1>8 DEF JobAlive
<1> QED BY <1>2, <1>8, <1>9 DEF Service!Break

\* run_contained_job closes the service for good.
LEMMA ContainPanicRefines ==
  ASSUME IInv, ContainPanic
  PROVE  Service!Contain
<1>1. /\ worker.pc = "panicked" /\ health' = "quarantined" /\ panicked' = TRUE
      /\ worker' = IdleWorker /\ guard' = guard /\ job' = job
  BY DEF ContainPanic
<1>2. \A j \in Jobs : job[j].state \notin Live BY <1>1 DEF IInv, PanicEnds
<1>3. Waiters = {} BY <1>2, NothingAlive
<1>4. JobAlive BY <1>1 DEF JobAlive
<1>5. JobAlive' = FALSE BY <1>1, <1>2 DEF JobAlive, IdleWorker
<1>6. Waiters' = Waiters BY <1>1 DEF Waiters
<1>7. Calls' = Calls BY <1>1, <1>6 DEF Calls, Call
<1> QED BY <1>1, <1>3, <1>4, <1>5, <1>6, <1>7 DEF Service!Contain

\* Every step of the executor is a step of the contract or invisible to it.
LEMMA StepRefines ==
  ASSUME IInv, [Next]_vars
  PROVE  [Service!Next]_(Service!vars)
<1>1. SameView => UNCHANGED Service!vars BY DEF SameView, Service!vars
<1>2. ASSUME NEW g \in Guards, GuardStep(g) PROVE [Service!Next]_(Service!vars)
  <2>1. CASE Claim(g) BY <2>1, ClaimRefines DEF Service!Next
  <2>2. CASE Receive(g) BY <2>2, ReceiveRefines DEF Service!Next
  <2>3. CASE Quarantine(g) BY <2>3, QuarantineRefines DEF Service!Next
  <2>4. CASE \/ StartRelease(g) \/ Admit(g) \/ NextArm(g) \/ HandOff(g) \/ EndRelease(g)
             \/ Send(g) \/ TimeOut(g)
    BY <1>1, <2>4, GuardInvisible
  <2> QED BY <1>2, <2>1, <2>2, <2>3, <2>4 DEF GuardStep
<1>3. CASE WorkerStep
  <2>1. CASE Discard BY <2>1, DiscardRefines DEF Service!Next
  <2>2. CASE Publish BY <2>2, PublishRefines DEF Service!Next
  <2>3. CASE HostPanic BY <2>3, HostPanicRefines DEF Service!Next
  <2>4. CASE ContainPanic BY <2>4, ContainPanicRefines DEF Service!Next
  <2>5. CASE \/ TakeJob \/ StartCallback \/ EndCallback \/ FailFold \/ RefuseGate \/ FinishFold
             \/ CheckCancel \/ Reply
    BY <1>1, <2>5, WorkerInvisible
  <2> QED BY <1>3, <2>1, <2>2, <2>3, <2>4, <2>5 DEF WorkerStep
<1>4. CASE Tick BY <1>1, <1>4, TickInvisible
<1>5. CASE UNCHANGED vars
  <2>1. SameView BY <1>5 DEF vars, SameView, JobAlive, Waiters, Calls, Call
  <2> QED BY <1>1, <2>1
<1> QED BY <1>2, <1>3, <1>4, <1>5 DEF Next

\* The staged fold executor implements FoldService, the contract the protected
\* releases are written against: a fold begins only in a ready executor with
\* no job alive, a result reaches only the caller whose own job completed, a
\* fold that gives up leaves an orphan behind a quarantine, and a contained
\* host panic closes the executor (claim_worker, fold, run_contained_job).
THEOREM ExecutorImplementsFoldService == Spec => ImplementsFoldService
<1>1. Init => Service!Init BY InitRefines
<1>2. IInv /\ [Next]_vars => [Service!Next]_(Service!vars) BY StepRefines
<1>3. Spec => []IInv BY Invariance
<1> QED BY <1>1, <1>2, <1>3, PTL DEF Spec, ImplementsFoldService, Service!Spec

=============================================================================
