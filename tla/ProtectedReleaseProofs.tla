----------------------- MODULE ProtectedReleaseProofs -----------------------
(***************************************************************************)
(* Proofs about protected Replay and Compare, for any number of concurrent *)
(* releases over the shared executor.                                      *)
(***************************************************************************)
EXTENDS ProtectedRelease, FiniteSetTheorems, TLAPS

\* The executor's, the registries' and the hosts' part of TypeOK.
ExecutorTypes ==
  /\ health \in {"ready", "busy", "quarantined"}
  /\ alive \in BOOLEAN /\ owner \in SUBSET Releases /\ dead \in BOOLEAN
  /\ call \in [Releases -> {"out", "working", "completed", "broken"}]

RegistryTypes == registry \in [Releases -> [Arms -> {"prior", "forgotten", "installed"}]]
HostTypes == host \in [Releases -> {"ready", "poisoned"}]

----------------------------------------------------------------------------
(* Lemmas                                                                  *)

\* Every step of the fold contract (StagedFoldExecutorV1::fold) keeps the
\* executor's types.
LEMMA FoldTypes ==
  ASSUME TypeOK,
         \/ \E r \in Releases : Fold!Begin(r) \/ Fold!Deliver(r) \/ Fold!GiveUp(r)
         \/ Fold!Complete \/ Fold!Break \/ Fold!Contain
         \/ UNCHANGED executor
  PROVE  ExecutorTypes'
<1> USE DEF TypeOK, ExecutorTypes
<1>1. ASSUME NEW r \in Releases, Fold!Begin(r) \/ Fold!Deliver(r) \/ Fold!GiveUp(r)
      PROVE  ExecutorTypes'
  BY <1>1 DEF Fold!Begin, Fold!Deliver, Fold!GiveUp
<1>2. ASSUME Fold!Complete \/ Fold!Break \/ Fold!Contain PROVE ExecutorTypes'
  BY <1>2 DEF Fold!Complete, Fold!Break, Fold!Contain
<1>3. ASSUME UNCHANGED executor PROVE ExecutorTypes'
  BY <1>3 DEF executor
<1> QED BY <1>1, <1>2, <1>3

\* A step of one release leaves what is proved of the others.
LEMMA OthersKept ==
  ASSUME NEW q \in Releases, ReleaseOK(q),
         rel'[q] = rel[q], registry'[q] = registry[q], host'[q] = host[q]
  PROVE  ReleaseOK(q)'
BY DEF ReleaseOK, Undecided, ArmsInOrder, Decided, Forgotten

\* A step in which release r goes to state s keeps the invariant if it keeps it
\* for r and the other releases keep their registries and hosts.
LEMMA OneRelease ==
  ASSUME IInv, NEW r \in Releases, NEW s \in ReleaseStates,
         rel' = [rel EXCEPT ![r] = s],
         ExecutorTypes', RegistryTypes', HostTypes',
         \A q \in Releases \ {r} : registry'[q] = registry[q] /\ host'[q] = host[q],
         ReleaseOK(r)'
  PROVE  IInv'
<1>1. rel \in [Releases -> ReleaseStates] BY DEF IInv, TypeOK
<1>2. TypeOK' BY <1>1 DEF TypeOK, ExecutorTypes, RegistryTypes, HostTypes
<1>3. ASSUME NEW q \in Releases \ {r} PROVE ReleaseOK(q)'
  <2>1. rel'[q] = rel[q] BY <1>1
  <2> QED BY <2>1, OthersKept DEF IInv
<1> QED BY <1>2, <1>3 DEF IInv

\* The same for a step that leaves the registries and hosts alone.
LEMMA OneReleaseAlone ==
  ASSUME IInv, NEW r \in Releases, NEW s \in ReleaseStates,
         rel' = [rel EXCEPT ![r] = s],
         ExecutorTypes', UNCHANGED <<registry, host>>,
         ReleaseOK(r)'
  PROVE  IInv'
<1>1. RegistryTypes' /\ HostTypes' BY DEF IInv, TypeOK, RegistryTypes, HostTypes
<1> QED BY <1>1, OneRelease

\* Dropping the pending guard of an undecided release evaluates P2 once.
LEMMA DropPendingOnce ==
  ASSUME NEW s \in ReleaseStates, s.armed, s.p2 = 0
  PROVE  DropPending(s) = [s EXCEPT !.p2 = 1, !.armed = FALSE, !.guard = FALSE]
BY DEF DropPending, ReleaseStates

\* The initial record has its type.
LEMMA IdleType == Idle \in ReleaseStates
BY DEF Idle, ReleaseStates, Arms, InFence

----------------------------------------------------------------------------
(* Steps                                                                   *)

\* A new release owns its guard and its armed P2.
LEMMA StartKeeps ==
  ASSUME IInv, NEW r \in Releases, Start(r)
  PROVE  IInv'
<1>1. PICK n \in Arms :
        rel' = [rel EXCEPT ![r] = [Idle EXCEPT !.pc = "admit", !.arms = n, !.guard = TRUE,
                                               !.armed = TRUE]]
  BY DEF Start
<1> DEFINE s == [Idle EXCEPT !.pc = "admit", !.arms = n, !.guard = TRUE, !.armed = TRUE]
<1>2. s \in ReleaseStates
  <2>1. \A q \in ReleaseStates :
          [q EXCEPT !.pc = "admit", !.arms = n, !.guard = TRUE, !.armed = TRUE] \in ReleaseStates
    BY DEF ReleaseStates
  <2> QED BY <2>1, IdleType
<1>3. rel'[r] = s BY <1>1 DEF IInv, TypeOK
<1>4. ExecutorTypes' BY FoldTypes DEF IInv, Start
<1>5. /\ RegistryTypes' /\ HostTypes'
      /\ \A q \in Releases \ {r} : registry'[q] = registry[q] /\ host'[q] = host[q]
      /\ \A a \in Arms : registry'[r][a] = "prior"
  BY DEF IInv, TypeOK, RegistryTypes, HostTypes, Start
<1>6. ReleaseOK(r)'
  BY <1>3, <1>5 DEF ReleaseOK, Undecided, ArmsInOrder, Decided, Forgotten, Idle, BeforeFence,
     AfterFence, InFence
<1> HIDE DEF s
<1> QED BY <1>1, <1>2, <1>4, <1>5, <1>6, OneRelease DEF s

\* The steps of an undecided release that only move it on.
LEMMA ForwardKeeps ==
  ASSUME IInv, NEW r \in Releases,
         \/ RequireStaged(r) \/ PrepareReads(r) \/ EnterGates(r) \/ Verify(r)
         \/ BeginFold(r) \/ Stage(r) \/ VerdictOk(r)
  PROVE  IInv'
<1> DEFINE next(pc) ==
      CASE pc = "admit" -> "prepare" [] pc = "prepare" -> "interval" [] pc = "gates" -> "verify"
        [] pc = "verify" -> "read" [] pc = "fold" -> "folding" [] pc = "staging" -> "staged"
        [] pc = "staged" -> "handoff"
    s == [rel[r] EXCEPT !.pc = next(rel[r].pc)]
<1>1. rel[r] \in ReleaseStates /\ rel \in [Releases -> ReleaseStates] /\ ReleaseOK(r)
  BY DEF IInv, TypeOK
<1>2. /\ rel[r].pc \in {"admit", "prepare", "gates", "verify", "fold", "staging", "staged"}
      /\ rel' = [rel EXCEPT ![r] = s]
      /\ UNCHANGED <<registry, host>>
  BY <1>1 DEF RequireStaged, PrepareReads, EnterGates, Verify, BeginFold, Stage, VerdictOk
<1>3. s \in ReleaseStates BY <1>1, <1>2 DEF ReleaseStates, InFence
<1>4. ExecutorTypes'
  BY FoldTypes DEF IInv, RequireStaged, PrepareReads, EnterGates, Verify, BeginFold, Stage,
     VerdictOk
<1>5. rel'[r] = s BY <1>1, <1>2
<1>6. ReleaseOK(r)'
  BY <1>1, <1>2, <1>5 DEF ReleaseOK, Undecided, ArmsInOrder, Decided, Forgotten, BeforeFence,
     AfterFence, InFence, ReleaseStates
<1> HIDE DEF s
<1> QED BY <1>2, <1>3, <1>4, <1>6, OneReleaseAlone

\* An interval is begun, owned or lent.
LEMMA BeginIntervalKeeps ==
  ASSUME IInv, NEW r \in Releases, BeginInterval(r)
  PROVE  IInv'
<1>1. rel[r] \in ReleaseStates /\ rel \in [Releases -> ReleaseStates] /\ ReleaseOK(r)
  BY DEF IInv, TypeOK
<1>2. PICK i \in {"owned", "unowned"} : rel' = [rel EXCEPT ![r].pc = "gates", ![r].interval = i]
  BY DEF BeginInterval
<1> DEFINE s == [rel[r] EXCEPT !.pc = "gates", !.interval = i]
<1>3. rel' = [rel EXCEPT ![r] = s] BY <1>1, <1>2
<1>4. s \in ReleaseStates BY <1>1 DEF ReleaseStates, InFence
<1>5. ExecutorTypes' BY FoldTypes DEF IInv, BeginInterval
<1>6. rel'[r] = s BY <1>1, <1>3
<1>7. rel[r].pc = "interval" /\ UNCHANGED <<registry, host>> BY DEF BeginInterval
<1>8. ReleaseOK(r)'
  BY <1>1, <1>6, <1>7 DEF ReleaseOK, Undecided, ArmsInOrder, Decided, Forgotten, BeforeFence,
     AfterFence, InFence, ReleaseStates
<1> HIDE DEF s
<1> QED BY <1>3, <1>4, <1>5, <1>7, <1>8, OneReleaseAlone

\* The next arm is read: after the last one the release goes on to fold.
LEMMA ReadArmKeeps ==
  ASSUME IInv, NEW r \in Releases, ReadArm(r)
  PROVE  IInv'
<1>1. rel[r] \in ReleaseStates /\ rel \in [Releases -> ReleaseStates] /\ ReleaseOK(r)
  BY DEF IInv, TypeOK
<1>2. /\ rel[r].pc = "read" /\ UNCHANGED <<registry, host>> /\ UNCHANGED executor
      /\ rel[r].arms \in Arms /\ rel[r].folded = 0
      /\ rel[r].read = {} \/ (rel[r].read = {1} /\ rel[r].arms = 2)
  BY <1>1 DEF ReadArm, ReleaseOK, Undecided, ArmsInOrder, InFence
<1> DEFINE a == Cardinality(rel[r].read) + 1
           s == [rel[r] EXCEPT !.read = rel[r].read \cup {a},
                               !.pc = IF a = rel[r].arms THEN "fold" ELSE "read"]
<1>3. rel' = [rel EXCEPT ![r] = s] BY <1>1 DEF ReadArm
<1>4. a = IF rel[r].read = {} THEN 1 ELSE 2
  <2>1. Cardinality({}) = 0 /\ Cardinality({1}) = 1 BY FS_EmptySet, FS_Singleton
  <2> QED BY <1>2, <2>1
<1>5. s \in ReleaseStates
  <2>1. rel[r].read \cup {a} \in SUBSET Arms BY <1>2, <1>4 DEF Arms
  <2> HIDE DEF a
  <2> QED BY <1>1, <2>1 DEF ReleaseStates, InFence
<1>6. ExecutorTypes' BY <1>2, FoldTypes DEF IInv
<1>7. /\ rel'[r].pc = (IF a = rel[r].arms THEN "fold" ELSE "read")
      /\ rel'[r].read = rel[r].read \cup {a} /\ rel'[r].folded = 0
      /\ rel'[r].guard = rel[r].guard /\ rel'[r].armed = rel[r].armed
      /\ rel'[r].p2 = rel[r].p2 /\ rel'[r].end = rel[r].end /\ rel'[r].arms = rel[r].arms
      /\ rel'[r].interval = rel[r].interval
  BY <1>1, <1>2, <1>3 DEF ReleaseStates
<1>8. /\ rel'[r].pc = "fold" => rel'[r].read = 1..rel'[r].arms /\ rel'[r].folded < rel'[r].arms
      /\ rel'[r].pc = "read" => rel'[r].read = {1} /\ rel'[r].arms = 2
  <2> HIDE DEF a
  <2>1. 1..1 = {1} /\ 1..2 = {1, 2} OBVIOUS
  <2> QED BY <1>2, <1>4, <1>7, <2>1 DEF Arms
<1>9. ReleaseOK(r)'
  BY <1>1, <1>2, <1>7, <1>8 DEF ReleaseOK, Undecided, ArmsInOrder, Decided, Forgotten,
     BeforeFence, AfterFence, InFence
<1> HIDE DEF s
<1> QED BY <1>2, <1>3, <1>5, <1>6, <1>9, OneReleaseAlone

\* A delivered fold counts an arm.
LEMMA EndFoldKeeps ==
  ASSUME IInv, NEW r \in Releases, EndFold(r)
  PROVE  IInv'
<1>1. rel[r] \in ReleaseStates /\ rel \in [Releases -> ReleaseStates] /\ ReleaseOK(r)
  BY DEF IInv, TypeOK
<1>2. /\ rel[r].pc = "folding" /\ UNCHANGED <<registry, host>>
      /\ rel[r].arms \in Arms /\ rel[r].folded \in 0..2 /\ rel[r].folded < rel[r].arms
      /\ rel[r].read = 1..rel[r].arms
  BY <1>1 DEF EndFold, ReleaseOK, Undecided, ArmsInOrder, InFence, ReleaseStates
<1> DEFINE s == [rel[r] EXCEPT !.folded = rel[r].folded + 1,
                   !.pc = IF rel[r].folded + 1 = rel[r].arms THEN "staging" ELSE "fold"]
<1>3. rel' = [rel EXCEPT ![r] = s] BY <1>1 DEF EndFold
<1>4. s \in ReleaseStates
  <2>1. rel[r].folded + 1 \in 0..2 BY <1>2 DEF Arms
  <2> QED BY <1>1, <2>1 DEF ReleaseStates, InFence
<1>5. ExecutorTypes' BY FoldTypes DEF IInv, EndFold
<1>6. rel'[r] = s BY <1>1, <1>3
<1>7. ReleaseOK(r)'
  BY <1>1, <1>2, <1>6 DEF ReleaseOK, Undecided, ArmsInOrder, Decided, Forgotten,
     BeforeFence, AfterFence, InFence, ReleaseStates, Arms
<1> HIDE DEF s
<1> QED BY <1>2, <1>3, <1>4, <1>5, <1>7, OneReleaseAlone

\* A release that gives up drops its pending guard; nothing was installed.
LEMMA GivingUpKeeps ==
  ASSUME IInv, NEW r \in Releases, rel[r].pc \in BeforeFence \cup InFence,
         NEW pc \in AfterFence, NEW end \in {"err", "unwound"},
         NEW i \in {"none", "owned", "unowned"},
         rel' = [rel EXCEPT ![r] = [DropPending(rel[r]) EXCEPT !.pc = pc, !.end = end,
                                                               !.interval = i]],
         pc # "rollback" => i = "none",
         pc # "done" => end = "err",
         pc = "done" => rel[r].read = {} \/ host'[r] = "poisoned",
         ExecutorTypes', registry' = registry, HostTypes',
         \A q \in Releases \ {r} : host'[q] = host[q]
  PROVE  IInv'
<1>1. rel[r] \in ReleaseStates /\ rel \in [Releases -> ReleaseStates] /\ ReleaseOK(r)
  BY DEF IInv, TypeOK
<1>2. /\ rel[r].armed /\ rel[r].p2 = 0 /\ rel[r].arms \in Arms
      /\ \A a \in Arms : registry[r][a] = "prior"
  BY <1>1 DEF ReleaseOK, Undecided
<1> DEFINE s == [rel[r] EXCEPT !.p2 = 1, !.armed = FALSE, !.guard = FALSE, !.pc = pc, !.end = end,
                               !.interval = i]
<1>3. rel' = [rel EXCEPT ![r] = s]
  <2>1. DropPending(rel[r]) = [rel[r] EXCEPT !.p2 = 1, !.armed = FALSE, !.guard = FALSE]
    BY <1>1, <1>2, DropPendingOnce
  <2> QED BY <2>1
<1>4. s \in ReleaseStates
  <2>1. 1 \in 0..1 /\ end \in {"none", "ok", "err", "unwound"}
        /\ pc \in InFence \cup {"idle", "admit", "prepare", "interval", "rollback", "return", "done"}
    BY DEF AfterFence
  <2> QED BY <1>1, <2>1 DEF ReleaseStates
<1>a. rel'[r] = s BY <1>1, <1>3
<1>5. /\ rel'[r].pc = pc /\ rel'[r].end = end /\ rel'[r].interval = i
      /\ rel'[r].p2 = 1 /\ ~rel'[r].armed /\ ~rel'[r].guard
      /\ rel'[r].arms = rel[r].arms /\ rel'[r].read = rel[r].read
  BY <1>1, <1>a DEF ReleaseStates
<1>6. rel[r].read \subseteq 1..rel[r].arms
  <2>1. {1} \subseteq 1..2 OBVIOUS
  <2> QED BY <1>1, <2>1 DEF ReleaseOK, ArmsInOrder, BeforeFence, InFence
<1>7. ReleaseOK(r)'
  <2>1. 1..rel[r].arms \subseteq Arms BY <1>2 DEF Arms
  <2> QED BY <1>2, <1>5, <1>6, <2>1 DEF ReleaseOK, Undecided, ArmsInOrder, Decided, Forgotten,
     BeforeFence, AfterFence, InFence
<1>8. RegistryTypes' BY DEF IInv, TypeOK, RegistryTypes
<1> HIDE DEF s
<1> QED BY <1>3, <1>4, <1>7, <1>8, OneRelease

\* Every refusal before the handoff, and a panic.
LEMMA FailuresKeep ==
  ASSUME IInv, NEW r \in Releases,
         FailEarly(r) \/ FailFold(r) \/ FailPrepare(r) \/ VerdictFails(r) \/ Unwind(r)
  PROVE  IInv'
<1>1. rel[r] \in ReleaseStates /\ rel \in [Releases -> ReleaseStates] /\ ReleaseOK(r)
  BY DEF IInv, TypeOK
<1>2. /\ rel[r].pc \in BeforeFence \cup InFence /\ registry' = registry /\ HostTypes'
      /\ \A q \in Releases \ {r} : host'[q] = host[q]
  BY DEF FailEarly, FailFold, FailPrepare, VerdictFails, SettleInterval, Unwind, BeforeFence,
     InFence, HostTypes, IInv, TypeOK
<1>3. ExecutorTypes'
  BY FoldTypes DEF IInv, FailEarly, FailFold, FailPrepare, VerdictFails, Unwind
<1>4. rel[r].interval \in {"none", "owned", "unowned"} BY <1>1 DEF ReleaseStates
<1>5. \A pc, end : [DropPending(rel[r]) EXCEPT !.pc = pc, !.end = end] =
                   [DropPending(rel[r]) EXCEPT !.pc = pc, !.end = end,
                                               !.interval = rel[r].interval]
  BY <1>1 DEF DropPending, ReleaseStates
<1>6. CASE FailEarly(r)
  <2>1. rel[r].interval = "none"
    BY <1>1, <1>6 DEF FailEarly, ReleaseOK, Undecided, BeforeFence
  <2>2. rel' = [rel EXCEPT ![r] = [DropPending(rel[r]) EXCEPT !.pc = "return", !.end = "err",
                                                              !.interval = "none"]]
    BY <1>5, <1>6, <2>1 DEF FailEarly
  <2> QED BY <1>2, <1>3, <2>2, GivingUpKeeps DEF AfterFence
<1>7. CASE FailFold(r) \/ FailPrepare(r)
  <2>1. rel' = [rel EXCEPT ![r] = [DropPending(rel[r]) EXCEPT !.pc = "rollback", !.end = "err",
                                     !.interval = rel[r].interval]]
    BY <1>5, <1>7 DEF FailFold, FailPrepare
  <2> QED BY <1>2, <1>3, <1>4, <2>1, GivingUpKeeps DEF AfterFence
<1>8. CASE VerdictFails(r)
  BY <1>2, <1>3, <1>8, GivingUpKeeps DEF VerdictFails, AfterFence
<1>9. CASE Unwind(r)
  <2>1. rel[r].read = {} \/ host'[r] = "poisoned"
    BY <1>1, <1>9 DEF Unwind, ReleaseOK, ArmsInOrder, BeforeFence, IInv, TypeOK
  <2> QED BY <1>2, <1>3, <1>9, <2>1, GivingUpKeeps DEF Unwind, AfterFence
<1> QED BY <1>6, <1>7, <1>8, <1>9

\* The handoff installs every arm, or releases the guard and evaluates P2.
LEMMA HandoffKeeps ==
  ASSUME IInv, NEW r \in Releases, HandoffOk(r) \/ HandoffRefused(r)
  PROVE  IInv'
<1>1. rel[r] \in ReleaseStates /\ rel \in [Releases -> ReleaseStates] /\ ReleaseOK(r)
  BY DEF IInv, TypeOK
<1>2. /\ rel[r].pc = "handoff" /\ rel[r].arms \in Arms /\ rel[r].p2 = 0
      /\ rel[r].read = 1..rel[r].arms /\ 1..rel[r].arms \subseteq Arms
      /\ registry \in [Releases -> [Arms -> {"prior", "forgotten", "installed"}]]
      /\ \A a \in Arms : registry[r][a] = "prior"
  BY <1>1 DEF HandoffOk, HandoffRefused, ReleaseOK, Undecided, ArmsInOrder, InFence, Arms, IInv,
     TypeOK
<1>3. ExecutorTypes' BY FoldTypes DEF IInv, HandoffOk, HandoffRefused
<1>4. HostTypes' /\ host' = host BY DEF HandoffOk, HandoffRefused, HostTypes, IInv, TypeOK
<1>5. CASE HandoffOk(r)
  <2> DEFINE s == [rel[r] EXCEPT !.pc = "rollback", !.end = "ok", !.armed = FALSE, !.guard = FALSE]
  <2>1. rel' = [rel EXCEPT ![r] = s] /\ rel'[r] = s BY <1>1, <1>5 DEF HandoffOk
  <2>2. s \in ReleaseStates BY <1>1 DEF ReleaseStates
  <2>3. /\ RegistryTypes' /\ \A q \in Releases \ {r} : registry'[q] = registry[q]
        /\ \A a \in 1..rel[r].arms : registry'[r][a] = "installed"
    BY <1>2, <1>5 DEF HandoffOk, RegistryTypes, Arms
  <2>4. ReleaseOK(r)'
    BY <1>1, <1>2, <2>1, <2>3 DEF ReleaseOK, Undecided, ArmsInOrder, Decided, Forgotten,
       BeforeFence, AfterFence, InFence, ReleaseStates
  <2> HIDE DEF s
  <2> QED BY <1>3, <1>4, <2>1, <2>2, <2>3, <2>4, OneRelease
<1>6. CASE HandoffRefused(r)
  <2> DEFINE s == [rel[r] EXCEPT !.pc = "rollback", !.end = "err", !.p2 = 1, !.armed = FALSE,
                                 !.guard = FALSE]
  <2>0. rel[r].p2 + 1 = 1 /\ 1 \in 0..1 BY <1>2
  <2>1. rel' = [rel EXCEPT ![r] = s] /\ rel'[r] = s BY <1>1, <1>6, <2>0 DEF HandoffRefused
  <2>2. s \in ReleaseStates BY <1>1, <2>0 DEF ReleaseStates
  <2>3. registry' = registry BY <1>6 DEF HandoffRefused
  <2>4. ReleaseOK(r)'
    BY <1>1, <1>2, <2>1, <2>3 DEF ReleaseOK, Undecided, ArmsInOrder, Decided, Forgotten,
       BeforeFence, AfterFence, InFence, ReleaseStates
  <2> HIDE DEF s
  <2> QED BY <1>3, <1>4, <2>1, <2>2, <2>3, <2>4, OneReleaseAlone
<1> QED BY <1>5, <1>6

\* The interval is settled; a host poisoned by that does not change the result.
LEMMA RollbackKeeps ==
  ASSUME IInv, NEW r \in Releases, Rollback(r)
  PROVE  IInv'
<1>1. rel[r] \in ReleaseStates /\ rel \in [Releases -> ReleaseStates] /\ ReleaseOK(r)
  BY DEF IInv, TypeOK
<1> DEFINE s == [rel[r] EXCEPT !.pc = "return", !.interval = "none"]
<1>2. rel' = [rel EXCEPT ![r] = s] /\ rel'[r] = s BY <1>1 DEF Rollback
<1>3. s \in ReleaseStates BY <1>1 DEF ReleaseStates
<1>4. /\ ExecutorTypes' /\ RegistryTypes' /\ registry' = registry
  BY FoldTypes DEF IInv, TypeOK, RegistryTypes, Rollback
<1>5. HostTypes' /\ \A q \in Releases \ {r} : host'[q] = host[q]
  BY DEF IInv, TypeOK, HostTypes, Rollback, SettleInterval
<1>6. rel[r].pc = "rollback" BY DEF Rollback
<1>7. ReleaseOK(r)'
  BY <1>1, <1>2, <1>4, <1>6 DEF ReleaseOK, Undecided, ArmsInOrder, Decided, Forgotten,
     BeforeFence, AfterFence, InFence, ReleaseStates
<1> HIDE DEF s
<1> QED BY <1>2, <1>3, <1>4, <1>5, <1>7, OneRelease

\* forget_on_failure removes the revoked subject from every arm that was read.
LEMMA ReturnKeeps ==
  ASSUME IInv, NEW r \in Releases, Return(r)
  PROVE  IInv'
<1>1. rel[r] \in ReleaseStates /\ rel \in [Releases -> ReleaseStates] /\ ReleaseOK(r)
  BY DEF IInv, TypeOK
<1> DEFINE s == [rel[r] EXCEPT !.pc = "done"]
<1>2. rel' = [rel EXCEPT ![r] = s] /\ rel'[r] = s BY <1>1 DEF Return
<1>3. s \in ReleaseStates BY <1>1 DEF ReleaseStates
<1>4. ExecutorTypes' /\ HostTypes' /\ host' = host
  BY FoldTypes DEF IInv, TypeOK, HostTypes, Return
<1>5. /\ RegistryTypes' /\ \A q \in Releases \ {r} : registry'[q] = registry[q]
      /\ \A a \in Arms : registry'[r][a] =
           IF rel[r].end = "err" /\ a \in rel[r].read /\ registry[r][a] = "prior"
           THEN "forgotten" ELSE registry[r][a]
  BY DEF IInv, TypeOK, RegistryTypes, Return, Forget
<1>6. /\ rel[r].pc = "return" /\ rel[r].arms \in Arms /\ rel[r].read \subseteq 1..rel[r].arms
      /\ 1..rel[r].arms \subseteq Arms /\ rel[r].end \in {"ok", "err"}
      /\ \A a \in 1..rel[r].arms : (rel[r].end = "ok") <=> (registry[r][a] = "installed")
  BY <1>1 DEF Return, ReleaseOK, Decided, AfterFence, Arms
<1>7. \A a \in 1..rel[r].arms : (rel[r].end = "ok") <=> (registry'[r][a] = "installed")
  BY <1>5, <1>6
<1>8. \A a \in rel[r].read : registry'[r][a] # "prior"
  BY <1>5, <1>6
<1>9. ReleaseOK(r)'
  BY <1>1, <1>2, <1>6, <1>7, <1>8 DEF ReleaseOK, Undecided, ArmsInOrder, Decided, Forgotten,
     BeforeFence, AfterFence, InFence, ReleaseStates
<1> HIDE DEF s
<1> QED BY <1>2, <1>3, <1>4, <1>5, <1>9, OneRelease

\* The worker goes on by itself and touches no release.
LEMMA WorkKeeps ==
  ASSUME IInv, Work \/ UNCHANGED vars
  PROVE  IInv'
<1>1. UNCHANGED <<rel, registry, host>> BY DEF Work, vars
<1>2. ExecutorTypes' BY FoldTypes DEF IInv, Work, vars
<1>3. TypeOK' BY <1>1, <1>2 DEF IInv, TypeOK, ExecutorTypes
<1>4. \A q \in Releases : ReleaseOK(q)' BY <1>1, OthersKept DEF IInv
<1> QED BY <1>3, <1>4 DEF IInv

----------------------------------------------------------------------------
(* Theorems                                                                *)

\* The invariant holds before the first release.
LEMMA InitKeeps == Init => IInv
<1> SUFFICES ASSUME Init PROVE IInv OBVIOUS
<1>1. TypeOK BY IdleType DEF Init, Fold!Init, TypeOK
<1>2. ASSUME NEW r \in Releases PROVE ReleaseOK(r)
  BY DEF Init, Idle, ReleaseOK, Undecided, ArmsInOrder, Decided, Forgotten, BeforeFence,
     AfterFence, InFence
<1> QED BY <1>1, <1>2 DEF IInv

\* Every step of a release, a panic and the worker keep it.
LEMMA NextKeeps == IInv /\ [Next]_vars => IInv'
<1> SUFFICES ASSUME IInv, [Next]_vars PROVE IInv' OBVIOUS
<1>1. ASSUME NEW r \in Releases, Start(r) \/ Step(r) \/ Unwind(r) PROVE IInv'
  BY <1>1, StartKeeps, ForwardKeeps, BeginIntervalKeeps, ReadArmKeeps, EndFoldKeeps,
     FailuresKeep, HandoffKeeps, RollbackKeeps, ReturnKeeps DEF Step
<1>2. ASSUME Work \/ UNCHANGED vars PROVE IInv' BY <1>2, WorkKeeps
<1> QED BY <1>1, <1>2 DEF Next

\* Every reachable state satisfies the inductive invariant.
THEOREM Invariance == Spec => []IInv
BY InitKeeps, NextKeeps, PTL DEF Spec

\* The variables keep their types: P2 is never evaluated twice, and no arm is
\* read or folded beyond the second.
THEOREM ReleaseTypeOK == Spec => []TypeOK
BY Invariance, PTL DEF IInv

\* A release that says it succeeded has installed all its arms, one that does
\* not has installed none (ReadFenceV1::arm, PreparedInstallPairV1::commit).
THEOREM ReleaseResultMatchesRegistry == Spec => []ResultMatchesRegistry
<1>1. IInv => ResultMatchesRegistry
  BY DEF IInv, ReleaseOK, Decided, ResultMatchesRegistry, Ended, AfterFence
<1> QED BY <1>1, Invariance, PTL

\* A revoked subject that was read is gone, or behind a poisoned host, when the
\* release ends (forget_on_failure, the unwinding read fence).
THEOREM ReleaseRevokedNotVisible == Spec => []RevokedNotVisible
<1>1. IInv => RevokedNotVisible
  BY DEF IInv, ReleaseOK, Forgotten, RevokedNotVisible, Ended
<1> QED BY <1>1, Invariance, PTL

\* P2 has one owner on every path (PendingReplayGuardV1, handoff_with_p2_on).
THEOREM ReleaseP2Once == Spec => []P2Once
<1>1. IInv => P2Once
  <2> SUFFICES ASSUME IInv, NEW r \in Releases
               PROVE  /\ Ended(r) => /\ ~rel[r].guard
                                     /\ rel[r].p2 = (IF rel[r].end = "ok" THEN 0 ELSE 1)
                      /\ rel[r].armed => rel[r].guard
    BY DEF P2Once
  <2>1. ReleaseOK(r) /\ rel[r] \in ReleaseStates BY DEF IInv, TypeOK
  <2> QED BY <2>1 DEF ReleaseOK, Undecided, Decided, Ended, Idle, BeforeFence, AfterFence,
     InFence, ReleaseStates
<1> QED BY <1>1, Invariance, PTL

\* A registry changes only by installing all folded arms under the open guard,
\* or by forgetting arms that were read once guard and interval are given up.
THEOREM ReleaseRegistrySteps == Spec => RegistrySteps
<1> DEFINE Allowed(r) ==
      registry'[r] # registry[r] /\ ~(Ended(r) \/ rel[r].pc = "idle") =>
       \/ /\ rel[r].guard /\ rel[r].interval # "none"
          /\ rel[r].folded = rel[r].arms /\ rel[r].read = 1..rel[r].arms
          /\ \A a \in 1..rel[r].arms : registry'[r][a] = "installed"
       \/ /\ ~rel[r].guard /\ rel[r].interval = "none"
          /\ \A a \in Arms \ rel[r].read : registry'[r][a] = registry[r][a]
<1>1. ASSUME IInv, Next, NEW r \in Releases PROVE Allowed(r)
  <2>1. CASE registry'[r] = registry[r] BY <2>1
  <2>2. CASE HandoffOk(r)
    <3>1. ReleaseOK(r) /\ rel[r].pc = "handoff" /\ rel[r].arms \in Arms
      BY <1>1, <2>2 DEF IInv, HandoffOk, ReleaseOK, Undecided, InFence
    <3>2. \A a \in 1..rel[r].arms : registry'[r][a] = "installed"
      BY <1>1, <2>2, <3>1 DEF HandoffOk, IInv, TypeOK, Arms
    <3> QED BY <3>1, <3>2 DEF ReleaseOK, Undecided, ArmsInOrder, InFence, BeforeFence
  <2>3. CASE Return(r)
    <3>1. ReleaseOK(r) /\ rel[r].pc = "return" BY <1>1, <2>3 DEF IInv, Return
    <3>2. \A a \in Arms \ rel[r].read : registry'[r][a] = registry[r][a]
      BY <1>1, <2>3 DEF Return, IInv, TypeOK
    <3> QED BY <3>1, <3>2 DEF ReleaseOK, Decided, AfterFence
  <2>4. CASE Start(r) BY <2>4 DEF Start, Ended
  <2>5. ASSUME NEW q \in Releases, Start(q) \/ HandoffOk(q) \/ Return(q), q # r
        PROVE  registry'[r] = registry[r]
    BY <1>1, <2>5 DEF Start, HandoffOk, Return, IInv, TypeOK
  <2>6. ASSUME NEW q \in Releases, Step(q) \/ Unwind(q), ~HandoffOk(q), ~Return(q)
        PROVE  registry' = registry
    BY <2>6 DEF Step, RequireStaged, PrepareReads, BeginInterval, FailEarly, EnterGates, Verify,
       ReadArm, BeginFold, EndFold, FailFold, Stage, FailPrepare, VerdictOk, VerdictFails,
       HandoffRefused, Rollback, Unwind
  <2>7. ASSUME Work PROVE registry' = registry BY <2>7 DEF Work
  <2> HIDE DEF Allowed
  <2> QED BY <1>1, <2>1, <2>2, <2>3, <2>4, <2>5, <2>6, <2>7 DEF Next, Step
<1>2. IInv /\ [Next]_vars => [\A r \in Releases : Allowed(r)]_vars BY <1>1
<1> QED BY <1>2, Invariance, PTL DEF Spec, RegistrySteps

=============================================================================
