----------------------- MODULE TrustedClockRefinement -----------------------
(***************************************************************************)
(* The trusted clock implements ReleaseFence as long as nobody replaces    *)
(* its rows, for any threads and processes, window, budgets and limits:    *)
(* reservations, transactions, samples and marks are invisible, and every  *)
(* other step of a thread and every crash is a step of the fence.          *)
(***************************************************************************)
EXTENDS TrustedClockLedgerProofs

\* What the fence sees of the clock is the same after the step.
SameFence == UNCHANGED <<GuardHolders, ValueMoved, latch.latched, FlaggedProcs>>

\* The lock admits one guard, and none beside a transaction.
LEMMA HolderAlone ==
  ASSUME IInv
  PROVE  /\ \A t \in Threads : th[t].pc \in GuardHeld => GuardHolders = {t}
         /\ \A t \in Threads : th[t].pc \in InTransaction => GuardHolders = {}
         /\ lock = NoThread => GuardHolders = {}
<1>1. \A t \in Threads : th[t].pc \in InTransaction \cup GuardHeld <=> lock = t
  BY DEF IInv, LockExclusion
<1>2. \A t \in Threads : th[t].pc \in InTransaction => th[t].pc \notin GuardHeld
  BY DEF InTransaction, GuardHeld
<1> QED BY <1>1, <1>2, ConstantsAssumption DEF GuardHolders

\* Who holds a guard and whether a value has moved depends on where the
\* threads stand only.
LEMMA SameHolders ==
  ASSUME \A u \in Threads : /\ th'[u].pc \in GuardHeld <=> th[u].pc \in GuardHeld
                            /\ Exposed(u)' <=> Exposed(u)
  PROVE  GuardHolders' = GuardHolders /\ ValueMoved' = ValueMoved
<1>1. GuardHolders' = GuardHolders BY DEF GuardHolders
<1>2. ValueMoved' <=> ValueMoved BY <1>1 DEF ValueMoved, GuardHolders
<1>3. ValueMoved' \in BOOLEAN /\ ValueMoved \in BOOLEAN BY DEF ValueMoved
<1> QED BY <1>1, <1>2, <1>3

\* An empty authority file is an open fence.
LEMMA InitRefines == Init => Fence!Init
<1> SUFFICES ASSUME Init PROVE Fence!Init OBVIOUS
<1>1. GuardHolders = {} BY DEF Init, Idle, GuardHolders, GuardHeld
<1>2. ValueMoved = FALSE BY <1>1 DEF ValueMoved
<1>3. latch.latched = FALSE BY DEF Init, NoLatch
<1>4. FlaggedProcs = {} BY DEF Init, FlaggedProcs
<1> QED BY <1>1, <1>2, <1>3, <1>4 DEF Fence!Init

\* Steps outside every guard that leave the flags and the latch alone.
LEMMA OutsideInvisible ==
  ASSUME IInv, NEW t \in Threads,
         \/ BeginReserve(t) \/ ReserveCommit(t) \/ Rollback(t) \/ MintExpiries(t)
         \/ Abandon(t) /\ th[t].pc = "reserved"
         \/ BeginLatch(t) \/ RequestAck(t) \/ BeginAck(t) \/ LatchUnreported(t)
  PROVE  SameFence
<1>1. th \in [Threads -> ThreadStates] /\ latch \in LatchRows BY DEF IInv, TypeOK
<1>2. latch'.latched = latch.latched
  <2>1. CASE ReserveCommit(t) BY <1>1, <2>1 DEF ReserveCommit, LatchRows
  <2>2. CASE ~ReserveCommit(t)
    BY <2>2 DEF BeginReserve, Rollback, MintExpiries, Abandon, BeginLatch, RequestAck, BeginAck,
       LatchUnreported, rows
  <2> QED BY <2>1, <2>2
<1>3. pending' = pending
  BY DEF BeginReserve, ReserveCommit, Rollback, MintExpiries, Abandon, BeginLatch, RequestAck,
     BeginAck, LatchUnreported
<1>4. FlaggedProcs' = FlaggedProcs BY <1>3 DEF FlaggedProcs
<1>5. CASE MintExpiries(t)
  <2>1. th' = th BY <1>5 DEF MintExpiries
  <2>2. GuardHolders' = GuardHolders /\ ValueMoved' = ValueMoved
    BY <2>1, SameHolders DEF Exposed
  <2> QED BY <1>2, <1>4, <2>2 DEF SameFence
<1>6. CASE ~MintExpiries(t)
  <2>1. \A u \in Threads \ {t} : th'[u] = th[u]
    <3>1. CASE BeginReserve(t) BY <1>1, <3>1 DEF BeginReserve
    <3>2. CASE Rollback(t) BY <1>1, <3>2 DEF Rollback
    <3>3. CASE ReserveCommit(t) BY <1>1, <3>3 DEF ReserveCommit
    <3>4. CASE RequestAck(t) BY <1>1, <3>4 DEF RequestAck
    <3>5. CASE Abandon(t) BY <1>1, <3>5 DEF Abandon
    <3>6. CASE BeginLatch(t) BY <1>1, <3>6 DEF BeginLatch
    <3>7. CASE BeginAck(t) BY <1>1, <3>7 DEF BeginAck
    <3>8. CASE LatchUnreported(t) BY <1>1, <3>8 DEF LatchUnreported
    <3> QED BY <1>6, <3>1, <3>2, <3>3, <3>4, <3>5, <3>6, <3>7, <3>8
  <2>2. th[t].pc \notin GuardHeld
    BY <1>6 DEF BeginReserve, ReserveCommit, Rollback, BeginLatch, RequestAck, BeginAck,
       LatchUnreported, GuardHeld, InTransaction
  <2>3. th'[t].pc \notin GuardHeld
    <3>1. CASE ReserveCommit(t)
      <4>1. PICK s \in Times, d \in Domains :
              /\ RowDomain(d)
              /\ pending[ProcOf[t]][d] = NoOverrun
              /\ Reservable(ClockRow(d, s), s)
              /\ clock' = ReservedRow(ClockRow(d, s), s)
              /\ used' = used \cup {d}
              /\ th' = [th EXCEPT ![t].pc = "reserved", ![t].domain = d,
                                  ![t].seq = clock'.seq, ![t].sampled = s,
                                  ![t].bound = s + Window]
        BY <3>1 DEF ReserveCommit
      <4>2. th'[t].pc = "reserved" BY <1>1, <4>1 DEF ThreadStates
      <4> QED BY <4>2 DEF GuardHeld
    <3>2. CASE RequestAck(t)
      <4>1. th'[t].pc = "ackRequested" BY <1>1, <3>2 DEF RequestAck, Idle
      <4> QED BY <4>1 DEF GuardHeld
    <3>3. CASE BeginReserve(t) \/ Rollback(t) \/ Abandon(t) \/ BeginLatch(t) \/ BeginAck(t)
      <4>1. Forgets(t) BY <3>3, ThreadForgets
      <4>2. th[t].pc \in HasReservation => th'[t].pc = "idle"
        <5>1. CASE Abandon(t) BY <1>1, <5>1 DEF Abandon, Idle
        <5>2. CASE ~Abandon(t)
          BY <3>3, <5>2 DEF BeginReserve, Rollback, BeginLatch, BeginAck, HasReservation, GuardHeld,
             InTransaction
        <5> QED BY <5>1, <5>2
      <4> QED BY <4>1, <4>2 DEF Forgets, HasReservation, GuardHeld
    <3>4. CASE LatchUnreported(t)
      <4>1. th'[t].pc = "idle" BY <1>1, <3>4 DEF LatchUnreported, Idle
      <4> QED BY <4>1 DEF GuardHeld
    <3> QED BY <1>6, <3>1, <3>2, <3>3, <3>4
  <2>4. \A u \in Threads : /\ th'[u].pc \in GuardHeld <=> th[u].pc \in GuardHeld
                           /\ Exposed(u)' <=> Exposed(u)
    BY <2>1, <2>2, <2>3 DEF Exposed, GuardHeld
  <2>5. GuardHolders' = GuardHolders /\ ValueMoved' = ValueMoved BY <2>4, SameHolders
  <2> QED BY <1>2, <1>4, <2>5 DEF SameFence
<1> QED BY <1>5, <1>6

\* open_release_guard checks the flag of the stored identity; no other flag
\* of the process can be set.
LEMMA OpenGuardRefines ==
  ASSUME IInv, LedgerInv, NEW t \in Threads, OpenGuard(t)
  PROVE  Fence!OpenGuard(t)
<1>1. th \in [Threads -> ThreadStates] BY DEF IInv, TypeOK
<1>2. /\ lock = NoThread /\ ~latch.latched /\ pending[ProcOf[t]][clock.domain] = NoOverrun
      /\ latch' = latch /\ pending' = pending
  BY DEF OpenGuard, GuardedHighWater, rows
<1>3. GuardHolders = {} BY <1>2, HolderAlone
<1>4. ProcOf[t] \notin FlaggedProcs
  BY <1>2 DEF FlaggedProcs, LedgerInv, FlagsNameRow
<1>5. PICK before \in Marks, acquired \in Marks :
        /\ ChargeOk(th[t].wait, before, acquired)
        /\ th' = [th EXCEPT ![t].pc = "guarded", ![t].high = clock.high,
                            ![t].wait = th[t].wait - (acquired - before)]
  BY <1>1 DEF OpenGuard, ThreadStates
<1>6. th'[t].pc = "guarded" /\ \A u \in Threads \ {t} : th'[u] = th[u]
  BY <1>1, <1>5 DEF ThreadStates
<1>7. GuardHolders' = {t} BY <1>3, <1>6 DEF GuardHolders, GuardHeld
<1>8. ValueMoved' = FALSE BY <1>6, <1>7 DEF ValueMoved, Exposed
<1>9. FlaggedProcs' = FlaggedProcs BY <1>2 DEF FlaggedProcs
<1> QED BY <1>2, <1>3, <1>4, <1>7, <1>8, <1>9 DEF Fence!OpenGuard

\* handoff_checked moves the value.
LEMMA HandoffRefines ==
  ASSUME IInv, NEW t \in Threads, Handoff(t)
  PROVE  Fence!Move(t)
<1>1. th \in [Threads -> ThreadStates] BY DEF IInv, TypeOK
<1>2. th[t].pc = "guarded" /\ latch' = latch /\ pending' = pending BY DEF Handoff, rows
<1>3. GuardHolders = {t} BY <1>2, HolderAlone DEF GuardHeld
<1>4. ValueMoved = FALSE BY <1>2, <1>3 DEF ValueMoved, Exposed
<1>5. PICK e \in minted, m \in Marks, s \in Times :
        /\ GuardExpiries(t, e)
        /\ FinalCheck(t, m, s)
        /\ th' = [th EXCEPT ![t].pc = "exposed", ![t].mark = m, ![t].final = s,
                            ![t].premises = {e.premises}]
  BY DEF Handoff
<1>6. th'[t].pc = "exposed" /\ \A u \in Threads \ {t} : th'[u] = th[u]
  BY <1>1, <1>5 DEF ThreadStates
<1>7. GuardHolders' = {t} BY <1>3, <1>6 DEF GuardHolders, GuardHeld
<1>8. ValueMoved' = TRUE BY <1>6, <1>7 DEF ValueMoved, Exposed
<1>9. FlaggedProcs' = FlaggedProcs BY <1>2 DEF FlaggedProcs
<1> QED BY <1>2, <1>3, <1>4, <1>7, <1>8, <1>9 DEF Fence!Move

\* post_handoff_overrun flags the process, or nothing happens.
LEMMA PostCheckRefines ==
  ASSUME IInv, NEW t \in Threads, PostCheck(t)
  PROVE  Fence!Overrun(t) \/ SameFence
<1>1. th \in [Threads -> ThreadStates] /\ pending \in [Procs -> [Domains -> 0..MaxSeq]]
  BY DEF IInv, TypeOK
<1>2. /\ th[t].pc = "exposed" /\ latch' = latch
      /\ \/ pending' = pending
         \/ pending' = [pending EXCEPT ![ProcOf[t]][th[t].domain] = th[t].seq]
  BY DEF PostCheck, rows
<1>3. GuardHolders = {t} BY <1>2, HolderAlone DEF GuardHeld
<1>4. ValueMoved = TRUE BY <1>2, <1>3 DEF ValueMoved, Exposed
<1>5. th'[t].pc = "posted" /\ \A u \in Threads \ {t} : th'[u] = th[u]
  BY <1>1 DEF PostCheck, ThreadStates
<1>6. GuardHolders' = {t} BY <1>3, <1>5 DEF GuardHolders, GuardHeld
<1>7. ValueMoved' = TRUE BY <1>5, <1>6 DEF ValueMoved, Exposed
<1>8. CASE pending' = pending
  <2>1. FlaggedProcs' = FlaggedProcs BY <1>8 DEF FlaggedProcs
  <2> QED BY <1>2, <1>3, <1>4, <1>6, <1>7, <2>1 DEF SameFence
<1>9. CASE pending' = [pending EXCEPT ![ProcOf[t]][th[t].domain] = th[t].seq]
  <2>1. th[t].domain \in Domains /\ th[t].seq # NoOverrun /\ ProcOf[t] \in Procs
    BY <1>1, <1>2, ConstantsAssumption
       DEF IInv, ReservationShape, HasReservation, GuardHeld, NoOverrun, ThreadStates
  <2>2. pending[ProcOf[t]][th[t].domain] = NoOverrun
    BY <1>2 DEF IInv, NoReleaseWhileClosed
  <2>3. \A p \in Procs, d \in Domains :
          pending'[p][d] = IF p = ProcOf[t] /\ d = th[t].domain THEN th[t].seq ELSE pending[p][d]
    BY <1>1, <1>9, <2>1
  <2>4. FlaggedProcs' = FlaggedProcs \cup {ProcOf[t]}
    BY <2>1, <2>2, <2>3 DEF FlaggedProcs
  <2> QED BY <1>2, <1>3, <1>4, <1>6, <1>7, <2>4 DEF Fence!Overrun
<1> QED BY <1>2, <1>8, <1>9

\* A guard that is dropped, after the handoff or before it, closes.
LEMMA CloseRefines ==
  ASSUME IInv, NEW t \in Threads, DropGuard(t) \/ (Abandon(t) /\ th[t].pc = "guarded")
  PROVE  Fence!CloseGuard(t)
<1>1. th \in [Threads -> ThreadStates] BY DEF IInv, TypeOK
<1>2. th[t].pc \in GuardHeld /\ latch' = latch /\ pending' = pending
  BY DEF DropGuard, Abandon, GuardHeld, rows
<1>3. GuardHolders = {t} BY <1>2, HolderAlone
<1>4. th'[t].pc = "idle" /\ \A u \in Threads \ {t} : th'[u] = th[u]
  BY <1>1 DEF DropGuard, Abandon, Idle
<1>5. GuardHolders' = {} BY <1>3, <1>4 DEF GuardHolders, GuardHeld
<1>6. ValueMoved' = FALSE BY <1>5 DEF ValueMoved
<1>7. FlaggedProcs' = FlaggedProcs BY <1>2 DEF FlaggedProcs
<1> QED BY <1>2, <1>3, <1>5, <1>6, <1>7 DEF Fence!CloseGuard

\* write_pending_latch closes the latch for a flag, with no guard open.
LEMMA LatchRefines ==
  ASSUME IInv, NEW t \in Threads, ReserveLatches(t) \/ CommitLatch(t)
  PROVE  Fence!CloseLatch
<1>1. th \in [Threads -> ThreadStates] /\ clock \in ClockRows BY DEF IInv, TypeOK
<1>2. LatchPending(t) /\ th[t].pc \in InTransaction
  BY DEF ReserveLatches, CommitLatch, InTransaction
<1>3. GuardHolders = {} BY <1>2, HolderAlone
<1>4. FlaggedProcs # {}
  BY <1>1, <1>2, ConstantsAssumption DEF LatchPending, FlaggedProcs, ClockRows
<1>5. latch'.latched = TRUE /\ pending' = pending BY <1>2 DEF LatchPending, LatchedRow
<1>6. th'[t].pc = "clearing" /\ \A u \in Threads \ {t} : th'[u] = th[u]
  BY <1>1, <1>2 DEF LatchPending, Idle
<1>7. GuardHolders' = {} BY <1>3, <1>6 DEF GuardHolders, GuardHeld
<1>8. ValueMoved' = FALSE /\ ValueMoved = FALSE BY <1>3, <1>7 DEF ValueMoved
<1>9. FlaggedProcs' = FlaggedProcs BY <1>5 DEF FlaggedProcs
<1> QED BY <1>3, <1>4, <1>5, <1>7, <1>8, <1>9 DEF Fence!CloseLatch

\* clear_pending_overrun clears the only flag its process can have.
LEMMA ClearRefines ==
  ASSUME IInv, LedgerInv, NEW t \in Threads, ClearPending(t)
  PROVE  Fence!ClearFlag(ProcOf[t])
<1>1. th \in [Threads -> ThreadStates] /\ pending \in [Procs -> [Domains -> 0..MaxSeq]]
  BY DEF IInv, TypeOK
<1>2. /\ th[t].pc = "clearing" /\ latch' = latch /\ ProcOf[t] \in Procs
      /\ pending' = [pending EXCEPT ![ProcOf[t]][th[t].domain] = NoOverrun]
  BY ConstantsAssumption DEF ClearPending, rows
<1>3. th[t].domain = clock.domain /\ th[t].domain \in Domains
  BY <1>2 DEF LedgerInv, FlagsNameRow, IInv, ReservationShape
<1>4. \A p \in Procs, d \in Domains :
        pending'[p][d] = IF p = ProcOf[t] /\ d = th[t].domain THEN NoOverrun ELSE pending[p][d]
  BY <1>1, <1>2, <1>3
<1>5. \A d \in Domains : pending'[ProcOf[t]][d] = NoOverrun
  BY <1>2, <1>3, <1>4 DEF LedgerInv, FlagsNameRow
<1>6. FlaggedProcs' = FlaggedProcs \ {ProcOf[t]} BY <1>4, <1>5 DEF FlaggedProcs
<1>7. th'[t].pc = "idle" /\ \A u \in Threads \ {t} : th'[u] = th[u]
  BY <1>1 DEF ClearPending, Idle
<1>8. \A u \in Threads : /\ th'[u].pc \in GuardHeld <=> th[u].pc \in GuardHeld
                         /\ Exposed(u)' <=> Exposed(u)
  BY <1>2, <1>7 DEF Exposed, GuardHeld
<1>9. GuardHolders' = GuardHolders /\ ValueMoved' = ValueMoved BY <1>8, SameHolders
<1> QED BY <1>2, <1>6, <1>9 DEF Fence!ClearFlag

\* An acknowledgement opens the latch, with no guard open.
LEMMA AckRefines ==
  ASSUME IInv, NEW t \in Threads, CommitAck(t)
  PROVE  Fence!OpenLatch
<1>1. th \in [Threads -> ThreadStates] /\ latch \in LatchRows BY DEF IInv, TypeOK
<1>2. /\ th[t].pc \in InTransaction /\ latch.latched /\ latch'.latched = FALSE
      /\ pending' = pending
  BY <1>1 DEF CommitAck, Acknowledgeable, InTransaction, LatchRows
<1>3. GuardHolders = {} BY <1>2, HolderAlone
<1>4. th'[t].pc = "idle" /\ \A u \in Threads \ {t} : th'[u] = th[u]
  BY <1>1 DEF CommitAck, Idle
<1>5. GuardHolders' = {} BY <1>3, <1>4 DEF GuardHolders, GuardHeld
<1>6. ValueMoved' = FALSE /\ ValueMoved = FALSE BY <1>3, <1>5 DEF ValueMoved
<1>7. FlaggedProcs' = FlaggedProcs BY <1>2 DEF FlaggedProcs
<1> QED BY <1>2, <1>3, <1>5, <1>6, <1>7 DEF Fence!OpenLatch

\* A dying process takes its guard and its flags with it.
LEMMA CrashRefines ==
  ASSUME IInv, NEW p \in Procs, Crash(p)
  PROVE  Fence!Die(p)
<1>1. pending \in [Procs -> [Domains -> 0..MaxSeq]] BY DEF IInv, TypeOK
<1>2. latch' = latch BY DEF Crash, rows
<1>3. \A u \in Threads : th'[u] = IF ProcOf[u] = p THEN Idle ELSE th[u] BY DEF Crash
<1>4. \A u \in Threads : /\ ProcOf[u] # p => th'[u] = th[u]
                         /\ ProcOf[u] = p => th'[u].pc = "idle"
  BY <1>3 DEF Idle
<1>5. GuardHolders' = {t \in GuardHolders : ProcOf[t] # p}
  <2>1. \A u \in Threads : th'[u].pc \in GuardHeld <=> th[u].pc \in GuardHeld /\ ProcOf[u] # p
    BY <1>4 DEF GuardHeld
  <2> QED BY <2>1 DEF GuardHolders
<1>6. \A t \in Threads : th[t].pc \in GuardHeld => GuardHolders = {t} BY HolderAlone
<1>7. ValueMoved' = (ValueMoved /\ GuardHolders' # {})
  <2>1. ValueMoved' => ValueMoved /\ GuardHolders' # {}
    BY <1>4, <1>5 DEF ValueMoved, Exposed, GuardHolders
  <2>2. ValueMoved /\ GuardHolders' # {} => ValueMoved'
    <3> SUFFICES ASSUME ValueMoved, GuardHolders' # {} PROVE ValueMoved' OBVIOUS
    <3>1. PICK t \in GuardHolders : Exposed(t) BY DEF ValueMoved
    <3>2. GuardHolders = {t} BY <1>6, <3>1 DEF GuardHolders
    <3>3. t \in GuardHolders' /\ ProcOf[t] # p BY <1>5, <3>2
    <3>4. t \in Threads BY <3>1 DEF GuardHolders
    <3> QED BY <1>4, <3>1, <3>3, <3>4 DEF ValueMoved, Exposed
  <2>3. ValueMoved' \in BOOLEAN BY DEF ValueMoved
  <2> QED BY <2>1, <2>2, <2>3
<1>8. \A q \in Procs, d \in Domains :
        pending'[q][d] = IF q = p THEN NoOverrun ELSE pending[q][d]
  BY <1>1 DEF Crash
<1>9. FlaggedProcs' = FlaggedProcs \ {p} BY <1>8 DEF FlaggedProcs
<1> QED BY <1>2, <1>5, <1>7, <1>9 DEF Fence!Die

\* Every step of the clock but a replacement of its rows is a step of the
\* fence or invisible to it.
LEMMA StepRefines ==
  ASSUME IInv, LedgerInv, [Next]_vars, ~RestoreAuthority
  PROVE  [Fence!Next]_(Fence!vars)
<1>1. SameFence => UNCHANGED Fence!vars BY DEF SameFence, Fence!vars
<1>2. ASSUME UNCHANGED vars \/ RegisterArtifact PROVE SameFence
  <2>1. UNCHANGED <<latch, pending, th>> BY <1>2 DEF vars, rows, RegisterArtifact
  <2>2. GuardHolders' = GuardHolders /\ ValueMoved' = ValueMoved
    BY <2>1, SameHolders DEF Exposed
  <2>3. FlaggedProcs' = FlaggedProcs BY <2>1 DEF FlaggedProcs
  <2> QED BY <2>1, <2>2, <2>3 DEF SameFence
<1>3. ASSUME NEW t \in Threads,
             \/ BeginReserve(t) \/ ReserveCommit(t) \/ Rollback(t) \/ MintExpiries(t)
             \/ BeginLatch(t) \/ RequestAck(t) \/ BeginAck(t) \/ LatchUnreported(t)
      PROVE  SameFence
  BY <1>3, OutsideInvisible
<1>4. ASSUME NEW t \in Threads, OpenGuard(t) PROVE Fence!Next
  BY <1>4, OpenGuardRefines DEF Fence!Next
<1>5. ASSUME NEW t \in Threads, Handoff(t) PROVE Fence!Next
  BY <1>5, HandoffRefines DEF Fence!Next
<1>6. ASSUME NEW t \in Threads, PostCheck(t) PROVE Fence!Next \/ SameFence
  BY <1>6, PostCheckRefines DEF Fence!Next
<1>7. ASSUME NEW t \in Threads, DropGuard(t) PROVE Fence!Next
  <2>1. Fence!CloseGuard(t) BY <1>7, CloseRefines
  <2> QED BY <2>1 DEF Fence!Next
<1>8. ASSUME NEW t \in Threads, Abandon(t) PROVE Fence!Next \/ SameFence
  <2>1. CASE th[t].pc = "guarded" BY <1>8, <2>1, CloseRefines DEF Fence!Next
  <2>2. CASE th[t].pc = "reserved" BY <1>8, <2>2, OutsideInvisible
  <2> QED BY <1>8, <2>1, <2>2 DEF Abandon
<1>9. ASSUME NEW t \in Threads, ReserveLatches(t) \/ CommitLatch(t) PROVE Fence!Next
  BY <1>9, LatchRefines DEF Fence!Next
<1>10. ASSUME NEW t \in Threads, ClearPending(t) PROVE Fence!Next
  <2>1. ProcOf[t] \in Procs BY ConstantsAssumption
  <2> QED BY <1>10, <2>1, ClearRefines DEF Fence!Next
<1>11. ASSUME NEW t \in Threads, CommitAck(t) PROVE Fence!Next
  BY <1>11, AckRefines DEF Fence!Next
<1>12. ASSUME NEW p \in Procs, Crash(p) PROVE Fence!Next
  BY <1>12, CrashRefines DEF Fence!Next
<1> QED BY <1>1, <1>2, <1>3, <1>4, <1>5, <1>6, <1>7, <1>8, <1>9, <1>10, <1>11, <1>12 DEF Next

\* The trusted clock implements the fence its hosts rely on: one guard over
\* all processes, one move in it, no guard past a flag or a closed latch, and
\* no change of the latch under an open guard, whatever order its threads,
\* processes and crashes take (open_release_guard, handoff_checked,
\* write_pending_latch, acknowledge_in_transaction).
THEOREM ClockImplementsReleaseFence ==
  ASSUME MaxRestores = 0
  PROVE  Spec => ImplementsReleaseFence
<1>1. Init => Fence!Init BY InitRefines
<1>2. IInv => restores = 0 BY DEF IInv, TypeOK
<1>3. IInv /\ [Next]_vars => ~RestoreAuthority
  <2> SUFFICES ASSUME IInv, RestoreAuthority PROVE FALSE OBVIOUS
  <2>1. restores < MaxRestores BY DEF RestoreAuthority
  <2> QED BY <1>2, <2>1
<1>4. IInv /\ (restores = 0 => LedgerInv) /\ [Next]_vars => [Fence!Next]_(Fence!vars)
  BY <1>2, <1>3, StepRefines
<1> QED BY <1>1, <1>4, Invariance, Ledger, PTL DEF Spec, ImplementsReleaseFence, Fence!Spec

=============================================================================
