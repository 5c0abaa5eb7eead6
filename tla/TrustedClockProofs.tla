------------------------- MODULE TrustedClockProofs -------------------------
(***************************************************************************)
(* Proofs about the trusted-clock fence, for any threads and processes,    *)
(* any window and budgets, and any number of outside replacements of the   *)
(* authority rows.                                                         *)
(***************************************************************************)
EXTENDS TrustedClock, TLAPS

\* Max of FiniteSetsExt on the two-element sets the model uses.
LEMMA MaxOfTwo ==
  ASSUME NEW a \in Int, NEW b \in Int
  PROVE  Max({a, b}) = IF a >= b THEN a ELSE b
BY DEF Max

\* The initial records have the type of their variable.
LEMMA InitialRecords ==
  Idle \in ThreadStates /\ NoClock \in ClockRows /\ NoLatch \in LatchRows
BY ConstantsAssumption DEF Idle, ThreadStates, NoClock, ClockRows, NoLatch, LatchRows, Times,
   NoOverrun, Overrun

\* A row that migrate_missing_rows may have to create is well formed.
LEMMA ClockRowType ==
  ASSUME TypeOK, NEW s \in Times, NEW d \in Domains
  PROVE  ClockRow(d, s) \in ClockRows
<1>1. clock \in ClockRows BY DEF TypeOK
<1> QED BY <1>1, ConstantsAssumption DEF ClockRow, ClockRows

\* A fresh authority file and idle threads are well typed.
LEMMA TypeInit == Init => TypeOK
<1> SUFFICES ASSUME Init PROVE TypeOK OBVIOUS
<1> USE InitialRecords, ConstantsAssumption DEF Init
<1>1. clock \in ClockRows /\ latch \in LatchRows OBVIOUS
<1>2. acks \in Seq(0..MaxCount) OBVIOUS
<1>3. catalog \in BOOLEAN OBVIOUS
<1>4. used \in SUBSET Domains /\ restores \in 0..MaxRestores /\ lock \in Threads \cup {NoThread}
  OBVIOUS
<1>5. pending \in [Procs -> [Domains -> 0..MaxSeq]] BY DEF NoOverrun
<1>6. th \in [Threads -> ThreadStates] OBVIOUS
<1>7. /\ minted \in SUBSET [domain : Domains, seq : 1..MaxSeq, premises : Premises]
      /\ overruns \in SUBSET Overrun /\ recorded \in SUBSET Overrun /\ acked \in SUBSET Overrun
  OBVIOUS
<1>8. doubted \in BOOLEAN OBVIOUS
<1> HIDE DEF Init
<1> QED BY <1>1, <1>2, <1>3, <1>4, <1>5, <1>6, <1>7, <1>8 DEF TypeOK

\* The steps of a reservation keep the inductive invariant.
LEMMA ReservationKeeps ==
  ASSUME IInv, NEW t \in Threads,
         \/ BeginReserve(t) \/ ReserveCommit(t) \/ ReserveLatches(t)
         \/ ClearPending(t) \/ LatchUnreported(t) \/ Rollback(t)
  PROVE  IInv'
<1> USE ConstantsAssumption, InitialRecords
        DEF GuardHeld, InTransaction, HasReservation, NoOverrun, rows, history, Times,
            NoMark, Unavailable
<1>1. clock \in ClockRows BY DEF IInv, TypeOK
<1>2. latch \in LatchRows BY DEF IInv, TypeOK
<1>3. lock \in Threads \cup {NoThread} BY DEF IInv, TypeOK
<1>4. pending \in [Procs -> [Domains -> 0..MaxSeq]] BY DEF IInv, TypeOK
<1>5. th \in [Threads -> ThreadStates] BY DEF IInv, TypeOK
<1>6. CASE BeginReserve(t)
  <2>p. PICK before \in Marks, acquired \in Marks, owner \in Marks \cup {NoMark} :
          /\ owner <= before /\ ChargeOk(WaitBudget, before, acquired)
          /\ th' = [th EXCEPT ![t] =
                      [Idle EXCEPT !.pc = "resTx", !.start = before,
                                   !.wait = WaitBudget - (acquired - before),
                                   !.g0 = IF owner = NoMark THEN acquired ELSE owner]]
    BY <1>6 DEF BeginReserve
  <2>q. /\ WaitBudget - (acquired - before) \in 0..WaitBudget /\ before \in Nat
        /\ (IF owner = NoMark THEN acquired ELSE owner) \in Nat
        /\ (IF owner = NoMark THEN acquired ELSE owner) <= before + WaitBudget
    BY <2>p DEF ChargeOk
  <2>r. /\ th'[t].pc = "resTx" /\ th'[t].g0 <= th'[t].start + WaitBudget
        /\ \A u \in Threads \ {t} : th'[u] = th[u]
    BY <1>5, <2>p, <2>q
  <2>s. lock = NoThread /\ lock' = t /\ UNCHANGED <<clock, latch, pending>>
    BY <1>6 DEF BeginReserve
  <2>1. th' \in [Threads -> ThreadStates]
    <3>1. \A r \in ThreadStates, w \in 0..WaitBudget, b \in Nat, g \in Nat :
            [r EXCEPT !.pc = "resTx", !.start = b, !.wait = w, !.g0 = g] \in ThreadStates
      BY DEF ThreadStates
    <3> QED BY <1>5, <2>p, <2>q, <3>1
  <2>2. lock' \in Threads \cup {NoThread}
    BY <1>6, <1>3, <1>5 DEF BeginReserve
  <2>3. TypeOK'
    BY <1>6, <2>1, <2>2 DEF BeginReserve, IInv, TypeOK
  <2>4. LockExclusion' /\ NoReleaseWhileClosed' /\ GuardReadsRows'
    BY <2>r, <2>s DEF IInv, LockExclusion, NoReleaseWhileClosed, GuardReadsRows
  <2>5. ReservationShape' /\ MarksOrdered' /\ FinalChecked'
    BY <2>r DEF IInv, ReservationShape, MarksOrdered, FinalChecked, Exposed
  <2> QED BY <2>3, <2>4, <2>5 DEF IInv
<1>7. CASE ReserveCommit(t)
  <2>o. PICK s \in Times, d \in Domains :
          /\ RowDomain(d) /\ Reservable(ClockRow(d, s), s)
          /\ clock' = ReservedRow(ClockRow(d, s), s)
          /\ th' = [th EXCEPT ![t].pc = "reserved", ![t].domain = d,
                              ![t].seq = clock'.seq, ![t].sampled = s,
                              ![t].bound = s + Window]
    BY <1>7 DEF ReserveCommit
  <2>p. /\ ClockRow(d, s).seq < MaxSeq /\ s + Window <= MaxTime
        /\ clock' = [domain |-> d, high |-> s, seq |-> ClockRow(d, s).seq + 1,
                     until |-> Max({ClockRow(d, s).until, s + Window})]
        /\ th' = [th EXCEPT ![t].pc = "reserved", ![t].domain = d,
                            ![t].seq = ClockRow(d, s).seq + 1, ![t].sampled = s,
                            ![t].bound = s + Window]
    <3>1. ClockRow(d, s).domain = d BY <2>o DEF ClockRow, RowDomain
    <3> QED BY <2>o, <3>1 DEF Reservable, ReservedRow
  <2>q. /\ ClockRow(d, s) \in ClockRows
        /\ ClockRow(d, s).seq + 1 \in 1..MaxSeq /\ s + Window \in Times
    <3>1. ClockRow(d, s) \in ClockRows BY ClockRowType DEF IInv
    <3> QED BY <2>p, <3>1 DEF ClockRows
  <2>r. /\ th'[t].pc = "reserved" /\ th'[t].domain = d /\ th'[t].seq > 0
        /\ th'[t].bound = th'[t].sampled + Window
        /\ th'[t].g0 = th[t].g0 /\ th'[t].start = th[t].start
        /\ \A u \in Threads \ {t} : th'[u] = th[u]
    BY <1>5, <2>p, <2>q
  <2>s. /\ th[t].pc = "resTx" /\ lock = t /\ lock' = NoThread
        /\ \A u \in Threads \ {t} : th[u].pc \notin GuardHeld \cup InTransaction
    BY <1>7 DEF ReserveCommit, IInv, LockExclusion
  <2>1. clock' \in ClockRows
    <3>1. Max({ClockRow(d, s).until, s + Window}) \in Times
      BY <2>q, MaxOfTwo DEF ClockRows
    <3> QED BY <2>p, <2>q, <3>1 DEF ClockRows
  <2>2. used' \in SUBSET Domains
    BY <1>7 DEF ReserveCommit, IInv, TypeOK
  <2>3. th' \in [Threads -> ThreadStates]
    <3>1. \A r \in ThreadStates, q \in 0..MaxSeq, x \in Times, y \in Times :
            [r EXCEPT !.pc = "reserved", !.domain = d, !.seq = q, !.sampled = x, !.bound = y]
              \in ThreadStates
      BY DEF ThreadStates
    <3>2. th' = [th EXCEPT ![t] = [th[t] EXCEPT !.pc = "reserved", !.domain = d,
                                     !.seq = ClockRow(d, s).seq + 1, !.sampled = s,
                                     !.bound = s + Window]]
      BY <1>5, <2>p
    <3>3. ClockRow(d, s).seq + 1 \in 0..MaxSeq BY <2>q
    <3> QED BY <1>5, <2>q, <3>1, <3>2, <3>3
  <2>4. latch' \in LatchRows
    BY <1>7, <1>2 DEF ReserveCommit, LatchRows
  <2>5. lock' \in Threads \cup {NoThread}
    BY <1>7, <1>3, <1>5 DEF ReserveCommit
  <2>6. TypeOK'
    BY <1>7, <2>1, <2>2, <2>3, <2>4, <2>5 DEF ReserveCommit, IInv, TypeOK
  <2>7. LockExclusion' /\ NoReleaseWhileClosed' /\ GuardReadsRows'
    BY <2>r, <2>s DEF LockExclusion, NoReleaseWhileClosed, GuardReadsRows
  <2>8. ReservationShape' /\ MarksOrdered' /\ FinalChecked'
    BY <2>r, <2>s DEF IInv, ReservationShape, MarksOrdered, FinalChecked, Exposed
  <2> QED BY <2>6, <2>7, <2>8 DEF IInv
<1>8. CASE ReserveLatches(t)
  <2>a. /\ clock.domain \in Domains /\ ProcOf[t] \in Procs
        /\ pending[ProcOf[t]][clock.domain] \in 1..MaxSeq
    BY <1>8, <1>1, <1>4 DEF ReserveLatches, LatchPending, ClockRows
  <2>1. latch' \in LatchRows
    BY <1>8, <1>2, <2>a DEF ReserveLatches, LatchPending, LatchedRow, LatchRows
  <2>2. recorded' \in SUBSET Overrun
    <3>1. recorded \in SUBSET Overrun BY DEF IInv, TypeOK
    <3> QED BY <1>8, <2>a, <3>1 DEF ReserveLatches, LatchPending, Overrun
  <2>3. th' \in [Threads -> ThreadStates]
    <3>1. \A r \in ThreadStates, d \in Domains :
            [r EXCEPT !.pc = "clearing", !.domain = d] \in ThreadStates
      BY DEF ThreadStates
    <3> QED BY <1>8, <1>5, <2>a, <3>1 DEF ReserveLatches, LatchPending, LatchedRow
  <2>4. lock' \in Threads \cup {NoThread}
    BY <1>8 DEF ReserveLatches, LatchPending
  <2>5. TypeOK'
    BY <1>8, <2>1, <2>2, <2>3 DEF ReserveLatches, LatchPending, IInv, TypeOK
  <2>6. LockExclusion' /\ NoReleaseWhileClosed' /\ GuardReadsRows'
    BY <1>8, <1>5 DEF ReserveLatches, LatchPending, IInv, LockExclusion, NoReleaseWhileClosed,
       GuardReadsRows
  <2>7. ReservationShape' /\ MarksOrdered' /\ FinalChecked'
    BY <1>8, <1>1 DEF ReserveLatches, LatchPending, IInv, ReservationShape, MarksOrdered,
       FinalChecked, Exposed, ClockRows
  <2> QED BY <2>5, <2>6, <2>7 DEF IInv
<1>9. CASE ClearPending(t)
  <2>1. pending' \in [Procs -> [Domains -> 0..MaxSeq]]
    BY <1>9, <1>4 DEF ClearPending, IInv, ReservationShape
  <2>2. th' \in [Threads -> ThreadStates]
    BY <1>9, <1>5 DEF ClearPending
  <2>3. TypeOK'
    BY <1>9, <2>1 DEF ClearPending, IInv, TypeOK
  <2>4. LockExclusion' /\ NoReleaseWhileClosed' /\ GuardReadsRows'
    BY <1>9 DEF ClearPending, IInv, LockExclusion, NoReleaseWhileClosed, GuardReadsRows, Idle
  <2>5. ReservationShape' /\ MarksOrdered' /\ FinalChecked'
    BY <1>9 DEF ClearPending, IInv, ReservationShape, MarksOrdered, FinalChecked, Exposed, Idle
  <2> QED BY <2>3, <2>4, <2>5 DEF IInv
<1>10. CASE Rollback(t)
  <2>1. th' \in [Threads -> ThreadStates]
    BY <1>10, <1>5 DEF Rollback
  <2>2. lock' \in Threads \cup {NoThread}
    BY <1>10 DEF Rollback
  <2>3. TypeOK'
    BY <1>10 DEF Rollback, IInv, TypeOK
  <2>4. LockExclusion' /\ NoReleaseWhileClosed' /\ GuardReadsRows'
    BY <1>10, <1>5 DEF Rollback, IInv, LockExclusion, NoReleaseWhileClosed, GuardReadsRows, Idle
  <2>5. ReservationShape' /\ MarksOrdered' /\ FinalChecked'
    BY <1>10 DEF Rollback, IInv, ReservationShape, MarksOrdered, FinalChecked, Exposed, Idle
  <2> QED BY <2>3, <2>4, <2>5 DEF IInv
<1>11. CASE LatchUnreported(t)
  <2>1. th' \in [Threads -> ThreadStates]
    BY <1>11, <1>5 DEF LatchUnreported
  <2>2. TypeOK'
    BY <1>11, <2>1 DEF LatchUnreported, IInv, TypeOK
  <2>3. LockExclusion' /\ NoReleaseWhileClosed' /\ GuardReadsRows'
    BY <1>11 DEF LatchUnreported, IInv, LockExclusion, NoReleaseWhileClosed, GuardReadsRows, Idle
  <2>4. ReservationShape' /\ MarksOrdered' /\ FinalChecked'
    BY <1>11 DEF LatchUnreported, IInv, ReservationShape, MarksOrdered, FinalChecked, Exposed, Idle
  <2> QED BY <2>2, <2>3, <2>4 DEF IInv
<1> QED BY <1>6, <1>7, <1>8, <1>9, <1>10, <1>11

\* The steps of a guard and its handoff keep it.
LEMMA ReleaseKeeps ==
  ASSUME IInv, NEW t \in Threads,
         \/ OpenGuard(t) \/ MintExpiries(t) \/ Handoff(t)
         \/ PostCheck(t) \/ DropGuard(t) \/ Abandon(t)
  PROVE  IInv'
<1> USE ConstantsAssumption, InitialRecords
        DEF GuardHeld, InTransaction, HasReservation, NoOverrun, rows, history, Times,
            NoMark, Unavailable
<1>1. clock \in ClockRows BY DEF IInv, TypeOK
<1>2. latch \in LatchRows BY DEF IInv, TypeOK
<1>3. lock \in Threads \cup {NoThread} BY DEF IInv, TypeOK
<1>4. pending \in [Procs -> [Domains -> 0..MaxSeq]] BY DEF IInv, TypeOK
<1>5. th \in [Threads -> ThreadStates] BY DEF IInv, TypeOK
<1>6. CASE OpenGuard(t)
  <2>p. PICK before \in Marks, acquired \in Marks :
          /\ ChargeOk(th[t].wait, before, acquired)
          /\ th' = [th EXCEPT ![t].pc = "guarded", ![t].high = clock.high,
                              ![t].wait = th[t].wait - (acquired - before)]
    BY <1>6, <1>5 DEF OpenGuard, GuardedHighWater, ThreadStates
  <2>q. th[t].wait - (acquired - before) \in 0..WaitBudget /\ clock.high \in Times
    BY <1>5, <2>p DEF ThreadStates
  <2>r. /\ th'[t].pc = "guarded" /\ th'[t].high = clock.high
        /\ th'[t].domain = th[t].domain /\ th'[t].seq = th[t].seq
        /\ th'[t].sampled = th[t].sampled /\ th'[t].bound = th[t].bound
        /\ th'[t].g0 = th[t].g0 /\ th'[t].start = th[t].start
        /\ \A u \in Threads \ {t} : th'[u] = th[u]
    BY <1>5, <2>p DEF ThreadStates
  <2>s. /\ th[t].pc = "reserved" /\ lock = NoThread /\ lock' = t
        /\ clock.domain = th[t].domain /\ clock.seq >= th[t].seq
        /\ clock.high >= th[t].sampled /\ ~latch.latched
        /\ pending[ProcOf[t]][clock.domain] = NoOverrun
        /\ UNCHANGED <<clock, latch, pending>>
    BY <1>6 DEF OpenGuard, GuardedHighWater
  <2>1. th' \in [Threads -> ThreadStates]
    <3>1. \A r \in ThreadStates, h \in Times, w \in 0..WaitBudget :
            [r EXCEPT !.pc = "guarded", !.high = h, !.wait = w] \in ThreadStates
      BY DEF ThreadStates
    <3>2. th' = [th EXCEPT ![t] = [th[t] EXCEPT !.pc = "guarded", !.high = clock.high,
                                     !.wait = th[t].wait - (acquired - before)]]
      BY <1>5, <2>p
    <3> QED BY <1>5, <2>q, <3>1, <3>2
  <2>2. lock' \in Threads \cup {NoThread}
    BY <1>6, <1>3, <1>5 DEF OpenGuard, GuardedHighWater
  <2>3. TypeOK'
    BY <1>6, <2>1, <2>2 DEF OpenGuard, GuardedHighWater, IInv, TypeOK
  <2>4. LockExclusion' /\ NoReleaseWhileClosed' /\ GuardReadsRows'
    BY <2>r, <2>s DEF IInv, LockExclusion, NoReleaseWhileClosed, GuardReadsRows
  <2>5. ReservationShape' /\ MarksOrdered' /\ FinalChecked'
    BY <2>r, <2>s DEF IInv, ReservationShape, MarksOrdered, FinalChecked, Exposed
  <2> QED BY <2>3, <2>4, <2>5 DEF IInv
<1>7. CASE MintExpiries(t)
  <2>1. minted' \in SUBSET [domain : Domains, seq : 1..MaxSeq, premises : Premises]
    <3>1. PICK p \in Premises :
            minted' = minted \cup {[domain |-> th[t].domain, seq |-> th[t].seq, premises |-> p]}
      BY <1>7 DEF MintExpiries
    <3>2. th[t].domain \in Domains /\ th[t].seq \in 1..MaxSeq
      BY <1>7, <1>5 DEF MintExpiries, IInv, ReservationShape, ThreadStates
    <3>3. minted \in SUBSET [domain : Domains, seq : 1..MaxSeq, premises : Premises]
      BY DEF IInv, TypeOK
    <3> QED BY <3>1, <3>2, <3>3
  <2>2. TypeOK'
    BY <1>7, <2>1 DEF MintExpiries, IInv, TypeOK
  <2>3. LockExclusion' /\ NoReleaseWhileClosed' /\ GuardReadsRows'
    BY <1>7 DEF MintExpiries, IInv, LockExclusion, NoReleaseWhileClosed, GuardReadsRows
  <2>4. ReservationShape' /\ MarksOrdered' /\ FinalChecked'
    BY <1>7 DEF MintExpiries, IInv, ReservationShape, MarksOrdered, FinalChecked, Exposed
  <2> QED BY <2>2, <2>3, <2>4 DEF IInv
<1>8. CASE Handoff(t)
  <2>p. PICK e \in minted, m \in Marks, s \in Times :
          /\ th[t].g0 <= m /\ m - th[t].g0 <= GuardBudget
          /\ Max({th[t].sampled, th[t].high}) <= s /\ s <= th[t].bound
          /\ th' = [th EXCEPT ![t].pc = "exposed", ![t].mark = m, ![t].final = s,
                              ![t].premises = {e.premises}]
    BY <1>8 DEF Handoff, GuardExpiries, FinalCheck
  <2>q. {e.premises} \in SUBSET Premises /\ m \in Nat /\ th[t].high <= s
    <3>1. e.premises \in Premises BY DEF IInv, TypeOK
    <3>2. th[t].sampled \in Int /\ th[t].high \in Int BY <1>5 DEF ThreadStates
    <3>3. Max({th[t].sampled, th[t].high}) = IF th[t].sampled >= th[t].high
                                             THEN th[t].sampled ELSE th[t].high
      BY <3>2, MaxOfTwo
    <3>4. th[t].high <= s BY <2>p, <3>2, <3>3
    <3> QED BY <3>1, <3>4
  <2>r. /\ th'[t].pc = "exposed" /\ th'[t].mark = m /\ th'[t].final = s
        /\ th'[t].high = th[t].high /\ th'[t].domain = th[t].domain
        /\ th'[t].seq = th[t].seq /\ th'[t].sampled = th[t].sampled
        /\ th'[t].bound = th[t].bound /\ th'[t].g0 = th[t].g0 /\ th'[t].start = th[t].start
        /\ \A u \in Threads \ {t} : th'[u] = th[u]
    BY <1>5, <2>p DEF ThreadStates
  <2>s. th[t].pc = "guarded" /\ UNCHANGED <<clock, latch, pending, lock>>
    BY <1>8 DEF Handoff, GuardExpiries, FinalCheck
  <2>1. th' \in [Threads -> ThreadStates]
    <3>1. \A r \in ThreadStates, x \in SUBSET Premises :
            [r EXCEPT !.pc = "exposed", !.mark = m, !.final = s, !.premises = x]
              \in ThreadStates
      BY <2>q DEF ThreadStates
    <3>2. th' = [th EXCEPT ![t] = [th[t] EXCEPT !.pc = "exposed", !.mark = m, !.final = s,
                                     !.premises = {e.premises}]]
      BY <1>5, <2>p
    <3> QED BY <1>5, <2>q, <3>1, <3>2
  <2>2. TypeOK'
    BY <1>8, <2>1 DEF Handoff, GuardExpiries, FinalCheck, IInv, TypeOK
  <2>3. LockExclusion' /\ NoReleaseWhileClosed' /\ GuardReadsRows'
    BY <1>5, <2>p, <2>q, <2>r, <2>s DEF IInv, LockExclusion, NoReleaseWhileClosed,
       GuardReadsRows, ReservationShape, ThreadStates
  <2>4. ReservationShape' /\ MarksOrdered' /\ FinalChecked'
    BY <1>5, <2>p, <2>q, <2>r, <2>s DEF IInv, ReservationShape, MarksOrdered, GuardReadsRows,
       FinalChecked, Exposed, ThreadStates
  <2> QED BY <2>2, <2>3, <2>4 DEF IInv
<1>9. CASE PostCheck(t)
  <2>p. th[t].domain \in Domains /\ th[t].seq \in 1..MaxSeq /\ ProcOf[t] \in Procs
    BY <1>9, <1>5 DEF PostCheck, IInv, ReservationShape, ThreadStates
  <2>q. \/ pending' = pending /\ overruns' = overruns
        \/ /\ pending' = [pending EXCEPT ![ProcOf[t]][th[t].domain] = th[t].seq]
           /\ overruns' = overruns \cup {[domain |-> th[t].domain, seq |-> th[t].seq]}
    BY <1>9 DEF PostCheck
  <2>1. pending' \in [Procs -> [Domains -> 0..MaxSeq]]
    <3>1. [pending[ProcOf[t]] EXCEPT ![th[t].domain] = th[t].seq] \in [Domains -> 0..MaxSeq]
      BY <1>4, <2>p
    <3> QED BY <1>4, <2>q, <3>1
  <2>2. overruns' \in SUBSET Overrun
    <3>1. overruns \in SUBSET Overrun BY DEF IInv, TypeOK
    <3> QED BY <2>p, <2>q, <3>1 DEF Overrun
  <2>3. th' \in [Threads -> ThreadStates]
    BY <1>9, <1>5 DEF PostCheck, ThreadStates
  <2>4. TypeOK'
    BY <1>9, <2>1, <2>2, <2>3 DEF PostCheck, IInv, TypeOK
  <2>5. LockExclusion' /\ NoReleaseWhileClosed' /\ GuardReadsRows'
    BY <1>9, <1>5 DEF PostCheck, IInv, LockExclusion, NoReleaseWhileClosed, GuardReadsRows
  <2>6. ReservationShape' /\ MarksOrdered' /\ FinalChecked'
    BY <1>9 DEF PostCheck, IInv, ReservationShape, MarksOrdered, FinalChecked, Exposed
  <2> QED BY <2>4, <2>5, <2>6 DEF IInv
<1>10. CASE DropGuard(t)
  <2>1. th' \in [Threads -> ThreadStates]
    BY <1>10, <1>5 DEF DropGuard
  <2>2. lock' \in Threads \cup {NoThread}
    BY <1>10 DEF DropGuard
  <2>3. TypeOK'
    BY <1>10 DEF DropGuard, IInv, TypeOK
  <2>4. LockExclusion' /\ NoReleaseWhileClosed' /\ GuardReadsRows'
    BY <1>10, <1>5 DEF DropGuard, IInv, LockExclusion, NoReleaseWhileClosed, GuardReadsRows, Idle
  <2>5. ReservationShape' /\ MarksOrdered' /\ FinalChecked'
    BY <1>10 DEF DropGuard, IInv, ReservationShape, MarksOrdered, FinalChecked, Exposed, Idle
  <2> QED BY <2>3, <2>4, <2>5 DEF IInv
<1>11. CASE Abandon(t)
  <2>1. th' \in [Threads -> ThreadStates]
    BY <1>11, <1>5 DEF Abandon
  <2>2. lock' \in Threads \cup {NoThread}
    BY <1>11, <1>3 DEF Abandon
  <2>3. TypeOK'
    BY <1>11 DEF Abandon, IInv, TypeOK
  <2>4. LockExclusion' /\ NoReleaseWhileClosed' /\ GuardReadsRows'
    BY <1>11, <1>5 DEF Abandon, IInv, LockExclusion, NoReleaseWhileClosed, GuardReadsRows, Idle
  <2>5. ReservationShape' /\ MarksOrdered' /\ FinalChecked'
    BY <1>11 DEF Abandon, IInv, ReservationShape, MarksOrdered, FinalChecked, Exposed, Idle
  <2> QED BY <2>3, <2>4, <2>5 DEF IInv
<1> QED BY <1>6, <1>7, <1>8, <1>9, <1>10, <1>11

\* The steps of a latch commit and of an acknowledgement keep it.
LEMMA LatchKeeps ==
  ASSUME IInv, NEW t \in Threads,
         BeginLatch(t) \/ CommitLatch(t) \/ RequestAck(t) \/ BeginAck(t) \/ CommitAck(t)
  PROVE  IInv'
<1> USE ConstantsAssumption, InitialRecords
        DEF GuardHeld, InTransaction, HasReservation, NoOverrun, rows, history, Times,
            NoMark, Unavailable
<1>1. clock \in ClockRows BY DEF IInv, TypeOK
<1>2. latch \in LatchRows BY DEF IInv, TypeOK
<1>3. lock \in Threads \cup {NoThread} BY DEF IInv, TypeOK
<1>4. pending \in [Procs -> [Domains -> 0..MaxSeq]] BY DEF IInv, TypeOK
<1>5. th \in [Threads -> ThreadStates] BY DEF IInv, TypeOK
<1>6. CASE BeginLatch(t)
  <2>1. th' \in [Threads -> ThreadStates]
    BY <1>6, <1>5 DEF BeginLatch, ThreadStates
  <2>2. lock' \in Threads \cup {NoThread}
    BY <1>6 DEF BeginLatch
  <2>3. TypeOK'
    BY <1>6, <2>1 DEF BeginLatch, IInv, TypeOK
  <2>4. LockExclusion' /\ NoReleaseWhileClosed' /\ GuardReadsRows'
    BY <1>6, <1>5 DEF BeginLatch, IInv, LockExclusion, NoReleaseWhileClosed, GuardReadsRows
  <2>5. ReservationShape' /\ MarksOrdered' /\ FinalChecked'
    BY <1>6 DEF BeginLatch, IInv, ReservationShape, MarksOrdered, FinalChecked, Exposed
  <2> QED BY <2>3, <2>4, <2>5 DEF IInv
<1>7. CASE CommitLatch(t)
  <2>a. /\ clock.domain \in Domains /\ ProcOf[t] \in Procs
        /\ pending[ProcOf[t]][clock.domain] \in 1..MaxSeq
    BY <1>7, <1>1, <1>4 DEF CommitLatch, LatchPending, ClockRows
  <2>1. latch' \in LatchRows
    BY <1>7, <1>2, <2>a DEF CommitLatch, LatchPending, LatchedRow, LatchRows
  <2>2. recorded' \in SUBSET Overrun
    <3>1. recorded \in SUBSET Overrun BY DEF IInv, TypeOK
    <3> QED BY <1>7, <2>a, <3>1 DEF CommitLatch, LatchPending, Overrun
  <2>3. th' \in [Threads -> ThreadStates]
    <3>1. \A r \in ThreadStates, d \in Domains :
            [r EXCEPT !.pc = "clearing", !.domain = d] \in ThreadStates
      BY DEF ThreadStates
    <3> QED BY <1>7, <1>5, <2>a, <3>1 DEF CommitLatch, LatchPending, LatchedRow
  <2>4. lock' \in Threads \cup {NoThread}
    BY <1>7 DEF CommitLatch, LatchPending
  <2>5. TypeOK'
    BY <1>7, <2>1, <2>2, <2>3 DEF CommitLatch, LatchPending, IInv, TypeOK
  <2>6. LockExclusion' /\ NoReleaseWhileClosed' /\ GuardReadsRows'
    BY <1>7, <1>5 DEF CommitLatch, LatchPending, IInv, LockExclusion, NoReleaseWhileClosed,
       GuardReadsRows
  <2>7. ReservationShape' /\ MarksOrdered' /\ FinalChecked'
    BY <1>7, <1>1 DEF CommitLatch, LatchPending, IInv, ReservationShape, MarksOrdered,
       FinalChecked, Exposed, ClockRows
  <2> QED BY <2>5, <2>6, <2>7 DEF IInv
<1>8. CASE RequestAck(t)
  <2>1. th' \in [Threads -> ThreadStates]
    <3>1. latch.count \in 0..MaxCount /\ recorded \in SUBSET Overrun
      BY DEF IInv, TypeOK, LatchRows
    <3>2. \A r \in ThreadStates, n \in 0..MaxCount, o \in SUBSET Overrun :
            [r EXCEPT !.pc = "ackRequested", !.expected = n, !.seen = o] \in ThreadStates
      BY DEF ThreadStates
    <3> QED BY <1>8, <1>5, <3>1, <3>2 DEF RequestAck
  <2>2. TypeOK'
    BY <1>8, <2>1 DEF RequestAck, IInv, TypeOK
  <2>3. LockExclusion' /\ NoReleaseWhileClosed' /\ GuardReadsRows'
    BY <1>8 DEF RequestAck, IInv, LockExclusion, NoReleaseWhileClosed, GuardReadsRows
  <2>4. ReservationShape' /\ MarksOrdered' /\ FinalChecked'
    BY <1>8 DEF RequestAck, IInv, ReservationShape, MarksOrdered, FinalChecked, Exposed
  <2> QED BY <2>2, <2>3, <2>4 DEF IInv
<1>9. CASE BeginAck(t)
  <2>1. th' \in [Threads -> ThreadStates]
    BY <1>9, <1>5 DEF BeginAck, ThreadStates
  <2>2. lock' \in Threads \cup {NoThread}
    BY <1>9 DEF BeginAck
  <2>3. TypeOK'
    BY <1>9, <2>1 DEF BeginAck, IInv, TypeOK
  <2>4. LockExclusion' /\ NoReleaseWhileClosed' /\ GuardReadsRows'
    BY <1>9, <1>5 DEF BeginAck, IInv, LockExclusion, NoReleaseWhileClosed, GuardReadsRows
  <2>5. ReservationShape' /\ MarksOrdered' /\ FinalChecked'
    BY <1>9 DEF BeginAck, IInv, ReservationShape, MarksOrdered, FinalChecked, Exposed
  <2> QED BY <2>3, <2>4, <2>5 DEF IInv
<1>10. CASE CommitAck(t)
  <2>p. /\ th[t].pc = "ackTx" /\ lock = t /\ lock' = NoThread
        /\ th'[t].pc = "idle" /\ \A u \in Threads \ {t} : th'[u] = th[u]
        /\ \A u \in Threads \ {t} : th[u].pc \notin GuardHeld \cup InTransaction
        /\ clock' = clock
    BY <1>10, <1>5 DEF CommitAck, IInv, LockExclusion, Idle
  <2>1. latch' \in LatchRows
    BY <1>10, <1>2 DEF CommitAck, LatchRows
  <2>2. acks' \in Seq(0..MaxCount)
    BY <1>10 DEF CommitAck, IInv, TypeOK, LatchRows
  <2>3. acked' \in SUBSET Overrun
    <3>1. recorded \in SUBSET Overrun BY DEF IInv, TypeOK
    <3> QED BY <1>10, <3>1 DEF CommitAck
  <2>4. th' \in [Threads -> ThreadStates]
    BY <1>10, <1>5 DEF CommitAck
  <2>5. lock' \in Threads \cup {NoThread}
    BY <1>10 DEF CommitAck
  <2>6. TypeOK'
    BY <1>10, <2>1, <2>2 DEF CommitAck, IInv, TypeOK
  <2>7. LockExclusion' /\ NoReleaseWhileClosed' /\ GuardReadsRows'
    BY <2>p DEF LockExclusion, NoReleaseWhileClosed, GuardReadsRows
  <2>8. ReservationShape' /\ MarksOrdered' /\ FinalChecked'
    BY <2>p DEF IInv, ReservationShape, MarksOrdered, FinalChecked, Exposed
  <2> QED BY <2>6, <2>7, <2>8 DEF IInv
<1> QED BY <1>6, <1>7, <1>8, <1>9, <1>10

\* A crash of a process keeps it.
LEMMA CrashKeeps ==
  ASSUME IInv, NEW p \in Procs, Crash(p)
  PROVE  IInv'
<1> USE ConstantsAssumption, InitialRecords
        DEF GuardHeld, InTransaction, HasReservation, NoOverrun, rows, history, Times,
            NoMark, Unavailable
<1>1. clock \in ClockRows BY DEF IInv, TypeOK
<1>2. latch \in LatchRows BY DEF IInv, TypeOK
<1>3. lock \in Threads \cup {NoThread} BY DEF IInv, TypeOK
<1>4. pending \in [Procs -> [Domains -> 0..MaxSeq]] BY DEF IInv, TypeOK
<1>5. th \in [Threads -> ThreadStates] BY DEF IInv, TypeOK
<1>6. CASE Crash(p)
  <2>1. th' \in [Threads -> ThreadStates]
    BY <1>5 DEF Crash
  <2>2. lock' \in Threads \cup {NoThread}
    BY <1>3 DEF Crash
  <2>3. pending' \in [Procs -> [Domains -> 0..MaxSeq]]
    BY <1>4 DEF Crash
  <2>4. overruns' \in SUBSET Overrun
    BY DEF Crash, IInv, TypeOK
  <2>5. TypeOK'
    BY DEF Crash, IInv, TypeOK
  <2>6. LockExclusion' /\ NoReleaseWhileClosed' /\ GuardReadsRows'
    BY DEF Crash, IInv, LockExclusion, NoReleaseWhileClosed, GuardReadsRows, Idle
  <2>7. ReservationShape' /\ MarksOrdered' /\ FinalChecked'
    BY DEF Crash, IInv, ReservationShape, MarksOrdered, FinalChecked, Exposed, Idle
  <2> QED BY <2>5, <2>6, <2>7 DEF IInv
<1> QED BY <1>6

\* A registration and a replacement of the rows keep it.
LEMMA RowsFromOutsideKeep ==
  ASSUME IInv, RegisterArtifact \/ RestoreAuthority
  PROVE  IInv'
<1> USE ConstantsAssumption, InitialRecords
        DEF GuardHeld, InTransaction, HasReservation, NoOverrun, rows, history, Times,
            NoMark, Unavailable
<1>1. clock \in ClockRows BY DEF IInv, TypeOK
<1>2. latch \in LatchRows BY DEF IInv, TypeOK
<1>3. lock \in Threads \cup {NoThread} BY DEF IInv, TypeOK
<1>4. pending \in [Procs -> [Domains -> 0..MaxSeq]] BY DEF IInv, TypeOK
<1>5. th \in [Threads -> ThreadStates] BY DEF IInv, TypeOK
<1>6. CASE RegisterArtifact
  <2>1. catalog' \in BOOLEAN
    BY <1>6 DEF RegisterArtifact
  <2>2. TypeOK'
    BY <1>6 DEF RegisterArtifact, IInv, TypeOK
  <2>3. LockExclusion' /\ NoReleaseWhileClosed' /\ GuardReadsRows'
    BY <1>6 DEF RegisterArtifact, IInv, LockExclusion, NoReleaseWhileClosed, GuardReadsRows
  <2>4. ReservationShape' /\ MarksOrdered' /\ FinalChecked'
    BY <1>6 DEF RegisterArtifact, IInv, ReservationShape, MarksOrdered, FinalChecked, Exposed
  <2> QED BY <2>2, <2>3, <2>4 DEF IInv
<1>7. CASE RestoreAuthority
  <2>1. clock' \in ClockRows
    <3>1. CASE clock' = NoClock BY <3>1
    <3>2. ASSUME NEW s \in 1..clock.seq, NEW h \in 0..clock.high, NEW u \in 0..clock.until,
                 clock' = [clock EXCEPT !.seq = s, !.high = h, !.until = u]
          PROVE  clock' \in ClockRows
      <4>1. s \in 0..MaxSeq /\ h \in Times /\ u \in Times BY <1>1 DEF ClockRows
      <4> QED BY <1>1, <3>2, <4>1 DEF ClockRows
    <3> QED BY <1>7, <3>1, <3>2 DEF RestoreAuthority
  <2>2. latch' \in LatchRows
    BY <1>7, <1>2 DEF RestoreAuthority, LatchRows
  <2>3. restores' \in 0..MaxRestores
    <3>1. restores \in 0..MaxRestores BY DEF IInv, TypeOK
    <3>2. restores < MaxRestores /\ restores' = restores + 1 BY <1>7 DEF RestoreAuthority
    <3> QED BY <3>1, <3>2
  <2>4. TypeOK'
    BY <1>7, <2>1, <2>2, <2>3 DEF RestoreAuthority, IInv, TypeOK
  <2>5. LockExclusion' /\ NoReleaseWhileClosed' /\ GuardReadsRows'
    BY <1>7, <1>1, <1>2, <1>3, <1>4, <1>5, MaxOfTwo DEF RestoreAuthority, IInv, LockExclusion,
       NoReleaseWhileClosed, GuardReadsRows, ReservationShape, ThreadStates, ClockRows, LatchRows
  <2>6. ReservationShape' /\ MarksOrdered' /\ FinalChecked'
    BY <1>7, <1>1, <1>2, <1>3, <1>4, <1>5, MaxOfTwo DEF RestoreAuthority, IInv,
       ReservationShape, MarksOrdered, GuardReadsRows, FinalChecked, Exposed, ThreadStates,
       ClockRows, LatchRows
  <2> QED BY <2>4, <2>5, <2>6 DEF IInv
<1> QED BY <1>6, <1>7

\* The inductive invariant holds before the first call.
LEMMA InitKeeps == Init => IInv
<1> SUFFICES ASSUME Init PROVE IInv OBVIOUS
<1>1. TypeOK BY TypeInit
<1>2. LockExclusion /\ NoReleaseWhileClosed /\ GuardReadsRows
  BY ConstantsAssumption DEF Init, Idle, LockExclusion, NoReleaseWhileClosed, GuardReadsRows,
     GuardHeld, InTransaction
<1>3. ReservationShape /\ MarksOrdered /\ FinalChecked
  BY DEF Init, Idle, ReservationShape, MarksOrdered, FinalChecked, Exposed, HasReservation,
     GuardHeld
<1> QED BY <1>1, <1>2, <1>3 DEF IInv

\* Every step of a thread, a crash or an outside change keeps it.
LEMMA NextKeeps == IInv /\ [Next]_vars => IInv'
<1> SUFFICES ASSUME IInv, [Next]_vars PROVE IInv' OBVIOUS
<1>1. CASE UNCHANGED vars
  BY <1>1 DEF vars, rows, history, IInv, TypeOK, LockExclusion, NoReleaseWhileClosed,
     ReservationShape, MarksOrdered, GuardReadsRows, FinalChecked, Exposed
<1>2. CASE Next
  <2>1. ASSUME NEW p \in Procs, Crash(p) PROVE IInv' BY <2>1, CrashKeeps
  <2>2. ASSUME RegisterArtifact \/ RestoreAuthority PROVE IInv'
    BY <2>2, RowsFromOutsideKeep
  <2>3. ASSUME NEW t \in Threads,
               \/ BeginReserve(t) \/ ReserveCommit(t) \/ ReserveLatches(t)
               \/ ClearPending(t) \/ LatchUnreported(t) \/ Rollback(t)
        PROVE  IInv'
    BY <2>3, ReservationKeeps
  <2>4. ASSUME NEW t \in Threads,
               \/ OpenGuard(t) \/ MintExpiries(t) \/ Handoff(t)
               \/ PostCheck(t) \/ DropGuard(t) \/ Abandon(t)
        PROVE  IInv'
    BY <2>4, ReleaseKeeps
  <2>5. ASSUME NEW t \in Threads,
               BeginLatch(t) \/ CommitLatch(t) \/ RequestAck(t) \/ BeginAck(t) \/ CommitAck(t)
        PROVE  IInv'
    BY <2>5, LatchKeeps
  <2> QED BY <1>2, <2>1, <2>2, <2>3, <2>4, <2>5 DEF Next
<1> QED BY <1>1, <1>2

\* Every reachable state satisfies the inductive invariant.
THEOREM Invariance == Spec => []IInv
BY InitKeeps, NextKeeps, PTL DEF Spec

\* The variables keep their types.
THEOREM ClockTypeOK == Spec => []TypeOK
BY Invariance, PTL DEF IInv

\* The authority's write lock has one holder (begin_immediate, the guard port).
THEOREM ClockLockExclusion == Spec => []LockExclusion
BY Invariance, PTL DEF IInv

\* A value is handed over only under the stored row and inside the window,
\* whatever the wall clock did and whoever replaced the rows (handoff_checked).
THEOREM ClockFenceHolds == Spec => []FenceHolds
<1>1. IInv => FenceHolds
  <2> SUFFICES ASSUME IInv, NEW t \in Threads, Exposed(t)
               PROVE  /\ clock.domain = th[t].domain /\ clock.seq >= th[t].seq
                      /\ clock.high <= th[t].final /\ th[t].sampled <= th[t].final
                      /\ th[t].final <= th[t].sampled + Window
    BY DEF FenceHolds
  <2>1. th[t] \in ThreadStates BY DEF IInv, TypeOK
  <2>2. th[t].pc \in GuardHeld /\ th[t].pc \in HasReservation
    BY DEF Exposed, GuardHeld, HasReservation
  <2> QED BY <2>1, <2>2 DEF IInv, GuardReadsRows, FinalChecked, ReservationShape, ThreadStates,
     Times
<1> QED BY <1>1, Invariance, PTL

\* No guard is open while the latch is closed or an overrun of the process
\* is pending (open_release_guard, post_handoff_overrun).
THEOREM ClockNoReleaseWhileClosed == Spec => []NoReleaseWhileClosed
BY Invariance, PTL DEF IInv

\* The move happens within the budgets counted from the reservation call.
THEOREM ClockWithinGuardBudget == Spec => []WithinGuardBudget
<1>1. IInv => WithinGuardBudget
  <2> SUFFICES ASSUME IInv, NEW t \in Threads, Exposed(t)
               PROVE  th[t].mark - th[t].start <= GuardBudget + WaitBudget
    BY DEF WithinGuardBudget
  <2>1. th[t] \in ThreadStates BY DEF IInv, TypeOK
  <2>2. th[t].pc \in HasReservation BY DEF Exposed, GuardHeld, HasReservation
  <2> QED BY <2>1, <2>2, ConstantsAssumption DEF IInv, MarksOrdered, ThreadStates
<1> QED BY <1>1, Invariance, PTL

\* While a guard stays open nobody changes the rows it decided on: every
\* writer needs the lock the guard holds (open_release_guard, begin_immediate).
THEOREM ClockRowsFrozenUnderGuard == Spec => RowsFrozenUnderGuard
<1> DEFINE Frozen == (\E t \in Threads : th[t].pc \in GuardHeld /\ th'[t].pc \in GuardHeld)
                       => UNCHANGED <<clock, latch, acks, catalog>>
<1>1. ASSUME IInv, Next PROVE Frozen
  <2> SUFFICES ASSUME NEW t \in Threads, th[t].pc \in GuardHeld, th'[t].pc \in GuardHeld
               PROVE  UNCHANGED <<clock, latch, acks, catalog>>
    OBVIOUS
  <2>1. lock = t /\ t # NoThread /\ \A u \in Threads : th[u].pc \in InTransaction => u = t
    BY <1>1, ConstantsAssumption DEF IInv, LockExclusion
  <2>2. th[t].pc \notin InTransaction
    BY DEF GuardHeld, InTransaction
  <2>3. \A u \in Threads : th[u].pc \notin InTransaction
    BY <2>1, <2>2
  <2>4. ~RegisterArtifact /\ ~RestoreAuthority
    BY <2>1 DEF RegisterArtifact, RestoreAuthority
  <2>5. ASSUME NEW u \in Threads
        PROVE  ~ReserveCommit(u) /\ ~ReserveLatches(u) /\ ~CommitLatch(u) /\ ~CommitAck(u)
    BY <2>3 DEF ReserveCommit, ReserveLatches, CommitLatch, CommitAck, Acknowledgeable,
       InTransaction
  <2>6. ASSUME NEW u \in Threads,
               \/ BeginReserve(u) \/ ClearPending(u) \/ LatchUnreported(u) \/ Rollback(u) \/ OpenGuard(u)
               \/ MintExpiries(u) \/ Handoff(u) \/ PostCheck(u) \/ DropGuard(u) \/ Abandon(u)
               \/ BeginLatch(u) \/ RequestAck(u) \/ BeginAck(u)
        PROVE  UNCHANGED rows
    BY <2>6 DEF BeginReserve, ClearPending, LatchUnreported, Rollback, OpenGuard, GuardedHighWater,
       MintExpiries, Handoff, GuardExpiries, FinalCheck, PostCheck, DropGuard, Abandon,
       BeginLatch, RequestAck, BeginAck
  <2>7. ASSUME NEW p \in Procs, Crash(p) PROVE UNCHANGED rows
    BY <2>7 DEF Crash
  <2> QED BY <1>1, <2>4, <2>5, <2>6, <2>7 DEF Next, rows
<1>2. IInv /\ [Next]_vars => [Frozen]_vars BY <1>1
<1> QED BY <1>2, Invariance, PTL DEF Spec, RowsFrozenUnderGuard

\* The stored row never falls back while nobody replaces it from outside
\* (reserved_row).
THEOREM ClockHighWaterMonotone == Spec => HighWaterMonotone
<1> DEFINE Rises == clock.domain # NoDomain /\ restores' = restores =>
                      /\ clock'.domain = clock.domain
                      /\ clock'.high >= clock.high /\ clock'.until >= clock.until
                      /\ (clock' # clock => clock'.seq = clock.seq + 1)
<1>1. ASSUME IInv, Next PROVE Rises
  <2> SUFFICES ASSUME clock.domain # NoDomain, restores' = restores PROVE Rises
    OBVIOUS
  <2>1. clock \in ClockRows /\ restores \in Nat
    BY <1>1 DEF IInv, TypeOK
  <2>2. CASE clock' = clock
    BY <2>1, <2>2 DEF ClockRows, Times
  <2>3. ASSUME NEW t \in Threads, ReserveCommit(t) PROVE Rises
    <3>1. PICK s \in Times, d \in Domains :
            /\ d = clock.domain /\ s >= clock.high
            /\ clock' = [domain |-> d, high |-> s, seq |-> clock.seq + 1,
                         until |-> Max({clock.until, s + Window})]
      BY <2>3 DEF ReserveCommit, Reservable, ReservedRow, ClockRow, RowDomain
    <3>2. Max({clock.until, s + Window}) >= clock.until
      BY <2>1, MaxOfTwo, ConstantsAssumption DEF ClockRows, Times
    <3> QED BY <3>1, <3>2
  <2>4. ~RestoreAuthority
    <3>1. RestoreAuthority => restores' = restores + 1 BY DEF RestoreAuthority
    <3> QED BY <2>1, <3>1
  <2>5. ASSUME NEW t \in Threads,
               \/ BeginReserve(t) \/ ReserveLatches(t) \/ ClearPending(t) \/ LatchUnreported(t)
               \/ Rollback(t)
               \/ OpenGuard(t) \/ MintExpiries(t) \/ Handoff(t) \/ PostCheck(t) \/ DropGuard(t)
               \/ Abandon(t) \/ BeginLatch(t) \/ CommitLatch(t) \/ RequestAck(t) \/ BeginAck(t)
               \/ CommitAck(t)
        PROVE  clock' = clock
    BY <2>5 DEF BeginReserve, ReserveLatches, LatchPending, LatchedRow, ClearPending, LatchUnreported, Rollback,
       OpenGuard, GuardedHighWater, MintExpiries, Handoff, GuardExpiries, FinalCheck, PostCheck,
       DropGuard, Abandon, BeginLatch, CommitLatch, RequestAck, BeginAck, CommitAck,
       Acknowledgeable, rows
  <2>6. ASSUME NEW p \in Procs, Crash(p) PROVE clock' = clock
    BY <2>6 DEF Crash, rows
  <2>7. RegisterArtifact => clock' = clock
    BY DEF RegisterArtifact
  <2> QED BY <1>1, <2>2, <2>3, <2>4, <2>5, <2>6, <2>7 DEF Next
<1>2. IInv /\ [Next]_vars => [Rises]_vars BY <1>1
<1> QED BY <1>2, Invariance, PTL DEF Spec, HighWaterMonotone

=============================================================================
