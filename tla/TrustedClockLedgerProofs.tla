---------------------- MODULE TrustedClockLedgerProofs ----------------------
(***************************************************************************)
(* Proofs about the trusted clock's ledger: which reservations, expiries,  *)
(* overruns and acknowledgements its rows account for.  They hold until    *)
(* the rows are first replaced from outside, for any threads, processes,   *)
(* window, budgets and limits; the accounts of single overruns need one    *)
(* clock thread per process.                                               *)
(***************************************************************************)
EXTENDS TrustedClockProofs, WellFoundedInduction, FiniteSetTheorems

\* A nonempty set of natural numbers has a least element.
LEMMA NatMinimum ==
  ASSUME NEW S \in SUBSET Nat, S # {}
  PROVE  \E x \in S : \A y \in S : x <= y
<1> DEFINE R == OpToRel(<, Nat)
<1>1. IsWellFoundedOn(R, Nat) BY NatLessThanWellFounded
<1>2. \A x, y \in Nat : y < x => <<y, x>> \in R BY DEF OpToRel
<1> HIDE DEF R
<1>3. PICK x \in S : \A y \in S : ~(<<y, x>> \in R) BY <1>1, WFMin
<1>4. \A y \in S : ~(y < x) BY <1>2, <1>3
<1> QED BY <1>4

\* The elements of a sequence belong to the set it is over.
LEMMA ElementsInRange ==
  ASSUME NEW S, NEW s \in Seq(S)
  PROVE  \A i \in DOMAIN s : s[i] \in S
OBVIOUS

\* earliest_expiry is no later than any expiry of known premises.
LEMMA EarliestIsFirst ==
  ASSUME NEW p \in Premises, ExpiryKnown(p)
  PROVE  \A x \in Expiries(p) : x \in Nat /\ EarliestExpiry(p) <= x
<1>1. /\ p.access \in Nat /\ p.leases \in SUBSET Nat /\ p.grants \in SUBSET Nat
      /\ p.refs \in SUBSET Nat
  BY PremisesAssumption DEF ExpiryKnown
<1>2. \A g \in p.grants : g * MicrosPerSecond \in Nat
  <2>1. \A g, m \in Nat : g * m \in Nat OBVIOUS
  <2> QED BY <1>1, <2>1, ConstantsAssumption
<1>3. Expiries(p) \in SUBSET Nat BY <1>1, <1>2 DEF Expiries
<1>4. Expiries(p) # {} BY DEF Expiries
<1>5. PICK m \in Expiries(p) : \A y \in Expiries(p) : m <= y BY <1>3, <1>4, NatMinimum
<1> HIDE DEF Expiries
<1>6. \A y \in Expiries(p) : Min(Expiries(p)) <= y BY <1>5 DEF Min
<1> QED BY <1>3, <1>6 DEF EarliestExpiry

----------------------------------------------------------------------------

\* A step after which every thread holds at most what it held before: the
\* reservation, the premises, the flag to clear and the request it has.
Forgets(t) ==
  /\ th'[t].pc \in HasReservation =>
       /\ th[t].pc \in HasReservation
       /\ th'[t].domain = th[t].domain /\ th'[t].seq = th[t].seq
       /\ th'[t].sampled = th[t].sampled /\ th'[t].bound = th[t].bound
  /\ Exposed(t)' => Exposed(t) /\ th'[t].premises = th[t].premises
  /\ th'[t].pc = "clearing" => th[t].pc = "clearing" /\ th'[t].domain = th[t].domain
  /\ th'[t].pc \in Asking => /\ th[t].pc \in Asking
                             /\ th'[t].expected = th[t].expected /\ th'[t].seen = th[t].seen

\* A step that writes no row, mints nothing, and after which threads only
\* forget and flags name the stored identity, keeps the ledger.
LEMMA QuietKeepsLedger ==
  ASSUME LedgerInv, \A t \in Threads : Forgets(t),
         UNCHANGED <<clock, latch, acks, minted, recorded, acked>>,
         \A p \in Procs, d \in Domains :
           pending'[p][d] # NoOverrun => pending[p][d] # NoOverrun \/ d = clock.domain
  PROVE  LedgerInv'
<1>1. ReservationsCovered' BY DEF LedgerInv, ReservationsCovered, Forgets
<1>2. FlagsNameRow' BY DEF LedgerInv, FlagsNameRow, Forgets
<1>3. MintedBounded' BY DEF LedgerInv, MintedBounded, Forgets
<1>4. PremisesBounded'
  <2> SUFFICES ASSUME NEW t \in Threads, Exposed(t)', NEW p \in th'[t].premises
               PROVE  ExpiryKnown(p) /\ \A x \in Expiries(p) : th'[t].bound < x
    BY DEF PremisesBounded
  <2>1. Exposed(t) /\ p \in th[t].premises BY DEF Forgets
  <2>2. th'[t].bound = th[t].bound BY DEF Forgets, Exposed, HasReservation, GuardHeld
  <2> QED BY <2>1, <2>2 DEF LedgerInv, PremisesBounded
<1>5. AcksIncrease' /\ AcksBelow' BY DEF LedgerInv, AcksIncrease, AcksBelow
<1>6. AskersSaw' /\ RecordedClosed' BY DEF LedgerInv, AskersSaw, RecordedClosed, Forgets
<1> QED BY <1>1, <1>2, <1>3, <1>4, <1>5, <1>6 DEF LedgerInv

\* A thread that is not touched forgets nothing and gains nothing.
LEMMA UntouchedForgets ==
  ASSUME NEW t, th'[t] = th[t]
  PROVE  Forgets(t)
BY DEF Forgets, Exposed

\* Opening and closing transactions and guards, and clearing a flag, only
\* make threads forget.
LEMMA ThreadForgets ==
  ASSUME IInv, NEW t \in Threads,
         \/ BeginReserve(t) \/ Rollback(t) \/ ClearPending(t) \/ LatchUnreported(t) \/ OpenGuard(t)
         \/ PostCheck(t) \/ DropGuard(t) \/ Abandon(t) \/ BeginLatch(t) \/ BeginAck(t)
  PROVE  \A u \in Threads : Forgets(u)
<1>1. th \in [Threads -> ThreadStates] BY DEF IInv, TypeOK
<1>2. \A u \in Threads \ {t} : th'[u] = th[u]
  <2>1. CASE BeginReserve(t) BY <1>1, <2>1 DEF BeginReserve
  <2>2. CASE Rollback(t) BY <1>1, <2>2 DEF Rollback
  <2>3. CASE ClearPending(t) BY <1>1, <2>3 DEF ClearPending
  <2>4. CASE OpenGuard(t) BY <1>1, <2>4 DEF OpenGuard
  <2>5. CASE PostCheck(t) BY <1>1, <2>5 DEF PostCheck
  <2>6. CASE DropGuard(t) BY <1>1, <2>6 DEF DropGuard
  <2>7. CASE Abandon(t) BY <1>1, <2>7 DEF Abandon
  <2>8. CASE BeginLatch(t) BY <1>1, <2>8 DEF BeginLatch
  <2>9. CASE BeginAck(t) BY <1>1, <2>9 DEF BeginAck
  <2>10. CASE LatchUnreported(t) BY <1>1, <2>10 DEF LatchUnreported
  <2> QED BY <2>1, <2>2, <2>3, <2>4, <2>5, <2>6, <2>7, <2>8, <2>9, <2>10
<1>3. ASSUME th'[t].pc \in {"idle", "resTx", "latchTx"} PROVE Forgets(t)
  BY <1>3 DEF Forgets, Exposed, HasReservation, GuardHeld, Asking
<1>4. CASE BeginReserve(t)
  <2>1. th'[t].pc = "resTx"
    <3>1. PICK before \in Marks, acquired \in Marks, owner \in Marks \cup {NoMark} :
            th' = [th EXCEPT ![t] =
                     [Idle EXCEPT !.pc = "resTx", !.start = before,
                                  !.wait = WaitBudget - (acquired - before),
                                  !.g0 = IF owner = NoMark THEN acquired ELSE owner]]
      BY <1>4 DEF BeginReserve
    <3> QED BY <1>1, <3>1 DEF Idle
  <2> QED BY <1>2, <1>3, <2>1, UntouchedForgets
<1>5. CASE BeginLatch(t)
  <2>1. th'[t].pc = "latchTx" BY <1>1, <1>5 DEF BeginLatch, Idle
  <2> QED BY <1>2, <1>3, <2>1, UntouchedForgets
<1>6. CASE Rollback(t) \/ ClearPending(t) \/ LatchUnreported(t) \/ DropGuard(t) \/ Abandon(t)
  <2>1. th'[t].pc = "idle"
    BY <1>1, <1>6 DEF Rollback, ClearPending, LatchUnreported, DropGuard, Abandon, Idle
  <2> QED BY <1>2, <1>3, <2>1, UntouchedForgets
<1>7. CASE OpenGuard(t)
  <2>1. PICK before \in Marks, acquired \in Marks :
          /\ ChargeOk(th[t].wait, before, acquired)
          /\ th' = [th EXCEPT ![t].pc = "guarded", ![t].high = clock.high,
                              ![t].wait = th[t].wait - (acquired - before)]
    BY <1>1, <1>7 DEF OpenGuard, ThreadStates
  <2>2. /\ th'[t].pc = "guarded"
        /\ th'[t].domain = th[t].domain /\ th'[t].seq = th[t].seq
        /\ th'[t].sampled = th[t].sampled /\ th'[t].bound = th[t].bound
    BY <1>1, <2>1 DEF ThreadStates
  <2>3. th[t].pc = "reserved" BY <1>7 DEF OpenGuard
  <2>4. Forgets(t) BY <2>2, <2>3 DEF Forgets, Exposed, HasReservation, GuardHeld, Asking
  <2> QED BY <1>2, <2>4, UntouchedForgets
<1>8. CASE PostCheck(t)
  <2>1. /\ th'[t].pc = "posted" /\ th[t].pc = "exposed"
        /\ th'[t].domain = th[t].domain /\ th'[t].seq = th[t].seq
        /\ th'[t].sampled = th[t].sampled /\ th'[t].bound = th[t].bound
        /\ th'[t].premises = th[t].premises
    BY <1>1, <1>8 DEF PostCheck, ThreadStates
  <2>2. Forgets(t) BY <2>1 DEF Forgets, Exposed, HasReservation, GuardHeld, Asking
  <2> QED BY <1>2, <2>2, UntouchedForgets
<1>9. CASE BeginAck(t)
  <2>1. /\ th'[t].pc = "ackTx" /\ th[t].pc = "ackRequested"
        /\ th'[t].expected = th[t].expected /\ th'[t].seen = th[t].seen
    BY <1>1, <1>9 DEF BeginAck, ThreadStates
  <2>2. Forgets(t) BY <2>1 DEF Forgets, Exposed, HasReservation, GuardHeld, Asking
  <2> QED BY <1>2, <2>2, UntouchedForgets
<1> QED BY <1>4, <1>5, <1>6, <1>7, <1>8, <1>9

\* A process that dies forgets.
LEMMA CrashForgets ==
  ASSUME IInv, NEW p \in Procs, Crash(p)
  PROVE  \A u \in Threads : Forgets(u)
<1>1. \A u \in Threads : th'[u] = IF ProcOf[u] = p THEN Idle ELSE th[u] BY DEF Crash
<1>2. ASSUME NEW u \in Threads PROVE Forgets(u)
  <2>1. CASE ProcOf[u] = p
    BY <1>1, <2>1 DEF Forgets, Idle, Exposed, HasReservation, GuardHeld, Asking
  <2>2. CASE ProcOf[u] # p BY <1>1, <2>2, UntouchedForgets
  <2> QED BY <2>1, <2>2
<1> QED BY <1>2

\* These steps keep the ledger.
LEMMA ForgettingKeepsLedger ==
  ASSUME IInv, LedgerInv, NEW t \in Threads,
         \/ BeginReserve(t) \/ Rollback(t) \/ ClearPending(t) \/ LatchUnreported(t) \/ OpenGuard(t)
         \/ PostCheck(t) \/ DropGuard(t) \/ Abandon(t) \/ BeginLatch(t) \/ BeginAck(t)
  PROVE  LedgerInv'
<1>1. \A u \in Threads : Forgets(u) BY ThreadForgets
<1>2. UNCHANGED <<clock, latch, acks, minted, recorded, acked>>
  BY DEF BeginReserve, Rollback, ClearPending, LatchUnreported, OpenGuard, PostCheck, DropGuard,
     Abandon, BeginLatch, BeginAck, rows, history
<1>3. pending \in [Procs -> [Domains -> 0..MaxSeq]] /\ ProcOf[t] \in Procs
  BY ConstantsAssumption DEF IInv, TypeOK
<1>4. \A p \in Procs, d \in Domains :
        pending'[p][d] # NoOverrun => pending[p][d] # NoOverrun \/ d = clock.domain
  <2>1. CASE ClearPending(t)
    BY <1>3, <2>1 DEF ClearPending
  <2>2. CASE PostCheck(t)
    <3>1. th[t].domain = clock.domain
      BY <2>2 DEF PostCheck, IInv, GuardReadsRows, GuardHeld
    <3>2. \/ pending' = pending
          \/ pending' = [pending EXCEPT ![ProcOf[t]][th[t].domain] = th[t].seq]
      BY <2>2 DEF PostCheck
    <3> QED BY <1>3, <3>1, <3>2
  <2>3. CASE ~(ClearPending(t) \/ PostCheck(t))
    BY <2>3 DEF BeginReserve, Rollback, LatchUnreported, OpenGuard, DropGuard, Abandon, BeginLatch,
       BeginAck
  <2> QED BY <2>1, <2>2, <2>3
<1> QED BY <1>1, <1>2, <1>4, QuietKeepsLedger

LEMMA CrashKeepsLedger ==
  ASSUME IInv, LedgerInv, NEW p \in Procs, Crash(p)
  PROVE  LedgerInv'
<1>1. \A u \in Threads : Forgets(u) BY CrashForgets
<1>2. UNCHANGED <<clock, latch, acks, minted, recorded, acked>> BY DEF Crash, rows
<1>3. pending \in [Procs -> [Domains -> 0..MaxSeq]] BY DEF IInv, TypeOK
<1>4. \A q \in Procs, d \in Domains :
        pending'[q][d] # NoOverrun => pending[q][d] # NoOverrun \/ d = clock.domain
  BY <1>3 DEF Crash
<1> QED BY <1>1, <1>2, <1>4, QuietKeepsLedger

\* applicable_expiries: the reservation of a guard is its own, so the value
\* minted in it is bounded for its holder and concerns nobody else.
LEMMA MintKeepsLedger ==
  ASSUME IInv, LedgerInv, NEW t \in Threads, MintExpiries(t)
  PROVE  LedgerInv'
<1>1. PICK p \in Premises :
        /\ ExpiryKnown(p) /\ th[t].bound < EarliestExpiry(p)
        /\ minted' = minted \cup {[domain |-> th[t].domain, seq |-> th[t].seq, premises |-> p]}
  BY DEF MintExpiries
<1>2. th' = th /\ pending' = pending /\ UNCHANGED <<clock, latch, acks, recorded, acked>>
  BY DEF MintExpiries, rows, history
<1>3. th[t].pc \in HasReservation BY DEF MintExpiries, HasReservation, GuardHeld
<1>4. th[t].bound \in Int BY DEF IInv, TypeOK, ThreadStates, Times
<1>5. \A x \in Expiries(p) : th[t].bound < x
  <2>1. \A x \in Expiries(p) : x \in Nat /\ EarliestExpiry(p) <= x BY <1>1, EarliestIsFirst
  <2>2. EarliestExpiry(p) \in Int
    <3>1. EarliestExpiry(p) \in Expiries(p)
      <4>1. Expiries(p) \in SUBSET Nat /\ Expiries(p) # {} BY <2>1 DEF Expiries
      <4>2. \E m \in Expiries(p) : \A y \in Expiries(p) : m <= y BY <4>1, NatMinimum
      <4> HIDE DEF Expiries
      <4> QED BY <4>2 DEF EarliestExpiry, Min
    <3> QED BY <2>1, <3>1
  <2> QED BY <1>1, <1>4, <2>1, <2>2
<1>6. /\ th[t].domain = clock.domain /\ th[t].seq <= clock.seq
      /\ \A u \in Threads : th[u].pc \in HasReservation /\ th[u].seq = th[t].seq => u = t
  BY <1>3 DEF LedgerInv, ReservationsCovered
<1>7. MintedBounded'
  <2> SUFFICES ASSUME NEW e \in minted'
               PROVE  /\ e.domain = clock.domain /\ e.seq <= clock.seq /\ ExpiryKnown(e.premises)
                      /\ \A u \in Threads : th[u].pc \in HasReservation /\ th[u].seq = e.seq =>
                           \A x \in Expiries(e.premises) : th[u].bound < x
    BY <1>2 DEF MintedBounded
  <2>1. CASE e \in minted BY <2>1 DEF LedgerInv, MintedBounded
  <2>2. CASE e = [domain |-> th[t].domain, seq |-> th[t].seq, premises |-> p]
    BY <1>1, <1>5, <1>6, <2>2
  <2> QED BY <1>1, <2>1, <2>2
<1>8. ReservationsCovered' /\ FlagsNameRow' /\ PremisesBounded'
  BY <1>2 DEF LedgerInv, ReservationsCovered, FlagsNameRow, PremisesBounded, Exposed
<1>9. AcksIncrease' /\ AcksBelow' /\ AskersSaw' /\ RecordedClosed'
  BY <1>2 DEF LedgerInv, AcksIncrease, AcksBelow, AskersSaw, RecordedClosed
<1> QED BY <1>7, <1>8, <1>9 DEF LedgerInv

\* handoff_checked: whichever expiries object the caller passed, it is bound
\* to the reservation of the guard.
LEMMA HandoffKeepsLedger ==
  ASSUME IInv, LedgerInv, NEW t \in Threads, Handoff(t)
  PROVE  LedgerInv'
<1>1. th \in [Threads -> ThreadStates] BY DEF IInv, TypeOK
<1>2. PICK e \in minted, m \in Marks, s \in Times :
        /\ GuardExpiries(t, e)
        /\ FinalCheck(t, m, s)
        /\ th' = [th EXCEPT ![t].pc = "exposed", ![t].mark = m, ![t].final = s,
                            ![t].premises = {e.premises}]
  BY DEF Handoff
<1>3. pending' = pending /\ UNCHANGED <<clock, latch, acks, minted, recorded, acked>>
  BY DEF Handoff, rows, history
<1>4. /\ th[t].pc = "guarded" /\ th'[t].pc = "exposed" /\ th'[t].premises = {e.premises}
      /\ th'[t].domain = th[t].domain /\ th'[t].seq = th[t].seq
      /\ th'[t].sampled = th[t].sampled /\ th'[t].bound = th[t].bound
      /\ \A u \in Threads \ {t} : th'[u] = th[u]
  <2>1. th[t].pc = "guarded" BY DEF Handoff
  <2> QED BY <1>1, <1>2, <2>1 DEF ThreadStates
<1>5. \A u \in Threads :
        /\ th'[u].pc \in HasReservation <=> th[u].pc \in HasReservation
        /\ th'[u].domain = th[u].domain /\ th'[u].seq = th[u].seq
        /\ th'[u].sampled = th[u].sampled /\ th'[u].bound = th[u].bound
  BY <1>4 DEF HasReservation, GuardHeld
<1>6. \A u \in Threads : /\ th'[u].pc = "clearing" <=> th[u].pc = "clearing"
                         /\ th'[u].pc \in Asking => th'[u] = th[u]
  BY <1>4 DEF Asking
<1>7. ReservationsCovered' /\ FlagsNameRow' /\ MintedBounded'
  BY <1>3, <1>5, <1>6 DEF LedgerInv, ReservationsCovered, FlagsNameRow, MintedBounded
<1>8. PremisesBounded'
  <2> SUFFICES ASSUME NEW u \in Threads, Exposed(u)', NEW p \in th'[u].premises
               PROVE  ExpiryKnown(p) /\ \A x \in Expiries(p) : th'[u].bound < x
    BY DEF PremisesBounded
  <2>1. CASE u = t
    <3>1. th[t].pc \in HasReservation BY <1>4 DEF HasReservation, GuardHeld
    <3> QED BY <1>2, <1>4, <2>1, <3>1 DEF LedgerInv, MintedBounded, GuardExpiries
  <2>2. CASE u # t
    <3>1. Exposed(u) /\ p \in th[u].premises BY <1>4, <2>2 DEF Exposed
    <3> QED BY <1>4, <2>2, <3>1 DEF LedgerInv, PremisesBounded
  <2> QED BY <2>1, <2>2
<1>9. AcksIncrease' /\ AcksBelow' /\ AskersSaw' /\ RecordedClosed'
  BY <1>3, <1>6 DEF LedgerInv, AcksIncrease, AcksBelow, AskersSaw, RecordedClosed
<1> QED BY <1>7, <1>8, <1>9 DEF LedgerInv

\* A reservation takes the next sequence number of the row, and the row it
\* leaves covers it and every earlier one.
LEMMA ReserveKeepsLedger ==
  ASSUME IInv, LedgerInv, NEW t \in Threads, ReserveCommit(t)
  PROVE  LedgerInv'
<1>1. th \in [Threads -> ThreadStates] BY DEF IInv, TypeOK
<1>2. clock \in ClockRows BY DEF IInv, TypeOK
<1>3. PICK s \in Times, d \in Domains :
        /\ RowDomain(d) /\ Reservable(ClockRow(d, s), s)
        /\ clock' = ReservedRow(ClockRow(d, s), s)
        /\ th' = [th EXCEPT ![t].pc = "reserved", ![t].domain = d,
                            ![t].seq = clock'.seq, ![t].sampled = s,
                            ![t].bound = s + Window]
  BY DEF ReserveCommit
<1> DEFINE row == ClockRow(d, s)
<1>4. row \in ClockRows /\ row.domain = d /\ s >= row.high
  BY <1>3, ClockRowType DEF IInv, ClockRow, RowDomain, Reservable
<1>5. clock.domain # NoDomain => row = clock BY DEF ClockRow
<1> HIDE DEF row
<1>6. /\ clock'.domain = d /\ clock'.high = s /\ clock'.seq = row.seq + 1
      /\ clock'.until = Max({row.until, s + Window})
  BY <1>3, <1>4 DEF ReservedRow, row
<1>7. clock'.until >= row.until /\ clock'.until >= s + Window
  <2>1. row.until \in Int /\ s + Window \in Int
    BY <1>4, ConstantsAssumption DEF ClockRows, Times
  <2> QED BY <1>6, <2>1, MaxOfTwo
<1>8. /\ th'[t].pc = "reserved" /\ th'[t].domain = d /\ th'[t].seq = clock'.seq
      /\ th'[t].sampled = s /\ th'[t].bound = s + Window
      /\ \A u \in Threads \ {t} : th'[u] = th[u]
  BY <1>1, <1>3 DEF ThreadStates
<1>9. latch'.latched = latch.latched /\ latch'.count = latch.count
  BY DEF ReserveCommit, IInv, TypeOK, LatchRows
<1>10. /\ th[t].pc = "resTx" /\ pending' = pending
       /\ UNCHANGED <<acks, minted, recorded, acked>>
  BY DEF ReserveCommit, history
<1>11. ASSUME NEW u \in Threads \ {t}, th'[u].pc \in HasReservation
       PROVE  /\ clock'.domain = th'[u].domain /\ th'[u].seq < clock'.seq
              /\ th'[u].sampled <= clock'.high /\ th'[u].bound <= clock'.until
  <2>1. th'[u] = th[u] /\ th[u].pc \in HasReservation BY <1>8, <1>11
  <2>2. th[u].domain \in Domains BY <2>1 DEF IInv, ReservationShape
  <2>3. /\ clock.domain = th[u].domain /\ th[u].seq <= clock.seq /\ th[u].sampled <= clock.high
        /\ th[u].bound <= clock.until
    BY <2>1 DEF LedgerInv, ReservationsCovered
  <2>4. row = clock BY <1>5, <2>2, <2>3, ConstantsAssumption
  <2>5. th[u] \in ThreadStates BY <1>1
  <2>6. th[u].seq < clock.seq + 1 /\ th[u].sampled <= s
    BY <1>2, <1>4, <2>3, <2>4, <2>5 DEF ThreadStates, ClockRows, Times
  <2>7. clock'.until \in Int
    BY <1>4, <1>6, MaxOfTwo, ConstantsAssumption DEF ClockRows, Times
  <2>8. th[u].bound <= clock'.until
    BY <1>2, <1>7, <2>3, <2>4, <2>5, <2>7 DEF ThreadStates, ClockRows, Times
  <2> QED BY <1>4, <1>6, <2>1, <2>3, <2>4, <2>6, <2>8
<1>12. ReservationsCovered'
  <2>1. clock'.seq \in Int BY <1>4, <1>6 DEF ClockRows
  <2>2. \A u \in Threads : th'[u].pc \in HasReservation =>
          /\ clock'.domain = th'[u].domain /\ th'[u].sampled <= clock'.high
          /\ th'[u].bound <= clock'.until
          /\ u = t \/ th'[u].seq < clock'.seq
    BY <1>6, <1>7, <1>8, <1>11 DEF Times
  <2>3. \A u \in Threads : th'[u].pc \in HasReservation =>
          th'[u].seq <= clock'.seq /\ (u # t => th'[u].seq # clock'.seq)
    BY <1>1, <1>8, <2>1, <2>2 DEF ThreadStates
  <2>4. \A u, v \in Threads \ {t} : u # v /\ th'[u].pc \in HasReservation
                                    /\ th'[v].pc \in HasReservation => th'[u].seq # th'[v].seq
    BY <1>8 DEF LedgerInv, ReservationsCovered
  <2> QED BY <1>8, <2>2, <2>3, <2>4 DEF ReservationsCovered
<1>13. clock.domain # NoDomain => clock'.domain = clock.domain
  BY <1>4, <1>5, <1>6
<1>14. FlagsNameRow'
  <2>1. \A p \in Procs, e \in Domains : pending'[p][e] # NoOverrun => e = clock'.domain
    BY <1>10, <1>13, ConstantsAssumption DEF LedgerInv, FlagsNameRow
  <2>2. \A u \in Threads : th'[u].pc = "clearing" => th'[u].domain = clock'.domain
    BY <1>8, <1>13, ConstantsAssumption DEF LedgerInv, FlagsNameRow, IInv, ReservationShape
  <2> QED BY <2>1, <2>2 DEF FlagsNameRow
<1>15. MintedBounded'
  <2> SUFFICES ASSUME NEW e \in minted
               PROVE  /\ e.domain = clock'.domain /\ e.seq <= clock'.seq
                      /\ ExpiryKnown(e.premises)
                      /\ \A u \in Threads : th'[u].pc \in HasReservation /\ th'[u].seq = e.seq =>
                           \A x \in Expiries(e.premises) : th'[u].bound < x
    BY <1>10 DEF MintedBounded
  <2>1. e.domain \in Domains /\ e.seq \in Int BY DEF IInv, TypeOK
  <2>2. e.domain = clock.domain /\ e.seq <= clock.seq /\ ExpiryKnown(e.premises)
    BY DEF LedgerInv, MintedBounded
  <2>3. row = clock BY <1>5, <2>1, <2>2, ConstantsAssumption
  <2>4. e.seq < clock'.seq BY <1>2, <1>6, <2>1, <2>2, <2>3 DEF ClockRows
  <2>5. \A u \in Threads : th'[u].pc \in HasReservation /\ th'[u].seq = e.seq => u # t
    BY <1>6, <1>8, <2>1, <2>4, <1>4 DEF ClockRows
  <2>6. \A u \in Threads : th'[u].pc \in HasReservation /\ th'[u].seq = e.seq =>
          \A x \in Expiries(e.premises) : th'[u].bound < x
    BY <1>8, <2>5 DEF LedgerInv, MintedBounded
  <2>7. e.seq <= clock'.seq BY <1>4, <1>6, <2>1, <2>4 DEF ClockRows
  <2> QED BY <1>4, <1>6, <2>2, <2>3, <2>6, <2>7
<1>16. PremisesBounded'
  BY <1>8 DEF LedgerInv, PremisesBounded, Exposed
<1>17. AcksIncrease' /\ AcksBelow' BY <1>9, <1>10 DEF LedgerInv, AcksIncrease, AcksBelow
<1>18. AskersSaw' /\ RecordedClosed'
  BY <1>8, <1>9, <1>10 DEF LedgerInv, AskersSaw, RecordedClosed, Asking
<1> QED BY <1>12, <1>14, <1>15, <1>16, <1>17, <1>18 DEF LedgerInv

\* The latch closes at the next count, which nobody asked for or
\* acknowledged yet; the flag it recorded names the stored identity.
LEMMA LatchKeepsLedger ==
  ASSUME IInv, LedgerInv, NEW t \in Threads, ReserveLatches(t) \/ CommitLatch(t)
  PROVE  LedgerInv'
<1>1. th \in [Threads -> ThreadStates] /\ latch \in LatchRows /\ acks \in Seq(0..MaxCount)
  BY DEF IInv, TypeOK
<1>2. LatchPending(t) BY DEF ReserveLatches, CommitLatch
<1>3. /\ latch'.latched = TRUE /\ latch'.count = latch.count + 1
      /\ th' = [th EXCEPT ![t] = [Idle EXCEPT !.pc = "clearing", !.domain = clock.domain]]
      /\ pending' = pending /\ UNCHANGED <<clock, acks, minted, acked>>
  BY <1>2 DEF LatchPending, LatchedRow
<1>4. /\ th'[t].pc = "clearing" /\ th'[t].domain = clock.domain
      /\ \A u \in Threads \ {t} : th'[u] = th[u]
  BY <1>1, <1>3 DEF Idle
<1>5. ReservationsCovered'
  BY <1>3, <1>4 DEF LedgerInv, ReservationsCovered, HasReservation, GuardHeld
<1>6. FlagsNameRow' BY <1>3, <1>4 DEF LedgerInv, FlagsNameRow
<1>7. MintedBounded'
  BY <1>3, <1>4 DEF LedgerInv, MintedBounded, HasReservation, GuardHeld
<1>8. PremisesBounded' BY <1>4 DEF LedgerInv, PremisesBounded, Exposed
<1>9. AcksIncrease' /\ AcksBelow'
  <2>1. \A i \in DOMAIN acks : acks[i] \in 0..MaxCount
    BY <1>1, ElementsInRange
  <2> QED BY <1>1, <1>3, <2>1 DEF LedgerInv, AcksIncrease, AcksBelow, LatchRows
<1>10. AskersSaw'
  <2>1. \A u \in Threads : th'[u].pc \in Asking => u # t /\ th'[u] = th[u]
    BY <1>4 DEF Asking
  <2>2. \A u \in Threads : th[u].expected \in Int BY <1>1 DEF ThreadStates
  <2>3. \A u \in Threads : th'[u].pc \in Asking =>
          th'[u].expected <= latch'.count /\ th'[u].expected # latch'.count
    BY <1>1, <1>3, <2>1, <2>2 DEF LedgerInv, AskersSaw, LatchRows
  <2> QED BY <2>3 DEF AskersSaw
<1>11. RecordedClosed' BY <1>2, <1>3 DEF LatchPending, LedgerInv, RecordedClosed
<1> QED BY <1>5, <1>6, <1>7, <1>8, <1>9, <1>10, <1>11 DEF LedgerInv

\* An operator that looks at the latch sees every recorded overrun.
LEMMA RequestKeepsLedger ==
  ASSUME IInv, LedgerInv, NEW t \in Threads, RequestAck(t)
  PROVE  LedgerInv'
<1>1. th \in [Threads -> ThreadStates] /\ latch \in LatchRows BY DEF IInv, TypeOK
<1>2. /\ th' = [th EXCEPT ![t] = [Idle EXCEPT !.pc = "ackRequested", !.expected = latch.count,
                                              !.seen = recorded]]
      /\ pending' = pending /\ UNCHANGED <<clock, latch, acks, minted, recorded, acked>>
  BY DEF RequestAck, rows, history
<1>3. /\ th'[t].pc = "ackRequested" /\ th'[t].expected = latch.count /\ th'[t].seen = recorded
      /\ \A u \in Threads \ {t} : th'[u] = th[u]
  BY <1>1, <1>2 DEF Idle
<1>4. ReservationsCovered' /\ FlagsNameRow' /\ MintedBounded'
  BY <1>2, <1>3 DEF LedgerInv, ReservationsCovered, FlagsNameRow, MintedBounded, HasReservation,
     GuardHeld
<1>5. PremisesBounded' BY <1>3 DEF LedgerInv, PremisesBounded, Exposed
<1>6. AcksIncrease' /\ AcksBelow' /\ RecordedClosed'
  BY <1>2 DEF LedgerInv, AcksIncrease, AcksBelow, RecordedClosed
<1>7. AskersSaw' BY <1>1, <1>2, <1>3 DEF LedgerInv, AskersSaw, LatchRows
<1> QED BY <1>4, <1>5, <1>6, <1>7 DEF LedgerInv

\* An acknowledgement names a count above every acknowledged one and covers
\* everything recorded.
LEMMA AckKeepsLedger ==
  ASSUME IInv, LedgerInv, NEW t \in Threads, CommitAck(t)
  PROVE  LedgerInv'
<1>1. th \in [Threads -> ThreadStates] /\ latch \in LatchRows /\ acks \in Seq(0..MaxCount)
  BY DEF IInv, TypeOK
<1>2. /\ latch.latched /\ latch'.latched = FALSE /\ latch'.count = latch.count
      /\ acks' = Append(acks, latch.count) /\ acked' = recorded
      /\ th' = [th EXCEPT ![t] = Idle]
      /\ pending' = pending /\ UNCHANGED <<clock, minted, recorded>>
  BY <1>1 DEF CommitAck, Acknowledgeable, LatchRows
<1>3. th'[t] = Idle /\ \A u \in Threads \ {t} : th'[u] = th[u] BY <1>1, <1>2
<1>4. th'[t].pc = "idle" BY <1>3 DEF Idle
<1>5. ReservationsCovered' /\ FlagsNameRow' /\ MintedBounded'
  BY <1>2, <1>3, <1>4 DEF LedgerInv, ReservationsCovered, FlagsNameRow, MintedBounded,
     HasReservation, GuardHeld
<1>6. PremisesBounded' BY <1>3, <1>4 DEF LedgerInv, PremisesBounded, Exposed
<1>7. AcksIncrease'
  <2>1. /\ DOMAIN acks' = 1..(Len(acks) + 1) /\ DOMAIN acks = 1..Len(acks) /\ Len(acks) \in Nat
        /\ acks'[Len(acks) + 1] = latch.count
        /\ \A i \in DOMAIN acks : acks'[i] = acks[i] /\ acks[i] \in 0..MaxCount
    <3>1. acks \in Seq(0..MaxCount) /\ acks' = Append(acks, latch.count) BY <1>1, <1>2
    <3>2. \A i \in DOMAIN acks : acks[i] \in 0..MaxCount BY <1>1, ElementsInRange
    <3> QED BY <3>1, <3>2
  <2>2. \A i \in DOMAIN acks : acks[i] < latch.count BY <1>2 DEF LedgerInv, AcksBelow
  <2>3. \A i \in DOMAIN acks' : i \in DOMAIN acks \/ i = Len(acks) + 1 BY <2>1
  <2>4. \A i, j \in DOMAIN acks : i < j => acks'[i] < acks'[j]
    BY <2>1 DEF LedgerInv, AcksIncrease
  <2>5. \A i \in DOMAIN acks : acks'[i] < acks'[Len(acks) + 1] BY <2>1, <2>2
  <2>6. \A i \in DOMAIN acks : ~(Len(acks) + 1 < i) BY <2>1
  <2>7. \A i, j \in DOMAIN acks' : i < j => acks'[i] < acks'[j]
    <3> SUFFICES ASSUME NEW i \in DOMAIN acks', NEW j \in DOMAIN acks', i < j
                 PROVE  acks'[i] < acks'[j]
      OBVIOUS
    <3>1. ~(Len(acks) + 1 < Len(acks) + 1) BY <2>1
    <3>2. i \in DOMAIN acks BY <2>3, <2>6, <3>1
    <3> QED BY <2>3, <2>4, <2>5, <3>2
  <2>8. \A i \in DOMAIN acks' : acks'[i] <= latch'.count
    BY <1>1, <1>2, <2>1, <2>2, <2>3 DEF LatchRows
  <2> QED BY <2>7, <2>8 DEF AcksIncrease
<1>8. AcksBelow' /\ RecordedClosed' BY <1>2 DEF AcksBelow, RecordedClosed
<1>9. AskersSaw' BY <1>2, <1>3, <1>4 DEF LedgerInv, AskersSaw, Asking
<1> QED BY <1>5, <1>6, <1>7, <1>8, <1>9 DEF LedgerInv

\* A fresh authority file has an empty ledger.
LEMMA LedgerInit == Init => LedgerInv
<1> SUFFICES ASSUME Init PROVE LedgerInv OBVIOUS
<1>1. \A t \in Threads : th[t].pc = "idle" BY DEF Init, Idle
<1>2. ReservationsCovered /\ PremisesBounded /\ AskersSaw
  BY <1>1 DEF ReservationsCovered, PremisesBounded, AskersSaw, HasReservation, GuardHeld, Exposed,
     Asking
<1>3. FlagsNameRow BY <1>1 DEF Init, FlagsNameRow
<1>4. MintedBounded /\ RecordedClosed BY DEF Init, MintedBounded, RecordedClosed
<1>5. AcksIncrease /\ AcksBelow BY DEF Init, AcksIncrease, AcksBelow, NoLatch
<1> QED BY <1>2, <1>3, <1>4, <1>5 DEF LedgerInv

\* Every step but a replacement of the rows keeps the ledger.
LEMMA LedgerNext ==
  ASSUME IInv, LedgerInv, [Next]_vars, ~RestoreAuthority
  PROVE  LedgerInv'
<1>1. ASSUME UNCHANGED vars \/ RegisterArtifact PROVE LedgerInv'
  <2>1. UNCHANGED <<clock, latch, acks, minted, recorded, acked, pending, th>>
    BY <1>1 DEF vars, rows, history, RegisterArtifact
  <2> QED BY <2>1, UntouchedForgets, QuietKeepsLedger
<1>2. ASSUME NEW t \in Threads,
             \/ BeginReserve(t) \/ Rollback(t) \/ ClearPending(t) \/ LatchUnreported(t) \/ OpenGuard(t)
             \/ PostCheck(t) \/ DropGuard(t) \/ Abandon(t) \/ BeginLatch(t) \/ BeginAck(t)
      PROVE  LedgerInv'
  BY <1>2, ForgettingKeepsLedger
<1>3. ASSUME NEW t \in Threads, MintExpiries(t) PROVE LedgerInv' BY <1>3, MintKeepsLedger
<1>4. ASSUME NEW t \in Threads, Handoff(t) PROVE LedgerInv' BY <1>4, HandoffKeepsLedger
<1>5. ASSUME NEW t \in Threads, ReserveCommit(t) PROVE LedgerInv' BY <1>5, ReserveKeepsLedger
<1>6. ASSUME NEW t \in Threads, ReserveLatches(t) \/ CommitLatch(t) PROVE LedgerInv'
  BY <1>6, LatchKeepsLedger
<1>7. ASSUME NEW t \in Threads, RequestAck(t) PROVE LedgerInv' BY <1>7, RequestKeepsLedger
<1>8. ASSUME NEW t \in Threads, CommitAck(t) PROVE LedgerInv' BY <1>8, AckKeepsLedger
<1>9. ASSUME NEW p \in Procs, Crash(p) PROVE LedgerInv' BY <1>9, CrashKeepsLedger
<1> QED BY <1>1, <1>2, <1>3, <1>4, <1>5, <1>6, <1>7, <1>8, <1>9 DEF Next

\* A replacement of the rows is counted, and nothing takes the count back.
LEMMA RestoresCounted ==
  ASSUME IInv, [Next]_vars, restores' = 0
  PROVE  restores = 0 /\ ~RestoreAuthority
<1>1. restores \in Nat BY DEF IInv, TypeOK
<1>2. ~RestoreAuthority
  <2>1. RestoreAuthority => restores' = restores + 1 BY DEF RestoreAuthority
  <2> QED BY <1>1, <2>1
<1>3. restores' = restores
  BY <1>2 DEF Next, vars, rows, history, BeginReserve, ReserveCommit, ReserveLatches, LatchPending,
     ClearPending, LatchUnreported, Rollback, OpenGuard, MintExpiries, Handoff, PostCheck, DropGuard,
     Abandon, BeginLatch, CommitLatch, RequestAck, BeginAck, CommitAck, Crash, RegisterArtifact
<1> QED BY <1>2, <1>3

\* The ledger is kept until the first replacement of the rows.
THEOREM Ledger == Spec => [](restores = 0 => LedgerInv)
<1> DEFINE Kept == restores = 0 => LedgerInv
<1>1. Init => Kept BY LedgerInit
<1>2. IInv /\ Kept /\ [Next]_vars => Kept' BY LedgerNext, RestoresCounted
<1> QED BY <1>1, <1>2, Invariance, PTL DEF Spec

\* The durable row covers the sequence, sample and bound of every reservation
\* in use, and no two share a sequence (reserved_row, reserve_in_transaction).
THEOREM ClockReservationsCovered == Spec => [](restores = 0 => ReservationsCovered)
<1>1. (restores = 0 => LedgerInv) => (restores = 0 => ReservationsCovered) BY DEF LedgerInv
<1> QED BY <1>1, Ledger, PTL

\* A value is handed over strictly before every expiry it was released under,
\* whichever expiries object the caller passed (applicable_expiries,
\* handoff_checked).
THEOREM ClockExpiryRespected == Spec => [](restores = 0 => ExpiryRespected)
<1>1. ASSUME IInv, LedgerInv PROVE ExpiryRespected
  <2> SUFFICES ASSUME NEW t \in Threads, Exposed(t), NEW p \in th[t].premises
               PROVE  ExpiryKnown(p) /\ \A x \in Expiries(p) : th[t].final < x
    BY DEF ExpiryRespected
  <2>1. ExpiryKnown(p) /\ \A x \in Expiries(p) : th[t].bound < x
    BY <1>1 DEF LedgerInv, PremisesBounded
  <2>2. th[t].final <= th[t].bound /\ th[t] \in ThreadStates
    BY <1>1 DEF IInv, TypeOK, FinalChecked
  <2>3. p \in Premises BY <2>2 DEF ThreadStates
  <2>4. \A x \in Expiries(p) : x \in Nat BY <2>1, <2>3, EarliestIsFirst
  <2> QED BY <2>1, <2>2, <2>4 DEF ThreadStates, Times
<1>2. IInv /\ (restores = 0 => LedgerInv) => (restores = 0 => ExpiryRespected) BY <1>1
<1> QED BY <1>2, Invariance, Ledger, PTL

\* Acknowledgement rows name strictly increasing counts that were reached
\* (acknowledge_in_transaction).
THEOREM ClockAcksIncrease == Spec => [](restores = 0 => AcksIncrease)
<1>1. (restores = 0 => LedgerInv) => (restores = 0 => AcksIncrease) BY DEF LedgerInv
<1> QED BY <1>1, Ledger, PTL

\* The latch opens only through an acknowledgement row, and that covers only
\* overruns its operator had seen (acknowledge_in_transaction), as long as
\* nobody replaces the rows.
THEOREM ClockAckCoversOnlySeen ==
  ASSUME MaxRestores = 0
  PROVE  Spec => AckCoversOnlySeen
<1> DEFINE Covers ==
      latch.latched /\ ~latch'.latched /\ restores' = restores =>
        /\ acks' = Append(acks, latch.count)
        /\ \E t \in Threads : th[t].pc = "ackTx" /\ acked' \subseteq acked \cup th[t].seen
<1>1. IInv => restores = 0 BY DEF IInv, TypeOK
<1>2. ASSUME IInv, LedgerInv, Next PROVE Covers
  <2> SUFFICES ASSUME latch.latched, ~latch'.latched, restores' = restores PROVE Covers
    OBVIOUS
  <2>1. latch \in LatchRows /\ restores \in Nat BY <1>2 DEF IInv, TypeOK
  <2>2. ASSUME NEW t \in Threads, CommitAck(t) PROVE Covers
    <3>1. /\ acks' = Append(acks, latch.count) /\ acked' = recorded /\ th[t].pc = "ackTx"
          /\ th[t].expected = latch.count
      BY <2>2 DEF CommitAck, Acknowledgeable
    <3>2. recorded \subseteq th[t].seen
      BY <1>2, <3>1 DEF LedgerInv, AskersSaw, Asking
    <3> QED BY <3>1, <3>2
  <2>3. ~RestoreAuthority
    <3>1. RestoreAuthority => restores' = restores + 1 BY DEF RestoreAuthority
    <3> QED BY <2>1, <3>1
  <2>4. ASSUME NEW t \in Threads, ReserveCommit(t) PROVE FALSE BY <2>4 DEF ReserveCommit
  <2>5. ASSUME NEW t \in Threads, ReserveLatches(t) \/ CommitLatch(t) PROVE FALSE
    BY <2>5 DEF ReserveLatches, CommitLatch, LatchPending, LatchedRow
  <2>6. ASSUME NEW t \in Threads,
               \/ BeginReserve(t) \/ ClearPending(t) \/ LatchUnreported(t) \/ Rollback(t) \/ OpenGuard(t)
               \/ MintExpiries(t) \/ Handoff(t) \/ PostCheck(t) \/ DropGuard(t) \/ Abandon(t)
               \/ BeginLatch(t) \/ RequestAck(t) \/ BeginAck(t)
        PROVE  latch' = latch
    BY <2>6 DEF BeginReserve, ClearPending, LatchUnreported, Rollback, OpenGuard, MintExpiries,
       Handoff, PostCheck, DropGuard, Abandon, BeginLatch, RequestAck, BeginAck, rows
  <2>7. ASSUME NEW p \in Procs, Crash(p) PROVE latch' = latch BY <2>7 DEF Crash, rows
  <2>8. RegisterArtifact => latch' = latch BY DEF RegisterArtifact
  <2> QED BY <1>2, <2>2, <2>3, <2>4, <2>5, <2>6, <2>7, <2>8 DEF Next
<1>3. IInv /\ (restores = 0 => LedgerInv) /\ [Next]_vars => [Covers]_vars BY <1>1, <1>2
<1> QED BY <1>3, Invariance, Ledger, PTL DEF Spec, AckCoversOnlySeen

----------------------------------------------------------------------------

\* Reservations that may still overrun.
Unchecked == {"reserved", "guarded", "exposed"}

\* A step that touches neither the rows nor a flag nor the history, reserves
\* nothing and neither starts nor ends the clearing of a flag, keeps the count.
LEMMA QuietKeepsCount ==
  ASSUME CountInv,
         UNCHANGED <<clock, latch, pending, history>>,
         \A u \in Threads :
           /\ th'[u].pc \in Unchecked => /\ th[u].pc \in Unchecked
                                         /\ th'[u].domain = th[u].domain
                                         /\ th'[u].seq = th[u].seq
           /\ th'[u].pc = "clearing" <=> th[u].pc = "clearing"
           /\ th[u].pc = "clearing" => th'[u].domain = th[u].domain
  PROVE  CountInv'
<1> USE DEF history
<1>1. FlagsDistinct' BY DEF CountInv, FlagsDistinct
<1>2. ClearingRecorded' BY DEF CountInv, ClearingRecorded
<1>3. OverrunsPast' BY DEF CountInv, OverrunsPast, Unchecked
<1>4. OverrunAccounted' BY DEF CountInv, OverrunAccounted
<1>5. IsFiniteSet(recorded)' /\ CountMatches' BY DEF CountInv, CountMatches
<1> QED BY <1>1, <1>2, <1>3, <1>4, <1>5 DEF CountInv

\* Those steps.
LEMMA QuietSteps ==
  ASSUME IInv, CountInv, NEW t \in Threads,
         \/ BeginReserve(t) \/ Rollback(t) \/ OpenGuard(t) \/ DropGuard(t) \/ Abandon(t)
         \/ BeginLatch(t) \/ BeginAck(t) \/ MintExpiries(t) \/ Handoff(t) \/ RequestAck(t)
  PROVE  CountInv'
<1>1. th \in [Threads -> ThreadStates] BY DEF IInv, TypeOK
<1>2. UNCHANGED <<clock, latch, pending, history>>
  BY DEF BeginReserve, Rollback, OpenGuard, DropGuard, Abandon, BeginLatch, BeginAck, MintExpiries,
     Handoff, RequestAck, rows
<1>3. th[t].pc # "clearing"
  BY DEF BeginReserve, Rollback, OpenGuard, DropGuard, Abandon, BeginLatch, BeginAck, MintExpiries,
     Handoff, RequestAck, InTransaction
<1>4. CASE \/ BeginReserve(t) \/ Rollback(t) \/ OpenGuard(t) \/ DropGuard(t) \/ Abandon(t)
           \/ BeginLatch(t) \/ BeginAck(t)
  <2>1. \A u \in Threads : Forgets(u) BY <1>4, ThreadForgets
  <2>2. \A u \in Threads \ {t} : th'[u] = th[u]
    <3>1. CASE BeginReserve(t) BY <1>1, <3>1 DEF BeginReserve
    <3>2. CASE Rollback(t) BY <1>1, <3>2 DEF Rollback
    <3>3. CASE OpenGuard(t) BY <1>1, <3>3 DEF OpenGuard
    <3>4. CASE DropGuard(t) BY <1>1, <3>4 DEF DropGuard
    <3>5. CASE Abandon(t) BY <1>1, <3>5 DEF Abandon
    <3>6. CASE BeginLatch(t) BY <1>1, <3>6 DEF BeginLatch
    <3>7. CASE BeginAck(t) BY <1>1, <3>7 DEF BeginAck
    <3> QED BY <1>4, <3>1, <3>2, <3>3, <3>4, <3>5, <3>6, <3>7
  <2>3. th'[t].pc \in Unchecked => /\ th[t].pc \in Unchecked /\ th'[t].domain = th[t].domain
                                   /\ th'[t].seq = th[t].seq
    <3>1. DropGuard(t) => th'[t].pc = "idle" BY <1>1 DEF DropGuard, Idle
    <3>2. ~DropGuard(t) => th[t].pc # "posted"
      BY <1>4 DEF BeginReserve, Rollback, OpenGuard, Abandon, BeginLatch, BeginAck, InTransaction
    <3> QED BY <2>1, <3>1, <3>2 DEF Forgets, Unchecked, HasReservation, GuardHeld
  <2>4. th'[t].pc # "clearing" BY <1>3, <2>1 DEF Forgets
  <2> QED BY <1>2, <1>3, <2>2, <2>3, <2>4, QuietKeepsCount
<1>5. CASE MintExpiries(t)
  <2>1. th' = th BY <1>5 DEF MintExpiries
  <2> QED BY <1>2, <2>1, QuietKeepsCount
<1>6. CASE Handoff(t)
  <2>1. PICK e \in minted, m \in Marks, s \in Times :
          /\ GuardExpiries(t, e)
          /\ FinalCheck(t, m, s)
          /\ th' = [th EXCEPT ![t].pc = "exposed", ![t].mark = m, ![t].final = s,
                              ![t].premises = {e.premises}]
    BY <1>6 DEF Handoff
  <2>2. /\ th'[t].pc = "exposed" /\ th'[t].domain = th[t].domain /\ th'[t].seq = th[t].seq
        /\ \A u \in Threads \ {t} : th'[u] = th[u]
    BY <1>1, <2>1 DEF ThreadStates
  <2>3. th[t].pc = "guarded" BY <1>6 DEF Handoff
  <2> QED BY <1>2, <2>2, <2>3, QuietKeepsCount DEF Unchecked
<1>7. CASE RequestAck(t)
  <2>1. th'[t].pc = "ackRequested" /\ \A u \in Threads \ {t} : th'[u] = th[u]
    BY <1>1, <1>7 DEF RequestAck, Idle
  <2> QED BY <1>2, <1>3, <2>1, QuietKeepsCount DEF Unchecked
<1> QED BY <1>4, <1>5, <1>6, <1>7

\* A new reservation lies above every overrun.
LEMMA ReserveKeepsCount ==
  ASSUME IInv, LedgerInv, CountInv, NEW t \in Threads, ReserveCommit(t)
  PROVE  CountInv'
<1>1. th \in [Threads -> ThreadStates] BY DEF IInv, TypeOK
<1>2. clock \in ClockRows /\ recorded \in SUBSET Overrun BY DEF IInv, TypeOK
<1>3. pending \in [Procs -> [Domains -> 0..MaxSeq]] BY DEF IInv, TypeOK
<1>4. PICK s \in Times, d \in Domains :
        /\ RowDomain(d)
        /\ pending[ProcOf[t]][d] = NoOverrun
        /\ Reservable(ClockRow(d, s), s)
        /\ clock' = ReservedRow(ClockRow(d, s), s)
        /\ used' = used \cup {d}
        /\ th' = [th EXCEPT ![t].pc = "reserved", ![t].domain = d,
                            ![t].seq = clock'.seq, ![t].sampled = s,
                            ![t].bound = s + Window]
  BY DEF ReserveCommit
<1>5. clock'.seq = ClockRow(d, s).seq + 1 /\ clock'.domain = ClockRow(d, s).domain
  BY <1>4 DEF ReservedRow
<1>6. clock.domain # NoDomain => clock'.domain = clock.domain /\ clock'.seq = clock.seq + 1
  BY <1>5 DEF ClockRow
<1>7. /\ th'[t].pc = "reserved" /\ th'[t].domain = d /\ th'[t].seq = clock'.seq
      /\ \A u \in Threads \ {t} : th'[u] = th[u]
  BY <1>1, <1>4 DEF ThreadStates
<1>8. clock'.domain = d /\ clock'.seq \in Nat \ {0}
  <2>1. ClockRow(d, s).domain = d BY <1>4 DEF ClockRow, RowDomain
  <2>2. ClockRow(d, s) \in ClockRows BY ClockRowType DEF IInv
  <2>3. ClockRow(d, s).seq \in Nat BY <2>2 DEF ClockRows
  <2> QED BY <1>5, <2>1, <2>3
<1>9. latch'.latched = latch.latched /\ latch'.count = latch.count
  BY DEF ReserveCommit, IInv, TypeOK, LatchRows
<1>10. th[t].pc = "resTx" /\ UNCHANGED <<pending, overruns, recorded, acked, doubted>>
  BY DEF ReserveCommit, history
<1>11. \A p \in Procs, e \in Domains : pending[p][e] # NoOverrun =>
         e = clock'.domain /\ pending[p][e] < clock'.seq
  <2> SUFFICES ASSUME NEW p \in Procs, NEW e \in Domains, pending[p][e] # NoOverrun
               PROVE  e = clock'.domain /\ pending[p][e] < clock'.seq
    OBVIOUS
  <2>1. e = clock.domain /\ pending[p][e] <= clock.seq
    <3>1. e = clock.domain BY DEF LedgerInv, FlagsNameRow
    <3>2. pending[p][e] <= clock.seq BY DEF CountInv, FlagsDistinct
    <3> QED BY <3>1, <3>2
  <2>2. pending[p][e] \in Int /\ clock.seq \in Int BY <1>2, <1>3 DEF ClockRows
  <2> QED BY <1>6, <2>1, <2>2, ConstantsAssumption
<1>12. \A o \in recorded : o.domain = clock'.domain /\ o.seq < clock'.seq
  <2> SUFFICES ASSUME NEW o \in recorded PROVE o.domain = clock'.domain /\ o.seq < clock'.seq
    OBVIOUS
  <2>1. o.domain = clock.domain /\ o.seq <= clock.seq BY DEF CountInv, OverrunsPast
  <2>2. o.domain \in Domains /\ o.seq \in Int /\ clock.seq \in Int
    BY <1>2 DEF Overrun, ClockRows
  <2> QED BY <1>6, <2>1, <2>2, ConstantsAssumption
<1>13. FlagsDistinct'
  <2>1. \A p \in Procs, e \in Domains : pending[p][e] # NoOverrun => pending[p][e] <= clock'.seq
    <3>1. \A p \in Procs, e \in Domains : pending[p][e] \in 0..MaxSeq BY <1>3
    <3> QED BY <1>8, <1>11, <3>1
  <2>2. \A p \in Procs, e \in Domains, u \in Threads :
          ProcOf[u] = p /\ th[u].pc = "clearing" /\ th[u].domain = e => th'[u] = th[u]
    BY <1>7, <1>10
  <2> QED BY <1>10, <2>1, <2>2 DEF CountInv, FlagsDistinct
<1>14. ClearingRecorded' BY <1>7, <1>10 DEF CountInv, ClearingRecorded
<1>15. OverrunsPast'
  <2>1. \A o \in recorded : o.domain = clock'.domain /\ o.seq <= clock'.seq /\ o.seq # clock'.seq
    BY <1>2, <1>8, <1>12 DEF Overrun
  <2>2. \A p \in Procs : pending[p][d] # clock'.seq
    <3>1. \A p \in Procs : pending[p][d] \in 0..MaxSeq BY <1>3
    <3> QED BY <1>8, <1>11, <3>1 DEF NoOverrun
  <2>3. [domain |-> d, seq |-> clock'.seq] \notin recorded BY <2>1
  <2> QED BY <1>7, <1>10, <2>1, <2>2, <2>3 DEF CountInv, OverrunsPast
<1>16. OverrunAccounted' BY <1>9, <1>10 DEF CountInv, OverrunAccounted
<1>17. IsFiniteSet(recorded)' /\ CountMatches' BY <1>9, <1>10 DEF CountInv, CountMatches
<1> QED BY <1>13, <1>14, <1>15, <1>16, <1>17 DEF CountInv

\* Latching counts an overrun that was not recorded yet, unless a latch went
\* unreported: the only thread of the process that could have recorded it is the
\* one that does so now.
LEMMA LatchKeepsCount ==
  ASSUME IInv, LedgerInv, CountInv, OneThreadPerProcess, NEW t \in Threads,
         ReserveLatches(t) \/ CommitLatch(t)
  PROVE  CountInv'
<1>1. th \in [Threads -> ThreadStates] /\ recorded \in SUBSET Overrun BY DEF IInv, TypeOK
<1>2. pending \in [Procs -> [Domains -> 0..MaxSeq]] /\ clock \in ClockRows BY DEF IInv, TypeOK
<1> DEFINE home == ProcOf[t]
           d == clock.domain
           o == [domain |-> d, seq |-> pending[home][d]]
<1>3. LatchPending(t) /\ th[t].pc \in {"resTx", "latchTx"} BY DEF ReserveLatches, CommitLatch
<1>4. home \in Procs /\ d \in Domains /\ pending[home][d] # NoOverrun
  BY <1>2, <1>3, ConstantsAssumption DEF LatchPending, ClockRows
<1>5. /\ latch'.latched = TRUE /\ latch'.count = latch.count + 1 /\ recorded' = recorded \cup {o}
      /\ UNCHANGED <<clock, pending, overruns, acked, doubted>>
  BY <1>3 DEF LatchPending, LatchedRow
<1>6. /\ th'[t].pc = "clearing" /\ th'[t].domain = d
      /\ \A u \in Threads \ {t} : th'[u] = th[u]
  BY <1>1, <1>3 DEF LatchPending, Idle
<1>7. ~doubted => o \notin recorded
  BY <1>3, <1>4 DEF CountInv, FlagsDistinct, OneThreadPerProcess
<1>8. FlagsDistinct'
  <2> SUFFICES ASSUME NEW p \in Procs, NEW e \in Domains, pending[p][e] # NoOverrun
               PROVE  /\ pending[p][e] <= clock.seq
                      /\ \A q \in Procs \ {p} : pending[q][e] # pending[p][e]
                      /\ ~doubted /\ [domain |-> e, seq |-> pending[p][e]] \in recorded' =>
                           \E u \in Threads : ProcOf[u] = p /\ th'[u].pc = "clearing"
                                              /\ th'[u].domain = e
    BY <1>5 DEF FlagsDistinct
  <2>1. /\ pending[p][e] <= clock.seq
        /\ \A q \in Procs \ {p} : pending[q][e] # pending[p][e]
    BY DEF CountInv, FlagsDistinct
  <2>2. e = d BY DEF LedgerInv, FlagsNameRow
  <2>3. CASE p = home BY <1>6, <2>1, <2>2, <2>3
  <2>4. CASE p # home
    <3>1. pending[p][e] # pending[home][d] BY <1>4, <2>1, <2>2, <2>4
    <3>2. [domain |-> e, seq |-> pending[p][e]] # o BY <3>1
    <3>3. ~doubted /\ [domain |-> e, seq |-> pending[p][e]] \in recorded' =>
            \E u \in Threads : ProcOf[u] = p /\ th[u].pc = "clearing" /\ th[u].domain = e
      BY <1>5, <3>2 DEF CountInv, FlagsDistinct
    <3> QED BY <1>3, <1>6, <2>1, <3>3
  <2> QED BY <2>3, <2>4
<1>9. ClearingRecorded' BY <1>5, <1>6 DEF CountInv, ClearingRecorded
<1>10. OverrunsPast'
  <2>1. o.domain = clock.domain /\ o.seq <= clock.seq
    BY <1>4 DEF CountInv, FlagsDistinct
  <2>2. ASSUME NEW u \in Threads, th'[u].pc \in {"reserved", "guarded", "exposed"}
        PROVE  /\ [domain |-> th'[u].domain, seq |-> th'[u].seq] \notin recorded'
               /\ \A p \in Procs : pending[p][th'[u].domain] # th'[u].seq
    <3>1. th'[u] = th[u] BY <1>6, <2>2
    <3>2. /\ [domain |-> th[u].domain, seq |-> th[u].seq] \notin recorded
          /\ \A p \in Procs : pending[p][th[u].domain] # th[u].seq
      BY <2>2, <3>1 DEF CountInv, OverrunsPast
    <3>3. [domain |-> th[u].domain, seq |-> th[u].seq] # o BY <1>4, <3>2
    <3> QED BY <1>5, <3>1, <3>2, <3>3
  <2> QED BY <1>5, <2>1, <2>2 DEF CountInv, OverrunsPast
<1>11. OverrunAccounted' BY <1>5 DEF CountInv, OverrunAccounted
<1>12. IsFiniteSet(recorded)' /\ CountMatches'
  <2>1. /\ IsFiniteSet(recorded) /\ Cardinality(recorded) <= latch.count
        /\ ~doubted => latch.count = Cardinality(recorded)
    BY DEF CountInv, CountMatches
  <2>2. Cardinality(recorded) \in Nat /\ latch.count \in Nat
    BY <2>1, FS_CardinalityType DEF IInv, TypeOK, LatchRows
  <2>3. CASE o \in recorded
    <3>1. recorded' = recorded /\ doubted BY <1>5, <1>7, <2>3
    <3> QED BY <1>5, <2>1, <2>2, <3>1 DEF CountMatches
  <2>4. CASE o \notin recorded
    <3>1. /\ IsFiniteSet(recorded \cup {o})
          /\ Cardinality(recorded \cup {o}) = Cardinality(recorded) + 1
      BY <2>1, <2>4, FS_AddElement
    <3> QED BY <1>5, <2>1, <2>2, <3>1 DEF CountMatches
  <2> QED BY <2>3, <2>4
<1> QED BY <1>8, <1>9, <1>10, <1>11, <1>12 DEF CountInv

\* The flag that is cleared is recorded, so its overrun stays accounted for.
LEMMA ClearKeepsCount ==
  ASSUME IInv, LedgerInv, CountInv, NEW t \in Threads, ClearPending(t)
  PROVE  CountInv'
<1>1. th \in [Threads -> ThreadStates] BY DEF IInv, TypeOK
<1>2. pending \in [Procs -> [Domains -> 0..MaxSeq]] BY DEF IInv, TypeOK
<1> DEFINE home == ProcOf[t]
           d == th[t].domain
<1>3. /\ th[t].pc = "clearing" /\ home \in Procs /\ d \in Domains
      /\ UNCHANGED <<clock, latch, overruns, recorded, acked, doubted>>
  BY ConstantsAssumption DEF ClearPending, rows, history, IInv, ReservationShape
<1>4. \A p \in Procs, e \in Domains :
        pending'[p][e] = IF p = home /\ e = d THEN NoOverrun ELSE pending[p][e]
  BY <1>2, <1>3 DEF ClearPending
<1>5. th'[t].pc = "idle" /\ \A u \in Threads \ {t} : th'[u] = th[u]
  BY <1>1 DEF ClearPending, Idle
<1>6. FlagsDistinct'
  <2> SUFFICES ASSUME NEW p \in Procs, NEW e \in Domains, pending'[p][e] # NoOverrun
               PROVE  /\ pending'[p][e] <= clock.seq
                      /\ \A q \in Procs \ {p} : pending'[q][e] # pending'[p][e]
                      /\ ~doubted /\ [domain |-> e, seq |-> pending'[p][e]] \in recorded =>
                           \E u \in Threads : ProcOf[u] = p /\ th'[u].pc = "clearing"
                                              /\ th'[u].domain = e
    BY <1>3 DEF FlagsDistinct
  <2>1. pending'[p][e] = pending[p][e] /\ ~(p = home /\ e = d) BY <1>4
  <2>2. /\ pending[p][e] <= clock.seq
        /\ \A q \in Procs \ {p} : pending[q][e] # pending[p][e]
        /\ ~doubted /\ [domain |-> e, seq |-> pending[p][e]] \in recorded =>
             \E u \in Threads \ {t} : ProcOf[u] = p /\ th[u].pc = "clearing" /\ th[u].domain = e
    BY <2>1 DEF CountInv, FlagsDistinct
  <2> QED BY <1>4, <1>5, <2>1, <2>2
<1>7. ClearingRecorded'
  BY <1>3, <1>4, <1>5, ConstantsAssumption DEF CountInv, ClearingRecorded, IInv, ReservationShape
<1>8. OverrunsPast'
  <2> SUFFICES ASSUME NEW u \in Threads, th'[u].pc \in {"reserved", "guarded", "exposed"}
               PROVE  /\ [domain |-> th'[u].domain, seq |-> th'[u].seq] \notin recorded
                      /\ \A p \in Procs : pending'[p][th'[u].domain] # th'[u].seq
    BY <1>3 DEF CountInv, OverrunsPast
  <2>1. th'[u] = th[u] BY <1>5
  <2>2. th[u].domain \in Domains /\ th[u].seq # NoOverrun
    BY <1>1, <2>1 DEF IInv, ReservationShape, HasReservation, GuardHeld, NoOverrun, ThreadStates
  <2> QED BY <1>4, <2>1, <2>2 DEF CountInv, OverrunsPast
<1>9. OverrunAccounted'
  <2> SUFFICES ASSUME NEW o \in overruns
               PROVE  \/ o \in acked
                      \/ o \in recorded /\ latch.latched
                      \/ \E p \in Procs : pending'[p][o.domain] = o.seq
    BY <1>3 DEF OverrunAccounted
  <2>1. /\ o.domain \in Domains /\ o.seq \in 1..MaxSeq
        /\ o = [domain |-> o.domain, seq |-> o.seq]
    BY DEF IInv, TypeOK, Overrun
  <2>2. CASE o.domain = d /\ pending[home][d] = o.seq
    <3>1. o \in recorded BY <1>3, <2>1, <2>2 DEF CountInv, ClearingRecorded, NoOverrun
    <3> QED BY <3>1 DEF LedgerInv, RecordedClosed
  <2>3. CASE ~(o.domain = d /\ pending[home][d] = o.seq)
    BY <1>4, <2>1, <2>3 DEF CountInv, OverrunAccounted
  <2> QED BY <2>2, <2>3
<1>10. IsFiniteSet(recorded)' /\ CountMatches' BY <1>3 DEF CountInv, CountMatches
<1> QED BY <1>6, <1>7, <1>8, <1>9, <1>10 DEF CountInv

\* A latch that goes unreported keeps its flag, and casts doubt on the count.
LEMMA UnreportedKeepsCount ==
  ASSUME IInv, CountInv, NEW t \in Threads, LatchUnreported(t)
  PROVE  CountInv'
<1>1. th \in [Threads -> ThreadStates] BY DEF IInv, TypeOK
<1>2. doubted' = TRUE /\ UNCHANGED <<clock, latch, pending, overruns, recorded, acked>>
  BY DEF LatchUnreported, rows
<1>3. th'[t].pc = "idle" /\ \A u \in Threads \ {t} : th'[u] = th[u]
  BY <1>1 DEF LatchUnreported, Idle
<1>4. FlagsDistinct'
  <2> SUFFICES ASSUME NEW p \in Procs, NEW e \in Domains, pending[p][e] # NoOverrun
               PROVE  /\ pending[p][e] <= clock.seq
                      /\ \A q \in Procs \ {p} : pending[q][e] # pending[p][e]
    BY <1>2 DEF FlagsDistinct
  <2> QED BY DEF CountInv, FlagsDistinct
<1>5. ClearingRecorded' BY <1>2, <1>3 DEF CountInv, ClearingRecorded
<1>6. OverrunsPast' BY <1>2, <1>3 DEF CountInv, OverrunsPast
<1>7. OverrunAccounted' BY <1>2 DEF CountInv, OverrunAccounted
<1>8. IsFiniteSet(recorded)' /\ CountMatches' BY <1>2 DEF CountInv, CountMatches
<1> QED BY <1>4, <1>5, <1>6, <1>7, <1>8 DEF CountInv

\* An overrun sets a free flag to a sequence number no other flag or record
\* names, since the guard was opened without a flag and kept the lock.
LEMMA PostCheckKeepsCount ==
  ASSUME IInv, LedgerInv, CountInv, OneThreadPerProcess, NEW t \in Threads, PostCheck(t)
  PROVE  CountInv'
<1>1. th \in [Threads -> ThreadStates] BY DEF IInv, TypeOK
<1>2. pending \in [Procs -> [Domains -> 0..MaxSeq]] BY DEF IInv, TypeOK
<1> DEFINE home == ProcOf[t]
           d == th[t].domain
           o == [domain |-> d, seq |-> th[t].seq]
<1>3. /\ th[t].pc = "exposed" /\ UNCHANGED <<clock, latch, recorded, acked, doubted>>
      /\ \/ UNCHANGED <<pending, overruns>>
         \/ /\ pending' = [pending EXCEPT ![home][d] = th[t].seq]
            /\ overruns' = overruns \cup {o}
  BY DEF PostCheck, rows
<1>4. /\ th'[t].pc = "posted" /\ \A u \in Threads \ {t} : th'[u] = th[u]
  BY <1>1 DEF PostCheck, ThreadStates
<1>5. CASE UNCHANGED <<pending, overruns>>
  BY <1>3, <1>4, <1>5, QuietKeepsCount DEF Unchecked, history
<1>6. CASE /\ pending' = [pending EXCEPT ![home][d] = th[t].seq]
           /\ overruns' = overruns \cup {o}
  <2>1. /\ th[t].pc \in HasReservation /\ home \in Procs /\ d \in Domains
        /\ th[t].seq \in 1..MaxSeq
    BY <1>1, <1>3, ConstantsAssumption
       DEF IInv, ReservationShape, HasReservation, GuardHeld, ThreadStates
  <2>2. \A p \in Procs, e \in Domains :
          pending'[p][e] = IF p = home /\ e = d THEN th[t].seq ELSE pending[p][e]
    BY <1>2, <1>6, <2>1
  <2>3. pending[home][d] = NoOverrun BY <1>3 DEF IInv, NoReleaseWhileClosed
  <2>4. o \notin recorded /\ \A p \in Procs : pending[p][d] # th[t].seq
    BY <1>3 DEF CountInv, OverrunsPast
  <2>5. th[t].seq <= clock.seq
        /\ \A u \in Threads \ {t} : th[u].pc \in HasReservation => th[u].seq # th[t].seq
    BY <2>1 DEF LedgerInv, ReservationsCovered
  <2>6. FlagsDistinct'
    <3> SUFFICES ASSUME NEW p \in Procs, NEW e \in Domains, pending'[p][e] # NoOverrun
                 PROVE  /\ pending'[p][e] <= clock.seq
                        /\ \A q \in Procs \ {p} : pending'[q][e] # pending'[p][e]
                        /\ ~doubted /\ [domain |-> e, seq |-> pending'[p][e]] \in recorded =>
                             \E u \in Threads : ProcOf[u] = p /\ th'[u].pc = "clearing"
                                                /\ th'[u].domain = e
      BY <1>3 DEF FlagsDistinct
    <3>1. CASE p = home /\ e = d BY <2>2, <2>4, <2>5, <3>1
    <3>2. CASE ~(p = home /\ e = d)
      <4>1. pending'[p][e] = pending[p][e] BY <2>2, <3>2
      <4>2. /\ pending[p][e] <= clock.seq
            /\ \A q \in Procs \ {p} : pending[q][e] # pending[p][e]
            /\ ~doubted /\ [domain |-> e, seq |-> pending[p][e]] \in recorded =>
                 \E u \in Threads : ProcOf[u] = p /\ th[u].pc = "clearing" /\ th[u].domain = e
        BY <4>1 DEF CountInv, FlagsDistinct
      <4>3. \A q \in Procs \ {p} : pending'[q][e] # pending[p][e] BY <2>2, <2>4, <4>2
      <4> QED BY <1>3, <1>4, <4>1, <4>2, <4>3
    <3> QED BY <3>1, <3>2
  <2>7. ClearingRecorded'
    <3> SUFFICES ASSUME NEW u \in Threads, th'[u].pc = "clearing",
                        pending'[ProcOf[u]][th'[u].domain] # NoOverrun
                 PROVE  [domain |-> th'[u].domain, seq |-> pending'[ProcOf[u]][th'[u].domain]]
                          \in recorded
      BY <1>3 DEF ClearingRecorded
    <3>1. u # t /\ th'[u] = th[u] /\ ProcOf[u] # home BY <1>4 DEF OneThreadPerProcess
    <3>2. th[u].domain \in Domains /\ ProcOf[u] \in Procs
      BY <3>1, ConstantsAssumption DEF IInv, ReservationShape
    <3>3. pending'[ProcOf[u]][th[u].domain] = pending[ProcOf[u]][th[u].domain]
      BY <2>2, <3>1, <3>2
    <3> QED BY <3>1, <3>3 DEF CountInv, ClearingRecorded
  <2>8. OverrunsPast'
    <3> SUFFICES ASSUME NEW u \in Threads, th'[u].pc \in {"reserved", "guarded", "exposed"}
                 PROVE  /\ [domain |-> th'[u].domain, seq |-> th'[u].seq] \notin recorded
                        /\ \A p \in Procs : pending'[p][th'[u].domain] # th'[u].seq
      BY <1>3 DEF CountInv, OverrunsPast
    <3>1. u # t /\ th'[u] = th[u] BY <1>4
    <3>2. th[u].domain \in Domains /\ th[u].seq # th[t].seq
      BY <2>5, <3>1 DEF IInv, ReservationShape, HasReservation, GuardHeld
    <3> QED BY <2>2, <3>1, <3>2 DEF CountInv, OverrunsPast
  <2>9. OverrunAccounted'
    <3> SUFFICES ASSUME NEW x \in overruns'
                 PROVE  \/ x \in acked
                        \/ x \in recorded /\ latch.latched
                        \/ \E p \in Procs : pending'[p][x.domain] = x.seq
      BY <1>3 DEF OverrunAccounted
    <3>1. CASE x = o BY <2>1, <2>2, <3>1
    <3>2. CASE x \in overruns
      <4>1. x.domain \in Domains /\ x.seq # NoOverrun
        BY <3>2 DEF IInv, TypeOK, Overrun, NoOverrun
      <4> QED BY <2>2, <2>3, <3>2, <4>1 DEF CountInv, OverrunAccounted
    <3> QED BY <1>6, <3>1, <3>2
  <2>10. IsFiniteSet(recorded)' /\ CountMatches' BY <1>3 DEF CountInv, CountMatches
  <2> QED BY <2>6, <2>7, <2>8, <2>9, <2>10 DEF CountInv
<1> QED BY <1>3, <1>5, <1>6

\* An acknowledgement moves every recorded overrun to the acknowledged ones.
LEMMA AckKeepsCount ==
  ASSUME IInv, LedgerInv, CountInv, NEW t \in Threads, CommitAck(t)
  PROVE  CountInv'
<1>1. th \in [Threads -> ThreadStates] BY DEF IInv, TypeOK
<1>2. /\ th[t].pc = "ackTx" /\ latch'.count = latch.count /\ acked' = recorded
      /\ UNCHANGED <<clock, pending, overruns, recorded, doubted>>
  BY DEF CommitAck, IInv, TypeOK, LatchRows
<1>3. th'[t].pc = "idle" /\ \A u \in Threads \ {t} : th'[u] = th[u]
  BY <1>1 DEF CommitAck, Idle
<1>4. FlagsDistinct'
  <2>1. \A u \in Threads : th[u].pc = "clearing" => th'[u] = th[u] BY <1>2, <1>3
  <2> QED BY <1>2, <2>1 DEF CountInv, FlagsDistinct
<1>5. ClearingRecorded' BY <1>2, <1>3 DEF CountInv, ClearingRecorded
<1>6. OverrunsPast' BY <1>2, <1>3 DEF CountInv, OverrunsPast
<1>7. OverrunAccounted'
  BY <1>2 DEF CountInv, OverrunAccounted, LedgerInv, RecordedClosed
<1>8. IsFiniteSet(recorded)' /\ CountMatches' BY <1>2 DEF CountInv, CountMatches
<1> QED BY <1>4, <1>5, <1>6, <1>7, <1>8 DEF CountInv

\* A crash loses exactly the flags that are not recorded, with their overruns.
LEMMA CrashKeepsCount ==
  ASSUME IInv, LedgerInv, CountInv, NEW p \in Procs, Crash(p)
  PROVE  CountInv'
<1>1. th \in [Threads -> ThreadStates] BY DEF IInv, TypeOK
<1>2. pending \in [Procs -> [Domains -> 0..MaxSeq]] BY DEF IInv, TypeOK
<1>3. UNCHANGED <<clock, latch, recorded, acked, doubted>> BY DEF Crash, rows
<1>4. \A u \in Threads : /\ ProcOf[u] # p => th'[u] = th[u]
                         /\ ProcOf[u] = p => th'[u].pc = "idle"
  BY <1>1 DEF Crash, Idle
<1>5. \A q \in Procs, e \in Domains :
        pending'[q][e] = IF q = p THEN NoOverrun ELSE pending[q][e]
  BY <1>2 DEF Crash
<1>6. FlagsDistinct'
  <2> SUFFICES ASSUME NEW q \in Procs, NEW e \in Domains, pending'[q][e] # NoOverrun
               PROVE  /\ pending'[q][e] <= clock.seq
                      /\ \A r \in Procs \ {q} : pending'[r][e] # pending'[q][e]
                      /\ ~doubted /\ [domain |-> e, seq |-> pending'[q][e]] \in recorded =>
                           \E u \in Threads : ProcOf[u] = q /\ th'[u].pc = "clearing"
                                              /\ th'[u].domain = e
    BY <1>3 DEF FlagsDistinct
  <2>1. q # p /\ pending'[q][e] = pending[q][e] BY <1>5
  <2>2. /\ pending[q][e] <= clock.seq
        /\ \A r \in Procs \ {q} : pending[r][e] # pending[q][e]
        /\ ~doubted /\ [domain |-> e, seq |-> pending[q][e]] \in recorded =>
             \E u \in Threads : ProcOf[u] = q /\ th[u].pc = "clearing" /\ th[u].domain = e
    BY <2>1 DEF CountInv, FlagsDistinct
  <2> QED BY <1>4, <1>5, <2>1, <2>2
<1>7. ClearingRecorded'
  <2> SUFFICES ASSUME NEW u \in Threads, th'[u].pc = "clearing",
                      pending'[ProcOf[u]][th'[u].domain] # NoOverrun
               PROVE  [domain |-> th'[u].domain, seq |-> pending'[ProcOf[u]][th'[u].domain]]
                        \in recorded
    BY <1>3 DEF ClearingRecorded
  <2>1. ProcOf[u] # p /\ th'[u] = th[u] /\ ProcOf[u] \in Procs BY <1>4, ConstantsAssumption
  <2>2. th[u].domain \in Domains BY <2>1 DEF IInv, ReservationShape
  <2> QED BY <1>5, <2>1, <2>2 DEF CountInv, ClearingRecorded
<1>8. OverrunsPast'
  <2> SUFFICES ASSUME NEW u \in Threads, th'[u].pc \in {"reserved", "guarded", "exposed"}
               PROVE  /\ [domain |-> th'[u].domain, seq |-> th'[u].seq] \notin recorded
                      /\ \A q \in Procs : pending'[q][th'[u].domain] # th'[u].seq
    BY <1>3 DEF CountInv, OverrunsPast
  <2>1. th'[u] = th[u] BY <1>4
  <2>2. th[u].domain \in Domains /\ th[u].seq # NoOverrun
    BY <1>1, <2>1 DEF IInv, ReservationShape, HasReservation, GuardHeld, NoOverrun, ThreadStates
  <2> QED BY <1>5, <2>1, <2>2 DEF CountInv, OverrunsPast
<1>9. OverrunAccounted'
  <2> SUFFICES ASSUME NEW o \in overruns'
               PROVE  \/ o \in acked
                      \/ o \in recorded /\ latch.latched
                      \/ \E q \in Procs : pending'[q][o.domain] = o.seq
    BY <1>3 DEF OverrunAccounted
  <2>1. /\ o \in overruns
        /\ o \in {[domain |-> e, seq |-> pending[p][e]] : e \in Domains} => o \in recorded
    BY DEF Crash
  <2>2. o.domain \in Domains /\ o = [domain |-> o.domain, seq |-> o.seq]
    BY <2>1 DEF IInv, TypeOK, Overrun
  <2>3. CASE pending[p][o.domain] = o.seq
    <3>1. o \in recorded BY <2>1, <2>2, <2>3
    <3> QED BY <3>1 DEF LedgerInv, RecordedClosed
  <2>4. CASE pending[p][o.domain] # o.seq
    BY <1>5, <2>1, <2>2, <2>4 DEF CountInv, OverrunAccounted
  <2> QED BY <2>3, <2>4
<1>10. IsFiniteSet(recorded)' /\ CountMatches' BY <1>3 DEF CountInv, CountMatches
<1> QED BY <1>6, <1>7, <1>8, <1>9, <1>10 DEF CountInv

\* A fresh authority file has counted nothing.
LEMMA CountInit == Init => CountInv
<1> SUFFICES ASSUME Init PROVE CountInv OBVIOUS
<1>1. \A t \in Threads : th[t].pc = "idle" BY DEF Init, Idle
<1>2. FlagsDistinct BY DEF Init, FlagsDistinct
<1>3. ClearingRecorded /\ OverrunsPast BY <1>1 DEF Init, ClearingRecorded, OverrunsPast
<1>4. OverrunAccounted BY DEF Init, OverrunAccounted
<1>5. IsFiniteSet(recorded) /\ CountMatches BY FS_EmptySet DEF Init, CountMatches, NoLatch
<1> QED BY <1>2, <1>3, <1>4, <1>5 DEF CountInv

\* Every step but a replacement of the rows keeps the count.
LEMMA CountNext ==
  ASSUME IInv, LedgerInv, CountInv, OneThreadPerProcess, [Next]_vars, ~RestoreAuthority
  PROVE  CountInv'
<1>1. ASSUME UNCHANGED vars \/ RegisterArtifact PROVE CountInv'
  <2>1. UNCHANGED <<clock, latch, pending, history>> /\ th' = th
    BY <1>1 DEF vars, rows, RegisterArtifact
  <2> QED BY <2>1, QuietKeepsCount
<1>2. ASSUME NEW t \in Threads,
             \/ BeginReserve(t) \/ Rollback(t) \/ OpenGuard(t) \/ DropGuard(t) \/ Abandon(t)
             \/ BeginLatch(t) \/ BeginAck(t) \/ MintExpiries(t) \/ Handoff(t) \/ RequestAck(t)
      PROVE  CountInv'
  BY <1>2, QuietSteps
<1>3. ASSUME NEW t \in Threads, ReserveCommit(t) PROVE CountInv' BY <1>3, ReserveKeepsCount
<1>4. ASSUME NEW t \in Threads, ReserveLatches(t) \/ CommitLatch(t) PROVE CountInv'
  BY <1>4, LatchKeepsCount
<1>5. ASSUME NEW t \in Threads, ClearPending(t) PROVE CountInv' BY <1>5, ClearKeepsCount
<1>6. ASSUME NEW t \in Threads, PostCheck(t) PROVE CountInv' BY <1>6, PostCheckKeepsCount
<1>7. ASSUME NEW t \in Threads, CommitAck(t) PROVE CountInv' BY <1>7, AckKeepsCount
<1>8. ASSUME NEW p \in Procs, Crash(p) PROVE CountInv' BY <1>8, CrashKeepsCount
<1>9. ASSUME NEW t \in Threads, LatchUnreported(t) PROVE CountInv' BY <1>9, UnreportedKeepsCount
<1> QED BY <1>1, <1>2, <1>3, <1>4, <1>5, <1>6, <1>7, <1>8, <1>9 DEF Next

\* With one clock thread per process every overrun is counted and accounted
\* for, until the first replacement of the rows.
THEOREM Count ==
  ASSUME OneThreadPerProcess
  PROVE  Spec => [](restores = 0 => CountInv)
<1> DEFINE Kept == restores = 0 => CountInv
<1>1. Init => Kept BY CountInit
<1>2. IInv /\ (restores = 0 => LedgerInv) /\ Kept /\ [Next]_vars => Kept'
  BY CountNext, RestoresCounted
<1> QED BY <1>1, <1>2, Invariance, Ledger, PTL DEF Spec

\* No detected overrun is forgotten: it is pending, closes the latch or was
\* acknowledged (post_handoff_overrun, write_pending_latch,
\* clear_pending_overrun).
THEOREM ClockOverrunAccounted ==
  ASSUME OneThreadPerProcess
  PROVE  Spec => [](restores = 0 => OverrunAccounted)
<1>1. (restores = 0 => CountInv) => (restores = 0 => OverrunAccounted) BY DEF CountInv
<1> QED BY <1>1, Count, PTL

\* overrun_count counts each overrun, and exactly once as long as no durable
\* latch is reported as failed (latched_row, commit_or_rollback).
THEOREM ClockCountMatches ==
  ASSUME OneThreadPerProcess
  PROVE  Spec => [](restores = 0 => CountMatches)
<1>1. (restores = 0 => CountInv) => (restores = 0 => CountMatches) BY DEF CountInv
<1> QED BY <1>1, Count, PTL

=============================================================================
