---------------------------- MODULE TrustedClock ----------------------------
(***************************************************************************)
(* The trusted-clock protected-use fence (ADR-112) of                      *)
(* crates/pos-core/src/trusted_clock.rs over the authority adapters of     *)
(* crates/pos-store/src/trusted_clock.rs and trusted_clock/sqlite.rs.      *)
(*                                                                         *)
(* Threads of several processes share one authority file.  A release       *)
(* commits a durable reservation, opens a guard that holds the file's      *)
(* write lock, computes the applicable expiries, hands a staged value over *)
(* and checks afterwards whether it overran its window.  An overrun sets a *)
(* flag in the memory of its process; the flag is turned into a durable    *)
(* latch by a later transaction, and an operator acknowledgement clears    *)
(* the latch.                                                              *)
(*                                                                         *)
(* Wall samples and monotonic marks are inputs: the wall clock may jump in *)
(* either direction or be unavailable, and the code trusts no mark to be   *)
(* later than another.  An early return that changes nothing is a stutter; *)
(* one that gives up a lock, a reservation or a guard is Rollback or       *)
(* Abandon.                                                                *)
(***************************************************************************)
EXTENDS Integers, Sequences, FiniteSets, FiniteSetsExt

CONSTANTS
  Threads,          \* threads that release, latch or acknowledge
  Procs,            \* operating-system processes
  ProcOf,           \* the process each thread runs in
  Domains,          \* random clock domains, one per authority identity
  NoThread,         \* the write lock is free
  NoDomain,         \* there is no high-water row
  Marks,            \* monotonic instants
  Premises,         \* expiry premises a release may present
  Window,           \* TRUSTED_CLOCK_RESERVATION_WINDOW
  GuardBudget,      \* TRUSTED_CLOCK_GUARD_BUDGET
  WaitBudget,       \* TRUSTED_CLOCK_WAIT_BUDGET
  MicrosPerSecond,  \* MICROS_PER_SECOND
  MaxTime,          \* MAX_TRUSTED_MICROS: the largest representable sample
  MaxSeq,           \* the largest reservation_seq (i64::MAX in the code)
  MaxCount,         \* the largest overrun_count (i64::MAX in the code)
  MaxRestores       \* bound on outside replacements of the authority rows

Times == 0..MaxTime
NoMark == -1          \* Option::None orders below every mark
Unavailable == -1     \* TrustedClockErrorV1::SourceUnavailable
NoAccess == -1        \* no access authorization was presented
NoOverrun == 0        \* no pending flag; reservation sequences start at 1

ASSUME ConstantsAssumption ==
  /\ ProcOf \in [Threads -> Procs]
  /\ NoThread \notin Threads
  /\ NoDomain \notin Domains
  /\ Marks \subseteq Nat
  /\ Window \in Nat /\ GuardBudget \in Nat /\ WaitBudget \in Nat
  /\ MicrosPerSecond \in Nat
  /\ MaxTime \in Nat /\ MaxSeq \in Nat /\ MaxCount \in Nat /\ MaxRestores \in Nat

ASSUME PremisesAssumption ==
  \A p \in Premises :
    /\ p.access \in Nat \cup {NoAccess}
    /\ p.leases \in SUBSET Nat /\ p.grants \in SUBSET Nat /\ p.refs \in SUBSET Nat

VARIABLES
  clock,     \* the trusted_clock_high_water row
  latch,     \* the trusted_clock_overrun_latch row
  acks,      \* acknowledgement rows: the acknowledged overrun counts
  catalog,   \* the ARD1 artifact catalog holds at least one entry
  used,      \* clock domains already generated
  restores,  \* how often the rows were replaced from outside
  lock,      \* holder of the authority file's write lock
  pending,   \* PENDING_OVERRUNS of each process
  th,        \* the call each thread is in
  minted,    \* ApplicableExpiriesV1 values handed out so far
  overruns,  \* history: overruns detected and not lost with a process
  recorded,  \* history: overruns written to the latch row
  acked,     \* history: overruns an acknowledgement covered
  doubted    \* history: a latch commit was durable but reported as failed

rows == <<clock, latch, acks, catalog, used, restores>>
history == <<overruns, recorded, acked, doubted>>
vars == <<rows, lock, pending, th, minted, history>>

NoClock == [domain |-> NoDomain, high |-> 0, until |-> 0, seq |-> 0]
NoLatch == [present |-> FALSE, latched |-> FALSE, count |-> 0, seq |-> NoOverrun]

Idle == [pc |-> "idle", wait |-> 0, start |-> 0, g0 |-> 0, domain |-> NoDomain,
         seq |-> 0, sampled |-> 0, bound |-> 0, high |-> 0, mark |-> 0,
         final |-> 0, premises |-> {}, expected |-> 0, seen |-> {}]

GuardHeld == {"guarded", "exposed", "posted"}
InTransaction == {"resTx", "latchTx", "ackTx"}
HasReservation == {"reserved"} \cup GuardHeld

Init ==
  /\ clock = NoClock
  /\ latch = NoLatch
  /\ acks = <<>>
  /\ catalog \in BOOLEAN
  /\ used = {}
  /\ restores = 0
  /\ lock = NoThread
  /\ pending = [p \in Procs |-> [d \in Domains |-> NoOverrun]]
  /\ th = [t \in Threads |-> Idle]
  /\ minted = {}
  /\ overruns = {} /\ recorded = {} /\ acked = {} /\ doubted = FALSE

----------------------------------------------------------------------------
(* Rows                                                                    *)

RowsPresent == clock.domain # NoDomain /\ latch.present

\* migrate_missing_rows creates missing rows only for an empty catalog.
MayReadOrMigrate == RowsPresent \/ ~catalog

\* The high-water row a transaction works on when it sampled s and would
\* name a fresh identity d.
ClockRow(d, s) ==
  IF clock.domain = NoDomain
  THEN [domain |-> d, high |-> s, until |-> s, seq |-> 0]
  ELSE clock

\* The identity of the row: the stored one, or a freshly generated one.
RowDomain(d) == IF clock.domain = NoDomain THEN d \notin used ELSE d = clock.domain

ChargeOkMutant(wait, before, after) == before <= after

\* charge_wait and WaitBudgetV1::charge
ChargeOk(wait, before, after) == before <= after /\ after - before <= wait

----------------------------------------------------------------------------
(* Reservation                                                             *)

\* BEGIN IMMEDIATE on the reservation connection.  An owner mark later than
\* the call's own start is refused, so it can never extend the guard budget.
BeginReserve(t) ==
  /\ th[t].pc = "idle"
  /\ lock = NoThread
  /\ \E before, acquired \in Marks, owner \in Marks \cup {NoMark} :
       /\ owner <= before
       /\ ChargeOk(WaitBudget, before, acquired)
       /\ th' = [th EXCEPT ![t] =
                   [Idle EXCEPT !.pc = "resTx", !.start = before,
                                !.wait = WaitBudget - (acquired - before),
                                !.g0 = IF owner = NoMark THEN acquired ELSE owner]]
  /\ lock' = t
  /\ UNCHANGED <<rows, pending, minted, history>>

ReservableMutant(row, s) == row.seq < MaxSeq /\ s + Window <= MaxTime

\* reserved_row: no sample below the high-water, and no overflow.
Reservable(row, s) ==
  /\ s >= row.high
  /\ row.seq < MaxSeq
  /\ s + Window <= MaxTime

ReservedRowMutant(row, s) == [row EXCEPT !.high = s, !.until = Max({row.until, s + Window})]

ReservedRow(row, s) ==
  [domain |-> row.domain, high |-> s, seq |-> row.seq + 1, until |-> Max({row.until, s + Window})]

\* reserve_in_transaction without a pending overrun, and its commit.
ReserveCommit(t) ==
  /\ th[t].pc = "resTx"
  /\ MayReadOrMigrate
  /\ ~latch.latched
  /\ \E s \in Times, d \in Domains :
       LET row == ClockRow(d, s) IN
         /\ RowDomain(d)
         /\ pending[ProcOf[t]][d] = NoOverrun
         /\ Reservable(row, s)
         /\ clock' = ReservedRow(row, s)
         /\ used' = used \cup {d}
         /\ th' = [th EXCEPT ![t].pc = "reserved", ![t].domain = d,
                             ![t].seq = clock'.seq, ![t].sampled = s,
                             ![t].bound = s + Window]
  /\ latch' = [latch EXCEPT !.present = TRUE]
  /\ lock' = NoThread
  /\ UNCHANGED <<acks, catalog, restores, pending, minted, history>>

LatchedRowMutant(seq) == [latch EXCEPT !.present = TRUE, !.count = @ + 1, !.seq = seq]

\* latched_row for a pending overrun of reservation seq.
LatchedRow(seq) == [present |-> TRUE, latched |-> TRUE, count |-> latch.count + 1, seq |-> seq]

\* write_pending_latch and the commit that follows it.  The commit gives the
\* lock back; the pending flag is cleared by a later step, ClearPending.
LatchPending(t) ==
  LET d == clock.domain IN
  /\ d # NoDomain
  /\ pending[ProcOf[t]][d] # NoOverrun
  /\ latch.count < MaxCount
  /\ latch' = LatchedRow(pending[ProcOf[t]][d])
  /\ recorded' = recorded \cup {[domain |-> d, seq |-> pending[ProcOf[t]][d]]}
  /\ th' = [th EXCEPT ![t] = [Idle EXCEPT !.pc = "clearing", !.domain = d]]
  /\ lock' = NoThread
  /\ UNCHANGED <<clock, acks, catalog, used, restores, pending, minted, overruns, acked, doubted>>

\* A reservation that meets a pending overrun of its process commits the
\* latch instead (ReserveStepV1::LatchCommitted).
ReserveLatches(t) ==
  /\ th[t].pc = "resTx"
  /\ MayReadOrMigrate
  /\ ~latch.latched
  /\ LatchPending(t)

ClearPendingMutant(t) ==
  /\ th[t].pc = "clearing"
  /\ th' = [th EXCEPT ![t] = Idle]
  /\ UNCHANGED <<rows, lock, pending, minted, history>>

\* clear_pending_overrun, after the latch transaction has committed.
ClearPending(t) ==
  /\ th[t].pc = "clearing"
  /\ pending' = [pending EXCEPT ![ProcOf[t]][th[t].domain] = NoOverrun]
  /\ th' = [th EXCEPT ![t] = Idle]
  /\ UNCHANGED <<rows, lock, minted, history>>

\* commit_or_rollback reports a latch as failed that is durable after all: the
\* caller returns before it clears the flag.
LatchUnreported(t) ==
  /\ th[t].pc = "clearing"
  /\ th' = [th EXCEPT ![t] = Idle]
  /\ doubted' = TRUE
  /\ UNCHANGED <<rows, lock, pending, minted, overruns, recorded, acked>>

\* Every refusal and storage failure inside a transaction rolls it back.  A
\* reservation that is durable although its commit failed is ReserveCommit and
\* then Abandon; such an acknowledgement is CommitAck, whose thread keeps nothing.
Rollback(t) ==
  /\ th[t].pc \in InTransaction
  /\ th' = [th EXCEPT ![t] = Idle]
  /\ lock' = NoThread
  /\ UNCHANGED <<rows, pending, minted, history>>

----------------------------------------------------------------------------
(* Guard and handoff                                                       *)

RegressionMutant(t) == RowsPresent /\ ~latch.latched

UnlatchedMutant(t) ==
  /\ RowsPresent
  /\ clock.domain = th[t].domain
  /\ clock.seq >= th[t].seq
  /\ clock.high >= th[t].sampled
  /\ pending[ProcOf[t]][clock.domain] = NoOverrun

PendingMutant(t) ==
  /\ RowsPresent
  /\ clock.domain = th[t].domain
  /\ clock.seq >= th[t].seq
  /\ clock.high >= th[t].sampled
  /\ ~latch.latched

\* guarded_high_water: the rows have not regressed behind the reservation, and
\* no overrun is latched, or pending in this process.
GuardedHighWater(t) ==
  /\ RowsPresent
  /\ clock.domain = th[t].domain
  /\ clock.seq >= th[t].seq
  /\ clock.high >= th[t].sampled
  /\ ~latch.latched
  /\ pending[ProcOf[t]][clock.domain] = NoOverrun

\* open_release_guard: the rows are read again under the write lock, which
\* the guard keeps until it is dropped.
OpenGuard(t) ==
  /\ th[t].pc = "reserved"
  /\ lock = NoThread
  /\ GuardedHighWater(t)
  /\ \E before, acquired \in Marks :
       /\ ChargeOk(th[t].wait, before, acquired)
       /\ th' = [th EXCEPT ![t].pc = "guarded", ![t].high = clock.high,
                           ![t].wait = @ - (acquired - before)]
  /\ lock' = t
  /\ UNCHANGED <<rows, pending, minted, history>>

\* The instants earliest_expiry takes the minimum of: a consent grant
\* without an expiry (0) has none, the others are in seconds.
Expiries(p) ==
  p.leases \cup {p.access} \cup p.refs
    \cup {g * MicrosPerSecond : g \in p.grants \ {0}}

EarliestExpiry(p) == Min(Expiries(p))

ExpiryKnown(p) == p.access # NoAccess /\ p.leases # {}

\* applicable_expiries: D < E_min for premises read inside the guard.
MintExpiries(t) ==
  /\ th[t].pc = "guarded"
  /\ \E p \in Premises :
       /\ ExpiryKnown(p)
       /\ th[t].bound < EarliestExpiry(p)
       /\ minted' = minted \cup {[domain |-> th[t].domain, seq |-> th[t].seq, premises |-> p]}
  /\ UNCHANGED <<rows, lock, pending, th, history>>

GuardExpiriesMutant(t, e) == e.domain = th[t].domain

\* The expiries were computed under this guard.
GuardExpiries(t, e) == e.domain = th[t].domain /\ e.seq = th[t].seq

StaleHighMutant(t, m, s) ==
  /\ th[t].g0 <= m /\ m - th[t].g0 <= GuardBudget
  /\ th[t].sampled <= s /\ s <= th[t].bound

WrongBudgetMutant(t, m, s) ==
  /\ th[t].g0 <= m /\ m - th[t].g0 <= Window
  /\ Max({th[t].sampled, th[t].high}) <= s /\ s <= th[t].bound

\* final_check with monotonic mark m and wall sample s.
FinalCheck(t, m, s) ==
  /\ th[t].g0 <= m /\ m - th[t].g0 <= GuardBudget
  /\ Max({th[t].sampled, th[t].high}) <= s
  /\ s <= th[t].bound

\* handoff_checked up to the move of the staged value.
Handoff(t) ==
  /\ th[t].pc = "guarded"
  /\ \E e \in minted, m \in Marks, s \in Times :
       /\ GuardExpiries(t, e)
       /\ FinalCheck(t, m, s)
       /\ th' = [th EXCEPT ![t].pc = "exposed", ![t].mark = m, ![t].final = s,
                           ![t].premises = {e.premises}]
  /\ UNCHANGED <<rows, lock, pending, minted, history>>

\* post_handoff_overrun, still inside the guard.
PostCheck(t) ==
  /\ th[t].pc = "exposed"
  /\ \E m \in Marks, s \in Times \cup {Unavailable} :
       LET overran == \/ m < th[t].g0
                      \/ m - th[t].g0 > Window
                      \/ s = Unavailable
                      \/ s > th[t].bound
       IN IF overran
          THEN /\ pending' = [pending EXCEPT ![ProcOf[t]][th[t].domain] = th[t].seq]
               /\ overruns' = overruns \cup {[domain |-> th[t].domain, seq |-> th[t].seq]}
          ELSE UNCHANGED <<pending, overruns>>
  /\ th' = [th EXCEPT ![t].pc = "posted"]
  /\ UNCHANGED <<rows, lock, minted, recorded, acked, doubted>>

\* Drop for ReleaseGuardV1 after the handoff.
DropGuard(t) ==
  /\ th[t].pc = "posted"
  /\ th' = [th EXCEPT ![t] = Idle]
  /\ lock' = NoThread
  /\ UNCHANGED <<rows, pending, minted, history>>

\* A release given up before the move: any refusal of the guard, of the
\* expiries or of the final check, or a caller that drops the value.
Abandon(t) ==
  /\ th[t].pc \in {"reserved", "guarded"}
  /\ lock' = IF th[t].pc = "guarded" THEN NoThread ELSE lock
  /\ th' = [th EXCEPT ![t] = Idle]
  /\ UNCHANGED <<rows, pending, minted, history>>

----------------------------------------------------------------------------
(* Latch commit and acknowledgement                                        *)

BeginLatchMutant(t) ==
  /\ th[t].pc = "idle"
  /\ th' = [th EXCEPT ![t] = [Idle EXCEPT !.pc = "latchTx"]]
  /\ lock' = t
  /\ UNCHANGED <<rows, pending, minted, history>>

\* commit_pending_overrun_latch: lock, then write and commit the latch.  It
\* does not look at whether the row is latched already.
BeginLatch(t) ==
  /\ th[t].pc = "idle"
  /\ lock = NoThread
  /\ th' = [th EXCEPT ![t] = [Idle EXCEPT !.pc = "latchTx"]]
  /\ lock' = t
  /\ UNCHANGED <<rows, pending, minted, history>>

CommitLatch(t) ==
  /\ th[t].pc = "latchTx"
  /\ RowsPresent
  /\ LatchPending(t)

\* An operator looks at the committed latch and asks to acknowledge it.
RequestAck(t) ==
  /\ th[t].pc = "idle"
  /\ latch.latched
  /\ th' = [th EXCEPT ![t] = [Idle EXCEPT !.pc = "ackRequested",
                                          !.expected = latch.count, !.seen = recorded]]
  /\ UNCHANGED <<rows, lock, pending, minted, history>>

BeginAck(t) ==
  /\ th[t].pc = "ackRequested"
  /\ lock = NoThread
  /\ th' = [th EXCEPT ![t].pc = "ackTx"]
  /\ lock' = t
  /\ UNCHANGED <<rows, pending, minted, history>>

UnlatchedAckMutant(t) == th[t].expected = latch.count

AnyCountMutant(t) == latch.latched

\* The latch is set at the count the operator named.
Acknowledgeable(t) == latch.latched /\ th[t].expected = latch.count

\* acknowledge_in_transaction: an unexpired operator names the count.
CommitAck(t) ==
  /\ th[t].pc = "ackTx"
  /\ RowsPresent
  /\ \E s \in Times, operatorExpires \in 0..(MaxTime + 1) :
       s >= clock.high /\ operatorExpires > s
  /\ Acknowledgeable(t)
  /\ latch' = [latch EXCEPT !.latched = FALSE]
  /\ acks' = Append(acks, latch.count)
  /\ acked' = recorded
  /\ th' = [th EXCEPT ![t] = Idle]
  /\ lock' = NoThread
  /\ UNCHANGED <<clock, catalog, used, restores, pending, minted, overruns, recorded, doubted>>

----------------------------------------------------------------------------
(* Environment                                                             *)

\* A process dies: its locks go, and with them the flags in its memory.
Crash(p) ==
  /\ \E t \in Threads : ProcOf[t] = p /\ th[t].pc # "idle"
  /\ th' = [t \in Threads |-> IF ProcOf[t] = p THEN Idle ELSE th[t]]
  /\ lock' = IF lock # NoThread /\ ProcOf[lock] = p THEN NoThread ELSE lock
  /\ pending' = [pending EXCEPT ![p] = [d \in Domains |-> NoOverrun]]
  /\ overruns' = overruns \ ({[domain |-> d, seq |-> pending[p][d]] : d \in Domains}
                              \ recorded)
  /\ UNCHANGED <<rows, minted, recorded, acked, doubted>>

\* The first artifact is registered in the same authority file.
RegisterArtifact ==
  /\ ~catalog
  /\ lock = NoThread
  /\ catalog' = TRUE
  /\ UNCHANGED <<clock, latch, acks, used, restores, lock, pending, th, minted, history>>

\* The rows are lost, or replaced by those of an older backup: between the
\* transactions of the file, at once, and never newer than the stored ones.  The
\* latch stays or is lost as well; acknowledgements, an audit trail that no
\* decision reads, stay.
RestoreAuthority ==
  /\ restores < MaxRestores
  /\ lock = NoThread
  /\ \/ clock' = NoClock
     \/ \E s \in 1..clock.seq, h \in 0..clock.high, u \in 0..clock.until :
          h <= u /\ clock' = [clock EXCEPT !.seq = s, !.high = h, !.until = u]
  /\ latch' \in {latch, NoLatch}
  /\ restores' = restores + 1
  /\ UNCHANGED <<acks, catalog, used, lock, pending, th, minted, history>>

Next ==
  \/ \E t \in Threads :
       \/ BeginReserve(t) \/ ReserveCommit(t) \/ ReserveLatches(t)
       \/ ClearPending(t) \/ LatchUnreported(t) \/ Rollback(t)
       \/ OpenGuard(t) \/ MintExpiries(t) \/ Handoff(t) \/ PostCheck(t)
       \/ DropGuard(t) \/ Abandon(t)
       \/ BeginLatch(t) \/ CommitLatch(t)
       \/ RequestAck(t) \/ BeginAck(t) \/ CommitAck(t)
  \/ \E p \in Procs : Crash(p)
  \/ RegisterArtifact
  \/ RestoreAuthority

Spec == Init /\ [][Next]_vars

----------------------------------------------------------------------------
(* Properties                                                              *)

Overrun == [domain : Domains, seq : 1..MaxSeq]

ClockRows == [domain : Domains \cup {NoDomain}, high : Times, until : Times, seq : 0..MaxSeq]
LatchRows == [present : BOOLEAN, latched : BOOLEAN, count : 0..MaxCount, seq : 0..MaxSeq]

ThreadStates ==
  [pc : {"idle", "resTx", "reserved", "guarded", "exposed", "posted", "clearing", "latchTx",
         "ackRequested", "ackTx"},
   wait : 0..WaitBudget, start : Nat, g0 : Nat, domain : Domains \cup {NoDomain},
   seq : 0..MaxSeq, sampled : Times, bound : Times, high : Times, mark : Nat, final : Times,
   premises : SUBSET Premises, expected : 0..MaxCount, seen : SUBSET Overrun]

\* The shape of every variable.
TypeOK ==
  /\ clock \in ClockRows
  /\ latch \in LatchRows
  /\ acks \in Seq(0..MaxCount)
  /\ catalog \in BOOLEAN
  /\ used \in SUBSET Domains
  /\ restores \in 0..MaxRestores
  /\ lock \in Threads \cup {NoThread}
  /\ pending \in [Procs -> [Domains -> 0..MaxSeq]]
  /\ th \in [Threads -> ThreadStates]
  /\ minted \in SUBSET [domain : Domains, seq : 1..MaxSeq, premises : Premises]
  /\ overruns \in SUBSET Overrun
  /\ recorded \in SUBSET Overrun
  /\ acked \in SUBSET Overrun
  /\ doubted \in BOOLEAN

Exposed(t) == th[t].pc \in {"exposed", "posted"}

\* A value is handed over only under the authority's current row: the row
\* still carries the reservation's identity, has not fallen behind it, and
\* the final sample lies between the high-water as it is now stored and the
\* decision bound, wherever the wall clock jumped in between (handoff_checked).
FenceHolds ==
  \A t \in Threads : Exposed(t) =>
    /\ clock.domain = th[t].domain
    /\ clock.seq >= th[t].seq
    /\ clock.high <= th[t].final
    /\ th[t].sampled <= th[t].final
    /\ th[t].final <= th[t].sampled + Window

\* Whatever expiries object the caller passed, the final sample is before
\* every lease, access, consent and reference expiry it was computed from
\* (applicable_expiries and the guard binding in handoff_checked).
ExpiryRespected ==
  \A t \in Threads : Exposed(t) =>
    \A p \in th[t].premises : ExpiryKnown(p) /\ \A x \in Expiries(p) : th[t].final < x

\* The move happens within the guard and wait budgets counted from the start
\* of the reservation call, whichever guard start the owner supplied.
WithinGuardBudget ==
  \A t \in Threads : Exposed(t) => th[t].mark - th[t].start <= GuardBudget + WaitBudget

\* No guard is open, and nothing is handed over, while the latch is closed or
\* the process has an overrun pending that is not latched yet.
NoReleaseWhileClosed ==
  \A t \in Threads : th[t].pc \in {"guarded", "exposed"} =>
    /\ ~latch.latched
    /\ pending[ProcOf[t]][th[t].domain] = NoOverrun

\* The durable row covers every reservation still in use: its sequence, its
\* sample and its decision bound; and no two of them share a sequence.
ReservationsCovered ==
  \A t \in Threads : th[t].pc \in HasReservation =>
    /\ clock.domain = th[t].domain
    /\ th[t].seq <= clock.seq /\ th[t].sampled <= clock.high
    /\ th[t].bound <= clock.until
    /\ \A u \in Threads \ {t} :
         th[u].pc \in HasReservation => th[u].seq # th[t].seq

\* The write lock has one holder: a thread in a transaction or in a guard.
LockExclusion ==
  \A t \in Threads : (th[t].pc \in InTransaction \cup GuardHeld) <=> (lock = t)

\* Every overrun a live process detected is still pending there, or closes
\* the latch, or was acknowledged: none is forgotten.
OverrunAccounted ==
  \A o \in overruns :
    \/ o \in acked
    \/ o \in recorded /\ latch.latched
    \/ \E p \in Procs : pending[p][o.domain] = o.seq

\* overrun_count counts each overrun, and each of them once unless a durable
\* latch was reported as failed and its flag stayed to be latched again.
CountMatches ==
  /\ Cardinality(recorded) <= latch.count
  /\ ~doubted => latch.count = Cardinality(recorded)

\* No two acknowledgement rows name the same count, and none names a count
\* that was never reached.
AcksIncrease ==
  /\ \A i, j \in DOMAIN acks : i < j => acks[i] < acks[j]
  /\ \A i \in DOMAIN acks : acks[i] <= latch.count

\* While the rows are not replaced from outside, the identity stays, the
\* high-water and the reserved bound never fall, and the row changes only
\* together with the next sequence number (reserved_row).
HighWaterMonotone ==
  [][clock.domain # NoDomain /\ restores' = restores =>
       /\ clock'.domain = clock.domain
       /\ clock'.high >= clock.high /\ clock'.until >= clock.until
       /\ (clock' # clock => clock'.seq = clock.seq + 1)]_vars

\* As long as a guard stays open no one changes the rows it decided on.
RowsFrozenUnderGuard ==
  [][(\E t \in Threads : th[t].pc \in GuardHeld /\ th'[t].pc \in GuardHeld)
       => UNCHANGED <<clock, latch, acks, catalog>>]_vars

\* The latch opens only through an audited acknowledgement, and that covers
\* no overrun the operator had not seen when naming the count.
AckCoversOnlySeen ==
  [][latch.latched /\ ~latch'.latched /\ restores' = restores =>
       /\ acks' = Append(acks, latch.count)
       /\ \E t \in Threads : th[t].pc = "ackTx" /\ acked' \subseteq acked \cup th[t].seen]_vars

----------------------------------------------------------------------------
(* Refinement                                                              *)

GuardHolders == {t \in Threads : th[t].pc \in GuardHeld}
ValueMoved == \E t \in GuardHolders : Exposed(t)
FlaggedProcs == {p \in Procs : \E d \in Domains : pending[p][d] # NoOverrun}

Fence == INSTANCE ReleaseFence WITH
  Releasers <- Threads, Processes <- Procs, HomeOf <- ProcOf,
  open <- GuardHolders, moved <- ValueMoved, latched <- latch.latched, flagged <- FlaggedProcs

\* The clock implements the fence its hosts rely on, as long as its rows are
\* not replaced from outside: reservations, transactions, samples and marks
\* are invisible, and no interleaving of threads, processes and crashes opens
\* a second guard, moves a value past a flag or the latch, or changes the latch
\* under an open guard.
ImplementsReleaseFence == Fence!Spec

----------------------------------------------------------------------------
(* The inductive invariant                                                 *)

\* What a thread knows of the reservation it holds.
ReservationShape ==
  \A t \in Threads :
    /\ th[t].pc \in HasReservation \cup {"clearing"} => th[t].domain \in Domains
    /\ th[t].pc \in HasReservation => th[t].seq > 0 /\ th[t].bound = th[t].sampled + Window

\* Every mark of a call is counted from its start.
MarksOrdered ==
  \A t \in Threads :
    /\ th[t].pc \in HasReservation \cup {"resTx"} => th[t].g0 <= th[t].start + WaitBudget
    /\ Exposed(t) => th[t].mark <= th[t].g0 + GuardBudget

\* The rows a guard read when it was opened are still the stored ones.
GuardReadsRows ==
  \A t \in Threads : th[t].pc \in GuardHeld =>
    /\ clock.domain = th[t].domain /\ clock.seq >= th[t].seq
    /\ clock.high = th[t].high /\ th[t].sampled <= th[t].high

\* final_check passed for every value handed over.
FinalChecked ==
  \A t \in Threads : Exposed(t) => th[t].high <= th[t].final /\ th[t].final <= th[t].bound

IInv ==
  /\ TypeOK /\ LockExclusion /\ NoReleaseWhileClosed
  /\ ReservationShape /\ MarksOrdered /\ GuardReadsRows /\ FinalChecked

----------------------------------------------------------------------------
(* The ledger: what holds in addition until the rows are first replaced    *)
(* from outside                                                            *)

Asking == {"ackRequested", "ackTx"}

\* Flags, and the threads about to clear one, name the stored identity.
FlagsNameRow ==
  /\ \A p \in Procs, d \in Domains : pending[p][d] # NoOverrun => d = clock.domain
  /\ \A t \in Threads : th[t].pc = "clearing" => th[t].domain = clock.domain

\* Every expiry an ApplicableExpiriesV1 value was computed from is later than
\* the decision bound of whoever holds its reservation.
MintedBounded ==
  \A e \in minted :
    /\ e.domain = clock.domain /\ e.seq <= clock.seq /\ ExpiryKnown(e.premises)
    /\ \A t \in Threads : th[t].pc \in HasReservation /\ th[t].seq = e.seq =>
         \A x \in Expiries(e.premises) : th[t].bound < x

\* So is every expiry a value was handed over under.
PremisesBounded ==
  \A t \in Threads : Exposed(t) => \A p \in th[t].premises :
    ExpiryKnown(p) /\ \A x \in Expiries(p) : th[t].bound < x

\* A closed latch stands at a count that nobody acknowledged.
AcksBelow == latch.latched => \A i \in DOMAIN acks : acks[i] < latch.count

\* A count that is still the stored one covers what its operator saw.
AskersSaw ==
  \A t \in Threads : th[t].pc \in Asking =>
    /\ th[t].expected <= latch.count
    /\ th[t].expected = latch.count => recorded \subseteq th[t].seen

\* Only recorded overruns are acknowledged, and all of them are once the
\* latch is open.
RecordedClosed == acked \subseteq recorded /\ (latch.latched \/ acked = recorded)

LedgerInv ==
  /\ ReservationsCovered /\ FlagsNameRow /\ MintedBounded /\ PremisesBounded
  /\ AcksIncrease /\ AcksBelow /\ AskersSaw /\ RecordedClosed

\* No process runs two threads of the clock: then nobody can use or overwrite
\* a flag between the latch commit and clear_pending_overrun.
OneThreadPerProcess == \A t, u \in Threads : ProcOf[t] = ProcOf[u] => t = u

\* A flag names an overrun of its own that no other process flags, and that
\* is latched only while its process is about to clear the flag, unless a
\* latch went unreported.
FlagsDistinct ==
  \A p \in Procs, d \in Domains : pending[p][d] # NoOverrun =>
    /\ pending[p][d] <= clock.seq
    /\ \A q \in Procs \ {p} : pending[q][d] # pending[p][d]
    /\ ~doubted /\ [domain |-> d, seq |-> pending[p][d]] \in recorded =>
         \E t \in Threads : ProcOf[t] = p /\ th[t].pc = "clearing" /\ th[t].domain = d

\* A flag about to be cleared is latched.
ClearingRecorded ==
  \A t \in Threads : th[t].pc = "clearing" /\ pending[ProcOf[t]][th[t].domain] # NoOverrun =>
    [domain |-> th[t].domain, seq |-> pending[ProcOf[t]][th[t].domain]] \in recorded

\* A reservation that has not been checked after its handoff is not among the
\* overruns, and those all belong to earlier reservations.
OverrunsPast ==
  /\ \A o \in recorded : o.domain = clock.domain /\ o.seq <= clock.seq
  /\ \A t \in Threads : th[t].pc \in {"reserved", "guarded", "exposed"} =>
       /\ [domain |-> th[t].domain, seq |-> th[t].seq] \notin recorded
       /\ \A p \in Procs : pending[p][th[t].domain] # th[t].seq

CountInv ==
  /\ FlagsDistinct /\ ClearingRecorded /\ OverrunsPast /\ OverrunAccounted
  /\ IsFiniteSet(recorded) /\ CountMatches

=============================================================================
