------------------------- MODULE FallbackHostProofs -------------------------
(***************************************************************************)
(* Proofs about the hosts of FallbackBoundary: what a host runs is what    *)
(* the Events name, it was restored without a gap, and an activation is    *)
(* committed only on the decision it was derived from.                     *)
(***************************************************************************)
EXTENDS FallbackBoundaryProofs, FiniteSetTheorems

----------------------------------------------------------------------------
(* Logs, one Event at a time                                               *)

\* From m on, place by place.
LEMMA PlaceInduction ==
  ASSUME NEW m \in Nat, NEW n \in Nat, NEW S, m \in S,
         \A i \in m..(n - 1) : i \in S => i + 1 \in S
  PROVE  \A i \in m..n : i \in S
<1> DEFINE T == {i \in m..n : i \notin S}
<1>1. SUFFICES ASSUME T # {} PROVE FALSE OBVIOUS
<1>2. T \in SUBSET Nat OBVIOUS
<1>3. PICK j \in T : \A i \in T : j <= i
  <2> HIDE DEF T
  <2> QED BY <1>1, <1>2, NatMinimum
<1>4. j # m BY <1>3
<1>5. j - 1 \in m..(n - 1) /\ j - 1 \in m..n BY <1>3, <1>4
<1>6. j - 1 \in S BY <1>3, <1>5
<1>7. j \in S BY <1>5, <1>6
<1> QED BY <1>3, <1>7

\* A prefix and the Event after it.
LEMMA PrefixStep ==
  ASSUME NEW S, NEW events \in Seq(S), NEW n \in 0..(Len(events) - 1)
  PROVE  /\ SubSeq(events, 1, n) \in Seq(S) /\ events[n + 1] \in S
         /\ SubSeq(events, 1, n + 1) = Append(SubSeq(events, 1, n), events[n + 1])
<1>1. n \in Nat /\ n + 1 \in 1..Len(events) BY LenProperties
<1>2. SubSeq(events, 1, n) \in Seq(S) /\ Len(SubSeq(events, 1, n)) = n BY <1>1
<1>3. events[n + 1] \in S BY <1>1
<1>4. SubSeq(events, 1, n + 1) = Append(SubSeq(events, 1, n), events[n + 1])
  <2> DEFINE a == SubSeq(events, 1, n + 1)
             b == Append(SubSeq(events, 1, n), events[n + 1])
  <2>1. a \in Seq(S) /\ Len(a) = n + 1 BY <1>1
  <2>2. b \in Seq(S) /\ Len(b) = n + 1 BY <1>2, <1>3
  <2>3. \A i \in 1..(n + 1) : a[i] = b[i]
    <3> SUFFICES ASSUME NEW i \in 1..(n + 1) PROVE a[i] = b[i] OBVIOUS
    <3>1. a[i] = events[i] BY <1>1
    <3>2. CASE i = n + 1 BY <1>2, <1>3, <3>1, <3>2
    <3>3. CASE i # n + 1
      <4>1. i \in 1..n BY <3>3
      <4>2. SubSeq(events, 1, n)[i] = events[i] BY <1>1, <4>1
      <4>3. b[i] = SubSeq(events, 1, n)[i] BY <1>2, <1>3, <4>1
      <4> QED BY <3>1, <4>2, <4>3
    <3> QED BY <3>2, <3>3
  <2> HIDE DEF a, b
  <2>4. a = b BY <2>1, <2>2, <2>3, SeqEqual
  <2> QED BY <2>4 DEF a, b
<1> QED BY <1>2, <1>3, <1>4

\* A log all of whose prefixes fold soundly, and what they fold to.
AllSound(events) ==
  events \in Seq(Events) /\ \A n \in 0..Len(events) : SoundFold(SubSeq(events, 1, n))

FoldAt(events, n) == Fold(SubSeq(events, 1, n))

TenureAt(events, k, n) == Closure(SubSeq(events, 1, n), k)

Activates(e, k) == e.kind = "activated" /\ e.key = k

\* Both derivations after one more Event.
LEMMA StepAt ==
  ASSUME NEW events \in Seq(Events), NEW n \in 0..(Len(events) - 1)
  PROVE  /\ FoldAt(events, n + 1) = FoldEvent(FoldAt(events, n), events[n + 1])
         /\ \A k : TenureAt(events, k, n + 1) = CloseEvent(TenureAt(events, k, n), events[n + 1], k)
<1>1. /\ SubSeq(events, 1, n) \in Seq(Events) /\ events[n + 1] \in Events
      /\ SubSeq(events, 1, n + 1) = Append(SubSeq(events, 1, n), events[n + 1])
  BY PrefixStep
<1>2. FoldAt(events, n + 1) = FoldEvent(FoldAt(events, n), events[n + 1])
  BY <1>1, FoldAppend DEF FoldAt
<1>3. ASSUME NEW k
      PROVE  TenureAt(events, k, n + 1) = CloseEvent(TenureAt(events, k, n), events[n + 1], k)
  BY <1>1, ClosureAppend DEF TenureAt
<1> QED BY <1>2, <1>3

\* What a sound log folds to, at every place.
LEMMA SoundAt ==
  ASSUME NEW events, AllSound(events), NEW n \in 0..Len(events)
  PROVE  /\ FoldAt(events, n) \in States /\ FoldAt(events, n).revision <= n
         /\ FoldAt(events, n) # Corrupt /\ Listed(FoldAt(events, n))
         /\ \A k \in Keys : TenureAt(events, k, n).tenure \in 0..n
         /\ \A k \in Keys : FoldAt(events, n).entries[k] # Unrecorded =>
              TenureAt(events, k, n) = Tenure(FoldAt(events, n).entries[k].tenure,
                                              FoldAt(events, n).entries[k].impl)
<1>1. events \in Seq(Events) /\ SoundFold(SubSeq(events, 1, n)) BY DEF AllSound
<1>2. Len(SubSeq(events, 1, n)) = n /\ n \in Nat
  <2>1. Len(events) \in Nat BY <1>1
  <2> QED BY <1>1, <2>1
<1>3. FoldAt(events, n) \in States /\ FoldAt(events, n).revision <= n /\ Listed(FoldAt(events, n))
  BY <1>1, <1>2 DEF SoundFold, FoldAt
<1>4. FoldAt(events, n) # Corrupt BY <1>3, StatesNotCorrupt
<1>5. ASSUME NEW k \in Keys
      PROVE  /\ TenureAt(events, k, n).tenure \in 0..n
             /\ FoldAt(events, n).entries[k] # Unrecorded =>
                  TenureAt(events, k, n) = Tenure(FoldAt(events, n).entries[k].tenure,
                                                  FoldAt(events, n).entries[k].impl)
  <2> DEFINE x == FoldAt(events, n).entries[k]
  <2>1. /\ x.tenure <= n
        /\ TenureAt(events, k, n) = IF x = Unrecorded THEN Tenure(0, Base)
                                    ELSE Tenure(x.tenure, x.impl)
        /\ x # Unrecorded => x.tenure >= 0
    BY <1>1, <1>2 DEF SoundFold, FoldAt, TenureAt
  <2>2. x.tenure \in Int BY <1>3 DEF States, EntryStates
  <2> HIDE DEF x
  <2>3. x # Unrecorded => x.tenure \in 0..n BY <1>2, <2>1, <2>2
  <2>4. TenureAt(events, k, n).tenure \in 0..n BY <1>2, <2>1, <2>3 DEF Tenure
  <2> QED BY <2>1, <2>4 DEF x
<1> QED BY <1>3, <1>4, <1>5

\* An activation closes the current tenure of its slot and opens the next.
LEMMA ClosesCurrent ==
  ASSUME NEW events, AllSound(events), NEW k \in Keys, NEW n \in 0..(Len(events) - 1),
         Activates(events[n + 1], k)
  PROVE  /\ TenureAt(events, k, n).tenure = events[n + 1].closing
         /\ TenureAt(events, k, n + 1) = Tenure(events[n + 1].closing + 1, events[n + 1].to)
<1> DEFINE r == TenureAt(events, k, n)
           e == events[n + 1]
<1>1. events \in Seq(Events) BY DEF AllSound
<1>2. TenureAt(events, k, n + 1) = CloseEvent(r, e, k) BY <1>1, StepAt
<1>3. TenureAt(events, k, n + 1).tenure >= 0
  <2>1. n + 1 \in 0..Len(events) BY <1>1
  <2> QED BY <2>1, SoundAt
<1>4. CloseEvent(r, e, k) = IF r = Tenure(e.closing, e.from) THEN Tenure(e.closing + 1, e.to)
                            ELSE Tenure(-1, -1)
  BY DEF CloseEvent, Activates
<1> HIDE DEF r, e
<1>5. Tenure(-1, -1).tenure = -1 /\ Tenure(e.closing, e.from).tenure = e.closing BY DEF Tenure
<1>6. r = Tenure(e.closing, e.from)
  <2> SUFFICES ASSUME r # Tenure(e.closing, e.from) PROVE FALSE OBVIOUS
  <2>1. TenureAt(events, k, n + 1).tenure = -1 BY <1>2, <1>4, <1>5
  <2> QED BY <1>3, <2>1
<1>7. r.tenure = e.closing BY <1>5, <1>6
<1> QED BY <1>2, <1>4, <1>6, <1>7 DEF r, e

\* Any other Event leaves the slot alone.
LEMMA TenureKept ==
  ASSUME NEW events \in Seq(Events), NEW k, NEW n \in 0..(Len(events) - 1),
         ~Activates(events[n + 1], k)
  PROVE  TenureAt(events, k, n + 1) = TenureAt(events, k, n)
BY StepAt DEF CloseEvent, Activates

\* The activations of a slot close tenures before the current one.
LEMMA ClosingsPast ==
  ASSUME NEW events, AllSound(events), NEW k \in Keys, NEW n \in 0..Len(events),
         NEW j \in 1..n, Activates(events[j], k)
  PROVE  events[j].closing < TenureAt(events, k, n).tenure
<1>0. events \in Seq(Events) /\ Len(events) \in Nat BY DEF AllSound
<1> DEFINE S == {i \in 0..Len(events) : events[j].closing < TenureAt(events, k, i).tenure}
<1>1. j \in 1..Len(events) /\ j - 1 \in 0..(Len(events) - 1) /\ (j - 1) + 1 = j BY <1>0
<1>2. events[j].closing = TenureAt(events, k, j - 1).tenure
      /\ TenureAt(events, k, j).tenure = events[j].closing + 1
  <2>1. /\ TenureAt(events, k, j - 1).tenure = events[(j - 1) + 1].closing
        /\ TenureAt(events, k, (j - 1) + 1)
             = Tenure(events[(j - 1) + 1].closing + 1, events[(j - 1) + 1].to)
    BY <1>1, ClosesCurrent
  <2> QED BY <1>1, <2>1 DEF Tenure
<1>3. events[j].closing \in Nat
  <2>1. j - 1 \in 0..Len(events) BY <1>0, <1>1
  <2> QED BY <1>2, <2>1, SoundAt
<1>4. j \in S BY <1>0, <1>1, <1>2, <1>3
<1>5. ASSUME NEW i \in j..(Len(events) - 1), i \in S PROVE i + 1 \in S
  <2>1. i \in 0..(Len(events) - 1) /\ i \in 0..Len(events) /\ i + 1 \in 0..Len(events) BY <1>0
  <2>2. TenureAt(events, k, i).tenure \in Nat BY <2>1, SoundAt
  <2>3. CASE Activates(events[i + 1], k)
    <3>1. TenureAt(events, k, i + 1).tenure = TenureAt(events, k, i).tenure + 1
      <4>1. /\ TenureAt(events, k, i).tenure = events[i + 1].closing
            /\ TenureAt(events, k, i + 1) = Tenure(events[i + 1].closing + 1, events[i + 1].to)
        BY <2>1, <2>3, ClosesCurrent
      <4> QED BY <4>1 DEF Tenure
    <3>2. events[j].closing < TenureAt(events, k, i).tenure BY <1>5
    <3>3. events[j].closing < TenureAt(events, k, i + 1).tenure BY <1>3, <2>2, <3>1, <3>2
    <3> QED BY <2>1, <3>3
  <2>4. CASE ~Activates(events[i + 1], k)
    <3>1. TenureAt(events, k, i + 1) = TenureAt(events, k, i) BY <1>0, <2>1, <2>4, TenureKept
    <3> QED BY <1>5, <2>1, <3>1
  <2> QED BY <2>3, <2>4
<1>6. \A i \in j..Len(events) : i \in S
  <2>1. j \in Nat BY <1>1
  <2> HIDE DEF S
  <2> QED BY <1>0, <1>4, <1>5, <2>1, PlaceInduction
<1>7. n \in j..Len(events) BY <1>0
<1> QED BY <1>6, <1>7

\* A tenure is opened once.
LEMMA OpeningUnique ==
  ASSUME NEW events, AllSound(events), NEW k \in Keys, NEW n,
         NEW i \in Opening(events, k, n), NEW j \in Opening(events, k, n)
  PROVE  i = j
<1>0. events \in Seq(Events) /\ Len(events) \in Nat BY DEF AllSound
<1>1. /\ i \in 1..Len(events) /\ Activates(events[i], k) /\ events[i].closing = n - 1
      /\ j \in 1..Len(events) /\ Activates(events[j], k) /\ events[j].closing = n - 1
  BY <1>0 DEF Opening, Activates
<1>2. ASSUME NEW a \in 1..Len(events), NEW b \in 1..Len(events), a < b,
             Activates(events[a], k), Activates(events[b], k),
             events[a].closing = events[b].closing
      PROVE  FALSE
  <2>1. b - 1 \in 0..(Len(events) - 1) /\ b - 1 \in 0..Len(events) /\ (b - 1) + 1 = b
        /\ a \in 1..(b - 1)
    BY <1>0, <1>2
  <2>2. events[a].closing < TenureAt(events, k, b - 1).tenure BY <1>2, <2>1, ClosingsPast
  <2>3. TenureAt(events, k, b - 1).tenure = events[b].closing
    <3>1. Activates(events[(b - 1) + 1], k) BY <1>2, <2>1
    <3>2. TenureAt(events, k, b - 1).tenure = events[(b - 1) + 1].closing
      BY <2>1, <3>1, ClosesCurrent
    <3> QED BY <2>1, <3>2
  <2>4. TenureAt(events, k, b - 1).tenure \in Nat BY <2>1, SoundAt
  <2> QED BY <1>2, <2>2, <2>3, <2>4
<1>3. events[i].closing = events[j].closing BY <1>1
<1>4. ~(i < j) BY <1>1, <1>2, <1>3
<1>5. ~(j < i) BY <1>1, <1>2, <1>3
<1> QED BY <1>1, <1>4, <1>5

\* The current tenure was opened on the current implementation.
LEMMA ClosureOpened ==
  ASSUME NEW events, AllSound(events), NEW k \in Keys,
         NEW n \in 0..Len(events), TenureAt(events, k, n).tenure # 0
  PROVE  \E i \in 1..n : /\ Activates(events[i], k)
                         /\ events[i].closing = TenureAt(events, k, n).tenure - 1
                         /\ events[i].to = TenureAt(events, k, n).impl
<1>0. events \in Seq(Events) /\ Len(events) \in Nat BY DEF AllSound
<1> DEFINE Opened(m) == \E i \in 1..m :
                          /\ Activates(events[i], k)
                          /\ events[i].closing = TenureAt(events, k, m).tenure - 1
                          /\ events[i].to = TenureAt(events, k, m).impl
           S == {m \in 0..Len(events) : TenureAt(events, k, m).tenure # 0 => Opened(m)}
<1>1. 0 \in S
  <2>1. 0 \in 0..Len(events) BY <1>0
  <2>2. TenureAt(events, k, 0).tenure = 0
    <3>1. TenureAt(events, k, 0).tenure \in 0..0 BY <2>1, SoundAt
    <3> QED BY <3>1
  <2> QED BY <2>1, <2>2
<1>2. ASSUME NEW m \in 0..(Len(events) - 1), m \in S PROVE m + 1 \in S
  <2>1. m + 1 \in 0..Len(events) /\ m + 1 \in 1..(m + 1) /\ 1..m \subseteq 1..(m + 1) BY <1>0
  <2>2. CASE Activates(events[m + 1], k)
    <3>1. TenureAt(events, k, m + 1) = Tenure(events[m + 1].closing + 1, events[m + 1].to)
          /\ TenureAt(events, k, m).tenure = events[m + 1].closing
      BY <2>2, ClosesCurrent
    <3>2. events[m + 1].closing \in Nat
      <4>1. m \in 0..Len(events) BY <1>0
      <4> QED BY <3>1, <4>1, SoundAt
    <3>3. /\ events[m + 1].closing = TenureAt(events, k, m + 1).tenure - 1
          /\ events[m + 1].to = TenureAt(events, k, m + 1).impl
      BY <3>1, <3>2 DEF Tenure
    <3> QED BY <2>1, <2>2, <3>3
  <2>3. CASE ~Activates(events[m + 1], k)
    <3>1. TenureAt(events, k, m + 1) = TenureAt(events, k, m) BY <1>0, <2>3, TenureKept
    <3> QED BY <1>2, <2>1, <3>1
  <2> QED BY <2>2, <2>3
<1>3. \A m \in 0..Len(events) : m \in S
  <2> HIDE DEF S
  <2> QED BY <1>0, <1>1, <1>2, PlaceInduction
<1> QED BY <1>3

----------------------------------------------------------------------------
(* Longer logs                                                             *)

Grown(longer, events) ==
  /\ Len(events) <= Len(longer)
  /\ \A n \in 0..Len(events) : SubSeq(longer, 1, n) = SubSeq(events, 1, n)

\* No activation opens tenure 0.
LEMMA NoneOpensBase ==
  ASSUME NEW events \in Seq(Events), NEW k, NEW n, NEW i \in Opening(events, k, n)
  PROVE  i \in 1..Len(events) /\ n - 1 \in Nat
<1>1. i \in 1..Len(events) /\ events[i].kind = "activated" /\ events[i].closing = n - 1
  BY DEF Opening
<1>2. events[i] \in Events BY <1>1
<1>3. events[i].closing \in Nat BY <1>1, <1>2 DEF Events
<1> QED BY <1>1, <1>3

\* A longer log keeps the Events it had.
LEMMA GrownEvents ==
  ASSUME NEW events \in Seq(Events), NEW longer \in Seq(Events), Grown(longer, events)
  PROVE  \A i \in 1..Len(events) : i \in 1..Len(longer) /\ longer[i] = events[i]
<1>1. Len(events) \in Nat /\ Len(longer) \in Nat /\ Len(events) <= Len(longer) BY DEF Grown
<1>2. SubSeq(longer, 1, Len(events)) = events
  <2>1. SubSeq(longer, 1, Len(events)) = SubSeq(events, 1, Len(events)) BY <1>1 DEF Grown
  <2> QED BY <2>1, SubSeqFull
<1> SUFFICES ASSUME NEW i \in 1..Len(events)
             PROVE  i \in 1..Len(longer) /\ longer[i] = events[i]
  OBVIOUS
<1>3. i \in 1..Len(longer) BY <1>1
<1>4. SubSeq(longer, 1, Len(events))[i] = longer[i] BY <1>1
<1> QED BY <1>2, <1>3, <1>4

\* It opens the tenures that were open on the same implementations, and none
\* of them again.
LEMMA GrownOpenings ==
  ASSUME NEW events \in Seq(Events), NEW longer, AllSound(longer), Grown(longer, events),
         NEW k \in Keys, NEW n
  PROVE  /\ Opening(events, k, n) \subseteq Opening(longer, k, n)
         /\ \A i : Named(events, k, n, i) =>
              Named(longer, k, n, i) /\ Opening(longer, k, n) = Opening(events, k, n)
<1>0. longer \in Seq(Events) BY DEF AllSound
<1>1. \A i \in 1..Len(events) : i \in 1..Len(longer) /\ longer[i] = events[i]
  BY <1>0, GrownEvents
<1>2. Opening(events, k, n) \subseteq Opening(longer, k, n) BY <1>0, <1>1 DEF Opening
<1>3. ASSUME NEW i, Named(events, k, n, i)
      PROVE  Named(longer, k, n, i) /\ Opening(longer, k, n) = Opening(events, k, n)
  <2>1. PICK j \in Opening(events, k, n) : events[j].to = i BY <1>3 DEF Named
  <2>2. j \in Opening(longer, k, n) BY <1>2, <2>1
  <2>3. longer[j].to = i BY <1>1, <2>1 DEF Opening
  <2>4. \A x \in Opening(longer, k, n) : x = j BY <2>2, OpeningUnique
  <2> QED BY <1>2, <2>1, <2>2, <2>3, <2>4 DEF Named
<1> QED BY <1>2, <1>3

\* The declared entries of what a host derived are known slots.
LEMMA SwappedKeys ==
  ASSUME NEW s \in HostStates
  PROVE  Swapped(s) \subseteq Keys /\ DOMAIN Declared(s.seen.policy) \subseteq Keys
<1>1. s.seen.policy \in Seq(Entries) BY DEF HostStates, States
<1> QED BY <1>1, DeclaredOK DEF Swapped

RowsGrown(more, rows) == \A i \in DOMAIN rows : i \in DOMAIN more /\ more[i] = rows[i]

\* A host stays linked when log and ledger grow.
LEMMA LinkedGrows ==
  ASSUME NEW s \in HostStates, NEW events \in Seq(Events), NEW longer, AllSound(longer),
         Grown(longer, events), NEW rows, NEW more, RowsGrown(more, rows),
         HostLinked(s, events, rows)
  PROVE  HostLinked(s, longer, more)
<1>1. /\ DecisionLinked(s, events) /\ RequestLinked(s, rows) /\ SlotsLinked(s, events)
      /\ HostBounded(s)
  BY DEF HostLinked
<1>2. DecisionLinked(s, longer)
  <2>1. ASSUME s.pc \notin {"down", "idle"}
        PROVE  \E m \in 0..Len(longer) : s.seen = Fold(SubSeq(longer, 1, m))
    <3>1. PICK m \in 0..Len(events) : s.seen = Fold(SubSeq(events, 1, m))
      BY <1>1, <2>1 DEF DecisionLinked
    <3>2. SubSeq(longer, 1, m) = SubSeq(events, 1, m) BY DEF Grown
    <3>3. m \in 0..Len(longer)
      <4>1. Len(events) \in Nat /\ Len(longer) \in Nat /\ Len(events) <= Len(longer)
        BY DEF Grown, AllSound
      <4> QED BY <4>1
    <3> QED BY <3>1, <3>2, <3>3
  <2>2. ASSUME s.pc \notin {"down", "idle", "derived"}, NEW k \in Swapped(s)
        PROVE  /\ k \notin s.todo
               /\ Named(longer, k, s.seen.entries[k].tenure + 1, s.slots[k].impl)
    <3>1. /\ k \notin s.todo
          /\ Named(events, k, s.seen.entries[k].tenure + 1, s.slots[k].impl)
      BY <1>1, <2>2 DEF DecisionLinked
    <3>2. k \in Keys BY <2>2, SwappedKeys
    <3> QED BY <3>1, <3>2, GrownOpenings
  <2> QED BY <2>1, <2>2 DEF DecisionLinked
<1>3. RequestLinked(s, more)
  <2>1. ASSUME s.pc = "apply"
        PROVE  \E i \in DOMAIN more : s.found = more[i] /\ Occupies(more[i], s.req)
    <3>1. PICK i \in DOMAIN rows : s.found = rows[i] /\ Occupies(rows[i], s.req)
      BY <1>1, <2>1 DEF RequestLinked
    <3> QED BY <3>1 DEF RowsGrown
  <2> QED BY <1>1, <2>1 DEF RequestLinked
<1>4. SlotsLinked(s, longer)
  <2> SUFFICES ASSUME ~s.faulted, s.pc \notin {"down", "derived"}, NEW k \in Keys
               PROVE  LET slot == s.slots[k] IN
                      /\ IF slot.tenure = 0 THEN slot.impl = Base
                         ELSE Named(longer, k, slot.tenure, slot.impl)
                      /\ s.pc \notin {"compose", "recommit"} =>
                           /\ slot.restored = 1..Cardinality(slot.restored)
                           /\ Opening(longer, k, slot.tenure) \subseteq slot.restored
    BY DEF SlotsLinked
  <2> DEFINE slot == s.slots[k]
  <2>1. /\ IF slot.tenure = 0 THEN slot.impl = Base
           ELSE Named(events, k, slot.tenure, slot.impl)
        /\ s.pc \notin {"compose", "recommit"} =>
             /\ slot.restored = 1..Cardinality(slot.restored)
             /\ Opening(events, k, slot.tenure) \subseteq slot.restored
    BY <1>1 DEF SlotsLinked
  <2> HIDE DEF slot
  <2>2. CASE slot.tenure = 0
    <3>1. longer \in Seq(Events) BY DEF AllSound
    <3>2. ASSUME NEW i \in Opening(longer, k, slot.tenure) PROVE FALSE
      <4>1. slot.tenure - 1 \in Nat BY <3>1, <3>2, NoneOpensBase
      <4> QED BY <2>2, <4>1
    <3> QED BY <2>1, <2>2, <3>2 DEF slot
  <2>3. CASE slot.tenure # 0
    <3>1. Named(events, k, slot.tenure, slot.impl) BY <2>1, <2>3
    <3>2. /\ Named(longer, k, slot.tenure, slot.impl)
          /\ Opening(longer, k, slot.tenure) = Opening(events, k, slot.tenure)
      BY <3>1, GrownOpenings
    <3> QED BY <2>1, <2>3, <3>2 DEF slot
  <2> QED BY <2>2, <2>3
<1> QED BY <1>1, <1>2, <1>3, <1>4 DEF HostLinked

----------------------------------------------------------------------------
(* What a revision tells: the Events since a decision                      *)

\* A declared entry of a listed state is recorded.
LEMMA DeclaredRecorded ==
  ASSUME NEW s \in States, Listed(s), NEW k \in DOMAIN Declared(s.policy)
  PROVE  k \in Keys /\ s.entries[k] # Unrecorded
<1>1. s.policy \in Seq(Entries) /\ s.entries \in [Keys -> EntryStates] BY DEF States
<1>2. /\ k \in Keys /\ Declared(s.policy)[k].chain \in Seq(Impls)
  BY <1>1, DeclaredOK
<1>3. s.entries[k].pos \in 0..2 BY <1>1, <1>2 DEF EntryStates
<1>4. /\ s.entries[k].pos < Len(Declared(s.policy)[k].chain)
      /\ Declared(s.policy)[k].chain[s.entries[k].pos + 1] = s.entries[k].impl
  BY DEF Listed
<1>5. s.entries[k].pos + 1 \in 1..Len(Declared(s.policy)[k].chain) BY <1>2, <1>3, <1>4
<1>6. s.entries[k].impl \in Impls BY <1>2, <1>4, <1>5
<1>7. Unrecorded.impl = -1 BY DEF Unrecorded
<1> QED BY <1>2, <1>6, <1>7 DEF Impls

\* What one Event changes of a state it may be folded onto.
LEMMA EventChanges ==
  ASSUME NEW s \in States, NEW e \in Events, FoldEvent(s, e) # Corrupt
  PROVE  /\ e.kind = "world" => FoldEvent(s, e) = s
         /\ e.kind # "world" => FoldEvent(s, e).revision = s.revision + 1
         /\ e.kind = "activated" =>
              /\ FoldEvent(s, e).policy = s.policy
              /\ \A k \in Keys \ {e.key} : FoldEvent(s, e).entries[k] = s.entries[k]
<1>0. s # Corrupt BY StatesNotCorrupt
<1>1. CASE e.kind = "world" BY <1>0, <1>1 DEF FoldEvent
<1>2. CASE e.kind = "declared"
  <2>1. FoldEvent(s, e) = Declare(s, e.policy) BY <1>0, <1>2 DEF FoldEvent, ApplyDeclared
  <2>2. e.policy \in Seq(Entries) BY <1>2 DEF Events
  <2>3. Declare(s, e.policy).revision = s.revision + 1 BY <2>2, DeclareShape
  <2> QED BY <1>2, <2>1, <2>3
<1>3. CASE e.kind = "activated"
  <2>1. FoldEvent(s, e) = Activate(s, e) /\ MayClose(s, e)
    BY <1>0, <1>3 DEF FoldEvent, ApplyActivated
  <2>2. e.key \in Keys /\ e.closing \in Nat /\ e.to \in Impls /\ e.ordinal \in Nat
    BY <1>3 DEF Events
  <2>3. ChainIndex(Declared(s.policy)[e.key], e.to) \in 0..2
    <3>1. /\ e.key \in DOMAIN Declared(s.policy)
          /\ ChainIndex(Declared(s.policy)[e.key], e.to) >= 0
      BY <2>1 DEF MayClose
    <3>2. s.policy \in Seq(Entries) BY DEF States
    <3>3. /\ Declared(s.policy)[e.key].chain \in Seq(Impls)
          /\ Len(Declared(s.policy)[e.key].chain) \in 1..3
      BY <3>1, <3>2, DeclaredOK
    <3> QED BY <3>1, <3>3, ChainIndexOK
  <2>4. /\ Activate(s, e).revision = s.revision + 1 /\ Activate(s, e).policy = s.policy
        /\ \A k \in Keys \ {e.key} : Activate(s, e).entries[k] = s.entries[k]
    BY <2>2, <2>3, ActivateShape
  <2> QED BY <1>3, <2>1, <2>4
<1>4. e.kind \in {"world", "declared", "activated"} BY DEF Events
<1> QED BY <1>1, <1>2, <1>3, <1>4

\* The registry's own Events after place m.
Since(events, m, n) == {i \in (m + 1)..n : events[i].kind # "world"}

\* A revision counts them.
LEMMA RevisionsCounted ==
  ASSUME NEW events, AllSound(events), NEW m \in 0..Len(events), NEW n \in m..Len(events)
  PROVE  /\ IsFiniteSet(Since(events, m, n))
         /\ FoldAt(events, n).revision = FoldAt(events, m).revision
                                           + Cardinality(Since(events, m, n))
<1>0. events \in Seq(Events) /\ Len(events) \in Nat BY DEF AllSound
<1> DEFINE S == {i \in m..Len(events) :
                   /\ IsFiniteSet(Since(events, m, i))
                   /\ FoldAt(events, i).revision = FoldAt(events, m).revision
                                                     + Cardinality(Since(events, m, i))}
<1>1. FoldAt(events, m).revision \in Nat BY SoundAt DEF States
<1>2. m \in S
  <2>1. Since(events, m, m) = {} BY DEF Since
  <2>2. IsFiniteSet(Since(events, m, m)) /\ Cardinality(Since(events, m, m)) = 0
    BY <2>1, FS_EmptySet
  <2>3. m \in m..Len(events) BY <1>0
  <2> QED BY <1>1, <2>2, <2>3
<1>3. ASSUME NEW i \in m..(Len(events) - 1), i \in S PROVE i + 1 \in S
  <2>1. i \in 0..(Len(events) - 1) /\ i \in 0..Len(events) /\ i + 1 \in 0..Len(events)
        /\ i + 1 \in m..Len(events)
    BY <1>0
  <2> DEFINE e == events[i + 1]
             A == Since(events, m, i)
             B == Since(events, m, i + 1)
  <2>2. e \in Events BY <1>0, <2>1
  <2>3. FoldAt(events, i + 1) = FoldEvent(FoldAt(events, i), e) BY <1>0, <2>1, StepAt
  <2>4. FoldAt(events, i) \in States /\ FoldAt(events, i + 1) # Corrupt BY <2>1, SoundAt
  <2>5. /\ IsFiniteSet(A)
        /\ FoldAt(events, i).revision = FoldAt(events, m).revision + Cardinality(A)
    BY <1>3
  <2>6. Cardinality(A) \in Nat BY <2>5, FS_CardinalityType
  <2>7. CASE e.kind = "world"
    <3>1. B = A BY <2>1, <2>7 DEF Since
    <3>2. FoldAt(events, i + 1) = FoldAt(events, i) BY <2>2, <2>3, <2>4, <2>7, EventChanges
    <3> QED BY <2>1, <2>5, <3>1, <3>2
  <2>8. CASE e.kind # "world"
    <3>1. B = A \cup {i + 1} /\ i + 1 \notin A BY <2>1, <2>8 DEF Since
    <3>2. FoldAt(events, i + 1).revision = FoldAt(events, i).revision + 1
      BY <2>2, <2>3, <2>4, <2>8, EventChanges
    <3>3. IsFiniteSet(B) /\ Cardinality(B) = Cardinality(A) + 1 BY <2>5, <3>1, FS_AddElement
    <3> HIDE DEF A, B, e
    <3>4. FoldAt(events, i + 1).revision = FoldAt(events, m).revision + Cardinality(B)
      BY <1>1, <2>5, <2>6, <3>2, <3>3
    <3> QED BY <2>1, <3>3, <3>4 DEF B
  <2> QED BY <2>7, <2>8
<1>4. \A i \in m..Len(events) : i \in S
  <2> HIDE DEF S
  <2> QED BY <1>0, <1>2, <1>3, PlaceInduction
<1> QED BY <1>4

\* Without a declaration the policy stays, and so does an entry without an
\* activation.
LEMMA EntriesKept ==
  ASSUME NEW events, AllSound(events), NEW m \in 0..Len(events),
         \A i \in (m + 1)..Len(events) : events[i].kind # "declared"
  PROVE  /\ FoldAt(events, Len(events)).policy = FoldAt(events, m).policy
         /\ \A k \in Keys : (\A i \in (m + 1)..Len(events) : ~Activates(events[i], k)) =>
              FoldAt(events, Len(events)).entries[k] = FoldAt(events, m).entries[k]
<1>0. events \in Seq(Events) /\ Len(events) \in Nat /\ Len(events) \in m..Len(events)
  <2>1. events \in Seq(Events) BY DEF AllSound
  <2> QED BY <2>1
<1> DEFINE Quiet(k) == \A i \in (m + 1)..Len(events) : ~Activates(events[i], k)
           S == {i \in m..Len(events) :
                   /\ FoldAt(events, i).policy = FoldAt(events, m).policy
                   /\ \A k \in Keys : Quiet(k) =>
                        FoldAt(events, i).entries[k] = FoldAt(events, m).entries[k]}
<1>1. m \in S BY <1>0
<1>2. ASSUME NEW i \in m..(Len(events) - 1), i \in S PROVE i + 1 \in S
  <2>1. /\ i \in 0..(Len(events) - 1) /\ i \in 0..Len(events) /\ i + 1 \in 0..Len(events)
        /\ i + 1 \in m..Len(events) /\ i + 1 \in (m + 1)..Len(events)
    BY <1>0
  <2> DEFINE e == events[i + 1]
  <2>2. e \in Events /\ e.kind # "declared" BY <1>0, <2>1
  <2>3. FoldAt(events, i + 1) = FoldEvent(FoldAt(events, i), e) BY <1>0, <2>1, StepAt
  <2>4. FoldAt(events, i) \in States /\ FoldAt(events, i + 1) # Corrupt BY <2>1, SoundAt
  <2>5. e.kind = "world" \/ e.kind = "activated" BY <2>2 DEF Events
  <2>6. FoldAt(events, i + 1).policy = FoldAt(events, i).policy
    BY <2>2, <2>3, <2>4, <2>5, EventChanges
  <2>7. ASSUME NEW k \in Keys, Quiet(k)
        PROVE  FoldAt(events, i + 1).entries[k] = FoldAt(events, i).entries[k]
    <3>1. ~Activates(e, k) BY <2>1, <2>7
    <3>2. CASE e.kind = "world" BY <2>2, <2>3, <2>4, <3>2, EventChanges
    <3>3. CASE e.kind = "activated"
      <4>1. k \in Keys \ {e.key} BY <3>1, <3>3 DEF Activates
      <4> QED BY <2>2, <2>3, <2>4, <3>3, <4>1, EventChanges
    <3> QED BY <2>5, <3>2, <3>3
  <2> QED BY <1>2, <2>1, <2>6, <2>7
<1>3. \A i \in m..Len(events) : i \in S
  <2>1. m \in Nat BY <1>0
  <2>2. \A i \in m..(Len(events) - 1) : i \in S => i + 1 \in S BY <1>2
  <2> HIDE DEF S
  <2> QED BY <1>0, <1>1, <2>1, <2>2, PlaceInduction
<1> QED BY <1>0, <1>3

\* A host whose every revision since its decision is a swap of its own decides
\* on what the log still folds to.
LEMMA OwnSwapsOnly ==
  ASSUME NEW events, AllSound(events), NEW s \in HostStates, NEW m \in 0..Len(events),
         s.seen = FoldAt(events, m),
         \A k \in Swapped(s) : Named(events, k, s.seen.entries[k].tenure + 1, s.slots[k].impl),
         Fold(events).revision = s.seen.revision + Cardinality(Swapped(s))
  PROVE  /\ Fold(events).policy = s.seen.policy
         /\ \A k \in DOMAIN Declared(s.seen.policy) :
              /\ Fold(events).entries[k].impl = s.slots[k].impl
              /\ k \notin Swapped(s) => Fold(events).entries[k] = s.seen.entries[k]
<1> DEFINE L == Len(events)
           D == Swapped(s)
           I == Since(events, m, L)
           old == s.seen
           new == Fold(events)
<1>0. events \in Seq(Events) /\ L \in Nat /\ L \in 0..L /\ L \in m..L
  <2>1. events \in Seq(Events) BY DEF AllSound
  <2> QED BY <2>1
<1>1. new = FoldAt(events, L)
  <2>1. SubSeq(events, 1, L) = events BY <1>0, SubSeqFull
  <2> QED BY <2>1 DEF FoldAt
<1>2. /\ old \in States /\ Listed(old) /\ new \in States /\ Listed(new)
  BY <1>0, <1>1, SoundAt
<1>3. \A k \in D : k \in DOMAIN Declared(old.policy) BY DEF Swapped
<1>4. ASSUME NEW k \in DOMAIN Declared(old.policy)
      PROVE  /\ k \in Keys
             /\ TenureAt(events, k, m) = Tenure(old.entries[k].tenure, old.entries[k].impl)
             /\ old.entries[k].tenure \in Nat
  <2>1. k \in Keys /\ old.entries[k] # Unrecorded BY <1>2, DeclaredRecorded
  <2>2. /\ TenureAt(events, k, m) = Tenure(old.entries[k].tenure, old.entries[k].impl)
        /\ TenureAt(events, k, m).tenure \in 0..m
    BY <2>1, SoundAt
  <2>3. old.entries[k].tenure \in 0..m BY <2>2 DEF Tenure
  <2> QED BY <2>1, <2>2, <2>3
\* An activation of a declared slot at or after the derived tenure is recent.
<1>5. ASSUME NEW k \in DOMAIN Declared(old.policy), NEW j \in 1..L, Activates(events[j], k),
             events[j].closing \in Nat, events[j].closing >= old.entries[k].tenure
      PROVE  j \in I
  <2>1. k \in Keys /\ old.entries[k].tenure \in Nat
        /\ TenureAt(events, k, m).tenure = old.entries[k].tenure
    BY <1>4 DEF Tenure
  <2>2. ASSUME j <= m PROVE FALSE
    <3>1. j \in 1..m BY <2>2
    <3>2. events[j].closing < TenureAt(events, k, m).tenure
      BY <1>5, <2>1, <3>1, ClosingsPast
    <3> QED BY <1>5, <2>1, <3>2
  <2>3. j \in (m + 1)..L BY <1>0, <2>2
  <2>4. events[j].kind # "world" BY <1>5 DEF Activates
  <2> QED BY <2>3, <2>4 DEF Since
<1> DEFINE f == [k \in D |-> CHOOSE j \in Opening(events, k, old.entries[k].tenure + 1) :
                               events[j].to = s.slots[k].impl]
<1>6. ASSUME NEW k \in D
      PROVE  /\ f[k] \in I /\ f[k] \in 1..L
             /\ Activates(events[f[k]], k) /\ events[f[k]].to = s.slots[k].impl
             /\ events[f[k]].closing = old.entries[k].tenure
  <2>1. Named(events, k, old.entries[k].tenure + 1, s.slots[k].impl) OBVIOUS
  <2>2. f[k] \in Opening(events, k, old.entries[k].tenure + 1)
        /\ events[f[k]].to = s.slots[k].impl
    <3>1. \E j \in Opening(events, k, old.entries[k].tenure + 1) : events[j].to = s.slots[k].impl
      BY <2>1 DEF Named
    <3>2. f[k] = CHOOSE j \in Opening(events, k, old.entries[k].tenure + 1) :
                   events[j].to = s.slots[k].impl
      OBVIOUS
    <3> QED BY <3>1, <3>2
  <2>3. k \in DOMAIN Declared(old.policy) /\ old.entries[k].tenure \in Nat BY <1>3, <1>4
  <2> HIDE DEF f
  <2>4. /\ f[k] \in 1..L /\ Activates(events[f[k]], k)
        /\ events[f[k]].closing = (old.entries[k].tenure + 1) - 1
    BY <1>0, <2>2 DEF Opening, Activates
  <2>5. events[f[k]].closing = old.entries[k].tenure BY <2>3, <2>4
  <2>6. f[k] \in I BY <1>5, <2>3, <2>4, <2>5
  <2> QED BY <2>2, <2>4, <2>5, <2>6
<1>7. /\ IsFiniteSet(I) /\ new.revision = old.revision + Cardinality(I)
  <2>1. Len(events) \in m..Len(events) BY <1>0
  <2>2. /\ IsFiniteSet(Since(events, m, Len(events)))
        /\ FoldAt(events, Len(events)).revision
             = FoldAt(events, m).revision + Cardinality(Since(events, m, Len(events)))
    BY <2>1, RevisionsCounted
  <2> QED BY <1>1, <2>2
<1> HIDE DEF L, D, I, old, new
<1>8. f \in Injection(D, I)
  <2>1. f \in [D -> I] BY <1>6
  <2>2. ASSUME NEW a \in D, NEW b \in D, f[a] = f[b] PROVE a = b
    <3>1. Activates(events[f[a]], a) /\ Activates(events[f[b]], b) BY <1>6, <2>2
    <3> HIDE DEF f
    <3> QED BY <2>2, <3>1 DEF Activates
  <2> HIDE DEF f
  <2>3. IsInjective(f) BY <2>1, <2>2 DEF IsInjective
  <2> QED BY <2>1, <2>3 DEF Injection
<1> HIDE DEF f
<1>9. f \in Surjection(D, I)
  <2>1. IsFiniteSet(D) /\ (Cardinality(D) = Cardinality(I) <=> f \in Surjection(D, I))
    BY <1>7, <1>8, FS_Injection
  <2>2. Cardinality(D) \in Nat /\ Cardinality(I) \in Nat BY <1>7, <2>1, FS_CardinalityType
  <2>3. old.revision \in Nat BY <1>2 DEF States
  <2>4. new.revision = old.revision + Cardinality(D) BY DEF old, new, D
  <2>5. Cardinality(D) = Cardinality(I) BY <1>7, <2>2, <2>3, <2>4
  <2> QED BY <2>1, <2>5
<1>10. ASSUME NEW i \in I PROVE \E k \in D : i = f[k] BY <1>9 DEF Surjection
<1>11. ASSUME NEW k, NEW i \in I, Activates(events[i], k) PROVE k \in D /\ i = f[k]
  <2>1. PICK x \in D : i = f[x] BY <1>10
  <2>2. Activates(events[i], x) BY <1>6, <2>1
  <2>3. x = k BY <1>11, <2>2 DEF Activates
  <2> QED BY <2>1, <2>3
<1>12. \A i \in (m + 1)..L : events[i].kind # "declared"
  <2> SUFFICES ASSUME NEW i \in (m + 1)..L, events[i].kind = "declared" PROVE FALSE OBVIOUS
  <2>1. i \in I BY DEF I, Since
  <2>2. PICK x \in D : i = f[x] BY <1>10, <2>1
  <2>3. events[i].kind = "activated" BY <1>6, <2>2 DEF Activates
  <2> QED BY <2>3
<1>13. /\ new.policy = old.policy
       /\ \A k \in Keys : (\A i \in (m + 1)..L : ~Activates(events[i], k)) =>
            new.entries[k] = old.entries[k]
  <2>1. /\ FoldAt(events, Len(events)).policy = FoldAt(events, m).policy
        /\ \A k \in Keys : (\A i \in (m + 1)..Len(events) : ~Activates(events[i], k)) =>
             FoldAt(events, Len(events)).entries[k] = FoldAt(events, m).entries[k]
    <3>1. \A i \in (m + 1)..Len(events) : events[i].kind # "declared" BY <1>12 DEF L
    <3> QED BY <3>1, EntriesKept
  <2> QED BY <1>1, <2>1 DEF L, old
<1>14. ASSUME NEW k \in DOMAIN Declared(old.policy), k \notin D
       PROVE  new.entries[k] = old.entries[k] /\ new.entries[k].impl = s.slots[k].impl
  <2>1. \A i \in (m + 1)..L : ~Activates(events[i], k)
    <3> SUFFICES ASSUME NEW i \in (m + 1)..L, Activates(events[i], k) PROVE FALSE OBVIOUS
    <3>1. i \in I BY DEF I, Since, Activates
    <3> QED BY <1>11, <1>14, <3>1
  <2>2. new.entries[k] = old.entries[k] BY <1>4, <1>13, <2>1
  <2>3. old.entries[k].impl = s.slots[k].impl BY <1>14 DEF D, Swapped, old
  <2> QED BY <2>2, <2>3
<1>15. ASSUME NEW k \in D PROVE new.entries[k].impl = s.slots[k].impl
  <2>1. k \in DOMAIN Declared(new.policy) BY <1>3, <1>13
  <2>2. k \in Keys /\ new.entries[k] # Unrecorded BY <1>2, <2>1, DeclaredRecorded
  <2> DEFINE r == TenureAt(events, k, L)
  <2>3. r = Tenure(new.entries[k].tenure, new.entries[k].impl) /\ r.tenure \in 0..L
    <3>1. L \in 0..Len(events) BY <1>0 DEF L
    <3> QED BY <1>1, <2>2, <3>1, SoundAt
  <2>4. events[f[k]].closing < r.tenure /\ events[f[k]].closing \in Nat
    <3>1. f[k] \in 1..L /\ Activates(events[f[k]], k) BY <1>6
    <3>2. L \in 0..Len(events) BY <1>0 DEF L
    <3>3. events[f[k]].closing < r.tenure BY <2>2, <3>1, <3>2, ClosingsPast
    <3>4. events[f[k]].closing = old.entries[k].tenure /\ old.entries[k].tenure \in Nat
      BY <1>3, <1>4, <1>6
    <3> QED BY <3>3, <3>4
  <2>5. PICK j \in 1..L : /\ Activates(events[j], k) /\ events[j].closing = r.tenure - 1
                          /\ events[j].to = r.impl
    <3>1. r.tenure # 0 BY <2>3, <2>4
    <3>2. L \in 0..Len(events) BY <1>0 DEF L
    <3> QED BY <2>2, <3>1, <3>2, ClosureOpened
  <2>6. j \in I
    <3>1. events[f[k]].closing = old.entries[k].tenure BY <1>6
    <3>2. events[j].closing \in Nat /\ events[j].closing >= old.entries[k].tenure
      BY <2>3, <2>4, <2>5, <3>1
    <3> QED BY <1>3, <1>5, <2>5, <3>2
  <2>7. j = f[k] BY <1>11, <2>5, <2>6
  <2>8. r.impl = s.slots[k].impl BY <1>6, <2>5, <2>7
  <2> QED BY <2>3, <2>8 DEF Tenure
<1> QED BY <1>13, <1>14, <1>15 DEF old, new, D

----------------------------------------------------------------------------
(* What a step does to the store                                           *)

\* The ways a step may change the store, whoever takes it.
WorldStep(t) ==
  /\ Len(log[t]) < MaxHead
  /\ log' = [log EXCEPT ![t] = Append(@, [kind |-> "world"])]
  /\ ledger' = ledger

PlanStep(t, q) == q.head < MaxHead /\ Plan(t, q).kind = "commit" /\ Commit(t, Plan(t, q))

StoreStep ==
  \/ UNCHANGED store
  \/ \E t \in Timelines : WorldStep(t)
  \/ \E t \in Timelines : \E q \in Activations \cup Declarations : PlanStep(t, q)
  \/ \E t \in Timelines : \E cut \in DOMAIN log[1] : Fork(t, cut)

\* Logs and ledgers grow, and the ledgers name their Events.
StoreGrown ==
  /\ \A t \in Timelines :
       Grown(log'[t], log[t]) /\ RowsGrown(ledger'[t], ledger[t]) /\ Len(log'[t]) <= MaxHead
  /\ LedgerSound'

\* The prefixes of a Timeline are sound.
LEMMA TimelineSound ==
  ASSUME Typed, PrefixesSound, NEW t \in Timelines
  PROVE  AllSound(log[t])
BY DEF Typed, PrefixesSound, AllSound

\* A plan to commit is of a fresh request, and its row names the request.
LEMMA PlannedRow ==
  ASSUME NEW t, NEW q, Plan(t, q).kind = "commit"
  PROVE  /\ Fresh(t, Fold(log[t]), q)
         /\ Plan(t, q).row =
              [request |-> q, revision |-> FoldEvent(Fold(log[t]), Plan(t, q).event).revision,
               seq |-> Len(log[t]) + 1]
<1> DEFINE s == Fold(log[t])
           e == IF q.kind = "declared" THEN DeclaredEvent(s, q) ELSE ActivatedEvent(s, q)
<1>1. /\ Fresh(t, s, q) /\ Plan(t, q).event = e
      /\ Plan(t, q).row = [request |-> q, revision |-> FoldEvent(s, e).revision,
                           seq |-> Len(log[t]) + 1]
  BY PlanCommits
<1> HIDE DEF e
<1> QED BY <1>1

\* What a plan to commit writes.
LEMMA PlannedEvent ==
  ASSUME Typed, PrefixesSound, NEW t \in Timelines, NEW q \in Activations \cup Declarations,
         Plan(t, q).kind = "commit"
  PROVE  LET e == Plan(t, q).event
             r == Plan(t, q).row IN
         /\ e \in Events /\ q.head = Len(log[t])
         /\ r.request = q /\ r.seq = Len(log[t]) + 1
         /\ r.revision = Fold(Append(log[t], e)).revision
         /\ q.kind = "activated" =>
              /\ Activates(e, q.key) /\ e.closing = q.closing /\ e.to = q.to
              /\ q.closing \in Nat
              /\ MayClose(Fold(log[t]), e)
<1> DEFINE s == Fold(log[t])
           e == Plan(t, q).event
<1>1. log[t] \in Seq(Events) /\ SoundFold(log[t]) /\ s \in States BY WholeSound
<1>2. /\ Fresh(t, s, q)
      /\ Plan(t, q).row.request = q /\ Plan(t, q).row.seq = Len(log[t]) + 1
      /\ Plan(t, q).row.revision = FoldEvent(s, e).revision
  <2>1. /\ Fresh(t, s, q)
        /\ Plan(t, q).row = [request |-> q, revision |-> FoldEvent(s, e).revision,
                             seq |-> Len(log[t]) + 1]
    BY PlannedRow
  <2> HIDE DEF e
  <2> QED BY <2>1
<1>3. q.head = Len(log[t]) BY <1>2 DEF Fresh
<1>4. CASE q \in Activations
  <2>1. q.kind = "activated" BY <1>4 DEF Activations
  <2>2. e = ActivatedEvent(s, q) /\ MayClose(s, e) BY <2>1, PlanCommits
  <2>3. e \in Events BY <1>1, <1>4, <2>2, ActivateSound
  <2>4. Activates(e, q.key) /\ e.closing = q.closing /\ e.to = q.to
    BY <2>2 DEF ActivatedEvent, Activates
  <2>5. q.closing \in Nat
    <3>1. e.kind = "activated" BY <2>4 DEF Activates
    <3> QED BY <2>3, <2>4, <3>1 DEF Events
  <2>6. Fold(Append(log[t], e)) = FoldEvent(s, e) BY <1>1, <2>3, FoldAppend
  <2> QED BY <1>2, <1>3, <2>2, <2>3, <2>4, <2>5, <2>6
<1>5. CASE q \in Declarations
  <2>1. q.kind = "declared" /\ q.policy \in Seq(Entries) BY <1>5 DEF Declarations
  <2>2. e = DeclaredEvent(s, q) BY <2>1, PlanCommits
  <2>3. Rebased(s) \in SUBSET (Keys \X ({-1} \cup Impls))
    BY <1>1 DEF Rebased, States, EntryStates
  <2>4. e \in Events BY <2>1, <2>2, <2>3 DEF DeclaredEvent, Events
  <2>5. Fold(Append(log[t], e)) = FoldEvent(s, e) BY <1>1, <2>4, FoldAppend
  <2> QED BY <1>2, <1>3, <2>1, <2>4, <2>5
<1> QED BY <1>4, <1>5

\* A log extended by an Event has grown.
LEMMA AppendGrown ==
  ASSUME NEW events \in Seq(Events), NEW e \in Events
  PROVE  Grown(Append(events, e), events)
<1>1. /\ Len(Append(events, e)) = Len(events) + 1 /\ Len(events) \in Nat
      /\ \A n \in 0..Len(events) : SubSeq(Append(events, e), 1, n) = SubSeq(events, 1, n)
  BY AppendPrefix
<1> QED BY <1>1 DEF Grown

\* A log has grown by nothing.
LEMMA SameGrown ==
  ASSUME NEW events \in Seq(Events)
  PROVE  Grown(events, events)
<1>1. Len(events) \in Nat OBVIOUS
<1> QED BY <1>1 DEF Grown

\* A ledger row names its Event also in a longer log.
LEMMA RowNamesGrown ==
  ASSUME NEW events \in Seq(Events), NEW longer, AllSound(longer), Grown(longer, events),
         NEW r \in Operations, r.request.kind = "activated", RowNamesEvent(r, events)
  PROVE  RowNamesEvent(r, longer)
<1>1. r.request.key \in Keys BY DEF Operations, Activations, Declarations
<1>2. r.seq \in Opening(longer, r.request.key, r.request.closing + 1)
  BY <1>1, GrownOpenings DEF RowNamesEvent
<1>3. longer[r.seq] = events[r.seq]
  <2>1. longer \in Seq(Events) BY DEF AllSound
  <2>2. r.seq \in 1..Len(events) BY DEF RowNamesEvent, Opening
  <2> QED BY <2>1, <2>2, GrownEvents
<1> QED BY <1>2, <1>3 DEF RowNamesEvent

\* Every such step lets logs and ledgers grow.
LEMMA StoreStepGrows ==
  ASSUME BoundaryInv, StoreInv', StoreStep
  PROVE  StoreGrown
<1>0. /\ Typed /\ PrefixesSound /\ LedgerSound
      /\ \A t \in Timelines : Len(log[t]) <= MaxHead
  BY DEF BoundaryInv, StoreInv
<1>1. /\ log \in [Timelines -> Seq(Events)] /\ ledger \in [Timelines -> Seq(Operations)]
      /\ log' \in [Timelines -> Seq(Events)] /\ ledger' \in [Timelines -> Seq(Operations)]
  BY DEF BoundaryInv, StoreInv, Typed
<1>2. \A t \in Timelines : AllSound(log'[t])
  BY <1>1 DEF StoreInv, PrefixesSound, AllSound
<1>3. \A t \in Timelines : /\ log[t] \in Seq(Events) /\ Len(log[t]) \in Nat
                           /\ ledger[t] \in Seq(Operations) /\ Len(ledger[t]) \in Nat
  BY <1>1
\* Rows that were in the ledger name their Events.
<1>4. ASSUME NEW t \in Timelines, Grown(log'[t], log[t]), NEW i \in DOMAIN ledger[t],
             ledger[t][i].request.kind = "activated"
      PROVE  RowNamesEvent(ledger[t][i], log'[t])
  <2>1. RowNamesEvent(ledger[t][i], log[t]) BY <1>0, <1>4 DEF LedgerSound
  <2>2. ledger[t][i] \in Operations BY <1>1
  <2> QED BY <1>2, <1>3, <1>4, <2>1, <2>2, RowNamesGrown
\* A Timeline whose ledger stays.
<1>5. ASSUME NEW t \in Timelines, ledger'[t] = ledger[t], Grown(log'[t], log[t])
      PROVE  /\ RowsGrown(ledger'[t], ledger[t])
             /\ Len(ledger'[t]) <= Len(log'[t])
             /\ \A i \in DOMAIN ledger'[t] : ledger'[t][i].request.kind = "activated" =>
                  RowNamesEvent(ledger'[t][i], log'[t])
  <2>1. Len(ledger[t]) <= Len(log[t]) BY <1>0 DEF LedgerSound
  <2>2. Len(log[t]) <= Len(log'[t]) BY <1>5 DEF Grown
  <2>3. Len(log'[t]) \in Nat BY <1>1
  <2>4. Len(ledger'[t]) <= Len(log'[t]) BY <1>3, <1>5, <2>1, <2>2, <2>3
  <2> QED BY <1>4, <1>5, <2>4 DEF RowsGrown
\* A Timeline that stays.
<1>6. ASSUME NEW t \in Timelines, ledger'[t] = ledger[t], log'[t] = log[t]
      PROVE  Grown(log'[t], log[t]) /\ Len(log'[t]) <= MaxHead
  BY <1>0, <1>3, <1>6, SameGrown
<1>7. CASE UNCHANGED store
  <2>1. log' = log /\ ledger' = ledger BY <1>7 DEF store
  <2> QED BY <1>5, <1>6, <2>1 DEF StoreGrown, LedgerSound
<1>8. ASSUME NEW t \in Timelines, WorldStep(t) PROVE StoreGrown
  <2>1. /\ log'[t] = Append(log[t], [kind |-> "world"]) /\ Len(log[t]) < MaxHead
        /\ \A u \in Timelines \ {t} : log'[u] = log[u]
        /\ ledger' = ledger
    BY <1>1, <1>8 DEF WorldStep
  <2>2. [kind |-> "world"] \in Events BY DEF Events
  <2>3. Grown(log'[t], log[t]) BY <1>3, <2>1, <2>2, AppendGrown
  <2>4. Len(log'[t]) = Len(log[t]) + 1 BY <1>3, <2>1, <2>2
  <2>5. Len(log'[t]) <= MaxHead BY <1>3, <2>1, <2>4, MaxHeadAssumption
  <2> QED BY <1>5, <1>6, <2>1, <2>3, <2>5 DEF StoreGrown, LedgerSound
<1>9. ASSUME NEW t \in Timelines, NEW q \in Activations \cup Declarations, PlanStep(t, q)
      PROVE  StoreGrown
  <2> DEFINE e == Plan(t, q).event
             r == Plan(t, q).row
  <2>0. Plan(t, q).kind = "commit" /\ q.head < MaxHead BY <1>9 DEF PlanStep
  <2>1. /\ log'[t] = Append(log[t], e) /\ ledger'[t] = Append(ledger[t], r)
        /\ \A u \in Timelines \ {t} : log'[u] = log[u] /\ ledger'[u] = ledger[u]
    BY <1>1, <1>9 DEF PlanStep, Commit
  <2>2. /\ e \in Events /\ q.head = Len(log[t])
        /\ r.request = q /\ r.seq = Len(log[t]) + 1
        /\ r.revision = Fold(Append(log[t], e)).revision
        /\ q.kind = "activated" =>
             /\ Activates(e, q.key) /\ e.closing = q.closing /\ e.to = q.to
             /\ q.closing \in Nat
    BY <1>0, <2>0, PlannedEvent
  <2> HIDE DEF e, r
  <2>3. Grown(log'[t], log[t]) BY <1>3, <2>1, <2>2, AppendGrown
  <2>4. Len(log'[t]) = Len(log[t]) + 1 /\ log'[t][Len(log[t]) + 1] = e BY <1>3, <2>1, <2>2
  <2>5. Len(log'[t]) <= MaxHead BY <1>3, <2>0, <2>2, <2>4, MaxHeadAssumption
  <2>6. /\ Len(ledger'[t]) = Len(ledger[t]) + 1 /\ ledger'[t][Len(ledger[t]) + 1] = r
        /\ \A i \in 1..Len(ledger[t]) : ledger'[t][i] = ledger[t][i]
    <3>1. r \in Operations
      <4>1. ledger'[t] \in Seq(Operations) BY <1>1
      <4>2. r.revision \in Nat
        <5>1. Len(log'[t]) \in 0..Len(log'[t]) BY <1>3, <2>4
        <5>2. SubSeq(log'[t], 1, Len(log'[t])) = log'[t] BY <1>1, SubSeqFull
        <5>3. SoundFold(log'[t]) BY <1>2, <5>1, <5>2 DEF AllSound
        <5> QED BY <2>1, <2>2, <5>3 DEF SoundFold, States
      <4>3. r = [request |-> q, revision |-> r.revision, seq |-> r.seq]
        <5>1. r = [request |-> q, revision |-> FoldEvent(Fold(log[t]), Plan(t, q).event).revision,
                   seq |-> Len(log[t]) + 1]
          BY <2>0, PlannedRow DEF r
        <5> QED BY <5>1
      <4>4. r.seq \in Nat BY <1>3, <2>2
      <4> QED BY <4>2, <4>3, <4>4 DEF Operations
    <3> QED BY <1>3, <2>1, <3>1, AppendProperties
  <2>7. RowsGrown(ledger'[t], ledger[t])
    <3>1. DOMAIN ledger[t] = 1..Len(ledger[t]) /\ DOMAIN ledger'[t] = 1..Len(ledger'[t])
      BY <1>1
    <3> QED BY <1>3, <2>6, <3>1 DEF RowsGrown
  <2>8. Len(ledger'[t]) <= Len(log'[t])
    <3>1. Len(ledger[t]) <= Len(log[t]) BY <1>0 DEF LedgerSound
    <3> QED BY <1>3, <2>4, <2>6, <3>1
  <2>9. ASSUME NEW i \in DOMAIN ledger'[t], ledger'[t][i].request.kind = "activated"
        PROVE  RowNamesEvent(ledger'[t][i], log'[t])
    <3>1. i \in 1..(Len(ledger[t]) + 1)
      <4>1. DOMAIN ledger'[t] = 1..Len(ledger'[t]) BY <1>1
      <4> QED BY <2>6, <4>1
    <3>2. CASE i \in 1..Len(ledger[t])
      <4>1. i \in DOMAIN ledger[t] /\ ledger'[t][i] = ledger[t][i] BY <1>3, <2>6, <3>2
      <4> QED BY <1>4, <2>3, <2>9, <4>1
    <3>3. CASE i = Len(ledger[t]) + 1
      <4>1. ledger'[t][i] = r BY <2>6, <3>3
      <4>2. q.kind = "activated" BY <2>2, <2>9, <4>1
      <4>3. /\ Activates(e, q.key) /\ e.closing = q.closing /\ e.to = q.to /\ q.closing \in Nat
        BY <2>2, <4>2
      <4>4. r.seq \in DOMAIN log'[t] /\ log'[t][r.seq] = e
        <5>1. DOMAIN log'[t] = 1..Len(log'[t]) BY <1>1
        <5> QED BY <1>3, <2>2, <2>4, <5>1
      <4>5. r.seq \in Opening(log'[t], q.key, q.closing + 1)
        BY <4>3, <4>4 DEF Opening, Activates
      <4>6. r.revision <= r.seq
        <5>1. Len(log'[t]) \in 0..Len(log'[t]) BY <1>3, <2>4
        <5>2. SubSeq(log'[t], 1, Len(log'[t])) = log'[t] BY <1>1, SubSeqFull
        <5>3. SoundFold(log'[t]) BY <1>2, <5>1, <5>2 DEF AllSound
        <5>4. Fold(log'[t]).revision <= Len(log'[t]) BY <5>3 DEF SoundFold
        <5> QED BY <2>1, <2>2, <2>4, <5>4
      <4> QED BY <2>2, <4>1, <4>3, <4>4, <4>5, <4>6 DEF RowNamesEvent
    <3> QED BY <1>3, <3>1, <3>2, <3>3
  <2> QED BY <1>5, <1>6, <2>1, <2>3, <2>5, <2>7, <2>8, <2>9 DEF StoreGrown, LedgerSound
<1>10. ASSUME NEW t \in Timelines, NEW cut \in DOMAIN log[1], Fork(t, cut) PROVE StoreGrown
  <2>0. 1 \in Timelines BY NumberingAssumption
  <2>1. /\ log[t] = <<>> /\ log'[t] = SubSeq(log[1], 1, cut) /\ ledger' = ledger
        /\ \A u \in Timelines \ {t} : log'[u] = log[u]
    BY <1>1, <1>10 DEF Fork
  <2>2. cut \in 1..Len(log[1]) /\ Len(log'[t]) = cut
    <3>1. cut \in 1..Len(log[1]) BY <1>3, <2>0
    <3> QED BY <1>3, <2>0, <2>1, <3>1
  <2>3. Grown(log'[t], log[t])
    <3>1. Len(log[t]) = 0 BY <2>1
    <3>2. SubSeq(log'[t], 1, 0) = <<>> /\ SubSeq(log[t], 1, 0) = <<>> BY <1>1
    <3>3. 0 <= Len(log'[t]) BY <2>2
    <3>4. \A n \in 0..0 : SubSeq(log'[t], 1, n) = SubSeq(log[t], 1, n) BY <3>2
    <3> QED BY <3>1, <3>3, <3>4 DEF Grown
  <2>4. Len(log'[t]) <= MaxHead
    <3>1. Len(log[1]) <= MaxHead BY <1>0, <2>0
    <3> QED BY <1>3, <2>0, <2>2, <3>1, MaxHeadAssumption
  <2> QED BY <1>5, <1>6, <2>1, <2>3, <2>4 DEF StoreGrown, LedgerSound
<1> QED BY <1>7, <1>8, <1>9, <1>10 DEF StoreStep

----------------------------------------------------------------------------
(* One host's step against the others                                      *)

\* A host that takes no part in a step stays linked.
LEMMA OtherLinked ==
  ASSUME BoundaryInv, StoreInv', StoreStep, NEW u \in Hosts, host'[u] = host[u]
  PROVE  HostLinked(host'[u], log'[host'[u].t], ledger'[host'[u].t])
<1> DEFINE s == host[u]
           t == host[u].t
<1>1. StoreGrown BY StoreStepGrows
<1>2. host \in [Hosts -> HostStates] /\ log \in [Timelines -> Seq(Events)]
  BY DEF BoundaryInv, StoreInv, Typed
<1>3. s \in HostStates /\ t \in Timelines BY <1>2 DEF HostStates
<1>4. HostLinked(s, log[t], ledger[t]) BY DEF BoundaryInv
<1>5. Grown(log'[t], log[t]) /\ RowsGrown(ledger'[t], ledger[t])
  BY <1>1, <1>3 DEF StoreGrown
<1>6. log[t] \in Seq(Events) /\ AllSound(log'[t])
  BY <1>2, <1>3 DEF StoreInv, Typed, PrefixesSound, AllSound
<1> HIDE DEF s
<1>7. HostLinked(s, log'[t], ledger'[t]) BY <1>3, <1>4, <1>5, <1>6, LinkedGrows
<1> QED BY <1>7 DEF s

\* A step that changes one host and lets the store grow.
LEMMA Combine ==
  ASSUME BoundaryInv, StoreInv', StoreStep, NEW h \in Hosts, NEW new,
         host' = [host EXCEPT ![h] = new], HostLinked(new, log'[new.t], ledger'[new.t]),
         offer' \in {offer, NoOffer}
  PROVE  BoundaryInv'
<1>1. StoreGrown BY StoreStepGrows
<1>2. host \in [Hosts -> HostStates] BY DEF BoundaryInv, StoreInv, Typed
<1>3. LedgerSound' /\ \A t \in Timelines : Len(log'[t]) <= MaxHead BY <1>1 DEF StoreGrown
<1>4. (offer # NoOffer => offer.head < MaxHead)' BY DEF BoundaryInv
<1>5. ASSUME NEW u \in Hosts PROVE HostLinked(host'[u], log'[host'[u].t], ledger'[host'[u].t])
  <2>1. CASE u = h BY <1>2, <2>1
  <2>2. CASE u # h
    <3>1. host'[u] = host[u] BY <1>2, <2>2
    <3> QED BY <3>1, OtherLinked
  <2> QED BY <2>1, <2>2
<1> QED BY <1>3, <1>4, <1>5 DEF BoundaryInv

\* A step of one host that leaves store and offer alone.
LEMMA LocalLinked ==
  ASSUME BoundaryInv, StoreInv', NEW h \in Hosts, NEW new,
         host' = [host EXCEPT ![h] = new], HostLinked(new, log[new.t], ledger[new.t]),
         UNCHANGED <<store, offer>>
  PROVE  BoundaryInv'
<1>1. UNCHANGED store /\ offer' = offer OBVIOUS
<1>2. StoreStep BY <1>1 DEF StoreStep
<1>3. log' = log /\ ledger' = ledger BY <1>1 DEF store
<1>4. HostLinked(new, log'[new.t], ledger'[new.t]) BY <1>3
<1>5. offer' \in {offer, NoOffer} BY <1>1
<1> QED BY <1>2, <1>4, <1>5, Combine

----------------------------------------------------------------------------
(* What a host keeps of its links                                          *)

\* Inside a transaction, and inside a restart that has its slots.
Walking == {"walk", "commit", "adopt", "refused", "apply", "owner"}
Composing == {"compose", "recommit"}

\* The slots and what was derived stay: only the request is new.
LEMMA Relinked ==
  ASSUME NEW events, NEW rows, NEW s \in HostStates, NEW n \in HostStates,
         DecisionLinked(s, events), SlotsLinked(s, events), HostBounded(s),
         n.seen = s.seen, n.slots = s.slots, n.revision = s.revision, n.faulted = s.faulted,
         n.todo \subseteq s.todo,
         (s.pc \in Walking /\ n.pc \in Walking) \/ (s.pc \in Composing /\ n.pc \in Composing),
         RequestLinked(n, rows),
         n.pc \in {"commit", "adopt", "apply", "recommit"} => n.req.head < MaxHead
  PROVE  HostLinked(n, events, rows)
<1>1. /\ s.pc \notin {"down", "idle", "derived"} /\ n.pc \notin {"down", "idle", "derived"}
      /\ n.pc \in Composing <=> s.pc \in Composing
  BY DEF Walking, Composing
<1>2. Swapped(n) = Swapped(s) BY DEF Swapped
<1>3. DecisionLinked(n, events) BY <1>1, <1>2 DEF DecisionLinked
<1>4. SlotsLinked(n, events) BY <1>1 DEF SlotsLinked, Composing
<1>5. HostBounded(n) BY DEF HostBounded
<1> QED BY <1>3, <1>4, <1>5 DEF HostLinked

\* Back at the Tick Boundary, only the slots count.
LEMMA IdleLinked ==
  ASSUME NEW events, NEW rows, NEW s \in HostStates, NEW n \in HostStates,
         SlotsLinked(s, events), HostBounded(s),
         n.slots = s.slots, s.faulted => n.faulted, n.revision <= MaxHead, n.pc = "idle",
         s.pc \in Walking \cup {"idle"}
  PROVE  HostLinked(n, events, rows)
<1>1. DecisionLinked(n, events) BY DEF DecisionLinked
<1>2. RequestLinked(n, rows) BY DEF RequestLinked
<1>3. SlotsLinked(n, events) BY DEF SlotsLinked, Walking
<1>4. HostBounded(n) BY DEF HostBounded
<1> QED BY <1>1, <1>2, <1>3, <1>4 DEF HostLinked

\* The fields of a host back at the Tick Boundary.
LEMMA IdleFields ==
  ASSUME NEW s \in HostStates
  PROVE  /\ Idle(s).pc = "idle" /\ Idle(s).slots = s.slots /\ Idle(s).faulted = s.faulted
         /\ Idle(s).t = s.t /\ Idle(s).revision = 0 /\ Idle(s).todo = {}
BY DEF Idle, HostStates

\* One entry is done with.
LEMMA OnwardLinked ==
  ASSUME NEW events, NEW rows, NEW s \in HostStates, NEW k, HostLinked(s, events, rows),
         s.pc \in Walking, s.todo \subseteq DOMAIN Declared(s.seen.policy)
  PROVE  /\ HostLinked(Onward(s, k), events, rows) /\ Onward(s, k) \in HostStates
         /\ Onward(s, k).t = s.t /\ Onward(s, k).slots = s.slots
         /\ Onward(s, k).faulted = s.faulted
         /\ \/ Onward(s, k).pc = "idle"
            \/ Onward(s, k).pc = "walk" /\ Onward(s, k).seen = s.seen /\ k \notin Onward(s, k).todo
<1> DEFINE n == Onward(s, k)
<1>1. n \in HostStates BY OnwardOK
<1>2. DecisionLinked(s, events) /\ SlotsLinked(s, events) /\ HostBounded(s) BY DEF HostLinked
<1>3. CASE s.todo \subseteq {k}
  <2>1. n = Idle(s) BY <1>3 DEF Onward
  <2>2. /\ n.pc = "idle" /\ n.slots = s.slots /\ n.faulted = s.faulted /\ n.t = s.t
        /\ n.revision = 0
    BY <2>1, IdleFields
  <2> HIDE DEF n
  <2>3. n.revision <= MaxHead BY <2>2, MaxHeadAssumption
  <2>4. HostLinked(n, events, rows) BY <1>1, <1>2, <2>2, <2>3, IdleLinked
  <2> QED BY <1>1, <2>2, <2>4 DEF n
<1>4. CASE ~(s.todo \subseteq {k})
  <2>1. n = [s EXCEPT !.pc = "walk", !.todo = @ \ {k}, !.req = NoRequest, !.found = NoRequest]
    BY <1>4 DEF Onward
  <2> HIDE DEF n
  <2>2. /\ n.pc = "walk" /\ n.slots = s.slots /\ n.faulted = s.faulted /\ n.t = s.t
        /\ n.revision = s.revision /\ n.seen = s.seen /\ n.todo = s.todo \ {k}
    BY <2>1 DEF HostStates
  <2>3. RequestLinked(n, rows) BY <2>2 DEF RequestLinked
  <2>4. n.pc \in Walking BY <2>2 DEF Walking
  <2>5. HostLinked(n, events, rows) BY <1>1, <1>2, <2>2, <2>3, <2>4, Relinked
  <2> QED BY <1>1, <2>2, <2>5 DEF n
<1> QED BY <1>3, <1>4

\* A transaction starts from the composition the host runs.
LEMMA StartLinked ==
  ASSUME NEW events, NEW rows, NEW s \in HostStates, NEW n \in HostStates,
         SlotsLinked(s, events), HostBounded(s), s.pc = "idle", events \in Seq(Events),
         n.slots = s.slots, n.faulted = s.faulted, n.pc \in {"walk", "owner"},
         n.seen = Fold(events), n.revision <= MaxHead, Swapped(n) = {},
         RequestLinked(n, rows)
  PROVE  HostLinked(n, events, rows)
<1>1. Len(events) \in 0..Len(events) /\ SubSeq(events, 1, Len(events)) = events
  BY SubSeqFull
<1>2. DecisionLinked(n, events) BY <1>1 DEF DecisionLinked
<1>3. SlotsLinked(n, events) BY DEF SlotsLinked
<1>4. HostBounded(n) BY DEF HostBounded
<1> QED BY <1>2, <1>3, <1>4 DEF HostLinked

\* A slot is installed by the activation that opened its tenure.
LEMMA InstallLinked ==
  ASSUME NEW events, NEW rows, NEW s \in HostStates, NEW n \in HostStates, NEW k \in Keys,
         HostLinked(s, events, rows), s.pc \in {"walk", "idle", "compose"},
         s.pc # "idle" => k \notin s.todo /\ n.slots[k].tenure = s.seen.entries[k].tenure + 1,
         n.pc = s.pc, n.seen = s.seen, n.todo = s.todo, n.faulted = s.faulted,
         n.revision <= MaxHead, \A x \in Keys \ {k} : n.slots[x] = s.slots[x],
         n.slots[k].tenure # 0, n.slots[k].tenure <= MaxHead,
         Named(events, k, n.slots[k].tenure, n.slots[k].impl),
         n.slots[k].restored \subseteq 1..MaxHead,
         s.pc # "compose" => /\ n.slots[k].restored = 1..Cardinality(n.slots[k].restored)
                             /\ Opening(events, k, n.slots[k].tenure) \subseteq n.slots[k].restored
  PROVE  HostLinked(n, events, rows)
<1>1. DecisionLinked(s, events) /\ SlotsLinked(s, events) /\ HostBounded(s) BY DEF HostLinked
<1>2. DecisionLinked(n, events)
  <2>1. ASSUME n.pc # "idle", NEW x \in Swapped(n)
        PROVE  /\ x \notin n.todo
               /\ Named(events, x, n.seen.entries[x].tenure + 1, n.slots[x].impl)
    <3>1. x \in Keys BY SwappedKeys
    <3>2. CASE x = k BY <2>1, <3>2
    <3>3. CASE x # k
      <4>1. n.slots[x] = s.slots[x] BY <3>1, <3>3
      <4>2. x \in Swapped(s) BY <2>1, <4>1 DEF Swapped
      <4>3. s.pc \notin {"down", "idle", "derived"} BY <2>1
      <4> QED BY <1>1, <4>1, <4>2, <4>3 DEF DecisionLinked
    <3> QED BY <3>2, <3>3
  <2> QED BY <1>1, <2>1 DEF DecisionLinked
<1>3. RequestLinked(n, rows) BY DEF RequestLinked
<1>4. SlotsLinked(n, events)
  <2> SUFFICES ASSUME ~n.faulted, NEW x \in Keys
               PROVE  LET slot == n.slots[x] IN
                      /\ IF slot.tenure = 0 THEN slot.impl = Base
                         ELSE Named(events, x, slot.tenure, slot.impl)
                      /\ n.pc \notin {"compose", "recommit"} =>
                           /\ slot.restored = 1..Cardinality(slot.restored)
                           /\ Opening(events, x, slot.tenure) \subseteq slot.restored
    BY DEF SlotsLinked
  <2>1. CASE x = k BY <2>1
  <2>2. CASE x # k
    <3>1. n.slots[x] = s.slots[x] BY <2>2
    <3> QED BY <1>1, <3>1 DEF SlotsLinked
  <2> QED BY <2>1, <2>2
<1>5. HostBounded(n)
  <2>1. \A x \in Keys : n.slots[x].tenure <= MaxHead /\ n.slots[x].restored \subseteq 1..MaxHead
    BY <1>1 DEF HostBounded
  <2> QED BY <2>1 DEF HostBounded
<1> QED BY <1>2, <1>3, <1>4, <1>5 DEF HostLinked

----------------------------------------------------------------------------
(* The actions, one by one                                                 *)

\* What the invariant says of one host.
LEMMA HostFacts ==
  ASSUME BoundaryInv, NEW h \in Hosts
  PROVE  LET s == host[h]
             t == host[h].t IN
         /\ s \in HostStates /\ HostSound(s) /\ t \in Timelines
         /\ host \in [Hosts -> HostStates]
         /\ HostLinked(s, log[t], ledger[t])
         /\ DecisionLinked(s, log[t]) /\ RequestLinked(s, ledger[t]) /\ SlotsLinked(s, log[t])
         /\ HostBounded(s)
         /\ AllSound(log[t]) /\ log[t] \in Seq(Events) /\ ledger[t] \in Seq(Operations)
         /\ Len(log[t]) \in Nat /\ Len(log[t]) <= MaxHead
<1>1. Typed /\ PrefixesSound /\ HostSound(host[h]) BY DEF BoundaryInv, StoreInv
<1>2. host \in [Hosts -> HostStates] BY <1>1 DEF Typed
<1>3. host[h].t \in Timelines BY <1>2 DEF HostStates
<1>4. HostLinked(host[h], log[host[h].t], ledger[host[h].t])
      /\ Len(log[host[h].t]) <= MaxHead
  BY <1>3 DEF BoundaryInv
<1>5. AllSound(log[host[h].t]) BY <1>1, <1>3, TimelineSound
<1>6. log[host[h].t] \in Seq(Events) /\ ledger[host[h].t] \in Seq(Operations)
  BY <1>1, <1>3 DEF Typed
<1> QED BY <1>1, <1>2, <1>3, <1>4, <1>5, <1>6 DEF HostLinked

\* What is effective is what the Events fold to.
LEMMA EffectiveFold ==
  ASSUME BoundaryInv, NEW t \in Timelines
  PROVE  /\ Effective(t) = Fold(log[t]) /\ Effective(t) \in States
         /\ Effective(t).revision <= MaxHead
<1>1. Typed /\ PrefixesSound /\ RowChecked(t) /\ Len(log[t]) <= MaxHead
  BY DEF BoundaryInv, StoreInv, RowIsFold
<1>2. log[t] \in Seq(Events) /\ SoundFold(log[t]) /\ Fold(log[t]) \in States
  BY <1>1, WholeSound
<1>3. Effective(t) = Fold(log[t]) BY <1>1 DEF RowChecked, Effective
<1>4. Fold(log[t]).revision <= Len(log[t]) BY <1>2 DEF SoundFold
<1>5. Fold(log[t]).revision \in Nat /\ Len(log[t]) \in Nat BY <1>2 DEF States
<1>6. Fold(log[t]).revision <= MaxHead BY <1>1, <1>4, <1>5, MaxHeadAssumption
<1> QED BY <1>2, <1>3, <1>6

\* The session controller.
LEMMA OfferLinked ==
  ASSUME BoundaryInv, StoreInv', NEW h \in Hosts, PrepareOffer(h) \/ SubmitOffer(h)
  PROVE  BoundaryInv'
<1> DEFINE s == host[h]
           t == host[h].t
<1>0. /\ s \in HostStates /\ t \in Timelines /\ HostLinked(s, log[t], ledger[t])
      /\ host \in [Hosts -> HostStates] /\ log[t] \in Seq(Events) /\ AllSound(log[t])
  BY HostFacts
<1>1. CASE PrepareOffer(h)
  <2>1. UNCHANGED store /\ host' = host /\ Len(log[t]) < MaxHead BY <1>1 DEF PrepareOffer
  <2>2. log' = log /\ ledger' = ledger BY <2>1 DEF store
  <2>3. offer'.head = Len(log[t]) BY <1>1 DEF PrepareOffer
  <2>4. LedgerSound' BY <2>2 DEF BoundaryInv, LedgerSound
  <2> HIDE DEF s, t
  <2> QED BY <2>1, <2>2, <2>3, <2>4 DEF BoundaryInv
<1>2. CASE SubmitOffer(h)
  <2> DEFINE p == Plan(t, offer)
  <2>1. PICK result \in Results, poison \in BOOLEAN :
          /\ Call(h, p, result, poison)
          /\ host' = [host EXCEPT ![h].poisoned = poison]
          /\ offer' = IF result = "ok" THEN NoOffer ELSE offer
    BY <1>2 DEF SubmitOffer
  <2>2. offer.t = t /\ s.pc = "idle" BY <1>2 DEF SubmitOffer
  <2>3. offer \in Declarations /\ offer # NoOffer
    <3>1. NoOffer.t = 0 /\ t # 0 BY <1>0, NumberingAssumption DEF NoOffer
    <3> QED BY <2>2, <3>1 DEF BoundaryInv, StoreInv, Typed
  <2>4. StoreStep
    <3>1. UNCHANGED store \/ (p.kind = "commit" /\ Commit(t, p)) BY <2>1, CallEffect
    <3>2. offer.head < MaxHead BY <2>3 DEF BoundaryInv
    <3>3. ASSUME p.kind = "commit", Commit(t, p) PROVE StoreStep
      <4>1. PlanStep(t, offer) BY <3>2, <3>3 DEF PlanStep
      <4> QED BY <1>0, <2>3, <4>1 DEF StoreStep
    <3> QED BY <3>1, <3>3 DEF StoreStep
  <2> DEFINE new == [s EXCEPT !.poisoned = poison]
  <2>5. host' = [host EXCEPT ![h] = new] BY <2>1
  <2>6. /\ new \in HostStates /\ new.pc = "idle" /\ new.t = t /\ new.slots = s.slots
        /\ new.faulted = s.faulted /\ new.revision = s.revision
    BY <1>0, <2>2 DEF HostStates
  <2> HIDE DEF new
  <2>7. HostLinked(new, log'[t], ledger'[t])
    <3>1. StoreGrown BY <2>4, StoreStepGrows
    <3>2. Grown(log'[t], log[t]) /\ RowsGrown(ledger'[t], ledger[t])
      BY <1>0, <3>1 DEF StoreGrown
    <3>3. AllSound(log'[t]) BY <1>0 DEF StoreInv, Typed, PrefixesSound, AllSound
    <3>4. HostLinked(s, log'[t], ledger'[t]) BY <1>0, <3>2, <3>3, LinkedGrows
    <3>5. SlotsLinked(s, log'[t]) /\ HostBounded(s) BY <3>4 DEF HostLinked
    <3>6. new.revision <= MaxHead BY <2>6, <3>5 DEF HostBounded
    <3> HIDE DEF s
    <3> QED BY <1>0, <2>2, <2>6, <3>5, <3>6, IdleLinked
  <2>8. offer' \in {offer, NoOffer} BY <2>1
  <2> QED BY <2>4, <2>5, <2>6, <2>7, <2>8, Combine
<1> QED BY <1>1, <1>2

\* Passes and the walk.
LEMMA PassLinked ==
  ASSUME BoundaryInv, StoreInv', NEW h \in Hosts,
         \/ PassCommits(h) \/ PassFails(h) \/ LatchDivergence(h) \/ Skip(h) \/ Attempt(h)
         \/ ForgetObservations(h)
  PROVE  BoundaryInv'
<1> DEFINE s == host[h]
           t == host[h].t
<1>0. /\ s \in HostStates /\ HostSound(s) /\ t \in Timelines /\ HostLinked(s, log[t], ledger[t])
      /\ host \in [Hosts -> HostStates] /\ log[t] \in Seq(Events) /\ AllSound(log[t])
      /\ DecisionLinked(s, log[t]) /\ SlotsLinked(s, log[t]) /\ HostBounded(s)
      /\ Len(log[t]) \in Nat
  BY HostFacts
<1>p. host'[h] \in HostStates BY DEF StoreInv, Typed
<1>r. s.revision <= MaxHead BY <1>0 DEF HostBounded
<1>1. CASE PassCommits(h)
  <2> DEFINE none == [k \in Keys |-> NoObservation]
             new == [s EXCEPT !.obs = none, !.faulted = @ \/ Diverged(h)]
  <2>1. /\ WorldStep(t) /\ offer' = offer /\ s.pc = "idle" /\ host' = [host EXCEPT ![h] = new]
    BY <1>0, <1>1 DEF PassCommits, WorldStep
  <2>2. StoreStep BY <1>0, <2>1 DEF StoreStep
  <2>3. new \in HostStates BY <1>0, <1>p, <2>1
  <2>4. /\ new.pc = "idle" /\ new.t = t /\ new.slots = s.slots
        /\ (s.faulted => new.faulted) /\ new.revision = s.revision
    <3> HIDE DEF none, Diverged
    <3> QED BY <1>0, <2>1 DEF HostStates
  <2> HIDE DEF new
  <2>5. HostLinked(new, log'[t], ledger'[t])
    <3>1. StoreGrown BY <2>2, StoreStepGrows
    <3>2. Grown(log'[t], log[t]) /\ RowsGrown(ledger'[t], ledger[t])
      BY <1>0, <3>1 DEF StoreGrown
    <3>3. AllSound(log'[t]) BY <1>0 DEF StoreInv, Typed, PrefixesSound, AllSound
    <3>4. HostLinked(s, log'[t], ledger'[t]) BY <1>0, <3>2, <3>3, LinkedGrows
    <3>5. SlotsLinked(s, log'[t]) /\ HostBounded(s) BY <3>4 DEF HostLinked
    <3> HIDE DEF s
    <3> QED BY <1>0, <1>r, <2>1, <2>3, <2>4, <3>5, IdleLinked
  <2> QED BY <2>1, <2>2, <2>4, <2>5, Combine
<1>2. CASE PassFails(h)
  <2> DEFINE e == Effective(t)
  <2>1. PICK failed \in (SUBSET DOMAIN Declared(e.policy)) \ {{}} :
          host' = [host EXCEPT ![h].pc = "walk", ![h].seen = e, ![h].revision = e.revision,
                               ![h].todo = failed]
    BY <1>2 DEF PassFails
  <2>2. /\ s.pc = "idle" /\ RunsEffective(h, e) /\ UNCHANGED <<store, offer>>
    BY <1>2 DEF PassFails
  <2>3. e = Fold(log[t]) /\ e.revision <= MaxHead BY <1>0, EffectiveFold
  <2> HIDE DEF e
  <2> DEFINE new == [s EXCEPT !.pc = "walk", !.seen = e, !.revision = e.revision,
                              !.todo = failed]
  <2>4. host' = [host EXCEPT ![h] = new] BY <2>1
  <2>5. new \in HostStates BY <1>0, <1>p, <2>4
  <2>6. /\ new.pc = "walk" /\ new.seen = e /\ new.revision = e.revision /\ new.t = t
        /\ new.slots = s.slots /\ new.faulted = s.faulted
    BY <1>0 DEF HostStates
  <2> HIDE DEF new
  <2>7. Swapped(new) = {} BY <2>2, <2>6 DEF Swapped, RunsEffective
  <2>8. RequestLinked(new, ledger[t]) BY <2>6 DEF RequestLinked
  <2>9. HostLinked(new, log[t], ledger[t])
    <3> HIDE DEF s
    <3> QED BY <1>0, <2>2, <2>3, <2>5, <2>6, <2>7, <2>8, StartLinked
  <2> QED BY <2>2, <2>4, <2>6, <2>9, LocalLinked
<1>3. CASE LatchDivergence(h)
  <2> DEFINE new == [s EXCEPT !.faulted = TRUE]
  <2>1. /\ host' = [host EXCEPT ![h] = new] /\ s.pc = "idle" /\ UNCHANGED <<store, offer>>
    BY <1>3 DEF LatchDivergence
  <2>2. new \in HostStates BY <1>0, <1>p, <2>1
  <2>3. /\ new.pc = "idle" /\ new.slots = s.slots /\ new.faulted /\ new.t = t
        /\ new.revision = s.revision
    BY <1>0, <2>1 DEF HostStates
  <2> HIDE DEF new
  <2>4. HostLinked(new, log[t], ledger[t])
    <3> HIDE DEF s
    <3> QED BY <1>0, <1>r, <2>1, <2>2, <2>3, IdleLinked
  <2> QED BY <2>1, <2>3, <2>4, LocalLinked
<1>6. CASE ForgetObservations(h)
  <2> DEFINE none == [k \in Keys |-> NoObservation]
             new == [s EXCEPT !.obs = none]
  <2>1. /\ host' = [host EXCEPT ![h] = new] /\ s.pc = "idle" /\ UNCHANGED <<store, offer>>
    BY <1>6 DEF ForgetObservations
  <2>2. new \in HostStates BY <1>0, <1>p, <2>1
  <2>3. /\ new.pc = "idle" /\ new.slots = s.slots /\ new.faulted = s.faulted /\ new.t = t
        /\ new.revision = s.revision
    <3> HIDE DEF none
    <3> QED BY <1>0, <2>1 DEF HostStates
  <2> HIDE DEF new
  <2>4. HostLinked(new, log[t], ledger[t])
    <3> HIDE DEF s
    <3> QED BY <1>0, <1>r, <2>1, <2>2, <2>3, IdleLinked
  <2> QED BY <2>1, <2>3, <2>4, LocalLinked
\* The observation of the entry in hand changes nothing else.
<1>o. ASSUME s.pc = "walk"
      PROVE  LET k == Min(s.todo)
                 o == Observe(s, k) IN
             /\ k \in s.todo /\ k \in DOMAIN Declared(s.seen.policy) /\ k \in Keys
             /\ s.todo \subseteq DOMAIN Declared(s.seen.policy)
             /\ o \in HostStates /\ o.todo = s.todo /\ o.seen = s.seen /\ o.t = t
             /\ o.slots = s.slots /\ o.faulted = s.faulted /\ o.revision = s.revision
             /\ o.pc = "walk"
             /\ HostLinked(o, log[t], ledger[t])
  <2> DEFINE k == Min(s.todo)
             o == Observe(s, k)
  <2>1. /\ s.todo # {} /\ s.todo \in SUBSET Keys
        /\ s.todo \subseteq DOMAIN Declared(s.seen.policy)
    BY <1>0, <1>o DEF HostSound, HostStates
  <2>2. k \in s.todo BY <2>1, MinOK
  <2>3. k \in DOMAIN Declared(s.seen.policy) /\ k \in Keys BY <2>1, <2>2
  <2> HIDE DEF k, s
  <2>4. o \in HostStates /\ o.todo = s.todo /\ o.seen = s.seen BY <1>0, <2>3, ObserveOK
  <2>5. /\ o.slots = s.slots /\ o.faulted = s.faulted /\ o.revision = s.revision
        /\ o.pc = "walk" /\ o.t = s.t
    BY <1>0, <1>o DEF Observe, HostStates
  <2> HIDE DEF o
  <2>6. RequestLinked(o, ledger[t]) BY <2>5 DEF RequestLinked
  <2>7. s.pc \in Walking /\ o.pc \in Walking BY <1>o, <2>5 DEF Walking
  <2>8. HostLinked(o, log[t], ledger[t]) BY <1>0, <2>4, <2>5, <2>6, <2>7, Relinked
  <2>9. o.t = t BY <2>5 DEF s
  <2> QED BY <2>1, <2>2, <2>3, <2>4, <2>5, <2>8, <2>9 DEF k, o
<1>4. CASE Skip(h)
  <2> DEFINE k == Min(s.todo)
             o == Observe(s, k)
             new == Onward(o, k)
  <2>1. s.pc = "walk" /\ host' = [host EXCEPT ![h] = new] /\ UNCHANGED <<store, offer>>
    BY <1>4 DEF Skip
  <2>2. /\ s.todo \subseteq DOMAIN Declared(s.seen.policy)
        /\ o \in HostStates /\ o.todo = s.todo /\ o.seen = s.seen /\ o.t = t
        /\ o.pc = "walk" /\ HostLinked(o, log[t], ledger[t])
    BY <1>o, <2>1
  <2> HIDE DEF o, k
  <2>3. o.pc \in Walking BY <2>2 DEF Walking
  <2>4. HostLinked(new, log[t], ledger[t]) /\ new.t = t BY <2>2, <2>3, OnwardLinked
  <2> HIDE DEF new
  <2> QED BY <2>1, <2>4, LocalLinked
<1>5. CASE Attempt(h)
  <2> DEFINE k == Min(s.todo)
             o == Observe(s, k)
  <2>1. s.pc = "walk" /\ UNCHANGED <<store, offer>> /\ Len(log[t]) < MaxHead
    BY <1>5 DEF Attempt
  <2>2. PICK i \in s.seen.entries[k].pos + 1 .. Len(Entry(h, k).chain) - 1 :
          host' = [host EXCEPT ![h] = [Observe(host[h], k) EXCEPT
                     !.pc = "commit", !.req = AutomaticRequest(h, k, i, "limit")]]
    BY <1>5 DEF Attempt
  <2>3. /\ k \in s.todo /\ k \in DOMAIN Declared(s.seen.policy)
        /\ o \in HostStates /\ o.todo = s.todo /\ o.seen = s.seen /\ o.t = t
        /\ o.slots = s.slots /\ o.faulted = s.faulted /\ o.revision = s.revision
        /\ o.pc = "walk" /\ HostLinked(o, log[t], ledger[t])
    BY <1>o, <2>1
  <2> DEFINE q == AutomaticRequest(h, k, i, "limit")
             new == [o EXCEPT !.pc = "commit", !.req = q]
  <2>4. host' = [host EXCEPT ![h] = new] BY <2>2
  <2>5. /\ q.key = k /\ q.closing = s.seen.entries[k].tenure /\ q.revision = s.revision
        /\ q.head = Len(log[t])
    BY DEF AutomaticRequest, Request
  <2>6. new \in HostStates BY <1>0, <1>p, <2>4
  <2> HIDE DEF q, o, k
  <2>7. /\ new.pc = "commit" /\ new.req = q /\ new.todo = o.todo /\ new.seen = o.seen
        /\ new.slots = o.slots /\ new.revision = o.revision /\ new.faulted = o.faulted
        /\ new.t = t
    BY <2>3 DEF HostStates
  <2> HIDE DEF new
  <2>8. DecisionLinked(o, log[t]) /\ SlotsLinked(o, log[t]) /\ HostBounded(o)
    BY <2>3 DEF HostLinked
  <2>9. RequestLinked(new, ledger[t])
    <3>1. k \notin Swapped(new)
      <4>1. Swapped(new) = Swapped(s) BY <2>3, <2>7 DEF Swapped
      <4> QED BY <1>0, <2>1, <2>3, <4>1 DEF DecisionLinked
    <3> QED BY <2>3, <2>5, <2>7, <3>1 DEF RequestLinked
  <2>10. o.pc \in Walking /\ new.pc \in Walking BY <2>3, <2>7 DEF Walking
  <2>11. new.req.head < MaxHead BY <2>1, <2>5, <2>7
  <2>12. HostLinked(new, log[t], ledger[t])
    <3> HIDE DEF s
    <3>1. new.todo \subseteq o.todo BY <2>7
    <3> QED BY <2>3, <2>6, <2>7, <2>8, <2>9, <2>10, <2>11, <3>1, Relinked
  <2> QED BY <2>1, <2>4, <2>7, <2>12, LocalLinked
<1> QED BY <1>1, <1>2, <1>3, <1>4, <1>5, <1>6

\* The owner's actions.
LEMMA OwnerLinked ==
  ASSUME BoundaryInv, StoreInv', NEW h \in Hosts,
         OwnerActivate(h) \/ OwnerAttempt(h) \/ OwnerExhausted(h)
  PROVE  BoundaryInv'
<1> DEFINE s == host[h]
           t == host[h].t
<1>0. /\ s \in HostStates /\ HostSound(s) /\ t \in Timelines /\ HostLinked(s, log[t], ledger[t])
      /\ host \in [Hosts -> HostStates] /\ log[t] \in Seq(Events) /\ AllSound(log[t])
      /\ DecisionLinked(s, log[t]) /\ RequestLinked(s, ledger[t]) /\ SlotsLinked(s, log[t])
      /\ HostBounded(s)
  BY HostFacts
<1>p. host'[h] \in HostStates BY DEF StoreInv, Typed
<1>1. CASE OwnerActivate(h)
  <2> DEFINE e == Effective(t)
  <2>a. PICK k \in DOMAIN Declared(e.policy) :
          \E i \in (0 .. Len(Declared(e.policy)[k].chain) - 1) \ {e.entries[k].pos} :
          \E code \in OwnerCode(h, e, k, i) :
            host' = [host EXCEPT ![h].pc = "owner", ![h].seen = e, ![h].revision = e.revision,
                                 ![h].req = Request(e, k, i, code, "owner", e.revision, 0)]
    BY <1>1 DEF OwnerActivate
  <2>b. PICK i \in (0 .. Len(Declared(e.policy)[k].chain) - 1) \ {e.entries[k].pos} :
          \E code \in OwnerCode(h, e, k, i) :
            host' = [host EXCEPT ![h].pc = "owner", ![h].seen = e, ![h].revision = e.revision,
                                 ![h].req = Request(e, k, i, code, "owner", e.revision, 0)]
    BY <2>a
  <2>1. PICK code \in OwnerCode(h, e, k, i) :
          host' = [host EXCEPT ![h].pc = "owner", ![h].seen = e, ![h].revision = e.revision,
                               ![h].req = Request(e, k, i, code, "owner", e.revision, 0)]
    BY <2>b
  <2>2. s.pc = "idle" /\ RunsEffective(h, e) /\ UNCHANGED <<store, offer>>
    BY <1>1 DEF OwnerActivate
  <2>3. e = Fold(log[t]) /\ e.revision <= MaxHead BY <1>0, EffectiveFold
  <2> HIDE DEF e
  <2> DEFINE q == Request(e, k, i, code, "owner", e.revision, 0)
             new == [s EXCEPT !.pc = "owner", !.seen = e, !.revision = e.revision, !.req = q]
  <2>4. host' = [host EXCEPT ![h] = new] BY <2>1
  <2>5. new \in HostStates BY <1>0, <1>p, <2>4
  <2>6. q.key = k /\ q.closing = e.entries[k].tenure /\ q.revision = e.revision
    BY DEF Request
  <2> HIDE DEF q
  <2>7. /\ new.pc = "owner" /\ new.seen = e /\ new.revision = e.revision /\ new.t = t
        /\ new.slots = s.slots /\ new.faulted = s.faulted /\ new.req = q
    BY <1>0 DEF HostStates
  <2> HIDE DEF new
  <2>8. Swapped(new) = {} BY <2>2, <2>7 DEF Swapped, RunsEffective
  <2>9. RequestLinked(new, ledger[t]) BY <2>6, <2>7, <2>8 DEF RequestLinked
  <2>10. HostLinked(new, log[t], ledger[t])
    <3> HIDE DEF s
    <3> QED BY <1>0, <2>2, <2>3, <2>5, <2>7, <2>8, <2>9, StartLinked
  <2> QED BY <2>2, <2>4, <2>7, <2>10, LocalLinked
<1>2. CASE OwnerAttempt(h)
  <2> DEFINE n == Len(log[t])
             new == [s EXCEPT !.pc = "commit", !.req.head = n]
  <2>1. /\ host' = [host EXCEPT ![h] = new] /\ s.pc = "owner" /\ n < MaxHead
        /\ UNCHANGED <<store, offer>>
    BY <1>2 DEF OwnerAttempt
  <2>2. new \in HostStates BY <1>0, <1>p, <2>1
  <2>3. s.req \in Activations BY <1>0, <2>1 DEF HostSound
  <2> HIDE DEF n
  <2>4. new = [s EXCEPT !.pc = "commit", !.req = [s.req EXCEPT !.head = n]]
    BY <1>0 DEF HostStates
  <2> DEFINE q == [s.req EXCEPT !.head = n]
  <2>5. /\ q.key = s.req.key /\ q.closing = s.req.closing /\ q.revision = s.req.revision
        /\ q.head = n
    BY <2>3 DEF Activations
  <2> HIDE DEF q
  <2>6. new = [s EXCEPT !.pc = "commit", !.req = q] BY <2>4 DEF q
  <2> HIDE DEF new
  <2>7. /\ new.pc = "commit" /\ new.req = q /\ new.todo = s.todo /\ new.seen = s.seen
        /\ new.slots = s.slots /\ new.revision = s.revision /\ new.faulted = s.faulted
        /\ new.t = t
    BY <1>0, <2>6 DEF HostStates
  <2>8. Swapped(new) = Swapped(s) BY <2>7 DEF Swapped
  <2>9. RequestLinked(new, ledger[t]) BY <1>0, <2>1, <2>5, <2>7, <2>8 DEF RequestLinked
  <2>10. s.pc \in Walking /\ new.pc \in Walking BY <2>1, <2>7 DEF Walking
  <2>11. new.req.head < MaxHead /\ new.todo \subseteq s.todo BY <2>1, <2>5, <2>7
  <2>12. HostLinked(new, log[t], ledger[t])
    <3> HIDE DEF s
    <3> QED BY <1>0, <2>2, <2>7, <2>9, <2>10, <2>11, Relinked
  <2> QED BY <2>1, <2>7, <2>12, LocalLinked
<1>3. CASE OwnerExhausted(h)
  <2> DEFINE new == Idle(s)
  <2>1. s.pc = "owner" /\ host' = [host EXCEPT ![h] = new] /\ UNCHANGED <<store, offer>>
    BY <1>3 DEF OwnerExhausted
  <2>2. /\ new.pc = "idle" /\ new.slots = s.slots /\ new.faulted = s.faulted /\ new.t = s.t
        /\ new.revision = 0 /\ new \in HostStates
    BY <1>0, IdleOK, IdleFields
  <2> HIDE DEF new
  <2>3. new.revision <= MaxHead BY <2>2, MaxHeadAssumption
  <2>4. s.pc \in Walking BY <2>1 DEF Walking
  <2>5. HostLinked(new, log[t], ledger[t])
    <3> HIDE DEF s
    <3> QED BY <1>0, <2>2, <2>3, <2>4, IdleLinked
  <2> QED BY <2>1, <2>2, <2>5, LocalLinked
<1> QED BY <1>1, <1>2, <1>3

----------------------------------------------------------------------------
(* What a commit or an adoption finds                                      *)

\* An acknowledged call has committed its plan, or found it committed.
LEMMA OkCall ==
  ASSUME NEW h, NEW p, NEW poison, Call(h, p, "ok", poison)
  PROVE  \/ p.kind = "commit" /\ Commit(host[h].t, p)
         \/ p.kind = "replay" /\ UNCHANGED store
BY DEF Call, Transact

\* A replayed row is the ledger's, and of the very request.
LEMMA PlanReplays ==
  ASSUME NEW t, NEW q \in Activations, Plan(t, q).kind = "replay"
  PROVE  Plan(t, q).row \in Occupants(t, q) /\ Plan(t, q).row.request = q
<1>1. q.kind = "activated" BY DEF Activations
<1>2. /\ Occupants(t, q) # {} /\ Plan(t, q).row = CHOOSE r \in Occupants(t, q) : TRUE
      /\ q.kind = "declared" \/ (CHOOSE r \in Occupants(t, q) : TRUE).request = q
  BY DEF Plan, Refusal
<1>3. Plan(t, q).row \in Occupants(t, q) BY <1>2
<1> QED BY <1>1, <1>2, <1>3

\* The row of an activation of the requested tenure names the opening Event.
LEMMA FoundNames ==
  ASSUME NEW events, AllSound(events), NEW r \in Operations, NEW q \in Activations,
         Occupies(r, q), r.request.kind = "activated" => RowNamesEvent(r, events)
  PROVE  /\ r.seq \in Opening(events, q.key, q.closing + 1)
         /\ events[r.seq].to = r.request.to
         /\ r.seq \in 1..Len(events) /\ Len(events) \in Nat
         /\ r.revision <= Len(events) /\ r.revision \in Nat
         /\ q.closing \in Nat /\ q.closing + 1 <= Len(events)
<1>0. events \in Seq(Events) /\ Len(events) \in Nat BY DEF AllSound
<1>1. q.kind = "activated" /\ q.key \in Keys /\ q.closing \in {-1} \cup Nat
  BY DEF Activations
<1>2. r.request.kind = "activated" /\ r.request.key = q.key /\ r.request.closing = q.closing
  BY <1>1 DEF Occupies
<1>3. /\ r.seq \in Opening(events, q.key, q.closing + 1)
      /\ events[r.seq].to = r.request.to /\ r.revision <= r.seq
  BY <1>2 DEF RowNamesEvent
<1>4. r.seq \in 1..Len(events) /\ (q.closing + 1) - 1 \in Nat
  BY <1>0, <1>3, NoneOpensBase
<1>5. q.closing \in Nat BY <1>1, <1>4
<1>6. r.revision \in Nat BY DEF Operations
<1>7. r.revision <= Len(events) BY <1>0, <1>3, <1>4, <1>6
<1>8. q.closing + 1 <= Len(events)
  <2> DEFINE n == r.seq - 1
  <2>1. n \in 0..(Len(events) - 1) /\ n + 1 = r.seq /\ n + 1 \in 0..Len(events)
    BY <1>0, <1>4
  <2>2. Activates(events[n + 1], q.key) /\ events[n + 1].closing = (q.closing + 1) - 1
    BY <1>3, <2>1 DEF Opening, Activates
  <2> HIDE DEF n
  <2>3. TenureAt(events, q.key, n + 1) = Tenure(events[n + 1].closing + 1, events[n + 1].to)
    BY <1>1, <2>1, <2>2, ClosesCurrent
  <2>4. TenureAt(events, q.key, n + 1).tenure \in 0..(n + 1) BY <1>1, <2>1, SoundAt
  <2>5. TenureAt(events, q.key, n + 1).tenure = events[n + 1].closing + 1
    BY <2>3 DEF Tenure
  <2> QED BY <1>0, <1>5, <2>1, <2>2, <2>4, <2>5
<1> QED BY <1>0, <1>3, <1>4, <1>5, <1>6, <1>7, <1>8

\* An activation call is a step of the store, and when it is acknowledged its
\* row is in the ledger.
LEMMA ActivationCall ==
  ASSUME BoundaryInv, StoreInv', NEW h \in Hosts, host[h].pc \in {"commit", "recommit"},
         NEW result, NEW poison, Call(h, Plan(host[h].t, host[h].req), result, poison)
  PROVE  LET t == host[h].t
             q == host[h].req
             r == Plan(host[h].t, host[h].req).row IN
         /\ StoreStep
         /\ HostLinked(host[h], log'[t], ledger'[t])
         /\ AllSound(log'[t]) /\ Len(log'[t]) <= MaxHead
         /\ result = "ok" =>
              /\ r \in Operations /\ r.request = q
              /\ \E i \in DOMAIN ledger'[t] : r = ledger'[t][i] /\ Occupies(ledger'[t][i], q)
              /\ r.request.kind = "activated" => RowNamesEvent(r, log'[t])
<1> DEFINE s == host[h]
           t == host[h].t
           q == host[h].req
           p == Plan(t, q)
<1>0. /\ s \in HostStates /\ HostSound(s) /\ t \in Timelines /\ HostLinked(s, log[t], ledger[t])
      /\ log[t] \in Seq(Events) /\ HostBounded(s) /\ ledger[t] \in Seq(Operations)
  BY HostFacts
<1>1. q \in Activations /\ q.head < MaxHead BY <1>0 DEF HostSound, HostBounded
<1>2. StoreStep
  <2>1. UNCHANGED store \/ (p.kind = "commit" /\ Commit(t, p)) BY CallEffect
  <2>2. ASSUME p.kind = "commit", Commit(t, p) PROVE StoreStep
    <3>1. PlanStep(t, q) BY <1>1, <2>2 DEF PlanStep
    <3> QED BY <1>0, <1>1, <3>1 DEF StoreStep
  <2> QED BY <2>1, <2>2 DEF StoreStep
<1>3. StoreGrown BY <1>2, StoreStepGrows
<1>4. AllSound(log'[t]) /\ Len(log'[t]) <= MaxHead
  BY <1>0, <1>3 DEF StoreInv, Typed, PrefixesSound, AllSound, StoreGrown
<1>5. HostLinked(s, log'[t], ledger'[t])
  <2>1. Grown(log'[t], log[t]) /\ RowsGrown(ledger'[t], ledger[t])
    BY <1>0, <1>3 DEF StoreGrown
  <2> HIDE DEF s
  <2> QED BY <1>0, <1>4, <2>1, LinkedGrows
<1>6. ASSUME result = "ok"
      PROVE  /\ p.row \in Operations /\ p.row.request = q
             /\ \E i \in DOMAIN ledger'[t] :
                  p.row = ledger'[t][i] /\ Occupies(ledger'[t][i], q)
             /\ p.row.request.kind = "activated" => RowNamesEvent(p.row, log'[t])
  <2>1. \/ p.kind = "commit" /\ Commit(t, p)
        \/ p.kind = "replay" /\ UNCHANGED store
    BY <1>6, OkCall
  <2>2. p.row \in Operations
    <3>1. p.kind \in {"commit", "replay"} BY <2>1
    <3> QED BY <1>0, <1>1, <3>1, PlanRow DEF BoundaryInv, StoreInv
  <2>3. p.row.request = q /\ \E i \in DOMAIN ledger'[t] : p.row = ledger'[t][i]
    <3>1. ASSUME p.kind = "commit", Commit(t, p)
          PROVE  p.row.request = q /\ \E i \in DOMAIN ledger'[t] : p.row = ledger'[t][i]
      <4>1. p.row.request = q
        <5>1. p.row = [request |-> q,
                       revision |-> FoldEvent(Fold(log[t]), Plan(t, q).event).revision,
                       seq |-> Len(log[t]) + 1]
          BY <3>1, PlannedRow
        <5> QED BY <5>1
      <4>2. ledger'[t] = Append(ledger[t], p.row)
        <5>1. ledger' = [ledger EXCEPT ![t] = Append(@, p.row)] BY <3>1 DEF Commit
        <5>2. ledger \in [Timelines -> Seq(Operations)] BY DEF BoundaryInv, StoreInv, Typed
        <5> QED BY <1>0, <5>1, <5>2
      <4> HIDE DEF p
      <4>3. /\ Len(ledger[t]) + 1 \in DOMAIN ledger'[t]
            /\ ledger'[t][Len(ledger[t]) + 1] = p.row
        BY <1>0, <2>2, <4>2
      <4> QED BY <4>1, <4>3
    <3>2. ASSUME p.kind = "replay", UNCHANGED store
          PROVE  p.row.request = q /\ \E i \in DOMAIN ledger'[t] : p.row = ledger'[t][i]
      <4>1. p.row \in Occupants(t, q) /\ p.row.request = q BY <1>1, <3>2, PlanReplays
      <4>2. ledger' = ledger BY <3>2 DEF store
      <4> HIDE DEF p
      <4> QED BY <4>1, <4>2 DEF Occupants
    <3> QED BY <2>1, <3>1, <3>2
  <2> HIDE DEF p
  <2>4. Occupies(p.row, q) BY <1>1, <2>3 DEF Occupies, Activations
  <2>5. p.row.request.kind = "activated" => RowNamesEvent(p.row, log'[t])
    BY <1>0, <1>3, <2>3 DEF StoreGrown, LedgerSound
  <2> QED BY <2>2, <2>3, <2>4, <2>5
<1> QED BY <1>2, <1>4, <1>5, <1>6

\* A host that is down is linked to anything.
LEMMA DownLinked ==
  ASSUME NEW events, NEW rows, NEW t \in Timelines
  PROVE  HostLinked([Down EXCEPT !.t = t], events, rows) /\ [Down EXCEPT !.t = t].t = t
<1> DEFINE n == [Down EXCEPT !.t = t]
<1>1. /\ n.pc = "down" /\ n.slots = [k \in Keys |-> NoSlot] /\ n.revision = 0 /\ n.t = t
  BY DEF Down
<1> HIDE DEF n
<1>2. \A k \in Keys : n.slots[k].tenure = -1 /\ n.slots[k].restored = {} BY <1>1 DEF NoSlot
<1>3. HostBounded(n) BY <1>1, <1>2, MaxHeadAssumption DEF HostBounded
<1>4. DecisionLinked(n, events) /\ RequestLinked(n, rows) /\ SlotsLinked(n, events)
  BY <1>1 DEF DecisionLinked, RequestLinked, SlotsLinked
<1> QED BY <1>1, <1>3, <1>4 DEF HostLinked, n

\* Commit and adoption.
LEMMA CommitLinked ==
  ASSUME BoundaryInv, StoreInv', NEW h \in Hosts,
         \/ CommitActivation(h) \/ Adopt(h) \/ AdoptNothing(h) \/ ReportNotCommitted(h)
         \/ SwapFails(h) \/ Crash(h)
  PROVE  BoundaryInv'
<1> DEFINE s == host[h]
           t == host[h].t
           q == host[h].req
<1>0. /\ s \in HostStates /\ HostSound(s) /\ t \in Timelines /\ HostLinked(s, log[t], ledger[t])
      /\ host \in [Hosts -> HostStates] /\ log[t] \in Seq(Events) /\ AllSound(log[t])
      /\ DecisionLinked(s, log[t]) /\ RequestLinked(s, ledger[t]) /\ SlotsLinked(s, log[t])
      /\ HostBounded(s)
  BY HostFacts
<1>p. host'[h] \in HostStates BY DEF StoreInv, Typed
<1>1. CASE CommitActivation(h)
  <2> DEFINE p == Plan(t, q)
  <2>1. PICK result \in Results, poison \in BOOLEAN :
          /\ Call(h, p, result, poison)
          /\ host' = [host EXCEPT ![h].poisoned = poison,
               ![h].found = IF result = "ok" THEN p.row ELSE @,
               ![h].pc = CASE result = "ok" -> "apply"
                           [] result = "indeterminate" -> "adopt"
                           [] result = "refused" -> "refused"]
    BY <1>1 DEF CommitActivation
  <2>2. s.pc = "commit" /\ offer' = offer BY <1>1 DEF CommitActivation
  <2>3. /\ StoreStep /\ HostLinked(s, log'[t], ledger'[t])
        /\ result = "ok" => \E i \in DOMAIN ledger'[t] :
                               p.row = ledger'[t][i] /\ Occupies(ledger'[t][i], q)
    BY <2>1, <2>2, ActivationCall
  <2>4. q.head < MaxHead BY <1>0, <2>2 DEF HostBounded
  <2> HIDE DEF p
  <2> DEFINE found == IF result = "ok" THEN p.row ELSE s.found
             pc == CASE result = "ok" -> "apply"
                     [] result = "indeterminate" -> "adopt"
                     [] result = "refused" -> "refused"
             new == [s EXCEPT !.poisoned = poison, !.found = found, !.pc = pc]
  <2>5. /\ pc \in {"apply", "adopt", "refused"}
        /\ pc = "apply" => result = "ok" /\ found = p.row
    BY DEF Results
  <2>6. host' = [host EXCEPT ![h] = new]
    <3>1. host' = [host EXCEPT ![h].poisoned = poison, ![h].found = found, ![h].pc = pc]
      BY <1>0, <2>1 DEF HostStates
    <3> HIDE DEF found, pc
    <3> QED BY <3>1
  <2> HIDE DEF found, pc
  <2>7. new \in HostStates BY <1>0, <1>p, <2>6
  <2>8. /\ new.pc = pc /\ new.seen = s.seen /\ new.todo = s.todo /\ new.req = q
        /\ new.found = found /\ new.slots = s.slots /\ new.revision = s.revision
        /\ new.faulted = s.faulted /\ new.t = t
    BY <1>0 DEF HostStates
  <2> HIDE DEF new
  <2>9. DecisionLinked(s, log'[t]) /\ SlotsLinked(s, log'[t]) /\ HostBounded(s)
        /\ RequestLinked(s, ledger'[t])
    BY <2>3 DEF HostLinked
  <2>10. RequestLinked(new, ledger'[t])
    <3>1. Swapped(new) = Swapped(s) BY <2>8 DEF Swapped
    <3>2. /\ q.key \in DOMAIN Declared(s.seen.policy) \ Swapped(s)
          /\ q.closing = s.seen.entries[q.key].tenure /\ q.revision = s.revision
      BY <2>2, <2>9 DEF RequestLinked
    <3>3. ASSUME new.pc = "apply"
          PROVE  \E i \in DOMAIN ledger'[t] :
                   new.found = ledger'[t][i] /\ Occupies(ledger'[t][i], new.req)
      BY <2>3, <2>5, <2>8, <3>3
    <3> HIDE DEF s, q
    <3> QED BY <2>8, <3>1, <3>2, <3>3 DEF RequestLinked
  <2>11. s.pc \in Walking /\ new.pc \in Walking BY <2>2, <2>5, <2>8 DEF Walking
  <2>12. new.req.head < MaxHead /\ new.todo \subseteq s.todo BY <2>4, <2>8
  <2>13. HostLinked(new, log'[t], ledger'[t])
    <3> HIDE DEF s
    <3> QED BY <1>0, <2>7, <2>8, <2>9, <2>10, <2>11, <2>12, Relinked
  <2>14. offer' \in {offer, NoOffer} BY <2>2
  <2> QED BY <2>3, <2>6, <2>8, <2>13, <2>14, Combine
<1>2. CASE Adopt(h)
  <2>1. PICK r \in Occupants(t, q) : host' = [host EXCEPT ![h].pc = "apply", ![h].found = r]
    BY <1>2 DEF Adopt
  <2>2. s.pc = "adopt" /\ UNCHANGED <<store, offer>> BY <1>2 DEF Adopt
  <2>3. \E i \in DOMAIN ledger[t] : r = ledger[t][i] /\ Occupies(ledger[t][i], q)
    BY <2>1 DEF Occupants
  <2> DEFINE new == [s EXCEPT !.pc = "apply", !.found = r]
  <2>4. host' = [host EXCEPT ![h] = new] BY <2>1
  <2>5. new \in HostStates BY <1>0, <1>p, <2>4
  <2>6. /\ new.pc = "apply" /\ new.seen = s.seen /\ new.todo = s.todo /\ new.req = q
        /\ new.found = r /\ new.slots = s.slots /\ new.revision = s.revision
        /\ new.faulted = s.faulted /\ new.t = t
    BY <1>0 DEF HostStates
  <2> HIDE DEF new
  <2>7. RequestLinked(new, ledger[t])
    <3>1. Swapped(new) = Swapped(s) BY <2>6 DEF Swapped
    <3>2. /\ q.key \in DOMAIN Declared(s.seen.policy) \ Swapped(s)
          /\ q.closing = s.seen.entries[q.key].tenure /\ q.revision = s.revision
      BY <1>0, <2>2 DEF RequestLinked
    <3> HIDE DEF s, q
    <3> QED BY <2>3, <2>6, <3>1, <3>2 DEF RequestLinked
  <2>8. s.pc \in Walking /\ new.pc \in Walking BY <2>2, <2>6 DEF Walking
  <2>9. new.req.head < MaxHead /\ new.todo \subseteq s.todo
    BY <1>0, <2>2, <2>6 DEF HostBounded
  <2>10. HostLinked(new, log[t], ledger[t])
    <3> HIDE DEF s
    <3> QED BY <1>0, <2>5, <2>6, <2>7, <2>8, <2>9, Relinked
  <2> QED BY <2>2, <2>4, <2>6, <2>10, LocalLinked
<1>3. CASE AdoptNothing(h)
  <2> DEFINE new == [s EXCEPT !.pc = "refused"]
  <2>1. host' = [host EXCEPT ![h] = new] /\ s.pc = "adopt" /\ UNCHANGED <<store, offer>>
    BY <1>3 DEF AdoptNothing
  <2>2. new \in HostStates BY <1>0, <1>p, <2>1
  <2>3. /\ new.pc = "refused" /\ new.seen = s.seen /\ new.todo = s.todo /\ new.req = q
        /\ new.slots = s.slots /\ new.revision = s.revision /\ new.faulted = s.faulted
        /\ new.t = t
    BY <1>0 DEF HostStates
  <2> HIDE DEF new
  <2>4. RequestLinked(new, ledger[t])
    <3>1. Swapped(new) = Swapped(s) BY <2>3 DEF Swapped
    <3> QED BY <1>0, <2>1, <2>3, <3>1 DEF RequestLinked
  <2>5. s.pc \in Walking /\ new.pc \in Walking BY <2>1, <2>3 DEF Walking
  <2>6. new.todo \subseteq s.todo /\ new.pc \notin {"commit", "adopt", "apply", "recommit"}
    BY <2>3
  <2>7. HostLinked(new, log[t], ledger[t])
    <3> HIDE DEF s
    <3> QED BY <1>0, <2>2, <2>3, <2>4, <2>5, <2>6, Relinked
  <2> QED BY <2>1, <2>3, <2>7, LocalLinked
<1>4. CASE ReportNotCommitted(h)
  <2> DEFINE new == Onward(s, q.key)
  <2>1. host' = [host EXCEPT ![h] = new] /\ s.pc = "refused" /\ UNCHANGED <<store, offer>>
    BY <1>4 DEF ReportNotCommitted
  <2>2. s.todo \subseteq DOMAIN Declared(s.seen.policy) /\ s.pc \in Walking
    BY <1>0, <2>1 DEF HostSound, Walking
  <2>3. HostLinked(new, log[t], ledger[t]) /\ new.t = t
    <3>1. HostLinked(new, log[t], ledger[t]) /\ new.t = s.t BY <1>0, <2>2, OnwardLinked
    <3> QED BY <3>1
  <2> HIDE DEF new
  <2> QED BY <2>1, <2>3, LocalLinked
<1>5. CASE SwapFails(h)
  <2>1. PICK slot \in {s.slots[q.key], [impl |-> q.to, tenure |-> -1, restored |-> {}]} :
          host' = [host EXCEPT ![h] = [Idle(host[h]) EXCEPT !.faulted = TRUE,
                                          !.slots[q.key] = slot]]
    BY <1>5 DEF SwapFails
  <2>2. s.pc = "apply" /\ UNCHANGED <<store, offer>> BY <1>5 DEF SwapFails
  <2>3. q.key \in Keys
    <3>1. q \in Activations BY <1>0, <2>2 DEF HostSound
    <3> QED BY <3>1 DEF Activations
  <2> DEFINE key == q.key
             on == Idle(s)
             new == [on EXCEPT !.faulted = TRUE, !.slots[key] = slot]
  <2>4. host' = [host EXCEPT ![h] = new] BY <2>1
  <2>5. /\ on \in HostStates /\ on.pc = "idle" /\ on.slots = s.slots /\ on.t = t
        /\ on.revision = 0
    BY <1>0, IdleOK, IdleFields
  <2>6. slot.tenure <= MaxHead /\ slot.restored \subseteq 1..MaxHead
    BY <1>0, <2>1, <2>3, MaxHeadAssumption DEF HostBounded
  <2> HIDE DEF on, key
  <2>7. new = [on EXCEPT !.faulted = TRUE, !.slots = [on.slots EXCEPT ![key] = slot]]
    BY <2>5 DEF HostStates
  <2> HIDE DEF new
  <2>8. /\ new.pc = "idle" /\ new.slots = [on.slots EXCEPT ![key] = slot] /\ new.faulted
        /\ new.t = t /\ new.revision = 0
    BY <2>5, <2>7 DEF HostStates
  <2>9. HostBounded(new)
    <3>1. on.slots \in [Keys -> [impl : {-1} \cup Impls, tenure : {-1} \cup Nat,
                                restored : SUBSET Nat]]
      BY <2>5 DEF HostStates
    <3>2. \A k \in Keys : new.slots[k] = slot \/ new.slots[k] = s.slots[k]
      BY <2>5, <2>8, <3>1
    <3>3. \A k \in Keys : s.slots[k].tenure <= MaxHead /\ s.slots[k].restored \subseteq 1..MaxHead
      BY <1>0 DEF HostBounded
    <3>4. \A k \in Keys : new.slots[k].tenure <= MaxHead
                          /\ new.slots[k].restored \subseteq 1..MaxHead
      <4> HIDE DEF s
      <4> QED BY <2>6, <3>2, <3>3
    <3> QED BY <2>8, <3>4, MaxHeadAssumption DEF HostBounded
  <2>10. HostLinked(new, log[t], ledger[t])
    BY <2>8, <2>9 DEF HostLinked, DecisionLinked, RequestLinked, SlotsLinked
  <2> QED BY <2>2, <2>4, <2>8, <2>10, LocalLinked
<1>6. CASE Crash(h)
  <2> DEFINE new == [Down EXCEPT !.t = t]
  <2>1. host' = [host EXCEPT ![h] = new] /\ UNCHANGED <<store, offer>> BY <1>6 DEF Crash
  <2>2. HostLinked(new, log[t], ledger[t]) /\ new.t = t BY <1>0, DownLinked
  <2> HIDE DEF new
  <2> QED BY <2>1, <2>2, LocalLinked
<1> QED BY <1>1, <1>2, <1>3, <1>4, <1>5, <1>6

\* The swap installs what the found Event opened.
LEMMA SwapLinked ==
  ASSUME BoundaryInv, StoreInv', NEW h \in Hosts, Swap(h)
  PROVE  BoundaryInv'
<1> DEFINE s == host[h]
           t == host[h].t
           q == host[h].req
           r == host[h].found
           restored == (1..q.head) \cup {r.seq}
           on == Onward(s, q.key)
           slot == [impl |-> q.to, tenure |-> q.closing + 1, restored |-> restored]
           new == [on EXCEPT !.slots[q.key] = slot, !.obs[q.key] = NoObservation,
                             !.revision = r.revision]
<1>0. /\ s \in HostStates /\ HostSound(s) /\ t \in Timelines /\ HostLinked(s, log[t], ledger[t])
      /\ host \in [Hosts -> HostStates] /\ log[t] \in Seq(Events) /\ AllSound(log[t])
      /\ RequestLinked(s, ledger[t]) /\ HostBounded(s) /\ ledger[t] \in Seq(Operations)
      /\ Len(log[t]) \in Nat /\ Len(log[t]) <= MaxHead
  BY HostFacts
<1>1. /\ s.pc = "apply" /\ EventMatches(log[t][r.seq], q) /\ Contiguous(q.head, r.seq)
      /\ host' = [host EXCEPT ![h] = new] /\ UNCHANGED <<store, offer>>
  BY DEF Swap
<1>2. /\ q \in Activations /\ s.todo \subseteq DOMAIN Declared(s.seen.policy)
      /\ s.pc \in Walking /\ q.head < MaxHead
  BY <1>0, <1>1 DEF HostSound, Walking, HostBounded
<1>3. q.key \in Keys /\ q.head \in Nat BY <1>2 DEF Activations
<1>4. q.closing = s.seen.entries[q.key].tenure BY <1>0, <1>1 DEF RequestLinked
<1>5. /\ r.seq \in Opening(log[t], q.key, q.closing + 1) /\ r.seq \in 1..Len(log[t])
      /\ r.revision <= Len(log[t]) /\ r.revision \in Nat
      /\ q.closing \in Nat /\ q.closing + 1 <= Len(log[t])
  <2>1. PICK i \in DOMAIN ledger[t] : r = ledger[t][i] /\ Occupies(ledger[t][i], q)
    BY <1>0, <1>1 DEF RequestLinked
  <2>2. r \in Operations BY <1>0, <2>1
  <2>3. r.request.kind = "activated" => RowNamesEvent(r, log[t])
    BY <1>0, <2>1 DEF BoundaryInv, LedgerSound
  <2> HIDE DEF r, q, t
  <2> QED BY <1>0, <1>2, <2>1, <2>2, <2>3, FoundNames
<1>6. log[t][r.seq].to = q.to BY <1>1 DEF EventMatches
<1>7. /\ on \in HostStates /\ HostLinked(on, log[t], ledger[t]) /\ on.t = t
      /\ on.slots = s.slots /\ on.pc \in {"walk", "idle", "compose"} /\ on.pc # "compose"
      /\ on.pc # "idle" => on.seen = s.seen /\ q.key \notin on.todo
  <2>1. on.t = s.t /\ on \in HostStates /\ HostLinked(on, log[t], ledger[t])
        /\ on.slots = s.slots
        /\ \/ on.pc = "idle"
           \/ on.pc = "walk" /\ on.seen = s.seen /\ q.key \notin on.todo
    BY <1>0, <1>2, OnwardLinked
  <2> QED BY <2>1
<1>8. /\ restored \subseteq 1..MaxHead /\ restored = 1..Cardinality(restored)
      /\ Opening(log[t], q.key, q.closing + 1) \subseteq restored
  <2>1. restored \subseteq 1..MaxHead BY <1>0, <1>2, <1>3, <1>5, MaxHeadAssumption
  <2>2. restored = 1..Cardinality(restored)
    <3>1. r.seq = q.head + 1 BY <1>1 DEF Contiguous
    <3>2. restored = 1..r.seq BY <1>3, <3>1
    <3>3. Cardinality(1..r.seq) = r.seq BY <1>3, <3>1, FS_Interval
    <3> QED BY <3>2, <3>3
  <2>3. \A i \in Opening(log[t], q.key, q.closing + 1) : i = r.seq
    BY <1>0, <1>3, <1>5, OpeningUnique
  <2> QED BY <2>1, <2>2, <2>3
<1>9. Named(log[t], q.key, q.closing + 1, q.to) BY <1>5, <1>6 DEF Named
<1>10. new \in HostStates BY <1>0, <1>1 DEF StoreInv, Typed
<1>11. r.revision <= MaxHead /\ q.closing + 1 <= MaxHead /\ q.closing + 1 # 0
  BY <1>0, <1>5, MaxHeadAssumption
<1> DEFINE key == q.key
           n == q.closing + 1
<1>12. slot.impl = q.to /\ slot.tenure = n /\ slot.restored = restored OBVIOUS
<1> HIDE DEF restored, on, slot, key, n
<1>13. new = [on EXCEPT !.slots = [on.slots EXCEPT ![key] = slot],
                        !.obs = [on.obs EXCEPT ![key] = NoObservation],
                        !.revision = r.revision]
  BY <1>7 DEF HostStates, key
<1> HIDE DEF new, r, q, s
<1>14. /\ new.pc = on.pc /\ new.seen = on.seen /\ new.todo = on.todo /\ new.t = on.t
       /\ new.faulted = on.faulted /\ new.revision = r.revision
       /\ new.slots = [on.slots EXCEPT ![key] = slot]
  BY <1>7, <1>13 DEF HostStates
<1>15. new.slots[key] = slot /\ \A x \in Keys \ {key} : new.slots[x] = on.slots[x]
  <2>1. on.slots \in [Keys -> [impl : {-1} \cup Impls, tenure : {-1} \cup Nat,
                              restored : SUBSET Nat]]
    BY <1>7 DEF HostStates
  <2> QED BY <1>3, <1>14, <2>1 DEF key
<1>16. HostLinked(new, log[t], ledger[t])
  <2>1. key \in Keys /\ new.slots[key].tenure = n /\ new.slots[key].impl = q.to
        /\ new.slots[key].restored = restored
    BY <1>3, <1>12, <1>15 DEF key
  <2>2. on.pc # "idle" => key \notin on.todo /\ new.slots[key].tenure = on.seen.entries[key].tenure + 1
    BY <1>4, <1>7, <2>1 DEF key, n
  <2>3. /\ new.slots[key].tenure # 0 /\ new.slots[key].tenure <= MaxHead
        /\ new.revision <= MaxHead
        /\ Named(log[t], key, new.slots[key].tenure, new.slots[key].impl)
        /\ new.slots[key].restored \subseteq 1..MaxHead
        /\ new.slots[key].restored = 1..Cardinality(new.slots[key].restored)
        /\ Opening(log[t], key, new.slots[key].tenure) \subseteq new.slots[key].restored
    BY <1>8, <1>9, <1>11, <1>14, <2>1 DEF key, n
  <2> QED BY <1>7, <1>10, <1>14, <1>15, <2>1, <2>2, <2>3, InstallLinked
<1>17. new.t = t BY <1>7, <1>14
<1> QED BY <1>1, <1>16, <1>17, LocalLinked

\* Tenure 0 is the composer's base.
LEMMA BaseTenure ==
  ASSUME NEW events, AllSound(events), NEW k \in Keys, NEW n \in 0..Len(events),
         TenureAt(events, k, n).tenure = 0
  PROVE  TenureAt(events, k, n).impl = Base
<1>0. events \in Seq(Events) /\ Len(events) \in Nat BY DEF AllSound
<1> DEFINE S == {i \in 0..Len(events) :
                   TenureAt(events, k, i).tenure = 0 => TenureAt(events, k, i).impl = Base}
<1>1. 0 \in S
  <2>1. SubSeq(events, 1, 0) = <<>> BY <1>0
  <2>2. TenureAt(events, k, 0) = Tenure(0, Base) BY <2>1, ClosureEmpty DEF TenureAt
  <2>3. Tenure(0, Base).impl = Base BY DEF Tenure
  <2> QED BY <1>0, <2>2, <2>3
<1>2. ASSUME NEW i \in 0..(Len(events) - 1), i \in S PROVE i + 1 \in S
  <2>1. i \in 0..Len(events) /\ i + 1 \in 0..Len(events) BY <1>0
  <2>2. CASE Activates(events[i + 1], k)
    <3>1. /\ TenureAt(events, k, i).tenure = events[i + 1].closing
          /\ TenureAt(events, k, i + 1) = Tenure(events[i + 1].closing + 1, events[i + 1].to)
      BY <2>2, ClosesCurrent
    <3>2. events[i + 1].closing \in Nat BY <2>1, <3>1, SoundAt
    <3>3. TenureAt(events, k, i + 1).tenure = events[i + 1].closing + 1
      BY <3>1 DEF Tenure
    <3>4. TenureAt(events, k, i + 1).tenure # 0 BY <3>2, <3>3
    <3> QED BY <2>1, <3>4
  <2>3. CASE ~Activates(events[i + 1], k)
    <3>1. TenureAt(events, k, i + 1) = TenureAt(events, k, i) BY <1>0, <2>3, TenureKept
    <3> QED BY <1>2, <2>1, <3>1
  <2> QED BY <2>2, <2>3
<1>3. \A i \in 0..Len(events) : i \in S
  <2>1. \A i \in 0..(Len(events) - 1) : i \in S => i + 1 \in S BY <1>2
  <2>2. 0 \in Nat OBVIOUS
  <2> HIDE DEF S
  <2> QED BY <1>0, <1>1, <2>1, <2>2, PlaceInduction
<1> QED BY <1>3

\* The latest tenure of a slot, read from the whole log.
LEMMA LatestTenure ==
  ASSUME NEW events, AllSound(events), NEW k \in Keys
  PROVE  LET r == Closure(events, k) IN
         /\ r.tenure \in 0..Len(events)
         /\ IF r.tenure = 0 THEN r.impl = Base ELSE Named(events, k, r.tenure, r.impl)
<1> DEFINE L == Len(events)
           r == Closure(events, k)
<1>0. events \in Seq(Events) /\ L \in Nat /\ L \in 0..L BY DEF AllSound
<1>1. r = TenureAt(events, k, L)
  <2>1. SubSeq(events, 1, L) = events BY <1>0, SubSeqFull
  <2> QED BY <2>1 DEF TenureAt
<1>2. r.tenure \in 0..L BY <1>0, <1>1, SoundAt
<1>3. CASE r.tenure = 0 BY <1>0, <1>1, <1>2, <1>3, BaseTenure
<1>4. CASE r.tenure # 0
  <2>1. PICK i \in 1..L : /\ Activates(events[i], k)
                          /\ events[i].closing = r.tenure - 1 /\ events[i].to = r.impl
    BY <1>0, <1>1, <1>4, ClosureOpened
  <2>2. i \in Opening(events, k, r.tenure) BY <1>0, <2>1 DEF Opening, Activates
  <2> QED BY <1>2, <1>4, <2>1, <2>2 DEF Named
<1> QED BY <1>3, <1>4

\* Restart up to the last slot.
LEMMA ComposeLinked ==
  ASSUME BoundaryInv, StoreInv', NEW h \in Hosts,
         \/ \E t \in Timelines : Compose(h, t)
         \/ ResolveSlots(h) \/ ComposeSlot(h) \/ AttemptRestart(h)
  PROVE  BoundaryInv'
<1> DEFINE s == host[h]
           t == host[h].t
<1>0. /\ s \in HostStates /\ HostSound(s) /\ t \in Timelines /\ HostLinked(s, log[t], ledger[t])
      /\ host \in [Hosts -> HostStates] /\ log[t] \in Seq(Events) /\ AllSound(log[t])
      /\ DecisionLinked(s, log[t]) /\ SlotsLinked(s, log[t]) /\ HostBounded(s)
      /\ Len(log[t]) \in Nat /\ Len(log[t]) <= MaxHead
  BY HostFacts
<1>p. host'[h] \in HostStates BY DEF StoreInv, Typed
<1>1. ASSUME NEW u \in Timelines, Compose(h, u) PROVE BoundaryInv'
  <2> DEFINE e == Effective(u)
             new == [Down EXCEPT !.pc = "derived", !.t = u, !.seen = e, !.revision = e.revision]
  <2>1. host' = [host EXCEPT ![h] = new] /\ UNCHANGED <<store, offer>> BY <1>1 DEF Compose
  <2>2. e = Fold(log[u]) /\ e.revision <= MaxHead BY EffectiveFold
  <2>3. log[u] \in Seq(Events) BY DEF BoundaryInv, StoreInv, Typed
  <2>4. Len(log[u]) \in 0..Len(log[u]) /\ SubSeq(log[u], 1, Len(log[u])) = log[u]
    BY <2>3, SubSeqFull
  <2> HIDE DEF e
  <2>5. /\ new.pc = "derived" /\ new.t = u /\ new.seen = e /\ new.revision = e.revision
        /\ new.slots = [k \in Keys |-> NoSlot]
    BY DEF Down
  <2> HIDE DEF new
  <2>6. \A k \in Keys : new.slots[k].tenure = -1 /\ new.slots[k].restored = {}
    BY <2>5 DEF NoSlot
  <2>7. HostBounded(new) BY <2>2, <2>5, <2>6, MaxHeadAssumption DEF HostBounded
  <2>8. DecisionLinked(new, log[u]) BY <2>2, <2>4, <2>5 DEF DecisionLinked
  <2>9. HostLinked(new, log[u], ledger[u])
    BY <2>5, <2>7, <2>8 DEF HostLinked, RequestLinked, SlotsLinked
  <2> QED BY <2>1, <2>5, <2>9, LocalLinked
<1>2. CASE ResolveSlots(h)
  <2> DEFINE latest == [k \in Keys |-> Closure(log[t], k)]
             slots == [k \in Keys |-> [impl |-> latest[k].impl, tenure |-> latest[k].tenure,
                                       restored |-> {}]]
             new == [s EXCEPT !.pc = "compose", !.todo = Keys, !.slots = slots]
  <2>1. /\ host' = [host EXCEPT ![h] = new] /\ UNCHANGED <<store, offer>> /\ s.pc = "derived"
        /\ \A k \in DOMAIN Declared(s.seen.policy) : s.seen.entries[k].impl = latest[k].impl
    BY <1>2 DEF ResolveSlots
  <2>2. new \in HostStates BY <1>0, <1>p, <2>1
  <2>3. \A k \in Keys : /\ slots[k].impl = Closure(log[t], k).impl
                        /\ slots[k].tenure = Closure(log[t], k).tenure
                        /\ slots[k].restored = {} /\ slots[k].impl = latest[k].impl
    OBVIOUS
  <2> HIDE DEF slots, latest
  <2>4. /\ new.pc = "compose" /\ new.seen = s.seen /\ new.slots = slots /\ new.t = t
        /\ new.revision = s.revision
    BY <1>0 DEF HostStates
  <2> HIDE DEF new
  <2>5. Swapped(new) = {}
    <3>1. DOMAIN Declared(s.seen.policy) \subseteq Keys BY <1>0, SwappedKeys
    <3> QED BY <2>1, <2>3, <2>4, <3>1 DEF Swapped
  <2>6. DecisionLinked(new, log[t]) BY <1>0, <2>1, <2>4, <2>5 DEF DecisionLinked
  <2>7. ASSUME NEW k \in Keys
        PROVE  /\ slots[k].tenure \in 0..Len(log[t])
               /\ IF slots[k].tenure = 0 THEN slots[k].impl = Base
                  ELSE Named(log[t], k, slots[k].tenure, slots[k].impl)
    <3>1. /\ Closure(log[t], k).tenure \in 0..Len(log[t])
          /\ IF Closure(log[t], k).tenure = 0 THEN Closure(log[t], k).impl = Base
             ELSE Named(log[t], k, Closure(log[t], k).tenure, Closure(log[t], k).impl)
      BY <1>0, LatestTenure
    <3>2. slots[k].impl = Closure(log[t], k).impl /\ slots[k].tenure = Closure(log[t], k).tenure
      BY <2>3
    <3> QED BY <3>1, <3>2
  <2>8. SlotsLinked(new, log[t]) BY <2>4, <2>7 DEF SlotsLinked
  <2>9. HostBounded(new)
    <3>1. \A k \in Keys : slots[k].tenure <= MaxHead BY <1>0, <2>7, MaxHeadAssumption
    <3>2. s.revision <= MaxHead BY <1>0 DEF HostBounded
    <3> QED BY <2>3, <2>4, <3>1, <3>2 DEF HostBounded
  <2>10. HostLinked(new, log[t], ledger[t])
    BY <2>4, <2>6, <2>8, <2>9 DEF HostLinked, RequestLinked
  <2> QED BY <2>1, <2>4, <2>10, LocalLinked
<1>3. CASE ComposeSlot(h)
  <2> DEFINE k == Min(s.todo)
             new == [s EXCEPT !.todo = s.todo \ {k}]
  <2>1. /\ host' = [host EXCEPT ![h] = new] /\ s.pc = "compose" /\ UNCHANGED <<store, offer>>
    BY <1>0, <1>3 DEF ComposeSlot
  <2>2. new \in HostStates BY <1>0, <1>p, <2>1
  <2> HIDE DEF k
  <2>3. /\ new.pc = "compose" /\ new.seen = s.seen /\ new.slots = s.slots /\ new.t = t
        /\ new.revision = s.revision /\ new.faulted = s.faulted /\ new.todo \subseteq s.todo
    BY <1>0, <2>1 DEF HostStates
  <2> HIDE DEF new
  <2>4. RequestLinked(new, ledger[t]) BY <2>3 DEF RequestLinked
  <2>5. s.pc \in Composing /\ new.pc \in Composing BY <2>1, <2>3 DEF Composing
  <2>6. HostLinked(new, log[t], ledger[t])
    <3> HIDE DEF s
    <3> QED BY <1>0, <2>2, <2>3, <2>4, <2>5, Relinked
  <2> QED BY <2>1, <2>3, <2>6, LocalLinked
<1>4. CASE AttemptRestart(h)
  <2> DEFINE k == Min(s.todo)
  <2>1. /\ k \in DOMAIN Declared(s.seen.policy) /\ UNCHANGED <<store, offer>>
        /\ s.pc = "compose" /\ s.todo # {} /\ Len(log[t]) < MaxHead
    BY <1>4 DEF AttemptRestart
  <2>2. PICK i \in s.seen.entries[k].pos + 1 .. Len(Entry(h, k).chain) - 1 :
          host' = [host EXCEPT ![h].pc = "recommit",
                               ![h].req = AutomaticRequest(h, k, i, "missing")]
    BY <1>4 DEF AttemptRestart
  <2>3. k \in s.todo
    <3>1. s.todo \in SUBSET Keys BY <1>0 DEF HostStates
    <3> QED BY <2>1, <3>1, MinOK
  <2> DEFINE q == AutomaticRequest(h, k, i, "missing")
             new == [s EXCEPT !.pc = "recommit", !.req = q]
  <2>4. host' = [host EXCEPT ![h] = new] BY <2>2
  <2>5. /\ q.key = k /\ q.closing = s.seen.entries[k].tenure /\ q.revision = s.revision
        /\ q.head = Len(log[t])
    BY DEF AutomaticRequest, Request
  <2>6. new \in HostStates BY <1>0, <1>p, <2>4
  <2> HIDE DEF q, k
  <2>7. /\ new.pc = "recommit" /\ new.req = q /\ new.todo = s.todo /\ new.seen = s.seen
        /\ new.slots = s.slots /\ new.revision = s.revision /\ new.faulted = s.faulted
        /\ new.t = t
    BY <1>0 DEF HostStates
  <2> HIDE DEF new
  <2>8. RequestLinked(new, ledger[t])
    <3>1. k \notin Swapped(new)
      <4>1. Swapped(new) = Swapped(s) BY <2>7 DEF Swapped
      <4> QED BY <1>0, <2>1, <2>3, <4>1 DEF DecisionLinked
    <3> QED BY <2>1, <2>5, <2>7, <3>1 DEF RequestLinked
  <2>9. s.pc \in Composing /\ new.pc \in Composing BY <2>1, <2>7 DEF Composing
  <2>10. new.req.head < MaxHead /\ new.todo \subseteq s.todo BY <2>1, <2>5, <2>7
  <2>11. HostLinked(new, log[t], ledger[t])
    <3> HIDE DEF s
    <3> QED BY <1>0, <2>6, <2>7, <2>8, <2>9, <2>10, Relinked
  <2> QED BY <2>1, <2>4, <2>7, <2>11, LocalLinked
<1> QED BY <1>1, <1>2, <1>3, <1>4

\* The activation of a restart, and its end.
LEMMA RestartLinked ==
  ASSUME BoundaryInv, StoreInv', NEW h \in Hosts, CommitRestart(h) \/ Restored(h)
  PROVE  BoundaryInv'
<1> DEFINE s == host[h]
           t == host[h].t
<1>0. /\ s \in HostStates /\ HostSound(s) /\ t \in Timelines /\ HostLinked(s, log[t], ledger[t])
      /\ host \in [Hosts -> HostStates] /\ log[t] \in Seq(Events) /\ AllSound(log[t])
      /\ RequestLinked(s, ledger[t]) /\ SlotsLinked(s, log[t]) /\ HostBounded(s)
      /\ Len(log[t]) \in Nat /\ Len(log[t]) <= MaxHead
  BY HostFacts
<1>p. host'[h] \in HostStates BY DEF StoreInv, Typed
<1>1. CASE CommitRestart(h)
  <2> DEFINE q == host[h].req
             p == Plan(t, q)
             r == p.row
             slot == [impl |-> q.to, tenure |-> q.closing + 1, restored |-> {}]
             down == [Down EXCEPT !.t = t]
             on == [s EXCEPT !.pc = "compose", !.todo = s.todo \ {q.key}, !.req = NoRequest]
             new == [on EXCEPT !.revision = r.revision,
                               !.slots = [s.slots EXCEPT ![q.key] = slot]]
  <2>1. PICK result \in Results, poison \in BOOLEAN :
          /\ Call(h, p, result, poison)
          /\ \/ host' = [host EXCEPT ![h] = down]
             \/ /\ result = "ok"
                /\ host' = [host EXCEPT ![h].pc = "compose", ![h].todo = @ \ {q.key},
                     ![h].req = NoRequest, ![h].revision = p.row.revision,
                     ![h].slots[q.key] = slot]
    BY <1>1 DEF CommitRestart
  <2>2. s.pc = "recommit" /\ offer' = offer BY <1>1 DEF CommitRestart
  <2>3. q \in Activations BY <1>0, <2>2 DEF HostSound
  <2>4. /\ StoreStep /\ HostLinked(s, log'[t], ledger'[t])
        /\ AllSound(log'[t]) /\ Len(log'[t]) <= MaxHead
        /\ result = "ok" =>
             /\ r \in Operations /\ r.request = q
             /\ \E i \in DOMAIN ledger'[t] : r = ledger'[t][i] /\ Occupies(ledger'[t][i], q)
             /\ r.request.kind = "activated" => RowNamesEvent(r, log'[t])
    BY <2>1, <2>2, ActivationCall
  <2>5. offer' \in {offer, NoOffer} BY <2>2
  <2>6. ASSUME host' = [host EXCEPT ![h] = down] PROVE BoundaryInv'
    <3>1. HostLinked(down, log'[t], ledger'[t]) /\ down.t = t BY <1>0, DownLinked
    <3> HIDE DEF down
    <3> QED BY <2>4, <2>5, <2>6, <3>1, Combine
  <2>7. ASSUME result = "ok", host' = [host EXCEPT ![h] = new] PROVE BoundaryInv'
    <3>1. /\ r.seq \in Opening(log'[t], q.key, q.closing + 1)
          /\ log'[t][r.seq].to = r.request.to
          /\ Len(log'[t]) \in Nat /\ r.revision <= Len(log'[t]) /\ r.revision \in Nat
          /\ q.closing \in Nat /\ q.closing + 1 <= Len(log'[t])
      <4>1. Occupies(r, q) BY <2>4, <2>7
      <4> HIDE DEF r, q, p
      <4> QED BY <2>3, <2>4, <2>7, <4>1, FoundNames
    <3>2. Named(log'[t], q.key, q.closing + 1, q.to) BY <2>4, <2>7, <3>1 DEF Named
    <3>3. q.key \in Keys BY <2>3 DEF Activations
    <3>4. q.closing = s.seen.entries[q.key].tenure BY <1>0, <2>2 DEF RequestLinked
    <3>5. new \in HostStates BY <1>0, <1>p, <2>7
    <3>6. r.revision <= MaxHead /\ q.closing + 1 <= MaxHead /\ q.closing + 1 # 0
      BY <2>4, <3>1, MaxHeadAssumption
    <3> DEFINE key == q.key
               n == q.closing + 1
    <3>7. slot.impl = q.to /\ slot.tenure = n /\ slot.restored = {} OBVIOUS
    <3>8. new = [on EXCEPT !.revision = r.revision, !.slots = [s.slots EXCEPT ![key] = slot]]
          /\ on = [s EXCEPT !.pc = "compose", !.todo = s.todo \ {key}, !.req = NoRequest]
      OBVIOUS
    <3> HIDE DEF slot, key, n, r, p, on, new
    <3>9. /\ on \in HostStates /\ on.pc = "compose" /\ on.todo = s.todo \ {key}
          /\ on.seen = s.seen /\ on.slots = s.slots /\ on.revision = s.revision
          /\ on.faulted = s.faulted /\ on.t = t
      BY <1>0, <3>8 DEF HostStates
    <3>10. HostLinked(on, log'[t], ledger'[t])
      <4>1. DecisionLinked(s, log'[t]) /\ SlotsLinked(s, log'[t]) /\ HostBounded(s)
        BY <2>4 DEF HostLinked
      <4>2. RequestLinked(on, ledger'[t]) BY <3>9 DEF RequestLinked
      <4>3. s.pc \in Composing /\ on.pc \in Composing BY <2>2, <3>9 DEF Composing
      <4>4. on.todo \subseteq s.todo /\ on.pc \notin {"commit", "adopt", "apply", "recommit"}
        BY <3>9
      <4> HIDE DEF s
      <4> QED BY <1>0, <3>9, <4>1, <4>2, <4>3, <4>4, Relinked
    <3>11. /\ new.pc = "compose" /\ new.todo = on.todo /\ new.seen = on.seen
           /\ new.faulted = on.faulted /\ new.t = t /\ new.revision = r.revision
           /\ new.slots = [s.slots EXCEPT ![key] = slot]
      BY <3>8, <3>9 DEF HostStates
    <3>12. new.slots[key] = slot /\ \A x \in Keys \ {key} : new.slots[x] = on.slots[x]
      <4>1. s.slots \in [Keys -> [impl : {-1} \cup Impls, tenure : {-1} \cup Nat,
                                 restored : SUBSET Nat]]
        BY <1>0 DEF HostStates
      <4> QED BY <3>3, <3>9, <3>11, <4>1 DEF key
    <3>13. HostLinked(new, log'[t], ledger'[t])
      <4>1. key \in Keys /\ new.slots[key].tenure = n /\ new.slots[key].impl = q.to
            /\ new.slots[key].restored = {}
        BY <3>3, <3>7, <3>12 DEF key
      <4>2. key \notin on.todo /\ new.slots[key].tenure = on.seen.entries[key].tenure + 1
        BY <3>4, <3>9, <4>1 DEF key, n
      <4>3. /\ new.slots[key].tenure # 0 /\ new.slots[key].tenure <= MaxHead
            /\ new.revision <= MaxHead
            /\ Named(log'[t], key, new.slots[key].tenure, new.slots[key].impl)
            /\ new.slots[key].restored \subseteq 1..MaxHead
        BY <3>2, <3>6, <3>11, <4>1 DEF key, n
      <4>4. on.pc \in {"walk", "idle", "compose"} /\ on.pc = "compose" /\ new.pc = on.pc
        BY <3>9, <3>11
      <4> HIDE DEF s, q
      <4> QED BY <3>5, <3>9, <3>10, <3>11, <3>12, <4>1, <4>2, <4>3, <4>4, InstallLinked
    <3> QED BY <2>4, <2>5, <2>7, <3>11, <3>13, Combine
  <2>8. \/ host' = [host EXCEPT ![h] = down]
        \/ result = "ok" /\ host' = [host EXCEPT ![h] = new]
    <3> DEFINE key == q.key
               m == p.row.revision
    <3>1. ASSUME host' = [host EXCEPT ![h].pc = "compose", ![h].todo = @ \ {key},
                            ![h].req = NoRequest, ![h].revision = m, ![h].slots[key] = slot]
          PROVE  host' = [host EXCEPT ![h] =
                    [[s EXCEPT !.pc = "compose", !.todo = s.todo \ {key}, !.req = NoRequest]
                       EXCEPT !.revision = m, !.slots = [s.slots EXCEPT ![key] = slot]]]
      <4> HIDE DEF key, m, slot
      <4> QED BY <1>0, <3>1 DEF HostStates
    <3> HIDE DEF slot, down
    <3> QED BY <2>1, <3>1
  <2> QED BY <2>6, <2>7, <2>8
<1>2. CASE Restored(h)
  <2> DEFINE slots == [k \in Keys |-> [s.slots[k] EXCEPT !.restored = DOMAIN log[t]]]
             on == Idle(s)
             new == [on EXCEPT !.slots = slots]
  <2>1. host' = [host EXCEPT ![h] = new] /\ UNCHANGED <<store, offer>> /\ s.pc = "compose"
    BY <1>2 DEF Restored
  <2>2. \A k \in Keys : /\ slots[k].impl = s.slots[k].impl /\ slots[k].tenure = s.slots[k].tenure
                        /\ slots[k].restored = DOMAIN log[t]
    <3> SUFFICES ASSUME NEW k \in Keys
                 PROVE  /\ slots[k].impl = s.slots[k].impl /\ slots[k].tenure = s.slots[k].tenure
                        /\ slots[k].restored = DOMAIN log[t]
      OBVIOUS
    <3>1. s.slots[k] \in [impl : {-1} \cup Impls, tenure : {-1} \cup Nat, restored : SUBSET Nat]
      BY <1>0 DEF HostStates
    <3>2. slots[k] = [s.slots[k] EXCEPT !.restored = DOMAIN log[t]] OBVIOUS
    <3> HIDE DEF slots
    <3> QED BY <3>1, <3>2
  <2>3. /\ on \in HostStates /\ on.pc = "idle" /\ on.faulted = s.faulted /\ on.t = t
        /\ on.revision = 0
    BY <1>0, IdleOK, IdleFields
  <2> HIDE DEF slots, on
  <2>4. /\ new.pc = "idle" /\ new.faulted = s.faulted /\ new.t = t /\ new.revision = 0
        /\ new.slots = slots
    BY <2>3 DEF HostStates
  <2> HIDE DEF new
  <2>5. DOMAIN log[t] = 1..Len(log[t]) /\ Cardinality(DOMAIN log[t]) = Len(log[t])
    <3>1. DOMAIN log[t] = 1..Len(log[t]) BY <1>0
    <3>2. Cardinality(1..Len(log[t])) = Len(log[t]) BY <1>0, FS_Interval
    <3> QED BY <3>1, <3>2
  <2>6. SlotsLinked(new, log[t])
    <3> SUFFICES ASSUME ~s.faulted, NEW k \in Keys
                 PROVE  /\ IF slots[k].tenure = 0 THEN slots[k].impl = Base
                           ELSE Named(log[t], k, slots[k].tenure, slots[k].impl)
                        /\ slots[k].restored = 1..Cardinality(slots[k].restored)
                        /\ Opening(log[t], k, slots[k].tenure) \subseteq slots[k].restored
      BY <2>4 DEF SlotsLinked
    <3>1. IF s.slots[k].tenure = 0 THEN s.slots[k].impl = Base
          ELSE Named(log[t], k, s.slots[k].tenure, s.slots[k].impl)
      BY <1>0, <2>1 DEF SlotsLinked
    <3>2. \A n : Opening(log[t], k, n) \subseteq DOMAIN log[t] BY DEF Opening
    <3>3. slots[k].restored = 1..Cardinality(slots[k].restored) BY <2>2, <2>5
    <3> QED BY <2>2, <3>1, <3>2, <3>3
  <2>7. HostBounded(new)
    <3>1. \A k \in Keys : s.slots[k].tenure <= MaxHead BY <1>0 DEF HostBounded
    <3>2. DOMAIN log[t] \subseteq 1..MaxHead BY <1>0, <2>5, MaxHeadAssumption
    <3> QED BY <2>2, <2>4, <3>1, <3>2, MaxHeadAssumption DEF HostBounded
  <2>8. HostLinked(new, log[t], ledger[t])
    BY <2>4, <2>6, <2>7 DEF HostLinked, DecisionLinked, RequestLinked
  <2> QED BY <2>1, <2>4, <2>8, LocalLinked
<1> QED BY <1>1, <1>2

\* A Fork changes no host.
LEMMA ForkLinked ==
  ASSUME BoundaryInv, StoreInv', ForkRoot
  PROVE  BoundaryInv'
<1>1. host' = host /\ offer' = offer /\ StoreStep BY DEF ForkRoot, StoreStep
<1>2. StoreGrown BY <1>1, StoreStepGrows
<1>3. LedgerSound' /\ \A t \in Timelines : Len(log'[t]) <= MaxHead BY <1>2 DEF StoreGrown
<1>4. ASSUME NEW u \in Hosts PROVE HostLinked(host'[u], log'[host'[u].t], ledger'[host'[u].t])
  BY <1>1, OtherLinked
<1>5. (offer # NoOffer => offer.head < MaxHead)' BY <1>1 DEF BoundaryInv
<1> QED BY <1>3, <1>4, <1>5 DEF BoundaryInv

----------------------------------------------------------------------------
(* The theorems                                                            *)

\* An empty store with every host down is linked.
LEMMA InitBoundaryInv ==
  ASSUME Init
  PROVE  BoundaryInv
<1>1. StoreInv BY InitStoreInv
<1>2. /\ log = [t \in Timelines |-> <<>>] /\ ledger = [t \in Timelines |-> <<>>]
      /\ host = [h \in Hosts |-> Down] /\ offer = NoOffer
  BY DEF Init, InitStore
<1>3. \A t \in Timelines : Len(log[t]) = 0 /\ Len(ledger[t]) = 0 /\ DOMAIN ledger[t] = {}
  BY <1>2
<1>4. LedgerSound BY <1>3 DEF LedgerSound
<1>5. \A t \in Timelines : Len(log[t]) <= MaxHead BY <1>3, MaxHeadAssumption
<1>6. ASSUME NEW h \in Hosts PROVE HostLinked(host[h], log[host[h].t], ledger[host[h].t])
  <2>1. Down \in HostStates /\ Down.t = 1
    <3>1. Down \in HostStates BY NumberingAssumption, DownOK
    <3> QED BY <3>1 DEF Down
  <2>2. [Down EXCEPT !.t = 1] = Down BY <2>1 DEF HostStates
  <2> QED BY <1>2, <2>2, NumberingAssumption, DownLinked
<1> QED BY <1>1, <1>2, <1>4, <1>5, <1>6 DEF BoundaryInv

\* Every step keeps the hosts linked.
LEMMA BoundaryInvStep ==
  ASSUME BoundaryInv, [Next]_vars
  PROVE  BoundaryInv'
<1>0. StoreInv' BY StoreInvStep DEF BoundaryInv
<1>1. CASE UNCHANGED vars
  <2>1. log' = log /\ row' = row /\ ledger' = ledger /\ host' = host /\ offer' = offer
    BY <1>1 DEF vars, store
  <2> QED BY <1>0, <2>1 DEF BoundaryInv, LedgerSound
<1>2. CASE ForkRoot BY <1>0, <1>2, ForkLinked
<1>3. ASSUME NEW h \in Hosts, PrepareOffer(h) \/ SubmitOffer(h) PROVE BoundaryInv'
  BY <1>0, <1>3, OfferLinked
<1>4. ASSUME NEW h \in Hosts,
             \/ PassCommits(h) \/ PassFails(h) \/ LatchDivergence(h) \/ Skip(h) \/ Attempt(h)
             \/ ForgetObservations(h)
      PROVE  BoundaryInv'
  BY <1>0, <1>4, PassLinked
<1>5. ASSUME NEW h \in Hosts, OwnerActivate(h) \/ OwnerAttempt(h) \/ OwnerExhausted(h)
      PROVE  BoundaryInv'
  BY <1>0, <1>5, OwnerLinked
<1>6. ASSUME NEW h \in Hosts,
             \/ CommitActivation(h) \/ Adopt(h) \/ AdoptNothing(h) \/ ReportNotCommitted(h)
             \/ SwapFails(h) \/ Crash(h)
      PROVE  BoundaryInv'
  BY <1>0, <1>6, CommitLinked
<1>7. ASSUME NEW h \in Hosts, Swap(h) PROVE BoundaryInv' BY <1>0, <1>7, SwapLinked
<1>8. ASSUME NEW h \in Hosts,
             \/ \E t \in Timelines : Compose(h, t)
             \/ ResolveSlots(h) \/ ComposeSlot(h) \/ AttemptRestart(h)
      PROVE  BoundaryInv'
  BY <1>0, <1>8, ComposeLinked
<1>9. ASSUME NEW h \in Hosts, CommitRestart(h) \/ Restored(h) PROVE BoundaryInv'
  BY <1>0, <1>9, RestartLinked
<1> QED BY <1>1, <1>2, <1>3, <1>4, <1>5, <1>6, <1>7, <1>8, <1>9 DEF Next

\* The registry's invariant, the ledger's rows naming their Events, and every
\* host linked to the Events of its Timeline: the invariant is inductive.
THEOREM BoundaryInvariance == Spec => []BoundaryInv
<1>1. Init => BoundaryInv BY InitBoundaryInv
<1>2. BoundaryInv /\ [Next]_vars => BoundaryInv' BY BoundaryInvStep
<1> QED BY <1>1, <1>2, PTL DEF Spec

\* Revisions, ordinals, chain positions, tenures and restored prefixes stay in
\* their ranges: no index leaves its chain and no revision passes the Events.
THEOREM FallbackTypeOK == Spec => []TypeOK
<1>1. ASSUME BoundaryInv PROVE TypeOK
  <2>0. /\ Typed /\ PrefixesSound /\ RowIsFold /\ LedgerSound
        /\ \A t \in Timelines : Len(log[t]) <= MaxHead
    BY <1>1 DEF BoundaryInv, StoreInv
  <2>1. ASSUME NEW t \in Timelines
        PROVE  /\ Len(log[t]) <= MaxHead
               /\ row[t].revision \in 0..Len(log[t]) /\ row[t].ordinal \in 0..Len(log[t])
               /\ \A k \in Keys : /\ row[t].entries[k].pos \in 0..2
                                  /\ row[t].entries[k].tenure \in -1..MaxHead
               /\ Len(ledger[t]) <= Len(log[t])
    <3>1. log[t] \in Seq(Events) /\ SoundFold(log[t]) BY <2>0, WholeSound
    <3>2. Len(log[t]) \in Nat /\ Len(log[t]) <= MaxHead /\ Len(ledger[t]) <= Len(log[t])
      BY <2>0, <3>1 DEF LedgerSound
    <3>3. row[t] = NoState \/ row[t] = Fold(log[t]) BY <2>0 DEF RowIsFold, RowChecked
    <3>4. row[t] \in States BY <2>0 DEF Typed
    <3>5. row[t].revision <= Len(log[t]) /\ row[t].ordinal <= Len(log[t])
      <4>1. NoState.revision = 0 /\ NoState.ordinal = 0 BY DEF NoState
      <4>2. Fold(log[t]).revision <= Len(log[t]) /\ Fold(log[t]).ordinal <= Len(log[t])
        BY <3>1 DEF SoundFold
      <4> QED BY <3>2, <3>3, <4>1, <4>2
    <3>6. row[t].revision \in Nat /\ row[t].ordinal \in Nat BY <3>4 DEF States
    <3>7. ASSUME NEW k \in Keys
          PROVE  row[t].entries[k].pos \in 0..2 /\ row[t].entries[k].tenure \in -1..MaxHead
      <4>1. row[t].entries[k].pos \in 0..2 /\ row[t].entries[k].tenure \in {-1} \cup Nat
        BY <3>4 DEF States, EntryStates
      <4>2. row[t].entries[k].tenure <= Len(log[t])
        <5>1. NoState.entries[k].tenure = -1 BY DEF NoState, Unrecorded
        <5>2. Fold(log[t]).entries[k].tenure <= Len(log[t]) BY <3>1 DEF SoundFold
        <5> QED BY <3>2, <3>3, <5>1, <5>2
      <4> QED BY <3>2, <4>1, <4>2, MaxHeadAssumption
    <3> QED BY <3>2, <3>5, <3>6, <3>7
  <2>2. ASSUME NEW h \in Hosts
        PROVE  /\ host[h].pc \in {"down", "idle", "walk", "commit", "adopt", "refused", "apply",
                                  "owner", "derived", "compose", "recommit"}
               /\ host[h].slots \in [Keys -> Slot]
               /\ host[h].obs \in [Keys -> [impl : {-1} \cup Impls, code : Codes \cup {"none"}]]
               /\ host[h].faulted \in BOOLEAN /\ host[h].poisoned \in BOOLEAN
               /\ host[h].todo \subseteq Keys
               /\ host[h].revision \in 0..MaxHead
    <3>1. host[h] \in HostStates /\ HostBounded(host[h]) BY <1>1, HostFacts
    <3>2. /\ host[h].pc \in {"down", "idle", "walk", "commit", "adopt", "refused", "apply",
                             "owner", "derived", "compose", "recommit"}
          /\ host[h].obs \in [Keys -> [impl : {-1} \cup Impls, code : Codes \cup {"none"}]]
          /\ host[h].faulted \in BOOLEAN /\ host[h].poisoned \in BOOLEAN
          /\ host[h].todo \subseteq Keys /\ host[h].revision \in Nat
      BY <3>1 DEF HostStates
    <3>3. host[h].revision \in 0..MaxHead BY <3>1, <3>2, MaxHeadAssumption DEF HostBounded
    <3>4. host[h].slots \in [Keys -> [impl : {-1} \cup Impls, tenure : {-1} \cup Nat,
                                     restored : SUBSET Nat]]
      BY <3>1 DEF HostStates
    <3>5. ASSUME NEW k \in Keys PROVE host[h].slots[k] \in Slot
      <4> DEFINE slot == host[h].slots[k]
      <4>1. slot \in [impl : {-1} \cup Impls, tenure : {-1} \cup Nat, restored : SUBSET Nat]
        BY <3>4
      <4>2. slot.tenure <= MaxHead /\ slot.restored \in SUBSET (1..MaxHead)
        BY <3>1 DEF HostBounded
      <4> HIDE DEF slot
      <4>3. slot.tenure \in -1..MaxHead BY <4>1, <4>2, MaxHeadAssumption
      <4>4. slot \in Slot BY <4>1, <4>2, <4>3 DEF Slot
      <4> QED BY <4>4 DEF slot
    <3> QED BY <3>2, <3>3, <3>4, <3>5
  <2> QED BY <2>1, <2>2 DEF TypeOK
<1> QED BY <1>1, BoundaryInvariance, PTL

\* What a host runs in a slot is what the Events name for its tenure: also
\* after it adopted an activation that another host committed, and although
\* other hosts may have moved the slot on (activation_event, adopt).
THEOREM FallbackLiveNamedByEvents == Spec => []LiveNamedByEvents
<1>1. ASSUME BoundaryInv PROVE LiveNamedByEvents
  <2> SUFFICES ASSUME NEW h \in Hosts, Serving(h), NEW k \in Keys
               PROVE  LET slot == host[h].slots[k] IN
                      IF slot.tenure = 0 THEN slot.impl = Base
                      ELSE \E i \in Opening(log[host[h].t], k, slot.tenure) :
                             log[host[h].t][i].to = slot.impl
    BY DEF LiveNamedByEvents
  <2>1. SlotsLinked(host[h], log[host[h].t]) BY <1>1, HostFacts
  <2> QED BY <2>1 DEF SlotsLinked, Serving, Named
<1> QED BY <1>1, BoundaryInvariance, PTL

\* The Driver a host runs was restored from a prefix without a gap that reaches
\* the activation of its tenure, wherever the activation was committed and by
\* whom (apply, compose_restart_v1).
THEOREM FallbackRestoredWithoutGap == Spec => []RestoredWithoutGap
<1>1. ASSUME BoundaryInv PROVE RestoredWithoutGap
  <2> SUFFICES ASSUME NEW h \in Hosts, Serving(h), NEW k \in Keys
               PROVE  LET slot == host[h].slots[k] IN
                      /\ slot.restored = 1..Cardinality(slot.restored)
                      /\ Opening(log[host[h].t], k, slot.tenure) \subseteq slot.restored
    BY DEF RestoredWithoutGap
  <2>1. SlotsLinked(host[h], log[host[h].t]) BY <1>1, HostFacts
  <2> QED BY <2>1 DEF SlotsLinked, Serving
<1> QED BY <1>1, BoundaryInvariance, PTL

\* Only a host that commits can be the one whose commit changes the log.
LEMMA OwnCommit ==
  ASSUME BoundaryInv, [Next]_vars, NEW h \in Hosts, CommitsActivation(h)
  PROVE  CommitActivation(h) \/ CommitRestart(h)
<1>0. /\ host \in [Hosts -> HostStates] /\ log' # log /\ host'[h] # host[h]
      /\ host[h].pc \in {"commit", "recommit"}
  BY DEF BoundaryInv, StoreInv, Typed, CommitsActivation
<1>1. ~UNCHANGED vars /\ ~UNCHANGED store BY <1>0 DEF vars, store
<1>2. ~ForkRoot BY <1>0 DEF ForkRoot
<1>3. ASSUME NEW g \in Hosts,
             \/ PrepareOffer(g) \/ PassFails(g) \/ LatchDivergence(g) \/ Skip(g) \/ Attempt(g)
             \/ OwnerActivate(g) \/ OwnerAttempt(g) \/ OwnerExhausted(g)
             \/ ForgetObservations(g) \/ Adopt(g) \/ AdoptNothing(g) \/ ReportNotCommitted(g)
             \/ Swap(g) \/ SwapFails(g) \/ Crash(g) \/ (\E t \in Timelines : Compose(g, t))
             \/ ResolveSlots(g) \/ ComposeSlot(g) \/ AttemptRestart(g) \/ Restored(g)
      PROVE  FALSE
  <2>1. UNCHANGED store
    BY <1>3 DEF PrepareOffer, PassFails, LatchDivergence, Skip, Attempt, OwnerActivate,
         OwnerAttempt, OwnerExhausted, ForgetObservations, Adopt, AdoptNothing,
         ReportNotCommitted, Swap, SwapFails, Crash, Compose, ResolveSlots, ComposeSlot,
         AttemptRestart, Restored
  <2> QED BY <1>1, <2>1
\* Any other step changes the host that takes it, which is this one.
<1>4. ASSUME NEW g \in Hosts, NEW new, host' = [host EXCEPT ![g] = new] PROVE g = h
  BY <1>0, <1>4
<1>5. ASSUME NEW g \in Hosts, PassCommits(g) PROVE FALSE
  <2>1. g = h
    <3> DEFINE none == [k \in Keys |-> NoObservation]
               new == [host[g] EXCEPT !.obs = none, !.faulted = @ \/ Diverged(g)]
    <3>1. host' = [host EXCEPT ![g] = new] BY <1>0, <1>5 DEF PassCommits
    <3> HIDE DEF new
    <3> QED BY <1>4, <3>1
  <2> QED BY <1>0, <1>5, <2>1 DEF PassCommits
<1>6. ASSUME NEW g \in Hosts, SubmitOffer(g) PROVE FALSE
  <2>1. PICK poison \in BOOLEAN : host' = [host EXCEPT ![g].poisoned = poison]
    BY <1>6 DEF SubmitOffer
  <2>2. host' = [host EXCEPT ![g] = [host[g] EXCEPT !.poisoned = poison]] BY <2>1
  <2>3. g = h BY <1>4, <2>2
  <2> QED BY <1>0, <1>6, <2>3 DEF SubmitOffer
<1>7. ASSUME NEW g \in Hosts, CommitActivation(g) PROVE CommitActivation(h)
  <2> DEFINE p == Plan(host[g].t, host[g].req)
  <2>1. PICK result \in Results, poison \in BOOLEAN :
          host' = [host EXCEPT ![g].poisoned = poison,
               ![g].found = IF result = "ok" THEN p.row ELSE @,
               ![g].pc = CASE result = "ok" -> "apply"
                           [] result = "indeterminate" -> "adopt"
                           [] result = "refused" -> "refused"]
    BY <1>7 DEF CommitActivation
  <2>2. g # h => host'[h] = host[h] BY <1>0, <2>1
  <2> QED BY <1>0, <1>7, <2>2
<1>8. ASSUME NEW g \in Hosts, CommitRestart(g) PROVE CommitRestart(h)
  <2>1. g # h => host'[h] = host[h] BY <1>0, <1>8 DEF CommitRestart
  <2> QED BY <1>0, <1>8, <2>1
<1> QED BY <1>1, <1>2, <1>3, <1>5, <1>6, <1>7, <1>8 DEF Next

\* An activation is committed only under the policy and on the tenure its host
\* derived it from, and mid-run only while the host runs the whole effective
\* composition, as long as every revision the host took over is its own swap:
\* the expected revision alone carries this, whatever the other hosts commit
\* and whatever outcome stayed unknown (FoldedV1::push, check_fresh).
THEOREM FallbackDecisionFresh == Spec => DecisionFresh
<1> DEFINE Decided == \A h \in Hosts : CommitsActivation(h) /\ OwnRevisions(h) => DecisionHolds(h)
<1>1. ASSUME BoundaryInv, [Next]_vars PROVE Decided
  <2> SUFFICES ASSUME NEW h \in Hosts, CommitsActivation(h), OwnRevisions(h)
               PROVE  DecisionHolds(h)
    OBVIOUS
  <2> DEFINE s == host[h]
             t == host[h].t
             q == host[h].req
             p == Plan(t, q)
  <2>0. /\ s \in HostStates /\ AllSound(log[t]) /\ DecisionLinked(s, log[t])
        /\ RequestLinked(s, ledger[t])
    BY <1>1, HostFacts
  <2>1. s.pc \in {"commit", "recommit"} /\ log' # log BY DEF CommitsActivation
  <2>2. p.kind = "commit"
    <3>1. \E result \in Results, poison \in BOOLEAN : Call(h, p, result, poison)
      BY <1>1, OwnCommit DEF CommitActivation, CommitRestart
    <3>2. UNCHANGED store \/ (p.kind = "commit" /\ Commit(t, p)) BY <3>1, CallEffect
    <3> QED BY <2>1, <3>2 DEF store
  <2>3. q.revision = Fold(log[t]).revision BY <2>2, PlannedRow DEF Fresh
  <2>4. q.revision = s.revision /\ q.key \in DOMAIN Declared(s.seen.policy) \ Swapped(s)
    BY <2>0, <2>1 DEF RequestLinked
  <2>5. Fold(log[t]).revision = s.seen.revision + Cardinality(Swapped(s))
    BY <2>3, <2>4 DEF OwnRevisions
  <2>6. PICK m \in 0..Len(log[t]) : s.seen = FoldAt(log[t], m)
    BY <2>0, <2>1 DEF DecisionLinked, FoldAt
  <2>7. \A k \in Swapped(s) :
          Named(log[t], k, s.seen.entries[k].tenure + 1, s.slots[k].impl)
    BY <2>0, <2>1 DEF DecisionLinked
  <2>8. /\ Fold(log[t]).policy = s.seen.policy
        /\ \A k \in DOMAIN Declared(s.seen.policy) :
             /\ Fold(log[t]).entries[k].impl = s.slots[k].impl
             /\ k \notin Swapped(s) => Fold(log[t]).entries[k] = s.seen.entries[k]
    <3> HIDE DEF s, t
    <3> QED BY <2>0, <2>5, <2>6, <2>7, OwnSwapsOnly
  <2> QED BY <2>4, <2>8 DEF DecisionHolds, RunsEffective
<1>2. BoundaryInv /\ [Next]_vars => [Decided]_vars BY <1>1
<1> QED BY <1>2, BoundaryInvariance, PTL DEF Spec, DecisionFresh

=============================================================================
