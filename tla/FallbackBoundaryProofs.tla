----------------------- MODULE FallbackBoundaryProofs -----------------------
(***************************************************************************)
(* Proofs about FallbackBoundary: the row of every Timeline is the fold of *)
(* its Events, and the fold and the tenures counted from the activations   *)
(* agree.  What a fold computes is first brought to a step per Event, by   *)
(* the least place where it would fail.                                    *)
(***************************************************************************)
EXTENDS FallbackBoundary, WellFoundedInduction, SequenceTheorems, TLAPS

----------------------------------------------------------------------------
(* The fold and the closure, one Event at a time                           *)

\* A set of naturals has a least element.
LEMMA NatMinimum ==
  ASSUME NEW S \in SUBSET Nat, S # {}
  PROVE  \E x \in S : \A y \in S : x <= y
<1> DEFINE R == OpToRel(<, Nat)
<1>1. IsWellFoundedOn(R, Nat) BY NatLessThanWellFounded
<1>2. \A x, y \in Nat : y < x => <<y, x>> \in R BY DEF OpToRel
<1> HIDE DEF R
<1>3. PICK x \in S : \A y \in S : ~(<<y, x>> \in R) BY <1>1, WFMin
<1>4. \A y \in S : ~(y < x) BY <1>2, <1>3
<1> QED BY <1>4

\* The value a fold has after i Events, and a function that folds n of them.
FoldStep(f, events, i) == IF i = 0 THEN NoState ELSE FoldEvent(f[i - 1], events[i])

IsFold(f, events, n) == f = [i \in 0..n |-> FoldStep(f, events, i)]

\* Events of any number can be folded.
LEMMA FoldExists ==
  ASSUME NEW events, NEW N \in Nat
  PROVE  \E f : IsFold(f, events, N)
<1> DEFINE T == {n \in Nat : ~\E f : IsFold(f, events, n)}
<1> SUFFICES ASSUME T # {} PROVE FALSE OBVIOUS
<1>1. PICK n \in T : \A m \in T : n <= m BY NatMinimum
<1>2. n # 0
  <2>1. IsFold([i \in 0..0 |-> NoState], events, 0) BY DEF IsFold, FoldStep
  <2> QED BY <2>1
<1>3. PICK g : IsFold(g, events, n - 1) BY <1>1, <1>2
<1> DEFINE h == [i \in 0..n |-> IF i = n THEN FoldEvent(g[n - 1], events[n]) ELSE g[i]]
<1>4. IsFold(h, events, n)
  <2>1. \A i \in 0..(n - 1) : g[i] = FoldStep(g, events, i) BY <1>3 DEF IsFold
  <2>2. \A i \in 0..n : h[i] = FoldStep(h, events, i)
    <3> SUFFICES ASSUME NEW i \in 0..n PROVE h[i] = FoldStep(h, events, i) OBVIOUS
    <3>1. CASE i = n BY <1>2, <3>1 DEF FoldStep
    <3>2. CASE i # n
      <4>1. i \in 0..(n - 1) BY <3>2
      <4>2. i # 0 => h[i - 1] = g[i - 1] BY <4>1
      <4> QED BY <2>1, <3>2, <4>1, <4>2 DEF FoldStep
    <3> QED BY <3>1, <3>2
  <2> QED BY <2>2 DEF IsFold
<1> QED BY <1>4

\* Events are folded in one way only.
LEMMA FoldUnique ==
  ASSUME NEW events, NEW n \in Nat, NEW f, NEW g, IsFold(f, events, n), IsFold(g, events, n)
  PROVE  f[n] = g[n]
<1> DEFINE T == {i \in 0..n : f[i] # g[i]}
<1>0. SUFFICES ASSUME T # {} PROVE FALSE OBVIOUS
<1>1. PICK j \in T : \A i \in T : j <= i
  <2>1. T \in SUBSET Nat OBVIOUS
  <2> HIDE DEF T
  <2> QED BY <1>0, <2>1, NatMinimum
<1>2. f[j] = FoldStep(f, events, j) /\ g[j] = FoldStep(g, events, j)
  <2>1. j \in 0..n BY <1>1
  <2>2. f = [i \in 0..n |-> FoldStep(f, events, i)] BY DEF IsFold
  <2>3. g = [i \in 0..n |-> FoldStep(g, events, i)] BY DEF IsFold
  <2> QED BY <2>1, <2>2, <2>3
<1>3. j # 0 BY <1>1, <1>2 DEF FoldStep
<1>4. j - 1 \in 0..n /\ j - 1 \notin T BY <1>1, <1>3
<1>5. f[j - 1] = g[j - 1] BY <1>4
<1> QED BY <1>1, <1>2, <1>3, <1>5 DEF FoldStep

\* Fold is the last value of such a function.
LEMMA FoldValue ==
  ASSUME NEW events, Len(events) \in Nat
  PROVE  \E f : IsFold(f, events, Len(events)) /\ Fold(events) = f[Len(events)]
<1> DEFINE g == CHOOSE f : IsFold(f, events, Len(events))
<1>1. Fold(events) = g[Len(events)] BY DEF Fold, IsFold, FoldStep
<1>2. IsFold(g, events, Len(events)) BY FoldExists
<1> HIDE DEF g
<1> QED BY <1>1, <1>2

\* No Events fold to no state.
LEMMA FoldEmpty == Fold(<<>>) = NoState
<1>1. PICK f : IsFold(f, <<>>, 0) /\ Fold(<<>>) = f[0] BY FoldValue
<1> QED BY <1>1 DEF IsFold, FoldStep

\* One more Event is folded onto the fold of those before it.
LEMMA FoldAppend ==
  ASSUME NEW S, NEW events \in Seq(S), NEW e \in S
  PROVE  Fold(Append(events, e)) = FoldEvent(Fold(events), e)
<1> DEFINE n == Len(events)
           longer == Append(events, e)
<1>1. n \in Nat /\ longer \in Seq(S) /\ Len(longer) = n + 1 /\ longer[n + 1] = e
      /\ \A i \in 1..n : events[i] = longer[i]
  OBVIOUS
<1> HIDE DEF n, longer
<1>2. PICK f : IsFold(f, events, n) /\ Fold(events) = f[n]
  <2>1. Len(events) \in Nat BY <1>1 DEF n
  <2> QED BY <2>1, FoldValue DEF n
<1>3. PICK g : IsFold(g, longer, n + 1) /\ Fold(longer) = g[n + 1]
  <2>1. Len(longer) \in Nat BY <1>1
  <2>2. \E g : IsFold(g, longer, Len(longer)) /\ Fold(longer) = g[Len(longer)]
    BY <2>1, FoldValue
  <2> QED BY <1>1, <2>2
<1>4. f[n] = g[n]
  <2> DEFINE h == [i \in 0..n |-> g[i]]
  <2>1. g = [i \in 0..(n + 1) |-> FoldStep(g, longer, i)] BY <1>3 DEF IsFold
  <2>2. \A i \in 0..n : h[i] = FoldStep(h, events, i)
    <3> SUFFICES ASSUME NEW i \in 0..n PROVE h[i] = FoldStep(h, events, i) OBVIOUS
    <3>1. i \in 0..(n + 1) BY <1>1
    <3>2. g[i] = FoldStep(g, longer, i) BY <2>1, <3>1
    <3>3. i # 0 => (g[i - 1] = h[i - 1] /\ longer[i] = events[i]) BY <1>1
    <3>4. FoldStep(g, longer, i) = FoldStep(h, events, i) BY <3>3 DEF FoldStep
    <3> QED BY <3>2, <3>4
  <2>3. IsFold(h, events, n) BY <2>2 DEF IsFold
  <2>4. h[n] = g[n] BY <1>1
  <2> HIDE DEF h
  <2> QED BY <1>1, <1>2, <2>3, <2>4, FoldUnique
<1>5. g[n + 1] = FoldStep(g, longer, n + 1)
  <2>1. n + 1 \in 0..(n + 1) BY <1>1
  <2>2. g = [i \in 0..(n + 1) |-> FoldStep(g, longer, i)] BY <1>3 DEF IsFold
  <2> QED BY <2>1, <2>2
<1>6. g[n + 1] = FoldEvent(g[n], e) BY <1>1, <1>5 DEF FoldStep
<1> QED BY <1>2, <1>3, <1>4, <1>6 DEF longer

\* The same of the closure: the tenure of slot k after i Events, and a function
\* that follows n of them.
CloseStep(f, events, k, i) ==
  IF i = 0 THEN Tenure(0, Base) ELSE CloseEvent(f[i - 1], events[i], k)

IsClosure(f, events, k, n) == f = [i \in 0..n |-> CloseStep(f, events, k, i)]

\* Events of any number can be followed.
LEMMA ClosureExists ==
  ASSUME NEW k, NEW events, NEW N \in Nat
  PROVE  \E f : IsClosure(f, events, k, N)
<1> DEFINE T == {n \in Nat : ~\E f : IsClosure(f, events, k, n)}
<1> SUFFICES ASSUME T # {} PROVE FALSE OBVIOUS
<1>1. PICK n \in T : \A m \in T : n <= m BY NatMinimum
<1>2. n # 0
  <2>1. IsClosure([i \in 0..0 |-> Tenure(0, Base)], events, k, 0) BY DEF IsClosure, CloseStep
  <2> QED BY <2>1
<1>3. PICK g : IsClosure(g, events, k, n - 1) BY <1>1, <1>2
<1> DEFINE h == [i \in 0..n |-> IF i = n THEN CloseEvent(g[n - 1], events[n], k) ELSE g[i]]
<1>4. IsClosure(h, events, k, n)
  <2>1. \A i \in 0..(n - 1) : g[i] = CloseStep(g, events, k, i) BY <1>3 DEF IsClosure
  <2>2. \A i \in 0..n : h[i] = CloseStep(h, events, k, i)
    <3> SUFFICES ASSUME NEW i \in 0..n PROVE h[i] = CloseStep(h, events, k, i) OBVIOUS
    <3>1. CASE i = n BY <1>2, <3>1 DEF CloseStep
    <3>2. CASE i # n
      <4>1. i \in 0..(n - 1) BY <3>2
      <4>2. i # 0 => h[i - 1] = g[i - 1] BY <4>1
      <4> QED BY <2>1, <3>2, <4>1, <4>2 DEF CloseStep
    <3> QED BY <3>1, <3>2
  <2> QED BY <2>2 DEF IsClosure
<1> QED BY <1>4

\* Events are followed in one way only.
LEMMA ClosureUnique ==
  ASSUME NEW k, NEW events, NEW n \in Nat, NEW f, NEW g,
         IsClosure(f, events, k, n), IsClosure(g, events, k, n)
  PROVE  f[n] = g[n]
<1> DEFINE T == {i \in 0..n : f[i] # g[i]}
<1>0. SUFFICES ASSUME T # {} PROVE FALSE OBVIOUS
<1>1. PICK j \in T : \A i \in T : j <= i
  <2>1. T \in SUBSET Nat OBVIOUS
  <2> HIDE DEF T
  <2> QED BY <1>0, <2>1, NatMinimum
<1>2. f[j] = CloseStep(f, events, k, j) /\ g[j] = CloseStep(g, events, k, j)
  <2>1. j \in 0..n BY <1>1
  <2>2. f = [i \in 0..n |-> CloseStep(f, events, k, i)] BY DEF IsClosure
  <2>3. g = [i \in 0..n |-> CloseStep(g, events, k, i)] BY DEF IsClosure
  <2> QED BY <2>1, <2>2, <2>3
<1>3. j # 0 BY <1>1, <1>2 DEF CloseStep
<1>4. j - 1 \in 0..n /\ j - 1 \notin T BY <1>1, <1>3
<1>5. f[j - 1] = g[j - 1] BY <1>4
<1> QED BY <1>1, <1>2, <1>3, <1>5 DEF CloseStep

\* Closure is the last value of such a function.
LEMMA ClosureValue ==
  ASSUME NEW k, NEW events, Len(events) \in Nat
  PROVE  \E f : IsClosure(f, events, k, Len(events)) /\ Closure(events, k) = f[Len(events)]
<1> DEFINE g == CHOOSE f : IsClosure(f, events, k, Len(events))
<1>1. Closure(events, k) = g[Len(events)] BY DEF Closure, IsClosure, CloseStep
<1>2. IsClosure(g, events, k, Len(events)) BY ClosureExists
<1> HIDE DEF g
<1> QED BY <1>1, <1>2

\* No Events leave the composer's base in tenure 0.
LEMMA ClosureEmpty ==
  ASSUME NEW k
  PROVE  Closure(<<>>, k) = Tenure(0, Base)
<1>1. PICK f : IsClosure(f, <<>>, k, 0) /\ Closure(<<>>, k) = f[0] BY ClosureValue
<1> QED BY <1>1 DEF IsClosure, CloseStep

\* One more Event is applied to the closure of those before it.
LEMMA ClosureAppend ==
  ASSUME NEW k, NEW S, NEW events \in Seq(S), NEW e \in S
  PROVE  Closure(Append(events, e), k) = CloseEvent(Closure(events, k), e, k)
<1> DEFINE n == Len(events)
           longer == Append(events, e)
<1>1. n \in Nat /\ longer \in Seq(S) /\ Len(longer) = n + 1 /\ longer[n + 1] = e
      /\ \A i \in 1..n : events[i] = longer[i]
  OBVIOUS
<1> HIDE DEF n, longer
<1>2. PICK f : IsClosure(f, events, k, n) /\ Closure(events, k) = f[n]
  <2>1. Len(events) \in Nat BY <1>1 DEF n
  <2> QED BY <2>1, ClosureValue DEF n
<1>3. PICK g : IsClosure(g, longer, k, n + 1) /\ Closure(longer, k) = g[n + 1]
  <2>1. Len(longer) \in Nat BY <1>1
  <2>2. \E g : IsClosure(g, longer, k, Len(longer)) /\ Closure(longer, k) = g[Len(longer)]
    BY <2>1, ClosureValue
  <2> QED BY <1>1, <2>2
<1>4. f[n] = g[n]
  <2> DEFINE h == [i \in 0..n |-> g[i]]
  <2>1. g = [i \in 0..(n + 1) |-> CloseStep(g, longer, k, i)] BY <1>3 DEF IsClosure
  <2>2. \A i \in 0..n : h[i] = CloseStep(h, events, k, i)
    <3> SUFFICES ASSUME NEW i \in 0..n PROVE h[i] = CloseStep(h, events, k, i) OBVIOUS
    <3>1. i \in 0..(n + 1) BY <1>1
    <3>2. g[i] = CloseStep(g, longer, k, i) BY <2>1, <3>1
    <3>3. i # 0 => (g[i - 1] = h[i - 1] /\ longer[i] = events[i]) BY <1>1
    <3>4. CloseStep(g, longer, k, i) = CloseStep(h, events, k, i) BY <3>3 DEF CloseStep
    <3> QED BY <3>2, <3>4
  <2>3. IsClosure(h, events, k, n) BY <2>2 DEF IsClosure
  <2>4. h[n] = g[n] BY <1>1
  <2> HIDE DEF h
  <2> QED BY <1>1, <1>2, <2>3, <2>4, ClosureUnique
<1>5. g[n + 1] = CloseStep(g, longer, k, n + 1)
  <2>1. n + 1 \in 0..(n + 1) BY <1>1
  <2>2. g = [i \in 0..(n + 1) |-> CloseStep(g, longer, k, i)] BY <1>3 DEF IsClosure
  <2> QED BY <2>1, <2>2
<1>6. g[n + 1] = CloseEvent(g[n], e, k) BY <1>1, <1>5 DEF CloseStep
<1> QED BY <1>2, <1>3, <1>4, <1>6 DEF longer

----------------------------------------------------------------------------
(* Policies, chains and prefixes                                           *)

\* What a policy declares has known keys and chains of at most three.
LEMMA DeclaredOK ==
  ASSUME NEW policy \in Seq(Entries)
  PROVE  /\ DOMAIN Declared(policy) \subseteq Keys
         /\ \A k \in DOMAIN Declared(policy) :
              /\ Declared(policy)[k].chain \in Seq(Impls)
              /\ Len(Declared(policy)[k].chain) \in 1..3
              /\ Declared(policy)[k].triggers \subseteq Codes
<1>1. CASE policy = <<>> BY <1>1 DEF Declared, NoPolicy
<1>2. CASE policy # <<>>
  <2>1. policy[Len(policy)] \in Entries BY <1>2
  <2>2. Declared(policy) = policy[Len(policy)] BY <1>2 DEF Declared, NoPolicy
  <2> QED BY <2>1, <2>2, EntriesAssumption
<1> QED BY <1>1, <1>2

\* The index of a listed implementation is its place in the chain.
LEMMA ChainIndexOK ==
  ASSUME NEW entry, NEW impl, entry.chain \in Seq(Impls), Len(entry.chain) \in 1..3,
         ChainIndex(entry, impl) >= 0
  PROVE  /\ impl \in Impls
         /\ ChainIndex(entry, impl) \in 0..2
         /\ ChainIndex(entry, impl) < Len(entry.chain)
         /\ entry.chain[ChainIndex(entry, impl) + 1] = impl
<1> DEFINE i == CHOOSE i \in DOMAIN entry.chain : entry.chain[i] = impl
<1>1. \E j \in DOMAIN entry.chain : entry.chain[j] = impl BY DEF ChainIndex
<1>2. i \in DOMAIN entry.chain /\ entry.chain[i] = impl BY <1>1
<1>3. ChainIndex(entry, impl) = i - 1 BY <1>1 DEF ChainIndex
<1> HIDE DEF i
<1>4. i \in 1..Len(entry.chain) BY <1>2
<1>5. entry.chain[i] \in Impls BY <1>4
<1> QED BY <1>2, <1>3, <1>4, <1>5

\* A prefix of a longer log is a prefix of the log, or the longer log itself.
LEMMA AppendPrefix ==
  ASSUME NEW S, NEW l \in Seq(S), NEW e \in S
  PROVE  /\ Append(l, e) \in Seq(S) /\ Len(Append(l, e)) = Len(l) + 1
         /\ \A n \in 0..Len(l) : SubSeq(Append(l, e), 1, n) = SubSeq(l, 1, n)
         /\ SubSeq(Append(l, e), 1, Len(l) + 1) = Append(l, e)
<1>1. Append(l, e) \in Seq(S) /\ Len(Append(l, e)) = Len(l) + 1 OBVIOUS
<1>2. ASSUME NEW n \in 0..Len(l)
      PROVE  SubSeq(Append(l, e), 1, n) = SubSeq(l, 1, n)
  BY <1>2
<1>3. SubSeq(Append(l, e), 1, Len(l) + 1) = Append(l, e) BY <1>1, SubSeqFull
<1> QED BY <1>1, <1>2, <1>3

\* A prefix of a prefix is a prefix.
LEMMA PrefixOfPrefix ==
  ASSUME NEW S, NEW l \in Seq(S), NEW cut \in 0..Len(l)
  PROVE  /\ SubSeq(l, 1, cut) \in Seq(S) /\ Len(SubSeq(l, 1, cut)) = cut
         /\ \A n \in 0..cut : SubSeq(SubSeq(l, 1, cut), 1, n) = SubSeq(l, 1, n)
<1>1. SubSeq(l, 1, cut) \in Seq(S) /\ Len(SubSeq(l, 1, cut)) = cut OBVIOUS
<1>2. ASSUME NEW n \in 0..cut
      PROVE  SubSeq(SubSeq(l, 1, cut), 1, n) = SubSeq(l, 1, n)
  BY <1>1, <1>2
<1> QED BY <1>1, <1>2

----------------------------------------------------------------------------
(* What an Event does to a sound fold                                      *)

\* A state is not the corrupt one.
LEMMA StatesNotCorrupt ==
  ASSUME NEW s \in States
  PROVE  s # Corrupt
<1>1. s.revision \in Nat BY DEF States
<1>2. Corrupt.revision = -1 BY DEF Corrupt, NoState
<1> QED BY <1>1, <1>2

\* No Events fold soundly.
LEMMA EmptySound == SoundFold(<<>>)
<1>1. NoState \in States BY DEF NoState, States, EntryStates, Unrecorded, NoPolicy
<1>2. Listed(NoState) BY DEF Listed, NoState, NoPolicy, Declared
<1>3. \A k \in Keys : NoState.entries[k] = Unrecorded BY DEF NoState
<1>4. NoState.revision = 0 /\ NoState.ordinal = 0 BY DEF NoState
<1>5. Unrecorded.tenure = -1 BY DEF Unrecorded
<1> QED BY <1>1, <1>2, <1>3, <1>4, <1>5, FoldEmpty, ClosureEmpty DEF SoundFold

\* An Event of the world changes neither derivation.
LEMMA WorldSound ==
  ASSUME NEW l \in Seq(Events), SoundFold(l)
  PROVE  /\ [kind |-> "world"] \in Events
         /\ Fold(Append(l, [kind |-> "world"])) = Fold(l)
         /\ SoundFold(Append(l, [kind |-> "world"]))
<1> DEFINE e == [kind |-> "world"]
           s == Fold(l)
<1>1. e \in Events BY DEF Events
<1>2. e.kind = "world" OBVIOUS
<1> HIDE DEF e, s
<1>3. Fold(Append(l, e)) = s
  <2>1. Fold(Append(l, e)) = FoldEvent(s, e) BY <1>1, FoldAppend DEF s
  <2>2. FoldEvent(s, e) = s BY <1>2 DEF FoldEvent
  <2> QED BY <2>1, <2>2
<1>4. \A k : Closure(Append(l, e), k) = Closure(l, k)
  <2> SUFFICES ASSUME NEW k PROVE Closure(Append(l, e), k) = Closure(l, k) OBVIOUS
  <2>1. Closure(Append(l, e), k) = CloseEvent(Closure(l, k), e, k) BY <1>1, ClosureAppend
  <2> QED BY <1>2, <2>1 DEF CloseEvent
<1>5. Len(Append(l, e)) = Len(l) + 1 /\ Len(l) \in Nat BY <1>1
<1>6. /\ s \in States /\ s.revision <= Len(l) /\ s.ordinal <= Len(l) /\ Listed(s)
      /\ \A k \in Keys : s.entries[k].tenure <= Len(l)
  BY DEF SoundFold, s
<1>7. /\ s.revision \in Int /\ s.ordinal \in Int
      /\ \A k \in Keys : s.entries[k].tenure \in Int
  BY <1>6 DEF States, EntryStates
<1>8. /\ s.revision <= Len(l) + 1 /\ s.ordinal <= Len(l) + 1
      /\ \A k \in Keys : s.entries[k].tenure <= Len(l) + 1
  BY <1>5, <1>6, <1>7
<1>9. \A k \in Keys :
        /\ Closure(l, k) = IF s.entries[k] = Unrecorded THEN Tenure(0, Base)
                           ELSE Tenure(s.entries[k].tenure, s.entries[k].impl)
        /\ s.entries[k] # Unrecorded => s.entries[k].tenure >= 0
  BY DEF SoundFold, s
<1>10. SoundFold(Append(l, e)) BY <1>3, <1>4, <1>5, <1>6, <1>8, <1>9 DEF SoundFold
<1> QED BY <1>1, <1>3, <1>10 DEF e, s

\* A declaration's state, entry by entry.
LEMMA DeclareShape ==
  ASSUME NEW s \in States, NEW policy \in Seq(Entries)
  PROVE  LET d == Declare(s, policy) IN
         /\ d \in States
         /\ d.revision = s.revision + 1 /\ d.policy = policy /\ d.ordinal = s.ordinal
         /\ \A k \in Keys :
              d.entries[k] = IF s.entries[k] = Unrecorded /\ k \in DOMAIN Declared(policy)
                             THEN [tenure |-> 0, impl |-> Declared(policy)[k].chain[1], pos |-> 0]
                             ELSE [s.entries[k] EXCEPT !.pos = 0]
<1> DEFINE E == [k \in Keys |->
                   IF s.entries[k] = Unrecorded /\ k \in DOMAIN Declared(policy)
                   THEN [tenure |-> 0, impl |-> Declared(policy)[k].chain[1], pos |-> 0]
                   ELSE [s.entries[k] EXCEPT !.pos = 0]]
<1>1. /\ s = [revision |-> s.revision, policy |-> s.policy, ordinal |-> s.ordinal,
              entries |-> s.entries]
      /\ s.revision \in Nat /\ s.ordinal \in Nat /\ s.entries \in [Keys -> EntryStates]
  BY DEF States
<1>2. Declare(s, policy) = [s EXCEPT !.revision = @ + 1, !.policy = policy, !.entries = E]
  BY DEF Declare
<1>3. \A k \in Keys : E[k] \in EntryStates
  <2> SUFFICES ASSUME NEW k \in Keys PROVE E[k] \in EntryStates OBVIOUS
  <2>1. CASE s.entries[k] = Unrecorded /\ k \in DOMAIN Declared(policy)
    <3>1. /\ Declared(policy)[k].chain \in Seq(Impls)
          /\ Len(Declared(policy)[k].chain) \in 1..3
      BY <2>1, DeclaredOK
    <3>2. Declared(policy)[k].chain[1] \in Impls BY <3>1
    <3> QED BY <2>1, <3>2 DEF EntryStates
  <2>2. CASE ~(s.entries[k] = Unrecorded /\ k \in DOMAIN Declared(policy))
    <3>1. E[k] = [s.entries[k] EXCEPT !.pos = 0] BY <2>2
    <3>2. s.entries[k] \in EntryStates BY <1>1
    <3>3. 0 \in 0..2 OBVIOUS
    <3> QED BY <3>1, <3>2, <3>3 DEF EntryStates
  <2> QED BY <2>1, <2>2
<1>4. E \in [Keys -> EntryStates] BY <1>3
<1>5. \A k \in Keys :
        E[k] = IF s.entries[k] = Unrecorded /\ k \in DOMAIN Declared(policy)
               THEN [tenure |-> 0, impl |-> Declared(policy)[k].chain[1], pos |-> 0]
               ELSE [s.entries[k] EXCEPT !.pos = 0]
  OBVIOUS
<1> HIDE DEF E
<1>6. Declare(s, policy) = [revision |-> s.revision + 1, policy |-> policy,
                            ordinal |-> s.ordinal, entries |-> E]
  BY <1>1, <1>2
<1>7. Declare(s, policy) \in States BY <1>1, <1>4, <1>6 DEF States
<1> QED BY <1>5, <1>6, <1>7

\* A declaration that the registry may make folds soundly, if the slots it
\* declares run their primaries.
LEMMA DeclareSound ==
  ASSUME NEW l \in Seq(Events), SoundFold(l), NEW q \in Declarations,
         MayDeclare(Fold(l), q.policy),
         \A k \in DOMAIN Declared(q.policy) :
           Closure(l, k).impl = Declared(q.policy)[k].chain[1]
  PROVE  LET e == DeclaredEvent(Fold(l), q) IN
         /\ e \in Events
         /\ Fold(Append(l, e)) = FoldEvent(Fold(l), e)
         /\ FoldEvent(Fold(l), e) # NoState
         /\ SoundFold(Append(l, e))
<1> DEFINE s == Fold(l)
           e == DeclaredEvent(s, q)
           d == Declare(s, q.policy)
<1>1. s \in States /\ Listed(s) /\ s.revision <= Len(l) /\ s.ordinal <= Len(l)
  BY DEF SoundFold
<1>2. q.policy \in Seq(Entries) /\ q.policy # NoPolicy BY DEF Declarations
<1>3. e \in Events
  <2>1. Rebased(s) \subseteq Keys \X ({-1} \cup Impls) BY <1>1 DEF Rebased, States, EntryStates
  <2> QED BY <1>2, <2>1 DEF DeclaredEvent, Events
<1>4. e.kind = "declared" /\ e.policy = q.policy /\ e.rebased = Rebased(s)
  BY DEF DeclaredEvent
<1>5. Previous(q.policy) = s.policy /\ ~PrimaryMismatch(s, q.policy) BY DEF MayDeclare
<1>6. FoldEvent(s, e) = d
  <2>1. s # Corrupt BY <1>1, StatesNotCorrupt
  <2> HIDE DEF s, e
  <2>2. FoldEvent(s, e) = ApplyDeclared(s, e) BY <1>4, <2>1 DEF FoldEvent
  <2>3. ApplyDeclared(s, e) = d BY <1>2, <1>4, <1>5 DEF ApplyDeclared
  <2> QED BY <2>2, <2>3
<1>7. Fold(Append(l, e)) = d
  <2>1. Fold(Append(l, e)) = FoldEvent(s, e) BY <1>3, FoldAppend
  <2> QED BY <1>6, <2>1
<1> DEFINE declared == Declared(q.policy)
<1>8. /\ DOMAIN declared \subseteq Keys
      /\ \A k \in DOMAIN declared :
           /\ declared[k].chain \in Seq(Impls) /\ Len(declared[k].chain) \in 1..3
           /\ declared[k].chain[1] \in Impls
  BY <1>2, DeclaredOK
<1>9. /\ d \in States
      /\ d.revision = s.revision + 1 /\ d.policy = q.policy /\ d.ordinal = s.ordinal
      /\ \A k \in Keys :
           d.entries[k] = IF s.entries[k] = Unrecorded /\ k \in DOMAIN declared
                          THEN [tenure |-> 0, impl |-> declared[k].chain[1], pos |-> 0]
                          ELSE [s.entries[k] EXCEPT !.pos = 0]
  <2> HIDE DEF s
  <2> QED BY <1>1, <1>2, DeclareShape
<1> HIDE DEF declared, d, e
<1>10. /\ s.entries \in [Keys -> EntryStates] /\ s.revision \in Nat /\ s.ordinal \in Nat
  BY <1>1 DEF States
<1> HIDE DEF s
<1>11. ASSUME NEW k \in Keys
       PROVE  /\ s.entries[k] = [tenure |-> s.entries[k].tenure, impl |-> s.entries[k].impl,
                                 pos |-> s.entries[k].pos]
              /\ s.entries[k].tenure \in {-1} \cup Nat /\ s.entries[k].impl \in {-1} \cup Impls
  BY <1>10 DEF EntryStates
<1>12. ASSUME NEW k \in Keys
       PROVE  /\ d.entries[k].pos = 0
              /\ IF s.entries[k] = Unrecorded /\ k \in DOMAIN declared
                 THEN d.entries[k].tenure = 0 /\ d.entries[k].impl = declared[k].chain[1]
                 ELSE /\ d.entries[k].tenure = s.entries[k].tenure
                      /\ d.entries[k].impl = s.entries[k].impl
              /\ d.entries[k] = [tenure |-> d.entries[k].tenure, impl |-> d.entries[k].impl,
                                 pos |-> d.entries[k].pos]
  <2>1. CASE s.entries[k] = Unrecorded /\ k \in DOMAIN declared
    <3>1. d.entries[k] = [tenure |-> 0, impl |-> declared[k].chain[1], pos |-> 0]
      BY <1>9, <2>1
    <3> QED BY <2>1, <3>1
  <2>2. CASE ~(s.entries[k] = Unrecorded /\ k \in DOMAIN declared)
    <3>1. d.entries[k] = [s.entries[k] EXCEPT !.pos = 0] BY <1>9, <2>2
    <3>2. d.entries[k] = [tenure |-> s.entries[k].tenure, impl |-> s.entries[k].impl, pos |-> 0]
      BY <1>11, <3>1
    <3> QED BY <2>2, <3>2
  <2> QED BY <2>1, <2>2
<1>13. d \in States BY <1>9
<1>14. Listed(d)
  <2> SUFFICES ASSUME NEW k \in DOMAIN declared
               PROVE  /\ d.entries[k].pos < Len(declared[k].chain)
                      /\ declared[k].chain[d.entries[k].pos + 1] = d.entries[k].impl
    BY <1>9 DEF Listed, declared
  <2>1. k \in Keys /\ d.entries[k].pos = 0 BY <1>8, <1>12
  <2>2. s.entries[k] # Unrecorded => s.entries[k].impl = declared[k].chain[1]
    BY <1>5 DEF PrimaryMismatch, declared
  <2>3. d.entries[k].impl = declared[k].chain[1]
    <3>1. CASE s.entries[k] = Unrecorded BY <1>12, <2>1, <3>1
    <3>2. CASE s.entries[k] # Unrecorded BY <1>12, <2>1, <2>2, <3>2
    <3> QED BY <3>1, <3>2
  <2>4. Len(declared[k].chain) \in 1..3 BY <1>8
  <2> QED BY <2>1, <2>3, <2>4
<1>16. ASSUME NEW k \in Keys
       PROVE  /\ Closure(Append(l, e), k) = Closure(l, k)
              /\ Closure(l, k) = IF s.entries[k] = Unrecorded THEN Tenure(0, Base)
                                 ELSE Tenure(s.entries[k].tenure, s.entries[k].impl)
              /\ s.entries[k].tenure <= Len(l)
              /\ s.entries[k] # Unrecorded => s.entries[k].tenure >= 0
  <2>1. Closure(Append(l, e), k) = CloseEvent(Closure(l, k), e, k) BY <1>3, ClosureAppend
  <2>2. CloseEvent(Closure(l, k), e, k) = Closure(l, k) BY <1>4 DEF CloseEvent
  <2> QED BY <2>1, <2>2 DEF SoundFold, s
<1>17. ASSUME NEW k \in Keys
       PROVE  /\ d.entries[k].tenure <= Len(l) + 1
              /\ Closure(Append(l, e), k) =
                   IF d.entries[k] = Unrecorded THEN Tenure(0, Base)
                   ELSE Tenure(d.entries[k].tenure, d.entries[k].impl)
              /\ d.entries[k] # Unrecorded => d.entries[k].tenure >= 0
  <2>0. Len(l) \in Nat /\ Unrecorded = [tenure |-> -1, impl |-> -1, pos |-> 0] BY DEF Unrecorded
  <2>1. CASE s.entries[k] = Unrecorded /\ k \in DOMAIN declared
    <3>1. Closure(l, k) = Tenure(0, Base) BY <1>16, <2>1
    <3>2. declared[k].chain[1] = Base BY <2>1, <3>1 DEF declared, Tenure
    <3>3. d.entries[k].tenure = 0 /\ d.entries[k].impl = Base BY <1>12, <2>1, <3>2
    <3>4. d.entries[k] # Unrecorded BY <2>0, <3>3
    <3> QED BY <1>16, <2>0, <3>1, <3>3, <3>4
  <2>2. CASE ~(s.entries[k] = Unrecorded /\ k \in DOMAIN declared)
    <3>1. /\ d.entries[k].tenure = s.entries[k].tenure /\ d.entries[k].impl = s.entries[k].impl
          /\ d.entries[k].pos = 0
      BY <1>12, <2>2
    <3>2. s.entries[k] = Unrecorded <=> d.entries[k] = Unrecorded
      <4>1. CASE s.entries[k] = Unrecorded
        <5>1. d.entries[k].tenure = -1 /\ d.entries[k].impl = -1 BY <2>0, <3>1, <4>1
        <5>2. d.entries[k] = [tenure |-> d.entries[k].tenure, impl |-> d.entries[k].impl,
                              pos |-> d.entries[k].pos]
          BY <1>12
        <5>3. d.entries[k] = [tenure |-> -1, impl |-> -1, pos |-> 0] BY <3>1, <5>1, <5>2
        <5> QED BY <2>0, <4>1, <5>3
      <4>2. CASE s.entries[k] # Unrecorded
        <5>1. s.entries[k].tenure >= 0 BY <1>16, <4>2
        <5> QED BY <1>11, <2>0, <3>1, <4>2, <5>1
      <4> QED BY <4>1, <4>2
    <3>3. s.entries[k].tenure \in Int
      <4>1. s.entries[k].tenure \in {-1} \cup Nat BY <1>11
      <4> QED BY <4>1
    <3>4. d.entries[k].tenure <= Len(l) + 1 BY <1>16, <2>0, <3>1, <3>3
    <3>5. d.entries[k] # Unrecorded => d.entries[k].tenure >= 0 BY <1>16, <3>1, <3>2
    <3>6. Closure(Append(l, e), k) = IF d.entries[k] = Unrecorded THEN Tenure(0, Base)
                                     ELSE Tenure(d.entries[k].tenure, d.entries[k].impl)
      <4>1. CASE s.entries[k] = Unrecorded BY <1>16, <3>2, <4>1
      <4>2. CASE s.entries[k] # Unrecorded BY <1>16, <3>1, <3>2, <4>2
      <4> QED BY <4>1, <4>2
    <3> QED BY <3>4, <3>5, <3>6
  <2> QED BY <2>1, <2>2
<1>18. Len(Append(l, e)) = Len(l) + 1 /\ Len(l) \in Nat BY <1>3
<1>19. d.revision <= Len(l) + 1 /\ d.ordinal <= Len(l) + 1
  BY <1>1, <1>9, <1>10, <1>18 DEF s
<1>20. SoundFold(Append(l, e)) BY <1>7, <1>13, <1>14, <1>17, <1>18, <1>19 DEF SoundFold
<1>21. d # NoState
  <2>1. NoState.revision = 0 BY DEF NoState
  <2> QED BY <1>9, <1>10, <2>1
<1> QED BY <1>3, <1>6, <1>7, <1>20, <1>21 DEF e, s

\* An activation's state, entry by entry.
LEMMA ActivateShape ==
  ASSUME NEW s \in States, NEW e, e.key \in Keys, e.closing \in Nat, e.to \in Impls,
         e.ordinal \in Nat, ChainIndex(Declared(s.policy)[e.key], e.to) \in 0..2
  PROVE  LET d == Activate(s, e) IN
         /\ d \in States
         /\ d.revision = s.revision + 1 /\ d.policy = s.policy /\ d.ordinal = e.ordinal
         /\ d.entries[e.key] = [tenure |-> e.closing + 1, impl |-> e.to,
                                pos |-> ChainIndex(Declared(s.policy)[e.key], e.to)]
         /\ \A k \in Keys \ {e.key} : d.entries[k] = s.entries[k]
<1> DEFINE new == [tenure |-> e.closing + 1, impl |-> e.to,
                   pos |-> ChainIndex(Declared(s.policy)[e.key], e.to)]
           E == [s.entries EXCEPT ![e.key] = new]
<1>1. /\ s = [revision |-> s.revision, policy |-> s.policy, ordinal |-> s.ordinal,
              entries |-> s.entries]
      /\ s.revision \in Nat /\ s.policy \in Seq(Entries)
      /\ s.entries \in [Keys -> EntryStates]
  BY DEF States
<1>2. Activate(s, e) = [s EXCEPT !.revision = @ + 1, !.ordinal = e.ordinal,
                                 !.entries[e.key] = new]
  BY DEF Activate
<1>3. new \in EntryStates BY DEF EntryStates
<1> HIDE DEF new
<1>4. /\ E \in [Keys -> EntryStates] /\ E[e.key] = new
      /\ \A k \in Keys \ {e.key} : E[k] = s.entries[k]
  BY <1>1, <1>3
<1>5. Activate(s, e) = [revision |-> s.revision + 1, policy |-> s.policy,
                        ordinal |-> e.ordinal, entries |-> E]
  BY <1>1, <1>2
<1> HIDE DEF E
<1>6. Activate(s, e) \in States BY <1>1, <1>4, <1>5 DEF States
<1> QED BY <1>4, <1>5, <1>6 DEF new

\* An activation that closes the entry's tenure folds soundly.
LEMMA ActivateSound ==
  ASSUME NEW l \in Seq(Events), SoundFold(l), NEW q \in Activations,
         MayClose(Fold(l), ActivatedEvent(Fold(l), q))
  PROVE  LET e == ActivatedEvent(Fold(l), q) IN
         /\ e \in Events
         /\ Fold(Append(l, e)) = FoldEvent(Fold(l), e)
         /\ FoldEvent(Fold(l), e) # NoState
         /\ SoundFold(Append(l, e))
<1> DEFINE s == Fold(l)
           e == ActivatedEvent(s, q)
           d == Activate(s, e)
           entry == Declared(s.policy)[q.key]
<1>1. s \in States /\ Listed(s) /\ s.revision <= Len(l) /\ s.ordinal <= Len(l)
  BY DEF SoundFold
<1>2. /\ s.revision \in Nat /\ s.ordinal \in Nat /\ s.policy \in Seq(Entries)
      /\ s.entries \in [Keys -> EntryStates]
  BY <1>1 DEF States
<1>3. /\ e.kind = "activated" /\ e.policy = s.policy /\ e.key = q.key /\ e.closing = q.closing
      /\ e.from = q.from /\ e.to = q.to /\ e.ordinal = s.ordinal + 1
      /\ e.code = q.code /\ e.origin = q.origin
      /\ e = [kind |-> "activated", policy |-> s.policy, key |-> q.key, closing |-> q.closing,
              from |-> q.from, to |-> q.to, code |-> q.code, origin |-> q.origin,
              ordinal |-> s.ordinal + 1]
  BY DEF ActivatedEvent
<1>4. /\ q.key \in DOMAIN Declared(s.policy)
      /\ s.entries[q.key].tenure = q.closing /\ s.entries[q.key].impl = q.from
      /\ ChainIndex(entry, q.to) >= 0
  BY <1>3 DEF MayClose
<1>5. q.key \in Keys /\ entry.chain \in Seq(Impls) /\ Len(entry.chain) \in 1..3
  BY <1>2, <1>4, DeclaredOK
<1> HIDE DEF s, e, entry
<1>6. /\ q.to \in Impls /\ ChainIndex(entry, q.to) \in 0..2
      /\ ChainIndex(entry, q.to) < Len(entry.chain)
      /\ entry.chain[ChainIndex(entry, q.to) + 1] = q.to
  BY <1>4, <1>5, ChainIndexOK
<1>7. s.entries[q.key].impl \in Impls /\ s.entries[q.key].pos \in 0..2
  <2>1. s.entries[q.key].pos \in 0..2 BY <1>2, <1>5 DEF EntryStates
  <2>2. /\ s.entries[q.key].pos < Len(entry.chain)
        /\ entry.chain[s.entries[q.key].pos + 1] = s.entries[q.key].impl
    BY <1>1, <1>4 DEF Listed, entry
  <2>3. s.entries[q.key].pos + 1 \in 1..Len(entry.chain) BY <1>5, <2>1, <2>2
  <2> QED BY <1>5, <2>1, <2>2, <2>3
<1>8. s.entries[q.key] # Unrecorded
  <2>1. Unrecorded.impl = -1 /\ -1 \notin Impls BY DEF Unrecorded, Impls
  <2> QED BY <1>7, <2>1
<1>9. ASSUME NEW k \in Keys
      PROVE  /\ Closure(l, k) = IF s.entries[k] = Unrecorded THEN Tenure(0, Base)
                                ELSE Tenure(s.entries[k].tenure, s.entries[k].impl)
             /\ s.entries[k].tenure <= Len(l)
             /\ s.entries[k] # Unrecorded => s.entries[k].tenure >= 0
  BY DEF SoundFold, s
<1>10. q.closing \in Nat /\ q.from \in Impls /\ q.closing <= Len(l)
  <2>1. s.entries[q.key].tenure \in {-1} \cup Nat BY <1>2, <1>5 DEF EntryStates
  <2>2. s.entries[q.key].tenure >= 0 /\ s.entries[q.key].tenure <= Len(l)
    BY <1>5, <1>8, <1>9
  <2> QED BY <1>4, <1>7, <2>1, <2>2
<1>11. e \in Events
  <2>1. q.code \in Codes /\ q.origin \in Origins BY DEF Activations
  <2>2. s.ordinal + 1 \in Nat BY <1>2
  <2> QED BY <1>2, <1>3, <1>5, <1>6, <1>10, <2>1, <2>2 DEF Events
<1>12. FoldEvent(s, e) = d
  <2>1. s # Corrupt BY <1>1, StatesNotCorrupt
  <2>2. MayClose(s, e) BY DEF s, e
  <2>3. FoldEvent(s, e) = ApplyActivated(s, e) BY <1>3, <2>1 DEF FoldEvent
  <2>4. ApplyActivated(s, e) = d BY <1>3, <2>2 DEF ApplyActivated
  <2> QED BY <2>3, <2>4
<1>13. Fold(Append(l, e)) = d
  <2>1. Fold(Append(l, e)) = FoldEvent(s, e) BY <1>11, FoldAppend DEF s
  <2> QED BY <1>12, <2>1
<1>14. /\ d \in States
       /\ d.revision = s.revision + 1 /\ d.policy = s.policy /\ d.ordinal = s.ordinal + 1
       /\ d.entries[q.key] = [tenure |-> q.closing + 1, impl |-> q.to,
                              pos |-> ChainIndex(entry, q.to)]
       /\ \A k \in Keys \ {q.key} : d.entries[k] = s.entries[k]
  <2>1. /\ e.key \in Keys /\ e.closing \in Nat /\ e.to \in Impls /\ e.ordinal \in Nat
        /\ ChainIndex(Declared(s.policy)[e.key], e.to) \in 0..2
    BY <1>2, <1>3, <1>5, <1>6, <1>10 DEF entry
  <2>2. /\ d \in States
        /\ d.revision = s.revision + 1 /\ d.policy = s.policy /\ d.ordinal = e.ordinal
        /\ d.entries[e.key] = [tenure |-> e.closing + 1, impl |-> e.to,
                               pos |-> ChainIndex(Declared(s.policy)[e.key], e.to)]
        /\ \A k \in Keys \ {e.key} : d.entries[k] = s.entries[k]
    BY <1>1, <2>1, ActivateShape
  <2> QED BY <1>3, <2>2 DEF entry
<1> HIDE DEF d
<1>15. Listed(d)
  <2> SUFFICES ASSUME NEW k \in DOMAIN Declared(s.policy)
               PROVE  /\ d.entries[k].pos < Len(Declared(s.policy)[k].chain)
                      /\ Declared(s.policy)[k].chain[d.entries[k].pos + 1] = d.entries[k].impl
    BY <1>14 DEF Listed
  <2>1. CASE k = q.key BY <1>6, <1>14, <2>1 DEF entry
  <2>2. CASE k # q.key
    <3>1. k \in Keys BY <1>2, DeclaredOK
    <3>2. d.entries[k] = s.entries[k] BY <1>14, <2>2, <3>1
    <3> QED BY <1>1, <3>2 DEF Listed
  <2> QED BY <2>1, <2>2
<1>16. ASSUME NEW k \in Keys
       PROVE  /\ d.entries[k].tenure <= Len(l) + 1
              /\ Closure(Append(l, e), k) =
                   IF d.entries[k] = Unrecorded THEN Tenure(0, Base)
                   ELSE Tenure(d.entries[k].tenure, d.entries[k].impl)
              /\ d.entries[k] # Unrecorded => d.entries[k].tenure >= 0
  <2>0. Len(l) \in Nat OBVIOUS
  <2>1. Closure(Append(l, e), k) = CloseEvent(Closure(l, k), e, k) BY <1>11, ClosureAppend
  <2>2. CASE k = q.key
    <3>1. Closure(l, k) = Tenure(q.closing, q.from) BY <1>4, <1>8, <1>9, <2>2
    <3>2. CloseEvent(Closure(l, k), e, k) = Tenure(q.closing + 1, q.to)
      BY <1>3, <2>2, <3>1 DEF CloseEvent
    <3>3. d.entries[k].tenure = q.closing + 1 /\ d.entries[k].impl = q.to BY <1>14, <2>2
    <3>4. d.entries[k] # Unrecorded
      <4>1. Unrecorded.impl = -1 /\ -1 \notin Impls BY DEF Unrecorded, Impls
      <4> QED BY <1>6, <3>3, <4>1
    <3> QED BY <1>10, <2>0, <2>1, <3>2, <3>3, <3>4
  <2>3. CASE k # q.key
    <3>1. d.entries[k] = s.entries[k] BY <1>14, <2>3
    <3>2. CloseEvent(Closure(l, k), e, k) = Closure(l, k) BY <1>3, <2>3 DEF CloseEvent
    <3>3. s.entries[k].tenure \in Int
      <4>1. s.entries[k].tenure \in {-1} \cup Nat BY <1>2 DEF EntryStates
      <4> QED BY <4>1
    <3>4. d.entries[k].tenure <= Len(l) + 1 BY <1>9, <2>0, <3>1, <3>3
    <3> QED BY <1>9, <2>1, <3>1, <3>2, <3>4
  <2> QED BY <2>2, <2>3
<1>17. Len(Append(l, e)) = Len(l) + 1 /\ Len(l) \in Nat BY <1>11
<1>18. d.revision <= Len(l) + 1 /\ d.ordinal <= Len(l) + 1 BY <1>1, <1>2, <1>14, <1>17
<1>19. SoundFold(Append(l, e)) BY <1>13, <1>14, <1>15, <1>16, <1>17, <1>18 DEF SoundFold
<1>20. d # NoState
  <2>1. NoState.revision = 0 BY DEF NoState
  <2> QED BY <1>2, <1>14, <2>1
<1> QED BY <1>11, <1>12, <1>13, <1>19, <1>20 DEF e, s

----------------------------------------------------------------------------
(* The store                                                               *)

\* What a plan to commit has checked, and what it writes.
LEMMA PlanCommits ==
  ASSUME NEW t, NEW q, Plan(t, q).kind = "commit"
  PROVE  LET s == Fold(log[t])
             e == IF q.kind = "declared" THEN DeclaredEvent(s, q) ELSE ActivatedEvent(s, q) IN
         /\ RowChecked(t) /\ Fresh(t, s, q)
         /\ q.kind = "declared" => MayDeclare(s, q.policy)
         /\ q.kind = "activated" => MayClose(s, e)
         /\ Plan(t, q).event = e /\ Plan(t, q).state = FoldEvent(s, e)
         /\ Plan(t, q).row = [request |-> q, revision |-> FoldEvent(s, e).revision,
                              seq |-> Len(log[t]) + 1]
<1> DEFINE s == Fold(log[t])
           e == IF q.kind = "declared" THEN DeclaredEvent(s, q) ELSE ActivatedEvent(s, q)
           ready == /\ RowChecked(t) /\ Occupants(t, q) = {} /\ Fresh(t, s, q)
                    /\ ~(q.kind = "declared" /\ ~MayDeclare(s, q.policy))
                    /\ ~(q.kind = "activated" /\ ~(MayClose(s, e) /\ RulesHold(s, e)))
           planned == [kind |-> "commit", event |-> e, state |-> FoldEvent(s, e),
                       row |-> [request |-> q, revision |-> FoldEvent(s, e).revision,
                                seq |-> Len(log[t]) + 1]]
<1>1. ready => Plan(t, q) = planned BY DEF Plan
<1>2. ~ready => Plan(t, q).kind # "commit" BY DEF Plan, Refusal
<1>3. ready BY <1>2
<1> QED BY <1>1, <1>3

\* The row a plan commits or replays records an operation.
LEMMA PlanRow ==
  ASSUME Typed, PrefixesSound, NEW t \in Timelines, NEW q \in Activations,
         Plan(t, q).kind \in {"commit", "replay"}
  PROVE  Plan(t, q).row \in Operations
<1> DEFINE s == Fold(log[t])
           e == ActivatedEvent(s, q)
<1>0. log[t] \in Seq(Events) /\ q.kind = "activated" BY DEF Typed, Activations
<1>1. CASE Plan(t, q).kind = "commit"
  <2>1. SoundFold(log[t])
    <3>1. SubSeq(log[t], 1, Len(log[t])) = log[t] BY <1>0, SubSeqFull
    <3>2. Len(log[t]) \in 0..Len(log[t]) BY <1>0
    <3> QED BY <3>1, <3>2 DEF PrefixesSound
  <2>2. MayClose(s, e) BY <1>0, <1>1, PlanCommits
  <2>3. e \in Events /\ FoldEvent(s, e) = Fold(Append(log[t], e)) /\ SoundFold(Append(log[t], e))
    BY <1>0, <2>1, <2>2, ActivateSound
  <2>4. FoldEvent(s, e).revision \in Nat BY <2>3 DEF SoundFold, States
  <2>5. Plan(t, q).row = [request |-> q, revision |-> FoldEvent(s, e).revision,
                          seq |-> Len(log[t]) + 1]
    BY <1>0, <1>1, PlanCommits
  <2>6. Len(log[t]) + 1 \in Nat BY <1>0
  <2> HIDE DEF s, e
  <2> QED BY <2>4, <2>5, <2>6 DEF Operations
<1>2. CASE Plan(t, q).kind = "replay"
  <2>1. Occupants(t, q) # {} /\ Plan(t, q).row = CHOOSE r \in Occupants(t, q) : TRUE
    BY <1>2 DEF Plan, Refusal
  <2>2. Plan(t, q).row \in Occupants(t, q) BY <2>1
  <2>3. PICK i \in DOMAIN ledger[t] : Plan(t, q).row = ledger[t][i] BY <2>2 DEF Occupants
  <2>4. ledger[t] \in Seq(Operations) BY DEF Typed
  <2> QED BY <2>3, <2>4
<1> QED BY <1>1, <1>2

\* The whole log is one of its prefixes.
LEMMA WholeSound ==
  ASSUME Typed, PrefixesSound, NEW t \in Timelines
  PROVE  log[t] \in Seq(Events) /\ SoundFold(log[t]) /\ Fold(log[t]) \in States
<1>1. log[t] \in Seq(Events) BY DEF Typed
<1>2. SubSeq(log[t], 1, Len(log[t])) = log[t] BY <1>1, SubSeqFull
<1>3. Len(log[t]) \in 0..Len(log[t]) BY <1>1
<1>4. SoundFold(log[t]) BY <1>2, <1>3 DEF PrefixesSound
<1> QED BY <1>1, <1>4 DEF SoundFold

\* What a host derives is a state, in which every declared entry is listed.
LEMMA EffectiveOK ==
  ASSUME Typed, PrefixesSound, NEW t \in Timelines
  PROVE  Effective(t) \in States
<1>1. Fold(log[t]) \in States BY WholeSound
<1>2. row[t] \in States BY DEF Typed
<1> QED BY <1>1, <1>2 DEF Effective

\* A log that is extended by a sound Event keeps its prefixes sound.
LEMMA AppendKeeps ==
  ASSUME Typed, PrefixesSound, NEW t \in Timelines, NEW e \in Events,
         SoundFold(Append(log[t], e)), log' = [log EXCEPT ![t] = Append(@, e)]
  PROVE  /\ log' \in [Timelines -> Seq(Events)] /\ PrefixesSound'
         /\ \A u \in Timelines : Len(log[u]) <= Len(log'[u])
              /\ \A n \in 0..Len(log[u]) : SubSeq(log'[u], 1, n) = SubSeq(log[u], 1, n)
<1>1. log \in [Timelines -> Seq(Events)] BY DEF Typed
<1>2. log'[t] = Append(log[t], e) /\ \A u \in Timelines \ {t} : log'[u] = log[u] BY <1>1
<1>3. /\ log'[t] \in Seq(Events) /\ Len(log'[t]) = Len(log[t]) + 1
      /\ \A n \in 0..Len(log[t]) : SubSeq(log'[t], 1, n) = SubSeq(log[t], 1, n)
      /\ SubSeq(log'[t], 1, Len(log[t]) + 1) = log'[t]
  <2>1. log[t] \in Seq(Events) BY <1>1
  <2> QED BY <1>2, <2>1, AppendPrefix
<1>4. log' \in [Timelines -> Seq(Events)] BY <1>1, <1>3
<1>5. ASSUME NEW u \in Timelines, NEW n \in 0..Len(log'[u])
      PROVE  SoundFold(SubSeq(log'[u], 1, n))
  <2>1. CASE u # t BY <1>2, <1>5, <2>1 DEF PrefixesSound
  <2>2. CASE u = t /\ n \in 0..Len(log[t]) BY <1>3, <2>2 DEF PrefixesSound
  <2>3. CASE u = t /\ n \notin 0..Len(log[t])
    <3>1. n = Len(log[t]) + 1
      <4>1. Len(log[t]) \in Nat BY <1>1
      <4> QED BY <1>3, <1>5, <2>3, <4>1
    <3> QED BY <1>2, <1>3, <2>3, <3>1
  <2> QED BY <2>1, <2>2, <2>3
<1>6. ASSUME NEW u \in Timelines
      PROVE  Len(log[u]) <= Len(log'[u])
              /\ \A n \in 0..Len(log[u]) : SubSeq(log'[u], 1, n) = SubSeq(log[u], 1, n)
  <2>1. Len(log[u]) \in Nat BY <1>1
  <2>2. CASE u # t BY <1>2, <2>1, <2>2
  <2>3. CASE u = t BY <1>3, <2>1, <2>3
  <2> QED BY <2>2, <2>3
<1> QED BY <1>4, <1>5, <1>6 DEF PrefixesSound

\* What a step keeps of the store, and that it only extends the logs.
LogsGrow ==
  \A u \in Timelines :
    /\ Len(log[u]) <= Len(log'[u])
    /\ \A n \in 0..Len(log[u]) : SubSeq(log'[u], 1, n) = SubSeq(log[u], 1, n)

StoreKept ==
  /\ log' \in [Timelines -> Seq(Events)]
  /\ row' \in [Timelines -> States]
  /\ ledger' \in [Timelines -> Seq(Operations)]
  /\ PrefixesSound' /\ RowIsFold'
  /\ LogsGrow

\* A step that leaves the store alone.
LEMMA UnchangedKeeps ==
  ASSUME Typed, PrefixesSound, RowIsFold, UNCHANGED store
  PROVE  StoreKept
<1>1. log' = log /\ row' = row /\ ledger' = ledger BY DEF store
<1>2. PrefixesSound' BY <1>1 DEF PrefixesSound
<1>3. RowIsFold' BY <1>1 DEF RowIsFold, RowChecked
<1>4. LogsGrow
  <2>1. \A u \in Timelines : Len(log[u]) \in Nat BY DEF Typed
  <2> QED BY <1>1, <2>1 DEF LogsGrow
<1> QED BY <1>1, <1>2, <1>3, <1>4 DEF Typed, StoreKept

\* An Event, its row and its ledger row are written together.
LEMMA WriteKeeps ==
  ASSUME Typed, PrefixesSound, RowIsFold, NEW t \in Timelines, NEW e \in Events,
         SoundFold(Append(log[t], e)), NEW r \in Operations,
         Fold(Append(log[t], e)) # NoState, r.revision = Fold(Append(log[t], e)).revision,
         log' = [log EXCEPT ![t] = Append(@, e)],
         row' = [row EXCEPT ![t] = Fold(Append(log[t], e))],
         ledger' = [ledger EXCEPT ![t] = Append(@, r)]
  PROVE  StoreKept
<1> DEFINE s == Fold(Append(log[t], e))
<1>1. s \in States BY DEF SoundFold
<1>2. s # Corrupt BY <1>1, StatesNotCorrupt
<1>3. log' \in [Timelines -> Seq(Events)] /\ PrefixesSound' /\ LogsGrow
  BY AppendKeeps DEF LogsGrow
<1>4. log \in [Timelines -> Seq(Events)] /\ row \in [Timelines -> States]
      /\ ledger \in [Timelines -> Seq(Operations)]
  BY DEF Typed
<1>5. log'[t] = Append(log[t], e) /\ row'[t] = s /\ ledger'[t] = Append(ledger[t], r) BY <1>4
<1>6. \A u \in Timelines \ {t} : log'[u] = log[u] /\ row'[u] = row[u] /\ ledger'[u] = ledger[u]
  BY <1>4
<1>7. row' \in [Timelines -> States] BY <1>1, <1>4
<1>8. /\ ledger'[t] \in Seq(Operations) /\ ledger'[t] # <<>>
      /\ ledger'[t][Len(ledger'[t])] = r
  <2>1. ledger[t] \in Seq(Operations) BY <1>4
  <2>2. /\ Append(ledger[t], r) \in Seq(Operations)
        /\ Len(Append(ledger[t], r)) = Len(ledger[t]) + 1
        /\ Append(ledger[t], r)[Len(ledger[t]) + 1] = r
    BY <2>1, AppendProperties
  <2>3. Append(ledger[t], r) # <<>>
    <3>1. Len(ledger[t]) + 1 # 0 /\ Len(<<>>) = 0 BY <2>1
    <3> QED BY <2>2, <3>1
  <2>4. Append(ledger[t], r)[Len(Append(ledger[t], r))] = r BY <2>2
  <2> QED BY <1>5, <2>2, <2>3, <2>4
<1>9. ledger' \in [Timelines -> Seq(Operations)] BY <1>4, <1>8
<1>10. ASSUME NEW u \in Timelines PROVE RowChecked(u)'
  <2>1. CASE u = t
    <3>1. Fold(log'[t]) = s BY <1>5
    <3> HIDE DEF s
    <3>2. row'[t] # NoState /\ r.revision = s.revision BY <1>5 DEF s
    <3> QED BY <1>2, <1>5, <1>8, <2>1, <3>1, <3>2 DEF RowChecked
  <2>2. CASE u # t
    <3>1. log'[u] = log[u] /\ row'[u] = row[u] /\ ledger'[u] = ledger[u] BY <1>6, <2>2
    <3>2. RowChecked(u) BY DEF RowIsFold
    <3> QED BY <3>1, <3>2 DEF RowChecked
  <2> QED BY <2>1, <2>2
<1> QED BY <1>3, <1>7, <1>9, <1>10 DEF StoreKept, RowIsFold

\* A committed activation keeps the store.
LEMMA ActivationKeeps ==
  ASSUME Typed, PrefixesSound, RowIsFold, NEW t \in Timelines, NEW q \in Activations,
         Plan(t, q).kind = "commit", Commit(t, Plan(t, q))
  PROVE  StoreKept
<1> DEFINE s == Fold(log[t])
           e == ActivatedEvent(s, q)
<1>1. log[t] \in Seq(Events) /\ SoundFold(log[t]) /\ q.kind = "activated"
  BY WholeSound DEF Activations
<1>2. /\ MayClose(s, e) /\ Plan(t, q).event = e /\ Plan(t, q).state = FoldEvent(s, e)
      /\ Plan(t, q).row = [request |-> q, revision |-> FoldEvent(s, e).revision,
                           seq |-> Len(log[t]) + 1]
  BY <1>1, PlanCommits
<1>3. /\ e \in Events /\ Fold(Append(log[t], e)) = FoldEvent(s, e)
      /\ FoldEvent(s, e) # NoState /\ SoundFold(Append(log[t], e))
  BY <1>1, <1>2, ActivateSound
<1>4. Plan(t, q).row \in Operations BY PlanRow
<1>5. Plan(t, q).row.revision = Fold(Append(log[t], e)).revision BY <1>2, <1>3
<1> HIDE DEF s, e
<1>6. /\ log' = [log EXCEPT ![t] = Append(@, e)]
      /\ row' = [row EXCEPT ![t] = Fold(Append(log[t], e))]
      /\ ledger' = [ledger EXCEPT ![t] = Append(@, Plan(t, q).row)]
  BY <1>2, <1>3 DEF Commit
<1>7. Fold(Append(log[t], e)) # NoState BY <1>3
<1> QED BY <1>3, <1>4, <1>5, <1>6, <1>7, WriteKeeps

\* A committed declaration keeps the store: it was fresh, so the slots run what
\* they ran when it was derived.
LEMMA DeclarationKeeps ==
  ASSUME Typed, PrefixesSound, RowIsFold, NEW t \in Timelines, NEW q \in Declarations,
         Plan(t, q).kind = "commit", Commit(t, Plan(t, q)), RequireEffective(q),
         \A k \in Keys : q.runs[k] = Closure(SubSeq(log[t], 1, q.head), k).impl
  PROVE  StoreKept
<1> DEFINE s == Fold(log[t])
           e == DeclaredEvent(s, q)
<1>1. log[t] \in Seq(Events) /\ SoundFold(log[t]) /\ q.kind = "declared"
  BY WholeSound DEF Declarations
<1>2. /\ MayDeclare(s, q.policy) /\ Fresh(t, s, q)
      /\ Plan(t, q).event = e /\ Plan(t, q).state = FoldEvent(s, e)
      /\ Plan(t, q).row = [request |-> q, revision |-> FoldEvent(s, e).revision,
                           seq |-> Len(log[t]) + 1]
  BY <1>1, PlanCommits
<1>3. \A k \in DOMAIN Declared(q.policy) : Closure(log[t], k).impl = Declared(q.policy)[k].chain[1]
  <2>1. SubSeq(log[t], 1, q.head) = log[t] BY <1>1, <1>2, SubSeqFull DEF Fresh
  <2>2. q.policy \in Seq(Entries) BY DEF Declarations
  <2>3. DOMAIN Declared(q.policy) \subseteq Keys BY <2>2, DeclaredOK
  <2> QED BY <2>1, <2>3 DEF RequireEffective
<1>4. /\ e \in Events /\ Fold(Append(log[t], e)) = FoldEvent(s, e)
      /\ FoldEvent(s, e) # NoState /\ SoundFold(Append(log[t], e))
  BY <1>1, <1>2, <1>3, DeclareSound
<1>5. Plan(t, q).row \in Operations
  <2>1. FoldEvent(s, e).revision \in Nat BY <1>4 DEF SoundFold, States
  <2>2. Len(log[t]) + 1 \in Nat BY <1>1
  <2> HIDE DEF s, e
  <2> QED BY <1>2, <2>1, <2>2 DEF Operations
<1>6. Plan(t, q).row.revision = Fold(Append(log[t], e)).revision BY <1>2, <1>4
<1> HIDE DEF s, e
<1>7. /\ log' = [log EXCEPT ![t] = Append(@, e)]
      /\ row' = [row EXCEPT ![t] = Fold(Append(log[t], e))]
      /\ ledger' = [ledger EXCEPT ![t] = Append(@, Plan(t, q).row)]
  BY <1>2, <1>4 DEF Commit
<1>8. Fold(Append(log[t], e)) # NoState BY <1>4
<1> QED BY <1>4, <1>5, <1>6, <1>7, <1>8, WriteKeeps

\* A call through a host's handle commits its plan or leaves the store alone,
\* and answers ok only for a plan to commit or to replay.
LEMMA CallEffect ==
  ASSUME NEW h, NEW p, NEW result, NEW poison, Call(h, p, result, poison)
  PROVE  /\ UNCHANGED store \/ (p.kind = "commit" /\ Commit(host[h].t, p))
         /\ result = "ok" => p.kind \in {"commit", "replay"}
BY DEF Call, Transact

\* The activation of a host keeps the store.
LEMMA ActivationCallKeeps ==
  ASSUME Typed, PrefixesSound, RowIsFold, NEW h \in Hosts, host[h].req \in Activations,
         NEW result, NEW poison, Call(h, Plan(host[h].t, host[h].req), result, poison)
  PROVE  /\ StoreKept
         /\ result = "ok" => Plan(host[h].t, host[h].req).row \in Operations
<1> DEFINE t == host[h].t
           q == host[h].req
<1>1. t \in Timelines BY DEF Typed, HostStates
<1>2. /\ UNCHANGED store \/ (Plan(t, q).kind = "commit" /\ Commit(t, Plan(t, q)))
      /\ result = "ok" => Plan(t, q).kind \in {"commit", "replay"}
  BY CallEffect
<1> HIDE DEF t, q
<1>3. q \in Activations BY DEF q
<1>4. ASSUME UNCHANGED store PROVE StoreKept BY <1>4, UnchangedKeeps
<1>5. ASSUME Plan(t, q).kind = "commit", Commit(t, Plan(t, q)) PROVE StoreKept
  BY <1>1, <1>3, <1>5, ActivationKeeps
<1>6. result = "ok" => Plan(t, q).row \in Operations BY <1>1, <1>2, <1>3, PlanRow
<1> QED BY <1>2, <1>4, <1>5, <1>6 DEF t, q

\* A Fork inherits a prefix; it has neither row nor ledger.
LEMMA ForkKeeps ==
  ASSUME Typed, PrefixesSound, RowIsFold, NEW t \in Timelines, NEW cut \in DOMAIN log[1],
         Fork(t, cut)
  PROVE  StoreKept
<1>1. log \in [Timelines -> Seq(Events)] /\ 1 \in Timelines BY NumberingAssumption DEF Typed
<1>2. /\ t # 1 /\ log[t] = <<>> /\ log' = [log EXCEPT ![t] = SubSeq(log[1], 1, cut)]
      /\ row' = row /\ ledger' = ledger
  BY DEF Fork
<1>3. log'[t] = SubSeq(log[1], 1, cut) /\ \A u \in Timelines \ {t} : log'[u] = log[u]
  BY <1>1, <1>2
<1>4. log[1] \in Seq(Events) /\ cut \in 0..Len(log[1]) BY <1>1
<1>5. /\ log'[t] \in Seq(Events) /\ Len(log'[t]) = cut
      /\ \A n \in 0..cut : SubSeq(log'[t], 1, n) = SubSeq(log[1], 1, n)
  BY <1>3, <1>4, PrefixOfPrefix
<1>6. log' \in [Timelines -> Seq(Events)] BY <1>1, <1>2, <1>5
<1>7. ASSUME NEW u \in Timelines, NEW n \in 0..Len(log'[u])
      PROVE  SoundFold(SubSeq(log'[u], 1, n))
  <2>1. CASE u # t BY <1>3, <1>7, <2>1 DEF PrefixesSound
  <2>2. CASE u = t
    <3>1. n \in 0..cut /\ n \in 0..Len(log[1]) BY <1>4, <1>5, <1>7, <2>2
    <3> QED BY <1>1, <1>5, <2>2, <3>1 DEF PrefixesSound
  <2> QED BY <2>1, <2>2
<1>8. LogsGrow
  <2> SUFFICES ASSUME NEW u \in Timelines
               PROVE  /\ Len(log[u]) <= Len(log'[u])
                      /\ \A n \in 0..Len(log[u]) : SubSeq(log'[u], 1, n) = SubSeq(log[u], 1, n)
    BY DEF LogsGrow
  <2>1. Len(log[u]) \in Nat BY <1>1
  <2>2. CASE u # t BY <1>3, <2>1, <2>2
  <2>3. CASE u = t
    <3>1. Len(log[u]) = 0 BY <1>2, <2>3
    <3>2. cut >= 0 BY <1>4
    <3>3. SubSeq(log'[t], 1, 0) = <<>> /\ SubSeq(log[t], 1, 0) = <<>> BY <1>1, <1>5
    <3> QED BY <1>5, <2>3, <3>1, <3>2, <3>3
  <2> QED BY <2>2, <2>3
<1>9. ASSUME NEW u \in Timelines PROVE RowChecked(u)'
  <2>0. RowChecked(u) BY DEF RowIsFold
  <2>1. CASE u # t
    <3>1. log'[u] = log[u] BY <1>3, <2>1
    <3> QED BY <1>2, <2>0, <3>1 DEF RowChecked
  <2>2. CASE u = t
    <3>1. row[t] = NoState /\ ledger[t] = <<>>
      <4>1. Fold(log[t]) = NoState BY <1>2, FoldEmpty
      <4> QED BY <2>0, <2>2, <4>1 DEF RowChecked
    <3>2. Fold(log'[t]) # Corrupt
      <4>1. SubSeq(log'[t], 1, Len(log'[t])) = log'[t] BY <1>5, SubSeqFull
      <4>2. Len(log'[t]) \in 0..Len(log'[t]) BY <1>5
      <4>3. SoundFold(log'[t]) BY <1>7, <4>1, <4>2
      <4> QED BY <4>3, StatesNotCorrupt DEF SoundFold
    <3> QED BY <1>2, <2>2, <3>1, <3>2 DEF RowChecked
  <2> QED BY <2>1, <2>2
<1> QED BY <1>2, <1>6, <1>7, <1>8, <1>9 DEF StoreKept, PrefixesSound, RowIsFold, Typed

----------------------------------------------------------------------------
(* The hosts                                                               *)

\* A host at the Tick Boundary is sound.
LEMMA IdleOK ==
  ASSUME NEW s \in HostStates
  PROVE  Idle(s) \in HostStates /\ HostSound(Idle(s))
<1>1. NoState \in States BY DEF NoState, States, EntryStates, Unrecorded, NoPolicy
<1>2. /\ Idle(s).pc = "idle" /\ Idle(s).todo = {}
      /\ Idle(s) \in HostStates
  BY <1>1 DEF Idle, HostStates
<1> QED BY <1>2 DEF HostSound

\* A host that goes on to its next declared entry is sound.
LEMMA OnwardOK ==
  ASSUME NEW s \in HostStates, NEW k, s.todo \subseteq DOMAIN Declared(s.seen.policy)
  PROVE  Onward(s, k) \in HostStates /\ HostSound(Onward(s, k))
<1>1. CASE s.todo \subseteq {k} BY <1>1, IdleOK DEF Onward
<1>2. CASE ~(s.todo \subseteq {k})
  <2> DEFINE n == [s EXCEPT !.pc = "walk", !.todo = @ \ {k}, !.req = NoRequest,
                            !.found = NoRequest]
  <2>1. Onward(s, k) = n BY <1>2 DEF Onward
  <2>2. s.todo \in SUBSET Keys BY DEF HostStates
  <2>3. n \in HostStates BY <2>2 DEF HostStates
  <2>4. n.pc = "walk" /\ n.todo = s.todo \ {k} /\ n.seen = s.seen BY DEF HostStates
  <2> HIDE DEF n
  <2>5. HostSound(n) BY <1>2, <2>4 DEF HostSound
  <2> QED BY <2>1, <2>3, <2>5
<1> QED BY <1>1, <1>2

\* An observation is of a known implementation.
LEMMA ObserveOK ==
  ASSUME NEW s \in HostStates, NEW k \in Keys
  PROVE  /\ Observe(s, k) \in HostStates
         /\ Observe(s, k).todo = s.todo /\ Observe(s, k).seen = s.seen
<1>1. s.seen.entries[k].impl \in {-1} \cup Impls BY DEF HostStates, States, EntryStates
<1>2. [impl |-> s.seen.entries[k].impl, code |-> "limit"]
        \in [impl : {-1} \cup Impls, code : Codes \cup {"none"}]
  BY <1>1 DEF Codes
<1>3. s.obs \in [Keys -> [impl : {-1} \cup Impls, code : Codes \cup {"none"}]] BY DEF HostStates
<1>4. [s.obs EXCEPT ![k] = [impl |-> s.seen.entries[k].impl, code |-> "limit"]]
        \in [Keys -> [impl : {-1} \cup Impls, code : Codes \cup {"none"}]]
  BY <1>2, <1>3
<1> QED BY <1>4 DEF Observe, HostStates

\* A request for a listed implementation is an activation.
LEMMA RequestOK ==
  ASSUME NEW s \in States, NEW k \in DOMAIN Declared(s.policy),
         NEW i \in 0 .. Len(Declared(s.policy)[k].chain) - 1,
         NEW code \in Codes, NEW origin \in Origins, NEW revision \in Nat, NEW head \in Nat
  PROVE  Request(s, k, i, code, origin, revision, head) \in Activations
<1>1. s.policy \in Seq(Entries) /\ s.entries \in [Keys -> EntryStates] BY DEF States
<1>2. /\ k \in Keys /\ Declared(s.policy)[k].chain \in Seq(Impls)
      /\ Len(Declared(s.policy)[k].chain) \in 1..3
  BY <1>1, DeclaredOK
<1>3. i + 1 \in 1 .. Len(Declared(s.policy)[k].chain) BY <1>2
<1>4. Declared(s.policy)[k].chain[i + 1] \in Impls BY <1>2, <1>3
<1>5. s.entries[k].tenure \in {-1} \cup Nat /\ s.entries[k].impl \in {-1} \cup Impls
  BY <1>1, <1>2 DEF EntryStates
<1> QED BY <1>2, <1>4, <1>5 DEF Request, Activations

\* The first of the entries is one of them.
LEMMA MinOK ==
  ASSUME NEW S \in SUBSET Keys, S # {}
  PROVE  Min(S) \in S
<1>1. S \in SUBSET Nat BY NumberingAssumption
<1>2. \E x \in S : \A y \in S : x <= y BY <1>1, NatMinimum
<1> QED BY <1>2 DEF Min

\* An operation the ledger holds is one.
LEMMA OccupantsOK ==
  ASSUME Typed, NEW t \in Timelines, NEW q, NEW r \in Occupants(t, q)
  PROVE  r \in Operations
<1>1. ledger[t] \in Seq(Operations) BY DEF Typed
<1>2. PICK i \in DOMAIN ledger[t] : r = ledger[t][i] BY DEF Occupants
<1> QED BY <1>1, <1>2

\* A host just started, or dead.
LEMMA DownOK ==
  ASSUME NEW t \in Timelines
  PROVE  /\ Down \in HostStates /\ HostSound(Down)
         /\ [Down EXCEPT !.t = t] \in HostStates /\ HostSound([Down EXCEPT !.t = t])
<1>1. NoState \in States BY DEF NoState, States, EntryStates, Unrecorded, NoPolicy
<1>2. NoSlot \in [impl : {-1} \cup Impls, tenure : {-1} \cup Nat, restored : SUBSET Nat]
  BY DEF NoSlot
<1>3. NoObservation \in [impl : {-1} \cup Impls, code : Codes \cup {"none"}]
  BY DEF NoObservation
<1>4. [k \in Keys |-> NoSlot]
        \in [Keys -> [impl : {-1} \cup Impls, tenure : {-1} \cup Nat, restored : SUBSET Nat]]
  BY <1>2
<1>5. [k \in Keys |-> NoObservation]
        \in [Keys -> [impl : {-1} \cup Impls, code : Codes \cup {"none"}]]
  BY <1>3
<1> HIDE DEF NoSlot, NoObservation, NoState
<1>6. Down \in HostStates BY <1>1, <1>4, <1>5, NumberingAssumption DEF Down, HostStates
<1>7. [Down EXCEPT !.t = t] \in HostStates BY <1>1, <1>4, <1>5 DEF Down, HostStates
<1>8. Down.pc = "down" /\ [Down EXCEPT !.t = t].pc = "down" BY DEF Down
<1> QED BY <1>6, <1>7, <1>8 DEF HostSound

\* One host's step.
LEMMA HostStep ==
  ASSUME Typed, \A u \in Hosts : HostSound(host[u]), NEW h \in Hosts, NEW new \in HostStates,
         HostSound(new), host' = [host EXCEPT ![h] = new]
  PROVE  host' \in [Hosts -> HostStates] /\ \A u \in Hosts : HostSound(host'[u])
<1>1. host \in [Hosts -> HostStates] BY DEF Typed
<1>2. host'[h] = new /\ \A u \in Hosts \ {h} : host'[u] = host[u] BY <1>1
<1> QED BY <1>1, <1>2

\* The offer names what its slots ran, also in a longer log.
LEMMA OfferKept ==
  ASSUME Typed, OfferSound, LogsGrow, offer' \in {offer, NoOffer}
  PROVE  offer' \in Declarations \cup {NoOffer} /\ OfferSound'
<1>1. offer' \in Declarations \cup {NoOffer} BY DEF Typed
<1>2. SUFFICES ASSUME offer' # NoOffer
               PROVE  /\ offer.head <= Len(log'[offer.t])
                      /\ \A k \in Keys :
                           offer.runs[k] = Closure(SubSeq(log'[offer.t], 1, offer.head), k).impl
  BY <1>1 DEF OfferSound
<1>3. offer' = offer /\ offer \in Declarations BY <1>2 DEF Typed
<1>4. offer.t \in Timelines /\ offer.head \in Nat BY <1>3 DEF Declarations
<1>5. /\ offer.head <= Len(log[offer.t])
      /\ \A k \in Keys : offer.runs[k] = Closure(SubSeq(log[offer.t], 1, offer.head), k).impl
  BY <1>2, <1>3 DEF OfferSound
<1>6. Len(log[offer.t]) \in Nat BY <1>4 DEF Typed
<1>7. SubSeq(log'[offer.t], 1, offer.head) = SubSeq(log[offer.t], 1, offer.head)
  <2>1. offer.head \in 0..Len(log[offer.t]) BY <1>4, <1>5, <1>6
  <2> QED BY <1>4, <2>1 DEF LogsGrow
<1>8. Len(log[offer.t]) <= Len(log'[offer.t]) BY <1>4 DEF LogsGrow
<1>9. offer.head <= Len(log'[offer.t])
  <2> QED BY <1>4, <1>5, <1>6, <1>8
<1> QED BY <1>5, <1>7, <1>9

----------------------------------------------------------------------------
(* One step of each kind                                                   *)

\* What a step keeps of the hosts and the offer.
HostsKept == host' \in [Hosts -> HostStates] /\ \A u \in Hosts : HostSound(host'[u])

\* The session controller's steps.
LEMMA OfferSteps ==
  ASSUME StoreInv, NEW h \in Hosts, PrepareOffer(h) \/ SubmitOffer(h)
  PROVE  StoreInv'
<1> USE DEF StoreInv
<1> DEFINE t == host[h].t
<1>0. t \in Timelines /\ host[h] \in HostStates BY DEF Typed, HostStates
<1>1. CASE PrepareOffer(h)
  <2>1. UNCHANGED store /\ host' = host BY <1>1 DEF PrepareOffer
  <2>2. StoreKept BY <2>1, UnchangedKeeps
  <2>3. log' = log BY <2>1 DEF store
  <2> DEFINE s == Effective(t)
  <2>4. PICK d \in Entries :
          offer' = [t |-> t, kind |-> "declared", policy |-> Append(s.policy, d),
                    revision |-> s.revision, head |-> Len(log[t]),
                    runs |-> [k \in Keys |-> Closure(log[t], k).impl]]
    BY <1>1 DEF PrepareOffer
  <2>5. s.policy \in Seq(Entries) /\ s.revision \in Nat BY <1>0, EffectiveOK DEF States
  <2>6. log[t] \in Seq(Events) /\ SoundFold(log[t]) BY <1>0, WholeSound
  <2>7. \A k \in Keys : Closure(log[t], k).impl \in {-1} \cup Impls
    <3> SUFFICES ASSUME NEW k \in Keys PROVE Closure(log[t], k).impl \in {-1} \cup Impls
      OBVIOUS
    <3>1. Fold(log[t]).entries[k].impl \in {-1} \cup Impls
      BY <2>6 DEF SoundFold, States, EntryStates
    <3>2. \/ Closure(log[t], k) = Tenure(0, Base)
          \/ Closure(log[t], k) = Tenure(Fold(log[t]).entries[k].tenure,
                                         Fold(log[t]).entries[k].impl)
      BY <2>6 DEF SoundFold
    <3>3. Base \in Impls BY DEF Base, Impls
    <3> QED BY <3>1, <3>2, <3>3 DEF Tenure
  <2> HIDE DEF s, t
  <2>8. Append(s.policy, d) \in Seq(Entries) /\ Append(s.policy, d) # NoPolicy
    BY <2>5 DEF NoPolicy
  <2>9. offer' \in Declarations BY <1>0, <2>4, <2>5, <2>6, <2>7, <2>8 DEF Declarations
  <2>10. OfferSound'
    <3>1. SubSeq(log[t], 1, Len(log[t])) = log[t] BY <2>6, SubSeqFull
    <3>2. /\ offer'.t = t /\ offer'.head = Len(log[t])
          /\ \A k \in Keys : offer'.runs[k] = Closure(log[t], k).impl
      BY <2>4
    <3>3. Len(log[t]) <= Len(log[t]) BY <2>6
    <3> QED BY <2>3, <3>1, <3>2, <3>3 DEF OfferSound
  <2> QED BY <2>1, <2>2, <2>9, <2>10 DEF StoreKept, Typed
<1>2. CASE SubmitOffer(h)
  <2> DEFINE p == Plan(t, offer)
  <2>1. PICK result \in Results, poison \in BOOLEAN :
          /\ Call(h, p, result, poison)
          /\ host' = [host EXCEPT ![h].poisoned = poison]
          /\ offer' = IF result = "ok" THEN NoOffer ELSE offer
    BY <1>2 DEF SubmitOffer
  <2>2. offer.t = t /\ RequireEffective(offer) BY <1>2 DEF SubmitOffer
  <2>3. offer \in Declarations
    <3>1. NoOffer.t = 0 /\ t # 0 BY <1>0, NumberingAssumption DEF NoOffer
    <3> QED BY <2>2, <3>1 DEF Typed
  <2>4. offer # NoOffer
    <3>1. NoOffer.t = 0 /\ t # 0 BY <1>0, NumberingAssumption DEF NoOffer
    <3> QED BY <2>2, <3>1
  <2>5. \A k \in Keys : offer.runs[k] = Closure(SubSeq(log[t], 1, offer.head), k).impl
    BY <2>2, <2>4 DEF OfferSound
  <2>6. UNCHANGED store \/ (p.kind = "commit" /\ Commit(t, p)) BY <2>1, CallEffect
  <2>7. StoreKept
    <3>1. ASSUME UNCHANGED store PROVE StoreKept BY <3>1, UnchangedKeeps
    <3>2. ASSUME p.kind = "commit", Commit(t, p) PROVE StoreKept
      BY <1>0, <2>2, <2>3, <2>5, <3>2, DeclarationKeeps
    <3> QED BY <2>6, <3>1, <3>2
  <2>8. OfferSound' /\ offer' \in Declarations \cup {NoOffer}
    <3>1. offer' \in {offer, NoOffer} BY <2>1
    <3> QED BY <2>7, <3>1, OfferKept DEF StoreKept
  <2>9. HostsKept
    <3> DEFINE new == [host[h] EXCEPT !.poisoned = poison]
    <3>1. host' = [host EXCEPT ![h] = new] BY <2>1
    <3>2. new \in HostStates BY <1>0 DEF HostStates
    <3>3. /\ new.pc = host[h].pc /\ new.todo = host[h].todo /\ new.seen = host[h].seen
          /\ new.req = host[h].req /\ new.found = host[h].found
      BY <1>0 DEF HostStates
    <3>4. HostSound(host[h]) OBVIOUS
    <3> HIDE DEF new
    <3>5. HostSound(new) BY <3>3, <3>4 DEF HostSound
    <3> QED BY <3>1, <3>2, <3>5, HostStep DEF HostsKept
  <2> QED BY <2>7, <2>8, <2>9 DEF StoreKept, HostsKept, Typed
<1> QED BY <1>1, <1>2

\* A step of one host that leaves store and offer alone.
LEMMA LocalStep ==
  ASSUME StoreInv, NEW h \in Hosts, NEW new \in HostStates, HostSound(new),
         host' = [host EXCEPT ![h] = new], UNCHANGED <<store, offer>>
  PROVE  StoreInv'
<1> USE DEF StoreInv
<1>1. UNCHANGED store /\ offer' = offer OBVIOUS
<1>2. StoreKept BY <1>1, UnchangedKeeps
<1>3. OfferSound' /\ offer' \in Declarations \cup {NoOffer}
  BY <1>1, <1>2, OfferKept DEF StoreKept
<1>4. HostsKept BY HostStep DEF HostsKept
<1> QED BY <1>2, <1>3, <1>4 DEF StoreKept, HostsKept, Typed

\* Passes, and the walk over the failed entries.
LEMMA PassSteps ==
  ASSUME StoreInv, NEW h \in Hosts,
         \/ PassCommits(h) \/ PassFails(h) \/ LatchDivergence(h) \/ Skip(h) \/ Attempt(h)
         \/ ForgetObservations(h)
  PROVE  StoreInv'
<1> USE DEF StoreInv
<1>0. /\ host \in [Hosts -> HostStates] /\ host[h] \in HostStates /\ host[h].t \in Timelines
      /\ HostSound(host[h])
  BY DEF Typed, HostStates
<1>n. [k \in Keys |-> NoObservation]
        \in [Keys -> [impl : {-1} \cup Impls, code : Codes \cup {"none"}]]
  BY DEF NoObservation
<1>1. CASE PassCommits(h)
  <2> DEFINE t == host[h].t
             none == [k \in Keys |-> NoObservation]
             new == [host[h] EXCEPT !.obs = none, !.faulted = @ \/ Diverged(h)]
  <2>1. /\ log' = [log EXCEPT ![t] = Append(@, [kind |-> "world"])]
        /\ row' = row /\ ledger' = ledger /\ offer' = offer /\ host[h].pc = "idle"
        /\ host' = [host EXCEPT ![h] = new]
    BY <1>0, <1>1 DEF PassCommits
  <2>2. log[t] \in Seq(Events) /\ SoundFold(log[t]) BY <1>0, WholeSound
  <2>3. /\ [kind |-> "world"] \in Events
        /\ Fold(Append(log[t], [kind |-> "world"])) = Fold(log[t])
        /\ SoundFold(Append(log[t], [kind |-> "world"]))
    BY <2>2, WorldSound
  <2>4. log' \in [Timelines -> Seq(Events)] /\ PrefixesSound' /\ LogsGrow
    BY <1>0, <2>1, <2>3, AppendKeeps DEF LogsGrow
  <2>5. ASSUME NEW u \in Timelines PROVE RowChecked(u)'
    <3>1. RowChecked(u) BY DEF RowIsFold
    <3>2. log'[u] = IF u = t THEN Append(log[t], [kind |-> "world"]) ELSE log[u]
      BY <2>1 DEF Typed
    <3>3. Fold(log'[u]) = Fold(log[u]) BY <2>3, <3>2
    <3> QED BY <2>1, <3>1, <3>3 DEF RowChecked
  <2>6. StoreKept BY <2>1, <2>4, <2>5 DEF StoreKept, RowIsFold, Typed
  <2>7. OfferSound' /\ offer' \in Declarations \cup {NoOffer}
    BY <2>1, <2>4, OfferKept
  <2>8. new \in HostStates /\ new.pc = "idle" /\ new.todo = host[h].todo
    <3>1. (host[h].faulted \/ Diverged(h)) \in BOOLEAN BY DEF Diverged
    <3> HIDE DEF none, Diverged
    <3>2. none \in [Keys -> [impl : {-1} \cup Impls, code : Codes \cup {"none"}]]
      BY <1>n DEF none
    <3> QED BY <1>0, <2>1, <3>1, <3>2 DEF HostStates
  <2> HIDE DEF new
  <2>9. HostSound(new) BY <1>0, <2>1, <2>8 DEF HostSound
  <2>10. HostsKept BY <2>1, <2>8, <2>9, HostStep DEF HostsKept
  <2> QED BY <2>6, <2>7, <2>10 DEF StoreKept, HostsKept, Typed
<1>2. CASE PassFails(h)
  <2> DEFINE s == Effective(host[h].t)
  <2>1. PICK failed \in (SUBSET DOMAIN Declared(s.policy)) \ {{}} :
          host' = [host EXCEPT ![h].pc = "walk", ![h].seen = s, ![h].revision = s.revision,
                               ![h].todo = failed]
    BY <1>2 DEF PassFails
  <2>2. s \in States /\ s.revision \in Nat /\ s.policy \in Seq(Entries)
    BY <1>0, EffectiveOK DEF States
  <2> HIDE DEF s
  <2>3. failed \in SUBSET Keys BY <2>2, DeclaredOK
  <2> DEFINE new == [host[h] EXCEPT !.pc = "walk", !.seen = s, !.revision = s.revision,
                                    !.todo = failed]
  <2>4. host' = [host EXCEPT ![h] = new] BY <2>1
  <2>5. new \in HostStates BY <1>0, <2>2, <2>3 DEF HostStates
  <2>6. new.pc = "walk" /\ new.seen = s /\ new.todo = failed BY <1>0 DEF HostStates
  <2> HIDE DEF new
  <2>7. HostSound(new) BY <2>1, <2>6 DEF HostSound
  <2>8. UNCHANGED <<store, offer>> BY <1>2 DEF PassFails
  <2> QED BY <2>4, <2>5, <2>7, <2>8, LocalStep
<1>3. CASE LatchDivergence(h)
  <2> DEFINE new == [host[h] EXCEPT !.faulted = TRUE]
  <2>1. /\ host' = [host EXCEPT ![h] = new] /\ host[h].pc = "idle"
        /\ UNCHANGED <<store, offer>>
    BY <1>3 DEF LatchDivergence
  <2>2. new \in HostStates /\ new.pc = "idle" /\ new.todo = host[h].todo
    BY <1>0, <2>1 DEF HostStates
  <2> HIDE DEF new
  <2>3. HostSound(new) BY <1>0, <2>1, <2>2 DEF HostSound
  <2> QED BY <2>1, <2>2, <2>3, LocalStep
<1>4. CASE Skip(h)
  <2> DEFINE k == Min(host[h].todo)
             new == Onward(Observe(host[h], k), k)
  <2>1. /\ host[h].pc = "walk" /\ host' = [host EXCEPT ![h] = new]
        /\ UNCHANGED <<store, offer>>
    BY <1>4 DEF Skip
  <2>2. /\ host[h].todo # {} /\ host[h].todo \in SUBSET Keys
        /\ host[h].todo \subseteq DOMAIN Declared(host[h].seen.policy)
    BY <1>0, <2>1 DEF HostSound, HostStates
  <2>3. k \in Keys
    <3>1. k \in host[h].todo BY <2>2, MinOK
    <3> QED BY <2>2, <3>1
  <2> HIDE DEF k
  <2>4. /\ Observe(host[h], k) \in HostStates
        /\ Observe(host[h], k).todo = host[h].todo /\ Observe(host[h], k).seen = host[h].seen
    BY <1>0, <2>3, ObserveOK
  <2>5. new \in HostStates /\ HostSound(new) BY <2>2, <2>4, OnwardOK
  <2> HIDE DEF new
  <2> QED BY <2>1, <2>5, LocalStep
<1>5. CASE Attempt(h)
  <2> DEFINE k == Min(host[h].todo)
             s == host[h].seen
  <2>1. /\ host[h].pc = "walk" /\ UNCHANGED <<store, offer>>
    BY <1>5 DEF Attempt
  <2>2. PICK i \in s.entries[k].pos + 1 .. Len(Entry(h, k).chain) - 1 :
          host' = [host EXCEPT ![h] = [Observe(host[h], k) EXCEPT
                     !.pc = "commit", !.req = AutomaticRequest(h, k, i, "limit")]]
    BY <1>5 DEF Attempt
  <2>3. /\ host[h].todo # {} /\ host[h].todo \in SUBSET Keys /\ s \in States
        /\ host[h].todo \subseteq DOMAIN Declared(s.policy) /\ host[h].revision \in Nat
    BY <1>0, <2>1 DEF HostSound, HostStates
  <2>4. k \in DOMAIN Declared(s.policy) /\ k \in Keys
    <3>1. k \in host[h].todo BY <2>3, MinOK
    <3> QED BY <2>3, <3>1
  <2>5. i \in 0 .. Len(Declared(s.policy)[k].chain) - 1
    <3>1. s.entries[k].pos \in 0..2 BY <2>3, <2>4 DEF States, EntryStates
    <3>2. Len(Declared(s.policy)[k].chain) \in 1..3 BY <2>3, <2>4, DeclaredOK DEF States
    <3> QED BY <3>1, <3>2 DEF Entry
  <2>6. Len(log[host[h].t]) \in Nat BY <1>0, WholeSound
  <2> DEFINE q == AutomaticRequest(h, k, i, "limit")
  <2>7. q \in Activations
    <3>1. "limit" \in Codes /\ "automatic" \in Origins BY DEF Codes, Origins
    <3> QED BY <2>3, <2>4, <2>5, <2>6, <3>1, RequestOK DEF AutomaticRequest
  <2> HIDE DEF q, k, s
  <2> DEFINE o == Observe(host[h], k)
             new == [o EXCEPT !.pc = "commit", !.req = q]
  <2>8. o \in HostStates /\ o.todo = host[h].todo /\ o.seen = s
    BY <1>0, <2>4, ObserveOK DEF s
  <2>9. host' = [host EXCEPT ![h] = new] BY <2>2 DEF q
  <2> HIDE DEF o
  <2>10. new \in HostStates BY <2>7, <2>8 DEF HostStates
  <2>11. new.pc = "commit" /\ new.req = q /\ new.todo = host[h].todo /\ new.seen = s
    BY <2>8 DEF HostStates
  <2> HIDE DEF new
  <2>12. HostSound(new) BY <2>3, <2>7, <2>11 DEF HostSound
  <2> QED BY <2>1, <2>9, <2>10, <2>12, LocalStep
<1>6. CASE ForgetObservations(h)
  <2> DEFINE none == [k \in Keys |-> NoObservation]
             new == [host[h] EXCEPT !.obs = none]
  <2>1. /\ host' = [host EXCEPT ![h] = new] /\ host[h].pc = "idle"
        /\ UNCHANGED <<store, offer>>
    BY <1>6 DEF ForgetObservations
  <2>2. new \in HostStates /\ new.pc = "idle" /\ new.todo = host[h].todo
    <3> HIDE DEF none
    <3>1. none \in [Keys -> [impl : {-1} \cup Impls, code : Codes \cup {"none"}]]
      BY <1>n DEF none
    <3> QED BY <1>0, <2>1, <3>1 DEF HostStates
  <2> HIDE DEF new
  <2>3. HostSound(new) BY <1>0, <2>1, <2>2 DEF HostSound
  <2> QED BY <2>1, <2>2, <2>3, LocalStep
<1> QED BY <1>1, <1>2, <1>3, <1>4, <1>5, <1>6

\* The owner's actions.
LEMMA OwnerSteps ==
  ASSUME StoreInv, NEW h \in Hosts, OwnerActivate(h) \/ OwnerAttempt(h) \/ OwnerExhausted(h)
  PROVE  StoreInv'
<1> USE DEF StoreInv
<1>0. /\ host \in [Hosts -> HostStates] /\ host[h] \in HostStates /\ host[h].t \in Timelines
      /\ HostSound(host[h])
  BY DEF Typed, HostStates
<1>1. CASE OwnerActivate(h)
  <2> DEFINE t == host[h].t
             s == Effective(t)
  <2>a. PICK k \in DOMAIN Declared(s.policy) :
          \E i \in (0 .. Len(Declared(s.policy)[k].chain) - 1) \ {s.entries[k].pos} :
          \E code \in OwnerCode(h, s, k, i) :
            host' = [host EXCEPT ![h].pc = "owner", ![h].seen = s, ![h].revision = s.revision,
                                 ![h].req = Request(s, k, i, code, "owner", s.revision, 0)]
    BY <1>1 DEF OwnerActivate
  <2>b. PICK i \in (0 .. Len(Declared(s.policy)[k].chain) - 1) \ {s.entries[k].pos} :
          \E code \in OwnerCode(h, s, k, i) :
            host' = [host EXCEPT ![h].pc = "owner", ![h].seen = s, ![h].revision = s.revision,
                                 ![h].req = Request(s, k, i, code, "owner", s.revision, 0)]
    BY <2>a
  <2>1. PICK code \in OwnerCode(h, s, k, i) :
          host' = [host EXCEPT ![h].pc = "owner", ![h].seen = s, ![h].revision = s.revision,
                               ![h].req = Request(s, k, i, code, "owner", s.revision, 0)]
    BY <2>b
  <2>2. s \in States /\ s.revision \in Nat /\ s.policy \in Seq(Entries)
    BY <1>0, EffectiveOK DEF States
  <2>3. code \in Codes
    <3>1. CASE i = 0
      <4>1. PICK j \in Opening(log[t], k, s.entries[k].tenure) : code = log[t][j].code
        BY <2>1, <3>1 DEF OwnerCode
      <4>2. j \in DOMAIN log[t] /\ log[t][j].kind = "activated" BY <4>1 DEF Opening
      <4>3. log[t] \in Seq(Events) BY <1>0, WholeSound
      <4>4. log[t][j] \in Events BY <4>2, <4>3
      <4> QED BY <4>1, <4>2, <4>4 DEF Events
    <3>2. CASE i # 0
      <4>1. code \in Declared(s.policy)[k].triggers BY <2>1, <3>2 DEF OwnerCode
      <4> QED BY <2>1, <2>2, <4>1, DeclaredOK
    <3> QED BY <3>1, <3>2
  <2> HIDE DEF s, t
  <2> DEFINE q == Request(s, k, i, code, "owner", s.revision, 0)
             new == [host[h] EXCEPT !.pc = "owner", !.seen = s, !.revision = s.revision,
                                    !.req = q]
  <2>4. q \in Activations
    <3>1. "owner" \in Origins BY DEF Origins
    <3> QED BY <2>1, <2>2, <2>3, <3>1, RequestOK
  <2>5. host' = [host EXCEPT ![h] = new] BY <2>1
  <2> HIDE DEF q
  <2>6. new \in HostStates BY <1>0, <2>2, <2>4 DEF HostStates
  <2>7. new.pc = "owner" /\ new.seen = s /\ new.todo = host[h].todo /\ new.req = q
    BY <1>0 DEF HostStates
  <2>8. host[h].pc = "idle" /\ UNCHANGED <<store, offer>> BY <1>1 DEF OwnerActivate
  <2> HIDE DEF new
  <2>9. host[h].todo = {} BY <1>0, <2>8 DEF HostSound
  <2>10. HostSound(new) BY <2>4, <2>7, <2>9 DEF HostSound
  <2> QED BY <2>5, <2>6, <2>8, <2>10, LocalStep
<1>2. CASE OwnerAttempt(h)
  <2> DEFINE n == Len(log[host[h].t])
             new == [host[h] EXCEPT !.pc = "commit", !.req.head = n]
  <2>1. /\ host' = [host EXCEPT ![h] = new] /\ host[h].pc = "owner"
        /\ UNCHANGED <<store, offer>>
    BY <1>2 DEF OwnerAttempt
  <2>2. n \in Nat BY <1>0, WholeSound
  <2> HIDE DEF n
  <2>3. host[h].req \in Activations BY <1>0, <2>1 DEF HostSound
  <2>4. [host[h].req EXCEPT !.head = n] \in Activations BY <2>2, <2>3 DEF Activations
  <2>5. new = [host[h] EXCEPT !.pc = "commit", !.req = [host[h].req EXCEPT !.head = n]]
    BY <1>0 DEF HostStates
  <2> HIDE DEF new
  <2>6. new \in HostStates BY <1>0, <2>4, <2>5 DEF HostStates
  <2>7. /\ new.pc = "commit" /\ new.seen = host[h].seen /\ new.todo = host[h].todo
        /\ new.req = [host[h].req EXCEPT !.head = n]
    BY <1>0, <2>5 DEF HostStates
  <2>8. HostSound(new) BY <1>0, <2>1, <2>4, <2>7 DEF HostSound
  <2> QED BY <2>1, <2>6, <2>8, LocalStep
<1>3. CASE OwnerExhausted(h)
  <2>1. /\ host' = [host EXCEPT ![h] = Idle(host[h])] /\ UNCHANGED <<store, offer>>
    BY <1>3 DEF OwnerExhausted
  <2> QED BY <1>0, <2>1, IdleOK, LocalStep
<1> QED BY <1>1, <1>2, <1>3

\* Commit, adoption and swap.
LEMMA CommitSteps ==
  ASSUME StoreInv, NEW h \in Hosts,
         \/ CommitActivation(h) \/ Adopt(h) \/ AdoptNothing(h) \/ ReportNotCommitted(h)
         \/ Swap(h) \/ SwapFails(h) \/ Crash(h)
  PROVE  StoreInv'
<1> USE DEF StoreInv
<1>0. /\ host \in [Hosts -> HostStates] /\ host[h] \in HostStates /\ host[h].t \in Timelines
      /\ HostSound(host[h])
  BY DEF Typed, HostStates
<1>1. CASE CommitActivation(h)
  <2> DEFINE p == Plan(host[h].t, host[h].req)
  <2>1. PICK result \in Results, poison \in BOOLEAN :
          /\ Call(h, p, result, poison)
          /\ host' = [host EXCEPT ![h].poisoned = poison,
               ![h].found = IF result = "ok" THEN p.row ELSE @,
               ![h].pc = CASE result = "ok" -> "apply"
                           [] result = "indeterminate" -> "adopt"
                           [] result = "refused" -> "refused"]
    BY <1>1 DEF CommitActivation
  <2>2. host[h].pc = "commit" /\ offer' = offer BY <1>1 DEF CommitActivation
  <2>3. /\ host[h].req \in Activations
        /\ host[h].todo \subseteq DOMAIN Declared(host[h].seen.policy)
    BY <1>0, <2>2 DEF HostSound
  <2>4. StoreKept /\ (result = "ok" => p.row \in Operations)
    BY <2>1, <2>3, ActivationCallKeeps
  <2>5. OfferSound' /\ offer' \in Declarations \cup {NoOffer}
    BY <2>2, <2>4, OfferKept DEF StoreKept
  <2> HIDE DEF p
  <2> DEFINE found == IF result = "ok" THEN p.row ELSE host[h].found
             pc == CASE result = "ok" -> "apply"
                     [] result = "indeterminate" -> "adopt"
                     [] result = "refused" -> "refused"
             new == [host[h] EXCEPT !.poisoned = poison, !.found = found, !.pc = pc]
  <2>6. /\ pc \in {"apply", "adopt", "refused"} /\ (pc = "apply" => result = "ok")
        /\ found \in Operations \cup {NoRequest} /\ (result = "ok" => found \in Operations)
    BY <1>0, <2>4 DEF Results, HostStates
  <2>7. host' = [host EXCEPT ![h] = new]
    <3>1. host' = [host EXCEPT ![h].poisoned = poison, ![h].found = found, ![h].pc = pc]
      BY <1>0, <2>1 DEF HostStates
    <3> HIDE DEF found, pc
    <3> QED BY <3>1
  <2> HIDE DEF found, pc
  <2>8. new \in HostStates BY <1>0, <2>6 DEF HostStates
  <2>9. /\ new.pc = pc /\ new.seen = host[h].seen /\ new.todo = host[h].todo
        /\ new.req = host[h].req /\ new.found = found
    BY <1>0 DEF HostStates
  <2> HIDE DEF new
  <2>10. HostSound(new) BY <2>3, <2>6, <2>9 DEF HostSound
  <2>11. HostsKept BY <2>7, <2>8, <2>10, HostStep DEF HostsKept
  <2> QED BY <2>4, <2>5, <2>11 DEF StoreKept, HostsKept, Typed
<1>2. CASE Adopt(h)
  <2>1. PICK r \in Occupants(host[h].t, host[h].req) :
          host' = [host EXCEPT ![h].pc = "apply", ![h].found = r]
    BY <1>2 DEF Adopt
  <2>2. host[h].pc = "adopt" /\ UNCHANGED <<store, offer>> BY <1>2 DEF Adopt
  <2>3. r \in Operations BY <1>0, <2>1, OccupantsOK
  <2> DEFINE new == [host[h] EXCEPT !.pc = "apply", !.found = r]
  <2>4. host' = [host EXCEPT ![h] = new] BY <2>1
  <2>5. new \in HostStates BY <1>0, <2>3 DEF HostStates
  <2>6. /\ new.pc = "apply" /\ new.seen = host[h].seen /\ new.todo = host[h].todo
        /\ new.req = host[h].req /\ new.found = r
    BY <1>0 DEF HostStates
  <2> HIDE DEF new
  <2>7. HostSound(new) BY <1>0, <2>2, <2>3, <2>6 DEF HostSound
  <2> QED BY <2>2, <2>4, <2>5, <2>7, LocalStep
<1>3. CASE AdoptNothing(h)
  <2> DEFINE new == [host[h] EXCEPT !.pc = "refused"]
  <2>1. /\ host' = [host EXCEPT ![h] = new] /\ host[h].pc = "adopt"
        /\ UNCHANGED <<store, offer>>
    BY <1>3 DEF AdoptNothing
  <2>2. new \in HostStates BY <1>0 DEF HostStates
  <2>3. /\ new.pc = "refused" /\ new.seen = host[h].seen /\ new.todo = host[h].todo
        /\ new.req = host[h].req
    BY <1>0 DEF HostStates
  <2> HIDE DEF new
  <2>4. HostSound(new) BY <1>0, <2>1, <2>3 DEF HostSound
  <2> QED BY <2>1, <2>2, <2>4, LocalStep
<1>4. CASE ReportNotCommitted(h)
  <2> DEFINE new == Onward(host[h], host[h].req.key)
  <2>1. /\ host' = [host EXCEPT ![h] = new] /\ host[h].pc = "refused"
        /\ UNCHANGED <<store, offer>>
    BY <1>4 DEF ReportNotCommitted
  <2>2. host[h].todo \subseteq DOMAIN Declared(host[h].seen.policy)
    BY <1>0, <2>1 DEF HostSound
  <2>3. new \in HostStates /\ HostSound(new) BY <1>0, <2>2, OnwardOK
  <2> HIDE DEF new
  <2> QED BY <2>1, <2>3, LocalStep
<1>5. CASE Swap(h)
  <2> DEFINE q == host[h].req
             n == host[h].found.seq
             restored == (1..q.head) \cup {n}
             on == Onward(host[h], q.key)
             slot == [impl |-> q.to, tenure |-> q.closing + 1, restored |-> restored]
             new == [on EXCEPT !.slots[q.key] = slot, !.obs[q.key] = NoObservation,
                               !.revision = host[h].found.revision]
  <2>1. /\ host' = [host EXCEPT ![h] = new] /\ host[h].pc = "apply"
        /\ UNCHANGED <<store, offer>>
    BY <1>5 DEF Swap
  <2>2. /\ host[h].todo \subseteq DOMAIN Declared(host[h].seen.policy)
        /\ q \in Activations /\ host[h].found \in Operations
    BY <1>0, <2>1 DEF HostSound
  <2>3. on \in HostStates /\ HostSound(on) BY <1>0, <2>2, OnwardOK
  <2>4. /\ q.key \in Keys /\ q.to \in Impls /\ q.head \in Nat /\ q.closing + 1 \in Nat
        /\ n \in Nat /\ host[h].found.revision \in Nat
    <3>1. q.closing \in {-1} \cup Nat BY <2>2 DEF Activations
    <3>2. q.key \in Keys /\ q.to \in Impls /\ q.head \in Nat BY <2>2 DEF Activations
    <3>3. n \in Nat /\ host[h].found.revision \in Nat BY <2>2 DEF Operations
    <3> QED BY <3>1, <3>2, <3>3
  <2>5. restored \in SUBSET Nat BY <2>4
  <2> HIDE DEF restored, n, q, on
  <2>6. slot \in [impl : {-1} \cup Impls, tenure : {-1} \cup Nat, restored : SUBSET Nat]
    BY <2>4, <2>5
  <2>7. NoObservation \in [impl : {-1} \cup Impls, code : Codes \cup {"none"}]
    BY DEF NoObservation
  <2> HIDE DEF slot
  <2>8. new \in HostStates /\ new.pc = on.pc /\ new.todo = on.todo /\ new.seen = on.seen
        /\ new.req = on.req /\ new.found = on.found
    <3>1. [on.slots EXCEPT ![q.key] = slot]
            \in [Keys -> [impl : {-1} \cup Impls, tenure : {-1} \cup Nat, restored : SUBSET Nat]]
      BY <2>3, <2>6 DEF HostStates
    <3>2. [on.obs EXCEPT ![q.key] = NoObservation]
            \in [Keys -> [impl : {-1} \cup Impls, code : Codes \cup {"none"}]]
      BY <2>3, <2>7 DEF HostStates
    <3>3. new = [on EXCEPT !.slots = [on.slots EXCEPT ![q.key] = slot],
                           !.obs = [on.obs EXCEPT ![q.key] = NoObservation],
                           !.revision = host[h].found.revision]
      BY <2>3 DEF HostStates
    <3> HIDE DEF new
    <3> QED BY <2>3, <2>4, <3>1, <3>2, <3>3 DEF HostStates
  <2> HIDE DEF new
  <2>9. HostSound(new) BY <2>3, <2>8 DEF HostSound
  <2> QED BY <2>1, <2>8, <2>9, LocalStep DEF q, on, n, restored, slot
<1>6. CASE SwapFails(h)
  <2>1. PICK slot \in {host[h].slots[host[h].req.key],
                       [impl |-> host[h].req.to, tenure |-> -1, restored |-> {}]} :
          host' = [host EXCEPT ![h] = [Idle(host[h]) EXCEPT !.faulted = TRUE,
                                          !.slots[host[h].req.key] = slot]]
    BY <1>6 DEF SwapFails
  <2>2. host[h].pc = "apply" /\ UNCHANGED <<store, offer>> BY <1>6 DEF SwapFails
  <2>3. host[h].req \in Activations BY <1>0, <2>2 DEF HostSound
  <2>4. host[h].req.key \in Keys /\ host[h].req.to \in Impls BY <2>3 DEF Activations
  <2>5. slot \in [impl : {-1} \cup Impls, tenure : {-1} \cup Nat, restored : SUBSET Nat]
    <3>1. host[h].slots[host[h].req.key]
            \in [impl : {-1} \cup Impls, tenure : {-1} \cup Nat, restored : SUBSET Nat]
      BY <1>0, <2>4 DEF HostStates
    <3>2. [impl |-> host[h].req.to, tenure |-> -1, restored |-> {}]
            \in [impl : {-1} \cup Impls, tenure : {-1} \cup Nat, restored : SUBSET Nat]
      BY <2>4
    <3> QED BY <3>1, <3>2
  <2> DEFINE key == host[h].req.key
             on == Idle(host[h])
             new == [on EXCEPT !.faulted = TRUE, !.slots[key] = slot]
  <2>6. on \in HostStates /\ on.pc = "idle" /\ on.todo = {}
    BY <1>0, IdleOK DEF Idle, HostStates
  <2>7. host' = [host EXCEPT ![h] = new] BY <2>1
  <2> HIDE DEF on, key
  <2>8. new \in HostStates /\ new.pc = "idle" /\ new.todo = {}
    <3>1. [on.slots EXCEPT ![key] = slot]
            \in [Keys -> [impl : {-1} \cup Impls, tenure : {-1} \cup Nat, restored : SUBSET Nat]]
      BY <2>5, <2>6 DEF HostStates
    <3>2. new = [on EXCEPT !.faulted = TRUE, !.slots = [on.slots EXCEPT ![key] = slot]]
      BY <2>6 DEF HostStates
    <3> HIDE DEF new
    <3> QED BY <2>6, <3>1, <3>2 DEF HostStates
  <2> HIDE DEF new
  <2>9. HostSound(new) BY <2>8 DEF HostSound
  <2> QED BY <2>2, <2>7, <2>8, <2>9, LocalStep
<1>7. CASE Crash(h)
  <2>1. /\ host' = [host EXCEPT ![h] = [Down EXCEPT !.t = host[h].t]]
        /\ UNCHANGED <<store, offer>>
    BY <1>7 DEF Crash
  <2> QED BY <1>0, <2>1, DownOK, LocalStep
<1> QED BY <1>1, <1>2, <1>3, <1>4, <1>5, <1>6, <1>7

\* Restart.
LEMMA RestartSteps ==
  ASSUME StoreInv, NEW h \in Hosts,
         \/ \E t \in Timelines : Compose(h, t)
         \/ ResolveSlots(h) \/ ComposeSlot(h) \/ AttemptRestart(h) \/ CommitRestart(h)
         \/ Restored(h)
  PROVE  StoreInv'
<1> USE DEF StoreInv
<1> DEFINE Slots == [impl : {-1} \cup Impls, tenure : {-1} \cup Nat, restored : SUBSET Nat]
<1>0. /\ host \in [Hosts -> HostStates] /\ host[h] \in HostStates /\ host[h].t \in Timelines
      /\ HostSound(host[h])
  BY DEF Typed, HostStates
<1>1. ASSUME NEW t \in Timelines, Compose(h, t) PROVE StoreInv'
  <2> DEFINE s == Effective(t)
             down == [Down EXCEPT !.t = t]
             new == [down EXCEPT !.pc = "derived", !.seen = s, !.revision = s.revision]
  <2>1. /\ host' = [host EXCEPT ![h] = [Down EXCEPT !.pc = "derived", !.t = t, !.seen = s,
                                                   !.revision = s.revision]]
        /\ UNCHANGED <<store, offer>>
    BY <1>1 DEF Compose
  <2>2. s \in States /\ s.revision \in Nat BY EffectiveOK DEF States
  <2>3. down \in HostStates BY DownOK
  <2> HIDE DEF s
  <2>4. new = [Down EXCEPT !.pc = "derived", !.t = t, !.seen = s, !.revision = s.revision]
    BY DEF Down
  <2> HIDE DEF down
  <2>5. new \in HostStates /\ new.pc = "derived" BY <2>2, <2>3 DEF HostStates
  <2>6. host' = [host EXCEPT ![h] = new] BY <2>1, <2>4
  <2> HIDE DEF new
  <2>7. HostSound(new) BY <2>5 DEF HostSound
  <2> QED BY <2>1, <2>5, <2>6, <2>7, LocalStep
<1>2. CASE ResolveSlots(h)
  <2> DEFINE t == host[h].t
             latest == [k \in Keys |-> Closure(log[t], k)]
             slots == [k \in Keys |-> [impl |-> latest[k].impl, tenure |-> latest[k].tenure,
                                       restored |-> {}]]
             new == [host[h] EXCEPT !.pc = "compose", !.todo = Keys, !.slots = slots]
  <2>1. host' = [host EXCEPT ![h] = new] /\ UNCHANGED <<store, offer>>
    BY <1>2 DEF ResolveSlots
  <2>2. slots \in [Keys -> Slots]
    <3> SUFFICES ASSUME NEW k \in Keys PROVE slots[k] \in Slots OBVIOUS
    <3>1. SoundFold(log[t]) BY <1>0, WholeSound
    <3> DEFINE e == Fold(log[t]).entries[k]
               c == Closure(log[t], k)
    <3>2. e.tenure \in {-1} \cup Nat /\ e.impl \in {-1} \cup Impls
      BY <3>1 DEF SoundFold, States, EntryStates
    <3>3. c = Tenure(0, Base) \/ c = Tenure(e.tenure, e.impl) BY <3>1 DEF SoundFold
    <3> HIDE DEF e, c
    <3>4. c.tenure \in {-1} \cup Nat /\ c.impl \in {-1} \cup Impls
      BY <3>2, <3>3 DEF Tenure, Base, Impls
    <3>5. slots[k] = [impl |-> c.impl, tenure |-> c.tenure, restored |-> {}] BY DEF c
    <3> QED BY <3>4, <3>5
  <2> HIDE DEF slots
  <2>3. new \in HostStates /\ new.pc = "compose" BY <1>0, <2>2 DEF HostStates
  <2> HIDE DEF new
  <2>4. HostSound(new) BY <2>3 DEF HostSound
  <2> QED BY <2>1, <2>3, <2>4, LocalStep
<1>3. CASE ComposeSlot(h)
  <2> DEFINE new == [host[h] EXCEPT !.todo = @ \ {Min(@)}]
  <2>1. /\ host' = [host EXCEPT ![h] = new] /\ host[h].pc = "compose"
        /\ UNCHANGED <<store, offer>>
    BY <1>3 DEF ComposeSlot
  <2>2. new \in HostStates /\ new.pc = "compose" BY <1>0, <2>1 DEF HostStates
  <2> HIDE DEF new
  <2>3. HostSound(new) BY <2>2 DEF HostSound
  <2> QED BY <2>1, <2>2, <2>3, LocalStep
<1>4. CASE AttemptRestart(h)
  <2> DEFINE k == Min(host[h].todo)
             s == host[h].seen
  <2>1. k \in DOMAIN Declared(s.policy) /\ UNCHANGED <<store, offer>>
    BY <1>4 DEF AttemptRestart
  <2>2. PICK i \in s.entries[k].pos + 1 .. Len(Entry(h, k).chain) - 1 :
          host' = [host EXCEPT ![h].pc = "recommit",
                               ![h].req = AutomaticRequest(h, k, i, "missing")]
    BY <1>4 DEF AttemptRestart
  <2>3. s \in States /\ host[h].revision \in Nat /\ s.policy \in Seq(Entries)
    BY <1>0 DEF HostStates, States
  <2>4. k \in Keys BY <2>1, <2>3, DeclaredOK
  <2>5. i \in 0 .. Len(Declared(s.policy)[k].chain) - 1
    <3>1. s.entries[k].pos \in 0..2 BY <2>3, <2>4 DEF States, EntryStates
    <3>2. Len(Declared(s.policy)[k].chain) \in 1..3 BY <2>1, <2>3, DeclaredOK
    <3> QED BY <3>1, <3>2 DEF Entry
  <2>6. Len(log[host[h].t]) \in Nat BY <1>0, WholeSound
  <2> DEFINE q == AutomaticRequest(h, k, i, "missing")
             new == [host[h] EXCEPT !.pc = "recommit", !.req = q]
  <2>7. q \in Activations
    <3>1. "missing" \in Codes /\ "automatic" \in Origins BY DEF Codes, Origins
    <3> QED BY <2>1, <2>3, <2>5, <2>6, <3>1, RequestOK DEF AutomaticRequest
  <2>8. host' = [host EXCEPT ![h] = new] BY <2>2
  <2> HIDE DEF q
  <2>9. new \in HostStates /\ new.pc = "recommit" /\ new.req = q BY <1>0, <2>7 DEF HostStates
  <2> HIDE DEF new
  <2>10. HostSound(new) BY <2>7, <2>9 DEF HostSound
  <2> QED BY <2>1, <2>8, <2>9, <2>10, LocalStep
<1>5. CASE CommitRestart(h)
  <2> DEFINE q == host[h].req
             p == Plan(host[h].t, q)
             slot == [impl |-> q.to, tenure |-> q.closing + 1, restored |-> {}]
             down == [Down EXCEPT !.t = host[h].t]
             on == [host[h] EXCEPT !.pc = "compose", !.todo = @ \ {q.key}, !.req = NoRequest,
                                   !.revision = p.row.revision, !.slots[q.key] = slot]
  <2>1. PICK result \in Results, poison \in BOOLEAN :
          /\ Call(h, p, result, poison)
          /\ \/ host' = [host EXCEPT ![h] = down]
             \/ /\ result = "ok"
                /\ host' = [host EXCEPT ![h].pc = "compose", ![h].todo = @ \ {q.key},
                     ![h].req = NoRequest, ![h].revision = p.row.revision,
                     ![h].slots[q.key] = slot]
    BY <1>5 DEF CommitRestart
  <2>2. host[h].pc = "recommit" /\ offer' = offer BY <1>5 DEF CommitRestart
  <2>3. q \in Activations BY <1>0, <2>2 DEF HostSound
  <2>4. StoreKept /\ (result = "ok" => p.row \in Operations)
    BY <2>1, <2>3, ActivationCallKeeps
  <2>5. OfferSound' /\ offer' \in Declarations \cup {NoOffer}
    BY <2>2, <2>4, OfferKept DEF StoreKept
  <2>6. HostsKept
    <3>1. ASSUME host' = [host EXCEPT ![h] = down] PROVE HostsKept
      BY <1>0, <3>1, DownOK, HostStep DEF HostsKept
    <3>2. ASSUME result = "ok", host' = [host EXCEPT ![h] = on] PROVE HostsKept
      <4>1. p.row.revision \in Nat BY <2>4, <3>2 DEF Operations
      <4>2. q.key \in Keys /\ slot \in Slots
        <5>1. q.closing \in {-1} \cup Nat /\ q.to \in Impls /\ q.key \in Keys
          BY <2>3 DEF Activations
        <5>2. q.closing + 1 \in Nat BY <5>1
        <5> QED BY <5>1, <5>2
      <4> HIDE DEF p, q, slot
      <4>3. [host[h].slots EXCEPT ![q.key] = slot] \in [Keys -> Slots]
        BY <1>0, <4>2 DEF HostStates
      <4>4. on = [host[h] EXCEPT !.pc = "compose", !.todo = host[h].todo \ {q.key},
                                 !.req = NoRequest, !.revision = p.row.revision,
                                 !.slots = [host[h].slots EXCEPT ![q.key] = slot]]
        BY <1>0 DEF HostStates
      <4> HIDE DEF on
      <4>5. on \in HostStates /\ on.pc = "compose" BY <1>0, <4>1, <4>3, <4>4 DEF HostStates
      <4>6. HostSound(on) BY <4>5 DEF HostSound
      <4> QED BY <3>2, <4>5, <4>6, HostStep DEF HostsKept
    <3>3. \/ host' = [host EXCEPT ![h] = down]
          \/ result = "ok" /\ host' = [host EXCEPT ![h] = on]
      <4> HIDE DEF p, q, slot, down
      <4> QED BY <2>1
    <3> QED BY <3>1, <3>2, <3>3
  <2> QED BY <2>4, <2>5, <2>6 DEF StoreKept, HostsKept, Typed
<1>6. CASE Restored(h)
  <2> DEFINE t == host[h].t
             slots == [k \in Keys |-> [host[h].slots[k] EXCEPT !.restored = DOMAIN log[t]]]
             on == Idle(host[h])
             new == [on EXCEPT !.slots = slots]
  <2>1. host' = [host EXCEPT ![h] = new] /\ UNCHANGED <<store, offer>> BY <1>6 DEF Restored
  <2>2. DOMAIN log[t] \in SUBSET Nat
    <3>1. log[t] \in Seq(Events) BY <1>0, WholeSound
    <3> QED BY <3>1
  <2>3. slots \in [Keys -> Slots]
    <3> SUFFICES ASSUME NEW k \in Keys
                 PROVE  [host[h].slots[k] EXCEPT !.restored = DOMAIN log[t]] \in Slots
      OBVIOUS
    <3>1. host[h].slots[k] \in Slots BY <1>0 DEF HostStates
    <3> QED BY <2>2, <3>1
  <2>4. on \in HostStates /\ on.pc = "idle" /\ on.todo = {}
    BY <1>0, IdleOK DEF Idle, HostStates
  <2> HIDE DEF slots, on
  <2>5. new \in HostStates /\ new.pc = "idle" /\ new.todo = {} BY <2>3, <2>4 DEF HostStates
  <2> HIDE DEF new
  <2>6. HostSound(new) BY <2>5 DEF HostSound
  <2> QED BY <2>1, <2>5, <2>6, LocalStep
<1> QED BY <1>1, <1>2, <1>3, <1>4, <1>5, <1>6

\* A Fork of the root.
LEMMA ForkStep ==
  ASSUME StoreInv, ForkRoot
  PROVE  StoreInv'
<1> USE DEF StoreInv
<1>1. PICK t \in Timelines : \E cut \in DOMAIN log[1] : Fork(t, cut) BY DEF ForkRoot
<1>2. PICK cut \in DOMAIN log[1] : Fork(t, cut) BY <1>1
<1>3. host' = host /\ offer' = offer BY DEF ForkRoot
<1>4. StoreKept BY <1>2, ForkKeeps
<1>5. OfferSound' /\ offer' \in Declarations \cup {NoOffer}
  BY <1>3, <1>4, OfferKept DEF StoreKept
<1> QED BY <1>3, <1>4, <1>5 DEF StoreKept, Typed

----------------------------------------------------------------------------
(* The theorems                                                            *)

\* An empty store with every host down satisfies the invariant.
LEMMA InitStoreInv ==
  ASSUME Init
  PROVE  StoreInv
<1>1. /\ log = [t \in Timelines |-> <<>>] /\ row = [t \in Timelines |-> NoState]
      /\ ledger = [t \in Timelines |-> <<>>] /\ host = [h \in Hosts |-> Down] /\ offer = NoOffer
  BY DEF Init, InitStore
<1>2. NoState \in States BY DEF NoState, States, EntryStates, Unrecorded, NoPolicy
<1>3. Down \in HostStates /\ HostSound(Down) BY NumberingAssumption, DownOK
<1>4. Typed BY <1>1, <1>2, <1>3 DEF Typed
<1>5. PrefixesSound
  <2> SUFFICES ASSUME NEW t \in Timelines, NEW n \in 0..Len(log[t])
               PROVE  SoundFold(SubSeq(log[t], 1, n))
    BY DEF PrefixesSound
  <2>1. log[t] = <<>> /\ n = 0 BY <1>1
  <2>2. SubSeq(log[t], 1, n) = <<>> BY <2>1
  <2> QED BY <2>2, EmptySound
<1>6. RowIsFold
  <2> SUFFICES ASSUME NEW t \in Timelines PROVE RowChecked(t) BY DEF RowIsFold
  <2>1. Fold(log[t]) = NoState BY <1>1, FoldEmpty
  <2>2. NoState # Corrupt BY <1>2, StatesNotCorrupt
  <2> QED BY <1>1, <2>1, <2>2 DEF RowChecked
<1>7. OfferSound BY <1>1 DEF OfferSound
<1> QED BY <1>1, <1>3, <1>4, <1>5, <1>6, <1>7 DEF StoreInv

\* Every step keeps the invariant.
LEMMA StoreInvStep ==
  ASSUME StoreInv, [Next]_vars
  PROVE  StoreInv'
<1>1. CASE UNCHANGED vars
  <2>1. log' = log /\ row' = row /\ ledger' = ledger /\ host' = host /\ offer' = offer
    BY <1>1 DEF vars, store
  <2> QED BY <2>1 DEF StoreInv, Typed, PrefixesSound, RowIsFold, RowChecked, OfferSound
<1>2. CASE ForkRoot BY <1>2, ForkStep
<1>3. ASSUME NEW h \in Hosts, PrepareOffer(h) \/ SubmitOffer(h) PROVE StoreInv'
  BY <1>3, OfferSteps
<1>4. ASSUME NEW h \in Hosts,
             \/ PassCommits(h) \/ PassFails(h) \/ LatchDivergence(h) \/ Skip(h) \/ Attempt(h)
             \/ ForgetObservations(h)
      PROVE  StoreInv'
  BY <1>4, PassSteps
<1>5. ASSUME NEW h \in Hosts, OwnerActivate(h) \/ OwnerAttempt(h) \/ OwnerExhausted(h)
      PROVE  StoreInv'
  BY <1>5, OwnerSteps
<1>6. ASSUME NEW h \in Hosts,
             \/ CommitActivation(h) \/ Adopt(h) \/ AdoptNothing(h) \/ ReportNotCommitted(h)
             \/ Swap(h) \/ SwapFails(h) \/ Crash(h)
      PROVE  StoreInv'
  BY <1>6, CommitSteps
<1>7. ASSUME NEW h \in Hosts,
             \/ \E t \in Timelines : Compose(h, t)
             \/ ResolveSlots(h) \/ ComposeSlot(h) \/ AttemptRestart(h) \/ CommitRestart(h)
             \/ Restored(h)
      PROVE  StoreInv'
  BY <1>7, RestartSteps
<1> QED BY <1>1, <1>2, <1>3, <1>4, <1>5, <1>6, <1>7 DEF Next

\* Every prefix of every log folds soundly, the rows are the folds, and offers
\* and hosts hold what they derived: the invariant is inductive.
THEOREM FallbackInvariance == Spec => []StoreInv
<1>1. Init => StoreInv BY InitStoreInv
<1>2. StoreInv /\ [Next]_vars => StoreInv' BY StoreInvStep
<1> QED BY <1>1, <1>2, PTL DEF Spec

\* The row of a Timeline is the fold of its Events and its ledger ends at the
\* same revision, on the root and on a Fork of any cut: whatever the hosts
\* commit, adopt or repeat, and wherever they die, check_row never finds
\* CorruptState.
THEOREM FallbackRowIsFold == Spec => []RowIsFold
<1>1. StoreInv => RowIsFold BY DEF StoreInv
<1> QED BY <1>1, FallbackInvariance, PTL

\* The fold of the registry and the tenures of the activations agree on every
\* slot of every Timeline: no restart fails with TENURES_UNRESOLVED or
\* TENURES_DIVERGED on what it reads at one moment.
THEOREM FallbackTenuresAgree == Spec => []TenuresAgree
<1>1. ASSUME StoreInv PROVE TenuresAgree
  <2> SUFFICES ASSUME NEW t \in Timelines
               PROVE  /\ Listed(Fold(log[t]))
                      /\ \A k \in Keys :
                           /\ Closure(log[t], k).tenure >= 0
                           /\ Fold(log[t]).entries[k] # Unrecorded =>
                                Closure(log[t], k) = Tenure(Fold(log[t]).entries[k].tenure,
                                                            Fold(log[t]).entries[k].impl)
    BY DEF TenuresAgree
  <2>1. SoundFold(log[t]) BY <1>1, WholeSound DEF StoreInv
  <2>2. Listed(Fold(log[t])) BY <2>1 DEF SoundFold
  <2>3. ASSUME NEW k \in Keys
        PROVE  /\ Closure(log[t], k) =
                    IF Fold(log[t]).entries[k] = Unrecorded THEN Tenure(0, Base)
                    ELSE Tenure(Fold(log[t]).entries[k].tenure, Fold(log[t]).entries[k].impl)
               /\ Fold(log[t]).entries[k] # Unrecorded => Fold(log[t]).entries[k].tenure >= 0
    BY <2>1 DEF SoundFold
  <2>4. \A n, i : Tenure(n, i).tenure = n BY DEF Tenure
  <2> QED BY <2>2, <2>3, <2>4
<1> QED BY <1>1, FallbackInvariance, PTL

=============================================================================
