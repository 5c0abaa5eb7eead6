-------------------------- MODULE FallbackBoundary --------------------------
(***************************************************************************)
(* The composition boundary transaction (ADR-119) of                       *)
(* crates/pos-plugin-supervisor/src/fallback, over the registry of         *)
(* FallbackRegistry: the automatic chain, the owner's actions, restart     *)
(* from the fold, and the session controller's declare of                  *)
(* crates/pos-runtime/src/composition_fallback/declaration.rs.             *)
(*                                                                         *)
(* A host is a process over one Timeline.  Inside a call it yields only at *)
(* its store transactions; it may die between any two of them, and other   *)
(* processes may write the same store there.  Building a candidate (trust  *)
(* gate, facts, Driver, dry run) either succeeds or does not.              *)
(***************************************************************************)
EXTENDS FallbackRegistry, FiniteSetsExt

CONSTANTS
  Hosts,        \* host processes over the store
  Entries,      \* what the session controller may declare: functions from keys
  MaxPolicies,  \* bound on a Timeline's declarations
  MaxPasses     \* bound on its other Events

VARIABLES
  host,       \* the boundary, live composition and store handle of each host
  offer       \* the declaration the session controller holds

vars == <<store, host, offer>>

Impls == 0..2
Base == 0                                  \* the composer's implementation of every slot
Codes == {"limit", "missing"}              \* a failed pass; a missing implementation at restart

\* What DomainFallbackPolicyV1 admits: known slots, a primary and at most two
\* candidates.
ASSUME EntriesAssumption ==
  \A d \in Entries :
    /\ DOMAIN d \subseteq Keys
    /\ \A k \in DOMAIN d : /\ d[k].chain \in Seq(Impls) /\ Len(d[k].chain) \in 1..3
                          /\ d[k].triggers \subseteq Codes

ASSUME NumberingAssumption == Keys \subseteq Nat /\ Timelines \subseteq Nat \ {0} /\ 1 \in Timelines

NoObservation == [impl |-> -1, code |-> "none"]
NoSlot == [impl |-> -1, tenure |-> -1, restored |-> {}]
NoRequest == [kind |-> "none"]
NoOffer == [t |-> 0]

Down == [pc |-> "down", t |-> 1, slots |-> [k \in Keys |-> NoSlot],
         obs |-> [k \in Keys |-> NoObservation], faulted |-> FALSE, poisoned |-> FALSE,
         todo |-> {}, seen |-> NoState, revision |-> 0, req |-> NoRequest,
         found |-> NoRequest]

Init ==
  /\ InitStore
  /\ host = [h \in Hosts |-> Down]
  /\ offer = NoOffer

\* Back to the Tick Boundary: what a call kept is gone.
Idle(s) ==
  [s EXCEPT !.pc = "idle", !.todo = {}, !.seen = NoState, !.revision = 0, !.req = NoRequest,
            !.found = NoRequest]

\* One entry is done with; the call goes on to the next, or ends.
Onward(s, k) ==
  IF s.todo \subseteq {k} THEN Idle(s)
  ELSE [s EXCEPT !.pc = "walk", !.todo = @ \ {k}, !.req = NoRequest, !.found = NoRequest]

\* A write of plan p through this host's handle, which is left poisoned or not.
Call(h, p, result, poison) ==
  IF host[h].poisoned THEN result = "refused" /\ poison /\ UNCHANGED store
  ELSE Transact(host[h].t, p, result, poison)

----------------------------------------------------------------------------
(* Tenures from the Events alone (closure.rs)                              *)

Tenure(n, i) == [tenure |-> n, impl |-> i]

\* open_tenure and closes: an activation opens the next tenure of its slot; -1
\* once it does not close the one before.
CloseEvent(r, e, k) ==
  IF e.kind # "activated" THEN r
  ELSE IF e.key # k THEN r
  ELSE IF r = Tenure(e.closing, e.from) THEN Tenure(e.closing + 1, e.to)
  ELSE Tenure(-1, -1)

\* fallback_tenures_v1: the latest tenure of a slot.
Closure(events, k) ==
  LET f[i \in 0..Len(events)] ==
        IF i = 0 THEN Tenure(0, Base) ELSE CloseEvent(f[i - 1], events[i], k)
  IN  f[Len(events)]

Opening(events, k, n) ==
  {i \in DOMAIN events :
     events[i].kind = "activated" /\ events[i].key = k /\ events[i].closing = n - 1}

----------------------------------------------------------------------------
(* The session controller                                                  *)

\* It derives a policy from what it reads now, may submit it later and through
\* another host, and may submit it again until it hears that it is committed.
PrepareOffer(h) ==
  LET t == host[h].t IN
  /\ host[h].pc = "idle" /\ ~host[h].poisoned
  /\ Len(log[t]) < MaxHead /\ Len(Effective(t).policy) < MaxPolicies
  /\ \E entries \in Entries :
       offer' = [t |-> t, kind |-> "declared", policy |-> Append(Effective(t).policy, entries),
                 revision |-> Effective(t).revision, head |-> Len(log[t]),
                 runs |-> [k \in Keys |-> Closure(log[t], k).impl]]
  /\ UNCHANGED <<store, host>>

RequireEffectiveMutant(o) == TRUE

\* require_effective: a slot never recorded runs the composer's base.
RequireEffective(o) ==
  \A k \in DOMAIN Declared(o.policy) : o.runs[k] = Declared(o.policy)[k].chain[1]

\* declare_composition_fallback_v1
SubmitOffer(h) ==
  LET p == Plan(host[h].t, offer) IN
  /\ host[h].pc = "idle"
  /\ offer.t = host[h].t
  /\ RequireEffective(offer)
  /\ \E result \in Results, poison \in BOOLEAN :
       /\ Call(h, p, result, poison)
       /\ host' = [host EXCEPT ![h].poisoned = poison]
       /\ offer' = IF result = "ok" THEN NoOffer ELSE offer

----------------------------------------------------------------------------
(* Passes and the automatic transaction                                    *)

\* CompositionBoundaryV1::runs for every declared entry
RunsEffective(h, s) ==
  \A k \in DOMAIN Declared(s.policy) : host[h].slots[k].impl = s.entries[k].impl

\* effective_entry
Listed(s) ==
  \A k \in DOMAIN Declared(s.policy) :
    /\ s.entries[k].pos < Len(Declared(s.policy)[k].chain)
    /\ Declared(s.policy)[k].chain[s.entries[k].pos + 1] = s.entries[k].impl

\* A faulted boundary or an unreadable registry refuses every transaction.
Readable(h) == ~host[h].faulted /\ ~host[h].poisoned /\ Listed(Effective(host[h].t))

\* checked: the live registry differs from the effective composition.
Diverged(h) == Readable(h) /\ ~RunsEffective(h, Effective(host[h].t))

\* A committed pass drops every observation; the transaction that follows finds
\* nothing to react to, but latches a divergence.
PassCommits(h) ==
  LET t == host[h].t IN
  /\ host[h].pc = "idle"
  /\ Len(log[t]) < MaxHead
  /\ Cardinality({i \in DOMAIN log[t] : log[t][i].kind = "world"}) < MaxPasses
  /\ log' = [log EXCEPT ![t] = Append(@, [kind |-> "world"])]
  /\ host' = [host EXCEPT ![h].obs = [k \in Keys |-> NoObservation],
                          ![h].faulted = @ \/ Diverged(h)]
  /\ UNCHANGED <<row, ledger, offer>>

\* A failed or refused pass names the members that failed with an eligible
\* cause; the transaction handles the declared ones among them.
PassFails(h) ==
  LET s == Effective(host[h].t) IN
  /\ host[h].pc = "idle" /\ Readable(h) /\ RunsEffective(h, s)
  /\ \E failed \in (SUBSET DOMAIN Declared(s.policy)) \ {{}} :
       host' = [host EXCEPT ![h].pc = "walk", ![h].seen = s, ![h].revision = s.revision,
                            ![h].todo = failed]
  /\ UNCHANGED <<store, offer>>

\* After a failed pass, or in an owner action, a divergence latches.
LatchDivergence(h) ==
  /\ host[h].pc = "idle" /\ Diverged(h)
  /\ host' = [host EXCEPT ![h].faulted = TRUE]
  /\ UNCHANGED <<store, offer>>

Entry(h, k) == Declared(host[h].seen.policy)[k]

Observe(s, k) == [s EXCEPT !.obs[k] = [impl |-> s.seen.entries[k].impl, code |-> "limit"]]

\* The request that closes the seen tenure in favour of chain position i.
Request(s, k, i, code, origin, revision, head) ==
  [kind |-> "activated", key |-> k, closing |-> s.entries[k].tenure,
   from |-> s.entries[k].impl, to |-> Declared(s.policy)[k].chain[i + 1], code |-> code,
   origin |-> origin, revision |-> revision, head |-> head]

AutomaticRequest(h, k, i, code) ==
  Request(host[h].seen, k, i, code, "automatic", host[h].revision, Len(log[host[h].t]))

\* step and react: the observation is kept; an undeclared code is ignored, a
\* manual entry waits for its owner, a chain may be exhausted.
Skip(h) ==
  /\ host[h].pc = "walk"
  /\ LET k == Min(host[h].todo) IN
       host' = [host EXCEPT ![h] = Onward(Observe(host[h], k), k)]
  /\ UNCHANGED <<store, offer>>

\* advance: the first later candidate that builds and validates, at the head
\* its prefix was read at.
Attempt(h) ==
  /\ host[h].pc = "walk"
  /\ Len(log[host[h].t]) < MaxHead
  /\ LET k == Min(host[h].todo) IN
       /\ Entry(h, k).mode = "automatic" /\ "limit" \in Entry(h, k).triggers
       /\ \E i \in host[h].seen.entries[k].pos + 1 .. Len(Entry(h, k).chain) - 1 :
            host' = [host EXCEPT ![h] = [Observe(host[h], k) EXCEPT
                       !.pc = "commit", !.req = AutomaticRequest(h, k, i, "limit")]]
  /\ UNCHANGED <<store, offer>>

----------------------------------------------------------------------------
(* Owner actions                                                           *)

\* owner_trigger: the bounded return repeats the code of the activation that
\* opened the tenure; a candidate needs an observation of the effective
\* implementation with a declared code.
OwnerCode(h, s, k, i) ==
  IF i = 0
  THEN {log[host[h].t][j].code : j \in Opening(log[host[h].t], k, s.entries[k].tenure)}
  ELSE {c \in Declared(s.policy)[k].triggers :
          host[h].obs[k] = [impl |-> s.entries[k].impl, code |-> c]}

\* owner_activate_v1 derives the composition and the trigger ...
OwnerActivate(h) ==
  LET s == Effective(host[h].t) IN
  /\ host[h].pc = "idle" /\ Readable(h) /\ RunsEffective(h, s)
  /\ Len(log[host[h].t]) < MaxHead
  /\ \E k \in DOMAIN Declared(s.policy) :
     \E i \in (0 .. Len(Declared(s.policy)[k].chain) - 1) \ {s.entries[k].pos} :
     \E code \in OwnerCode(h, s, k, i) :
       host' = [host EXCEPT ![h].pc = "owner", ![h].seen = s, ![h].revision = s.revision,
                            ![h].req = Request(s, k, i, code, "owner", s.revision, 0)]
  /\ UNCHANGED <<store, offer>>

\* ... then builds the target and reads the prefix ...
OwnerAttempt(h) ==
  /\ host[h].pc = "owner"
  /\ Len(log[host[h].t]) < MaxHead
  /\ host' = [host EXCEPT ![h].pc = "commit", ![h].req.head = Len(log[host[h].t])]
  /\ UNCHANGED <<store, offer>>

\* ... or reports the target skipped.
OwnerExhausted(h) ==
  /\ host[h].pc = "owner"
  /\ host' = [host EXCEPT ![h] = Idle(host[h])]
  /\ UNCHANGED <<store, offer>>

\* forget_observations_v1
ForgetObservations(h) ==
  /\ host[h].pc = "idle"
  /\ host' = [host EXCEPT ![h].obs = [k \in Keys |-> NoObservation]]
  /\ UNCHANGED <<store, offer>>

----------------------------------------------------------------------------
(* Commit and swap                                                         *)

\* commit_activation
CommitActivation(h) ==
  LET p == Plan(host[h].t, host[h].req) IN
  /\ host[h].pc = "commit"
  /\ \E result \in Results, poison \in BOOLEAN :
       /\ Call(h, p, result, poison)
       /\ host' = [host EXCEPT ![h].poisoned = poison,
            ![h].found = IF result = "ok" THEN p.row ELSE @,
            ![h].pc = CASE result = "ok" -> "apply"
                        [] result = "indeterminate" -> "adopt"
                        [] result = "refused" -> "refused"]
  /\ UNCHANGED offer

\* adopt: after an unknown outcome, the activation of the same tenure, whoever
\* committed it ...
Adopt(h) ==
  /\ host[h].pc = "adopt" /\ ~host[h].poisoned
  /\ \E r \in Occupants(host[h].t, host[h].req) :
       host' = [host EXCEPT ![h].pc = "apply", ![h].found = r]
  /\ UNCHANGED <<store, offer>>

\* ... or the refusal, when the lookup fails or finds nothing.
AdoptNothing(h) ==
  /\ host[h].pc = "adopt"
  /\ host' = [host EXCEPT ![h].pc = "refused"]
  /\ UNCHANGED <<store, offer>>

\* The entry is reported NotCommitted and the transaction goes on.
ReportNotCommitted(h) ==
  /\ host[h].pc = "refused"
  /\ host' = [host EXCEPT ![h] = Onward(host[h], host[h].req.key)]
  /\ UNCHANGED <<store, offer>>

EventMatchesMutant(e, q) == e.key = q.key

\* activation_event: the Event read back must activate the requested target.
EventMatches(e, q) == e.key = q.key /\ e.to = q.to

ContiguousMutant(head, n) == TRUE

\* validate_recovery_prefix_v1, which every restore runs: the Event appended to
\* the prefix follows its head.
Contiguous(head, n) == n = head + 1

\* Steps 5 and 6: swap, then restore from the prefix and the one Event.
Swap(h) ==
  LET q == host[h].req
      n == host[h].found.seq
      restored == (1..q.head) \cup {n} IN
  /\ host[h].pc = "apply"
  /\ EventMatches(log[host[h].t][n], q)
  /\ Contiguous(q.head, n)
  /\ host' = [host EXCEPT ![h] = [Onward(host[h], q.key) EXCEPT
                !.slots[q.key] = [impl |-> q.to, tenure |-> q.closing + 1, restored |-> restored],
                !.obs[q.key] = NoObservation, !.revision = host[h].found.revision]]
  /\ UNCHANGED <<store, offer>>

\* Any failure after the commit latches; the entry may be swapped, unrestored.
SwapFails(h) ==
  /\ host[h].pc = "apply"
  /\ \E slot \in {host[h].slots[host[h].req.key],
                  [impl |-> host[h].req.to, tenure |-> -1, restored |-> {}]} :
       host' = [host EXCEPT ![h] = [Idle(host[h]) EXCEPT !.faulted = TRUE,
                                                        !.slots[host[h].req.key] = slot]]
  /\ UNCHANGED <<store, offer>>

----------------------------------------------------------------------------
(* Crash and restart                                                       *)

Crash(h) ==
  /\ host[h].pc # "down"
  /\ host' = [host EXCEPT ![h] = [Down EXCEPT !.t = host[h].t]]
  /\ UNCHANGED <<store, offer>>

\* compose_restart_v1 derives the composition from a reopened store, on the
\* root or on a Fork.  A restart that fails has composed nothing: Crash.
Compose(h, t) ==
  /\ host[h].pc = "down"
  /\ t = 1 \/ log[t] # <<>>
  /\ Listed(Effective(t))
  /\ host' = [host EXCEPT ![h] = [Down EXCEPT !.pc = "derived", !.t = t, !.seen = Effective(t),
                                              !.revision = Effective(t).revision]]
  /\ UNCHANGED <<store, offer>>

\* RestartV1::slots: the tenures read from the Events must resolve and agree.
ResolveSlots(h) ==
  LET s == host[h].seen
      latest == [k \in Keys |-> Closure(log[host[h].t], k)] IN
  /\ host[h].pc = "derived"
  /\ \A k \in Keys : latest[k].tenure >= 0
  /\ \A k \in DOMAIN Declared(s.policy) : s.entries[k].impl = latest[k].impl
  /\ host' = [host EXCEPT ![h].pc = "compose", ![h].todo = Keys,
                 ![h].slots = [k \in Keys |-> [impl |-> latest[k].impl,
                                               tenure |-> latest[k].tenure, restored |-> {}]]]
  /\ UNCHANGED <<store, offer>>

\* The slot's effective implementation is built and installed.
ComposeSlot(h) ==
  /\ host[h].pc = "compose" /\ host[h].todo # {}
  /\ host' = [host EXCEPT ![h].todo = @ \ {Min(@)}]
  /\ UNCHANGED <<store, offer>>

\* replace and walk: it is missing, and a later candidate of an automatic entry
\* that declares the code is built instead.
AttemptRestart(h) ==
  /\ host[h].pc = "compose" /\ host[h].todo # {}
  /\ Len(log[host[h].t]) < MaxHead
  /\ LET k == Min(host[h].todo) IN
       /\ k \in DOMAIN Declared(host[h].seen.policy)
       /\ Entry(h, k).mode = "automatic" /\ "missing" \in Entry(h, k).triggers
       /\ \E i \in host[h].seen.entries[k].pos + 1 .. Len(Entry(h, k).chain) - 1 :
            host' = [host EXCEPT ![h].pc = "recommit",
                                 ![h].req = AutomaticRequest(h, k, i, "missing")]
  /\ UNCHANGED <<store, offer>>

\* RestartV1::activate: only an acknowledged commit is installed; any other
\* outcome, or a failed install, fails the restart.
CommitRestart(h) ==
  LET q == host[h].req
      p == Plan(host[h].t, q) IN
  /\ host[h].pc = "recommit"
  /\ \E result \in Results, poison \in BOOLEAN :
       /\ Call(h, p, result, poison)
       /\ \/ host' = [host EXCEPT ![h] = [Down EXCEPT !.t = host[h].t]]
          \/ /\ result = "ok"
             /\ host' = [host EXCEPT ![h].pc = "compose", ![h].todo = @ \ {q.key},
                  ![h].req = NoRequest, ![h].revision = p.row.revision,
                  ![h].slots[q.key] = [impl |-> q.to, tenure |-> q.closing + 1, restored |-> {}]]
  /\ UNCHANGED offer

\* Every Driver is restored over the whole prefix.
Restored(h) ==
  /\ host[h].pc = "compose" /\ host[h].todo = {}
  /\ host' = [host EXCEPT ![h] = [Idle(host[h]) EXCEPT
                !.slots = [k \in Keys |-> [host[h].slots[k] EXCEPT
                                             !.restored = DOMAIN log[host[h].t]]]]]
  /\ UNCHANGED <<store, offer>>

ForkRoot ==
  /\ \E t \in Timelines, cut \in DOMAIN log[1] : Fork(t, cut)
  /\ UNCHANGED <<host, offer>>

Next ==
  \/ \E h \in Hosts :
       \/ PrepareOffer(h) \/ SubmitOffer(h)
       \/ PassCommits(h) \/ PassFails(h) \/ LatchDivergence(h)
       \/ Skip(h) \/ Attempt(h) \/ OwnerActivate(h)
       \/ OwnerAttempt(h) \/ OwnerExhausted(h) \/ ForgetObservations(h)
       \/ CommitActivation(h) \/ Adopt(h) \/ AdoptNothing(h) \/ ReportNotCommitted(h)
       \/ Swap(h) \/ SwapFails(h) \/ Crash(h)
       \/ \E t \in Timelines : Compose(h, t)
       \/ ResolveSlots(h) \/ ComposeSlot(h) \/ AttemptRestart(h) \/ CommitRestart(h) \/ Restored(h)
  \/ ForkRoot

Spec == Init /\ [][Next]_vars

----------------------------------------------------------------------------
(* Properties                                                              *)

Slot == [impl : {-1} \cup Impls, tenure : -1..MaxHead, restored : SUBSET (1..MaxHead)]

\* Sizes and ranges: a chain position lies inside every chain there is, and a
\* revision never exceeds the Events.
TypeOK ==
  /\ \A t \in Timelines :
       /\ Len(log[t]) <= MaxHead
       /\ row[t].revision \in 0..Len(log[t]) /\ row[t].ordinal \in 0..Len(log[t])
       /\ \A k \in Keys : row[t].entries[k].pos \in 0..2 /\ row[t].entries[k].tenure \in -1..MaxHead
       /\ Len(ledger[t]) <= Len(log[t])
  /\ \A h \in Hosts :
       /\ host[h].pc \in {"down", "idle", "walk", "commit", "adopt", "refused", "apply",
                          "owner", "derived", "compose", "recommit"}
       /\ host[h].slots \in [Keys -> Slot]
       /\ host[h].obs \in [Keys -> [impl : {-1} \cup Impls, code : Codes \cup {"none"}]]
       /\ host[h].faulted \in BOOLEAN /\ host[h].poisoned \in BOOLEAN
       /\ host[h].todo \subseteq Keys
       /\ host[h].revision \in 0..MaxHead

\* The row of a Timeline is the fold of its Events, its ledger ends at the same
\* revision, and a Timeline without a row has no ledger: no operation ever
\* finds CorruptState, on a Fork of any cut either (check_row, fold_timeline).
RowIsFold == \A t \in Timelines : RowChecked(t)

\* The two derivations of what a slot runs agree: the registry's fold of
\* declarations, re-bases, withdrawals and activations, and the tenures counted
\* from the activation Events and the composer's base alone.  A restart that
\* reads both at one moment thus never fails with TENURES_UNRESOLVED or
\* TENURES_DIVERGED, nor a boundary with ENTRY_DIVERGED (RestartV1::agrees,
\* effective_entry).
TenuresAgree ==
  \A t \in Timelines : LET s == Fold(log[t]) IN
    /\ Listed(s)
    /\ \A k \in Keys :
         /\ Closure(log[t], k).tenure >= 0
         /\ s.entries[k] # Unrecorded =>
              Closure(log[t], k) = Tenure(s.entries[k].tenure, s.entries[k].impl)

Serving(h) ==
  ~host[h].faulted /\ host[h].pc \notin {"down", "derived", "compose", "recommit"}

\* What a host runs in a slot since it last swapped or composed it is what the
\* Events say of that tenure, although the commit it adopted may be another
\* host's (activation_event, adopt).
LiveNamedByEvents ==
  \A h \in Hosts : Serving(h) =>
    \A k \in Keys : LET slot == host[h].slots[k] IN
      IF slot.tenure = 0 THEN slot.impl = Base
      ELSE \E i \in Opening(log[host[h].t], k, slot.tenure) : log[host[h].t][i].to = slot.impl

\* The Driver a host runs was restored from a prefix without a gap that ends at
\* or after the activation that opened its tenure (apply, compose_restart_v1).
RestoredWithoutGap ==
  \A h \in Hosts : Serving(h) =>
    \A k \in Keys : LET slot == host[h].slots[k] IN
      /\ slot.restored = 1..Cardinality(slot.restored)
      /\ Opening(log[host[h].t], k, slot.tenure) \subseteq slot.restored

\* The host commits an activation in this step.
CommitsActivation(h) ==
  host[h].pc \in {"commit", "recommit"} /\ host'[h].pc # host[h].pc /\ log' # log

\* The policy and the tenure are those the host derived its decision from, and
\* mid-run the host runs the whole effective composition.
DecisionHolds(h) ==
  LET s == Fold(log[host[h].t]) IN
  /\ s.policy = host[h].seen.policy
  /\ s.entries[host[h].req.key] = host[h].seen.entries[host[h].req.key]
  /\ host[h].pc = "commit" => RunsEffective(h, s)

\* The declared slots that no longer run what the host derived.
Swapped(s) ==
  {k \in DOMAIN Declared(s.seen.policy) : s.slots[k].impl # s.seen.entries[k].impl}

\* Every revision since the derivation is a swap of the host's own transaction.
OwnRevisions(h) ==
  host[h].revision = host[h].seen.revision + Cardinality(Swapped(host[h]))

\* An activation is committed only under the policy and on the tenure its host
\* derived it from, and mid-run only while the host runs the whole effective
\* composition, whatever other hosts or an earlier unknown outcome committed,
\* as long as the host has adopted no activation from behind another's change
\* (FoldedV1::push, check_fresh).
DecisionFresh ==
  [][\A h \in Hosts : CommitsActivation(h) /\ OwnRevisions(h) => DecisionHolds(h)]_vars

\* The documentation of expected_state_revision: the state revision the caller
\* derived its decision from (FallbackActivateRequestV1).
ExpectedRevisionDerived == [][\A h \in Hosts : CommitsActivation(h) => DecisionHolds(h)]_vars

\* The documentation of NotCommitted: the registry refused the commit, nothing
\* changed, and the old composition stays in force (FallbackEntryOutcomeV1).
NotCommittedUnchanged ==
  \A h \in Hosts : host[h].pc = "refused" =>
    ~\E i \in DOMAIN ledger[host[h].t] : ledger[host[h].t][i].request = host[h].req

----------------------------------------------------------------------------
(* The inductive invariant: what every prefix of a Timeline's Events folds *)
(* to, and what the rows, the offer and the hosts hold of it.              *)

Origins == {"automatic", "owner"}

EntryStates == [tenure : {-1} \cup Nat, impl : {-1} \cup Impls, pos : 0..2]

States == [revision : Nat, policy : Seq(Entries), ordinal : Nat, entries : [Keys -> EntryStates]]

Events ==
  [kind : {"world"}]
  \cup [kind : {"declared"}, policy : Seq(Entries),
        rebased : SUBSET (Keys \X ({-1} \cup Impls))]
  \cup [kind : {"activated"}, policy : Seq(Entries), key : Keys, closing : Nat, from : Impls,
        to : Impls, code : Codes, origin : Origins, ordinal : Nat]

Activations ==
  [kind : {"activated"}, key : Keys, closing : {-1} \cup Nat, from : {-1} \cup Impls,
   to : Impls, code : Codes, origin : Origins, revision : Nat, head : Nat]

Declarations ==
  [t : Timelines, kind : {"declared"}, policy : Seq(Entries) \ {NoPolicy}, revision : Nat,
   head : Nat, runs : [Keys -> {-1} \cup Impls]]

Operations == [request : Activations \cup Declarations, revision : Nat, seq : Nat]

HostStates ==
  [pc : {"down", "idle", "walk", "commit", "adopt", "refused", "apply", "owner", "derived",
         "compose", "recommit"},
   t : Timelines,
   slots : [Keys -> [impl : {-1} \cup Impls, tenure : {-1} \cup Nat, restored : SUBSET Nat]],
   obs : [Keys -> [impl : {-1} \cup Impls, code : Codes \cup {"none"}]],
   faulted : BOOLEAN, poisoned : BOOLEAN, todo : SUBSET Keys, seen : States, revision : Nat,
   req : Activations \cup {NoRequest}, found : Operations \cup {NoRequest}]

Typed ==
  /\ log \in [Timelines -> Seq(Events)]
  /\ row \in [Timelines -> States]
  /\ ledger \in [Timelines -> Seq(Operations)]
  /\ host \in [Hosts -> HostStates]
  /\ offer \in Declarations \cup {NoOffer}

\* A transaction walks declared entries of the policy it derived, and what it
\* commits is an activation.
HostSound(s) ==
  /\ s.pc \in {"walk", "commit", "adopt", "refused", "apply", "owner"} =>
       s.todo \subseteq DOMAIN Declared(s.seen.policy)
  /\ s.pc = "walk" => s.todo # {}
  /\ s.pc = "idle" => s.todo = {}
  /\ s.pc \in {"commit", "adopt", "refused", "apply", "owner", "recommit"} =>
       s.req \in Activations
  /\ s.pc = "apply" => s.found \in Operations

\* Events fold to a state whose entries lie in their chains and whose tenures
\* are those the activations alone give; a slot never recorded runs the base.
SoundFold(events) ==
  LET s == Fold(events) IN
  /\ s \in States
  /\ s.revision <= Len(events) /\ s.ordinal <= Len(events)
  /\ Listed(s)
  /\ \A k \in Keys :
       /\ s.entries[k].tenure <= Len(events)
       /\ Closure(events, k) =
            IF s.entries[k] = Unrecorded THEN Tenure(0, Base)
            ELSE Tenure(s.entries[k].tenure, s.entries[k].impl)
       /\ s.entries[k] # Unrecorded => s.entries[k].tenure >= 0

\* A Fork may be cut anywhere, so this must hold of every prefix.
PrefixesSound ==
  \A t \in Timelines : \A n \in 0..Len(log[t]) : SoundFold(SubSeq(log[t], 1, n))

\* The offer names what its slots ran at the head it was derived from.
OfferSound ==
  offer # NoOffer =>
    /\ offer.head <= Len(log[offer.t])
    /\ \A k \in Keys : offer.runs[k] = Closure(SubSeq(log[offer.t], 1, offer.head), k).impl

StoreInv ==
  Typed /\ (\A h \in Hosts : HostSound(host[h])) /\ PrefixesSound /\ RowIsFold /\ OfferSound

----------------------------------------------------------------------------
(* The hosts' part of it: how a host's slots, its request and what it      *)
(* adopts are linked to the Events and the ledger of its Timeline.         *)

\* Some activation opens tenure n of slot k on implementation i.
Named(events, k, n, i) == \E j \in Opening(events, k, n) : events[j].to = i

\* A ledger row names the Event of its activation.
RowNamesEvent(r, events) ==
  /\ r.seq \in Opening(events, r.request.key, r.request.closing + 1)
  /\ events[r.seq].to = r.request.to
  /\ r.revision <= r.seq

LedgerSound ==
  \A t \in Timelines :
    /\ Len(ledger[t]) <= Len(log[t])
    /\ \A i \in DOMAIN ledger[t] :
         ledger[t][i].request.kind = "activated" => RowNamesEvent(ledger[t][i], log[t])

\* The composition was derived from a prefix of the Events; what the host has
\* changed of it since is an activation of the tenure that followed, and never
\* an entry that is still to be walked.
DecisionLinked(s, events) ==
  /\ s.pc \notin {"down", "idle"} =>
       \E m \in 0..Len(events) : s.seen = Fold(SubSeq(events, 1, m))
  /\ s.pc \notin {"down", "idle", "derived"} =>
       \A k \in Swapped(s) :
         k \notin s.todo /\ Named(events, k, s.seen.entries[k].tenure + 1, s.slots[k].impl)

\* The request closes the derived tenure of an entry the host has not changed;
\* what it found occupies the tenure.
RequestLinked(s, rows) ==
  /\ s.pc \in {"commit", "adopt", "refused", "apply", "owner", "recommit"} =>
       /\ s.req.key \in DOMAIN Declared(s.seen.policy) \ Swapped(s)
       /\ s.req.closing = s.seen.entries[s.req.key].tenure
       /\ s.req.revision = s.revision
  /\ s.pc = "apply" => \E i \in DOMAIN rows : s.found = rows[i] /\ Occupies(rows[i], s.req)

\* The slots of a sound host are those LiveNamedByEvents and RestoredWithoutGap
\* ask for; while a restart composes them they are not restored yet.
SlotsLinked(s, events) ==
  ~s.faulted /\ s.pc \notin {"down", "derived"} =>
    \A k \in Keys : LET slot == s.slots[k] IN
      /\ IF slot.tenure = 0 THEN slot.impl = Base ELSE Named(events, k, slot.tenure, slot.impl)
      /\ s.pc \notin {"compose", "recommit"} =>
           /\ slot.restored = 1..Cardinality(slot.restored)
           /\ Opening(events, k, slot.tenure) \subseteq slot.restored

HostBounded(s) ==
  /\ s.revision <= MaxHead
  /\ s.pc \in {"commit", "adopt", "apply", "recommit"} => s.req.head < MaxHead
  /\ \A k \in Keys : s.slots[k].tenure <= MaxHead /\ s.slots[k].restored \subseteq 1..MaxHead

HostLinked(s, events, rows) ==
  DecisionLinked(s, events) /\ RequestLinked(s, rows) /\ SlotsLinked(s, events) /\ HostBounded(s)

BoundaryInv ==
  /\ StoreInv
  /\ LedgerSound
  /\ \A t \in Timelines : Len(log[t]) <= MaxHead
  /\ offer # NoOffer => offer.head < MaxHead
  /\ \A h \in Hosts : HostLinked(host[h], log[host[h].t], ledger[host[h].t])

=============================================================================
