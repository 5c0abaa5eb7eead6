-------------------------- MODULE FallbackRegistry --------------------------
(***************************************************************************)
(* The durable composition fallback registry (ADR-119) of                  *)
(* crates/pos-store/src/composition_fallback_registry, as SqliteStore      *)
(* hosts it: per Timeline the log of Events, one row, and the ledger of    *)
(* its own operations.  The row must equal the fold of the Events.  A Fork *)
(* inherits Events, but neither row nor ledger.                            *)
(*                                                                         *)
(* A policy's digest covers its predecessor's, so a policy stands here for *)
(* the list of the entries declared up to and including it; the empty list *)
(* is no policy.  A request stands for its digest.  Scope, entity,         *)
(* conformance sets, Ticks and the skipped candidates have no effect on    *)
(* what is committed and are left out.                                     *)
(***************************************************************************)
EXTENDS Integers, Sequences, FiniteSets

CONSTANTS
  Keys,       \* entry keys, numbered in policy order
  Timelines,  \* 1 is the root; the others may become Forks of it
  MaxHead     \* bound on a Timeline's Events

ASSUME MaxHeadAssumption == MaxHead \in Nat

VARIABLES
  log,      \* the Events of each Timeline, inherited ones included
  row,      \* its registry row, or NoState
  ledger    \* the operations committed on the Timeline itself

store == <<log, row, ledger>>

NoPolicy == <<>>
Unrecorded == [tenure |-> -1, impl |-> -1, pos |-> 0]
NoState == [revision |-> 0, policy |-> NoPolicy, ordinal |-> 0,
            entries |-> [k \in Keys |-> Unrecorded]]
Corrupt == [NoState EXCEPT !.revision = -1]

InitStore ==
  /\ log = [t \in Timelines |-> <<>>]
  /\ row = [t \in Timelines |-> NoState]
  /\ ledger = [t \in Timelines |-> <<>>]

----------------------------------------------------------------------------
(* The fold                                                                *)

\* The entries a policy declares: empty for none and for a withdrawal.
Declared(policy) == IF policy = NoPolicy THEN <<>> ELSE policy[Len(policy)]

Previous(policy) == SubSeq(policy, 1, Len(policy) - 1)

\* The entries in a candidate tenure, which a declaration re-bases.
Rebased(s) == {<<k, s.entries[k].impl>> : k \in {k \in Keys : s.entries[k].pos > 0}}

PrimaryMismatch(s, policy) ==
  \E k \in DOMAIN Declared(policy) :
    s.entries[k] # Unrecorded /\ s.entries[k].impl # Declared(policy)[k].chain[1]

DeclareMutant(s, policy) ==
  [s EXCEPT !.policy = policy,
            !.entries = [k \in Keys |->
              IF @[k] = Unrecorded /\ k \in DOMAIN Declared(policy)
              THEN [tenure |-> 0, impl |-> Declared(policy)[k].chain[1], pos |-> 0]
              ELSE [@[k] EXCEPT !.pos = 0]]]

\* Every chain restarts, and new entries open tenure 0 on their primary.
Declare(s, policy) ==
  [s EXCEPT !.revision = @ + 1, !.policy = policy,
            !.entries = [k \in Keys |->
              IF @[k] = Unrecorded /\ k \in DOMAIN Declared(policy)
              THEN [tenure |-> 0, impl |-> Declared(policy)[k].chain[1], pos |-> 0]
              ELSE [@[k] EXCEPT !.pos = 0]]]

ApplyDeclared(s, e) ==
  IF e.policy # NoPolicy /\ Previous(e.policy) = s.policy /\ e.rebased = Rebased(s)
     /\ ~PrimaryMismatch(s, e.policy)
  THEN Declare(s, e.policy) ELSE Corrupt

ChainIndexMutant(entry, impl) ==
  IF \E i \in DOMAIN entry.chain : entry.chain[i] = impl
  THEN CHOOSE i \in DOMAIN entry.chain : entry.chain[i] = impl ELSE -1

\* chain_index, counted from 0; -1 when the implementation is not listed
ChainIndex(entry, impl) ==
  IF \E i \in DOMAIN entry.chain : entry.chain[i] = impl
  THEN (CHOOSE i \in DOMAIN entry.chain : entry.chain[i] = impl) - 1 ELSE -1

\* transition: the activation closes the entry's tenure on its effective
\* implementation and names a listed one.
MayClose(s, e) ==
  /\ e.key \in DOMAIN Declared(s.policy)
  /\ s.entries[e.key].tenure = e.closing
  /\ s.entries[e.key].impl = e.from
  /\ ChainIndex(Declared(s.policy)[e.key], e.to) >= 0

Activate(s, e) ==
  [s EXCEPT !.revision = @ + 1, !.ordinal = e.ordinal,
            !.entries[e.key] = [tenure |-> e.closing + 1, impl |-> e.to,
                                pos |-> ChainIndex(Declared(s.policy)[e.key], e.to)]]

ApplyActivated(s, e) ==
  IF e.policy = s.policy /\ MayClose(s, e) /\ e.ordinal = s.ordinal + 1
  THEN Activate(s, e) ELSE Corrupt

FoldEvent(s, e) ==
  CASE s = Corrupt -> s
    [] e.kind = "declared" -> ApplyDeclared(s, e)
    [] e.kind = "activated" -> ApplyActivated(s, e)
    [] OTHER -> s

\* fold_timeline
Fold(events) ==
  LET f[i \in 0..Len(events)] == IF i = 0 THEN NoState ELSE FoldEvent(f[i - 1], events[i])
  IN  f[Len(events)]

\* effective_composition_v1: the row, or the fold where there is none.
Effective(t) == IF row[t] = NoState THEN Fold(log[t]) ELSE row[t]

----------------------------------------------------------------------------
(* Planning a write                                                        *)

Refusal == [kind |-> "refuse"]

\* The ledger row of the declaration, or of the activation that closed the
\* same tenure (lookup_declaration, lookup_activation).
Occupies(r, q) ==
  /\ r.request.kind = q.kind
  /\ IF q.kind = "declared" THEN r.request.policy = q.policy
     ELSE r.request.key = q.key /\ r.request.closing = q.closing

Occupants(t, q) == {r \in {ledger[t][i] : i \in DOMAIN ledger[t]} : Occupies(r, q)}

\* check_row
RowChecked(t) ==
  LET s == Fold(log[t]) IN
  /\ s # Corrupt
  /\ IF row[t] = NoState THEN ledger[t] = <<>>
     ELSE row[t] = s /\ (ledger[t] # <<>> => ledger[t][Len(ledger[t])].revision = s.revision)

\* check_declaration
MayDeclare(s, policy) ==
  /\ Previous(policy) = s.policy
  /\ ~(s.policy = NoPolicy /\ Declared(policy) = <<>>)
  /\ ~PrimaryMismatch(s, policy)

\* check_rules
RulesHold(s, e) ==
  LET entry == Declared(s.policy)[e.key]
      to    == ChainIndex(entry, e.to) IN
  /\ e.origin = "automatic" => entry.mode = "automatic" /\ to > s.entries[e.key].pos
  /\ to = 0 \/ e.code \in entry.triggers

DeclaredEvent(s, q) == [kind |-> "declared", policy |-> q.policy, rebased |-> Rebased(s)]

ActivatedEvent(s, q) ==
  [kind |-> "activated", policy |-> s.policy, key |-> q.key, closing |-> q.closing,
   from |-> q.from, to |-> q.to, code |-> q.code, origin |-> q.origin, ordinal |-> s.ordinal + 1]

FreshMutant(t, s, q) == q.head = Len(log[t])

\* check_fresh: StaleState, then StaleHead
Fresh(t, s, q) == q.revision = s.revision /\ q.head = Len(log[t])

\* WriteV1::plan.  A declaration is identified by its policy alone, an
\* activation by every argument.
Plan(t, q) ==
  LET s == Fold(log[t])
      e == IF q.kind = "declared" THEN DeclaredEvent(s, q) ELSE ActivatedEvent(s, q) IN
  CASE ~RowChecked(t) -> Refusal
    [] Occupants(t, q) # {} ->
         LET r == CHOOSE r \in Occupants(t, q) : TRUE IN
         IF q.kind = "declared" \/ r.request = q THEN [kind |-> "replay", row |-> r] ELSE Refusal
    [] ~Fresh(t, s, q) -> Refusal
    [] q.kind = "declared" /\ ~MayDeclare(s, q.policy) -> Refusal
    [] q.kind = "activated" /\ ~(MayClose(s, e) /\ RulesHold(s, e)) -> Refusal
    [] OTHER -> [kind |-> "commit", event |-> e, state |-> FoldEvent(s, e),
                 row |-> [request |-> q, revision |-> FoldEvent(s, e).revision,
                          seq |-> Len(log[t]) + 1]]

----------------------------------------------------------------------------
(* Writing it                                                              *)

CommitMutant(t, p) ==
  /\ log' = [log EXCEPT ![t] = Append(@, p.event)]
  /\ ledger' = [ledger EXCEPT ![t] = Append(@, p.row)]
  /\ row' = IF ledger[t] = <<>> THEN row ELSE [row EXCEPT ![t] = p.state]

\* write_fallback_plan: Event, row and ledger in one transaction.
Commit(t, p) ==
  /\ log' = [log EXCEPT ![t] = Append(@, p.event)]
  /\ row' = [row EXCEPT ![t] = p.state]
  /\ ledger' = [ledger EXCEPT ![t] = Append(@, p.row)]

\* DurableRegistryV1::transaction around a plan.  A refused plan changes
\* nothing.  A COMMIT may be durable although it, or the restore of the
\* durability level after it, reports a failure; that restore, or a rollback,
\* may leave the connection unusable.
Transact(t, p, result, poison) ==
  \/ p.kind = "commit" /\ result = "ok" /\ ~poison /\ Commit(t, p)
  \/ p.kind = "commit" /\ result = "indeterminate" /\ Commit(t, p)
  \/ p.kind = "replay" /\ result = "ok" /\ ~poison /\ UNCHANGED store
  \/ result = "indeterminate" /\ UNCHANGED store
  \/ result = "refused" /\ ~poison /\ UNCHANGED store

Results == {"ok", "indeterminate", "refused"}

\* create a Fork of the root at a cut
Fork(t, cut) ==
  /\ t # 1 /\ log[t] = <<>>
  /\ log' = [log EXCEPT ![t] = SubSeq(log[1], 1, cut)]
  /\ UNCHANGED <<row, ledger>>

=============================================================================
