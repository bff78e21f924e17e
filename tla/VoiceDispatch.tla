--------------------------- MODULE VoiceDispatch ---------------------------
(***************************************************************************)
(* Outbound call dispatch: voice.call_dispatch_keys and its functions      *)
(* (099_5C1.sql), the worker that follows the caller contract at the end   *)
(* of that migration, the telephony provider it calls outside any          *)
(* transaction, and the reconcilers that settle what the worker could not. *)
(*                                                                         *)
(* A function of the migration is one short transaction whose effect is a  *)
(* single-row UPDATE guarded by its WHERE clause, so it is one action; the *)
(* caller's steps between two transactions are actions of their own.       *)
(* fn_reconcile_dispatch_outcome_internal() reads the row and then updates *)
(* it without a lock in between: two actions.                              *)
(***************************************************************************)
EXTENDS Integers, FiniteSets

CONSTANTS
  Keys,          \* dispatch_idempotency_key values
  Orgs,          \* tenants
  Payloads,      \* the request fields under the SHA-256 fingerprint
  Workers,       \* dispatching workers, each with a p_worker_id of its own
  Sources,       \* the reconciliation_source of each reconciler
  MaxAttempts,   \* bound on attempt_count
  LateVerdicts   \* may a verdict on one attempt be recorded on a later one?

ASSUME DispatchAssumption ==
  /\ MaxAttempts \in Nat
  /\ LateVerdicts \in BOOLEAN
  /\ Sources \subseteq {"PROVIDER_CALLBACK", "PROVIDER_LOOKUP", "OPERATOR"}

\* Values that stand for NULL.
NoWorker == "no worker"
NoKey    == "no key"
NoSource == "untouched"

ASSUME NullAssumption == NoWorker \notin Workers /\ NoKey \notin Keys

VARIABLES
  \* voice.call_dispatch_keys, a function of the key for each column
  dispatch_state, claimed_by, lease, attempt_count, submission_started,
  provider_call_ref, last_error, reconciliation_source,
  \* the reservation columns, voice.call_sessions, and the answers callers got
  request, call_session_id, call_sessions, replies,
  \* audit.audit_events with action_kind VOICE_DISPATCH_RECONCILED
  audit_events,
  \* the workers: step of the caller contract, key and attempt held
  pc, job, attempt,
  \* the provider: what became of the request of each attempt
  requests,
  \* the reconcilers: the verdict each one is recording
  verdict

rowVars         == <<dispatch_state, claimed_by, lease, attempt_count,
                     submission_started, provider_call_ref, last_error,
                     reconciliation_source>>
reservationVars == <<request, call_session_id, call_sessions, replies>>
workerVars      == <<pc, job, attempt>>
vars            == <<rowVars, reservationVars, audit_events, workerVars,
                     requests, verdict>>

Attempts == 1..MaxAttempts

DispatchStates ==
  {"RESERVED", "CLAIMED", "SUBMITTING", "CONFIRMED", "AMBIGUOUS", "FAILED"}

\* States from which only a reconciler may move a row.
Unsettled == {"SUBMITTING", "AMBIGUOUS"}

Outcomes == {"CREATED", "REPLAYED", "IDEMPOTENCY_KEY_REUSE_MISMATCH", "REFUSED"}

-----------------------------------------------------------------------------
RowTypeOK ==
  /\ dispatch_state \in [Keys -> DispatchStates \cup {"ABSENT"}]
  /\ claimed_by \in [Keys -> Workers \cup {NoWorker}]
  /\ lease \in [Keys -> {"none", "live", "lapsed"}]
  /\ attempt_count \in [Keys -> 0..MaxAttempts]
  /\ submission_started \in [Keys -> BOOLEAN]
  /\ provider_call_ref \in [Keys -> 0..MaxAttempts]
  /\ last_error \in [Keys -> {"null", "blank", "text"}]
  /\ reconciliation_source \in [Keys -> Sources \cup {NoSource}]

ReservationTypeOK ==
  /\ request \in [Keys -> (Orgs \X Payloads) \cup {<<>>}]
  /\ call_session_id \in [Keys -> Nat]
  /\ call_sessions \subseteq Nat \X Keys
  /\ replies \subseteq Keys \X Orgs \X Payloads \X Outcomes \X Nat

WorkerTypeOK ==
  /\ pc \in [Workers -> {"idle", "claimed", "begun", "placing", "accepted",
                         "rejected", "unknown", "refused"}]
  /\ job \in [Workers -> Keys \cup {NoKey}]
  /\ attempt \in [Workers -> 0..MaxAttempts]

RequestsTypeOK ==
  requests \in [Keys -> [Attempts -> {"none", "sent", "accepted", "rejected"}]]

Verdicts ==
  [step : {"none", "gathered", "calling"}, key : Keys \cup {NoKey},
   outcome : {"CONFIRMED", "FAILED"}, on : 0..MaxAttempts,
   old : DispatchStates \cup {"ABSENT"}]

VerdictTypeOK == verdict \in [Sources -> Verdicts]

AuditEvents ==
  [key : Keys, attempt : 0..MaxAttempts, source : Sources,
   old : DispatchStates \cup {"ABSENT"}, new : {"CONFIRMED", "FAILED"}]

AuditTypeOK == audit_events \subseteq AuditEvents

TypeOK ==
  /\ RowTypeOK
  /\ ReservationTypeOK
  /\ WorkerTypeOK
  /\ RequestsTypeOK
  /\ VerdictTypeOK
  /\ AuditTypeOK

Verdict(step, k, outcome, n, old) ==
  [step |-> step, key |-> k, outcome |-> outcome, on |-> n, old |-> old]

NoVerdict == Verdict("none", NoKey, "FAILED", 0, "ABSENT")

\* The migration creates the table empty, so every key starts absent.
Init ==
  /\ dispatch_state = [k \in Keys |-> "ABSENT"]
  /\ claimed_by = [k \in Keys |-> NoWorker]
  /\ lease = [k \in Keys |-> "none"]
  /\ attempt_count = [k \in Keys |-> 0]
  /\ submission_started = [k \in Keys |-> FALSE]
  /\ provider_call_ref = [k \in Keys |-> 0]
  /\ last_error = [k \in Keys |-> "null"]
  /\ reconciliation_source = [k \in Keys |-> NoSource]
  /\ request = [k \in Keys |-> <<>>]
  /\ call_session_id = [k \in Keys |-> 0]
  /\ call_sessions = {}
  /\ replies = {}
  /\ audit_events = {}
  /\ pc = [w \in Workers |-> "idle"]
  /\ job = [w \in Workers |-> NoKey]
  /\ attempt = [w \in Workers |-> 0]
  /\ requests = [k \in Keys |-> [n \in Attempts |-> "none"]]
  /\ verdict = [s \in Sources |-> NoVerdict]

-----------------------------------------------------------------------------
(* Reservation                                                             *)

\* The INSERT .. ON CONFLICT DO NOTHING wins: row and call session are created
\* in one transaction.  fn_new_uuid_v7() gives an identifier not used before.
Reserve(k, o, p) ==
  LET id == Cardinality(call_sessions) + 1 IN
  /\ dispatch_state[k] = "ABSENT"
  /\ dispatch_state' = [dispatch_state EXCEPT ![k] = "RESERVED"]
  /\ request' = [request EXCEPT ![k] = <<o, p>>]
  /\ call_session_id' = [call_session_id EXCEPT ![k] = id]
  /\ call_sessions' = call_sessions \cup {<<id, k>>}
  /\ replies' = replies \cup {<<k, o, p, "CREATED", id>>}
  /\ UNCHANGED <<claimed_by, lease, attempt_count, submission_started,
                 provider_call_ref, last_error, reconciliation_source>>

\* Mutant of ReplayOutcome: the fingerprint is not compared.
ReplayWithoutFingerprint(k, o, p) ==
  IF request[k][1] # o THEN "REFUSED" ELSE "REPLAYED"

\* What a caller that lost the insert is told about the row that is there.
ReplayOutcome(k, o, p) ==
  IF request[k][1] # o THEN "REFUSED"
  ELSE IF request[k][2] # p THEN "IDEMPOTENCY_KEY_REUSE_MISMATCH"
  ELSE "REPLAYED"

Replay(k, o, p) ==
  LET outcome == ReplayOutcome(k, o, p) IN
  /\ dispatch_state[k] # "ABSENT"
  /\ replies' = replies \cup
       {<<k, o, p, outcome, IF outcome = "REPLAYED" THEN call_session_id[k] ELSE 0>>}
  /\ UNCHANGED <<rowVars, request, call_session_id, call_sessions>>

Initiate(k, o, p) ==
  /\ Reserve(k, o, p) \/ Replay(k, o, p)
  /\ UNCHANGED <<audit_events, workerVars, requests, verdict>>

-----------------------------------------------------------------------------
(* Worker: claim, begin, call the provider, record                         *)

\* Mutant of Claimable: an expired lease frees a SUBMITTING row as well.
ClaimableAfterSubmission(k) ==
  \/ dispatch_state[k] \in {"RESERVED", "FAILED"}
  \/ dispatch_state[k] \in {"CLAIMED", "SUBMITTING"} /\ lease[k] = "lapsed"

\* States from which a worker may take the row: never dispatched, safely
\* failed, or claimed by a worker whose lease ran out before it began.
Claimable(k) ==
  \/ dispatch_state[k] \in {"RESERVED", "FAILED"}
  \/ dispatch_state[k] = "CLAIMED" /\ lease[k] = "lapsed"

\* A refused claim changes nothing and the worker stops, as it was.
Claim(w, k) ==
  /\ pc[w] = "idle"
  /\ Claimable(k)
  /\ attempt_count[k] < MaxAttempts
  /\ dispatch_state' = [dispatch_state EXCEPT ![k] = "CLAIMED"]
  /\ claimed_by' = [claimed_by EXCEPT ![k] = w]
  /\ lease' = [lease EXCEPT ![k] = "live"]
  /\ attempt_count' = [attempt_count EXCEPT ![k] = @ + 1]
  /\ submission_started' = [submission_started EXCEPT ![k] = FALSE]
  /\ pc' = [pc EXCEPT ![w] = "claimed"]
  /\ job' = [job EXCEPT ![w] = k]
  /\ attempt' = [attempt EXCEPT ![w] = attempt_count[k] + 1]
  /\ UNCHANGED <<provider_call_ref, last_error, reconciliation_source,
                 reservationVars, audit_events, requests, verdict>>

\* claim_expires_at passes.  A lease is also kept, and lapses, in SUBMITTING.
LapseLease(k) ==
  /\ lease[k] = "live"
  /\ lease' = [lease EXCEPT ![k] = "lapsed"]
  /\ UNCHANGED <<dispatch_state, claimed_by, attempt_count, submission_started,
                 provider_call_ref, last_error, reconciliation_source,
                 reservationVars, audit_events, workerVars, requests, verdict>>

\* Mutant of HoldsClaim: the updates are not guarded by claimed_by.
AnyoneHoldsClaim(w) == TRUE

HoldsClaim(w) == claimed_by[job[w]] = w

\* Mutant of BeginSucceeds: no durable boundary, the row stays CLAIMED.
BeginsWithoutBoundary(w) ==
  /\ dispatch_state[job[w]] = "CLAIMED" /\ HoldsClaim(w)
  /\ pc' = [pc EXCEPT ![w] = "begun"]
  /\ UNCHANGED <<rowVars, job, attempt>>

\* NOW() in "claim_expires_at > NOW()" is the start of the transaction, which
\* may lie before a lapse: with a lapsed lease the answer goes either way.
BeginSucceeds(w) ==
  /\ dispatch_state[job[w]] = "CLAIMED" /\ HoldsClaim(w)
  /\ dispatch_state' = [dispatch_state EXCEPT ![job[w]] = "SUBMITTING"]
  /\ submission_started' = [submission_started EXCEPT ![job[w]] = TRUE]
  /\ pc' = [pc EXCEPT ![w] = "begun"]
  /\ UNCHANGED <<claimed_by, lease, attempt_count, provider_call_ref, last_error,
                 reconciliation_source, job, attempt>>

\* Back to looking for work; the row is not the worker's concern any more.
Stop(w) ==
  /\ pc' = [pc EXCEPT ![w] = "idle"]
  /\ job' = [job EXCEPT ![w] = NoKey]
  /\ attempt' = [attempt EXCEPT ![w] = 0]

BeginRefused(w) ==
  /\ \/ dispatch_state[job[w]] # "CLAIMED"
     \/ ~HoldsClaim(w)
     \/ lease[job[w]] = "lapsed"
  /\ Stop(w)
  /\ UNCHANGED rowVars

Begin(w) ==
  /\ pc[w] = "claimed"
  /\ BeginSucceeds(w) \/ BeginRefused(w)
  /\ UNCHANGED <<reservationVars, audit_events, requests, verdict>>

\* TelephonyPort.place_call(), outside any transaction.
PlaceCall(w) ==
  /\ pc[w] = "begun"
  /\ pc' = [pc EXCEPT ![w] = "placing"]
  /\ requests' = [requests EXCEPT ![job[w]][attempt[w]] = "sent"]
  /\ UNCHANGED <<rowVars, reservationVars, audit_events, job, attempt, verdict>>

\* The provider accepts (the callee's phone rings) or rejects a request, after
\* however long it takes, and whoever is still listening.
ProviderAnswers(k, n) ==
  /\ requests[k][n] = "sent"
  /\ \E answer \in {"accepted", "rejected"} :
       requests' = [requests EXCEPT ![k][n] = answer]
  /\ UNCHANGED <<rowVars, reservationVars, audit_events, workerVars, verdict>>

\* The response reaches the worker, or it stops waiting without one.
CallReturns(w) ==
  /\ pc[w] = "placing"
  /\ \/ /\ requests[job[w]][attempt[w]] \in {"accepted", "rejected"}
        /\ pc' = [pc EXCEPT ![w] = requests[job[w]][attempt[w]]]
     \/ pc' = [pc EXCEPT ![w] = "unknown"]
  /\ UNCHANGED <<rowVars, reservationVars, audit_events, job, attempt, requests, verdict>>

\* A worker that no longer holds the claim updates no row and gets FALSE.
RecordConfirmed(w) ==
  LET k == job[w]
      mine == dispatch_state[k] = "SUBMITTING" /\ HoldsClaim(w) IN
  /\ pc[w] = "accepted"
  /\ IF mine
     THEN /\ dispatch_state' = [dispatch_state EXCEPT ![k] = "CONFIRMED"]
          /\ provider_call_ref' = [provider_call_ref EXCEPT ![k] = attempt[w]]
          /\ claimed_by' = [claimed_by EXCEPT ![k] = NoWorker]
          /\ lease' = [lease EXCEPT ![k] = "none"]
     ELSE UNCHANGED <<dispatch_state, provider_call_ref, claimed_by, lease>>
  /\ Stop(w)
  /\ UNCHANGED <<attempt_count, submission_started, last_error, reconciliation_source,
                 reservationVars, audit_events, requests, verdict>>

\* p_error may be NULL, which is stored as the empty string.
RecordAmbiguous(w, error) ==
  LET k == job[w]
      mine == dispatch_state[k] = "SUBMITTING" /\ HoldsClaim(w) IN
  /\ pc[w] = "unknown"
  /\ IF mine
     THEN /\ dispatch_state' = [dispatch_state EXCEPT ![k] = "AMBIGUOUS"]
          /\ last_error' = [last_error EXCEPT ![k] = error]
          /\ claimed_by' = [claimed_by EXCEPT ![k] = NoWorker]
          /\ lease' = [lease EXCEPT ![k] = "none"]
     ELSE UNCHANGED <<dispatch_state, last_error, claimed_by, lease>>
  /\ Stop(w)
  /\ UNCHANGED <<attempt_count, submission_started, provider_call_ref,
                 reconciliation_source, reservationVars, audit_events, requests, verdict>>

\* chk_cdk_reconciled_failed_has_evidence
HasEvidence(k, error) == reconciliation_source[k] = NoSource \/ error = "text"

\* A local abort before the begin, or a definite rejection by the provider.
\* The UPDATE aborts when the row it would store breaks the CHECK.
RecordFailed(w, error) ==
  LET k == job[w]
      mine == dispatch_state[k] \in {"CLAIMED", "SUBMITTING"} /\ HoldsClaim(w) IN
  /\ pc[w] \in {"claimed", "rejected"}
  /\ \/ /\ mine /\ HasEvidence(k, error)
        /\ dispatch_state' = [dispatch_state EXCEPT ![k] = "FAILED"]
        /\ last_error' = [last_error EXCEPT ![k] = error]
        /\ claimed_by' = [claimed_by EXCEPT ![k] = NoWorker]
        /\ lease' = [lease EXCEPT ![k] = "none"]
        /\ Stop(w)
     \/ /\ mine /\ ~HasEvidence(k, error)
        /\ pc' = [pc EXCEPT ![w] = "refused"]
        /\ UNCHANGED <<dispatch_state, last_error, claimed_by, lease, job, attempt>>
     \/ /\ ~mine
        /\ Stop(w)
        /\ UNCHANGED <<dispatch_state, last_error, claimed_by, lease>>
  /\ UNCHANGED <<attempt_count, submission_started, provider_call_ref,
                 reconciliation_source, reservationVars, audit_events, requests, verdict>>

\* The worker process dies, or gives up on an exception; it comes back with
\* its identifier and no memory.
Crash(w) ==
  /\ pc[w] # "idle"
  /\ Stop(w)
  /\ UNCHANGED <<rowVars, reservationVars, audit_events, requests, verdict>>

-----------------------------------------------------------------------------
(* Reconciliation                                                          *)

\* The current attempt can no longer be accepted: it was rejected, or it never
\* left and nobody is about to send it.
DeadAttempt(k) ==
  \/ requests[k][attempt_count[k]] = "rejected"
  \/ /\ requests[k][attempt_count[k]] = "none"
     /\ \A w \in Workers : job[w] = k => pc[w] # "begun"

\* A reconciler obtains its evidence on a row of idx_cdk_reconciliation: a
\* callback, a lookup, or what the operator sees in the provider's console.
\* It is true when it is obtained; nothing in the row ties it to the attempt.
GatherEvidence(s, k) ==
  /\ verdict[s].step = "none"
  /\ dispatch_state[k] \in Unsettled
  /\ \/ \E n \in Attempts :
          /\ requests[k][n] = "accepted"
          /\ verdict' =
               [verdict EXCEPT ![s] = Verdict("gathered", k, "CONFIRMED", n, "ABSENT")]
     \/ /\ DeadAttempt(k)
        /\ verdict' =
             [verdict EXCEPT ![s] = Verdict("gathered", k, "FAILED", attempt_count[k], "ABSENT")]
  /\ UNCHANGED <<rowVars, reservationVars, audit_events, workerVars, requests>>

\* The function reads v_old_state without locking the row ...
ReadOldState(s) ==
  /\ verdict[s].step = "gathered"
  /\ LET v == verdict[s] IN
       verdict' = [verdict EXCEPT ![s] =
                     Verdict("calling", v.key, v.outcome, v.on, dispatch_state[v.key])]
  /\ UNCHANGED <<rowVars, reservationVars, audit_events, workerVars, requests>>

\* LateVerdicts = FALSE is an assumption on the callers: a verdict reaches the
\* table before the attempt it is about has been settled and claimed again.
Timely(s) == LateVerdicts \/ verdict[s].on = attempt_count[verdict[s].key]

\* Mutant of Reconcilable: AMBIGUOUS rows are forgotten.
ReconcilableSubmitting == {"SUBMITTING"}

Reconcilable == {"SUBMITTING", "AMBIGUOUS"}

\* Mutant of ReconciledRef: the branches are swapped.
ReconciledRefSwapped(s, k) ==
  IF verdict[s].outcome = "FAILED" THEN verdict[s].on ELSE provider_call_ref[k]

ReconciledRef(s, k) ==
  IF verdict[s].outcome = "CONFIRMED" THEN verdict[s].on ELSE provider_call_ref[k]

\* ... and then updates it, if it is still unsettled, with its audit event.
\* The wrapper the reconciler may call fixes the source; FAILED takes a note.
ReconcileOutcome(s) ==
  LET k == verdict[s].key
      outcome == verdict[s].outcome IN
  /\ verdict[s].step = "calling"
  /\ Timely(s)
  /\ IF dispatch_state[k] \in Reconcilable
     THEN /\ dispatch_state' = [dispatch_state EXCEPT ![k] = outcome]
          /\ provider_call_ref' =
               [provider_call_ref EXCEPT ![k] = ReconciledRef(s, k)]
          /\ last_error' =
               [last_error EXCEPT ![k] = IF outcome = "FAILED" THEN "text" ELSE @]
          /\ reconciliation_source' = [reconciliation_source EXCEPT ![k] = s]
          /\ claimed_by' = [claimed_by EXCEPT ![k] = NoWorker]
          /\ lease' = [lease EXCEPT ![k] = "none"]
          /\ audit_events' = audit_events \cup
               {[key |-> k, attempt |-> attempt_count[k], source |-> s,
                 old |-> verdict[s].old, new |-> outcome]}
     ELSE UNCHANGED <<dispatch_state, provider_call_ref, last_error,
                      reconciliation_source, claimed_by, lease, audit_events>>
  /\ verdict' = [verdict EXCEPT ![s] = NoVerdict]
  /\ UNCHANGED <<attempt_count, submission_started, reservationVars, workerVars, requests>>

DiscardLate(s) ==
  /\ verdict[s].step = "calling"
  /\ ~Timely(s)
  /\ verdict' = [verdict EXCEPT ![s] = NoVerdict]
  /\ UNCHANGED <<rowVars, reservationVars, audit_events, workerVars, requests>>

-----------------------------------------------------------------------------
WorkerStep(w) ==
  \/ Begin(w)
  \/ PlaceCall(w)
  \/ CallReturns(w)
  \/ RecordConfirmed(w)
  \/ \E error \in {"blank", "text"} : RecordAmbiguous(w, error) \/ RecordFailed(w, error)

ReconcilerStep(s) ==
  \/ \E k \in Keys : GatherEvidence(s, k)
  \/ ReadOldState(s)
  \/ ReconcileOutcome(s)
  \/ DiscardLate(s)

Next ==
  \/ \E k \in Keys, o \in Orgs, p \in Payloads : Initiate(k, o, p)
  \/ \E w \in Workers, k \in Keys : Claim(w, k)
  \/ \E w \in Workers : WorkerStep(w) \/ Crash(w)
  \/ \E k \in Keys : LapseLease(k)
  \/ \E k \in Keys, n \in Attempts : ProviderAnswers(k, n)
  \/ \E s \in Sources : ReconcilerStep(s)

Spec == Init /\ [][Next]_vars

\* A worker that is alive takes its next step or crashes, the provider answers
\* what it was sent, and the callback and lookup jobs keep running.  Nothing
\* makes a worker claim, or keeps it from crashing.
Fairness ==
  /\ \A w \in Workers : WF_vars(WorkerStep(w))
  /\ \A k \in Keys, n \in Attempts : WF_vars(ProviderAnswers(k, n))
  /\ \A s \in Sources : WF_vars(ReconcilerStep(s))

FairSpec == Spec /\ Fairness

-----------------------------------------------------------------------------
(* Properties                                                              *)

\* The callee's phone rings at most once for a dispatch key, however many
\* workers crash, lose their lease or time out on the way (the double dial
\* that the SUBMITTING state was introduced against, section B).
AtMostOneCall ==
  \A k \in Keys : \A m, n \in Attempts :
    requests[k][m] = "accepted" /\ requests[k][n] = "accepted" => m = n

\* While a row may be claimed again, no request of any of its attempts has
\* rung or still can, and no worker is about to send one
\* (INV-VOICE-DISPATCH-03 and -04).
RetryableIsQuiet ==
  \A k \in Keys : dispatch_state[k] \in {"RESERVED", "CLAIMED", "FAILED"} =>
    /\ \A n \in Attempts : requests[k][n] \notin {"sent", "accepted"}
    /\ \A w \in Workers : job[w] = k => pc[w] # "begun"

\* A confirmed row names a call that really rang, whether its own worker or a
\* reconciler confirmed it (fn_record_dispatch_confirmed and
\* fn_reconcile_dispatch_outcome_internal).
ConfirmedIsReal ==
  \A k \in Keys : dispatch_state[k] = "CONFIRMED" =>
    /\ provider_call_ref[k] \in Attempts
    /\ requests[k][provider_call_ref[k]] = "accepted"

\* A row is settled, out of SUBMITTING or AMBIGUOUS, only by the worker that
\* holds it and has the provider's answer to the current attempt, or by a
\* verdict that leaves an audit event behind.
SettledByHolderOrAudited ==
  [][ \A k \in Keys :
        dispatch_state[k] \in Unsettled /\ dispatch_state'[k] \notin Unsettled =>
          \/ \E w \in Workers :
               /\ claimed_by[k] = w /\ job[w] = k
               /\ attempt[w] = attempt_count[k]
               /\ pc[w] \in {"accepted", "rejected"}
          \/ \E e \in audit_events' \ audit_events :
               e.key = k /\ e.new = dispatch_state'[k] ]_vars

\* However late a verdict is recorded, a second ring is never the work of the
\* lease machinery alone: it takes a reconciliation to FAILED, on the record.
SecondCallIsAudited ==
  \A k \in Keys : \A m, n \in Attempts :
    requests[k][m] = "accepted" /\ requests[k][n] = "accepted" /\ m # n =>
      \E e \in audit_events : e.key = k /\ e.new = "FAILED"

\* Every caller that is given the call of a key is given the same call, made
\* for its own tenant and its own request, and only one of them created it
\* (INV-VOICE-DISPATCH-01 and the fingerprint check).
OneSessionPerKey ==
  /\ \A r, q \in replies :
       /\ r[1] = q[1]
       /\ r[4] \in {"CREATED", "REPLAYED"} /\ q[4] \in {"CREATED", "REPLAYED"}
       => r[2] = q[2] /\ r[3] = q[3] /\ r[5] = q[5]
  /\ \A c, d \in call_sessions : c[1] = d[1] \/ c[2] = d[2] => c = d
  /\ \A r \in replies : r[5] # 0 => <<r[5], r[1]>> \in call_sessions

\* An attempt whose outcome is in doubt is settled in the end, also when the
\* worker that made it is gone (the reconciliation path of cases B and C).
DoubtIsSettled ==
  \A k \in Keys : dispatch_state[k] \in Unsettled ~> dispatch_state[k] \notin Unsettled

\* Requests that did not ring and never will.
Dead == {"none", "rejected"}

\* A row that left RESERVED has an attempt.
AttemptsCounted ==
  \A k \in Keys :
    dispatch_state[k] \in DispatchStates \ {"RESERVED"} => attempt_count[k] \in Attempts

\* A worker that is at work on a row names it and one of its attempts.
WorkersHaveJobs ==
  \A w \in Workers : pc[w] # "idle" =>
    job[w] \in Keys /\ attempt[w] \in 1..attempt_count[job[w]]

\* So does a reconciler with a verdict.
VerdictsHaveKeys ==
  \A s \in Sources : verdict[s].step # "none" =>
    verdict[s].key \in Keys /\ verdict[s].on \in Attempts

RowInv         == RowTypeOK /\ AttemptsCounted
ReservationInv == ReservationTypeOK /\ IsFiniteSet(call_sessions)
WorkerInv      == WorkerTypeOK /\ WorkersHaveJobs
VerdictInv     == VerdictTypeOK /\ VerdictsHaveKeys

\* TypeOK, with what makes every lookup in range.
TypeInv ==
  /\ RowInv
  /\ ReservationInv
  /\ WorkerInv
  /\ RequestsTypeOK
  /\ VerdictInv
  /\ AuditTypeOK

\* A request is made by the one worker that claimed its attempt, and it is not
\* made before that worker places the call.
OneRequestPerAttempt ==
  /\ \A k \in Keys, n \in Attempts : n > attempt_count[k] => requests[k][n] = "none"
  /\ \A u, w \in Workers :
       pc[u] # "idle" /\ pc[w] # "idle" /\ job[u] = job[w] /\ attempt[u] = attempt[w] => u = w
  /\ \A w \in Workers :
       pc[w] \in {"claimed", "begun"} => requests[job[w]][attempt[w]] = "none"

\* A worker knows what the provider answered; and while it holds its row, its
\* attempt is the current one, and claimed until it begins.
WorkerInStep(w) == pc[w] # "idle" =>
  /\ pc[w] \in {"accepted", "rejected"} => requests[job[w]][attempt[w]] = pc[w]
  /\ claimed_by[job[w]] = w =>
       /\ attempt[w] = attempt_count[job[w]]
       /\ pc[w] = "claimed" => dispatch_state[job[w]] = "CLAIMED"

\* Only the request of the current attempt of a row can be alive, and only
\* while the row says that it may be; and a worker is about to dial only for
\* the row that it holds.
KeyInStep(k) ==
  /\ \A n \in Attempts :
       /\ n < attempt_count[k] => requests[k][n] \in Dead
       /\ dispatch_state[k] \notin Unsettled \cup {"CONFIRMED"} => requests[k][n] \in Dead
  /\ \A w \in Workers : job[w] = k /\ pc[w] = "begun" =>
       claimed_by[k] = w /\ dispatch_state[k] = "SUBMITTING"

\* The attempt of a row cannot ring any more.
DeadForGood(k) ==
  /\ dispatch_state[k] \in Unsettled \cup {"CONFIRMED", "FAILED"}
  /\ requests[k][attempt_count[k]] \in Dead
  /\ \A w \in Workers : job[w] = k => pc[w] # "begun"

\* A verdict is about an attempt that was made, and a call it reports rang.
EvidenceIsReal(s) == verdict[s].step # "none" =>
  /\ verdict[s].on <= attempt_count[verdict[s].key]
  /\ verdict[s].outcome = "CONFIRMED" => requests[verdict[s].key][verdict[s].on] = "accepted"

\* A verdict that no call was made stays true for as long as the attempt it is
\* about is the current one.
VerdictSound(s) ==
  /\ verdict[s].step # "none"
  /\ verdict[s].outcome = "FAILED"
  /\ verdict[s].on = attempt_count[verdict[s].key]
  => DeadForGood(verdict[s].key)

\* The reservation columns, the call sessions and the answers agree.
ReservationsAgree ==
  /\ \A c \in call_sessions :
       /\ c[1] \in 1..Cardinality(call_sessions)
       /\ dispatch_state[c[2]] # "ABSENT"
       /\ c[1] = call_session_id[c[2]]
  /\ \A c, d \in call_sessions : c[1] = d[1] => c = d
  /\ \A k \in Keys : dispatch_state[k] # "ABSENT" =>
       request[k] # <<>> /\ <<call_session_id[k], k>> \in call_sessions
  /\ \A r \in replies :
       IF r[4] \in {"CREATED", "REPLAYED"}
       THEN /\ dispatch_state[r[1]] # "ABSENT"
            /\ request[r[1]] = <<r[2], r[3]>>
            /\ call_session_id[r[1]] = r[5]
       ELSE r[5] = 0

\* An attempt is settled by a verdict once.
AuditedOnce ==
  \A e \in audit_events :
    /\ e.attempt <= attempt_count[e.key]
    /\ e.attempt = attempt_count[e.key] => dispatch_state[e.key] \in {"CONFIRMED", "FAILED"}

\* What every step preserves, however late a verdict is recorded.
RecordsInv ==
  /\ ReservationsAgree
  /\ AuditedOnce
  /\ OneRequestPerAttempt
  /\ \A w \in Workers : WorkerInStep(w)
  /\ \A s \in Sources : EvidenceIsReal(s)
  /\ ConfirmedIsReal

\* No verdict has declared an attempt of the key FAILED.
NeverFailed(k) == \A e \in audit_events : e.key = k => e.new # "FAILED"

\* Until one does, a key is in step.
UntilFailed == \A k \in Keys : NeverFailed(k) => KeyInStep(k)

\* Why AtMostOneCall and the others hold when verdicts are timely: every key is
\* in step, and a verdict is still true when it is recorded.
CallInv ==
  /\ \A k \in Keys : KeyInStep(k)
  /\ \A s \in Sources : VerdictSound(s)

\* What is preserved by every step.
Inductive ==
  /\ TypeInv
  /\ RecordsInv
  /\ UntilFailed
  /\ ~LateVerdicts => CallInv

\* The dispatch table keeps the promise of CallOnce.
Promise == INSTANCE CallOnce WITH
  Ids         <- Attempts,
  outstanding <- [k \in Keys |-> {n \in Attempts : requests[k][n] = "sent"}],
  rang        <- [k \in Keys |-> {n \in Attempts : requests[k][n] = "accepted"}],
  used        <- [k \in Keys |-> {n \in Attempts : requests[k][n] # "none"}],
  confirmed   <- {k \in Keys : dispatch_state[k] = "CONFIRMED"}

CallsOnce == Promise!Spec

-----------------------------------------------------------------------------
(* What the migration's comments say and the code does not do              *)

\* "Does not constrain the synchronous, same-worker fn_record_dispatch_failed()
\* path": a worker that holds the row can always record its failure.
FailureReportAccepted == \A w \in Workers : pc[w] # "refused"
=============================================================================
