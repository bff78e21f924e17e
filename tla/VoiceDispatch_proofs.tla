------------------------ MODULE VoiceDispatch_proofs ------------------------
(***************************************************************************)
(* Proofs about VoiceDispatch, for any number of keys, workers,            *)
(* reconcilers and attempts: first of its records (rows, reservations,     *)
(* audit events), however late a verdict is recorded; then, when verdicts  *)
(* are timely, that there is one call per dispatch key.                    *)
(***************************************************************************)
EXTENDS VoiceDispatch, FiniteSetTheorems, TLAPS

-----------------------------------------------------------------------------
(* The records, without an assumption on the reconcilers                   *)

\* The row and the attempt of a busy worker are in range.
LEMMA JobInRange ==
  ASSUME TypeInv, NEW w \in Workers, pc[w] # "idle"
  PROVE  job[w] \in Keys /\ attempt[w] \in Attempts /\ attempt[w] \in 1..attempt_count[job[w]]
  BY DispatchAssumption
  DEF TypeInv, RowInv, RowTypeOK, WorkerInv, WorkersHaveJobs, Attempts

\* The migration's empty table, idle workers and reconcilers satisfy TypeInv.
LEMMA TypeInit == Init => TypeInv
  BY DispatchAssumption, NullAssumption, FS_EmptySet
  DEF Init, TypeInv, RowInv, RowTypeOK, AttemptsCounted, ReservationInv, ReservationTypeOK,
      WorkerInv, WorkerTypeOK, WorkersHaveJobs, RequestsTypeOK, VerdictInv, VerdictTypeOK,
      VerdictsHaveKeys, AuditTypeOK, Verdicts, Attempts, DispatchStates, NoVerdict, Verdict

\* Every transaction and every step of a worker, the provider or a reconciler
\* keeps the table well formed and the bookkeeping of attempts in range.
LEMMA TypeStep == TypeInv /\ [Next]_vars => TypeInv'
<1>. SUFFICES ASSUME TypeInv, [Next]_vars PROVE TypeInv'
  OBVIOUS
<1>. USE DispatchAssumption, NullAssumption DEF TypeInv
<1>1. ASSUME NEW k \in Keys, NEW o \in Orgs, NEW p \in Payloads, Initiate(k, o, p)
      PROVE TypeInv'
  <2>1. WorkerInv' /\ RequestsTypeOK' /\ VerdictInv' /\ AuditTypeOK'
    BY <1>1 DEF Initiate, Reserve, Replay, rowVars, workerVars, WorkerInv, WorkerTypeOK,
       WorkersHaveJobs, RequestsTypeOK, VerdictInv, VerdictTypeOK, VerdictsHaveKeys, AuditTypeOK
  <2>2. RowInv'
    BY <1>1 DEF Initiate, Reserve, Replay, rowVars, RowInv, RowTypeOK, AttemptsCounted,
       DispatchStates
  <2>3. ReservationInv'
    <3>1. CASE Reserve(k, o, p)
      <4>1. Cardinality(call_sessions) + 1 \in Nat
        BY FS_CardinalityType DEF ReservationInv
      <4>2. IsFiniteSet(call_sessions')
        BY <3>1, FS_AddElement DEF Reserve, ReservationInv
      <4>3. call_sessions' \subseteq Nat \X Keys /\ call_session_id' \in [Keys -> Nat]
        BY <3>1, <4>1 DEF Reserve, ReservationInv, ReservationTypeOK
      <4>4. replies' \subseteq Keys \X Orgs \X Payloads \X Outcomes \X Nat
        BY <3>1, <4>1 DEF Reserve, ReservationInv, ReservationTypeOK, Outcomes
      <4>. QED
        BY <3>1, <4>2, <4>3, <4>4 DEF Reserve, ReservationInv, ReservationTypeOK
    <3>2. CASE Replay(k, o, p)
      <4>1. ReplayOutcome(k, o, p) \in Outcomes
        BY DEF ReplayOutcome, Outcomes
      <4>2. replies' \subseteq Keys \X Orgs \X Payloads \X Outcomes \X Nat
        BY <3>2, <4>1 DEF Replay, ReservationInv, ReservationTypeOK
      <4>. QED
        BY <3>2, <4>2 DEF Replay, ReservationInv, ReservationTypeOK
    <3>. QED
      BY <1>1, <3>1, <3>2 DEF Initiate
  <2>. QED
    BY <2>1, <2>2, <2>3
<1>2. ASSUME NEW w \in Workers, NEW k \in Keys, Claim(w, k) PROVE TypeInv'
  <2>1. ReservationInv' /\ RequestsTypeOK' /\ VerdictInv' /\ AuditTypeOK'
    BY <1>2 DEF Claim, ReservationInv, ReservationTypeOK, reservationVars,
       RequestsTypeOK, VerdictInv, VerdictTypeOK, VerdictsHaveKeys, AuditTypeOK
  <2>2. RowInv'
    BY <1>2 DEF Claim, Claimable, RowInv, RowTypeOK, AttemptsCounted, Attempts,
       DispatchStates
  <2>3. WorkerInv'
    BY <1>2 DEF Claim, WorkerInv, WorkerTypeOK, WorkersHaveJobs, RowInv, RowTypeOK,
       Attempts
  <2>. QED
    BY <2>1, <2>2, <2>3
<1>3. ASSUME NEW w \in Workers, Begin(w) PROVE TypeInv'
  <2>1. job[w] \in Keys /\ attempt[w] \in Attempts
    BY <1>3, JobInRange DEF Begin
  <2>2. ReservationInv' /\ RequestsTypeOK' /\ VerdictInv' /\ AuditTypeOK'
    BY <1>3 DEF Begin, BeginSucceeds, BeginRefused, HoldsClaim, Stop, ReservationInv,
       ReservationTypeOK, reservationVars, RequestsTypeOK, VerdictInv, VerdictTypeOK,
       VerdictsHaveKeys, AuditTypeOK
  <2>3. RowInv'
    <3>1. CASE BeginSucceeds(w)
      <4>1. RowTypeOK'
        BY <2>1, <3>1 DEF BeginSucceeds, TypeInv, RowInv, RowTypeOK, DispatchStates
      <4>2. AttemptsCounted'
        BY <2>1, <3>1 DEF BeginSucceeds, TypeInv, RowInv, RowTypeOK, AttemptsCounted,
          DispatchStates
      <4>. QED
        BY <4>1, <4>2 DEF RowInv
    <3>2. CASE UNCHANGED rowVars
      BY <3>2 DEF rowVars, TypeInv, RowInv, RowTypeOK, AttemptsCounted
    <3>. QED
      BY <1>3, <3>1, <3>2 DEF Begin, BeginRefused
  <2>4. WorkerInv'
    BY <1>3, <2>1 DEF Begin, BeginSucceeds, BeginRefused, HoldsClaim, Stop, rowVars,
       WorkerInv, WorkerTypeOK, WorkersHaveJobs, RowInv, RowTypeOK, Attempts
  <2>. QED
    BY <2>2, <2>3, <2>4
<1>4. ASSUME NEW w \in Workers, PlaceCall(w) PROVE TypeInv'
  <2>1. job[w] \in Keys /\ attempt[w] \in Attempts
    BY <1>4, JobInRange DEF PlaceCall
  <2>2. RowInv' /\ ReservationInv' /\ VerdictInv' /\ AuditTypeOK'
    BY <1>4 DEF PlaceCall, RowInv, RowTypeOK, AttemptsCounted, rowVars, ReservationInv,
       ReservationTypeOK, reservationVars, VerdictInv, VerdictTypeOK, VerdictsHaveKeys,
       AuditTypeOK
  <2>3. WorkerInv'
    BY <1>4, <2>1 DEF PlaceCall, rowVars, WorkerInv, WorkerTypeOK, WorkersHaveJobs,
       RowInv, RowTypeOK, Attempts
  <2>4. RequestsTypeOK'
    BY <1>4, <2>1 DEF PlaceCall, RequestsTypeOK
  <2>. QED
    BY <2>2, <2>3, <2>4
<1>5. ASSUME NEW w \in Workers, CallReturns(w) PROVE TypeInv'
  <2>1. job[w] \in Keys /\ attempt[w] \in Attempts
    BY <1>5, JobInRange DEF CallReturns
  <2>2. RowInv' /\ ReservationInv' /\ RequestsTypeOK' /\ VerdictInv' /\ AuditTypeOK'
    BY <1>5 DEF CallReturns, RowInv, RowTypeOK, AttemptsCounted, rowVars,
       ReservationInv, ReservationTypeOK, reservationVars, RequestsTypeOK, VerdictInv,
       VerdictTypeOK, VerdictsHaveKeys, AuditTypeOK
  <2>3. WorkerInv'
    BY <1>5, <2>1 DEF CallReturns, rowVars, WorkerInv, WorkerTypeOK, WorkersHaveJobs,
       RowInv, RowTypeOK, Attempts
  <2>. QED
    BY <2>2, <2>3
<1>6. ASSUME NEW w \in Workers, RecordConfirmed(w) PROVE TypeInv'
  <2>1. job[w] \in Keys /\ attempt[w] \in Attempts
    BY <1>6, JobInRange DEF RecordConfirmed
  <2>2. ReservationInv' /\ RequestsTypeOK' /\ VerdictInv' /\ AuditTypeOK'
    BY <1>6 DEF RecordConfirmed, Stop, ReservationInv, ReservationTypeOK,
       reservationVars, RequestsTypeOK, VerdictInv, VerdictTypeOK, VerdictsHaveKeys,
       AuditTypeOK
  <2>3. RowInv'
    BY <1>6, <2>1 DEF RecordConfirmed, Stop, RowInv, RowTypeOK, AttemptsCounted,
       Attempts, DispatchStates
  <2>4. WorkerInv'
    BY <1>6, <2>1 DEF RecordConfirmed, Stop, WorkerInv, WorkerTypeOK, WorkersHaveJobs,
       RowInv, RowTypeOK, Attempts
  <2>. QED
    BY <2>2, <2>3, <2>4
<1>7. ASSUME NEW w \in Workers, NEW error \in {"blank", "text"}, RecordAmbiguous(w,
  error) PROVE TypeInv'
  <2>1. job[w] \in Keys /\ attempt[w] \in Attempts
    BY <1>7, JobInRange DEF RecordAmbiguous
  <2>2. ReservationInv' /\ RequestsTypeOK' /\ VerdictInv' /\ AuditTypeOK'
    BY <1>7 DEF RecordAmbiguous, Stop, ReservationInv, ReservationTypeOK,
       reservationVars, RequestsTypeOK, VerdictInv, VerdictTypeOK, VerdictsHaveKeys,
       AuditTypeOK
  <2>3. RowInv'
    BY <1>7, <2>1 DEF RecordAmbiguous, Stop, RowInv, RowTypeOK, AttemptsCounted,
       Attempts, DispatchStates
  <2>4. WorkerInv'
    BY <1>7, <2>1 DEF RecordAmbiguous, Stop, WorkerInv, WorkerTypeOK, WorkersHaveJobs,
       RowInv, RowTypeOK, Attempts
  <2>. QED
    BY <2>2, <2>3, <2>4
<1>8. ASSUME NEW w \in Workers, NEW error \in {"blank", "text"}, RecordFailed(w,
  error) PROVE TypeInv'
  <2>1. job[w] \in Keys /\ attempt[w] \in Attempts
    BY <1>8, JobInRange DEF RecordFailed
  <2>2. ReservationInv' /\ RequestsTypeOK' /\ VerdictInv' /\ AuditTypeOK'
    BY <1>8 DEF RecordFailed, Stop, ReservationInv, ReservationTypeOK, reservationVars,
       RequestsTypeOK, VerdictInv, VerdictTypeOK, VerdictsHaveKeys, AuditTypeOK
  <2>3. RowInv'
    BY <1>8, <2>1 DEF RecordFailed, Stop, RowInv, RowTypeOK, AttemptsCounted, Attempts,
       DispatchStates
  <2>4. WorkerInv'
    BY <1>8, <2>1 DEF RecordFailed, Stop, WorkerInv, WorkerTypeOK, WorkersHaveJobs,
       RowInv, RowTypeOK, Attempts
  <2>. QED
    BY <2>2, <2>3, <2>4
<1>9. ASSUME NEW w \in Workers, Crash(w) PROVE TypeInv'
  <2>1. RowInv' /\ ReservationInv' /\ RequestsTypeOK' /\ VerdictInv' /\ AuditTypeOK'
    BY <1>9 DEF Crash, Stop, RowInv, RowTypeOK, AttemptsCounted, rowVars,
       ReservationInv, ReservationTypeOK, reservationVars, RequestsTypeOK, VerdictInv,
       VerdictTypeOK, VerdictsHaveKeys, AuditTypeOK
  <2>2. WorkerInv'
    BY <1>9 DEF Crash, Stop, rowVars, WorkerInv, WorkerTypeOK, WorkersHaveJobs, RowInv,
       RowTypeOK, Attempts
  <2>. QED
    BY <2>1, <2>2
<1>10. ASSUME NEW k \in Keys, LapseLease(k) PROVE TypeInv'
  <2>1. ReservationInv' /\ RequestsTypeOK' /\ VerdictInv' /\ AuditTypeOK'
    BY <1>10 DEF LapseLease, ReservationInv, ReservationTypeOK, reservationVars,
       RequestsTypeOK, VerdictInv, VerdictTypeOK, VerdictsHaveKeys, AuditTypeOK
  <2>2. RowInv'
    BY <1>10 DEF LapseLease, RowInv, RowTypeOK, AttemptsCounted, Attempts,
       DispatchStates
  <2>3. WorkerInv'
    BY <1>10 DEF LapseLease, workerVars, WorkerInv, WorkerTypeOK, WorkersHaveJobs,
       RowInv, RowTypeOK, Attempts
  <2>. QED
    BY <2>1, <2>2, <2>3
<1>11. ASSUME NEW k \in Keys, NEW n \in Attempts, ProviderAnswers(k, n) PROVE TypeInv'
  <2>1. RowInv' /\ ReservationInv' /\ WorkerInv' /\ VerdictInv' /\ AuditTypeOK'
    BY <1>11 DEF ProviderAnswers, RowInv, RowTypeOK, AttemptsCounted, rowVars,
       ReservationInv, ReservationTypeOK, reservationVars, WorkerInv, WorkerTypeOK,
       WorkersHaveJobs, workerVars, VerdictInv, VerdictTypeOK, VerdictsHaveKeys,
       AuditTypeOK
  <2>2. RequestsTypeOK'
    BY <1>11 DEF ProviderAnswers, RequestsTypeOK
  <2>. QED
    BY <2>1, <2>2
<1>12. ASSUME NEW s \in Sources, NEW k \in Keys, GatherEvidence(s, k) PROVE TypeInv'
  <2>1. RowInv' /\ ReservationInv' /\ WorkerInv' /\ RequestsTypeOK' /\ AuditTypeOK'
    BY <1>12 DEF GatherEvidence, RowInv, RowTypeOK, AttemptsCounted, rowVars,
       ReservationInv, ReservationTypeOK, reservationVars, WorkerInv, WorkerTypeOK,
       WorkersHaveJobs, workerVars, RequestsTypeOK, AuditTypeOK
  <2>2. VerdictInv'
    <3>1. attempt_count[k] \in Attempts
      BY <1>12 DEF GatherEvidence, RowInv, AttemptsCounted, Unsettled, DispatchStates
    <3>2. PICK outcome \in {"CONFIRMED", "FAILED"}, n \in Attempts :
            verdict' = [verdict EXCEPT ![s] = Verdict("gathered", k, outcome, n, "ABSENT")]
      BY <1>12, <3>1 DEF GatherEvidence
    <3>3. Verdict("gathered", k, outcome, n, "ABSENT") \in Verdicts
      BY DEF Verdict, Verdicts, Attempts
    <3>. QED
      BY <3>2, <3>3 DEF VerdictInv, VerdictTypeOK, VerdictsHaveKeys, Verdict
  <2>. QED
    BY <2>1, <2>2
<1>13. ASSUME NEW s \in Sources, ReadOldState(s) PROVE TypeInv'
  <2>1. RowInv' /\ ReservationInv' /\ WorkerInv' /\ RequestsTypeOK' /\ AuditTypeOK'
    BY <1>13 DEF ReadOldState, RowInv, RowTypeOK, AttemptsCounted, rowVars,
       ReservationInv, ReservationTypeOK, reservationVars, WorkerInv, WorkerTypeOK,
       WorkersHaveJobs, workerVars, RequestsTypeOK, AuditTypeOK
  <2>2. VerdictInv'
    BY <1>13 DEF ReadOldState, RowInv, RowTypeOK, VerdictInv, VerdictTypeOK,
       VerdictsHaveKeys, Verdicts, Verdict
  <2>. QED
    BY <2>1, <2>2
<1>14. ASSUME NEW s \in Sources, ReconcileOutcome(s) PROVE TypeInv'
  <2>1. verdict[s] \in Verdicts /\ verdict[s].key \in Keys /\ ReconciledRef(s,
    verdict[s].key) \in 0..MaxAttempts
    BY <1>14 DEF ReconcileOutcome, VerdictInv, VerdictTypeOK, VerdictsHaveKeys,
       Verdicts, RowInv, RowTypeOK, ReconciledRef
  <2>2. ReservationInv' /\ RequestsTypeOK'
    BY <1>14 DEF ReconcileOutcome, ReservationInv, ReservationTypeOK, reservationVars,
       RequestsTypeOK
  <2>3. RowInv'
    <3>1. CASE dispatch_state[verdict[s].key] \in Reconcilable
      BY <1>14, <2>1, <3>1 DEF ReconcileOutcome, Reconcilable, Verdicts, RowInv, RowTypeOK,
         AttemptsCounted, Attempts, DispatchStates
    <3>2. CASE dispatch_state[verdict[s].key] \notin Reconcilable
      BY <1>14, <3>2 DEF ReconcileOutcome, RowInv, RowTypeOK, AttemptsCounted
    <3>. QED
      BY <3>1, <3>2
  <2>4. WorkerInv'
    BY <1>14, <2>1 DEF ReconcileOutcome, workerVars, WorkerInv, WorkerTypeOK,
       WorkersHaveJobs, RowInv, RowTypeOK, Attempts
  <2>5. VerdictInv'
    BY <1>14, <2>1 DEF ReconcileOutcome, NoVerdict, VerdictInv, VerdictTypeOK,
       VerdictsHaveKeys, Verdicts, Verdict
  <2>6. AuditTypeOK'
    BY <1>14, <2>1 DEF ReconcileOutcome, VerdictInv, VerdictTypeOK, Verdicts, RowInv,
       RowTypeOK, AuditTypeOK, AuditEvents
  <2>. QED
    BY <2>2, <2>3, <2>4, <2>5, <2>6
<1>15. ASSUME NEW s \in Sources, DiscardLate(s) PROVE TypeInv'
  <2>1. RowInv' /\ ReservationInv' /\ WorkerInv' /\ RequestsTypeOK' /\ AuditTypeOK'
    BY <1>15 DEF DiscardLate, RowInv, RowTypeOK, AttemptsCounted, rowVars,
       ReservationInv, ReservationTypeOK, reservationVars, WorkerInv, WorkerTypeOK,
       WorkersHaveJobs, workerVars, RequestsTypeOK, AuditTypeOK
  <2>2. VerdictInv'
    BY <1>15 DEF DiscardLate, NoVerdict, DispatchStates, VerdictInv, VerdictTypeOK,
       VerdictsHaveKeys, Verdicts, Verdict
  <2>. QED
    BY <2>1, <2>2
<1>16. CASE UNCHANGED vars
  BY <1>16 DEF vars, RowInv, RowTypeOK, AttemptsCounted, rowVars, ReservationInv,
     ReservationTypeOK, reservationVars, WorkerInv, WorkerTypeOK, WorkersHaveJobs,
     workerVars, RequestsTypeOK, VerdictInv, VerdictTypeOK, VerdictsHaveKeys,
     AuditTypeOK
<1>. HIDE DEF TypeInv
<1>. QED
  BY <1>1, <1>2, <1>3, <1>4, <1>5, <1>6, <1>7, <1>8, <1>9, <1>10, <1>11, <1>12,
     <1>13, <1>14, <1>15, <1>16 DEF Next, WorkerStep, ReconcilerStep

\* The table never holds a row outside its columns' types, and no worker or
\* reconciler works on a row or an attempt that does not exist.
THEOREM TypeCorrect == Spec => []TypeOK
<1>1. TypeInv => TypeOK
  BY DEF TypeInv, TypeOK, RowInv, ReservationInv, WorkerInv, VerdictInv
<1>. QED
  BY <1>1, TypeInit, TypeStep, PTL DEF Spec

-----------------------------------------------------------------------------
(* How rows and requests move                                              *)

\* The transitions of a row: the state machine of the migration's functions.
Transition(k) ==
  \/ UNCHANGED <<dispatch_state[k], attempt_count[k]>>
  \/ /\ dispatch_state[k] = "ABSENT" /\ dispatch_state'[k] = "RESERVED"
     /\ UNCHANGED attempt_count[k]
     /\ \E o \in Orgs, p \in Payloads : Reserve(k, o, p)
  \/ /\ dispatch_state[k] \in {"RESERVED", "CLAIMED", "FAILED"}
     /\ dispatch_state'[k] = "CLAIMED"
     /\ attempt_count'[k] = attempt_count[k] + 1
     /\ \E w \in Workers : Claim(w, k)
  \/ /\ dispatch_state[k] = "CLAIMED" /\ dispatch_state'[k] \in {"SUBMITTING", "FAILED"}
     /\ UNCHANGED attempt_count[k]
     /\ \E w \in Workers : job[w] = k /\ claimed_by[k] = w /\ pc'[w] # "claimed"
  \/ /\ dispatch_state[k] = "SUBMITTING"
     /\ \E w \in Workers :
          /\ job[w] = k /\ claimed_by[k] = w /\ pc'[w] = "idle"
          /\ \/ pc[w] = "accepted" /\ dispatch_state'[k] = "CONFIRMED"
             \/ pc[w] = "unknown" /\ dispatch_state'[k] = "AMBIGUOUS"
             \/ pc[w] \in {"claimed", "rejected"} /\ dispatch_state'[k] = "FAILED"
     /\ UNCHANGED attempt_count[k]
  \/ /\ dispatch_state[k] \in Unsettled
     /\ \E s \in Sources : /\ ReconcileOutcome(s) /\ verdict[s].key = k
                         /\ dispatch_state'[k] = verdict[s].outcome
     /\ dispatch_state'[k] \in {"CONFIRMED", "FAILED"}
     /\ UNCHANGED attempt_count[k]

\* No step moves a row otherwise.
LEMMA Transitions == ASSUME TypeInv, [Next]_vars, NEW k \in Keys PROVE Transition(k)
<1>. USE DEF TypeInv, RowInv, RowTypeOK, Unsettled, Transition
<1>1. ASSUME NEW j \in Keys, NEW o \in Orgs, NEW p \in Payloads, Initiate(j, o, p)
      PROVE  Transition(k)
  BY <1>1 DEF Initiate, Reserve, Replay, rowVars
<1>2. ASSUME NEW w \in Workers, NEW j \in Keys, Claim(w, j) PROVE Transition(k)
  BY <1>2 DEF Claim, Claimable
<1>3. ASSUME NEW w \in Workers, Begin(w) PROVE Transition(k)
  <2>1. CASE BeginSucceeds(w)
    BY <1>3, <2>1, JobInRange DEF Begin, BeginSucceeds, HoldsClaim, WorkerInv, WorkerTypeOK
  <2>2. CASE BeginRefused(w)
    BY <2>2 DEF BeginRefused, rowVars
  <2>. QED
    BY <1>3, <2>1, <2>2 DEF Begin
<1>4. ASSUME NEW w \in Workers, PlaceCall(w) \/ CallReturns(w) \/ Crash(w) PROVE Transition(k)
  BY <1>4 DEF PlaceCall, CallReturns, Crash, rowVars
<1>5. ASSUME NEW w \in Workers, RecordConfirmed(w) PROVE Transition(k)
  <2>1. CASE UNCHANGED dispatch_state
    BY <1>5, <2>1 DEF RecordConfirmed
  <2>2. CASE dispatch_state' # dispatch_state
    <3>1. /\ job[w] \in Keys /\ claimed_by[job[w]] = w
          /\ dispatch_state[job[w]] = "SUBMITTING" /\ pc[w] = "accepted"
          /\ dispatch_state' = [dispatch_state EXCEPT ![job[w]] = "CONFIRMED"]
          /\ UNCHANGED attempt_count /\ pc'[w] = "idle"
      BY <1>5, <2>2, JobInRange DEF RecordConfirmed, HoldsClaim, Stop, WorkerInv, WorkerTypeOK
    <3>. QED
      BY <3>1
  <2>. QED
    BY <2>1, <2>2
<1>6. ASSUME NEW w \in Workers, NEW error, RecordAmbiguous(w, error) \/ RecordFailed(w, error)
      PROVE  Transition(k)
  <2>1. CASE RecordAmbiguous(w, error)
    <3>1. CASE UNCHANGED dispatch_state
      BY <2>1, <3>1 DEF RecordAmbiguous
    <3>2. CASE dispatch_state' # dispatch_state
      <4>1. /\ job[w] \in Keys /\ claimed_by[job[w]] = w
            /\ dispatch_state[job[w]] = "SUBMITTING" /\ pc[w] = "unknown"
            /\ dispatch_state' = [dispatch_state EXCEPT ![job[w]] = "AMBIGUOUS"]
            /\ UNCHANGED attempt_count /\ pc'[w] = "idle"
        BY <2>1, <3>2, JobInRange DEF RecordAmbiguous, HoldsClaim, Stop, WorkerInv, WorkerTypeOK
      <4>. QED
        BY <4>1
    <3>. QED
      BY <3>1, <3>2
  <2>2. CASE RecordFailed(w, error)
    <3>1. CASE UNCHANGED dispatch_state
      BY <2>2, <3>1 DEF RecordFailed
    <3>2. CASE dispatch_state' # dispatch_state
      <4>1. /\ job[w] \in Keys /\ claimed_by[job[w]] = w
            /\ dispatch_state[job[w]] \in {"CLAIMED", "SUBMITTING"}
            /\ dispatch_state' = [dispatch_state EXCEPT ![job[w]] = "FAILED"]
            /\ pc[w] \in {"claimed", "rejected"}
            /\ UNCHANGED attempt_count /\ pc'[w] = "idle"
        BY <2>2, <3>2, JobInRange DEF RecordFailed, HoldsClaim, Stop, WorkerInv, WorkerTypeOK
      <4>. QED
        BY <4>1
    <3>. QED
      BY <3>1, <3>2
  <2>. QED
    BY <1>6, <2>1, <2>2
<1>7. ASSUME NEW j \in Keys, LapseLease(j) PROVE Transition(k)
  BY <1>7 DEF LapseLease
<1>8. ASSUME NEW j \in Keys, NEW n \in Attempts, ProviderAnswers(j, n) PROVE Transition(k)
  BY <1>8 DEF ProviderAnswers, rowVars
<1>9. ASSUME NEW s \in Sources, ReconcilerStep(s) PROVE Transition(k)
  <2>1. verdict[s].step # "none" => verdict[s].key \in Keys /\ verdict[s] \in Verdicts
    BY DEF VerdictInv, VerdictTypeOK, VerdictsHaveKeys
  <2>2. CASE ReconcileOutcome(s) /\ dispatch_state[verdict[s].key] \in Reconcilable
    <3>1. /\ dispatch_state' = [dispatch_state EXCEPT ![verdict[s].key] = verdict[s].outcome]
          /\ UNCHANGED attempt_count /\ verdict[s].step # "none"
      BY <2>2 DEF ReconcileOutcome
    <3>. QED
      BY <2>1, <2>2, <3>1 DEF Reconcilable, Verdicts
  <2>3. CASE ReconcileOutcome(s) /\ dispatch_state[verdict[s].key] \notin Reconcilable
    BY <2>3 DEF ReconcileOutcome
  <2>4. CASE (\E j \in Keys : GatherEvidence(s, j)) \/ ReadOldState(s) \/ DiscardLate(s)
    BY <2>4 DEF GatherEvidence, ReadOldState, DiscardLate, rowVars
  <2>. QED
    BY <1>9, <2>2, <2>3, <2>4 DEF ReconcilerStep
<1>10. CASE UNCHANGED vars
  BY <1>10 DEF vars, rowVars
<1>. HIDE DEF Transition
<1>. QED
  BY <1>1, <1>2, <1>3, <1>4, <1>5, <1>6, <1>7, <1>8, <1>9, <1>10 DEF Next, WorkerStep

\* What may become of the request of an attempt: its worker sends it, once, and
\* the provider answers it, once.
RequestMove(k, n) ==
  \/ requests'[k][n] = requests[k][n]
  \/ /\ requests[k][n] = "none" /\ requests'[k][n] = "sent"
     /\ \E w \in Workers : PlaceCall(w) /\ job[w] = k /\ attempt[w] = n
  \/ requests[k][n] = "sent" /\ requests'[k][n] \in {"accepted", "rejected"}

\* No step does anything else to a request.
LEMMA RequestMoves ==
  ASSUME TypeInv, OneRequestPerAttempt, [Next]_vars, NEW k \in Keys, NEW n \in Attempts
  PROVE  RequestMove(k, n)
<1>. USE DEF RequestMove
<1>1. ASSUME NEW w \in Workers, PlaceCall(w) PROVE RequestMove(k, n)
  BY <1>1, JobInRange DEF PlaceCall, OneRequestPerAttempt, TypeInv, RequestsTypeOK
<1>2. ASSUME NEW j \in Keys, NEW m \in Attempts, ProviderAnswers(j, m) PROVE RequestMove(k, n)
  BY <1>2 DEF ProviderAnswers, TypeInv, RequestsTypeOK
<1>3. ASSUME UNCHANGED requests PROVE RequestMove(k, n)
  BY <1>3
<1>4. ASSUME NEW w \in Workers, WorkerStep(w), ~PlaceCall(w) PROVE UNCHANGED requests
  BY <1>4 DEF WorkerStep, Begin, CallReturns, RecordConfirmed, RecordAmbiguous, RecordFailed
<1>5. ASSUME NEW s \in Sources, ReconcilerStep(s) PROVE UNCHANGED requests
  BY <1>5 DEF ReconcilerStep, GatherEvidence, ReadOldState, ReconcileOutcome, DiscardLate
<1>6. ASSUME NEW j \in Keys, \/ \E o \in Orgs, p \in Payloads : Initiate(j, o, p)
                             \/ \E w \in Workers : Claim(w, j)
                             \/ LapseLease(j)
      PROVE  UNCHANGED requests
  BY <1>6 DEF Initiate, Claim, LapseLease
<1>7. ASSUME NEW w \in Workers, Crash(w) PROVE UNCHANGED requests
  BY <1>7 DEF Crash
<1>8. CASE UNCHANGED vars
  BY <1>8 DEF vars
<1>. QED
  BY <1>1, <1>2, <1>3, <1>4, <1>5, <1>6, <1>7, <1>8 DEF Next

\* What a step may do to a worker: nothing, end its work, give it a row to work
\* on, or take it one step along the caller contract.
WorkerMove(w) ==
  \/ UNCHANGED <<pc[w], job[w], attempt[w]>>
  \/ pc'[w] = "idle"
  \/ pc[w] = "idle" /\ \E k \in Keys : Claim(w, k)
  \/ /\ UNCHANGED <<job[w], attempt[w]>>
     /\ \/ pc[w] = "claimed" /\ pc'[w] = "begun" /\ BeginSucceeds(w)
        \/ pc[w] = "begun" /\ pc'[w] = "placing" /\ PlaceCall(w)
        \/ /\ pc[w] = "placing" /\ CallReturns(w)
           /\ pc'[w] \in {"accepted", "rejected"} => requests[job[w]][attempt[w]] = pc'[w]
           /\ pc'[w] \in {"accepted", "rejected", "unknown"}
        \/ pc[w] \in {"claimed", "rejected"} /\ pc'[w] = "refused"

\* No step does anything else to a worker.
LEMMA WorkerMoves == ASSUME TypeInv, [Next]_vars, NEW w \in Workers PROVE WorkerMove(w)
<1>. USE DEF TypeInv, WorkerInv, WorkerTypeOK, WorkerMove
<1>1. ASSUME UNCHANGED workerVars PROVE WorkerMove(w)
  BY <1>1 DEF workerVars
<1>2. ASSUME NEW u \in Workers, NEW k \in Keys, Claim(u, k) PROVE WorkerMove(w)
  BY <1>2 DEF Claim
<1>3. ASSUME NEW u \in Workers, Stop(u) PROVE WorkerMove(w)
  BY <1>3 DEF Stop
<1>4. ASSUME NEW u \in Workers, Begin(u) PROVE WorkerMove(w)
  BY <1>3, <1>4 DEF Begin, BeginSucceeds, BeginRefused
<1>5. ASSUME NEW u \in Workers, PlaceCall(u) PROVE WorkerMove(w)
  BY <1>5 DEF PlaceCall
<1>6. ASSUME NEW u \in Workers, CallReturns(u) PROVE WorkerMove(w)
  BY <1>6 DEF CallReturns
<1>7. ASSUME NEW u \in Workers, NEW error,
             RecordConfirmed(u) \/ RecordAmbiguous(u, error) \/ RecordFailed(u, error)
      PROVE  WorkerMove(w)
  BY <1>3, <1>7 DEF RecordConfirmed, RecordAmbiguous, RecordFailed
<1>8. ASSUME NEW u \in Workers, Crash(u) PROVE WorkerMove(w)
  BY <1>3, <1>8 DEF Crash
<1>9. ASSUME NEW k \in Keys, \/ \E o \in Orgs, p \in Payloads : Initiate(k, o, p)
                             \/ LapseLease(k)
                             \/ \E n \in Attempts : ProviderAnswers(k, n)
      PROVE  UNCHANGED workerVars
  BY <1>9 DEF Initiate, LapseLease, ProviderAnswers
<1>10. ASSUME NEW s \in Sources, ReconcilerStep(s) PROVE UNCHANGED workerVars
  BY <1>10 DEF ReconcilerStep, GatherEvidence, ReadOldState, ReconcileOutcome, DiscardLate
<1>11. CASE UNCHANGED vars
  BY <1>1, <1>11 DEF vars
<1>. HIDE DEF WorkerMove
<1>. QED
  BY <1>1, <1>2, <1>4, <1>5, <1>6, <1>7, <1>8, <1>9, <1>10, <1>11 DEF Next, WorkerStep

\* A row comes to be held by a worker only when that worker claims it, and it
\* is let go only where no worker has work to do.
LEMMA Holders ==
  ASSUME TypeInv, [Next]_vars, NEW k \in Keys
  PROVE  \/ UNCHANGED claimed_by[k]
         \/ claimed_by'[k] = NoWorker /\ dispatch_state'[k] \notin {"CLAIMED", "SUBMITTING"}
         \/ \E w \in Workers : Claim(w, k) /\ claimed_by'[k] = w
<1>. USE DEF TypeInv, RowInv, RowTypeOK
<1>1. ASSUME NEW w \in Workers, NEW j \in Keys, Claim(w, j)
      PROVE  \/ UNCHANGED claimed_by[k]
             \/ k = j /\ claimed_by'[k] = w
  BY <1>1 DEF Claim
<1>2. ASSUME NEW w \in Workers, WorkerStep(w)
      PROVE  \/ UNCHANGED claimed_by
             \/ \E end \in {"CONFIRMED", "AMBIGUOUS", "FAILED"} :
                  /\ dispatch_state' = [dispatch_state EXCEPT ![job[w]] = end]
                  /\ claimed_by' = [claimed_by EXCEPT ![job[w]] = NoWorker]
  <2>1. ASSUME Begin(w) \/ PlaceCall(w) \/ CallReturns(w) PROVE UNCHANGED claimed_by
    BY <2>1 DEF Begin, BeginSucceeds, BeginRefused, PlaceCall, CallReturns, rowVars
  <2>. QED
    BY <1>2, <2>1 DEF WorkerStep, RecordConfirmed, RecordAmbiguous, RecordFailed
<1>3. ASSUME NEW s \in Sources, ReconcilerStep(s)
      PROVE  \/ UNCHANGED claimed_by
             \/ \E end \in {"CONFIRMED", "FAILED"} :
                  /\ dispatch_state' = [dispatch_state EXCEPT ![verdict[s].key] = end]
                  /\ claimed_by' = [claimed_by EXCEPT ![verdict[s].key] = NoWorker]
  BY <1>3 DEF ReconcilerStep, GatherEvidence, ReadOldState, ReconcileOutcome, DiscardLate,
     rowVars, VerdictInv, VerdictTypeOK, Verdicts
<1>4. ASSUME NEW j \in Keys, \/ \E o \in Orgs, p \in Payloads : Initiate(j, o, p)
                             \/ LapseLease(j)
                             \/ \E n \in Attempts : ProviderAnswers(j, n)
      PROVE  UNCHANGED claimed_by
  BY <1>4 DEF Initiate, Reserve, Replay, LapseLease, ProviderAnswers, rowVars
<1>5. ASSUME NEW w \in Workers, Crash(w) PROVE UNCHANGED claimed_by
  BY <1>5 DEF Crash, rowVars
<1>6. CASE UNCHANGED vars
  BY <1>6 DEF vars, rowVars
<1>7. ASSUME NEW j, NEW end \in {"CONFIRMED", "AMBIGUOUS", "FAILED"},
             dispatch_state' = [dispatch_state EXCEPT ![j] = end],
             claimed_by' = [claimed_by EXCEPT ![j] = NoWorker]
      PROVE  \/ UNCHANGED claimed_by[k]
             \/ claimed_by'[k] = NoWorker /\ dispatch_state'[k] \notin {"CLAIMED", "SUBMITTING"}
  BY <1>7
<1>. QED
  BY <1>1, <1>2, <1>3, <1>4, <1>5, <1>6, <1>7 DEF Next

-----------------------------------------------------------------------------
(* The records agree                                                       *)

\* All but a reservation leaves the reservation columns alone.
LEMMA ReservationsUntouched ==
  ASSUME [Next]_vars, ~ \E k \in Keys, o \in Orgs, p \in Payloads : Reserve(k, o, p)
  PROVE  /\ UNCHANGED <<request, call_session_id, call_sessions>>
         /\ UNCHANGED replies
            \/ \E k \in Keys, o \in Orgs, p \in Payloads : Replay(k, o, p)
<1>1. ASSUME NEW w \in Workers, WorkerStep(w) PROVE UNCHANGED reservationVars
  BY <1>1 DEF WorkerStep, Begin, PlaceCall, CallReturns, RecordConfirmed, RecordAmbiguous,
     RecordFailed, reservationVars
<1>2. ASSUME NEW s \in Sources, ReconcilerStep(s) PROVE UNCHANGED reservationVars
  BY <1>2 DEF ReconcilerStep, GatherEvidence, ReadOldState, ReconcileOutcome, DiscardLate,
     reservationVars
<1>3. ASSUME NEW k \in Keys, \/ \E w \in Workers : Claim(w, k) \/ Crash(w)
                             \/ LapseLease(k)
                             \/ \E n \in Attempts : ProviderAnswers(k, n)
      PROVE  UNCHANGED reservationVars
  BY <1>3 DEF Claim, Crash, LapseLease, ProviderAnswers, reservationVars
<1>4. ASSUME NEW w \in Workers, Crash(w) PROVE UNCHANGED reservationVars
  BY <1>4 DEF Crash, reservationVars
<1>5. ASSUME NEW k \in Keys, NEW o \in Orgs, NEW p \in Payloads, Initiate(k, o, p)
      PROVE  Replay(k, o, p) /\ UNCHANGED <<request, call_session_id, call_sessions>>
  BY <1>5 DEF Initiate, Replay
<1>. QED
  BY <1>1, <1>2, <1>3, <1>4, <1>5 DEF Next, vars, reservationVars

\* A reservation makes a session with an identifier of its own, and an answer
\* repeats the session of the row that is there.
LEMMA ReservationsStep ==
  ASSUME TypeInv, ReservationsAgree, [Next]_vars
  PROVE  ReservationsAgree'
<1>. USE DEF ReservationsAgree, TypeInv, ReservationInv, ReservationTypeOK
<1>0. /\ \A c \in call_sessions : c = <<c[1], c[2]>> /\ c[1] \in Nat /\ c[2] \in Keys
      /\ \A r \in replies : r[1] \in Keys
  OBVIOUS
<1>1. ASSUME NEW k \in Keys, NEW o \in Orgs, NEW p \in Payloads, Reserve(k, o, p)
      PROVE  ReservationsAgree'
  <2>. DEFINE id == Cardinality(call_sessions) + 1
  <2>1. /\ dispatch_state[k] = "ABSENT"
        /\ dispatch_state' = [dispatch_state EXCEPT ![k] = "RESERVED"]
        /\ request' = [request EXCEPT ![k] = <<o, p>>]
        /\ call_session_id' = [call_session_id EXCEPT ![k] = id]
        /\ call_sessions' = call_sessions \cup {<<id, k>>}
        /\ replies' = replies \cup {<<k, o, p, "CREATED", id>>}
    BY <1>1 DEF Reserve
  <2>2. Cardinality(call_sessions) \in Nat
    BY FS_CardinalityType
  <2>3. <<id, k>> \notin call_sessions
    BY <2>2
  <2>4. Cardinality(call_sessions') = id
    BY <2>1, <2>3, FS_AddElement
  <2>5. dispatch_state \in [Keys -> DispatchStates \cup {"ABSENT"}]
    BY DEF RowInv, RowTypeOK
  <2>. HIDE DEF id
  <2>6. id \in Nat /\ id = Cardinality(call_sessions) + 1
    BY <2>2 DEF id
  <2>7. ASSUME NEW c \in call_sessions'
        PROVE  /\ c[1] \in 1..Cardinality(call_sessions')
               /\ dispatch_state'[c[2]] # "ABSENT"
               /\ c[1] = call_session_id'[c[2]]
    BY <1>0, <2>1, <2>2, <2>4, <2>5, <2>6
  <2>8. ASSUME NEW c \in call_sessions', NEW d \in call_sessions', c[1] = d[1]
        PROVE  c = d
    <3>1. ASSUME NEW b \in call_sessions PROVE b[1] # id
      BY <2>2, <2>6
    <3>. QED
      BY <2>1, <2>8, <3>1
  <2>9. ASSUME NEW j \in Keys, dispatch_state'[j] # "ABSENT"
        PROVE  request'[j] # <<>> /\ <<call_session_id'[j], j>> \in call_sessions'
    BY <2>1, <2>5, <2>9
  <2>10. ASSUME NEW r \in replies'
         PROVE  IF r[4] \in {"CREATED", "REPLAYED"}
                THEN /\ dispatch_state'[r[1]] # "ABSENT"
                     /\ request'[r[1]] = <<r[2], r[3]>>
                     /\ call_session_id'[r[1]] = r[5]
                ELSE r[5] = 0
    BY <1>0, <2>1, <2>5
  <2>. QED
    BY <2>7, <2>8, <2>9, <2>10
<1>2. ASSUME NEW k \in Keys, NEW o \in Orgs, NEW p \in Payloads, Replay(k, o, p)
      PROVE  ReservationsAgree'
  <2>1. /\ dispatch_state[k] # "ABSENT"
        /\ UNCHANGED <<dispatch_state, request, call_session_id, call_sessions>>
        /\ replies' = replies \cup
             {<<k, o, p, ReplayOutcome(k, o, p),
                IF ReplayOutcome(k, o, p) = "REPLAYED" THEN call_session_id[k] ELSE 0>>}
    BY <1>2 DEF Replay, rowVars
  <2>2. request[k] \in Orgs \X Payloads
    BY <2>1
  <2>3. /\ ReplayOutcome(k, o, p) \in {"REFUSED", "IDEMPOTENCY_KEY_REUSE_MISMATCH", "REPLAYED"}
        /\ ReplayOutcome(k, o, p) = "REPLAYED" => request[k] = <<o, p>>
    BY <2>2 DEF ReplayOutcome
  <2>. QED
    BY <2>1, <2>3
<1>3. CASE /\ UNCHANGED <<request, call_session_id, call_sessions, replies>>
           /\ ~ \E k \in Keys, o \in Orgs, p \in Payloads : Reserve(k, o, p)
  <2>1. ASSUME NEW k \in Keys
        PROVE  dispatch_state'[k] = "ABSENT" <=> dispatch_state[k] = "ABSENT"
    BY <1>3, Transitions DEF Transition, Unsettled
  <2>. QED
    BY <1>0, <1>3, <2>1
<1>. QED
  BY <1>1, <1>2, <1>3, ReservationsUntouched
\* An audit event is about the attempt that its verdict settles, and settled it
\* stays until the row is claimed again.
LEMMA AuditedOnceStep ==
  ASSUME TypeInv, AuditedOnce, [Next]_vars
  PROVE  AuditedOnce'
<1>. USE DEF AuditedOnce
<1>0. ASSUME NEW e \in audit_events
      PROVE  /\ e.key \in Keys /\ e.attempt \in Int
             /\ attempt_count[e.key] \in Int
  BY DispatchAssumption DEF TypeInv, AuditTypeOK, AuditEvents, RowInv, RowTypeOK
<1>1. ASSUME NEW e \in audit_events
      PROVE  /\ e.attempt <= attempt_count'[e.key]
             /\ e.attempt = attempt_count'[e.key] =>
                  dispatch_state'[e.key] \in {"CONFIRMED", "FAILED"}
  BY <1>0, Transitions DEF Transition, Unsettled
<1>2. ASSUME NEW s \in Sources, ReconcileOutcome(s), NEW e \in audit_events' \ audit_events
      PROVE  /\ e.attempt <= attempt_count'[e.key]
             /\ dispatch_state'[e.key] \in {"CONFIRMED", "FAILED"}
  <2>1. verdict[s].key \in Keys /\ verdict[s] \in Verdicts
    BY <1>2 DEF ReconcileOutcome, TypeInv, VerdictInv, VerdictTypeOK, VerdictsHaveKeys
  <2>2. /\ e.key = verdict[s].key /\ e.attempt = attempt_count[e.key]
        /\ dispatch_state' = [dispatch_state EXCEPT ![verdict[s].key] = verdict[s].outcome]
        /\ UNCHANGED attempt_count
    BY <1>2 DEF ReconcileOutcome
  <2>. QED
    BY <2>1, <2>2, DispatchAssumption DEF TypeInv, RowInv, RowTypeOK, Verdicts
<1>3. ASSUME ~ \E s \in Sources : ReconcileOutcome(s) PROVE audit_events' = audit_events
  BY <1>3 DEF Next, vars, Initiate, Claim, LapseLease, WorkerStep, Begin, PlaceCall, CallReturns,
     RecordConfirmed, RecordAmbiguous, RecordFailed, Crash, ProviderAnswers, ReconcilerStep,
     GatherEvidence, ReadOldState, DiscardLate
<1>. QED
  BY <1>1, <1>2, <1>3
\* A worker's steps keep the request of its attempt to itself.
LEMMA OneRequestStep ==
  ASSUME TypeInv, OneRequestPerAttempt, [Next]_vars
  PROVE  OneRequestPerAttempt'
<1>. USE DispatchAssumption
<1>1. ASSUME NEW k \in Keys, NEW n \in Attempts, n > attempt_count'[k]
      PROVE  requests'[k][n] = "none"
  <2>1. attempt_count[k] \in Int /\ n \in Int /\ attempt_count'[k] >= attempt_count[k]
    BY Transitions DEF Transition, TypeInv, RowInv, RowTypeOK, Attempts
  <2>2. requests[k][n] = "none"
    BY <1>1, <2>1, TypeStep DEF OneRequestPerAttempt, TypeInv, RowInv, RowTypeOK
  <2>3. ASSUME NEW w \in Workers, PlaceCall(w), job[w] = k, attempt[w] = n PROVE FALSE
    <3>1. UNCHANGED attempt_count /\ n \in 1..attempt_count[k]
      BY <2>3, JobInRange DEF PlaceCall, rowVars
    <3>. QED
      BY <1>1, <2>1, <3>1
  <2>. QED
    BY <2>2, <2>3, RequestMoves DEF RequestMove
<1>2. ASSUME NEW u \in Workers, NEW k \in Keys, Claim(u, k)
      PROVE  /\ \A w \in Workers \ {u} : UNCHANGED <<pc[w], job[w], attempt[w]>>
             /\ pc[u] = "idle" /\ job'[u] = k /\ attempt'[u] = attempt_count[k] + 1
             /\ UNCHANGED requests
             /\ \A w \in Workers : pc[w] # "idle" /\ job[w] = k => attempt[w] # attempt'[u]
             /\ requests[k][attempt'[u]] = "none"
  <2>1. attempt_count[k] + 1 \in Attempts /\ attempt_count[k] + 1 > attempt_count[k]
    BY <1>2 DEF Claim, TypeInv, RowInv, RowTypeOK, Attempts
  <2>2. ASSUME NEW w \in Workers, pc[w] # "idle", job[w] = k
        PROVE  attempt[w] # attempt_count[k] + 1
    BY <2>1, <2>2 DEF TypeInv, RowInv, RowTypeOK, WorkerInv, WorkersHaveJobs, Attempts
  <2>3. /\ pc[u] = "idle" /\ UNCHANGED requests
        /\ pc' = [pc EXCEPT ![u] = "claimed"]
        /\ job' = [job EXCEPT ![u] = k]
        /\ attempt' = [attempt EXCEPT ![u] = attempt_count[k] + 1]
    BY <1>2 DEF Claim
  <2>4. requests[k][attempt_count[k] + 1] = "none"
    BY <2>1 DEF OneRequestPerAttempt
  <2>. QED
    BY <2>2, <2>3, <2>4 DEF TypeInv, WorkerInv, WorkerTypeOK
<1>3. ASSUME NEW u \in Workers, NEW w \in Workers, pc'[u] # "idle", pc'[w] # "idle",
             job'[u] = job'[w], attempt'[u] = attempt'[w]
      PROVE  u = w
  <2>1. CASE \E v \in Workers, k \in Keys : Claim(v, k)
    BY <1>2, <1>3, <2>1 DEF OneRequestPerAttempt
  <2>2. CASE ~ \E v \in Workers, k \in Keys : Claim(v, k)
    <3>1. ASSUME NEW v \in Workers, pc'[v] # "idle"
          PROVE  pc[v] # "idle" /\ UNCHANGED <<job[v], attempt[v]>>
      BY <2>2, <3>1, WorkerMoves DEF WorkerMove
    <3>. QED
      BY <1>3, <3>1 DEF OneRequestPerAttempt
  <2>. QED
    BY <2>1, <2>2
<1>4. ASSUME NEW w \in Workers, pc'[w] \in {"claimed", "begun"}
      PROVE  requests'[job'[w]][attempt'[w]] = "none"
  <2>1. CASE \E v \in Workers, k \in Keys : Claim(v, k)
    BY <1>2, <1>4, <2>1 DEF OneRequestPerAttempt
  <2>2. CASE ~ \E v \in Workers, k \in Keys : Claim(v, k)
    <3>1. UNCHANGED <<job[w], attempt[w]>> /\ pc[w] \in {"claimed", "begun"}
      BY <1>4, <2>2, WorkerMoves DEF WorkerMove
    <3>2. job[w] \in Keys /\ attempt[w] \in Attempts /\ requests[job[w]][attempt[w]] = "none"
      BY <3>1, JobInRange DEF OneRequestPerAttempt
    <3>3. ASSUME NEW v \in Workers, PlaceCall(v), job[v] = job[w], attempt[v] = attempt[w]
          PROVE  FALSE
      <4>1. v = w
        BY <3>1, <3>3 DEF OneRequestPerAttempt, PlaceCall
      <4>. QED
        BY <1>4, <3>3, <4>1 DEF PlaceCall, TypeInv, WorkerInv, WorkerTypeOK
    <3>. QED
      BY <3>1, <3>2, <3>3, RequestMoves DEF RequestMove
  <2>. QED
    BY <2>1, <2>2
<1>. QED
  BY <1>1, <1>3, <1>4 DEF OneRequestPerAttempt
\* A worker that still holds its row is on the row's current attempt.
LEMMA WorkerInStepKept ==
  ASSUME TypeInv, OneRequestPerAttempt, NEW w \in Workers, WorkerInStep(w), [Next]_vars
  PROVE  WorkerInStep(w)'
<1>. USE NullAssumption
<1>1. CASE \E k \in Keys : Claim(w, k)
  BY <1>1 DEF Claim, WorkerInStep, TypeInv, RowInv, RowTypeOK, WorkerInv, WorkerTypeOK
<1>2. CASE pc'[w] = "idle"
  BY <1>2 DEF WorkerInStep
<1>3. CASE pc'[w] # "idle" /\ ~ \E k \in Keys : Claim(w, k)
  <2>1. pc[w] # "idle" /\ UNCHANGED <<job[w], attempt[w]>>
    BY <1>3, WorkerMoves DEF WorkerMove
  <2>2. PICK k \in Keys, n \in Attempts : k = job[w] /\ n = attempt[w]
    BY <2>1, JobInRange
  <2>3. pc'[w] \in {"accepted", "rejected"} => requests'[k][n] = pc'[w]
    <3>1. CASE pc'[w] = pc[w]
      BY <2>1, <2>2, <3>1, RequestMoves DEF RequestMove, WorkerInStep
    <3>2. CASE pc'[w] # pc[w]
      BY <1>3, <2>1, <2>2, <3>2, WorkerMoves DEF WorkerMove, CallReturns
    <3>. QED
      BY <3>1, <3>2
  <2>4. ASSUME claimed_by'[k] = w
        PROVE  /\ claimed_by[k] = w
               /\ ~ \E u \in Workers : Claim(u, k)
    <3>1. ASSUME NEW u \in Workers, Claim(u, k) PROVE claimed_by'[k] = u
      BY <3>1 DEF Claim, TypeInv, RowInv, RowTypeOK
    <3>. QED
      BY <1>3, <2>4, <3>1, Holders
  <2>5. ASSUME claimed_by'[k] = w PROVE n = attempt_count'[k]
    BY <2>1, <2>2, <2>4, <2>5, Transitions DEF Transition, WorkerInStep
  <2>6. ASSUME claimed_by'[k] = w, pc'[w] = "claimed" PROVE dispatch_state'[k] = "CLAIMED"
    <3>1. pc[w] = "claimed"
      BY <1>3, <2>6, WorkerMoves DEF WorkerMove
    <3>. QED
      BY <2>1, <2>2, <2>4, <2>6, <3>1, Transitions DEF Transition, WorkerInStep, Unsettled
  <2>. QED
    BY <2>1, <2>2, <2>3, <2>5, <2>6 DEF WorkerInStep
<1>. QED
  BY <1>1, <1>2, <1>3
\* What a step may do to the verdict of a reconciler: drop it, leave it (but for
\* the state it has read), or gather one.
VerdictMove(s) ==
  \/ verdict'[s].step = "none"
  \/ /\ verdict[s].step # "none" /\ verdict'[s].on = verdict[s].on
     /\ verdict'[s].key = verdict[s].key /\ verdict'[s].outcome = verdict[s].outcome
  \/ \E k \in Keys : GatherEvidence(s, k)

\* No step does anything else to a verdict.
LEMMA VerdictMoves == ASSUME TypeInv, NEW s \in Sources, [Next]_vars PROVE VerdictMove(s)
<1>. USE DEF TypeInv, VerdictInv, VerdictTypeOK, VerdictMove
<1>1. ASSUME NEW t \in Sources, ReconcilerStep(t)
      PROVE  \/ UNCHANGED verdict[s]
             \/ t = s /\ verdict'[s].step = "none"
             \/ t = s /\ ReadOldState(s)
             \/ t = s /\ \E k \in Keys : GatherEvidence(s, k)
  BY <1>1 DEF ReconcilerStep, GatherEvidence, ReadOldState, ReconcileOutcome, DiscardLate,
     NoVerdict, Verdict
<1>2. ASSUME ReadOldState(s) PROVE VerdictMove(s)
  BY <1>2 DEF ReadOldState, Verdict
<1>3. ASSUME NEW w \in Workers, WorkerStep(w) \/ Crash(w) PROVE UNCHANGED verdict
  BY <1>3 DEF WorkerStep, Begin, PlaceCall, CallReturns, RecordConfirmed, RecordAmbiguous,
     RecordFailed, Crash
<1>4. ASSUME NEW k \in Keys, \/ \E o \in Orgs, p \in Payloads : Initiate(k, o, p)
                             \/ \E w \in Workers : Claim(w, k)
                             \/ LapseLease(k)
                             \/ \E n \in Attempts : ProviderAnswers(k, n)
      PROVE  UNCHANGED verdict
  BY <1>4 DEF Initiate, Claim, LapseLease, ProviderAnswers
<1>. QED
  BY <1>1, <1>2, <1>3, <1>4 DEF Next, vars

\* A request that rang has rung for ever, and only rings are reported as such.
LEMMA EvidenceStep ==
  ASSUME TypeInv, OneRequestPerAttempt, NEW s \in Sources, EvidenceIsReal(s), [Next]_vars
  PROVE  EvidenceIsReal(s)'
<1>2. ASSUME NEW k \in Keys, NEW n \in Attempts
      PROVE  /\ n <= attempt_count[k] => n <= attempt_count'[k]
             /\ requests[k][n] = "accepted" => requests'[k][n] = "accepted"
  BY Transitions, RequestMoves, DispatchAssumption
  DEF Transition, RequestMove, TypeInv, RowInv, RowTypeOK, Attempts
<1>3. CASE \E k \in Keys : GatherEvidence(s, k)
  <2>1. PICK k \in Keys : GatherEvidence(s, k)
    BY <1>3
  <2>2. attempt_count[k] \in Attempts /\ attempt_count \in [Keys -> Int]
    BY <2>1, DispatchAssumption
    DEF GatherEvidence, Unsettled, TypeInv, RowInv, RowTypeOK, AttemptsCounted, DispatchStates
  <2>3. UNCHANGED <<attempt_count, requests>>
    BY <2>1 DEF GatherEvidence, rowVars
  <2>4. CASE \E n \in Attempts :
               /\ requests[k][n] = "accepted"
               /\ verdict' = [verdict EXCEPT ![s] =
                                Verdict("gathered", k, "CONFIRMED", n, "ABSENT")]
    <3>1. PICK n \in Attempts :
            /\ requests[k][n] = "accepted"
            /\ verdict' = [verdict EXCEPT ![s] = Verdict("gathered", k, "CONFIRMED", n, "ABSENT")]
      BY <2>4
    <3>2. verdict'[s] = Verdict("gathered", k, "CONFIRMED", n, "ABSENT")
      BY <3>1 DEF TypeInv, VerdictInv, VerdictTypeOK
    <3>3. n <= attempt_count[k]
      BY <2>2, <3>1 DEF OneRequestPerAttempt, Attempts
    <3>. QED
      BY <2>3, <3>1, <3>2, <3>3 DEF EvidenceIsReal, Verdict
  <2>5. CASE verdict' = [verdict EXCEPT ![s] =
               Verdict("gathered", k, "FAILED", attempt_count[k], "ABSENT")]
    BY <2>2, <2>3, <2>5 DEF EvidenceIsReal, Verdict, TypeInv, VerdictInv, VerdictTypeOK
  <2>. QED
    BY <2>1, <2>4, <2>5 DEF GatherEvidence
<1>. QED
  BY <1>2, <1>3, VerdictMoves
  DEF VerdictMove, EvidenceIsReal, TypeInv, VerdictInv, VerdictsHaveKeys

\* A row is confirmed by a worker that was told of the ring, or by the evidence
\* of one, and a confirmed row stays as it is.
LEMMA ConfirmedStep ==
  ASSUME TypeInv, OneRequestPerAttempt, ConfirmedIsReal, [Next]_vars,
         \A w \in Workers : WorkerInStep(w), \A s \in Sources : EvidenceIsReal(s)
  PROVE  ConfirmedIsReal'
<1>. DEFINE Real(k, n) == n \in Attempts /\ requests[k][n] = "accepted"
<1>. USE DEF TypeInv, RowInv, RowTypeOK
<1>1. ASSUME NEW k \in Keys, dispatch_state'[k] = "CONFIRMED"
      PROVE  Real(k, provider_call_ref'[k])
  <2>1. ASSUME UNCHANGED <<dispatch_state[k], provider_call_ref[k]>>
        PROVE  Real(k, provider_call_ref'[k])
    BY <1>1, <2>1 DEF ConfirmedIsReal
  <2>2. ASSUME NEW w \in Workers, RecordConfirmed(w) PROVE Real(k, provider_call_ref'[k])
    <3>1. job[w] \in Keys /\ attempt[w] \in Attempts
          /\ requests[job[w]][attempt[w]] = "accepted"
      BY <2>2, JobInRange DEF RecordConfirmed, WorkerInStep
    <3>2. \/ UNCHANGED <<dispatch_state, provider_call_ref>>
          \/ /\ dispatch_state' = [dispatch_state EXCEPT ![job[w]] = "CONFIRMED"]
             /\ provider_call_ref' = [provider_call_ref EXCEPT ![job[w]] = attempt[w]]
      BY <2>2 DEF RecordConfirmed
    <3>. QED
      BY <2>1, <3>1, <3>2
  <2>3. ASSUME NEW s \in Sources, ReconcileOutcome(s) PROVE Real(k, provider_call_ref'[k])
    <3>1. /\ verdict[s].key \in Keys /\ verdict[s].on \in Attempts
          /\ verdict[s].outcome = "CONFIRMED" =>
               requests[verdict[s].key][verdict[s].on] = "accepted"
      BY <2>3 DEF ReconcileOutcome, EvidenceIsReal, VerdictInv, VerdictsHaveKeys
    <3>2. \/ UNCHANGED <<dispatch_state, provider_call_ref>>
          \/ /\ dispatch_state' = [dispatch_state EXCEPT ![verdict[s].key] = verdict[s].outcome]
             /\ provider_call_ref' = [provider_call_ref EXCEPT
                                        ![verdict[s].key] = ReconciledRef(s, verdict[s].key)]
      BY <2>3 DEF ReconcileOutcome
    <3>. QED
      BY <1>1, <2>1, <3>1, <3>2 DEF ReconciledRef
  <2>4. ASSUME NEW w \in Workers, NEW error,
               RecordAmbiguous(w, error) \/ RecordFailed(w, error) \/ Begin(w)
        PROVE  Real(k, provider_call_ref'[k])
    <3>1. UNCHANGED provider_call_ref
      BY <2>4 DEF RecordAmbiguous, RecordFailed, Begin, BeginSucceeds, BeginRefused, rowVars
    <3>2. \/ UNCHANGED dispatch_state
          \/ \E end \in {"AMBIGUOUS", "FAILED", "SUBMITTING"} :
               dispatch_state' = [dispatch_state EXCEPT ![job[w]] = end]
      BY <2>4 DEF RecordAmbiguous, RecordFailed, Begin, BeginSucceeds, BeginRefused, rowVars
    <3>. QED
      BY <1>1, <2>1, <3>1, <3>2
  <2>5. ASSUME NEW j \in Keys, \/ \E o \in Orgs, p \in Payloads : Initiate(j, o, p)
                               \/ \E w \in Workers : Claim(w, j)
                               \/ LapseLease(j)
                               \/ \E n \in Attempts : ProviderAnswers(j, n)
        PROVE  Real(k, provider_call_ref'[k])
    <3>1. UNCHANGED provider_call_ref
      BY <2>5 DEF Initiate, Reserve, Replay, Claim, LapseLease, ProviderAnswers, rowVars
    <3>2. \/ UNCHANGED dispatch_state
          \/ \E next \in {"RESERVED", "CLAIMED"} :
               dispatch_state' = [dispatch_state EXCEPT ![j] = next]
      BY <2>5 DEF Initiate, Reserve, Replay, Claim, LapseLease, ProviderAnswers, rowVars
    <3>. QED
      BY <1>1, <2>1, <3>1, <3>2
  <2>6. ASSUME NEW w \in Workers, PlaceCall(w) \/ CallReturns(w) \/ Crash(w)
        PROVE  Real(k, provider_call_ref'[k])
    BY <2>1, <2>6 DEF PlaceCall, CallReturns, Crash, rowVars
  <2>7. ASSUME NEW s \in Sources,
               (\E j \in Keys : GatherEvidence(s, j)) \/ ReadOldState(s) \/ DiscardLate(s)
        PROVE  Real(k, provider_call_ref'[k])
    BY <2>1, <2>7 DEF GatherEvidence, ReadOldState, DiscardLate, rowVars
  <2>8. CASE UNCHANGED vars
    BY <2>1, <2>8 DEF vars, rowVars
  <2>. QED
    BY <2>2, <2>3, <2>4, <2>5, <2>6, <2>7, <2>8 DEF Next, WorkerStep, ReconcilerStep
<1>. QED
  BY <1>1, RequestMoves DEF RequestMove, ConfirmedIsReal

\* The records agree in the empty table ...
LEMMA RecordsInit == Init => RecordsInv
  BY DispatchAssumption, FS_EmptySet
  DEF Init, RecordsInv, ReservationsAgree, AuditedOnce, OneRequestPerAttempt, WorkerInStep,
      EvidenceIsReal, ConfirmedIsReal, NoVerdict, Verdict

\* ... and after every step.
LEMMA RecordsStep == ASSUME TypeInv, RecordsInv, [Next]_vars PROVE RecordsInv'
  BY ReservationsStep, AuditedOnceStep, OneRequestStep, WorkerInStepKept, EvidenceStep,
     ConfirmedStep
  DEF RecordsInv

\* However late verdicts are recorded, the reservations, the audit trail, the
\* workers and the evidence agree with the rows.
THEOREM RecordsInvariant == Spec => [](TypeInv /\ RecordsInv)
<1>1. TypeInv /\ RecordsInv /\ [Next]_vars => (TypeInv /\ RecordsInv)'
  BY TypeStep, RecordsStep
<1>. QED
  BY <1>1, TypeInit, RecordsInit, PTL DEF Spec

\* A confirmed row names a call that rang, also when the verdict that confirmed
\* it was about an earlier attempt.
THEOREM ConfirmationIsReal == Spec => []ConfirmedIsReal
<1>1. RecordsInv => ConfirmedIsReal
  BY DEF RecordsInv
<1>. QED
  BY <1>1, RecordsInvariant, PTL

\* Callers of one key get one session, of their own tenant and request, however
\* the reservations and replays of any number of keys interleave.
THEOREM SessionsAreOne == Spec => []OneSessionPerKey
<1>1. ASSUME TypeInv, RecordsInv PROVE OneSessionPerKey
  <2>. USE DEF RecordsInv, ReservationsAgree, TypeInv, ReservationInv, ReservationTypeOK
  <2>1. \A c \in call_sessions : c = <<c[1], c[2]>> /\ c[1] \in Nat /\ c[2] \in Keys
    BY <1>1
  <2>2. ASSUME NEW r \in replies
        PROVE  /\ r[1] \in Keys
               /\ r[4] \in {"CREATED", "REPLAYED"} =>
                    request[r[1]] = <<r[2], r[3]>> /\ call_session_id[r[1]] = r[5]
               /\ r[5] # 0 => <<r[5], r[1]>> \in call_sessions
    BY <1>1
  <2>3. ASSUME NEW r \in replies, NEW q \in replies, r[1] = q[1],
               r[4] \in {"CREATED", "REPLAYED"}, q[4] \in {"CREATED", "REPLAYED"}
        PROVE  r[2] = q[2] /\ r[3] = q[3] /\ r[5] = q[5]
    BY <1>1, <2>2, <2>3
  <2>4. ASSUME NEW c \in call_sessions, NEW d \in call_sessions, c[1] = d[1] \/ c[2] = d[2]
        PROVE  c = d
    BY <1>1, <2>1, <2>4
  <2>. QED
    BY <2>2, <2>3, <2>4 DEF OneSessionPerKey
<1>. QED
  BY <1>1, RecordsInvariant, PTL
-----------------------------------------------------------------------------
(* A key is in step until a verdict declares its attempt FAILED            *)

\* A verdict FAILED that settles the attempt of key k is true: the attempt cannot
\* ring any more.
FailedOnlyIfDead(k) ==
  \A s \in Sources :
    /\ ReconcileOutcome(s) /\ verdict[s].key = k /\ verdict[s].outcome = "FAILED"
    /\ dispatch_state[k] \in Unsettled
    => DeadForGood(k)

\* All steps but a false verdict keep a key in step.
LEMMA KeyInStepKept ==
  ASSUME TypeInv, RecordsInv, NEW k \in Keys, KeyInStep(k), FailedOnlyIfDead(k), [Next]_vars
  PROVE  KeyInStep(k)'
<1>. USE DispatchAssumption, NullAssumption DEF RecordsInv
<1>1. /\ attempt_count \in [Keys -> Int]
      /\ \A n \in Attempts : n \in Int
      /\ requests \in [Keys -> [Attempts -> {"none", "sent", "accepted", "rejected"}]]
  BY DEF TypeInv, RowInv, RowTypeOK, RequestsTypeOK, Attempts
\* A request is sent only for the current attempt of a row in SUBMITTING.
<1>2. ASSUME NEW w \in Workers, PlaceCall(w), job[w] = k
      PROVE  /\ attempt[w] = attempt_count[k] /\ dispatch_state[k] = "SUBMITTING"
             /\ UNCHANGED <<dispatch_state, attempt_count>>
  BY <1>2 DEF PlaceCall, KeyInStep, WorkerInStep, rowVars
\* What is dead stays dead, except the request that is now being sent.
<1>3. ASSUME NEW n \in Attempts, requests[k][n] \in Dead, requests'[k][n] \notin Dead
      PROVE  n = attempt_count[k] /\ dispatch_state'[k] = "SUBMITTING"
  BY <1>2, <1>3, RequestMoves DEF RequestMove, Dead
\* A row that is settled as FAILED has no request that is alive.
<1>4. ASSUME dispatch_state[k] \in Unsettled, dispatch_state'[k] = "FAILED", NEW n \in Attempts
      PROVE  requests[k][n] \in Dead
  <2>1. requests[k][attempt_count[k]] \in Dead
    <3>1. CASE \E s \in Sources : ReconcileOutcome(s) /\ verdict[s].key = k
                                  /\ dispatch_state'[k] = verdict[s].outcome
      BY <1>4, <3>1 DEF FailedOnlyIfDead, DeadForGood
    <3>2. CASE \E w \in Workers : /\ job[w] = k /\ claimed_by[k] = w
                                  /\ pc[w] \in {"claimed", "rejected"}
      BY <1>4, <3>2 DEF WorkerInStep, Unsettled, Dead, OneRequestPerAttempt
    <3>. QED
      BY <1>4, <3>1, <3>2, Transitions DEF Transition, Unsettled
  <2>2. n < attempt_count[k] \/ n = attempt_count[k] \/ n > attempt_count[k]
    BY <1>1
  <2>. QED
    BY <2>1, <2>2 DEF KeyInStep, OneRequestPerAttempt, Dead
<1>5. ASSUME NEW n \in Attempts, n < attempt_count'[k] PROVE requests'[k][n] \in Dead
  <2>1. CASE attempt_count'[k] = attempt_count[k]
    BY <1>1, <1>3, <1>5, <2>1 DEF KeyInStep
  <2>2. CASE attempt_count'[k] # attempt_count[k]
    BY <1>3, <2>2, Transitions DEF Transition, KeyInStep, Unsettled
  <2>. QED
    BY <2>1, <2>2
<1>6. ASSUME NEW n \in Attempts, dispatch_state'[k] \notin Unsettled \cup {"CONFIRMED"}
      PROVE  requests'[k][n] \in Dead
  <2>1. CASE dispatch_state[k] \notin Unsettled \cup {"CONFIRMED"}
    BY <1>3, <1>6, <2>1 DEF KeyInStep, Unsettled
  <2>2. CASE dispatch_state[k] \in Unsettled \cup {"CONFIRMED"}
    <3>1. dispatch_state[k] \in Unsettled /\ dispatch_state'[k] = "FAILED"
      BY <1>6, <2>2, Transitions DEF Transition, Unsettled
    <3>. QED
      BY <1>3, <1>4, <3>1
  <2>. QED
    BY <2>1, <2>2
<1>7. ASSUME NEW w \in Workers, job'[w] = k, pc'[w] = "begun"
      PROVE  claimed_by'[k] = w /\ dispatch_state'[k] = "SUBMITTING"
  <2>1. CASE BeginSucceeds(w) /\ job[w] = k
    BY <2>1 DEF BeginSucceeds, HoldsClaim, TypeInv, RowInv, RowTypeOK
  <2>2. CASE pc[w] = "begun" /\ job[w] = k /\ UNCHANGED attempt[w]
    <3>1. claimed_by[k] = w /\ dispatch_state[k] = "SUBMITTING"
          /\ attempt[w] = attempt_count[k] /\ requests[k][attempt_count[k]] = "none"
      BY <2>2 DEF KeyInStep, WorkerInStep, OneRequestPerAttempt
    <3>2. ASSUME NEW s \in Sources, ReconcileOutcome(s), verdict[s].key = k PROVE FALSE
      <4>1. /\ verdict[s].on <= attempt_count[k] /\ verdict[s].on \in Attempts
            /\ verdict[s].outcome \in {"CONFIRMED", "FAILED"}
            /\ verdict[s].outcome = "CONFIRMED" => requests[k][verdict[s].on] = "accepted"
        BY <3>2 DEF ReconcileOutcome, EvidenceIsReal, TypeInv, VerdictInv, VerdictTypeOK,
           VerdictsHaveKeys, Verdicts
      <4>2. CASE verdict[s].outcome = "CONFIRMED"
        <5>1. verdict[s].on = attempt_count[k] \/ verdict[s].on < attempt_count[k]
          <6>1. attempt_count[k] \in Int /\ verdict[s].on \in Int
            BY <1>1, <4>1
          <6>. QED
            BY <4>1, <6>1
        <5>. QED
          BY <3>1, <4>1, <4>2, <5>1 DEF KeyInStep, Dead
      <4>3. CASE verdict[s].outcome = "FAILED"
        BY <2>2, <3>1, <3>2, <4>3 DEF FailedOnlyIfDead, DeadForGood, Unsettled
      <4>. QED
        BY <4>1, <4>2, <4>3
    <3>3. dispatch_state'[k] = "SUBMITTING"
      BY <1>7, <3>1, <3>2, Transitions DEF Transition
    <3>4. ASSUME NEW u \in Workers, Claim(u, k) PROVE FALSE
      BY <3>1, <3>4 DEF Claim, Claimable
    <3>. QED
      BY <3>1, <3>3, <3>4, Holders
  <2>3. ASSUME NEW j \in Keys, Claim(w, j) PROVE FALSE
    BY <1>7, <2>3 DEF Claim, TypeInv, WorkerInv, WorkerTypeOK
  <2>. QED
    BY <1>7, <2>1, <2>2, <2>3, WorkerMoves DEF WorkerMove
<1>. QED
  BY <1>5, <1>6, <1>7 DEF KeyInStep
\* Every key starts in step.
LEMMA KeyInStepInit == Init => \A k \in Keys : KeyInStep(k)
  BY DispatchAssumption DEF Init, KeyInStep, Dead, Attempts

\* A verdict FAILED that is recorded leaves its audit event; before the first of
\* them, a key stays in step.
LEMMA UntilFailedStep == ASSUME TypeInv, RecordsInv, UntilFailed, [Next]_vars PROVE UntilFailed'
<1>. SUFFICES ASSUME NEW k \in Keys, NeverFailed(k)' PROVE KeyInStep(k)'
  BY DEF UntilFailed
<1>1. audit_events \subseteq audit_events'
  BY DEF Next, vars, Initiate, Claim, LapseLease, WorkerStep, Begin, PlaceCall, CallReturns,
     RecordConfirmed, RecordAmbiguous, RecordFailed, Crash, ProviderAnswers, ReconcilerStep,
     GatherEvidence, ReadOldState, ReconcileOutcome, DiscardLate
<1>2. NeverFailed(k) /\ KeyInStep(k)
  BY <1>1 DEF NeverFailed, UntilFailed
<1>3. ASSUME NEW s \in Sources, ReconcileOutcome(s), verdict[s].key = k,
             verdict[s].outcome = "FAILED", dispatch_state[k] \in Unsettled
      PROVE  \E e \in audit_events' : e.key = k /\ e.new = "FAILED"
  <2>. DEFINE event == [key |-> k, attempt |-> attempt_count[k], source |-> s,
                        old |-> verdict[s].old, new |-> "FAILED"]
  <2>1. event \in audit_events'
    BY <1>3 DEF ReconcileOutcome, Reconcilable, Unsettled
  <2>. QED
    BY <2>1
<1>4. FailedOnlyIfDead(k)
  BY <1>3 DEF FailedOnlyIfDead, NeverFailed
<1>. QED
  BY <1>2, <1>4, KeyInStepKept

\* In every reachable state, each key that no verdict has declared FAILED is in
\* step: whatever workers, leases and answers do, only its current attempt can
\* ring.
THEOREM UntilFailedInvariant == Spec => []UntilFailed
<1>1. Init => UntilFailed
  BY KeyInStepInit DEF UntilFailed
<1>. QED
  BY <1>1, UntilFailedStep, RecordsInvariant, PTL DEF Spec

\* A phone that rings twice for one key has a reconciliation to FAILED on the
\* record, with any number of workers, reconcilers and attempts, and however
\* late the verdicts.
THEOREM SecondCallsAreAudited == Spec => []SecondCallIsAudited
<1>1. ASSUME TypeInv, RecordsInv, NEW k \in Keys, KeyInStep(k), NEW n \in Attempts,
             requests[k][n] = "accepted"
      PROVE  n = attempt_count[k]
  <2>1. n \in Int /\ attempt_count[k] \in Int
    BY <1>1, DispatchAssumption DEF TypeInv, RowInv, RowTypeOK, Attempts
  <2>2. ~(n > attempt_count[k]) /\ ~(n < attempt_count[k])
    BY <1>1 DEF RecordsInv, OneRequestPerAttempt, KeyInStep, Dead
  <2>. QED
    BY <2>1, <2>2
<1>2. TypeInv /\ RecordsInv /\ UntilFailed => SecondCallIsAudited
  BY <1>1 DEF UntilFailed, NeverFailed, SecondCallIsAudited
<1>. QED
  BY <1>2, RecordsInvariant, UntilFailedInvariant, PTL

-----------------------------------------------------------------------------
(* Who settles a row                                                       *)

\* The audit event of a verdict that settles a row is a new one.
LEMMA VerdictLeavesEvent ==
  ASSUME TypeInv, AuditedOnce, NEW s \in Sources, ReconcileOutcome(s),
         dispatch_state[verdict[s].key] \in Unsettled
  PROVE  \E e \in audit_events' \ audit_events :
           e.key = verdict[s].key /\ e.new = verdict[s].outcome
<1>. DEFINE k == verdict[s].key
            event == [key |-> k, attempt |-> attempt_count[k], source |-> s,
                      old |-> verdict[s].old, new |-> verdict[s].outcome]
<1>1. audit_events' = audit_events \cup {event}
  BY DEF ReconcileOutcome, Reconcilable, Unsettled
<1>2. event \notin audit_events
  BY DEF AuditedOnce, Unsettled
<1>. QED
  BY <1>1, <1>2

\* A row in doubt is settled by the worker that holds it and has the answer to
\* its current attempt, or on the record, for any number of workers and
\* reconcilers and however late the verdicts.
THEOREM SettledOnTheRecord == Spec => SettledByHolderOrAudited
<1>1. ASSUME TypeInv, RecordsInv, [Next]_vars, NEW k \in Keys,
             dispatch_state[k] \in Unsettled, dispatch_state'[k] \notin Unsettled
      PROVE  \/ \E w \in Workers :
                  /\ claimed_by[k] = w /\ job[w] = k
                  /\ attempt[w] = attempt_count[k]
                  /\ pc[w] \in {"accepted", "rejected"}
             \/ \E e \in audit_events' \ audit_events :
                  e.key = k /\ e.new = dispatch_state'[k]
  <2>1. CASE \E s \in Sources : /\ ReconcileOutcome(s) /\ verdict[s].key = k
                                /\ dispatch_state'[k] = verdict[s].outcome
    BY <1>1, <2>1, VerdictLeavesEvent DEF RecordsInv
  <2>2. CASE \E w \in Workers : /\ dispatch_state[k] = "SUBMITTING"
                                /\ job[w] = k /\ claimed_by[k] = w
                                /\ pc[w] \in {"accepted", "claimed", "rejected"}
    BY <1>1, <2>2 DEF RecordsInv, WorkerInStep
  <2>. QED
    BY <1>1, <2>1, <2>2, Transitions DEF Transition, Unsettled
<1>2. TypeInv /\ RecordsInv /\ [Next]_vars =>
        [ \A k \in Keys :
            dispatch_state[k] \in Unsettled /\ dispatch_state'[k] \notin Unsettled =>
              \/ \E w \in Workers :
                   /\ claimed_by[k] = w /\ job[w] = k
                   /\ attempt[w] = attempt_count[k]
                   /\ pc[w] \in {"accepted", "rejected"}
              \/ \E e \in audit_events' \ audit_events :
                   e.key = k /\ e.new = dispatch_state'[k] ]_vars
  BY <1>1
<1>. QED
  BY <1>2, RecordsInvariant, PTL DEF Spec, SettledByHolderOrAudited

-----------------------------------------------------------------------------
(* The calls, when verdicts are timely                                     *)

\* CallInv holds of the empty table.
LEMMA CallInvInit == Init => CallInv
  BY KeyInStepInit DEF Init, CallInv, VerdictSound, NoVerdict, Verdict

\* What is dead for good stays so until its row is claimed again.
LEMMA DeadStaysDead ==
  ASSUME TypeInv, RecordsInv, NEW k \in Keys, KeyInStep(k), DeadForGood(k), [Next]_vars,
         UNCHANGED attempt_count[k]
  PROVE  DeadForGood(k)'
<1>1. dispatch_state'[k] \in Unsettled \cup {"CONFIRMED", "FAILED"}
  BY Transitions DEF Transition, DeadForGood, Unsettled, TypeInv, RowInv, RowTypeOK
<1>2. attempt_count[k] \in Attempts
  BY DEF DeadForGood, Unsettled, TypeInv, RowInv, AttemptsCounted, DispatchStates
<1>3. ASSUME NEW w \in Workers, job'[w] = k, pc'[w] = "begun" PROVE FALSE
  <2>1. ASSUME BeginSucceeds(w) PROVE job[w] # k
    BY <2>1 DEF BeginSucceeds, DeadForGood, Unsettled
  <2>2. ASSUME NEW j \in Keys, Claim(w, j) PROVE FALSE
    BY <1>3, <2>2 DEF Claim, TypeInv, WorkerInv, WorkerTypeOK
  <2>. QED
    BY <1>3, <2>1, <2>2, WorkerMoves DEF WorkerMove, DeadForGood
<1>4. requests'[k][attempt_count[k]] \in Dead
  <2>1. ASSUME NEW w \in Workers, PlaceCall(w) PROVE job[w] # k
    BY <2>1 DEF PlaceCall, DeadForGood
  <2>. QED
    BY <1>2, <2>1, RequestMoves DEF RequestMove, RecordsInv, DeadForGood, Dead
<1>. QED
  BY <1>1, <1>3, <1>4 DEF DeadForGood

\* A verdict that no call was made stays true of its attempt.
LEMMA VerdictSoundStep ==
  ASSUME TypeInv, RecordsInv, CallInv, NEW s \in Sources, [Next]_vars
  PROVE  VerdictSound(s)'
<1>1. CASE \E k \in Keys : GatherEvidence(s, k)
  <2>1. PICK k \in Keys : GatherEvidence(s, k)
    BY <1>1
  <2>2. UNCHANGED <<dispatch_state, attempt_count, requests, pc, job>>
    BY <2>1 DEF GatherEvidence, rowVars, workerVars
  <2>3. ASSUME verdict'[s].outcome = "FAILED"
        PROVE  verdict'[s].key = k /\ DeadForGood(k)
    <3>1. DeadAttempt(k) /\ verdict'[s].key = k
      BY <2>1, <2>3 DEF GatherEvidence, Verdict, TypeInv, VerdictInv, VerdictTypeOK
    <3>2. attempt_count[k] \in Attempts /\ dispatch_state[k] \in Unsettled
      BY <2>1 DEF GatherEvidence, Unsettled, TypeInv, RowInv, AttemptsCounted, DispatchStates
    <3>3. \A w \in Workers : job[w] = k => pc[w] # "begun"
      BY <3>1 DEF DeadAttempt, CallInv, KeyInStep, RecordsInv, OneRequestPerAttempt,
        WorkerInStep
    <3>. QED
      BY <3>1, <3>2, <3>3 DEF DeadAttempt, DeadForGood, Dead
  <2>. QED
    BY <2>2, <2>3 DEF VerdictSound, DeadForGood
<1>2. CASE /\ verdict[s].step # "none" /\ verdict'[s].on = verdict[s].on
           /\ verdict'[s].key = verdict[s].key /\ verdict'[s].outcome = verdict[s].outcome
           /\ verdict'[s].outcome = "FAILED"
           /\ verdict'[s].on = attempt_count'[verdict'[s].key]
  <2>1. PICK k \in Keys : k = verdict[s].key /\ verdict[s].on <= attempt_count[k]
    BY <1>2 DEF RecordsInv, EvidenceIsReal, TypeInv, VerdictInv, VerdictsHaveKeys
  <2>2. UNCHANGED attempt_count[k]
    BY <1>2, <2>1, Transitions, DispatchAssumption DEF Transition, TypeInv, RowInv, RowTypeOK
  <2>. QED
    BY <1>2, <2>1, <2>2, DeadStaysDead DEF CallInv, VerdictSound
<1>. QED
  BY <1>1, <1>2, VerdictMoves DEF VerdictMove, VerdictSound

\* Each step keeps the keys, the verdicts and the confirmed rows in step with
\* one another; it is KeyInStep that needs the timeliness of verdicts.
LEMMA CallInvStep ==
  ASSUME ~LateVerdicts, TypeInv, RecordsInv, CallInv, [Next]_vars
  PROVE  CallInv'
<1>1. ASSUME NEW k \in Keys PROVE FailedOnlyIfDead(k)
  <2>1. ASSUME NEW s \in Sources, ReconcileOutcome(s)
        PROVE  verdict[s].on = attempt_count[verdict[s].key]
    BY <2>1 DEF ReconcileOutcome, Timely
  <2>. QED
    BY <2>1 DEF FailedOnlyIfDead, ReconcileOutcome, CallInv, VerdictSound
<1>2. ASSUME NEW k \in Keys PROVE KeyInStep(k)'
  BY <1>1, KeyInStepKept DEF CallInv
<1>. QED
  BY <1>2, VerdictSoundStep DEF CallInv

\* With timely verdicts, the invariant holds in every reachable state.
THEOREM CallInvariant == ASSUME ~LateVerdicts PROVE Spec => []CallInv
  BY RecordsInvariant, CallInvInit, CallInvStep, PTL DEF Spec

\* In every reachable state, with verdicts that are timely or not.
THEOREM DispatchInvariant == Spec => []Inductive
<1>1. CASE LateVerdicts
  BY <1>1, RecordsInvariant, UntilFailedInvariant, PTL DEF Inductive
<1>2. CASE ~LateVerdicts
  BY <1>2, RecordsInvariant, UntilFailedInvariant, CallInvariant, PTL DEF Inductive
<1>. QED
  BY <1>1, <1>2

\* With timely verdicts, no dispatch key makes a phone ring twice.
THEOREM CallsAtMostOnce == ASSUME ~LateVerdicts PROVE Spec => []AtMostOneCall
<1>1. ASSUME TypeInv, RecordsInv, CallInv, NEW k \in Keys, NEW n \in Attempts,
             requests[k][n] = "accepted"
      PROVE  n = attempt_count[k]
  <2>1. n \in Int /\ attempt_count[k] \in Int
    BY <1>1, DispatchAssumption DEF TypeInv, RowInv, RowTypeOK, Attempts
  <2>2. ~(n > attempt_count[k]) /\ ~(n < attempt_count[k])
    BY <1>1 DEF CallInv, KeyInStep, RecordsInv, OneRequestPerAttempt, Dead
  <2>. QED
    BY <2>1, <2>2
<1>2. TypeInv /\ RecordsInv /\ CallInv => AtMostOneCall
  BY <1>1 DEF AtMostOneCall
<1>. QED
  BY <1>2, RecordsInvariant, CallInvariant, PTL

\* With timely verdicts, a row that may be claimed again has no request that
\* rang or still can, and no worker about to send one.
THEOREM RetryIsSafe == ASSUME ~LateVerdicts PROVE Spec => []RetryableIsQuiet
<1>1. TypeInv /\ RecordsInv /\ CallInv => RetryableIsQuiet
  BY NullAssumption
  DEF TypeInv, WorkerInv, WorkerTypeOK, CallInv, KeyInStep, RetryableIsQuiet, Unsettled, Dead
<1>. QED
  BY <1>1, RecordsInvariant, CallInvariant, PTL

-----------------------------------------------------------------------------
(* The dispatch table implements CallOnce                                  *)

\* The abstract variables: the keys of confirmed rows, and the requests of each
\* key that are out, that rang, and that were made.
Confirmed   == {k \in Keys : dispatch_state[k] = "CONFIRMED"}
Outstanding == [k \in Keys |-> {n \in Attempts : requests[k][n] = "sent"}]
Rang        == [k \in Keys |-> {n \in Attempts : requests[k][n] = "accepted"}]
Used        == [k \in Keys |-> {n \in Attempts : requests[k][n] # "none"}]

\* A step that leaves the requests and the confirmed rows alone is a stutter.
LEMMA Stutter ==
  ASSUME UNCHANGED <<requests, Confirmed>>
  PROVE  UNCHANGED Promise!vars
  BY DEF Confirmed, Promise!vars

\* What one answer, or one new request, does to the abstract variables.
LEMMA RequestStep ==
  ASSUME RequestsTypeOK, NEW k \in Keys, NEW n \in Attempts, NEW a,
         requests' = [requests EXCEPT ![k][n] = a], a \in {"sent", "accepted", "rejected"}
  PROVE  /\ Outstanding' = [Outstanding EXCEPT ![k] =
                              IF a = "sent" THEN @ \cup {n} ELSE @ \ {n}]
         /\ Rang' = [Rang EXCEPT ![k] = IF a = "accepted" THEN @ \cup {n} ELSE @ \ {n}]
         /\ Used' = [Used EXCEPT ![k] = @ \cup {n}]
<1>1. \A j \in Keys, m \in Attempts :
        requests'[j][m] = IF j = k /\ m = n THEN a ELSE requests[j][m]
  BY DEF RequestsTypeOK
<1>2. ASSUME NEW j \in Keys
      PROVE  Outstanding'[j] = IF j # k THEN Outstanding[j]
                               ELSE IF a = "sent" THEN Outstanding[j] \cup {n}
                               ELSE Outstanding[j] \ {n}
  BY <1>1 DEF Outstanding
<1>3. ASSUME NEW j \in Keys
      PROVE  Rang'[j] = IF j # k THEN Rang[j]
                        ELSE IF a = "accepted" THEN Rang[j] \cup {n} ELSE Rang[j] \ {n}
  BY <1>1 DEF Rang
<1>4. ASSUME NEW j \in Keys
      PROVE  Used'[j] = IF j # k THEN Used[j] ELSE Used[j] \cup {n}
  BY <1>1 DEF Used
<1>5. Outstanding' = [Outstanding EXCEPT ![k] = IF a = "sent" THEN @ \cup {n} ELSE @ \ {n}]
  BY <1>2 DEF Outstanding
<1>6. Rang' = [Rang EXCEPT ![k] = IF a = "accepted" THEN @ \cup {n} ELSE @ \ {n}]
  BY <1>3 DEF Rang
<1>7. Used' = [Used EXCEPT ![k] = @ \cup {n}]
  BY <1>4 DEF Used
<1>. QED
  BY <1>5, <1>6, <1>7

\* The steps of CallOnce.
LEMMA Dials ==
  ASSUME NEW k \in Keys
  PROVE  /\ Promise!Confirm(k) => Promise!Next
         /\ \A n \in Attempts :
              Promise!Dial(k, n) \/ Promise!Ring(k, n) \/ Promise!Decline(k, n) => Promise!Next
  BY Zenon DEF Promise!Next

\* With timely verdicts, every step keeps the promise of CallOnce: a request
\* is sent only when none is out and none rang, and a row is confirmed only
\* when its call rang.
LEMMA PromiseStep ==
  ASSUME TypeInv, RecordsInv, CallInv, [Next]_vars
  PROVE  [Promise!Next]_(Promise!vars)
<1>. USE DispatchAssumption, NullAssumption
<1>1. ASSUME NEW k \in Keys, NEW o \in Orgs, NEW p \in Payloads, Initiate(k, o, p)
      PROVE  UNCHANGED <<requests, Confirmed>>
  BY <1>1 DEF Initiate, Reserve, Replay, rowVars, Confirmed, TypeInv, RowInv, RowTypeOK
<1>2. ASSUME NEW w \in Workers, NEW k \in Keys, Claim(w, k)
      PROVE  UNCHANGED <<requests, Confirmed>>
  BY <1>2 DEF Claim, Claimable, Confirmed, TypeInv, RowInv, RowTypeOK
<1>3. ASSUME NEW w \in Workers, Begin(w) PROVE UNCHANGED <<requests, Confirmed>>
  BY <1>3 DEF Begin, BeginSucceeds, BeginRefused, rowVars, Confirmed, TypeInv, RowInv, RowTypeOK
<1>. /\ Outstanding \in [Keys -> SUBSET Attempts]
     /\ Rang \in [Keys -> SUBSET Attempts]
     /\ Used \in [Keys -> SUBSET Attempts]
  BY DEF Outstanding, Rang, Used
<1>4. ASSUME NEW w \in Workers, PlaceCall(w) PROVE Promise!Next
  <2>1. PICK k \in Keys, n \in Attempts : k = job[w] /\ n = attempt[w]
    BY <1>4, JobInRange DEF PlaceCall
  <2>2. n = attempt_count[k] /\ requests[k][n] = "none"
    BY <1>4, <2>1 DEF PlaceCall, CallInv, KeyInStep, RecordsInv, OneRequestPerAttempt,
         WorkerInStep
  <2>3. ASSUME NEW m \in Attempts PROVE requests[k][m] \in Dead
    <3>1. m < n \/ m = n \/ m > n
      BY DEF Attempts
    <3>. QED
      BY <2>2, <3>1 DEF CallInv, KeyInStep, RecordsInv, OneRequestPerAttempt, Dead
  <2>4. requests' = [requests EXCEPT ![k][n] = "sent"] /\ Confirmed' = Confirmed
    BY <1>4, <2>1 DEF PlaceCall, rowVars, Confirmed
  <2>5. Outstanding[k] = {} /\ Rang[k] = {} /\ n \notin Used[k]
    BY <2>2, <2>3 DEF Outstanding, Rang, Used, Dead
  <2>6. /\ Outstanding' = [Outstanding EXCEPT ![k] = @ \cup {n}]
        /\ Rang' = [Rang EXCEPT ![k] = @ \ {n}]
        /\ Used' = [Used EXCEPT ![k] = @ \cup {n}]
    BY <2>4, RequestStep DEF TypeInv
  <2>7. Outstanding[k] \cup {n} = {n} /\ Rang[k] \ {n} = Rang[k]
    BY <2>5
  <2>8. Outstanding' = [Outstanding EXCEPT ![k] = {n}] /\ Rang' = Rang
    BY <2>6, <2>7
  <2>9. Promise!Dial(k, n)
    BY <2>4, <2>5, <2>6, <2>8 DEF Promise!Dial, Confirmed, Outstanding, Rang, Used
  <2>. QED
    BY <2>9, Dials
<1>5. ASSUME NEW w \in Workers, CallReturns(w) PROVE UNCHANGED <<requests, Confirmed>>
  BY <1>5 DEF CallReturns, rowVars, Confirmed
<1>6. ASSUME NEW w \in Workers, RecordConfirmed(w)
      PROVE  Promise!Next \/ UNCHANGED <<requests, Confirmed>>
  <2>1. CASE dispatch_state[job[w]] = "SUBMITTING" /\ HoldsClaim(w)
    <3>1. PICK k \in Keys, n \in Attempts : k = job[w] /\ n = attempt[w]
      BY <1>6, JobInRange DEF RecordConfirmed
    <3>2. requests[k][n] = "accepted"
      BY <1>6, <3>1 DEF RecordConfirmed, RecordsInv, WorkerInStep
    <3>3. requests' = requests /\ Confirmed' = Confirmed \cup {k}
      BY <1>6, <2>1, <3>1 DEF RecordConfirmed, Confirmed, TypeInv, RowInv, RowTypeOK
    <3>4. Promise!Confirm(k)
      BY <3>2, <3>3 DEF Promise!Confirm, Confirmed
    <3>. QED
      BY <3>4, Dials
  <2>2. CASE ~(dispatch_state[job[w]] = "SUBMITTING" /\ HoldsClaim(w))
    BY <1>6, <2>2 DEF RecordConfirmed, Confirmed
  <2>. QED
    BY <2>1, <2>2
<1>7. ASSUME NEW w \in Workers, NEW error \in {"blank", "text"}, RecordAmbiguous(w, error)
      PROVE  UNCHANGED <<requests, Confirmed>>
  BY <1>7 DEF RecordAmbiguous, Confirmed, TypeInv, RowInv, RowTypeOK
<1>8. ASSUME NEW w \in Workers, NEW error \in {"blank", "text"}, RecordFailed(w, error)
      PROVE  UNCHANGED <<requests, Confirmed>>
  BY <1>8 DEF RecordFailed, Confirmed, TypeInv, RowInv, RowTypeOK
<1>9. ASSUME NEW w \in Workers, Crash(w) PROVE UNCHANGED <<requests, Confirmed>>
  BY <1>9 DEF Crash, rowVars, Confirmed
<1>10. ASSUME NEW k \in Keys, LapseLease(k) PROVE UNCHANGED <<requests, Confirmed>>
  BY <1>10 DEF LapseLease, Confirmed
<1>11. ASSUME NEW k \in Keys, NEW n \in Attempts, ProviderAnswers(k, n)
       PROVE  Promise!Ring(k, n) \/ Promise!Decline(k, n)
  <2>1. PICK answer \in {"accepted", "rejected"} :
          requests' = [requests EXCEPT ![k][n] = answer]
    BY <1>11 DEF ProviderAnswers
  <2>2. Confirmed' = Confirmed /\ requests[k][n] = "sent"
    BY <1>11 DEF ProviderAnswers, rowVars, Confirmed
  <2>3. n \in Outstanding[k] /\ n \notin Rang[k] /\ n \in Used[k]
    BY <2>2 DEF Outstanding, Rang, Used
  <2>4. /\ Outstanding' = [Outstanding EXCEPT ![k] = @ \ {n}]
        /\ Rang' = [Rang EXCEPT ![k] = IF answer = "accepted" THEN @ \cup {n} ELSE @ \ {n}]
        /\ Used' = [Used EXCEPT ![k] = @ \cup {n}]
    BY <2>1, RequestStep DEF TypeInv
  <2>5. Used' = Used
    <3>1. Used[k] \cup {n} = Used[k]
      BY <2>3
    <3>. QED
      BY <2>4, <3>1
  <2>6. CASE answer = "accepted"
    <3>1. Rang' = [Rang EXCEPT ![k] = @ \cup {n}]
      BY <2>4, <2>6
    <3>. QED
      BY <2>2, <2>3, <2>4, <2>5, <3>1 DEF Promise!Ring, Confirmed, Outstanding, Rang, Used
  <2>7. CASE answer = "rejected"
    <3>1. Rang[k] \ {n} = Rang[k]
      BY <2>3
    <3>2. Rang' = Rang
      BY <2>4, <2>7, <3>1
    <3>. QED
      BY <2>2, <2>3, <2>4, <2>5, <3>2 DEF Promise!Decline, Confirmed, Outstanding, Rang, Used
  <2>. QED
    BY <2>1, <2>6, <2>7
<1>12. ASSUME NEW s \in Sources, NEW k \in Keys, GatherEvidence(s, k)
       PROVE  UNCHANGED <<requests, Confirmed>>
  BY <1>12 DEF GatherEvidence, rowVars, Confirmed
<1>13. ASSUME NEW s \in Sources, ReadOldState(s) PROVE UNCHANGED <<requests, Confirmed>>
  BY <1>13 DEF ReadOldState, rowVars, Confirmed
<1>14. ASSUME NEW s \in Sources, ReconcileOutcome(s)
       PROVE  Promise!Next \/ UNCHANGED <<requests, Confirmed>>
  <2>1. verdict[s].key \in Keys /\ verdict[s].outcome \in {"CONFIRMED", "FAILED"}
        /\ verdict[s].on \in Attempts
    BY <1>14 DEF ReconcileOutcome, TypeInv, VerdictInv, VerdictTypeOK, VerdictsHaveKeys,
      Verdicts
  <2>2. PICK k \in Keys : k = verdict[s].key
    BY <2>1
  <2>3. CASE dispatch_state[k] \in Reconcilable /\ verdict[s].outcome = "CONFIRMED"
    <3>1. requests' = requests /\ Confirmed' = Confirmed \cup {k}
      BY <1>14, <2>2, <2>3 DEF ReconcileOutcome, Confirmed, TypeInv, RowInv, RowTypeOK
    <3>2. requests[k][verdict[s].on] = "accepted"
      BY <1>14, <2>2, <2>3 DEF ReconcileOutcome, CallInv, RecordsInv, EvidenceIsReal
    <3>3. Promise!Confirm(k)
      BY <2>1, <3>1, <3>2 DEF Promise!Confirm, Confirmed
    <3>. QED
      BY <3>3, Dials
  <2>4. CASE dispatch_state[k] \in Reconcilable /\ verdict[s].outcome = "FAILED"
    BY <1>14, <2>2, <2>4 DEF ReconcileOutcome, Reconcilable, Confirmed, TypeInv, RowInv,
      RowTypeOK
  <2>5. CASE dispatch_state[k] \notin Reconcilable
    BY <1>14, <2>2, <2>5 DEF ReconcileOutcome, Confirmed
  <2>. QED
    BY <2>1, <2>3, <2>4, <2>5
<1>15. ASSUME NEW s \in Sources, DiscardLate(s) PROVE UNCHANGED <<requests, Confirmed>>
  BY <1>15 DEF DiscardLate, rowVars, Confirmed
<1>16. CASE UNCHANGED vars
  <2>1. UNCHANGED <<requests, Confirmed>>
    BY <1>16 DEF vars, rowVars, Confirmed
  <2>. QED
    BY <2>1, Stutter
<1>17. ASSUME NEW k \in Keys, NEW n \in Attempts, ProviderAnswers(k, n) PROVE Promise!Next
  BY <1>11, <1>17, Dials
<1>. QED
  BY <1>1, <1>2, <1>3, <1>4, <1>5, <1>6, <1>7, <1>8, <1>9, <1>10, <1>12, <1>13, <1>14,
     <1>15, <1>16, <1>17, Stutter DEF Next, WorkerStep, ReconcilerStep

\* With timely verdicts, the dispatch table with its workers, provider and
\* reconcilers implements CallOnce.
THEOREM ImplementsCallOnce == ASSUME ~LateVerdicts PROVE Spec => CallsOnce
<1>1. Init => Promise!Init
  BY DEF Init, Promise!Init
<1>. QED
  BY <1>1, RecordsInvariant, CallInvariant, PromiseStep, PTL DEF Spec, CallsOnce, Promise!Spec
=============================================================================
