----------------------- MODULE NodeExecution_proofs -----------------------
(***************************************************************************)
(* Proofs about NodeExecution, for any graph and number of workers, turns  *)
(* and invocations.                                                        *)
(***************************************************************************)
EXTENDS NodeExecution, TLAPS

(***************************************************************************)
(* Types                                                                   *)
(***************************************************************************)

\* Every turn is in range, and so is every claim a worker can be at.
LEMMA JobInRange == ASSUME TypeOK, NEW w \in Workers PROVE Job(w) \in Claims
  BY DEF TypeOK, Job, Claims

\* A new execution has no claims, no checkpoint and idle workers.
LEMMA TypeInit == Init => TypeOK
  BY NodeAssumption
  DEF Init, TypeOK, Turns, Sends, ClaimStates, Submitting, Lost, NoOne

\* Every transaction and every step around it keeps the rows within their
\* CHECK constraints and every counter in range.
LEMMA TypeStep == TypeOK /\ [Next]_vars => TypeOK'
<1>. SUFFICES ASSUME TypeOK, [Next]_vars PROVE TypeOK'
  OBVIOUS
<1>. USE NodeAssumption
<1>1. ASSUME NEW w \in Workers, StartTurn(w) PROVE TypeOK'
  <2>1. turn' \in [Workers -> Turns]
    BY <1>1 DEF StartTurn, TypeOK, Turns
  <2>2. known' \in [Workers -> SUBSET Claims]
    BY <1>1 DEF StartTurn, TypeOK
  <2>. QED
    BY <1>1, <2>1, <2>2 DEF StartTurn, TypeOK, executionVars, claimVars
<1>2. ASSUME NEW w \in Workers, FinishTurn(w) PROVE TypeOK'
  <2>1. turn[w] \in 1..MaxTurns /\ known[w] \in SUBSET Claims
    BY DEF TypeOK, Turns
  <2>2. hot' \in [turn : 0..MaxTurns, known : SUBSET Claims]
    BY <1>2, <2>1 DEF FinishTurn, Lost
  <2>3. jobs' \subseteq [seq : Turns, history : SUBSET Claims]
    BY <1>2, <2>1 DEF FinishTurn, TypeOK, Turns
  <2>. QED
    BY <1>2, <2>2, <2>3 DEF FinishTurn, TypeOK, executionVars, claimVars
<1>3. ASSUME NEW w \in Workers, NEW n \in Nodes, ReadExecution(w, n) PROVE TypeOK'
  BY <1>3 DEF ReadExecution, TypeOK, executionVars, claimVars
<1>4. ASSUME NEW w \in Workers, Claim(w) PROVE TypeOK'
  BY <1>4, JobInRange DEF Claim, Leased, TypeOK, executionVars, ClaimStates
<1>5. ASSUME NEW w \in Workers, ClaimRefused(w) PROVE TypeOK'
  <2>1. Learned(Job(w)) \subseteq Claims
    BY JobInRange DEF Learned
  <2>2. known' \in [Workers -> SUBSET Claims]
    BY <1>5, <2>1 DEF ClaimRefused, TypeOK
  <2>. QED
    BY <1>5, <2>2 DEF ClaimRefused, TypeOK, executionVars, claimVars
<1>6. ASSUME NEW w \in Workers, BeginSucceeds(w) PROVE TypeOK'
  BY <1>6, JobInRange DEF BeginSucceeds, TypeOK, executionVars, ClaimStates, Submitting
<1>7. ASSUME NEW w \in Workers, BeginRefused(w) PROVE TypeOK'
  BY <1>7 DEF BeginRefused, TypeOK, executionVars, claimVars
<1>8. ASSUME NEW w \in Workers, NEW n \in Sends, Invoke(w, n) PROVE TypeOK'
  BY <1>8, JobInRange DEF Invoke, TypeOK, executionVars, claimVars, Submitting
<1>9. ASSUME NEW w \in Workers, Answered(w) PROVE TypeOK'
  BY <1>9, JobInRange DEF Answered, TypeOK, executionVars, claimVars, Submitting
<1>10. ASSUME NEW w \in Workers, AnswerLost(w) PROVE TypeOK'
  BY <1>10 DEF AnswerLost, TypeOK, executionVars, claimVars, Submitting
<1>11. ASSUME NEW w \in Workers, RecordSucceeded(w) PROVE TypeOK'
  BY <1>11, JobInRange DEF RecordSucceeded, Settle, TypeOK, executionVars, claimVars,
    ClaimStates
<1>12. ASSUME NEW w \in Workers, RecordAmbiguous(w) PROVE TypeOK'
  BY <1>12, JobInRange DEF RecordAmbiguous, Settle, TypeOK, executionVars, claimVars,
    ClaimStates
<1>13. ASSUME NEW w \in Workers, RecordFailed(w) PROVE TypeOK'
  BY <1>13, JobInRange DEF RecordFailed, Settle, TypeOK, executionVars, ClaimStates
<1>14. ASSUME NEW w \in Workers, FailureRefused(w) PROVE TypeOK'
  BY <1>14 DEF FailureRefused, TypeOK, executionVars, claimVars, Submitting
<1>15. ASSUME NEW w \in Workers, Crash(w) PROVE TypeOK'
  BY <1>15 DEF Crash, TypeOK, executionVars, claimVars
<1>16. ASSUME NEW c \in Claims, LapseLease(c) PROVE TypeOK'
  BY <1>16 DEF LapseLease, TypeOK, executionVars
<1>17. ASSUME NEW c \in Claims, NEW n \in Sends, TargetActs(c, n) PROVE TypeOK'
  BY <1>17 DEF TargetActs, TypeOK, executionVars, claimVars
<1>18. ASSUME NEW j \in jobs, Checkpoint(j) PROVE TypeOK'
  BY <1>18 DEF Checkpoint, TypeOK, Turns, claimVars
<1>19. ASSUME LoseHotState PROVE TypeOK'
  BY <1>19 DEF LoseHotState, Lost, TypeOK, executionVars, claimVars
<1>20. ASSUME EndExecution PROVE TypeOK'
  BY <1>20 DEF EndExecution, TypeOK, claimVars
<1>21. CASE UNCHANGED vars
  BY <1>21 DEF vars, TypeOK, executionVars, claimVars
<1>. QED
  BY <1>1, <1>2, <1>3, <1>4, <1>5, <1>6, <1>7, <1>8, <1>9, <1>10, <1>11, <1>12, <1>13,
     <1>14, <1>15, <1>16, <1>17, <1>18, <1>19, <1>20, <1>21 DEF Next, WorkerStep

\* The rows keep the CHECK constraints of node_execution_claims and
\* workflow_executions, a CLAIMED row its holder and its lease.
THEOREM TypeCorrect == Spec => []TypeOK
  BY TypeInit, TypeStep, PTL DEF Spec

(***************************************************************************)
(* The claim of a side effect                                              *)
(***************************************************************************)

\* The last conjunct of NodeInv: the lock of a claim keeps what it read true.
ReadsAreCurrent ==
  \A w \in Workers : pc[w] = "claiming" => status = "ACTIVE" /\ turn[w] = checkpoint_seq + 1

WorkersInStep == \A w \in Workers : WorkerInStep(w)

\* A new execution has nothing claimed, invoked or known.
LEMMA NodeInit == Init => NodeInv
  BY NodeAssumption
  DEF Init, NodeInv, EffectsFollowClaim, WorkerInStep, KnowledgeIsReal, HistoryIsReal,
      Submitting, Lost, Sends

\* A step that writes no claim and invokes nothing leaves the rows true.
LEMMA RowsUntouched ==
  ASSUME EffectsFollowClaim, UNCHANGED <<claim_state, effect>>
  PROVE  EffectsFollowClaim'
  BY DEF EffectsFollowClaim

\* Nor does it disturb a worker whose position it leaves alone.
LEMMA WorkerUntouched ==
  ASSUME NEW w \in Workers, WorkerInStep(w),
         UNCHANGED <<claim_state, claimed_by, effect>>,
         pc'[w] = pc[w], turn'[w] = turn[w], node'[w] = node[w], sent'[w] = sent[w]
  PROVE  WorkerInStep(w)'
  BY DEF WorkerInStep, HoldsClaim, Job

\* A worker outside the submission has no obligations.
LEMMA WorkerOutside ==
  ASSUME NEW w \in Workers, pc'[w] \notin Submitting
  PROVE  WorkerInStep(w)'
  BY DEF WorkerInStep, Submitting

\* Steps that change neither claims nor effects: the rows stay true, what was
\* recorded stays recorded, and only the moving worker is to be looked at.
LEMMA QuietStep ==
  ASSUME NodeInv, UNCHANGED <<claimVars, effect, turn, node, sent>>, NEW w \in Workers,
         \A u \in Workers \ {w} : pc'[u] = pc[u],
         pc'[w] \notin Submitting
  PROVE  EffectsFollowClaim' /\ WorkersInStep'
<1>1. EffectsFollowClaim'
  BY RowsUntouched DEF NodeInv, claimVars
<1>2. ASSUME NEW u \in Workers PROVE WorkerInStep(u)'
  <2>1. CASE u = w
    BY <2>1, WorkerOutside
  <2>2. CASE u # w
    BY <2>2, WorkerUntouched DEF NodeInv, claimVars
  <2>. QED
    BY <2>1, <2>2
<1>. QED
  BY <1>1, <1>2 DEF WorkersInStep

\* A worker that writes its own row leaves the workers at other rows alone,
\* and no other worker is submitting at this one.
LEMMA OthersUntouched ==
  ASSUME TypeOK, NodeInv, NEW w \in Workers, NEW u \in Workers \ {w},
         Job(u) # Job(w) \/ pc[u] \notin Submitting,
         pc'[u] = pc[u], UNCHANGED <<turn, node>>, sent'[u] = sent[u],
         \A c \in Claims \ {Job(w)} :
           /\ claim_state'[c] = claim_state[c]
           /\ claimed_by'[c] = claimed_by[c]
           /\ effect'[c] = effect[c]
  PROVE  WorkerInStep(u)'
<1>1. Job(u) \in Claims /\ Job(w) \in Claims
  BY JobInRange
<1>2. Job(u)' = Job(u)
  BY DEF Job
<1>3. CASE pc[u] \notin Submitting
  BY <1>3, WorkerOutside
<1>4. CASE pc[u] \in Submitting
  <2>1. WorkerInStep(u)
    BY DEF NodeInv
  <2>2. /\ claim_state'[Job(u)] = claim_state[Job(u)]
        /\ claimed_by'[Job(u)] = claimed_by[Job(u)]
        /\ effect'[Job(u)] = effect[Job(u)]
    BY <1>1, <1>4
  <2>. QED
    BY <1>2, <2>1, <2>2 DEF WorkerInStep, HoldsClaim
<1>. QED
  BY <1>3, <1>4

\* Recorded successes stay, so what is stored or known of them stays true.
LEMMA HistoryKept ==
  ASSUME HistoryIsReal, UNCHANGED <<history, hot, jobs>>,
         \A c \in Claims : claim_state[c] = "SUCCEEDED" => claim_state'[c] = "SUCCEEDED",
         TypeOK
  PROVE  HistoryIsReal'
  BY DEF HistoryIsReal, TypeOK

\* What a worker has been told stays true, for a recorded success is final.
LEMMA KnowledgeKept ==
  ASSUME KnowledgeIsReal, UNCHANGED known, TypeOK,
         \A c \in Claims : claim_state[c] = "SUCCEEDED" => claim_state'[c] = "SUCCEEDED",
         \A w \in Workers : pc[w] = "idle" => pc'[w] = "idle"
  PROVE  KnowledgeIsReal'
  BY DEF KnowledgeIsReal, TypeOK

\* What a claim has read stays current while nothing moves the execution.
LEMMA ReadsKept ==
  ASSUME ReadsAreCurrent, UNCHANGED <<status, checkpoint_seq, turn>>,
         \A w \in Workers : pc'[w] = "claiming" => pc[w] = "claiming"
  PROVE  ReadsAreCurrent'
  BY DEF ReadsAreCurrent

\* No step of a worker, the runtime, the queue or the target breaks NodeInv.
LEMMA NodeStep == TypeOK /\ NodeInv /\ [Next]_vars => NodeInv'
<1>. SUFFICES ASSUME TypeOK, NodeInv, [Next]_vars PROVE NodeInv'
  OBVIOUS
<1>0. /\ EffectsFollowClaim /\ WorkersInStep /\ KnowledgeIsReal /\ HistoryIsReal
      /\ ReadsAreCurrent
  BY DEF NodeInv, WorkersInStep, ReadsAreCurrent
<1>. SUFFICES /\ EffectsFollowClaim' /\ WorkersInStep' /\ KnowledgeIsReal' /\ HistoryIsReal'
              /\ ReadsAreCurrent'
  BY DEF NodeInv, WorkersInStep, ReadsAreCurrent
<1>. DEFINE Goal == /\ EffectsFollowClaim' /\ WorkersInStep' /\ KnowledgeIsReal'
                    /\ HistoryIsReal' /\ ReadsAreCurrent'
<1>1. ASSUME NEW w \in Workers, StartTurn(w) PROVE Goal
  <2>1. EffectsFollowClaim'
    BY <1>0, <1>1, RowsUntouched DEF StartTurn, claimVars
  <2>2. ASSUME NEW u \in Workers PROVE WorkerInStep(u)'
    <3>1. CASE u = w
      BY <1>1, <3>1, WorkerOutside DEF StartTurn, TypeOK, Submitting
    <3>2. CASE u # w
      BY <1>0, <1>1, <3>2, WorkerUntouched DEF StartTurn, TypeOK, claimVars, WorkersInStep
    <3>. QED
      BY <3>1, <3>2
  <2>3. \A c \in known'[w] : claim_state[c] = "SUCCEEDED"
    BY <1>0, <1>1 DEF StartTurn, TypeOK, HistoryIsReal
  <2>4. KnowledgeIsReal'
    BY <1>0, <1>1, <2>3 DEF StartTurn, TypeOK, KnowledgeIsReal, claimVars
  <2>5. HistoryIsReal'
    BY <1>0, <1>1, HistoryKept DEF StartTurn, executionVars, claimVars
  <2>6. ReadsAreCurrent'
    BY <1>0, <1>1 DEF StartTurn, TypeOK, ReadsAreCurrent, executionVars
  <2>. QED
    BY <2>1, <2>2, <2>4, <2>5, <2>6 DEF WorkersInStep
<1>2. ASSUME NEW w \in Workers, FinishTurn(w) PROVE Goal
  <2>1. EffectsFollowClaim' /\ WorkersInStep'
    BY <1>2, QuietStep DEF FinishTurn, TypeOK, Submitting
  <2>2. \A c \in known[w] : claim_state[c] = "SUCCEEDED"
    BY <1>0, <1>2 DEF FinishTurn, KnowledgeIsReal
  <2>3. hot'.known \subseteq known[w]
    BY <1>2 DEF FinishTurn, Lost
  <2>4. jobs' = jobs \cup {[seq |-> turn[w], history |-> known[w]]}
    BY <1>2 DEF FinishTurn
  <2>5. \A c \in UNION {j.history : j \in jobs'} :
           c \in known[w] \/ c \in UNION {j.history : j \in jobs}
    BY <2>4
  <2>6. HistoryIsReal'
    BY <1>0, <1>2, <2>2, <2>3, <2>5 DEF FinishTurn, HistoryIsReal, executionVars, claimVars
  <2>7. KnowledgeIsReal'
    BY <1>0, <1>2 DEF FinishTurn, TypeOK, KnowledgeIsReal, claimVars
  <2>8. ReadsAreCurrent'
    BY <1>0, <1>2, ReadsKept DEF FinishTurn, TypeOK, executionVars
  <2>. QED
    BY <2>1, <2>6, <2>7, <2>8
<1>3. ASSUME NEW w \in Workers, NEW n \in Nodes, ReadExecution(w, n) PROVE Goal
  <2>1. EffectsFollowClaim'
    BY <1>0, <1>3, RowsUntouched DEF ReadExecution, claimVars
  <2>2. ASSUME NEW u \in Workers PROVE WorkerInStep(u)'
    <3>1. CASE u = w
      BY <1>3, <3>1, WorkerOutside DEF ReadExecution, TypeOK, Submitting
    <3>2. CASE u # w
      BY <1>0, <1>3, <3>2, WorkerUntouched
      DEF ReadExecution, TypeOK, claimVars, WorkersInStep
    <3>. QED
      BY <3>1, <3>2
  <2>3. KnowledgeIsReal' /\ HistoryIsReal'
    BY <1>0, <1>3, KnowledgeKept, HistoryKept
    DEF ReadExecution, TypeOK, claimVars, executionVars
  <2>4. ReadsAreCurrent'
    BY <1>0, <1>3 DEF ReadExecution, TypeOK, ReadsAreCurrent, ClaimAllowed, executionVars
  <2>. QED
    BY <2>1, <2>2, <2>3, <2>4 DEF WorkersInStep
<1>4. ASSUME NEW w \in Workers, Claim(w) PROVE Goal
  <2>. DEFINE c == Job(w)
  <2>1. c \in Claims /\ claim_state[c] \in {"NONE", "CLAIMED", "FAILED"}
    BY <1>4, JobInRange DEF Claim, Claimable
  <2>2. \A u \in Workers \ {w} : Job(u) # c \/ pc[u] \notin Submitting
    BY <1>0, <2>1 DEF WorkersInStep, WorkerInStep, HoldsClaim
  <2>3. \A d \in Claims : claim_state'[d] = IF d = c THEN "CLAIMED" ELSE claim_state[d]
    BY <1>4, <2>1 DEF Claim, TypeOK
  <2>4. EffectsFollowClaim'
    BY <1>0, <1>4, <2>1, <2>3 DEF Claim, EffectsFollowClaim
  <2>5. WorkersInStep'
    <3>1. WorkerInStep(w)'
      BY <1>4, WorkerOutside DEF Claim, TypeOK, Submitting
    <3>2. ASSUME NEW u \in Workers \ {w} PROVE WorkerInStep(u)'
      BY <1>4, <2>2, OthersUntouched DEF Claim, Leased, TypeOK
    <3>. QED
      BY <3>1, <3>2 DEF WorkersInStep
  <2>6. \A d \in Claims : claim_state[d] = "SUCCEEDED" => claim_state'[d] = "SUCCEEDED"
    BY <2>1, <2>3
  <2>7. KnowledgeIsReal' /\ HistoryIsReal'
    BY <1>0, <1>4, <2>6, KnowledgeKept, HistoryKept DEF Claim, TypeOK, executionVars
  <2>8. ReadsAreCurrent'
    BY <1>0, <1>4, ReadsKept DEF Claim, TypeOK, executionVars
  <2>. QED
    BY <2>4, <2>5, <2>7, <2>8
<1>5. ASSUME NEW w \in Workers, ClaimRefused(w) PROVE Goal
  <2>1. EffectsFollowClaim' /\ WorkersInStep'
    BY <1>5, QuietStep DEF ClaimRefused, TypeOK, Submitting
  <2>2. \A d \in Learned(Job(w)) : claim_state[d] = "SUCCEEDED"
    BY DEF Learned
  <2>3. \A u \in Workers : \A d \in known'[u] : pc'[u] # "idle" => claim_state[d] = "SUCCEEDED"
    BY <1>0, <1>5, <2>2 DEF ClaimRefused, TypeOK, KnowledgeIsReal
  <2>4. KnowledgeIsReal'
    BY <1>5, <2>3 DEF ClaimRefused, KnowledgeIsReal, claimVars
  <2>5. HistoryIsReal'
    BY <1>0, <1>5, HistoryKept DEF ClaimRefused, executionVars, claimVars
  <2>6. ReadsAreCurrent'
    BY <1>0, <1>5, ReadsKept DEF ClaimRefused, TypeOK, executionVars
  <2>. QED
    BY <2>1, <2>4, <2>5, <2>6
<1>6. ASSUME NEW w \in Workers, BeginSucceeds(w) PROVE Goal
  <2>. DEFINE c == Job(w)
  <2>1. c \in Claims /\ claim_state[c] = "CLAIMED" /\ claimed_by[c] = w
    BY <1>6, JobInRange DEF BeginSucceeds, HoldsClaim
  <2>2. \A u \in Workers \ {w} : Job(u) # c \/ pc[u] \notin Submitting
    BY <1>0, <2>1 DEF WorkersInStep, WorkerInStep, HoldsClaim
  <2>3. \A d \in Claims : claim_state'[d] = IF d = c THEN "SUBMITTING" ELSE claim_state[d]
    BY <1>6, <2>1 DEF BeginSucceeds, TypeOK
  <2>4. EffectsFollowClaim'
    BY <1>0, <1>6, <2>1, <2>3 DEF BeginSucceeds, EffectsFollowClaim
  <2>5. WorkerInStep(w)'
    <3>1. Job(w)' = c /\ pc'[w] = "begun"
      BY <1>6 DEF BeginSucceeds, Job, TypeOK
    <3>2. claim_state'[c] = "SUBMITTING" /\ claimed_by'[c] = w /\ effect'[c][1] = "none"
      BY <1>0, <1>6, <2>1, <2>3 DEF BeginSucceeds, EffectsFollowClaim
    <3>. QED
      BY <3>1, <3>2 DEF WorkerInStep, HoldsClaim
  <2>6. ASSUME NEW u \in Workers \ {w} PROVE WorkerInStep(u)'
    BY <1>6, <2>2, OthersUntouched DEF BeginSucceeds, TypeOK
  <2>7. \A d \in Claims : claim_state[d] = "SUCCEEDED" => claim_state'[d] = "SUCCEEDED"
    BY <2>1, <2>3
  <2>8. KnowledgeIsReal' /\ HistoryIsReal'
    BY <1>0, <1>6, <2>7, KnowledgeKept, HistoryKept DEF BeginSucceeds, TypeOK, executionVars
  <2>9. ReadsAreCurrent'
    BY <1>0, <1>6, ReadsKept DEF BeginSucceeds, TypeOK, executionVars
  <2>. QED
    BY <2>4, <2>5, <2>6, <2>8, <2>9 DEF WorkersInStep
<1>7. ASSUME NEW w \in Workers, BeginRefused(w) PROVE Goal
  <2>1. EffectsFollowClaim' /\ WorkersInStep'
    BY <1>7, QuietStep DEF BeginRefused, TypeOK, Submitting
  <2>2. KnowledgeIsReal' /\ HistoryIsReal' /\ ReadsAreCurrent'
    BY <1>0, <1>7, KnowledgeKept, HistoryKept, ReadsKept
    DEF BeginRefused, TypeOK, claimVars, executionVars
  <2>. QED
    BY <2>1, <2>2
<1>8. ASSUME NEW w \in Workers, NEW n \in Sends, Invoke(w, n) PROVE Goal
  <2>. DEFINE c == Job(w)
  <2>1. /\ c \in Claims /\ claim_state[c] = "SUBMITTING" /\ claimed_by[c] = w
        /\ effect[c][1] = "none"
    BY <1>0, <1>8, JobInRange
    DEF Invoke, WorkersInStep, WorkerInStep, HoldsClaim, Submitting
  <2>2. \A u \in Workers \ {w} : Job(u) # c \/ pc[u] \notin Submitting
    BY <1>0, <2>1 DEF WorkersInStep, WorkerInStep, HoldsClaim
  <2>3. n = 1
    <3>1. n # 1 => 1 \in 1..(n - 1)
      BY NodeAssumption DEF Sends
    <3>. QED
      BY <1>8, <2>1, <3>1 DEF Invoke
  <2>4. \A d \in Claims : d # c => effect'[d] = effect[d]
    BY <1>8, <2>1 DEF Invoke, TypeOK
  <2>5. \A m \in Sends : effect'[c][m] = IF m = 1 THEN "sent" ELSE effect[c][m]
    BY <1>8, <2>1, <2>3 DEF Invoke, TypeOK
  <2>6. 1 \in Sends
    BY <2>3
  <2>7. EffectsFollowClaim'
    BY <1>0, <1>8, <2>1, <2>4, <2>5, <2>6 DEF Invoke, EffectsFollowClaim, claimVars
  <2>8. WorkerInStep(w)'
    <3>1. Job(w)' = c /\ pc'[w] = "sent" /\ sent'[w] = 1
      BY <1>8, <2>3 DEF Invoke, Job, TypeOK
    <3>. QED
      BY <1>8, <2>1, <3>1 DEF Invoke, WorkerInStep, HoldsClaim, claimVars
  <2>9. ASSUME NEW u \in Workers \ {w} PROVE WorkerInStep(u)'
    BY <1>8, <2>2, <2>4, OthersUntouched DEF Invoke, TypeOK, claimVars
  <2>10. KnowledgeIsReal' /\ HistoryIsReal' /\ ReadsAreCurrent'
    BY <1>0, <1>8, KnowledgeKept, HistoryKept, ReadsKept
    DEF Invoke, TypeOK, claimVars, executionVars
  <2>. QED
    BY <2>7, <2>8, <2>9, <2>10 DEF WorkersInStep
<1>9. ASSUME NEW w \in Workers, Answered(w) PROVE Goal
  <2>1. EffectsFollowClaim'
    BY <1>0, <1>9, RowsUntouched DEF Answered, claimVars
  <2>2. WorkerInStep(w)'
    <3>1. /\ WorkerInStep(w) /\ pc[w] = "sent" /\ Job(w)' = Job(w) /\ sent[w] = 1
          /\ pc'[w] = effect[Job(w)][1]
      BY <1>0, <1>9 DEF Answered, WorkersInStep, WorkerInStep, Submitting, Job, TypeOK
    <3>2. HoldsClaim(w, "SUBMITTING")' /\ effect' = effect /\ sent' = sent
      BY <1>9, <3>1 DEF Answered, WorkerInStep, HoldsClaim, Submitting, claimVars
    <3>3. pc'[w] \in {"done", "rejected"}
      BY <1>9, <3>1 DEF Answered
    <3>. QED
      BY <3>1, <3>2, <3>3 DEF WorkerInStep
  <2>3. ASSUME NEW u \in Workers \ {w} PROVE WorkerInStep(u)'
    BY <1>0, <1>9, WorkerUntouched DEF Answered, TypeOK, claimVars, WorkersInStep
  <2>4. \A u \in Workers : pc'[u] \in {"claiming", "idle"} => pc[u] = pc'[u]
    BY <1>9 DEF Answered, TypeOK
  <2>5. KnowledgeIsReal' /\ HistoryIsReal' /\ ReadsAreCurrent'
    BY <1>0, <1>9, <2>4, KnowledgeKept, HistoryKept, ReadsKept
    DEF Answered, TypeOK, claimVars, executionVars
  <2>. QED
    BY <2>1, <2>2, <2>3, <2>5 DEF WorkersInStep
<1>10. ASSUME NEW w \in Workers, AnswerLost(w) PROVE Goal
  <2>1. EffectsFollowClaim'
    BY <1>0, <1>10, RowsUntouched DEF AnswerLost, claimVars
  <2>2. WorkerInStep(w)'
    BY <1>0, <1>10
    DEF AnswerLost, TypeOK, WorkersInStep, WorkerInStep, HoldsClaim, Submitting, Job, claimVars
  <2>3. ASSUME NEW u \in Workers \ {w} PROVE WorkerInStep(u)'
    BY <1>0, <1>10, WorkerUntouched DEF AnswerLost, TypeOK, claimVars, WorkersInStep
  <2>4. KnowledgeIsReal' /\ HistoryIsReal' /\ ReadsAreCurrent'
    BY <1>0, <1>10, KnowledgeKept, HistoryKept, ReadsKept
    DEF AnswerLost, TypeOK, claimVars, executionVars
  <2>. QED
    BY <2>1, <2>2, <2>3, <2>4 DEF WorkersInStep
<1>11. ASSUME NEW w \in Workers, RecordSucceeded(w) PROVE Goal
  <2>. DEFINE c == Job(w)
  <2>1. c \in Claims /\ claim_state[c] = "SUBMITTING" /\ claimed_by[c] = w /\ effect[c][1] = "done"
    BY <1>0, <1>11, JobInRange
    DEF RecordSucceeded, WorkersInStep, WorkerInStep, HoldsClaim, Submitting
  <2>2. \A u \in Workers \ {w} : Job(u) # c \/ pc[u] \notin Submitting
    BY <1>0, <2>1 DEF WorkersInStep, WorkerInStep, HoldsClaim
  <2>3. \A d \in Claims : claim_state'[d] = IF d = c THEN "SUCCEEDED" ELSE claim_state[d]
    BY <1>11, <2>1 DEF RecordSucceeded, Settle, HoldsClaim, TypeOK
  <2>4. EffectsFollowClaim'
    BY <1>0, <1>11, <2>1, <2>3 DEF RecordSucceeded, EffectsFollowClaim
  <2>5. WorkerInStep(w)'
    BY <1>11, WorkerOutside DEF RecordSucceeded, TypeOK, Submitting
  <2>6. ASSUME NEW u \in Workers \ {w} PROVE WorkerInStep(u)'
    BY <1>11, <2>2, OthersUntouched DEF RecordSucceeded, Settle, claimVars, TypeOK
  <2>7. \A d \in Claims : claim_state[d] = "SUCCEEDED" => claim_state'[d] = "SUCCEEDED"
    BY <2>1, <2>3
  <2>8. KnowledgeIsReal'
    <3>1. known' = [known EXCEPT ![w] = @ \cup {c}] /\ pc' = [pc EXCEPT ![w] = "turn"]
      BY <1>11 DEF RecordSucceeded
    <3>2. ASSUME NEW u \in Workers, pc'[u] # "idle", NEW d \in known'[u]
          PROVE claim_state'[d] = "SUCCEEDED"
      <4>1. pc[u] # "idle" /\ d \in known[u] \cup {c} /\ d \in Claims /\ (u # w => d \in known[u])
        BY <1>11, <2>1, <3>1, <3>2 DEF TypeOK, RecordSucceeded
      <4>2. CASE d = c
        BY <2>1, <2>3, <4>2
      <4>3. CASE d \in known[u]
        BY <1>0, <2>7, <4>1, <4>3 DEF KnowledgeIsReal
      <4>. QED
        BY <4>1, <4>2, <4>3
    <3>. QED
      BY <3>2 DEF KnowledgeIsReal
  <2>9. HistoryIsReal'
    BY <1>0, <1>11, <2>7, HistoryKept DEF RecordSucceeded, executionVars
  <2>10. ReadsAreCurrent'
    BY <1>0, <1>11, ReadsKept DEF RecordSucceeded, TypeOK, executionVars
  <2>. QED
    BY <2>4, <2>5, <2>6, <2>8, <2>9, <2>10 DEF WorkersInStep
<1>12. ASSUME NEW w \in Workers, RecordAmbiguous(w) PROVE Goal
  <2>. DEFINE c == Job(w)
  <2>1. c \in Claims /\ claim_state[c] = "SUBMITTING" /\ claimed_by[c] = w
    BY <1>0, <1>12, JobInRange
    DEF RecordAmbiguous, WorkersInStep, WorkerInStep, HoldsClaim, Submitting
  <2>2. \A u \in Workers \ {w} : Job(u) # c \/ pc[u] \notin Submitting
    BY <1>0, <2>1 DEF WorkersInStep, WorkerInStep, HoldsClaim
  <2>3. \A d \in Claims : claim_state'[d] = IF d = c THEN "AMBIGUOUS" ELSE claim_state[d]
    BY <1>12, <2>1 DEF RecordAmbiguous, Settle, HoldsClaim, TypeOK
  <2>4. EffectsFollowClaim'
    BY <1>0, <1>12, <2>1, <2>3 DEF RecordAmbiguous, EffectsFollowClaim
  <2>5. WorkerInStep(w)'
    BY <1>12, WorkerOutside DEF RecordAmbiguous, TypeOK, Submitting
  <2>6. ASSUME NEW u \in Workers \ {w} PROVE WorkerInStep(u)'
    BY <1>12, <2>2, OthersUntouched DEF RecordAmbiguous, Settle, claimVars, TypeOK
  <2>7. \A d \in Claims : claim_state[d] = "SUCCEEDED" => claim_state'[d] = "SUCCEEDED"
    BY <2>1, <2>3
  <2>8. KnowledgeIsReal' /\ HistoryIsReal' /\ ReadsAreCurrent'
    BY <1>0, <1>12, <2>7, KnowledgeKept, HistoryKept, ReadsKept
    DEF RecordAmbiguous, TypeOK, executionVars
  <2>. QED
    BY <2>4, <2>5, <2>6, <2>8 DEF WorkersInStep
<1>13. ASSUME NEW w \in Workers, RecordFailed(w) PROVE Goal
  <2>. DEFINE c == Job(w)
  <2>1. c \in Claims /\ claim_state[c] = "CLAIMED"
    BY <1>13, JobInRange DEF RecordFailed, Failable, HoldsClaim
  <2>2. \A u \in Workers \ {w} : Job(u) # c \/ pc[u] \notin Submitting
    BY <1>0, <2>1 DEF WorkersInStep, WorkerInStep, HoldsClaim
  <2>3. \A d \in Claims : claim_state'[d] = IF d = c THEN "FAILED" ELSE claim_state[d]
    BY <1>13, <2>1 DEF RecordFailed, Settle, TypeOK
  <2>4. EffectsFollowClaim'
    BY <1>0, <1>13, <2>1, <2>3 DEF RecordFailed, EffectsFollowClaim
  <2>5. WorkerInStep(w)'
    BY <1>13, WorkerOutside DEF RecordFailed, TypeOK, Submitting
  <2>6. ASSUME NEW u \in Workers \ {w} PROVE WorkerInStep(u)'
    BY <1>13, <2>2, OthersUntouched DEF RecordFailed, Settle, TypeOK
  <2>7. \A d \in Claims : claim_state[d] = "SUCCEEDED" => claim_state'[d] = "SUCCEEDED"
    BY <2>1, <2>3
  <2>8. KnowledgeIsReal' /\ HistoryIsReal' /\ ReadsAreCurrent'
    BY <1>0, <1>13, <2>7, KnowledgeKept, HistoryKept, ReadsKept
    DEF RecordFailed, TypeOK, executionVars
  <2>. QED
    BY <2>4, <2>5, <2>6, <2>8 DEF WorkersInStep
<1>14. ASSUME NEW w \in Workers, FailureRefused(w) PROVE Goal
  <2>1. EffectsFollowClaim'
    BY <1>0, <1>14, RowsUntouched DEF FailureRefused, claimVars
  <2>2. WorkerInStep(w)'
    <3>1. CASE pc[w] = "rejected"
      BY <1>0, <1>14, <3>1
      DEF FailureRefused, TypeOK, WorkersInStep, WorkerInStep, HoldsClaim, Submitting, Job,
          claimVars
    <3>2. CASE pc[w] # "rejected"
      BY <1>14, <3>2, WorkerOutside DEF FailureRefused, TypeOK, Submitting
    <3>. QED
      BY <3>1, <3>2
  <2>3. ASSUME NEW u \in Workers \ {w} PROVE WorkerInStep(u)'
    BY <1>0, <1>14, WorkerUntouched DEF FailureRefused, TypeOK, claimVars, WorkersInStep
  <2>4. KnowledgeIsReal' /\ HistoryIsReal' /\ ReadsAreCurrent'
    BY <1>0, <1>14, KnowledgeKept, HistoryKept, ReadsKept
    DEF FailureRefused, TypeOK, claimVars, executionVars
  <2>. QED
    BY <2>1, <2>2, <2>3, <2>4 DEF WorkersInStep
<1>15. ASSUME NEW w \in Workers, Crash(w) PROVE Goal
  <2>1. EffectsFollowClaim' /\ WorkersInStep'
    BY <1>15, QuietStep DEF Crash, TypeOK, Submitting
  <2>2. KnowledgeIsReal' /\ HistoryIsReal' /\ ReadsAreCurrent'
    BY <1>0, <1>15, KnowledgeKept, HistoryKept, ReadsKept
    DEF Crash, TypeOK, claimVars, executionVars
  <2>. QED
    BY <2>1, <2>2
<1>16. ASSUME NEW c \in Claims, LapseLease(c) PROVE Goal
  <2>1. EffectsFollowClaim'
    BY <1>0, <1>16, RowsUntouched DEF LapseLease
  <2>2. ASSUME NEW u \in Workers PROVE WorkerInStep(u)'
    BY <1>0, <1>16, WorkerUntouched DEF LapseLease, WorkersInStep
  <2>3. KnowledgeIsReal' /\ HistoryIsReal' /\ ReadsAreCurrent'
    BY <1>0, <1>16, KnowledgeKept, HistoryKept, ReadsKept DEF LapseLease, executionVars
  <2>. QED
    BY <2>1, <2>2, <2>3 DEF WorkersInStep
<1>17. ASSUME NEW c \in Claims, NEW n \in Sends, TargetActs(c, n) PROVE Goal
  <2>1. n = 1 /\ effect[c][1] = "sent"
    BY <1>0, <1>17 DEF TargetActs, EffectsFollowClaim
  <2>2. /\ \A d \in Claims : d # c => effect'[d] = effect[d]
        /\ \A m \in Sends : m # 1 => effect'[c][m] = effect[c][m]
        /\ effect'[c][1] # "sent"
    BY <1>17, <2>1 DEF TargetActs, TypeOK
  <2>3. claim_state[c] \notin {"NONE", "CLAIMED", "FAILED", "SUCCEEDED"}
    BY <1>0, <2>1 DEF EffectsFollowClaim
  <2>4. EffectsFollowClaim'
    BY <1>0, <1>17, <2>2, <2>3 DEF TargetActs, EffectsFollowClaim, claimVars
  <2>5. ASSUME NEW u \in Workers PROVE WorkerInStep(u)'
    <3>1. WorkerInStep(u) /\ Job(u) \in Claims
      BY <1>0, JobInRange DEF WorkersInStep
    <3>2. Job(u)' = Job(u)
      BY <1>17 DEF TargetActs, Job
    <3>3. Job(u) = c => pc[u] \notin {"begun", "done"}
      BY <2>1, <3>1 DEF WorkerInStep, Submitting
    <3>. QED
      BY <1>17, <2>2, <3>1, <3>2, <3>3
      DEF TargetActs, WorkerInStep, HoldsClaim, claimVars
  <2>6. KnowledgeIsReal' /\ HistoryIsReal' /\ ReadsAreCurrent'
    BY <1>0, <1>17, KnowledgeKept, HistoryKept, ReadsKept
    DEF TargetActs, claimVars, executionVars
  <2>. QED
    BY <2>4, <2>5, <2>6 DEF WorkersInStep
<1>18. ASSUME NEW j \in jobs, Checkpoint(j) PROVE Goal
  <2>1. EffectsFollowClaim'
    BY <1>0, <1>18, RowsUntouched DEF Checkpoint, claimVars
  <2>2. ASSUME NEW u \in Workers PROVE WorkerInStep(u)'
    BY <1>0, <1>18, WorkerUntouched DEF Checkpoint, claimVars, WorkersInStep
  <2>3. \A c \in j.history : claim_state[c] = "SUCCEEDED"
    BY <1>0 DEF HistoryIsReal
  <2>4. HistoryIsReal'
    BY <1>0, <1>18, <2>3 DEF Checkpoint, HistoryIsReal, claimVars
  <2>5. KnowledgeIsReal'
    BY <1>0, <1>18, KnowledgeKept DEF Checkpoint, claimVars
  <2>6. ReadsAreCurrent'
    BY <1>18 DEF Checkpoint, RowFree, ReadsAreCurrent
  <2>. QED
    BY <2>1, <2>2, <2>4, <2>5, <2>6 DEF WorkersInStep
<1>19. ASSUME LoseHotState PROVE Goal
  <2>1. EffectsFollowClaim'
    BY <1>0, <1>19, RowsUntouched DEF LoseHotState, claimVars
  <2>2. ASSUME NEW u \in Workers PROVE WorkerInStep(u)'
    BY <1>0, <1>19, WorkerUntouched DEF LoseHotState, claimVars, WorkersInStep
  <2>3. hot'.known = {}
    BY <1>19 DEF LoseHotState, Lost
  <2>4. HistoryIsReal'
    BY <1>0, <1>19, <2>3 DEF LoseHotState, HistoryIsReal, claimVars, executionVars
  <2>5. KnowledgeIsReal' /\ ReadsAreCurrent'
    BY <1>0, <1>19, KnowledgeKept, ReadsKept DEF LoseHotState, claimVars, executionVars
  <2>. QED
    BY <2>1, <2>2, <2>4, <2>5 DEF WorkersInStep
<1>20. ASSUME EndExecution PROVE Goal
  <2>1. EffectsFollowClaim'
    BY <1>0, <1>20, RowsUntouched DEF EndExecution, claimVars
  <2>2. ASSUME NEW u \in Workers PROVE WorkerInStep(u)'
    BY <1>0, <1>20, WorkerUntouched DEF EndExecution, claimVars, WorkersInStep
  <2>3. KnowledgeIsReal' /\ HistoryIsReal'
    BY <1>0, <1>20, KnowledgeKept, HistoryKept DEF EndExecution, claimVars
  <2>4. ReadsAreCurrent'
    BY <1>20 DEF EndExecution, RowFree, ReadsAreCurrent
  <2>. QED
    BY <2>1, <2>2, <2>3, <2>4 DEF WorkersInStep
<1>21. ASSUME UNCHANGED vars PROVE Goal
  <2>1. EffectsFollowClaim'
    BY <1>0, <1>21, RowsUntouched DEF vars, claimVars
  <2>2. ASSUME NEW u \in Workers PROVE WorkerInStep(u)'
    BY <1>0, <1>21, WorkerUntouched DEF vars, claimVars, WorkersInStep
  <2>3. KnowledgeIsReal' /\ HistoryIsReal' /\ ReadsAreCurrent'
    BY <1>0, <1>21, KnowledgeKept, HistoryKept, ReadsKept DEF vars, claimVars, executionVars
  <2>. QED
    BY <2>1, <2>2, <2>3 DEF WorkersInStep
<1>. QED
  BY <1>1, <1>2, <1>3, <1>4, <1>5, <1>6, <1>7, <1>8, <1>9, <1>10, <1>11, <1>12, <1>13,
     <1>14, <1>15, <1>16, <1>17, <1>18, <1>19, <1>20, <1>21 DEF Next, WorkerStep

\* The inductive invariant of the side effects and the checkpoints.
THEOREM NodeInvariant == Spec => []Inductive
<1>1. Inductive /\ [Next]_vars => Inductive'
  BY TypeStep, NodeStep DEF Inductive
<1>. QED
  BY <1>1, TypeInit, NodeInit, PTL DEF Spec, Inductive

\* In a reachable state only the first invocation of a side effect exists, and
\* none while the claim can be taken again.
THEOREM AtMostOnce == Spec => []EffectAtMostOnce
<1>1. NodeInv => EffectAtMostOnce
  BY DEF NodeInv, EffectsFollowClaim, EffectAtMostOnce
<1>. QED
  BY <1>1, NodeInvariant, PTL DEF Inductive

\* The claim rows say what happened at the target.
THEOREM ClaimsAreTrue == Spec => []ClaimsTellTheTruth
<1>1. NodeInv => ClaimsTellTheTruth
  <2>. SUFFICES ASSUME NodeInv, NEW c \in Claims
                PROVE  /\ claim_state[c] \in {"NONE", "CLAIMED", "FAILED"} =>
                            /\ \A n \in Sends : effect[c][n] = "none"
                            /\ \A w \in Workers : Job(w) = c => pc[w] \notin Submitting
                       /\ claim_state[c] = "SUCCEEDED" => \E n \in Sends : effect[c][n] = "done"
    BY DEF ClaimsTellTheTruth
  <2>1. 1 \in Sends
    BY NodeAssumption DEF Sends
  <2>2. ASSUME claim_state[c] \in {"NONE", "CLAIMED", "FAILED"}, NEW w \in Workers, Job(w) = c
        PROVE  pc[w] \notin Submitting
    BY <2>2 DEF NodeInv, WorkerInStep, HoldsClaim
  <2>. QED
    BY <2>1, <2>2 DEF NodeInv, EffectsFollowClaim
<1>. QED
  BY <1>1, NodeInvariant, PTL DEF Inductive

\* Nothing stored, or still to be stored, claims a side effect that is not
\* recorded as done.
THEOREM HistoryIsTrue == Spec => []HistoryIsReal
<1>1. NodeInv => HistoryIsReal
  BY DEF NodeInv
<1>. QED
  BY <1>1, NodeInvariant, PTL DEF Inductive

(***************************************************************************)
(* What no step does                                                       *)
(***************************************************************************)

\* The lock of the execution spans the reading of it and the claim.
THEOREM ClaimsStayCurrent == Spec => ClaimsAreCurrent
<1>. DEFINE Current == \A w \in Workers :
              pc[w] = "claiming" /\ pc'[w] = "claimed" =>
                status = "ACTIVE" /\ turn[w] = checkpoint_seq + 1
<1>1. NodeInv => Current
  BY DEF NodeInv
<1>. QED
  BY <1>1, NodeInvariant, PTL DEF Inductive, ClaimsAreCurrent

\* What a step does to the row of the execution.
LEMMA ExecutionStep ==
  ASSUME TypeOK, [Next]_vars
  PROVE  /\ checkpoint_seq' >= checkpoint_seq
         /\ history' # history => checkpoint_seq' > checkpoint_seq
         /\ status # "ACTIVE" => UNCHANGED executionVars
<1>1. checkpoint_seq \in Int
  BY DEF TypeOK
<1>2. CASE \E j \in jobs : Checkpoint(j)
  <2>1. PICK j \in jobs : Checkpoint(j)
    BY <1>2
  <2>2. j.seq \in Int
    BY DEF TypeOK, Turns
  <2>. QED
    BY <1>1, <2>1, <2>2 DEF Checkpoint, CheckpointApplies
<1>3. CASE EndExecution
  BY <1>1, <1>3 DEF EndExecution
<1>4. CASE UNCHANGED executionVars
  BY <1>1, <1>4 DEF executionVars
<1>5. ASSUME NEW w \in Workers, WorkerStep(w) PROVE UNCHANGED executionVars
  BY <1>5 DEF WorkerStep, StartTurn, FinishTurn, ReadExecution, Claim, ClaimRefused,
     BeginSucceeds, BeginRefused, Invoke, Answered, AnswerLost, RecordSucceeded,
     RecordAmbiguous, RecordFailed, FailureRefused, Crash
<1>. QED
  BY <1>2, <1>3, <1>4, <1>5 DEF Next, LapseLease, TargetActs, LoseHotState, vars

\* Stored state is written once per turn, in order, and never after the end.
THEOREM CheckpointsAreOnce == Spec => CheckpointedOnce
  BY TypeCorrect, ExecutionStep, PTL DEF Spec, CheckpointedOnce

(***************************************************************************)
(* A side effect is carried out like a call of CallOnce                    *)
(***************************************************************************)

Outstanding == [c \in Claims |-> {n \in Sends : effect[c][n] = "sent"}]
Rang        == [c \in Claims |-> {n \in Sends : effect[c][n] = "done"}]
Used        == [c \in Claims |-> {n \in Sends : effect[c][n] # "none"}]
Confirmed   == {c \in Claims : claim_state[c] = "SUCCEEDED"}

\* A step that neither invokes nor records a success is a stutter.
LEMMA PromiseStutter ==
  ASSUME effect' = effect,
         \A c \in Claims : claim_state'[c] = "SUCCEEDED" <=> claim_state[c] = "SUCCEEDED"
  PROVE  UNCHANGED Promise!vars
<1>1. Outstanding' = Outstanding /\ Rang' = Rang /\ Used' = Used
  BY DEF Outstanding, Rang, Used
<1>2. Confirmed' = Confirmed
  BY DEF Confirmed
<1>. QED
  BY <1>1, <1>2 DEF Promise!vars, Outstanding, Rang, Used, Confirmed

\* The four steps of the promise, in terms of what a step does to one effect.
LEMMA EffectStep ==
  ASSUME NEW c \in Claims, NEW e, UNCHANGED claim_state,
         TypeOK, effect' = [effect EXCEPT ![c][1] = e], EffectsFollowClaim,
         \/ effect[c][1] = "none" /\ e = "sent"
         \/ effect[c][1] = "sent" /\ e \in {"done", "rejected"}
  PROVE  Promise!Next
<1>1. 1 \in Sends
  BY NodeAssumption DEF Sends
<1>2. /\ \A n \in Sends : n # 1 => effect[c][n] = "none"
      /\ \A n \in Sends : effect'[c][n] = IF n = 1 THEN e ELSE effect[c][n]
      /\ \A d \in Claims : d # c => effect'[d] = effect[d]
  BY <1>1 DEF TypeOK, EffectsFollowClaim
<1>3. Confirmed' = Confirmed
  BY DEF Confirmed
<1>10. \A d \in Claims : d # c =>
         Outstanding'[d] = Outstanding[d] /\ Rang'[d] = Rang[d] /\ Used'[d] = Used[d]
  BY <1>2 DEF Outstanding, Rang, Used
<1>4. ASSUME effect[c][1] = "none", e = "sent"
      PROVE  /\ Outstanding[c] = {} /\ Rang[c] = {} /\ 1 \notin Used[c]
             /\ Outstanding' = [Outstanding EXCEPT ![c] = {1}]
             /\ Rang' = Rang
             /\ Used' = [Used EXCEPT ![c] = @ \cup {1}]
  <2>1. Outstanding[c] = {} /\ Rang[c] = {} /\ 1 \notin Used[c]
    BY <1>1, <1>2, <1>4 DEF Outstanding, Rang, Used
  <2>2. Outstanding'[c] = {1}
    BY <1>1, <1>2, <1>4 DEF Outstanding
  <2>3. Rang'[c] = Rang[c]
    BY <1>1, <1>2, <1>4 DEF Rang
  <2>4. Used'[c] = Used[c] \cup {1}
    BY <1>1, <1>2, <1>4 DEF Used
  <2>5. Outstanding' = [Outstanding EXCEPT ![c] = {1}]
    BY <1>10, <2>2 DEF Outstanding
  <2>6. Rang' = Rang
    BY <1>10, <2>3 DEF Rang
  <2>7. Used' = [Used EXCEPT ![c] = @ \cup {1}]
    BY <1>10, <2>4 DEF Used
  <2>. QED
    BY <2>1, <2>5, <2>6, <2>7
<1>5. ASSUME effect[c][1] = "sent", e = "done"
      PROVE  /\ 1 \in Outstanding[c]
             /\ Outstanding' = [Outstanding EXCEPT ![c] = @ \ {1}]
             /\ Rang' = [Rang EXCEPT ![c] = @ \cup {1}]
             /\ Used' = Used
  <2>1. 1 \in Outstanding[c]
    BY <1>1, <1>2, <1>5 DEF Outstanding, Rang, Used
  <2>2. Outstanding'[c] = Outstanding[c] \ {1}
    BY <1>1, <1>2, <1>5 DEF Outstanding
  <2>3. Rang'[c] = Rang[c] \cup {1}
    BY <1>1, <1>2, <1>5 DEF Rang
  <2>4. Used'[c] = Used[c]
    BY <1>1, <1>2, <1>5 DEF Used
  <2>5. Outstanding' = [Outstanding EXCEPT ![c] = @ \ {1}]
    BY <1>10, <2>2 DEF Outstanding
  <2>6. Rang' = [Rang EXCEPT ![c] = @ \cup {1}]
    BY <1>10, <2>3 DEF Rang
  <2>7. Used' = Used
    BY <1>10, <2>4 DEF Used
  <2>. QED
    BY <2>1, <2>5, <2>6, <2>7
<1>6. ASSUME effect[c][1] = "sent", e = "rejected"
      PROVE  /\ 1 \in Outstanding[c]
             /\ Outstanding' = [Outstanding EXCEPT ![c] = @ \ {1}]
             /\ Rang' = Rang
             /\ Used' = Used
  <2>1. 1 \in Outstanding[c]
    BY <1>1, <1>2, <1>6 DEF Outstanding, Rang, Used
  <2>2. Outstanding'[c] = Outstanding[c] \ {1}
    BY <1>1, <1>2, <1>6 DEF Outstanding
  <2>3. Rang'[c] = Rang[c]
    BY <1>1, <1>2, <1>6 DEF Rang
  <2>4. Used'[c] = Used[c]
    BY <1>1, <1>2, <1>6 DEF Used
  <2>5. Outstanding' = [Outstanding EXCEPT ![c] = @ \ {1}]
    BY <1>10, <2>2 DEF Outstanding
  <2>6. Rang' = Rang
    BY <1>10, <2>3 DEF Rang
  <2>7. Used' = Used
    BY <1>10, <2>4 DEF Used
  <2>. QED
    BY <2>1, <2>5, <2>6, <2>7
<1>7. CASE effect[c][1] = "none" /\ e = "sent"
  <2>1. Promise!Dial(c, 1)
    BY <1>3, <1>4, <1>7 DEF Promise!Dial, Outstanding, Rang, Used, Confirmed
  <2>. QED
    BY <1>1, <2>1 DEF Promise!Next
<1>8. CASE effect[c][1] = "sent" /\ e = "done"
  <2>1. Promise!Ring(c, 1)
    BY <1>3, <1>5, <1>8 DEF Promise!Ring, Outstanding, Rang, Used, Confirmed
  <2>. QED
    BY <1>1, <2>1 DEF Promise!Next
<1>9. CASE effect[c][1] = "sent" /\ e = "rejected"
  <2>1. Promise!Decline(c, 1)
    BY <1>3, <1>6, <1>9 DEF Promise!Decline, Outstanding, Rang, Used, Confirmed
  <2>. QED
    BY <1>1, <2>1 DEF Promise!Next
<1>. QED
  BY <1>7, <1>8, <1>9

\* Every step is a step of the promise, or a stutter.
LEMMA PromiseStep == ASSUME TypeOK, NodeInv, [Next]_vars PROVE [Promise!Next]_(Promise!vars)
<1>0. EffectsFollowClaim /\ 1 \in Sends
  BY NodeAssumption DEF NodeInv, Sends
<1>1. ASSUME NEW w \in Workers, NEW n \in Sends, Invoke(w, n) PROVE Promise!Next
  <2>1. Job(w) \in Claims /\ effect[Job(w)][1] = "none"
    BY <1>1, JobInRange DEF Invoke, NodeInv, WorkerInStep, Submitting
  <2>2. n = 1
    <3>1. n # 1 => 1 \in 1..(n - 1)
      BY NodeAssumption DEF Sends
    <3>. QED
      BY <1>1, <2>1, <3>1 DEF Invoke
  <2>. QED
    BY <1>0, <1>1, <2>1, <2>2, EffectStep DEF Invoke, claimVars
<1>2. ASSUME NEW c \in Claims, NEW n \in Sends, TargetActs(c, n) PROVE Promise!Next
  <2>1. n = 1 /\ effect[c][1] = "sent"
    BY <1>0, <1>2 DEF TargetActs, EffectsFollowClaim
  <2>2. PICK e \in {"done", "rejected"} : effect' = [effect EXCEPT ![c][1] = e]
    BY <1>2, <2>1 DEF TargetActs
  <2>. QED
    BY <1>0, <1>2, <2>1, <2>2, EffectStep DEF TargetActs, claimVars
<1>3. ASSUME NEW w \in Workers, RecordSucceeded(w) PROVE Promise!Next
  <2>0. PICK c \in Claims : c = Job(w)
    BY JobInRange
  <2>1. claim_state[c] = "SUBMITTING" /\ claimed_by[c] = w /\ effect[c][1] = "done"
    BY <1>3, <2>0 DEF RecordSucceeded, NodeInv, WorkerInStep, HoldsClaim, Submitting
  <2>2. \A d \in Claims : claim_state'[d] = IF d = c THEN "SUCCEEDED" ELSE claim_state[d]
    BY <1>3, <2>0, <2>1 DEF RecordSucceeded, Settle, HoldsClaim, TypeOK
  <2>3. Confirmed' = Confirmed \cup {c}
    BY <2>1, <2>2 DEF Confirmed
  <2>4. Rang[c] # {}
    BY <1>0, <2>1 DEF Rang
  <2>5. Outstanding' = Outstanding /\ Rang' = Rang /\ Used' = Used
    BY <1>3 DEF RecordSucceeded, Outstanding, Rang, Used
  <2>6. Promise!Confirm(c)
    BY <2>3, <2>4, <2>5 DEF Promise!Confirm, Outstanding, Rang, Used, Confirmed
  <2>. QED
    BY <2>6 DEF Promise!Next
<1>4. ASSUME NEW w \in Workers, Claim(w) PROVE UNCHANGED Promise!vars
  <2>1. Job(w) \in Claims /\ claim_state[Job(w)] # "SUCCEEDED"
    BY <1>4, JobInRange DEF Claim, Claimable
  <2>. QED
    BY <1>4, <2>1, PromiseStutter DEF Claim, TypeOK
<1>5. ASSUME NEW w \in Workers, BeginSucceeds(w) PROVE UNCHANGED Promise!vars
  BY <1>5, JobInRange, PromiseStutter DEF BeginSucceeds, HoldsClaim, TypeOK
<1>6. ASSUME NEW w \in Workers, RecordAmbiguous(w) PROVE UNCHANGED Promise!vars
  BY <1>6, JobInRange, PromiseStutter
  DEF RecordAmbiguous, Settle, HoldsClaim, TypeOK, claimVars
<1>7. ASSUME NEW w \in Workers, RecordFailed(w) PROVE UNCHANGED Promise!vars
  BY <1>7, JobInRange, PromiseStutter DEF RecordFailed, Failable, Settle, HoldsClaim, TypeOK
<1>8. CASE UNCHANGED <<claim_state, effect>>
  BY <1>8, PromiseStutter
<1>9. ASSUME NEW w \in Workers,
             \/ StartTurn(w) \/ FinishTurn(w) \/ \E n \in Nodes : ReadExecution(w, n)
             \/ ClaimRefused(w) \/ BeginRefused(w) \/ Answered(w) \/ AnswerLost(w)
             \/ FailureRefused(w) \/ Crash(w)
      PROVE  UNCHANGED <<claim_state, effect>>
  BY <1>9 DEF StartTurn, FinishTurn, ReadExecution, ClaimRefused, BeginRefused, Answered,
     AnswerLost, FailureRefused, Crash, claimVars
<1>. QED
  BY <1>1, <1>2, <1>3, <1>4, <1>5, <1>6, <1>7, <1>8, <1>9
  DEF Next, WorkerStep, LapseLease, Checkpoint, LoseHotState, EndExecution, vars, claimVars

\* The claims, however the workers, Redis and the queue behave, carry out every
\* side effect at most once and report as succeeded only what was done.
THEOREM ImplementsCallOnce == Spec => EffectsOnce
<1>1. Init => Promise!Init
  BY DEF Init, Promise!Init
<1>. QED
  BY <1>1, NodeInvariant, PromiseStep, PTL DEF Spec, Inductive, EffectsOnce, Promise!Spec
=============================================================================
