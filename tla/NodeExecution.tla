--------------------------- MODULE NodeExecution ---------------------------
(***************************************************************************)
(* The side effects and checkpoints of one workflow execution              *)
(* (100_5G1.sql, parts A and B, in the schema of 041_5G.sql).              *)
(*                                                                         *)
(* Each function is one transaction: an action, except that the claim      *)
(* reads the execution FOR SHARE and then writes the claim, two steps with *)
(* the lock held in between.  The runtime that calls them is external: it  *)
(* evaluates one turn after another from the hot state in Redis, or from   *)
(* the last checkpoint when Redis has lost it, and sends each completed    *)
(* turn's checkpoint to a queue that delays, reorders and repeats.         *)
(*                                                                         *)
(* One execution is enough, for nothing joins two; every caller has the    *)
(* execution's tenant and names nodes of its graph, the other calls raise  *)
(* before they touch a row.                                                *)
(***************************************************************************)
EXTENDS Integers, FiniteSets

CONSTANTS
  Nodes,       \* the side-effecting nodes of the pinned graph
  Workers,     \* worker identifiers, p_worker_id
  MaxTurns,    \* bound on the turns of the execution
  MaxSends     \* bound on the times a side effect is invoked

NoOne == "nobody"

ASSUME NodeAssumption ==
  MaxTurns \in Nat \ {0} /\ MaxSends \in Nat \ {0} /\ NoOne \notin Workers

Turns == 1..MaxTurns
Sends == 1..MaxSends

\* The identity of a claim: target_checkpoint_seq and node_id.
Claims == Turns \X Nodes

VARIABLES
  status,           \* workflow_executions: status,
  checkpoint_seq,   \*   checkpoint_seq
  history,          \*   and the side effects that its stored state knows of
  claim_state,      \* node_execution_claims: claim_state, "NONE" without a row,
  claimed_by,       \*   claimed_by
  lease,            \*   and what has become of claim_expires_at
  effect,           \* the invocations of each side effect, at the target
  hot,              \* the state in Redis: the turn that is next, 0 when lost
  jobs,             \* the checkpoints ever sent to the queue
  pc, turn, node,   \* each worker: its step, and the claim it is at,
  sent,             \*   the invocation it made
  known             \*   and the side effects its evaluation knows of

executionVars == <<status, checkpoint_seq, history>>
claimVars     == <<claim_state, claimed_by, lease>>
vars == <<executionVars, claimVars, effect, hot, jobs, pc, turn, node, sent, known>>

ClaimStates == {"NONE", "CLAIMED", "SUBMITTING", "SUCCEEDED", "AMBIGUOUS", "FAILED"}

\* Steps of a worker that has passed the submission boundary and not recorded
\* what came of it.
Submitting == {"begun", "sent", "done", "rejected", "unknown", "refused"}

TypeOK ==
  /\ status \in {"ACTIVE", "COMPLETED", "FAILED"}
  /\ checkpoint_seq \in 0..MaxTurns
  /\ history \subseteq Claims
  /\ claim_state \in [Claims -> ClaimStates]
  /\ claimed_by \in [Claims -> Workers \cup {NoOne}]
  /\ lease \in [Claims -> {"none", "live", "lapsed"}]
  /\ \A c \in Claims : claim_state[c] = "CLAIMED" => claimed_by[c] # NoOne /\ lease[c] # "none"
  /\ effect \in [Claims -> [Sends -> {"none", "sent", "done", "rejected"}]]
  /\ hot \in [turn : 0..MaxTurns, known : SUBSET Claims]
  /\ jobs \subseteq [seq : Turns, history : SUBSET Claims]
  /\ pc \in [Workers -> {"idle", "turn", "claiming", "claimed"} \cup Submitting]
  /\ turn \in [Workers -> Turns]
  /\ node \in [Workers -> Nodes]
  /\ sent \in [Workers -> Sends]
  /\ known \in [Workers -> SUBSET Claims]

Lost == [turn |-> 0, known |-> {}]

Init ==
  /\ status = "ACTIVE" /\ checkpoint_seq = 0 /\ history = {}
  /\ claim_state = [c \in Claims |-> "NONE"]
  /\ claimed_by = [c \in Claims |-> NoOne]
  /\ lease = [c \in Claims |-> "none"]
  /\ effect = [c \in Claims |-> [n \in Sends |-> "none"]]
  /\ hot = Lost
  /\ jobs = {}
  /\ pc = [w \in Workers |-> "idle"]
  /\ turn = [w \in Workers |-> 1]
  /\ node \in [Workers -> Nodes]
  /\ sent = [w \in Workers |-> 1]
  /\ known = [w \in Workers |-> {}]

\* The claim that a worker is at.
Job(w) == <<turn[w], node[w]>>

-----------------------------------------------------------------------------
(* Evaluating turns: the runtime, Redis and the queue                      *)

\* The hot state is the authority; without it, the last checkpoint is.
StartTurn(w) ==
  /\ pc[w] = "idle"
  /\ \/ /\ hot.turn # 0
        /\ turn' = [turn EXCEPT ![w] = hot.turn]
        /\ known' = [known EXCEPT ![w] = hot.known]
     \/ /\ status = "ACTIVE" /\ checkpoint_seq < MaxTurns
        /\ turn' = [turn EXCEPT ![w] = checkpoint_seq + 1]
        /\ known' = [known EXCEPT ![w] = history]
  /\ pc' = [pc EXCEPT ![w] = "turn"]
  /\ UNCHANGED <<executionVars, claimVars, effect, hot, jobs, node, sent>>

\* The turn is complete: its checkpoint is sent, and nobody waits for it.
FinishTurn(w) ==
  /\ pc[w] = "turn"
  /\ hot' = IF turn[w] < MaxTurns
            THEN [turn |-> turn[w] + 1, known |-> known[w]] ELSE Lost
  /\ jobs' = jobs \cup {[seq |-> turn[w], history |-> known[w]]}
  /\ pc' = [pc EXCEPT ![w] = "idle"]
  /\ UNCHANGED <<executionVars, claimVars, effect, turn, node, sent, known>>

LoseHotState ==
  /\ hot # Lost
  /\ hot' = Lost
  /\ UNCHANGED <<executionVars, claimVars, effect, jobs, pc, turn, node, sent, known>>

\* A worker may die at any point, and its identifier may come back.
Crash(w) ==
  /\ pc[w] # "idle"
  /\ pc' = [pc EXCEPT ![w] = "idle"]
  /\ UNCHANGED <<executionVars, claimVars, effect, hot, jobs, turn, node, sent, known>>

-----------------------------------------------------------------------------
(* fn_claim_node_execution                                                 *)

\* Mutant of ClaimAllowed: any turn of the execution may be claimed.
ClaimAllowedLate(t) == status = "ACTIVE" /\ t <= checkpoint_seq + 1

\* What the claim requires of the execution; the other calls raise.
ClaimAllowed(t) == status = "ACTIVE" /\ t = checkpoint_seq + 1

\* It reads the execution FOR SHARE, and holds the lock until it commits.
ReadExecution(w, n) ==
  /\ pc[w] = "turn"
  /\ ClaimAllowed(turn[w])
  /\ pc' = [pc EXCEPT ![w] = "claiming"]
  /\ node' = [node EXCEPT ![w] = n]
  /\ UNCHANGED <<executionVars, claimVars, effect, hot, jobs, turn, sent, known>>

\* Mutant of Claimable: a submission whose lease has lapsed is taken for dead.
ClaimableAfterSubmission(c) ==
  \/ claim_state[c] \in {"NONE", "FAILED"}
  \/ claim_state[c] \in {"CLAIMED", "SUBMITTING"} /\ lease[c] = "lapsed"

\* No row yet, or a state that proves that the side effect never began.
Claimable(c) ==
  \/ claim_state[c] \in {"NONE", "FAILED"}
  \/ claim_state[c] = "CLAIMED" /\ lease[c] = "lapsed"

\* claim_expires_at as the insert and the reclaiming update set it.
Leased(c) == [lease EXCEPT ![c] = "live"]

Claim(w) ==
  /\ pc[w] = "claiming"
  /\ Claimable(Job(w))
  /\ claim_state' = [claim_state EXCEPT ![Job(w)] = "CLAIMED"]
  /\ claimed_by' = [claimed_by EXCEPT ![Job(w)] = w]
  /\ lease' = Leased(Job(w))
  /\ pc' = [pc EXCEPT ![w] = "claimed"]
  /\ UNCHANGED <<executionVars, effect, hot, jobs, turn, node, sent, known>>

\* Mutant of Learned: whatever the state, the side effect is taken for done.
LearnedAlways(c) == {c}

\* What the answer of a claim that is not granted tells of the side effect.
Learned(c) == IF claim_state[c] = "SUCCEEDED" THEN {c} ELSE {}

\* The row is not claimable: its state is returned.  A side effect that
\* succeeded is not repeated, and the evaluation goes on; otherwise it stops.
ClaimRefused(w) ==
  /\ pc[w] = "claiming"
  /\ ~Claimable(Job(w))
  /\ known' = [known EXCEPT ![w] = @ \cup Learned(Job(w))]
  /\ pc' = [pc EXCEPT ![w] = IF Learned(Job(w)) # {} THEN "turn" ELSE "idle"]
  /\ UNCHANGED <<executionVars, claimVars, effect, hot, jobs, turn, node, sent>>

LapseLease(c) ==
  /\ lease[c] = "live"
  /\ lease' = [lease EXCEPT ![c] = "lapsed"]
  /\ UNCHANGED <<executionVars, claim_state, claimed_by, effect, hot, jobs,
                 pc, turn, node, sent, known>>

-----------------------------------------------------------------------------
(* fn_begin_node_submission, the side effect, and the three recorders      *)

\* The row is in state s and claimed_by names the worker.
HoldsClaim(w, s) == claim_state[Job(w)] = s /\ claimed_by[Job(w)] = w

\* NOW() is the start of the transaction, which may lie before a lapse: with a
\* lapsed lease the answer goes either way.
BeginSucceeds(w) ==
  /\ pc[w] = "claimed"
  /\ HoldsClaim(w, "CLAIMED")
  /\ claim_state' = [claim_state EXCEPT ![Job(w)] = "SUBMITTING"]
  /\ pc' = [pc EXCEPT ![w] = "begun"]
  /\ UNCHANGED <<executionVars, claimed_by, lease, effect, hot, jobs,
                 turn, node, sent, known>>

BeginRefused(w) ==
  /\ pc[w] = "claimed"
  /\ ~HoldsClaim(w, "CLAIMED") \/ lease[Job(w)] # "live"
  /\ pc' = [pc EXCEPT ![w] = "idle"]
  /\ UNCHANGED <<executionVars, claimVars, effect, hot, jobs, turn, node, sent, known>>

\* Only after began = TRUE is the tool, transfer or webhook invoked.
Invoke(w, n) ==
  /\ pc[w] = "begun"
  /\ effect[Job(w)][n] = "none" /\ \A m \in 1..(n - 1) : effect[Job(w)][m] # "none"
  /\ effect' = [effect EXCEPT ![Job(w)][n] = "sent"]
  /\ sent' = [sent EXCEPT ![w] = n]
  /\ pc' = [pc EXCEPT ![w] = "sent"]
  /\ UNCHANGED <<executionVars, claimVars, hot, jobs, turn, node, known>>

\* The target carries it out, or rejects it.
TargetActs(c, n) ==
  /\ effect[c][n] = "sent"
  /\ \E end \in {"done", "rejected"} : effect' = [effect EXCEPT ![c][n] = end]
  /\ UNCHANGED <<executionVars, claimVars, hot, jobs, pc, turn, node, sent, known>>

\* The worker has the target's answer,
Answered(w) ==
  /\ pc[w] = "sent" /\ effect[Job(w)][sent[w]] \in {"done", "rejected"}
  /\ pc' = [pc EXCEPT ![w] = effect[Job(w)][sent[w]]]
  /\ UNCHANGED <<executionVars, claimVars, effect, hot, jobs, turn, node, sent, known>>

\* or gives up waiting for it.
AnswerLost(w) ==
  /\ pc[w] = "sent"
  /\ pc' = [pc EXCEPT ![w] = "unknown"]
  /\ UNCHANGED <<executionVars, claimVars, effect, hot, jobs, turn, node, sent, known>>

\* What a recorder that finds its row writes: the state, and no claim.
Settle(w, s) ==
  /\ claim_state' = [claim_state EXCEPT ![Job(w)] = s]
  /\ claimed_by' = [claimed_by EXCEPT ![Job(w)] = NoOne]
  /\ lease' = [lease EXCEPT ![Job(w)] = "none"]

RecordSucceeded(w) ==
  /\ pc[w] = "done"
  /\ IF HoldsClaim(w, "SUBMITTING") THEN Settle(w, "SUCCEEDED") ELSE UNCHANGED claimVars
  /\ known' = [known EXCEPT ![w] = @ \cup {Job(w)}]
  /\ pc' = [pc EXCEPT ![w] = "turn"]
  /\ UNCHANGED <<executionVars, effect, hot, jobs, turn, node, sent>>

RecordAmbiguous(w) ==
  /\ pc[w] \in {"unknown", "refused"}
  /\ IF HoldsClaim(w, "SUBMITTING") THEN Settle(w, "AMBIGUOUS") ELSE UNCHANGED claimVars
  /\ pc' = [pc EXCEPT ![w] = "turn"]
  /\ UNCHANGED <<executionVars, effect, hot, jobs, turn, node, sent, known>>

\* Mutant of Failable: a submission may be recorded as failed.
FailableAfterSubmission(w) == HoldsClaim(w, "CLAIMED") \/ HoldsClaim(w, "SUBMITTING")

\* The rows that may be recorded as failed: those not submitted.
Failable(w) == HoldsClaim(w, "CLAIMED")

\* A worker reports a failure: before the submission, or because the target
\* rejected it, or, mistaken, because it has no answer.
RecordFailed(w) ==
  /\ pc[w] \in {"claimed", "rejected", "unknown"}
  /\ Failable(w)
  /\ Settle(w, "FAILED")
  /\ pc' = [pc EXCEPT ![w] = "turn"]
  /\ UNCHANGED <<executionVars, effect, hot, jobs, turn, node, sent, known>>

\* NOT_FAILABLE_AFTER_SUBMISSION, or another reason; the row stays, and after
\* a submission the worker is left with the ambiguous record only.
FailureRefused(w) ==
  /\ pc[w] \in {"claimed", "rejected"}
  /\ ~Failable(w)
  /\ pc' = [pc EXCEPT ![w] = IF pc[w] = "rejected" THEN "refused" ELSE "idle"]
  /\ UNCHANGED <<executionVars, claimVars, effect, hot, jobs, turn, node, sent, known>>

-----------------------------------------------------------------------------
(* fn_checkpoint_, fn_complete_ and fn_fail_workflow_execution             *)

\* Mutant of RowFree: the claim does not lock the execution.
RowFreeAlways == TRUE

\* No claim holds the execution FOR SHARE.
RowFree == \A w \in Workers : pc[w] # "claiming"

\* Mutant of CheckpointApplies: an equal sequence number is applied again.
CheckpointAppliesAgain(j) == status = "ACTIVE" /\ checkpoint_seq <= j.seq

CheckpointApplies(j) == status = "ACTIVE" /\ checkpoint_seq < j.seq

\* trg_we_immutable, behind the predicates of the functions.
TriggerAllows == status = "ACTIVE" /\ checkpoint_seq' >= checkpoint_seq

\* A checkpoint is delivered; it stays in the queue, to be delivered again.
Checkpoint(j) ==
  /\ RowFree
  /\ CheckpointApplies(j)
  /\ checkpoint_seq' = j.seq
  /\ history' = j.history
  /\ TriggerAllows
  /\ UNCHANGED <<status, claimVars, effect, hot, jobs, pc, turn, node, sent, known>>

EndExecution ==
  /\ RowFree
  /\ status = "ACTIVE"
  /\ status' \in {"COMPLETED", "FAILED"}
  /\ UNCHANGED <<checkpoint_seq, history, claimVars, effect, hot, jobs,
                 pc, turn, node, sent, known>>

-----------------------------------------------------------------------------
WorkerStep(w) ==
  \/ StartTurn(w)
  \/ FinishTurn(w)
  \/ \E n \in Nodes : ReadExecution(w, n)
  \/ Claim(w)
  \/ ClaimRefused(w)
  \/ BeginSucceeds(w)
  \/ BeginRefused(w)
  \/ \E n \in Sends : Invoke(w, n)
  \/ Answered(w)
  \/ AnswerLost(w)
  \/ RecordSucceeded(w)
  \/ RecordAmbiguous(w)
  \/ RecordFailed(w)
  \/ FailureRefused(w)
  \/ Crash(w)

Next ==
  \/ \E w \in Workers : WorkerStep(w)
  \/ \E c \in Claims : LapseLease(c)
  \/ \E c \in Claims, n \in Sends : TargetActs(c, n)
  \/ \E j \in jobs : Checkpoint(j)
  \/ LoseHotState
  \/ EndExecution

Spec == Init /\ [][Next]_vars

-----------------------------------------------------------------------------
(* Properties                                                              *)

\* A side effect of a turn happens at most once, however often Redis, the
\* queue and the workers make the turn be evaluated again (Part A: "Once
\* SUBMITTING commits, no automatic reclaim occurs at any lease staleness").
EffectAtMostOnce ==
  \A c \in Claims : \A m, n \in Sends :
    effect[c][m] = "done" /\ effect[c][n] = "done" => m = n

\* The row tells the truth about the target: a claim that may be taken again
\* was never invoked and is not about to be, and one that SUCCEEDED was.
ClaimsTellTheTruth ==
  \A c \in Claims :
    /\ claim_state[c] \in {"NONE", "CLAIMED", "FAILED"} =>
         /\ \A n \in Sends : effect[c][n] = "none"
         /\ \A w \in Workers : Job(w) = c => pc[w] \notin Submitting
    /\ claim_state[c] = "SUCCEEDED" => \E n \in Sends : effect[c][n] = "done"

\* The stored state of an execution, and whatever may still be stored, knows
\* only of side effects that were completed and recorded as such.
HistoryIsReal ==
  \A c \in history \cup hot.known \cup UNION {j.history : j \in jobs} :
    claim_state[c] = "SUCCEEDED"

\* A claim is taken, for the first time or again, only while the execution is
\* ACTIVE and for its next checkpoint (INV-6I-SE-02 to -04), although the
\* execution is read in one step and the claim written in another.
ClaimsAreCurrent ==
  [][ \A w \in Workers :
        pc[w] = "claiming" /\ pc'[w] = "claimed" =>
          status = "ACTIVE" /\ turn[w] = checkpoint_seq + 1 ]_vars

\* A turn's stored state is written once, by the first checkpoint of that turn
\* that is applied: no late, repeated or reordered delivery writes over it, or
\* over the state of a later turn, or touches an execution that has ended.
CheckpointedOnce ==
  [][ /\ checkpoint_seq' >= checkpoint_seq
      /\ history' # history => checkpoint_seq' > checkpoint_seq
      /\ status # "ACTIVE" => UNCHANGED executionVars ]_vars

\* No invocation but the first, and none before the submission boundary.
EffectsFollowClaim ==
  \A c \in Claims :
    /\ \A n \in Sends : n # 1 => effect[c][n] = "none"
    /\ claim_state[c] \in {"NONE", "CLAIMED", "FAILED"} => effect[c][1] = "none"
    /\ claim_state[c] = "SUCCEEDED" => effect[c][1] = "done"

\* A worker between the boundary and the record holds its claim, and knows
\* what it has done and been told.
WorkerInStep(w) == pc[w] \in Submitting =>
  /\ HoldsClaim(w, "SUBMITTING")
  /\ pc[w] = "begun" => effect[Job(w)][1] = "none"
  /\ pc[w] # "begun" => sent[w] = 1
  /\ pc[w] = "done" => effect[Job(w)][1] = "done"

\* What an evaluation knows of was recorded.
KnowledgeIsReal ==
  \A w \in Workers : pc[w] # "idle" => \A c \in known[w] : claim_state[c] = "SUCCEEDED"

\* Why the properties hold: what ties the claims, the effects, the workers and
\* the stored knowledge together.
NodeInv ==
  /\ EffectsFollowClaim
  /\ \A w \in Workers : WorkerInStep(w)
  /\ KnowledgeIsReal
  /\ HistoryIsReal
  /\ \A w \in Workers :
       pc[w] = "claiming" => status = "ACTIVE" /\ turn[w] = checkpoint_seq + 1

\* What is preserved by every step.
Inductive == TypeOK /\ NodeInv

\* A side effect is to its claim what a call is to its dispatch key.
Promise == INSTANCE CallOnce WITH
  Keys        <- Claims,
  Ids         <- Sends,
  outstanding <- [c \in Claims |-> {n \in Sends : effect[c][n] = "sent"}],
  rang        <- [c \in Claims |-> {n \in Sends : effect[c][n] = "done"}],
  used        <- [c \in Claims |-> {n \in Sends : effect[c][n] # "none"}],
  confirmed   <- {c \in Claims : claim_state[c] = "SUCCEEDED"}

EffectsOnce == Promise!Spec

-----------------------------------------------------------------------------
(* What the migration's comments say and the code does not do              *)

\* "an equal value means this exact checkpoint was already applied".
EqualIsTheSame ==
  \A j \in jobs : status = "ACTIVE" /\ j.seq = checkpoint_seq => j.history = history
=============================================================================
