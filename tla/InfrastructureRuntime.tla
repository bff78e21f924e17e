----------------------- MODULE InfrastructureRuntime -----------------------
(***************************************************************************)
(* The owner of the database engine and the Redis client (runtime.py,      *)
(* with RedisClient.close and Database.dispose).                           *)
(*                                                                         *)
(* The program is asyncio: a task runs undisturbed from one await to the   *)
(* next, so an action is what a task does between two awaits.  Any number  *)
(* of tasks call start() and stop(), any of them may be cancelled while it *)
(* waits, and the release runs in a task of its own that the callers join. *)
(* check_readiness() and the properties change nothing and are left out.   *)
(***************************************************************************)
EXTENDS Integers, FiniteSets

CONSTANTS
  Callers,      \* tasks that call start() or stop(), each any number of times
  MaxReleases   \* bound on the release tasks ever created

ASSUME RuntimeAssumption == MaxReleases \in Nat

VARIABLES
  state,      \* _state
  resource,   \* Database and RedisClient: _disposing/_closing, _disposed/_closed
  owned,      \* the references _database and _redis that are not None
  release,    \* the release tasks ever created, each at an await or ended
  current,    \* _release_task, 0 for None
  pc,         \* where each caller is
  waits,      \* the local variable "task" of each caller that waits
  pending,    \* the callers with a pending_cancellation
  retry       \* history: failed releases a call to stop() found, not begun again

vars == <<state, resource, owned, release, current, pc, waits, pending, retry>>

Resources == {"postgres", "redis"}
Releases  == 1..MaxReleases

RuntimeStates == {"new", "starting", "ready", "stopping", "stopped"}
Stages        == {"unborn", "created", "redis", "postgres", "done", "cancelled"}
Steps         == {"idle", "verifying postgres", "verifying redis",
                  "waiting in start", "waiting in stop",
                  "returned", "raised", "cancelled"}

Verifying == {"verifying postgres", "verifying redis"}
Waiting   == {"waiting in start", "waiting in stop"}

TypeOK ==
  /\ state \in RuntimeStates
  /\ resource \in [Resources -> {"absent", "open", "closing", "closed"}]
  /\ owned \subseteq Resources
  /\ release \in [Releases -> Stages]
  /\ current \in 0..MaxReleases
  /\ pc \in [Callers -> Steps]
  /\ waits \in [Callers -> 0..MaxReleases]
  /\ pending \subseteq Callers
  /\ retry \in [Callers -> SUBSET Resources]

Init ==
  /\ state = "new"
  /\ resource = [x \in Resources |-> "absent"]
  /\ owned = {}
  /\ release = [r \in Releases |-> "unborn"]
  /\ current = 0
  /\ pc = [c \in Callers |-> "idle"]
  /\ waits = [c \in Callers |-> 0]
  /\ pending = {}
  /\ retry = [c \in Callers |-> {}]

-----------------------------------------------------------------------------
(* Joining and leaving the release task: _release()                        *)

\* Mutant of TaskDone: a release that was cancelled is not done.
TaskDoneWhenFinished(r) == release[r] = "done"

\* task.done()
TaskDone(r) == release[r] \in {"done", "cancelled"}

\* The task a caller of _release() joins: the one that runs, or a new one.
Joined == IF current # 0 /\ ~TaskDone(current) THEN current ELSE current + 1

\* Mutant of Join: every caller creates a release of its own.
JoinNew(c, step) ==
  /\ current + 1 \in Releases
  /\ current' = current + 1
  /\ release' = [release EXCEPT ![current + 1] = "created"]
  /\ pc' = [pc EXCEPT ![c] = step]
  /\ waits' = [waits EXCEPT ![c] = current + 1]
  /\ UNCHANGED <<resource, owned, pending>>

Join(c, step) ==
  /\ Joined \in Releases
  /\ current' = Joined
  /\ release' = [release EXCEPT ![Joined] = IF Joined = current THEN @ ELSE "created"]
  /\ pc' = [pc EXCEPT ![c] = step]
  /\ waits' = [waits EXCEPT ![c] = Joined]
  /\ UNCHANGED <<resource, owned, pending>>

\* Mutant of CancelWait: the cancelled caller stops waiting.
CancelWaitAtOnce(c) ==
  /\ pc[c] \in Waiting
  /\ pc' = [pc EXCEPT ![c] = "cancelled"]
  /\ UNCHANGED <<state, resource, owned, release, current, waits, pending, retry>>

\* The caller is cancelled while it waits: it remembers, and goes on waiting.
CancelWait(c) ==
  /\ pc[c] \in Waiting
  /\ pending' = pending \cup {c}
  /\ UNCHANGED <<state, resource, owned, release, current, pc, waits, retry>>

\* The release it waits for has ended.  The start() that joined it raises what
\* made it fail; a cancellation, its own or the task's, takes precedence.
WaitEnds(c) ==
  /\ pc[c] \in Waiting
  /\ TaskDone(waits[c])
  /\ pc' = [pc EXCEPT ![c] =
              IF c \in pending \/ release[waits[c]] = "cancelled" THEN "cancelled"
              ELSE IF @ = "waiting in start" THEN "raised"
              ELSE "returned"]
  /\ pending' = pending \ {c}
  /\ UNCHANGED <<state, resource, owned, release, current, waits, retry>>

-----------------------------------------------------------------------------
(* start()                                                                 *)

Start(c) ==
  /\ pc[c] = "idle" /\ state = "new"
  /\ state' = "starting"
  /\ resource' = [resource EXCEPT !["postgres"] = "open"]
  /\ owned' = owned \cup {"postgres"}
  /\ pc' = [pc EXCEPT ![c] = "verifying postgres"]
  /\ UNCHANGED <<release, current, waits, pending, retry>>

\* The engine cannot be created, and there is nothing to release.
NothingCreated(c) ==
  /\ pc[c] = "idle" /\ state = "new"
  /\ state' = "stopping"
  /\ Join(c, "waiting in start")
  /\ UNCHANGED retry

\* verify_database_baseline() is satisfied: the Redis client is created.
DatabaseVerified(c) ==
  /\ pc[c] = "verifying postgres"
  /\ resource' = [resource EXCEPT !["redis"] = "open"]
  /\ owned' = owned \cup {"redis"}
  /\ pc' = [pc EXCEPT ![c] = "verifying redis"]
  /\ UNCHANGED <<state, release, current, waits, pending, retry>>

RedisVerified(c) ==
  /\ pc[c] = "verifying redis"
  /\ state' = "ready"
  /\ pc' = [pc EXCEPT ![c] = "returned"]
  /\ UNCHANGED <<resource, owned, release, current, waits, pending, retry>>

\* A check fails, the Redis client cannot be created, or the start is cancelled:
\* what was created is released.
StartFails(c) ==
  /\ pc[c] \in Verifying
  /\ state' = "stopping"
  /\ Join(c, "waiting in start")
  /\ UNCHANGED retry

-----------------------------------------------------------------------------
(* stop()                                                                  *)

\* Resources whose release failed, and is not being tried again just now.
FailedEarlier ==
  {x \in owned : resource[x] = "closing" /\ \A r \in Releases : release[r] # x}

StopNothing(c) ==
  /\ pc[c] = "idle" /\ state \in {"new", "stopped"}
  /\ state' = "stopped"
  /\ pc' = [pc EXCEPT ![c] = "returned"]
  /\ UNCHANGED <<resource, owned, release, current, waits, pending, retry>>

Stop(c) ==
  /\ pc[c] = "idle" /\ state \in {"ready", "stopping"}
  /\ state' = "stopping"
  /\ Join(c, "waiting in stop")
  /\ retry' = [retry EXCEPT ![c] = FailedEarlier]

\* start() from any state but NEW, and stop() during a start, raise.
Refused(c) ==
  /\ pc[c] = "idle" /\ state # "new"
  /\ pc' = [pc EXCEPT ![c] = "raised"]
  /\ UNCHANGED <<state, resource, owned, release, current, waits, pending, retry>>

\* The task of a caller goes on, and may call again.
CallAgain(c) ==
  /\ pc[c] \in {"returned", "raised", "cancelled"}
  /\ pc' = [pc EXCEPT ![c] = "idle"]
  /\ waits' = [waits EXCEPT ![c] = 0]
  /\ retry' = [retry EXCEPT ![c] = {}]
  /\ UNCHANGED <<state, resource, owned, release, current, pending>>

-----------------------------------------------------------------------------
(* The release task: _release_owned_resources()                            *)

\* Mutant of NextStage: a resource that was not released ends the release.
NextStageUnlessFailed(stage, own) ==
  IF stage = "created" /\ "redis" \in own THEN "redis"
  ELSE IF stage # "postgres" /\ "postgres" \in own /\ "redis" \notin own THEN "postgres"
  ELSE "done"

\* Where the task awaits next, with own the references that are left.
NextStage(stage, own) ==
  IF stage = "created" /\ "redis" \in own THEN "redis"
  ELSE IF stage # "postgres" /\ "postgres" \in own THEN "postgres"
  ELSE "done"

\* Mutant of FinalState: the end of the release is taken for its success.
FinalStateAlways(own) == "stopped"

\* The state when the release has gone through everything.
FinalState(own) == IF own = {} THEN "stopped" ELSE state

\* The task begins the release of the next resource, or ends.
Advance(r, stage, own, res) ==
  LET to == NextStage(stage, own) IN
  /\ owned' = own
  /\ release' = [release EXCEPT ![r] = to]
  /\ resource' = [x \in Resources |-> IF x = to THEN "closing" ELSE res[x]]
  /\ state' = IF to = "done" THEN FinalState(own) ELSE state
  /\ retry' = [c \in Callers |-> retry[c] \ {to}]
  /\ UNCHANGED <<current, pc, waits, pending>>

ReleaseBegins(r) ==
  /\ release[r] = "created"
  /\ Advance(r, "created", owned, resource)

\* Mutant of Released: the reference is dropped before the release completed.
ReleasedAnyway(r, x) ==
  /\ release[r] = x
  /\ \E end \in {"closed", "closing"} :
       Advance(r, x, owned \ {x}, [resource EXCEPT ![x] = end])

\* The close or dispose completed.
Released(r, x) ==
  /\ release[r] = x
  /\ Advance(r, x, owned \ {x}, [resource EXCEPT ![x] = "closed"])

\* It raised, or RELEASE_TIMEOUT_SECONDS went by: the reference is kept.
ReleaseFails(r, x) ==
  /\ release[r] = x
  /\ Advance(r, x, owned, resource)

\* Event-loop teardown cancels the task itself.
ReleaseCancelled(r) ==
  /\ release[r] \in {"created"} \cup Resources
  /\ release' = [release EXCEPT ![r] = "cancelled"]
  /\ UNCHANGED <<state, resource, owned, current, pc, waits, pending, retry>>

ReleaseStep(r) ==
  \/ ReleaseBegins(r)
  \/ \E x \in Resources : Released(r, x) \/ ReleaseFails(r, x)

-----------------------------------------------------------------------------
CallerStep(c) ==
  \/ Start(c)
  \/ NothingCreated(c)
  \/ DatabaseVerified(c)
  \/ RedisVerified(c)
  \/ StartFails(c)
  \/ StopNothing(c)
  \/ Stop(c)
  \/ Refused(c)
  \/ CancelWait(c)
  \/ WaitEnds(c)
  \/ CallAgain(c)

Next ==
  \/ \E c \in Callers : CallerStep(c)
  \/ \E r \in Releases : ReleaseStep(r) \/ ReleaseCancelled(r)

Spec == Init /\ [][Next]_vars

\* The event loop runs what is ready: a caller whose wait is over goes on, and
\* the release task goes on because every step of it has a timeout.  A close
\* need not ever complete, and nobody need call again.
Fairness ==
  /\ \A r \in Releases : WF_vars(ReleaseStep(r))
  /\ \A c \in Callers : WF_vars(WaitEnds(c))

FairSpec == Spec /\ Fairness

-----------------------------------------------------------------------------
(* Properties                                                              *)

\* A resource is referenced from its creation until its own release has
\* completed: nothing open is ever orphaned, nothing closed is closed twice.
NoOrphan == \A x \in Resources : resource[x] \in {"open", "closing"} <=> x \in owned

\* The state never claims more or less than is so: READY means that both
\* resources are open, STOPPED that nothing is owned any more, and STOPPING
\* that there is something left for the next stop() to release, or that the last
\* release has not begun to look (it may have been cancelled before).
StateIsHonest ==
  /\ state = "ready" => \A x \in Resources : resource[x] = "open"
  /\ state = "stopped" => owned = {}
  /\ state = "stopping" =>
       owned # {} \/ \E r \in Releases : r = current /\ release[r] \in {"created", "cancelled"}

Running(r) == release[r] \in {"created", "redis", "postgres"}

\* Concurrent callers share one release: two of them never run at once, and
\* none runs before the stop has begun or after it is complete.
OneRelease ==
  /\ \A r, q \in Releases : Running(r) /\ Running(q) => r = q
  /\ \A r \in Releases : Running(r) => state = "stopping" /\ r = current

\* A release that went to its end has tried everything: what is left has
\* failed to close, and was not merely skipped because something else failed.
NothingSkipped ==
  \A r \in Releases : release[r] = "done" => \A x \in owned : resource[x] # "open"

Over(c) ==
  /\ ~Running(waits[c])
  /\ \/ state = "stopped" /\ owned = {}
     \/ state = "stopping" /\ (owned # {} \/ release[waits[c]] = "cancelled")

\* A call that waits for a release ends, by cancellation too, only when that
\* release is over: with everything released and the state STOPPED, or with the
\* state STOPPING, for another stop() to find, since something is still owned or
\* the release was cancelled.
NotAbandoned ==
  [][ \A c \in Callers : pc[c] \in Waiting /\ pc'[c] \notin Waiting => Over(c) ]_vars

\* A hung close does not block shutdown: whoever waits for a release returns.
CallersReturn == \A c \in Callers : pc[c] \in Waiting ~> pc[c] \notin Waiting

\* The release tasks are created in order.
ReleasesInOrder == \A r \in Releases : release[r] = "unborn" <=> r > current

\* A release task is closing what it says it is closing, the client that it went
\* past has been tried, and at its end it says whether anything is left.
ReleaseInStep == \A r \in Releases :
  /\ \A x \in Resources : release[r] = x => resource[x] = "closing"
  /\ release[r] = "postgres" => resource["redis"] # "open"
  /\ release[r] = "done" => owned # {} \/ state = "stopped"

\* Nothing is closed before the stop begins; only one task starts the runtime;
\* and a caller waits for a release that exists.
CallersInStep ==
  /\ state \in {"new", "starting", "ready"} =>
       current = 0 /\ \A x \in Resources : resource[x] \in {"absent", "open"}
  /\ state = "new" => owned = {}
  /\ \A c \in Callers :
       /\ pc[c] \in Waiting => waits[c] \in 1..current
       /\ pc[c] \in Verifying =>
            /\ state = "starting" /\ "postgres" \in owned
            /\ \A d \in Callers \ {c} : pc[d] \notin Verifying
       /\ pc[c] = "verifying redis" => owned = Resources

\* Why the safety properties hold: what ties the state, the resources, the
\* release tasks and the callers together.
RuntimeInv ==
  /\ NoOrphan
  /\ StateIsHonest
  /\ OneRelease
  /\ NothingSkipped
  /\ ReleasesInOrder
  /\ ReleaseInStep
  /\ CallersInStep

\* What is preserved by every step.
Inductive == TypeOK /\ RuntimeInv

-----------------------------------------------------------------------------
(* What the documentation says and the code does not do                    *)

\* "If a release failed earlier, calling stop() again retries it": a stop()
\* that returns has begun again every release that had failed.
StopRetries ==
  \A c \in Callers : pc[c] = "returned" => retry[c] \cap owned = {}
=============================================================================
