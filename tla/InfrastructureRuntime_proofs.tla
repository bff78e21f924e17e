-------------------- MODULE InfrastructureRuntime_proofs --------------------
(***************************************************************************)
(* Proofs about InfrastructureRuntime, for any number of callers and       *)
(* release tasks: type correctness, the inductive invariant RuntimeInv and *)
(* the safety properties that follow from it.                              *)
(***************************************************************************)
EXTENDS InfrastructureRuntime, TLAPS

\* The runtime as it is constructed is of its types.
LEMMA TypeInit == Init => TypeOK
  BY RuntimeAssumption DEF Init, TypeOK, RuntimeStates, Resources, Releases, Stages, Steps

\* A caller of _release() waits for a release that exists: the one that runs,
\* or a new one.
LEMMA JoinStep ==
  ASSUME TypeOK, NEW c \in Callers, NEW step \in Steps, Join(c, step)
  PROVE  /\ current' \in Releases
         /\ release' \in [Releases -> Stages]
         /\ waits' \in [Callers -> 0..MaxReleases]
         /\ pc' \in [Callers -> Steps]
         /\ pc' = [pc EXCEPT ![c] = step]
         /\ waits' = [waits EXCEPT ![c] = current']
         /\ \/ /\ current # 0 /\ ~TaskDone(current)
               /\ current' = current /\ release' = release
            \/ /\ current = 0 \/ TaskDone(current)
               /\ current' = current + 1
               /\ release' = [release EXCEPT ![current + 1] = "created"]
<1>. USE RuntimeAssumption DEF TypeOK
<1>1. Joined \in Releases /\ current' = Joined /\ Joined \in 0..MaxReleases
  BY DEF Join, Releases
<1>2. pc' \in [Callers -> Steps] /\ waits' \in [Callers -> 0..MaxReleases]
  BY <1>1 DEF Join
<1>3. CASE current # 0 /\ ~TaskDone(current)
  <2>1. Joined = current
    BY <1>3 DEF Joined
  <2>2. release' = release
    BY <1>1, <2>1 DEF Join
  <2>. QED
    BY <1>1, <1>2, <1>3, <2>1, <2>2 DEF Join
<1>4. CASE current = 0 \/ TaskDone(current)
  <2>1. Joined = current + 1 /\ Joined # current
    BY <1>4 DEF Joined
  <2>2. release' = [release EXCEPT ![current + 1] = "created"]
    BY <1>1, <2>1 DEF Join
  <2>3. release' \in [Releases -> Stages]
    BY <1>1, <2>1, <2>2 DEF Stages
  <2>. QED
    BY <1>1, <1>2, <1>4, <2>1, <2>2, <2>3 DEF Join
<1>. QED
  BY <1>3, <1>4

\* What a task does between two awaits keeps the types.
LEMMA TypeStep == TypeOK /\ [Next]_vars => TypeOK'
<1> SUFFICES ASSUME TypeOK, [Next]_vars PROVE TypeOK'
  OBVIOUS
<1>. USE RuntimeAssumption DEF TypeOK, RuntimeStates
<1>1. ASSUME NEW c \in Callers, Start(c) PROVE TypeOK'
  BY <1>1 DEF Start, Resources, Releases, Stages, Steps, Verifying, Waiting
<1>2. ASSUME NEW c \in Callers, DatabaseVerified(c) PROVE TypeOK'
  BY <1>2 DEF DatabaseVerified, Resources, Releases, Stages, Steps, Verifying, Waiting
<1>3. ASSUME NEW c \in Callers, RedisVerified(c) PROVE TypeOK'
  BY <1>3 DEF RedisVerified, Resources, Releases, Stages, Steps, Verifying, Waiting
<1>4. ASSUME NEW c \in Callers, StartFails(c) PROVE TypeOK'
  <2>1. Join(c, "waiting in start") /\ "waiting in start" \in Steps
    BY <1>4 DEF StartFails, Steps
  <2>2. UNCHANGED <<resource, owned, pending, retry>> /\ state' = "stopping"
    BY <1>4 DEF StartFails, Join
  <2>3. /\ current' \in Releases /\ release' \in [Releases -> Stages]
        /\ waits' \in [Callers -> 0..MaxReleases] /\ pc' \in [Callers -> Steps]
    BY <2>1, JoinStep
  <2>4. current' \in 0..MaxReleases
    BY <2>3 DEF Releases
  <2>. QED
    BY <2>2, <2>3, <2>4
<1>5. ASSUME NEW c \in Callers, StopNothing(c) PROVE TypeOK'
  BY <1>5 DEF StopNothing, Resources, Releases, Stages, Steps, Verifying, Waiting
<1>6. ASSUME NEW c \in Callers, Stop(c) PROVE TypeOK'
  BY <1>6, JoinStep DEF Stop, Join, FailedEarlier, Releases, Steps
<1>7. ASSUME NEW c \in Callers, Refused(c) PROVE TypeOK'
  BY <1>7 DEF Refused, Resources, Releases, Stages, Steps, Verifying, Waiting
<1>8. ASSUME NEW c \in Callers, CancelWait(c) PROVE TypeOK'
  BY <1>8 DEF CancelWait, Resources, Releases, Stages, Steps, Verifying, Waiting
<1>9. ASSUME NEW c \in Callers, WaitEnds(c) PROVE TypeOK'
  BY <1>9 DEF WaitEnds, TaskDone, Resources, Releases, Stages, Steps, Verifying, Waiting
<1>10. ASSUME NEW c \in Callers, CallAgain(c) PROVE TypeOK'
  <2>1. retry' \in [Callers -> SUBSET Resources]
    BY <1>10 DEF CallAgain
  <2>2. pc' \in [Callers -> Steps]
    BY <1>10 DEF CallAgain, Steps
  <2>3. waits' \in [Callers -> 0..MaxReleases]
    BY <1>10 DEF CallAgain
  <2>. QED
    BY <1>10, <2>1, <2>2, <2>3 DEF CallAgain
<1>11. ASSUME NEW r \in Releases, ReleaseBegins(r) PROVE TypeOK'
  BY <1>11 DEF ReleaseBegins, Advance, NextStage, FinalState, Releases, Stages, Steps
<1>12. ASSUME NEW r \in Releases, NEW x \in Resources, Released(r, x) PROVE TypeOK'
  BY <1>12 DEF Released, Advance, NextStage, FinalState, Releases, Stages, Steps, Verifying
<1>13. ASSUME NEW r \in Releases, NEW x \in Resources, ReleaseFails(r, x) PROVE TypeOK'
  BY <1>13 DEF ReleaseFails, Advance, NextStage, FinalState, Releases, Stages, Steps, Verifying
<1>14. ASSUME NEW r \in Releases, ReleaseCancelled(r) PROVE TypeOK'
  BY <1>14 DEF ReleaseCancelled, Resources, Releases, Stages, Steps, Verifying, Waiting
<1>15. ASSUME NEW c \in Callers, NothingCreated(c) PROVE TypeOK'
  BY <1>15, JoinStep DEF NothingCreated, Join, Releases, Steps
<1>16. CASE UNCHANGED vars
  BY <1>16 DEF vars
<1>. QED
  BY <1>1, <1>2, <1>3, <1>4, <1>5, <1>6, <1>7, <1>8, <1>9, <1>10, <1>11, <1>12, <1>13, <1>14,
    <1>15, <1>16 DEF Next, CallerStep, ReleaseStep

\* Every variable has its type in every reachable state.
THEOREM TypeCorrect == Spec => []TypeOK
  BY TypeInit, TypeStep, PTL DEF Spec

\* A runtime that was constructed and not started has nothing to release ...
LEMMA RuntimeInvInit == Init => RuntimeInv
  BY RuntimeAssumption
  DEF Init, RuntimeInv, NoOrphan, StateIsHonest, OneRelease, NothingSkipped, ReleasesInOrder,
      ReleaseInStep, CallersInStep, Running, Resources, Releases, Waiting, Verifying

\* Every caller that joins a release, in start() or in stop(), keeps the
\* invariant: it joins the one that runs, or creates one when none runs.
LEMMA JoinKeepsInvariant ==
  ASSUME TypeOK, RuntimeInv, NEW c \in Callers, NEW step \in Waiting, Join(c, step),
         state # "stopped", state' = "stopping", \A d \in Callers \ {c} : pc[d] \notin Verifying
  PROVE  RuntimeInv'
<1>. /\ current \in 0..MaxReleases /\ MaxReleases \in Nat /\ Releases = 1..MaxReleases
     /\ release \in [Releases -> Stages]
     /\ pc \in [Callers -> Steps]
     /\ waits \in [Callers -> 0..MaxReleases]
  BY RuntimeAssumption DEF TypeOK, Releases
<1>. USE DEF RuntimeInv
<1>1. resource' = resource /\ owned' = owned
  BY DEF Join
<1>2. /\ current' \in Releases
     /\ pc' = [pc EXCEPT ![c] = step]
     /\ waits' = [waits EXCEPT ![c] = current']
     /\ \/ /\ Running(current)
           /\ current' = current /\ release' = release
        \/ /\ \A r \in Releases : ~Running(r)
           /\ current' = current + 1
           /\ release' = [release EXCEPT ![current + 1] = "created"]
  <2>1. \A r \in Releases : Running(r) => r = current /\ ~TaskDone(r)
    BY DEF OneRelease, Running, TaskDone
  <2>2. ASSUME current # 0, ~TaskDone(current) PROVE Running(current)
    <3>1. current \in Releases
      BY <2>2
    <3>2. release[current] # "unborn"
      BY <3>1 DEF ReleasesInOrder
    <3>. QED
      BY <2>2, <3>1, <3>2 DEF Running, TaskDone, Stages
  <2>3. step \in Steps
    BY DEF Steps, Waiting
  <2>4. CASE current # 0 /\ ~TaskDone(current)
    BY <2>2, <2>3, <2>4, JoinStep
  <2>5. CASE current = 0 \/ TaskDone(current)
    <3>1. \A r \in Releases : ~Running(r)
      BY <2>1, <2>5
    <3>. QED
      BY <2>3, <2>5, <3>1, JoinStep
  <2>. QED
    BY <2>4, <2>5
<1>3. current' \in Releases /\ (current' = current \/ current' = current + 1)
  BY <1>2
<1>4. NoOrphan'
  BY <1>1 DEF NoOrphan
<1>5. StateIsHonest'
  <2>1. CASE Running(current) /\ current' = current /\ release' = release
    <3>1. current \in Releases /\ state = "stopping"
      BY <1>2, <2>1 DEF OneRelease
    <3>. QED
      BY <1>1, <2>1, <3>1 DEF StateIsHonest
  <2>2. CASE current' = current + 1 /\ release' = [release EXCEPT ![current + 1] = "created"]
    <3>1. current' \in Releases /\ release'[current'] = "created"
      BY <1>2, <2>2
    <3>. QED
      BY <3>1 DEF StateIsHonest
  <2>. QED
    BY <1>2, <2>1, <2>2
<1>6. OneRelease'
  BY <1>1, <1>2 DEF OneRelease, Running
<1>7. NothingSkipped'
  BY <1>1, <1>2 DEF NothingSkipped
<1>8. ReleasesInOrder'
  <2>1. CASE current' = current /\ release' = release
    BY <2>1 DEF ReleasesInOrder
  <2>2. CASE current' = current + 1 /\ release' = [release EXCEPT ![current + 1] = "created"]
    <3>1. \A r \in Releases : release'[r] = IF r = current + 1 THEN "created" ELSE release[r]
      BY <2>2
    <3>2. \A r \in Releases : r > current + 1 <=> r > current /\ r # current + 1
      BY <1>3
    <3>. QED
      BY <2>2, <3>1, <3>2 DEF ReleasesInOrder
  <2>. QED
    BY <1>2, <2>1, <2>2
<1>9. ReleaseInStep'
  <2>1. \A r \in Releases : release'[r] = release[r] \/ release'[r] = "created"
    BY <1>2
  <2>. QED
    BY <1>1, <2>1 DEF ReleaseInStep, Resources
<1>10. CallersInStep'
  <2>1. current' >= current /\ current' >= 1 /\ current' \in Int
    BY <1>3
  <2>2. pc'[c] = step /\ waits'[c] = current'
    BY <1>2
  <2>3. \A d \in Callers \ {c} : pc'[d] = pc[d] /\ waits'[d] = waits[d]
    BY <1>2
  <2>5. ASSUME NEW d \in Callers, pc'[d] \in Waiting PROVE waits'[d] \in 1..current'
    <3>1. CASE d = c
      <4>1. waits'[d] = current'
        BY <2>2, <3>1
      <4>2. current' \in 1..current'
        BY <2>1
      <4>. QED
        BY <4>1, <4>2
    <3>2. CASE d # c
      <4>1. waits[d] \in 1..current
        BY <2>3, <2>5, <3>2 DEF CallersInStep
      <4>. QED
        BY <2>1, <2>3, <3>2, <4>1
    <3>. QED
      BY <3>1, <3>2
  <2>6. ASSUME NEW d \in Callers PROVE pc'[d] \notin Verifying
    BY <2>2, <2>3 DEF Verifying, Waiting
  <2>. QED
    BY <1>1, <2>5, <2>6 DEF CallersInStep, Verifying
<1>. QED
  BY <1>4, <1>5, <1>6, <1>7, <1>8, <1>9, <1>10

\* ... and every step of a caller, the release task or the event loop keeps it so.
LEMMA RuntimeInvStep == TypeOK /\ RuntimeInv /\ [Next]_vars => RuntimeInv'
<1> SUFFICES ASSUME TypeOK, RuntimeInv, [Next]_vars PROVE RuntimeInv'
  OBVIOUS
<1>. /\ current \in 0..MaxReleases /\ MaxReleases \in Nat /\ Releases = 1..MaxReleases
     /\ release \in [Releases -> Stages]
     /\ pc \in [Callers -> Steps]
     /\ waits \in [Callers -> 0..MaxReleases]
     /\ resource \in [Resources -> {"absent", "open", "closing", "closed"}]
     /\ owned \subseteq Resources
  BY RuntimeAssumption DEF TypeOK, Releases
<1>. USE DEF RuntimeInv
<1>1. ASSUME NEW c \in Callers, Start(c)
      PROVE  RuntimeInv'
  <2>1. NoOrphan'
    BY <1>1 DEF Start, NoOrphan, StateIsHonest, OneRelease, NothingSkipped, ReleasesInOrder
  <2>2. StateIsHonest'
    BY <1>1 DEF Start, NoOrphan, StateIsHonest, OneRelease, NothingSkipped, ReleasesInOrder
  <2>3. OneRelease'
    BY <1>1 DEF Start, NoOrphan, StateIsHonest, OneRelease, NothingSkipped, Running
  <2>4. NothingSkipped'
    <3>1. current = 0
      BY <1>1 DEF Start, CallersInStep
    <3>2. \A r \in Releases : release[r] = "unborn"
      BY <3>1 DEF ReleasesInOrder
    <3>. QED
      BY <1>1, <3>2 DEF Start, NothingSkipped
  <2>5. ReleasesInOrder'
    BY <1>1 DEF Start, NoOrphan, StateIsHonest, OneRelease, NothingSkipped, ReleasesInOrder
  <2>6. ReleaseInStep'
    BY <1>1 DEF Start, NoOrphan, StateIsHonest, OneRelease, ReleaseInStep, Running
  <2>7. CallersInStep'
    BY <1>1 DEF Start, NoOrphan, StateIsHonest, OneRelease, CallersInStep, Verifying, Waiting
  <2>. QED
    BY <2>1, <2>2, <2>3, <2>4, <2>5, <2>6, <2>7
<1>2. ASSUME NEW c \in Callers, DatabaseVerified(c)
      PROVE  RuntimeInv'
  <2>1. NoOrphan'
    BY <1>2 DEF DatabaseVerified, NoOrphan, StateIsHonest, OneRelease, NothingSkipped
  <2>2. StateIsHonest'
    BY <1>2 DEF DatabaseVerified, NoOrphan, StateIsHonest, OneRelease, CallersInStep, Verifying
  <2>3. OneRelease'
    BY <1>2 DEF DatabaseVerified, NoOrphan, StateIsHonest, OneRelease, NothingSkipped, Running
  <2>4. NothingSkipped'
    <3>1. current = 0
      BY <1>2 DEF DatabaseVerified, CallersInStep, Verifying
    <3>2. \A r \in Releases : release[r] = "unborn"
      BY <3>1 DEF ReleasesInOrder
    <3>. QED
      BY <1>2, <3>2 DEF DatabaseVerified, NothingSkipped
  <2>5. ReleasesInOrder'
    BY <1>2 DEF DatabaseVerified, NoOrphan, StateIsHonest, OneRelease, ReleasesInOrder
  <2>6. ReleaseInStep'
    BY <1>2 DEF DatabaseVerified, NoOrphan, ReleaseInStep, CallersInStep, Verifying
  <2>7. CallersInStep'
    <3>1. state = "starting" /\ \A d \in Callers \ {c} : pc[d] \notin Verifying
      BY <1>2 DEF DatabaseVerified, CallersInStep, Verifying
    <3>2. current = 0 /\ \A x \in Resources : resource[x] \in {"absent", "open"}
      BY <3>1 DEF CallersInStep
    <3>3. owned' = Resources
      <4>1. "postgres" \in owned
        BY <1>2 DEF DatabaseVerified, CallersInStep, Verifying
      <4>. QED
        BY <1>2, <4>1 DEF DatabaseVerified, Resources
    <3>4. /\ state' = "starting" /\ current' = 0
          /\ pc' = [pc EXCEPT ![c] = "verifying redis"]
          /\ UNCHANGED waits
      BY <1>2, <3>1, <3>2 DEF DatabaseVerified
    <3>5. \A x \in Resources : resource'[x] \in {"absent", "open"}
      BY <1>2, <3>2 DEF DatabaseVerified, TypeOK
    <3>6. \A d \in Callers \ {c} : pc'[d] = pc[d] /\ pc'[d] \notin Verifying
      BY <3>1, <3>4 DEF TypeOK
    <3>7. pc'[c] = "verifying redis" /\ "postgres" \in Resources
      BY <3>4 DEF TypeOK, Resources
    <3>8. \A d \in Callers : pc'[d] \in Waiting => pc[d] \in Waiting
      BY <3>6, <3>7 DEF Waiting
    <3>9. \A d \in Callers : pc'[d] \in Waiting => waits'[d] \in 1..current'
      BY <3>2, <3>4, <3>8 DEF CallersInStep
    <3>10. \A d \in Callers : pc'[d] \in Verifying => d = c
      BY <3>6
    <3>. QED
      BY <3>3, <3>4, <3>5, <3>7, <3>9, <3>10 DEF CallersInStep
  <2>. QED
    BY <2>1, <2>2, <2>3, <2>4, <2>5, <2>6, <2>7
<1>3. ASSUME NEW c \in Callers, RedisVerified(c)
      PROVE  RuntimeInv'
  <2>1. NoOrphan'
    BY <1>3 DEF RedisVerified, NoOrphan, StateIsHonest, OneRelease, NothingSkipped
  <2>2. StateIsHonest'
    BY <1>3 DEF RedisVerified, NoOrphan, StateIsHonest, OneRelease, CallersInStep, Verifying
  <2>3. OneRelease'
    BY <1>3 DEF RedisVerified, NoOrphan, OneRelease, CallersInStep, Verifying, Running
  <2>4. NothingSkipped'
    BY <1>3 DEF RedisVerified, NoOrphan, StateIsHonest, OneRelease, NothingSkipped
  <2>5. ReleasesInOrder'
    BY <1>3 DEF RedisVerified, NoOrphan, StateIsHonest, OneRelease, ReleasesInOrder
  <2>6. ReleaseInStep'
    <3>1. owned # {}
      BY <1>3 DEF RedisVerified, CallersInStep, Verifying
    <3>. QED
      BY <1>3, <3>1 DEF RedisVerified, ReleaseInStep
  <2>7. CallersInStep'
    BY <1>3 DEF RedisVerified, NoOrphan, StateIsHonest, CallersInStep, Verifying, Waiting
  <2>. QED
    BY <2>1, <2>2, <2>3, <2>4, <2>5, <2>6, <2>7
<1>4. ASSUME NEW c \in Callers, StartFails(c)
      PROVE  RuntimeInv'
  <2>1. Join(c, "waiting in start") /\ "waiting in start" \in Waiting /\ state' = "stopping"
    BY <1>4 DEF StartFails, Waiting
  <2>2. state # "stopped"
    BY <1>4 DEF StartFails, CallersInStep
  <2>3. \A d \in Callers \ {c} : pc[d] \notin Verifying
    BY <1>4 DEF StartFails, CallersInStep, StateIsHonest, NoOrphan, Resources
  <2>. QED
    BY <2>1, <2>2, <2>3, JoinKeepsInvariant
<1>5. ASSUME NEW c \in Callers, StopNothing(c)
      PROVE  RuntimeInv'
  <2>1. NoOrphan'
    BY <1>5 DEF StopNothing, NoOrphan, StateIsHonest, OneRelease, NothingSkipped
  <2>2. StateIsHonest'
    BY <1>5 DEF StopNothing, NoOrphan, StateIsHonest, OneRelease, NothingSkipped, CallersInStep
  <2>3. OneRelease'
    BY <1>5 DEF StopNothing, NoOrphan, StateIsHonest, OneRelease, NothingSkipped, Running
  <2>4. NothingSkipped'
    BY <1>5 DEF StopNothing, NoOrphan, StateIsHonest, OneRelease, NothingSkipped
  <2>5. ReleasesInOrder'
    BY <1>5 DEF StopNothing, NoOrphan, StateIsHonest, OneRelease, ReleasesInOrder
  <2>6. ReleaseInStep'
    BY <1>5 DEF StopNothing, NoOrphan, StateIsHonest, OneRelease, NothingSkipped, ReleaseInStep
  <2>7. CallersInStep'
    BY <1>5 DEF StopNothing, NoOrphan, StateIsHonest, CallersInStep, Verifying, Waiting
  <2>. QED
    BY <2>1, <2>2, <2>3, <2>4, <2>5, <2>6, <2>7
<1>6. ASSUME NEW c \in Callers, Stop(c)
      PROVE  RuntimeInv'
  <2>1. Join(c, "waiting in stop") /\ "waiting in stop" \in Waiting /\ state' = "stopping"
    BY <1>6 DEF Stop, Waiting
  <2>2. state # "stopped"
    BY <1>6 DEF Stop
  <2>3. \A d \in Callers \ {c} : pc[d] \notin Verifying
    BY <1>6 DEF Stop, CallersInStep, StateIsHonest, NoOrphan, Resources
  <2>. QED
    BY <2>1, <2>2, <2>3, JoinKeepsInvariant
<1>7. ASSUME NEW c \in Callers, Refused(c)
      PROVE  RuntimeInv'
  <2>1. NoOrphan'
    BY <1>7 DEF Refused, NoOrphan, StateIsHonest, OneRelease, NothingSkipped, ReleasesInOrder
  <2>2. StateIsHonest'
    BY <1>7 DEF Refused, NoOrphan, StateIsHonest, OneRelease, NothingSkipped, ReleasesInOrder
  <2>3. OneRelease'
    BY <1>7 DEF Refused, NoOrphan, StateIsHonest, OneRelease, NothingSkipped, Running
  <2>4. NothingSkipped'
    BY <1>7 DEF Refused, NoOrphan, StateIsHonest, OneRelease, NothingSkipped, ReleasesInOrder
  <2>5. ReleasesInOrder'
    BY <1>7 DEF Refused, NoOrphan, StateIsHonest, OneRelease, NothingSkipped, ReleasesInOrder
  <2>6. ReleaseInStep'
    BY <1>7 DEF Refused, NoOrphan, StateIsHonest, OneRelease, NothingSkipped, ReleaseInStep
  <2>7. CallersInStep'
    BY <1>7 DEF Refused, NoOrphan, StateIsHonest, OneRelease, CallersInStep, Verifying, Waiting
  <2>. QED
    BY <2>1, <2>2, <2>3, <2>4, <2>5, <2>6, <2>7
<1>8. ASSUME NEW c \in Callers, CancelWait(c)
      PROVE  RuntimeInv'
  <2>1. NoOrphan'
    BY <1>8 DEF CancelWait, NoOrphan, StateIsHonest, OneRelease, NothingSkipped
  <2>2. StateIsHonest'
    BY <1>8 DEF CancelWait, NoOrphan, StateIsHonest, OneRelease, NothingSkipped
  <2>3. OneRelease'
    BY <1>8 DEF CancelWait, NoOrphan, StateIsHonest, OneRelease, NothingSkipped, Running
  <2>4. NothingSkipped'
    BY <1>8 DEF CancelWait, NoOrphan, StateIsHonest, OneRelease, NothingSkipped
  <2>5. ReleasesInOrder'
    BY <1>8 DEF CancelWait, NoOrphan, StateIsHonest, OneRelease, ReleasesInOrder
  <2>6. ReleaseInStep'
    BY <1>8 DEF CancelWait, NoOrphan, StateIsHonest, OneRelease, NothingSkipped, ReleaseInStep
  <2>7. CallersInStep'
    BY <1>8 DEF CancelWait, NoOrphan, StateIsHonest, OneRelease, NothingSkipped, CallersInStep
  <2>. QED
    BY <2>1, <2>2, <2>3, <2>4, <2>5, <2>6, <2>7
<1>9. ASSUME NEW c \in Callers, WaitEnds(c)
      PROVE  RuntimeInv'
  <2>1. NoOrphan'
    BY <1>9 DEF WaitEnds, TaskDone, NoOrphan, StateIsHonest, OneRelease, NothingSkipped
  <2>2. StateIsHonest'
    BY <1>9 DEF WaitEnds, TaskDone, NoOrphan, StateIsHonest, OneRelease, NothingSkipped
  <2>3. OneRelease'
    BY <1>9 DEF WaitEnds, TaskDone, NoOrphan, StateIsHonest, OneRelease, Running
  <2>4. NothingSkipped'
    BY <1>9 DEF WaitEnds, TaskDone, NoOrphan, StateIsHonest, OneRelease, NothingSkipped
  <2>5. ReleasesInOrder'
    BY <1>9 DEF WaitEnds, TaskDone, NoOrphan, StateIsHonest, OneRelease, ReleasesInOrder
  <2>6. ReleaseInStep'
    BY <1>9 DEF WaitEnds, TaskDone, NoOrphan, StateIsHonest, OneRelease, ReleaseInStep
  <2>7. CallersInStep'
    BY <1>9 DEF WaitEnds, TaskDone, NoOrphan, CallersInStep, Verifying, Resources
  <2>. QED
    BY <2>1, <2>2, <2>3, <2>4, <2>5, <2>6, <2>7
<1>10. ASSUME NEW c \in Callers, CallAgain(c)
      PROVE  RuntimeInv'
  <2>1. NoOrphan'
    BY <1>10 DEF CallAgain, NoOrphan, StateIsHonest, OneRelease, NothingSkipped
  <2>2. StateIsHonest'
    BY <1>10 DEF CallAgain, NoOrphan, StateIsHonest, OneRelease, NothingSkipped
  <2>3. OneRelease'
    BY <1>10 DEF CallAgain, NoOrphan, StateIsHonest, OneRelease, NothingSkipped, Running
  <2>4. NothingSkipped'
    BY <1>10 DEF CallAgain, NoOrphan, StateIsHonest, OneRelease, NothingSkipped
  <2>5. ReleasesInOrder'
    BY <1>10 DEF CallAgain, NoOrphan, StateIsHonest, OneRelease, ReleasesInOrder
  <2>6. ReleaseInStep'
    BY <1>10 DEF CallAgain, NoOrphan, StateIsHonest, OneRelease, NothingSkipped, ReleaseInStep
  <2>7. CallersInStep'
    BY <1>10 DEF CallAgain, NoOrphan, StateIsHonest, CallersInStep, Verifying, Waiting
  <2>. QED
    BY <2>1, <2>2, <2>3, <2>4, <2>5, <2>6, <2>7
<1>11. ASSUME NEW r \in Releases, ReleaseBegins(r)
      PROVE  RuntimeInv'
  <2>1. NoOrphan'
    BY <1>11 DEF ReleaseBegins, Advance, NextStage, FinalState, NoOrphan, Resources
  <2>2. StateIsHonest'
    BY <1>11 DEF ReleaseBegins, Advance, NextStage, FinalState, StateIsHonest, OneRelease,
      Running
  <2>3. OneRelease'
    <3>1. \A q \in Releases : Running(q) => q = r
      BY <1>11 DEF ReleaseBegins, OneRelease, Running
    <3>2. \A q \in Releases \ {r} : release'[q] = release[q]
      BY <1>11 DEF ReleaseBegins, Advance
    <3>3. r = current /\ state = "stopping"
      BY <1>11 DEF ReleaseBegins, OneRelease, Running
    <3>4. Running(r)' => state' = state
      BY <1>11 DEF ReleaseBegins, Advance, Running
    <3>5. current' = current
      BY <1>11 DEF ReleaseBegins, Advance
    <3>. QED
      BY <3>1, <3>2, <3>3, <3>4, <3>5 DEF OneRelease, Running
  <2>4. NothingSkipped'
    BY <1>11 DEF ReleaseBegins, Advance, NextStage, FinalState, NothingSkipped, Resources
  <2>5. ReleasesInOrder'
    BY <1>11 DEF ReleaseBegins, Advance, NextStage, FinalState, NoOrphan, ReleasesInOrder
  <2>6. ReleaseInStep'
    BY <1>11 DEF ReleaseBegins, Advance, NextStage, FinalState, NoOrphan, ReleaseInStep,
      Resources
  <2>7. CallersInStep'
    BY <1>11 DEF ReleaseBegins, Advance, NextStage, FinalState, OneRelease, CallersInStep,
      Running
  <2>. QED
    BY <2>1, <2>2, <2>3, <2>4, <2>5, <2>6, <2>7
<1>12. ASSUME NEW r \in Releases, NEW x \in Resources, Released(r, x)
      PROVE  RuntimeInv'
  <2>1. NoOrphan'
    BY <1>12 DEF Released, Advance, NextStage, FinalState, NoOrphan, StateIsHonest, Resources
  <2>2. StateIsHonest'
    BY <1>12 DEF Released, Advance, NextStage, FinalState, StateIsHonest, ReleaseInStep
  <2>3. OneRelease'
    BY <1>12 DEF Released, Advance, NextStage, FinalState, OneRelease, Verifying, Resources,
      Running
  <2>4. NothingSkipped'
    BY <1>12 DEF Released, Advance, NextStage, FinalState, NothingSkipped, ReleaseInStep,
      Resources
  <2>5. ReleasesInOrder'
    BY <1>12 DEF Released, Advance, NextStage, FinalState, NoOrphan, ReleasesInOrder, Resources
  <2>6. ReleaseInStep'
    BY <1>12 DEF Released, Advance, NextStage, FinalState, OneRelease, ReleaseInStep,
      Resources, Running
  <2>7. CallersInStep'
    BY <1>12 DEF Released, Advance, NextStage, FinalState, ReleaseInStep, CallersInStep,
      Verifying
  <2>. QED
    BY <2>1, <2>2, <2>3, <2>4, <2>5, <2>6, <2>7
<1>13. ASSUME NEW r \in Releases, NEW x \in Resources, ReleaseFails(r, x)
      PROVE  RuntimeInv'
  <2>1. NoOrphan'
    BY <1>13 DEF ReleaseFails, Advance, NextStage, FinalState, NoOrphan, Resources
  <2>2. StateIsHonest'
    BY <1>13 DEF ReleaseFails, Advance, NextStage, FinalState, StateIsHonest, ReleaseInStep
  <2>3. OneRelease'
    BY <1>13 DEF ReleaseFails, Advance, NextStage, FinalState, OneRelease, Verifying,
      Resources, Running
  <2>4. NothingSkipped'
    BY <1>13 DEF ReleaseFails, Advance, NextStage, FinalState, NothingSkipped, ReleaseInStep,
      Resources
  <2>5. ReleasesInOrder'
    BY <1>13 DEF ReleaseFails, Advance, NextStage, FinalState, ReleasesInOrder, Resources
  <2>6. ReleaseInStep'
    BY <1>13 DEF ReleaseFails, Advance, NextStage, FinalState, ReleaseInStep, Resources
  <2>7. CallersInStep'
    BY <1>13 DEF ReleaseFails, Advance, NextStage, FinalState, ReleaseInStep, CallersInStep
  <2>. QED
    BY <2>1, <2>2, <2>3, <2>4, <2>5, <2>6, <2>7
<1>14. ASSUME NEW r \in Releases, ReleaseCancelled(r)
      PROVE  RuntimeInv'
  <2>1. NoOrphan'
    BY <1>14 DEF ReleaseCancelled, NoOrphan, StateIsHonest, OneRelease, NothingSkipped
  <2>2. StateIsHonest'
    BY <1>14 DEF ReleaseCancelled, NoOrphan, StateIsHonest, OneRelease, NothingSkipped
  <2>3. OneRelease'
    BY <1>14 DEF ReleaseCancelled, NoOrphan, StateIsHonest, OneRelease, Resources, Running
  <2>4. NothingSkipped'
    BY <1>14 DEF ReleaseCancelled, NoOrphan, StateIsHonest, OneRelease, NothingSkipped
  <2>5. ReleasesInOrder'
    BY <1>14 DEF ReleaseCancelled, NoOrphan, StateIsHonest, ReleasesInOrder, Resources
  <2>6. ReleaseInStep'
    BY <1>14 DEF ReleaseCancelled, NoOrphan, StateIsHonest, ReleaseInStep, Resources
  <2>7. CallersInStep'
    BY <1>14 DEF ReleaseCancelled, NoOrphan, StateIsHonest, OneRelease, CallersInStep
  <2>. QED
    BY <2>1, <2>2, <2>3, <2>4, <2>5, <2>6, <2>7
<1>15. ASSUME NEW c \in Callers, NothingCreated(c)
      PROVE  RuntimeInv'
  <2>1. Join(c, "waiting in start") /\ "waiting in start" \in Waiting /\ state' = "stopping"
    BY <1>15 DEF NothingCreated, Waiting
  <2>2. state # "stopped"
    BY <1>15 DEF NothingCreated
  <2>3. \A d \in Callers \ {c} : pc[d] \notin Verifying
    BY <1>15 DEF NothingCreated, CallersInStep
  <2>. QED
    BY <2>1, <2>2, <2>3, JoinKeepsInvariant
<1>16. CASE UNCHANGED vars
  BY <1>16 DEF vars, NoOrphan, StateIsHonest, OneRelease, NothingSkipped, ReleasesInOrder,
    ReleaseInStep, CallersInStep, Running
<1>. QED
  BY <1>1, <1>2, <1>3, <1>4, <1>5, <1>6, <1>7, <1>8, <1>9, <1>10, <1>11, <1>12, <1>13, <1>14,
    <1>15, <1>16 DEF Next, CallerStep, ReleaseStep

\* The inductive invariant holds in every reachable state.
THEOREM RuntimeInvariant == Spec => []Inductive
<1>1. Inductive /\ [Next]_vars => Inductive'
  BY TypeStep, RuntimeInvStep DEF Inductive
<1>. QED
  BY <1>1, TypeInit, RuntimeInvInit, PTL DEF Spec, Inductive

\* Whatever fails, times out or is cancelled, and however many tasks call
\* stop(), nothing open is orphaned.
THEOREM NothingOrphaned == Spec => []NoOrphan
  BY RuntimeInvariant, PTL DEF Inductive, RuntimeInv

\* Concurrent callers share one release.
THEOREM ReleasesAreShared == Spec => []OneRelease
  BY RuntimeInvariant, PTL DEF Inductive, RuntimeInv

\* READY and STOPPED are what they say.
THEOREM StateMeansWhatItSays == Spec => []StateIsHonest
  BY RuntimeInvariant, PTL DEF Inductive, RuntimeInv

\* A release that has come to its end left nothing open that was owned then: a
\* failure, a timeout or a cancellation of one close never skips the next.
THEOREM ReleasesSkipNothing == Spec => []NothingSkipped
  BY RuntimeInvariant, PTL DEF Inductive, RuntimeInv

\* A call that waits ends when its release is over, and never before.
THEOREM CallersAreNotAbandoned == Spec => NotAbandoned
<1>1. ASSUME TypeOK, RuntimeInv, NEW c \in Callers, WaitEnds(c)
      PROVE  Over(c)
  <2>1. ~Running(waits[c]) /\ release[waits[c]] \in {"done", "cancelled"}
    BY <1>1 DEF WaitEnds, TaskDone, Running
  <2>2. waits[c] \in 1..current
    BY <1>1 DEF WaitEnds, RuntimeInv, CallersInStep
  <2>3. current \in 0..MaxReleases /\ MaxReleases \in Nat
    BY <1>1, RuntimeAssumption DEF TypeOK
  <2>4. current # 0 /\ waits[c] \in Releases
    BY <2>2, <2>3 DEF Releases
  <2>5. state \in {"stopping", "stopped"}
    BY <1>1, <2>4 DEF RuntimeInv, CallersInStep, TypeOK, RuntimeStates
  <2>6. state = "stopped" => owned = {}
    BY <1>1 DEF RuntimeInv, StateIsHonest
  <2>7. release[waits[c]] = "done" => owned # {} \/ state = "stopped"
    BY <1>1, <2>4 DEF RuntimeInv, ReleaseInStep
  <2>. QED
    BY <2>1, <2>5, <2>6, <2>7 DEF Over
<1>2. ASSUME NEW c \in Callers, TypeOK, [Next]_vars, pc[c] \in Waiting, pc'[c] \notin Waiting
      PROVE  WaitEnds(c)
  <2>1. CASE UNCHANGED vars
    BY <1>2, <2>1 DEF vars
  <2>2. ASSUME NEW r \in Releases, ReleaseStep(r) \/ ReleaseCancelled(r) PROVE FALSE
    BY <1>2, <2>2 DEF ReleaseStep, ReleaseBegins, Released, ReleaseFails, ReleaseCancelled,
      Advance
  <2>3. ASSUME NEW d \in Callers, CallerStep(d), d # c PROVE FALSE
    BY <1>2, <2>3 DEF CallerStep, Start, NothingCreated, DatabaseVerified, RedisVerified, StartFails,
      StopNothing,
       Stop, Join, Refused, CancelWait, WaitEnds, CallAgain, TypeOK
  <2>4. CASE CallerStep(c)
    BY <1>2, <2>4 DEF CallerStep, Start, NothingCreated, DatabaseVerified, RedisVerified, StartFails,
      StopNothing,
       Stop, Refused, CancelWait, CallAgain, Waiting, Verifying
  <2>. QED
    BY <1>2, <2>1, <2>2, <2>3, <2>4 DEF Next
<1>3. TypeOK /\ RuntimeInv /\ [Next]_vars =>
        [ \A c \in Callers : pc[c] \in Waiting /\ pc'[c] \notin Waiting => Over(c) ]_vars
  BY <1>1, <1>2
<1>. QED
  BY <1>3, TypeCorrect, RuntimeInvariant, PTL DEF Spec, Inductive, NotAbandoned
=============================================================================
