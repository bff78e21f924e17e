--------------------- MODULE WorkflowLifecycle_proofs ---------------------
(***************************************************************************)
(* Proofs about WorkflowLifecycle, for any number of definitions, authors, *)
(* callers and sessions.                                                   *)
(***************************************************************************)
EXTENDS WorkflowLifecycle, TLAPS

(***************************************************************************)
(* Types                                                                   *)
(***************************************************************************)

\* Definitions begin as drafts with nothing published and nothing running.
LEMMA TypeInit == Init => TypeOK
  BY LifecycleAssumption DEF Init, TypeOK, Times, Requests, Outcomes

\* Every step keeps the tables within their CHECK constraints.
LEMMA TypeStep == TypeOK /\ [Next]_vars => TypeOK'
<1>. SUFFICES ASSUME TypeOK, [Next]_vars PROVE TypeOK'
  OBVIOUS
<1>. USE LifecycleAssumption DEF definitionVars, authorVars, callerVars
<1>1. ASSUME NEW u \in Authors, NEW d \in Definitions, Read(u, d) PROVE TypeOK'
  BY <1>1 DEF Read, TypeOK
<1>2. ASSUME NEW u \in Authors, NEW step \in {"editing", "publishing", "archiving"},
             Begin(u, step)
      PROVE  TypeOK'
  <2>1. clock + 1 \in Times
    BY <1>2 DEF Begin, TypeOK, Times
  <2>. QED
    BY <1>2, <2>1 DEF Begin, TypeOK
<1>3. ASSUME NEW u \in Authors, Rollback(u) PROVE TypeOK'
  BY <1>3 DEF Rollback, End, TypeOK
<1>4. ASSUME NEW u \in Authors, Edit(u) PROVE TypeOK'
  BY <1>4 DEF Edit, End, TypeOK
<1>5. ASSUME NEW u \in Authors, LockForPublish(u) PROVE TypeOK'
  BY <1>5 DEF LockForPublish, TypeOK
<1>6. ASSUME NEW u \in Authors, Publish(u) PROVE TypeOK'
  <2>1. PICK n \in Numbers :
          /\ versions' = versions \cup
               {[definition |-> target[u], version_number |-> n,
                 graph_json |-> Snapshot(u), published_at |-> now[u]]}
          /\ published' = [published EXCEPT ![target[u]] = n]
    BY <1>6 DEF Publish
  <2>2. versions' \subseteq Versions
    BY <2>1 DEF TypeOK, Versions, Snapshot
  <2>3. published' \in [Definitions -> 0..MaxTime]
    BY <2>1 DEF TypeOK, Numbers
  <2>. QED
    BY <1>6, <2>2, <2>3 DEF Publish, End, TypeOK
<1>7. ASSUME NEW u \in Authors, Archive(u) PROVE TypeOK'
  BY <1>7 DEF Archive, End, TypeOK
<1>8. ASSUME NEW c \in Callers, NEW s \in Sessions, NEW d \in Definitions, Resolve(c, s, d)
      PROVE  TypeOK'
  BY <1>8 DEF Resolve, TypeOK, Requests
<1>9. ASSUME NEW c \in Callers, ShareDefinition(c) PROVE TypeOK'
  BY <1>9 DEF ShareDefinition, TypeOK, Outcomes
<1>10. ASSUME NEW c \in Callers, LockSession(c) PROVE TypeOK'
  BY <1>10 DEF LockSession, Active, TypeOK
<1>11. ASSUME NEW c \in Callers, Start(c) PROVE TypeOK'
  <2>1. executions' \subseteq Executions
    <3>1. CASE UNCHANGED executions
      BY <3>1 DEF TypeOK
    <3>2. ASSUME NEW i \in Ids, Insert(c, i) PROVE executions' \subseteq Executions
      <4>1. want[c] \in Requests /\ executions \subseteq Executions
        BY DEF TypeOK
      <4>2. /\ want[c].session_ref \in Sessions /\ want[c].definition \in Definitions
            /\ want[c].version_number \in 0..MaxTime
        BY <4>1 DEF Requests
      <4>3. [id |-> i, session_ref |-> want[c].session_ref,
             definition |-> want[c].definition,
             version_number |-> want[c].version_number, active |-> TRUE] \in Executions
        BY <4>2, Zenon DEF Executions
      <4>. QED
        BY <3>2, <4>1, <4>3, Zenon DEF Insert
    <3>. QED
      BY <1>11, <3>1, <3>2 DEF Start
  <2>. QED
    BY <1>11, <2>1 DEF Start, TypeOK, Outcomes
<1>12. ASSUME NEW c \in Callers, Abort(c) PROVE TypeOK'
  BY <1>12 DEF Abort, TypeOK
<1>13. ASSUME NEW c \in Callers, Retry(c) PROVE TypeOK'
  BY <1>13 DEF Retry, TypeOK, Outcomes
<1>14. ASSUME NEW e \in executions, EndExecution(e) PROVE TypeOK'
  BY <1>14 DEF EndExecution, TypeOK, Executions
<1>15. CASE UNCHANGED vars
  BY <1>15 DEF vars, TypeOK
<1>. QED
  BY <1>1, <1>2, <1>3, <1>4, <1>5, <1>6, <1>7, <1>8, <1>9, <1>10, <1>11, <1>12, <1>13,
     <1>14, <1>15 DEF Next, AuthorStep, CallerStep

(***************************************************************************)
(* Stamps and ETags                                                        *)
(***************************************************************************)

\* The end of an author's transaction, with or without what it writes: its
\* NOW() is nobody else's, so the stamps of the others stay fresh.
LEMMA StampsAtEnd ==
  ASSUME TypeOK, StampsAreFresh, NEW u \in Authors, InFlight(u), End(u),
         UNCHANGED <<now, clock, seen>>,
         updated_at' \in {updated_at, [updated_at EXCEPT ![target[u]] = now[u]]},
         \A v \in versions' : v \in versions \/ v.published_at = now[u]
  PROVE  StampsAreFresh'
<1>1. now[u] <= clock
  BY DEF StampsAreFresh
<1>2. \A d \in Definitions : updated_at'[d] = updated_at[d] \/ updated_at'[d] = now[u]
  BY DEF TypeOK
<1>3. \A d \in Definitions : updated_at'[d] <= clock'
  BY <1>1, <1>2 DEF StampsAreFresh
<1>4. \A v \in versions' : v.published_at <= clock'
  BY <1>1 DEF StampsAreFresh
<1>5. ASSUME NEW w \in Authors, InFlight(w)' PROVE InFlight(w) /\ w # u
  BY <1>5 DEF End, InFlight, TypeOK
<1>6. ASSUME NEW w \in Authors, InFlight(w)'
      PROVE  /\ \A d \in Definitions : updated_at'[d] # now'[w]
             /\ \A x \in Authors : seen'[x].updated_at # now'[w]
             /\ \A x \in Authors : InFlight(x)' /\ x # w => now'[x] # now'[w]
  <2>1. InFlight(w) /\ w # u /\ now[w] # now[u]
    BY <1>5, <1>6 DEF StampsAreFresh
  <2>2. \A d \in Definitions : updated_at[d] # now[w]
    BY <2>1 DEF StampsAreFresh
  <2>3. \A x \in Authors : InFlight(x)' => InFlight(x)
    BY <1>5
  <2>4. \A x \in Authors : seen[x].updated_at # now[w]
    BY <2>1 DEF StampsAreFresh
  <2>5. \A x \in Authors : InFlight(x) /\ x # w => now[x] # now[w]
    BY <2>1 DEF StampsAreFresh
  <2>. QED
    BY <1>2, <2>1, <2>2, <2>3, <2>4, <2>5
<1>7. \A w \in Authors : seen'[w].updated_at <= clock' /\ now'[w] <= clock'
  BY DEF StampsAreFresh
<1>. QED
  BY <1>3, <1>4, <1>6, <1>7 DEF StampsAreFresh, InFlight

\* The same end, as the ETags of the others see it: an ETag that was current
\* stays so only if the definition was not written.
LEMMA EtagsAtEnd ==
  ASSUME TypeOK, StampsAreFresh, EtagTellsAll, NEW u \in Authors, InFlight(u), End(u),
         UNCHANGED <<now, seen, target>>,
         updated_at' = [updated_at EXCEPT ![target[u]] = now[u]],
         \A d \in Definitions : d # target[u] => draft_graph'[d] = draft_graph[d],
         \A v \in versions' : v \in versions \/ v.definition = target[u]
  PROVE  EtagTellsAll'
<1>. SUFFICES ASSUME NEW w \in Authors, seen[w].updated_at = updated_at'[target[w]]
     PROVE  /\ seen[w].draft_graph = draft_graph'[target[w]]
            /\ InFlight(w)' => \A v \in versions' :
                 v.definition = target[w] => v.published_at < now[w]
  BY DEF EtagTellsAll
<1>1. target[w] \in Definitions /\ target[u] \in Definitions
  BY DEF TypeOK
<1>2. seen[w].updated_at # now[u]
  BY DEF StampsAreFresh
<1>3. target[w] # target[u] /\ updated_at'[target[w]] = updated_at[target[w]]
  BY <1>1, <1>2 DEF TypeOK
<1>4. InFlight(w)' => InFlight(w)
  BY DEF InFlight, End, TypeOK
<1>. QED
  BY <1>1, <1>3, <1>4 DEF EtagTellsAll

\* An author's transaction that ends, or takes its lock, and writes nothing.
LEMMA StampsUntouched ==
  ASSUME StampsAreFresh, EtagTellsAll,
         \A w \in Authors : InFlight(w)' => InFlight(w),
         UNCHANGED <<definitionVars, versions, clock, target, seen, now>>
  PROVE  StampsAreFresh' /\ EtagTellsAll'
BY DEF StampsAreFresh, EtagTellsAll, definitionVars

\* What a write reads as the author's own stamp is fresh for every step.
LEMMA StampsStep == ASSUME TypeOK, LifecycleInv, [Next]_vars
                    PROVE  StampsAreFresh' /\ EtagTellsAll'
<1>. USE DEF LifecycleInv
<1>1. ASSUME NEW u \in Authors, NEW d \in Definitions, Read(u, d)
      PROVE  StampsAreFresh' /\ EtagTellsAll'
  <2>1. /\ seen'[u] = [draft_graph |-> draft_graph[d], updated_at |-> updated_at[d]]
        /\ target'[u] = d
        /\ \A w \in Authors : w # u => seen'[w] = seen[w] /\ target'[w] = target[w]
    BY <1>1 DEF Read, TypeOK
  <2>2. /\ \A w \in Authors : InFlight(w)' <=> InFlight(w)
        /\ ~InFlight(u)
        /\ UNCHANGED <<now, clock, updated_at, draft_graph, versions>>
    BY <1>1 DEF Read, InFlight, definitionVars
  <2>3. \A w \in Authors : seen'[w].updated_at = updated_at[d]
                           \/ seen'[w].updated_at = seen[w].updated_at
    BY <2>1
  <2>4. StampsAreFresh'
    BY <2>2, <2>3 DEF StampsAreFresh
  <2>5. EtagTellsAll'
    BY <2>1, <2>2 DEF EtagTellsAll
  <2>. QED
    BY <2>4, <2>5
<1>2. ASSUME NEW u \in Authors, NEW step \in {"editing", "publishing", "archiving"},
             Begin(u, step)
      PROVE  StampsAreFresh' /\ EtagTellsAll'
  <2>1. /\ now'[u] = clock + 1 /\ clock' = clock + 1 /\ clock \in Nat
        /\ \A w \in Authors : w # u => now'[w] = now[w] /\ (InFlight(w)' <=> InFlight(w))
        /\ UNCHANGED <<updated_at, draft_graph, versions, seen, target>>
    BY <1>2, LifecycleAssumption DEF Begin, InFlight, TypeOK, Times, definitionVars
  <2>2. /\ \A d \in Definitions : updated_at[d] \in Int /\ updated_at[d] <= clock
        /\ \A w \in Authors : /\ seen[w].updated_at \in Int /\ seen[w].updated_at <= clock
                              /\ now[w] \in Int /\ now[w] <= clock
        /\ \A v \in versions : v.published_at \in Int /\ v.published_at <= clock
    BY LifecycleAssumption DEF TypeOK, Times, StampsAreFresh, Versions
  <2>3. /\ \A d \in Definitions : updated_at[d] < clock + 1
        /\ \A w \in Authors : seen[w].updated_at < clock + 1 /\ now[w] < clock + 1
        /\ \A v \in versions : v.published_at < clock + 1
    BY <2>1, <2>2
  <2>4. \A w \in Authors : InFlight(w)' =>
          /\ \A d \in Definitions : updated_at[d] # now'[w]
          /\ \A x \in Authors : seen[x].updated_at # now'[w]
          /\ \A x \in Authors : InFlight(x)' /\ x # w => now'[x] # now'[w]
    BY <2>1, <2>2, <2>3 DEF StampsAreFresh
  <2>5. StampsAreFresh'
    BY <2>1, <2>2, <2>3, <2>4 DEF StampsAreFresh
  <2>6. EtagTellsAll'
    BY <2>1, <2>3 DEF EtagTellsAll
  <2>. QED
    BY <2>5, <2>6
<1>3. ASSUME NEW u \in Authors, Rollback(u) PROVE StampsAreFresh' /\ EtagTellsAll'
  BY <1>3, StampsUntouched DEF Rollback, End, InFlight, TypeOK
<1>4. ASSUME NEW u \in Authors, Edit(u) PROVE StampsAreFresh' /\ EtagTellsAll'
  <2>1. CASE status[target[u]] = "ARCHIVED"
    BY <1>4, <2>1, StampsUntouched DEF Edit, End, InFlight, TypeOK, definitionVars
  <2>2. CASE status[target[u]] # "ARCHIVED"
    <3>1. /\ InFlight(u) /\ End(u)
          /\ UNCHANGED <<now, clock, seen, target, versions>>
          /\ updated_at' = [updated_at EXCEPT ![target[u]] = now[u]]
      BY <1>4, <2>2 DEF Edit, InFlight
    <3>2. \A d \in Definitions : d # target[u] => draft_graph'[d] = draft_graph[d]
      BY <1>4, <2>2 DEF Edit, TypeOK
    <3>. QED
      BY <3>1, <3>2, StampsAtEnd, EtagsAtEnd
  <2>. QED
    BY <2>1, <2>2
<1>5. ASSUME NEW u \in Authors, LockForPublish(u) PROVE StampsAreFresh' /\ EtagTellsAll'
  <2>1. \A w \in Authors : InFlight(w)' => InFlight(w)
    BY <1>5 DEF LockForPublish, InFlight, TypeOK
  <2>. QED
    BY <1>5, <2>1, StampsUntouched DEF LockForPublish
<1>6. ASSUME NEW u \in Authors, Publish(u) PROVE StampsAreFresh' /\ EtagTellsAll'
  <2>1. /\ InFlight(u) /\ End(u)
        /\ UNCHANGED <<now, clock, seen, target, draft_graph>>
        /\ updated_at' = [updated_at EXCEPT ![target[u]] = now[u]]
    BY <1>6 DEF Publish, InFlight
  <2>2. \A v \in versions' : v \in versions \/ (v.definition = target[u]
                                               /\ v.published_at = now[u])
    BY <1>6 DEF Publish
  <2>. QED
    BY <2>1, <2>2, StampsAtEnd, EtagsAtEnd
<1>7. ASSUME NEW u \in Authors, Archive(u) PROVE StampsAreFresh' /\ EtagTellsAll'
  <2>1. CASE status[target[u]] = "ARCHIVED"
    BY <1>7, <2>1, StampsUntouched DEF Archive, End, InFlight, TypeOK, definitionVars
  <2>2. CASE status[target[u]] # "ARCHIVED"
    <3>1. /\ InFlight(u) /\ End(u)
          /\ UNCHANGED <<now, clock, seen, target, draft_graph, versions>>
          /\ updated_at' = [updated_at EXCEPT ![target[u]] = now[u]]
      BY <1>7, <2>2 DEF Archive, InFlight
    <3>. QED
      BY <3>1, StampsAtEnd, EtagsAtEnd
  <2>. QED
    BY <2>1, <2>2
<1>8. CASE UNCHANGED <<definitionVars, versions, authorVars>>
  BY <1>8, StampsUntouched DEF authorVars, InFlight
<1>9. ASSUME NEW c \in Callers, CallerStep(c)
      PROVE  UNCHANGED <<definitionVars, versions, authorVars>>
  BY <1>9 DEF CallerStep, Resolve, ShareDefinition, LockSession, Start, Abort, Retry
<1>10. ASSUME NEW e \in executions, EndExecution(e)
       PROVE  UNCHANGED <<definitionVars, versions, authorVars>>
  BY <1>10 DEF EndExecution
<1>. QED
  BY <1>1, <1>2, <1>3, <1>4, <1>5, <1>6, <1>7, <1>8, <1>9, <1>10
  DEF Next, AuthorStep, vars

(***************************************************************************)
(* Row locks                                                               *)
(***************************************************************************)

Holding(c) == pc[c] \in {"sharing", "locked"}

\* A step that takes no lock, and writes no definition that a publisher has
\* locked, leaves the publishers alone.
LEMMA PublishersUntouched ==
  ASSUME PublisherIsAlone,
         \A u \in Authors : author'[u] = "locked" =>
           /\ author[u] = "locked" /\ target'[u] = target[u] /\ seen'[u] = seen[u]
           /\ status'[target[u]] = status[target[u]]
           /\ updated_at'[target[u]] = updated_at[target[u]],
         \A c \in Callers : Holding(c)' => Holding(c) /\ want'[c] = want[c]
  PROVE  PublisherIsAlone'
<1>1. ASSUME NEW u \in Authors, author'[u] = "locked"
      PROVE  /\ Precondition(u)'
             /\ NoStarter(target[u])'
             /\ \A w \in Authors : author'[w] = "locked" /\ target'[w] = target'[u] => w = u
  BY <1>1 DEF PublisherIsAlone, Precondition, NoStarter, Holding
<1>. QED
  BY <1>1 DEF PublisherIsAlone, NoStarter

\* Whoever writes a definition, or shares it, waits for its publisher.
LEMMA PublisherStep == ASSUME TypeOK, LifecycleInv, [Next]_vars PROVE PublisherIsAlone'
<1>. USE DEF LifecycleInv
<1>1. ASSUME NEW u \in Authors, NEW d \in Definitions, Read(u, d) PROVE PublisherIsAlone'
  BY <1>1, PublishersUntouched
  DEF Read, TypeOK, definitionVars, callerVars, Holding
<1>2. ASSUME NEW u \in Authors, NEW step \in {"editing", "publishing", "archiving"},
             Begin(u, step)
      PROVE  PublisherIsAlone'
  BY <1>2, PublishersUntouched
  DEF Begin, TypeOK, definitionVars, callerVars, Holding
<1>3. ASSUME NEW u \in Authors, Rollback(u) PROVE PublisherIsAlone'
  BY <1>3, PublishersUntouched
  DEF Rollback, End, TypeOK, definitionVars, callerVars, Holding
<1>4. ASSUME NEW u \in Authors, Edit(u) \/ Archive(u) PROVE PublisherIsAlone'
  <2>1. \A w \in Authors : author'[w] = "locked" =>
          author[w] = "locked" /\ target[w] # target[u]
    BY <1>4 DEF Edit, Archive, End, Writable, NoPublisher, TypeOK
  <2>2. \A d \in Definitions : d # target[u] =>
          status'[d] = status[d] /\ updated_at'[d] = updated_at[d]
    BY <1>4 DEF Edit, Archive, TypeOK
  <2>3. UNCHANGED <<target, seen, callerVars>>
    BY <1>4 DEF Edit, Archive
  <2>. QED
    BY <2>1, <2>2, <2>3, PublishersUntouched DEF callerVars, Holding, TypeOK
<1>5. ASSUME NEW u \in Authors, LockForPublish(u) PROVE PublisherIsAlone'
  <2>1. /\ UNCHANGED <<definitionVars, target, seen, callerVars>>
        /\ \A w \in Authors : w # u => author'[w] = author[w]
        /\ author'[u] = "locked" => Precondition(u)
    BY <1>5 DEF LockForPublish, TypeOK
  <2>2. /\ NoStarter(target[u])
        /\ \A w \in Authors : author[w] = "locked" => target[w] # target[u]
    BY <1>5 DEF LockForPublish, LockFree, Writable, NoPublisher
  <2>. QED
    BY <2>1, <2>2
    DEF PublisherIsAlone, Precondition, NoStarter, definitionVars, callerVars
<1>6. ASSUME NEW u \in Authors, Publish(u) PROVE PublisherIsAlone'
  <2>1. \A w \in Authors : author'[w] = "locked" =>
          author[w] = "locked" /\ target[w] # target[u]
    BY <1>6 DEF Publish, End, TypeOK, PublisherIsAlone
  <2>2. \A d \in Definitions : d # target[u] =>
          status'[d] = status[d] /\ updated_at'[d] = updated_at[d]
    BY <1>6 DEF Publish, TypeOK
  <2>3. UNCHANGED <<target, seen, callerVars>>
    BY <1>6 DEF Publish
  <2>. QED
    BY <2>1, <2>2, <2>3, PublishersUntouched DEF callerVars, Holding, TypeOK
<1>7. ASSUME NEW c \in Callers, ShareDefinition(c) PROVE PublisherIsAlone'
  <2>1. /\ UNCHANGED <<definitionVars, authorVars, want>>
        /\ \A u \in Authors : author[u] = "locked" => target[u] # want[c].definition
        /\ \A b \in Callers : b # c => pc'[b] = pc[b]
    BY <1>7 DEF ShareDefinition, NoPublisher, TypeOK
  <2>. QED
    BY <2>1 DEF PublisherIsAlone, Precondition, NoStarter, definitionVars, authorVars
<1>8. ASSUME NEW c \in Callers, CallerStep(c), ~ShareDefinition(c) PROVE PublisherIsAlone'
  <2>1. UNCHANGED <<definitionVars, authorVars>>
    BY <1>8 DEF CallerStep, Resolve, LockSession, Start, Abort, Retry
  <2>2. \A b \in Callers : Holding(b)' => Holding(b) /\ want'[b] = want[b]
    BY <1>8 DEF CallerStep, Resolve, LockSession, Start, Abort, Retry, Holding, TypeOK
  <2>. QED
    BY <2>1, <2>2, PublishersUntouched DEF definitionVars, authorVars
<1>9. CASE UNCHANGED <<definitionVars, authorVars, callerVars>>
  BY <1>9, PublishersUntouched DEF definitionVars, authorVars, callerVars, Holding
<1>10. ASSUME NEW e \in executions, EndExecution(e)
       PROVE  UNCHANGED <<definitionVars, authorVars, callerVars>>
  BY <1>10 DEF EndExecution
<1>. QED
  BY <1>1, <1>2, <1>3, <1>4, <1>5, <1>6, <1>7, <1>8, <1>9, <1>10
  DEF Next, AuthorStep, vars

(***************************************************************************)
(* Versions                                                                *)
(***************************************************************************)

\* Versions are immutable, and no step takes one away.
LEMMA VersionsGrow == [Next]_vars => versions \subseteq versions'
BY DEF Next, AuthorStep, CallerStep, Read, Begin, Rollback, Edit, LockForPublish, Publish,
       Archive, Resolve, ShareDefinition, LockSession, Start, Abort, Retry, EndExecution, vars

\* What a publisher holds when it writes: all versions of the definition are
\* older than its transaction.
LEMMA PublisherIsLast ==
  ASSUME TypeOK, LifecycleInv, NEW u \in Authors, author[u] = "locked",
         NEW v \in versions, v.definition = target[u]
  PROVE  v.published_at < now[u]
BY DEF LifecycleInv, PublisherIsAlone, Precondition, EtagTellsAll, InFlight

\* A step that publishes nothing leaves the versions in order.
LEMMA VersionsStep ==
  ASSUME TypeOK, LifecycleInv, [Next]_vars
  PROVE  VersionsInOrder' /\ PublishedHasVersion'
<1>. USE DEF LifecycleInv
<1>1. ASSUME NEW u \in Authors, Publish(u) PROVE VersionsInOrder' /\ PublishedHasVersion'
  <2>. DEFINE d == target[u]
  <2>1. PICK n \in Numbers :
          /\ NextNumber(d, n)
          /\ versions' = versions \cup
               {[definition |-> d, version_number |-> n,
                 graph_json |-> Snapshot(u), published_at |-> now[u]]}
          /\ published' = [published EXCEPT ![d] = n]
    BY <1>1 DEF Publish
  <2>. DEFINE new == [definition |-> d, version_number |-> n,
                      graph_json |-> Snapshot(u), published_at |-> now[u]]
  <2>2. /\ new.definition = d /\ new.version_number = n /\ new.published_at = now[u]
        /\ new \in versions' /\ d \in Definitions
        /\ \A v \in versions' : v \in versions \/ v = new
    BY <2>1 DEF TypeOK
  <2>. HIDE DEF new
  <2>3. \A v \in versions : v.definition = d =>
          v.version_number < n /\ v.published_at < now[u]
    BY <1>1, <2>1, PublisherIsLast DEF NextNumber, Publish
  <2>4. \A v \in versions' : v.version_number \in Nat /\ n \in Nat
    BY <2>2 DEF TypeOK, Versions, Numbers
  <2>5. ASSUME NEW v \in versions', NEW w \in versions', v.definition = w.definition
        PROVE  /\ v.version_number = w.version_number => v = w
               /\ v.version_number < w.version_number => v.published_at < w.published_at
    <3>1. CASE v \in versions /\ w \in versions
      BY <2>5, <3>1 DEF VersionsInOrder
    <3>2. CASE v = new /\ w \in versions
      BY <2>2, <2>3, <2>4, <2>5, <3>2
    <3>3. CASE v \in versions /\ w = new
      BY <2>2, <2>3, <2>4, <2>5, <3>3
    <3>4. CASE v = new /\ w = new
      BY <2>2, <2>4, <3>4
    <3>. QED
      BY <2>2, <3>1, <3>2, <3>3, <3>4
  <2>6. ASSUME NEW v \in versions', v.version_number > 1
        PROVE  \E w \in versions' : w.definition = v.definition
                                    /\ w.version_number = v.version_number - 1
    <3>1. CASE v \in versions
      BY <2>1, <2>6, <3>1 DEF VersionsInOrder
    <3>2. CASE v = new
      <4>1. n # 1
        BY <2>2, <2>4, <2>6, <3>2
      <4>2. PICK w \in versions : w.definition = d /\ w.version_number = n - 1
        BY <2>1, <4>1 DEF NextNumber
      <4>. QED
        BY <2>1, <2>2, <3>2, <4>2
    <3>. QED
      BY <2>2, <3>1, <3>2
  <2>7. VersionsInOrder'
    BY <2>5, <2>6 DEF VersionsInOrder
  <2>8. \E v \in versions' : v.definition = d /\ v.version_number = n
    BY <2>2
  <2>9. \A x \in Definitions : x # d => status'[x] = status[x] /\ published'[x] = published[x]
    BY <1>1, <2>1 DEF Publish, TypeOK
  <2>10. published'[d] = n
    BY <2>1, <2>2 DEF TypeOK
  <2>11. versions \subseteq versions'
    BY <2>1
  <2>12. ASSUME NEW x \in Definitions, status'[x] = "PUBLISHED"
         PROVE  HasVersion(x, published[x])'
    <3>1. CASE x = d
      BY <2>8, <2>10, <3>1 DEF HasVersion
    <3>2. CASE x # d
      BY <2>9, <2>11, <2>12, <3>2 DEF PublishedHasVersion, HasVersion
    <3>. QED
      BY <3>1, <3>2
  <2>13. PublishedHasVersion'
    BY <2>12 DEF PublishedHasVersion, HasVersion
  <2>. QED
    BY <2>7, <2>13
<1>2. ASSUME NEW u \in Authors, Archive(u) PROVE VersionsInOrder' /\ PublishedHasVersion'
  <2>1. /\ UNCHANGED <<published, versions>>
        /\ \A d \in Definitions : status'[d] = "PUBLISHED" => status[d] = "PUBLISHED"
    BY <1>2 DEF Archive, TypeOK
  <2>. QED
    BY <2>1 DEF VersionsInOrder, PublishedHasVersion, HasVersion
<1>3. CASE UNCHANGED <<status, published, versions>>
  BY <1>3 DEF VersionsInOrder, PublishedHasVersion, HasVersion
<1>4. ASSUME NEW u \in Authors, AuthorStep(u), ~Publish(u), ~Archive(u)
      PROVE  UNCHANGED <<status, published, versions>>
  BY <1>4 DEF AuthorStep, Read, Begin, Rollback, Edit, LockForPublish, definitionVars
<1>5. ASSUME NEW c \in Callers, CallerStep(c) PROVE UNCHANGED <<status, published, versions>>
  BY <1>5 DEF CallerStep, Resolve, ShareDefinition, LockSession, Start, Abort, Retry,
    definitionVars
<1>6. ASSUME NEW e \in executions, EndExecution(e)
      PROVE  UNCHANGED <<status, published, versions>>
  BY <1>6 DEF EndExecution, definitionVars
<1>. QED
  BY <1>1, <1>2, <1>3, <1>4, <1>5, <1>6 DEF Next, vars, definitionVars

(***************************************************************************)
(* Callers                                                                 *)
(***************************************************************************)

\* What a caller has locked is safe from an author who writes.
LEMMA HeldIsNotArchived ==
  ASSUME TypeOK, LifecycleInv, NEW u \in Authors, AuthorStep(u), NEW c \in Callers, Holding(c)
  PROVE  status'[want[c].definition] # "ARCHIVED"
<1>1. status[want[c].definition] # "ARCHIVED" /\ want[c].definition \in Definitions
  BY DEF LifecycleInv, CallersHold, Holding, TypeOK, Requests
<1>2. CASE Archive(u)
  BY <1>1, <1>2 DEF Archive, Writable, NoStarter, Holding, TypeOK
<1>3. CASE Publish(u)
  BY <1>1, <1>3 DEF Publish, TypeOK
<1>4. CASE ~Archive(u) /\ ~Publish(u)
  BY <1>1, <1>4
  DEF AuthorStep, Read, Begin, Rollback, Edit, LockForPublish, definitionVars
<1>. QED
  BY <1>2, <1>3, <1>4

\* Authors leave the executions and the callers alone.
LEMMA AuthorsKeepOut ==
  ASSUME NEW u \in Authors, AuthorStep(u)
  PROVE  UNCHANGED <<executions, callerVars>>
BY DEF AuthorStep, Read, Begin, Rollback, Edit, LockForPublish, Publish, Archive


\* The conjuncts of CallersHold, one by one.
Pinned == \A c \in Callers :
  pc[c] # "idle" => HasVersion(want[c].definition, want[c].version_number)

NotArchived == \A c \in Callers : Holding(c) => status[want[c].definition] # "ARCHIVED"

SessionsApart == \A b, c \in Callers :
  pc[b] = "locked" /\ pc[c] = "locked" /\ want[b].session_ref = want[c].session_ref => b = c

FoundNothing == \A c \in Callers : pc[c] = "locked" /\ existing[c] = {} =>
  \A e \in executions : e.active => e.session_ref # want[c].session_ref

\* Together they are what CallersHold says.
LEMMA CallersHoldThat ==
  CallersHold <=> Pinned /\ NotArchived /\ SessionsApart /\ FoundNothing
BY DEF CallersHold, Pinned, NotArchived, SessionsApart, FoundNothing, Holding, Active

\* The version a caller wants was published, and versions stay.
LEMMA PinnedStep == ASSUME TypeOK, LifecycleInv, [Next]_vars PROVE Pinned'
<1>1. Pinned /\ versions \subseteq versions'
  BY CallersHoldThat, VersionsGrow DEF LifecycleInv
<1>2. ASSUME NEW c \in Callers, NEW s \in Sessions, NEW d \in Definitions, Resolve(c, s, d)
      PROVE  Pinned'
  <2>1. /\ want'[c].definition = d /\ want'[c].version_number = published[d]
        /\ status[d] = "PUBLISHED"
        /\ \A b \in Callers : b # c => want'[b] = want[b] /\ pc'[b] = pc[b]
    BY <1>2 DEF Resolve, TypeOK
  <2>2. HasVersion(d, published[d])
    BY <2>1 DEF LifecycleInv, PublishedHasVersion
  <2>3. ASSUME NEW b \in Callers, pc'[b] # "idle"
        PROVE  HasVersion(want[b].definition, want[b].version_number)'
    BY <1>1, <2>1, <2>2, <2>3 DEF Pinned, HasVersion
  <2>. QED
    BY <2>3 DEF Pinned, HasVersion
<1>3. ASSUME want' = want, \A c \in Callers : pc'[c] # "idle" => pc[c] # "idle" PROVE Pinned'
  BY <1>1, <1>3 DEF Pinned, HasVersion
<1>4. ASSUME NEW c \in Callers,
             \/ ShareDefinition(c) \/ LockSession(c) \/ Start(c) \/ Abort(c) \/ Retry(c)
      PROVE  want' = want /\ \A b \in Callers : pc'[b] # "idle" => pc[b] # "idle"
  BY <1>4 DEF ShareDefinition, LockSession, Start, Abort, Retry, TypeOK
<1>5. CASE UNCHANGED callerVars
  BY <1>3, <1>5 DEF callerVars
<1>6. ASSUME NEW e \in executions, EndExecution(e) PROVE UNCHANGED callerVars
  BY <1>6 DEF EndExecution
<1>. QED
  BY <1>2, <1>3, <1>4, <1>5, <1>6, AuthorsKeepOut DEF Next, CallerStep, vars

\* What a caller has locked FOR SHARE is not archived under it.
LEMMA NotArchivedStep == ASSUME TypeOK, LifecycleInv, [Next]_vars PROVE NotArchived'
<1>1. NotArchived
  BY CallersHoldThat DEF LifecycleInv
<1>2. ASSUME NEW u \in Authors, AuthorStep(u) PROVE NotArchived'
  <2>1. UNCHANGED callerVars
    BY <1>2, AuthorsKeepOut
  <2>. QED
    BY <1>2, <2>1, HeldIsNotArchived DEF NotArchived, Holding, callerVars
<1>3. ASSUME NEW c \in Callers, ShareDefinition(c) PROVE NotArchived'
  BY <1>1, <1>3 DEF NotArchived, Holding, ShareDefinition, TypeOK, definitionVars
<1>4. ASSUME UNCHANGED status,
             \A b \in Callers : Holding(b)' => Holding(b) /\ want'[b] = want[b]
      PROVE  NotArchived'
  BY <1>1, <1>4 DEF NotArchived, Holding
<1>5. ASSUME NEW c \in Callers, CallerStep(c), ~ShareDefinition(c)
      PROVE  /\ UNCHANGED status
             /\ \A b \in Callers : Holding(b)' => Holding(b) /\ want'[b] = want[b]
  BY <1>5 DEF CallerStep, Resolve, LockSession, Start, Abort, Retry, Holding, TypeOK,
    definitionVars
<1>6. CASE UNCHANGED <<status, callerVars>>
  BY <1>4, <1>6 DEF callerVars, Holding
<1>7. ASSUME NEW e \in executions, EndExecution(e) PROVE UNCHANGED <<status, callerVars>>
  BY <1>7 DEF EndExecution, definitionVars
<1>. QED
  BY <1>2, <1>3, <1>4, <1>5, <1>6, <1>7 DEF Next, vars, definitionVars

\* The advisory lock: one caller at a time looks into a session.
LEMMA SessionsApartStep == ASSUME TypeOK, LifecycleInv, [Next]_vars PROVE SessionsApart'
<1>1. SessionsApart
  BY CallersHoldThat DEF LifecycleInv
<1>2. ASSUME NEW c \in Callers, LockSession(c) PROVE SessionsApart'
  BY <1>1, <1>2 DEF SessionsApart, LockSession, SessionFree, TypeOK
<1>3. ASSUME \A b \in Callers : pc'[b] = "locked" => pc[b] = "locked" /\ want'[b] = want[b]
      PROVE  SessionsApart'
  BY <1>1, <1>3 DEF SessionsApart
<1>4. ASSUME NEW c \in Callers, CallerStep(c), ~LockSession(c)
      PROVE  \A b \in Callers : pc'[b] = "locked" => pc[b] = "locked" /\ want'[b] = want[b]
  BY <1>4 DEF CallerStep, Resolve, ShareDefinition, Start, Abort, Retry, TypeOK
<1>5. CASE UNCHANGED callerVars
  BY <1>3, <1>5 DEF callerVars
<1>6. ASSUME NEW e \in executions, EndExecution(e) PROVE UNCHANGED callerVars
  BY <1>6 DEF EndExecution
<1>. QED
  BY <1>2, <1>3, <1>4, <1>5, <1>6, AuthorsKeepOut DEF Next, vars

\* What a caller looked for under the lock stays as it found it until it
\* inserts, and the session has one ACTIVE execution.
LEMMA ActiveStep == ASSUME TypeOK, LifecycleInv, [Next]_vars
                    PROVE  FoundNothing' /\ OneActivePerSession'
<1>1. FoundNothing /\ SessionsApart /\ OneActivePerSession
  BY CallersHoldThat DEF LifecycleInv
<1>2. ASSUME NEW c \in Callers, LockSession(c) PROVE FoundNothing' /\ OneActivePerSession'
  BY <1>1, <1>2 DEF FoundNothing, OneActivePerSession, LockSession, Active, TypeOK
<1>3. ASSUME NEW c \in Callers, NEW i \in Ids, Start(c), existing[c] = {}, Insert(c, i)
      PROVE  FoundNothing' /\ OneActivePerSession'
  <2>1. PICK new : /\ new.session_ref = want[c].session_ref
                   /\ executions' = executions \cup {new}
    BY <1>3 DEF Insert
  <2>2. \A e \in executions : e.active => e.session_ref # new.session_ref
    BY <1>1, <1>3, <2>1 DEF FoundNothing, Start
  <2>3. \A b \in Callers : pc'[b] = "locked" =>
          /\ pc[b] = "locked" /\ want'[b] = want[b] /\ existing'[b] = existing[b]
          /\ want[b].session_ref # new.session_ref
    BY <1>1, <1>3, <2>1 DEF Start, SessionsApart, TypeOK
  <2>4. FoundNothing'
    BY <1>1, <2>1, <2>3 DEF FoundNothing
  <2>5. OneActivePerSession'
    BY <1>1, <2>1, <2>2 DEF OneActivePerSession
  <2>. QED
    BY <2>4, <2>5
<1>4. ASSUME \A e \in executions' : e.active => e \in executions,
             \A b \in Callers : pc'[b] = "locked" =>
               pc[b] = "locked" /\ want'[b] = want[b] /\ existing'[b] = existing[b]
      PROVE  FoundNothing' /\ OneActivePerSession'
  BY <1>1, <1>4 DEF FoundNothing, OneActivePerSession
<1>5. ASSUME NEW c \in Callers, Start(c), UNCHANGED executions
      PROVE  \A b \in Callers : pc'[b] = "locked" =>
               pc[b] = "locked" /\ want'[b] = want[b] /\ existing'[b] = existing[b]
  BY <1>5 DEF Start, TypeOK
<1>6. ASSUME NEW c \in Callers, CallerStep(c), ~LockSession(c), ~Start(c)
      PROVE  /\ UNCHANGED executions
             /\ \A b \in Callers : pc'[b] = "locked" =>
                  pc[b] = "locked" /\ want'[b] = want[b] /\ existing'[b] = existing[b]
  BY <1>6 DEF CallerStep, Resolve, ShareDefinition, Abort, Retry, TypeOK
<1>7. ASSUME NEW c \in Callers, Start(c) PROVE FoundNothing' /\ OneActivePerSession'
  BY <1>3, <1>4, <1>5, <1>7 DEF Start
<1>8. ASSUME NEW e \in executions, EndExecution(e)
      PROVE  FoundNothing' /\ OneActivePerSession'
  <2>1. [e EXCEPT !.active = FALSE].active = FALSE
    BY DEF TypeOK, Executions
  <2>2. \A f \in executions' : f.active => f \in executions
    BY <1>8, <2>1 DEF EndExecution
  <2>. QED
    BY <1>4, <1>8, <2>2 DEF EndExecution, callerVars
<1>9. CASE UNCHANGED <<executions, callerVars>>
  BY <1>4, <1>9 DEF callerVars
<1>. QED
  BY <1>2, <1>4, <1>6, <1>7, <1>8, <1>9, AuthorsKeepOut DEF Next, vars

(***************************************************************************)
(* The invariant and what follows from it                                  *)
(***************************************************************************)

\* Drafts that nobody has locked, with an ETag that everybody has seen.
LEMMA LifecycleInit == Init => LifecycleInv
<1>. SUFFICES ASSUME Init PROVE LifecycleInv
  OBVIOUS
<1>1. StampsAreFresh /\ EtagTellsAll /\ PublisherIsAlone
  BY DEF Init, StampsAreFresh, EtagTellsAll, PublisherIsAlone, InFlight
<1>2. PublishedHasVersion /\ CallersHold
  BY DEF Init, PublishedHasVersion, CallersHold
<1>. QED
  BY <1>1, <1>2 DEF Init, LifecycleInv, OneActivePerSession, VersionsInOrder

\* Every step keeps every conjunct.
LEMMA LifecycleStep == ASSUME TypeOK, LifecycleInv, [Next]_vars PROVE LifecycleInv'
<1>1. Pinned' /\ NotArchived' /\ SessionsApart' /\ FoundNothing' /\ OneActivePerSession'
  BY PinnedStep, NotArchivedStep, SessionsApartStep, ActiveStep
<1>2. CallersHold'
  BY <1>1 DEF CallersHold, Pinned, NotArchived, SessionsApart, FoundNothing, Holding, Active
<1>. QED
  BY <1>1, <1>2, StampsStep, PublisherStep, VersionsStep DEF LifecycleInv

\* Stamps are fresh, ETags tell all, publishers are alone and callers hold
\* what they checked, in every state.
THEOREM LifecycleInvariant == Spec => []Inductive
<1>1. Init => Inductive
  BY TypeInit, LifecycleInit DEF Inductive
<1>2. Inductive /\ [Next]_vars => Inductive'
  BY TypeStep, LifecycleStep DEF Inductive
<1>. QED
  BY <1>1, <1>2, PTL DEF Spec

\* A session has at most one ACTIVE execution (fn_start_workflow_execution).
THEOREM OneActive == Spec => []OneActivePerSession
BY LifecycleInvariant, PTL DEF Inductive, LifecycleInv

\* Versions are numbered without gaps and in the order of published_at
\* (fn_publish_workflow).
THEOREM VersionsAreInOrder == Spec => []VersionsInOrder
BY LifecycleInvariant, PTL DEF Inductive, LifecycleInv

\* A row that appears in workflow_executions was inserted by a caller that
\* holds its definition FOR SHARE.
LEMMA StartedByHolder ==
  ASSUME TypeOK, LifecycleInv, [Next]_vars, NEW e \in executions',
         \A f \in executions : f.id # e.id
  PROVE  /\ status[e.definition] # "ARCHIVED"
         /\ HasVersion(e.definition, e.version_number)
<1>1. ASSUME NEW c \in Callers, Start(c)
      PROVE  /\ status[e.definition] # "ARCHIVED"
             /\ HasVersion(e.definition, e.version_number)
  <2>1. /\ pc[c] = "locked"
        /\ e.definition = want[c].definition /\ e.version_number = want[c].version_number
    BY <1>1 DEF Start, Insert
  <2>. QED
    BY <2>1 DEF LifecycleInv, CallersHold
<1>2. ASSUME NEW f \in executions, EndExecution(f) PROVE FALSE
  <2>1. [f EXCEPT !.active = FALSE].id = f.id
    BY DEF TypeOK, Executions
  <2>2. e = [f EXCEPT !.active = FALSE] \/ e \in executions
    BY <1>2 DEF EndExecution
  <2>. QED
    BY <2>1, <2>2
<1>3. ASSUME UNCHANGED executions PROVE FALSE
  BY <1>3
<1>4. ASSUME NEW c \in Callers, CallerStep(c), ~Start(c) PROVE UNCHANGED executions
  BY <1>4 DEF CallerStep, Resolve, ShareDefinition, LockSession, Abort, Retry
<1>. QED
  BY <1>1, <1>2, <1>3, <1>4, AuthorsKeepOut DEF Next, vars

\* No execution begins of an archived definition, or of a version that was
\* never published (fn_start_workflow_execution).
THEOREM StartsPublished == Spec => StartsArePublished
<1>. DEFINE Started == \A e \in executions' : (\A f \in executions : f.id # e.id) =>
              /\ status[e.definition] # "ARCHIVED"
              /\ \E v \in versions : v.definition = e.definition
                                     /\ v.version_number = e.version_number
<1>1. Inductive /\ [Next]_vars => Started
  BY StartedByHolder DEF Inductive, HasVersion
<1>. QED
  BY <1>1, LifecycleInvariant, PTL DEF Spec, StartsArePublished

\* Every version holds the graph that its publisher had read, still the one of
\* the row when it was published (fn_publish_workflow).
THEOREM PublishesRead == Spec => PublishesWhatWasRead
<1>. DEFINE Published == \A v \in versions' \ versions : \E u \in Authors :
              /\ author[u] = "locked" /\ target[u] = v.definition
              /\ v.graph_json = seen[u].draft_graph
<1>1. ASSUME Inductive, [Next]_vars, NEW v \in versions', v \notin versions
      PROVE  \E u \in Authors : /\ author[u] = "locked" /\ target[u] = v.definition
                                /\ v.graph_json = seen[u].draft_graph
  <2>1. PICK u \in Authors : Publish(u)
    BY <1>1 DEF Next, AuthorStep, CallerStep, Read, Begin, Rollback, Edit, LockForPublish,
      Archive, Resolve, ShareDefinition, LockSession, Start, Abort, Retry, EndExecution, vars
  <2>2. author[u] = "locked" /\ v.definition = target[u] /\ v.graph_json = Snapshot(u)
    BY <1>1, <2>1 DEF Publish
  <2>3. seen[u].draft_graph = draft_graph[target[u]]
    BY <1>1, <2>2
    DEF Inductive, LifecycleInv, PublisherIsAlone, Precondition, EtagTellsAll
  <2>. QED
    BY <2>2, <2>3 DEF Snapshot
<1>2. Inductive /\ [Next]_vars => Published
  BY <1>1
<1>. QED
  BY <1>2, LifecycleInvariant, PTL DEF Spec, PublishesWhatWasRead
=============================================================================
