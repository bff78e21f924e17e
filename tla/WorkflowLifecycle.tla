------------------------- MODULE WorkflowLifecycle -------------------------
(***************************************************************************)
(* The life of a workflow definition (100_5G1.sql, parts C, E and F):      *)
(* drafts that are edited, published as numbered versions and archived,    *)
(* while callers resolve the published version and start executions of it. *)
(*                                                                         *)
(* fn_publish_workflow() and fn_start_workflow_execution() take a lock,    *)
(* read, and write until they commit: each is an action that takes its     *)
(* lock and reads, and one that writes and releases.  An ordinary UPDATE   *)
(* is one action, which waits for whoever holds a lock that conflicts.     *)
(***************************************************************************)
EXTENDS Integers, FiniteSets

CONSTANTS
  Definitions,   \* workflow_definitions
  Authors,       \* users who edit, publish and archive
  Callers,       \* call set-ups that start executions
  Sessions,      \* call sessions, p_session_ref
  MaxTime,       \* bound on the clock, so on transactions of authors
  MaxExecutions  \* bound on the rows of workflow_executions

ASSUME LifecycleAssumption == MaxTime \in Nat /\ MaxExecutions \in Nat

\* NOW(), the start of a transaction.  No two transactions of authors start
\* in the same microsecond; a definition is there from instant 0 on.
Times == 0..MaxTime
Numbers == 1..MaxTime
Ids == 1..MaxExecutions

VARIABLES
  \* workflow.workflow_definitions, a function of the definition per column;
  \* draft_graph is the instant of its edit, published_version_id the number
  status, draft_graph, updated_at, published,
  \* workflow.workflow_versions and workflow.workflow_executions
  versions, executions,
  \* the last instant at which a transaction of an author began
  clock,
  \* the authors: step, definition, what they read of it, NOW()
  author, target, seen, now,
  \* the callers: step, what they start, what they found, what they were told
  pc, want, existing, answer

definitionVars == <<status, draft_graph, updated_at, published>>
authorVars     == <<clock, author, target, seen, now>>
callerVars     == <<pc, want, existing, answer>>
vars == <<definitionVars, versions, executions, authorVars, callerVars>>

Versions == [definition : Definitions, version_number : Numbers,
             graph_json : Times, published_at : Times]

Executions == [id : Ids, session_ref : Sessions, definition : Definitions,
               version_number : 0..MaxTime, active : BOOLEAN]

\* A caller that has resolved nothing yet wants number 0.
Requests == [session_ref : Sessions, definition : Definitions, version_number : 0..MaxTime]

Outcomes == {"STARTED", "REPLAYED_EXISTING", "VERSION_CONFLICT", "raised"}

TypeOK ==
  /\ status \in [Definitions -> {"DRAFT", "PUBLISHED", "ARCHIVED"}]
  /\ draft_graph \in [Definitions -> Times]
  /\ updated_at \in [Definitions -> Times]
  /\ published \in [Definitions -> 0..MaxTime]
  /\ versions \subseteq Versions
  /\ executions \subseteq Executions
  /\ clock \in Times
  /\ author \in [Authors -> {"idle", "editing", "publishing", "locked", "archiving"}]
  /\ target \in [Authors -> Definitions]
  /\ seen \in [Authors -> [draft_graph : Times, updated_at : Times]]
  /\ now \in [Authors -> Times]
  /\ pc \in [Callers -> {"idle", "resolved", "sharing", "locked", "answered"}]
  /\ want \in [Callers -> Requests]
  /\ existing \in [Callers -> SUBSET Executions]
  /\ answer \in [Callers -> Outcomes \cup {"none"}]

\* Definitions begin as drafts; the authors have read them as they are.
Init ==
  /\ status = [d \in Definitions |-> "DRAFT"]
  /\ draft_graph = [d \in Definitions |-> 0]
  /\ updated_at = [d \in Definitions |-> 0]
  /\ published = [d \in Definitions |-> 0]
  /\ versions = {} /\ executions = {} /\ clock = 0
  /\ author = [u \in Authors |-> "idle"]
  /\ target \in [Authors -> Definitions]
  /\ seen = [u \in Authors |-> [draft_graph |-> 0, updated_at |-> 0]]
  /\ now = [u \in Authors |-> 0]
  /\ pc = [c \in Callers |-> "idle"]
  /\ want \in [Callers -> [session_ref : Sessions, definition : Definitions,
                           version_number : {0}]]
  /\ existing = [c \in Callers |-> {}]
  /\ answer = [c \in Callers |-> "none"]

-----------------------------------------------------------------------------
(* Row locks                                                               *)

\* No publish is between its FOR UPDATE and its commit.
NoPublisher(d) == \A u \in Authors : author[u] = "locked" => target[u] # d

\* Mutant of NoStarter: the start reads the definition without a lock.
NoStarterNeeded(d) == TRUE

\* No start holds the definition FOR SHARE.
NoStarter(d) == \A c \in Callers :
  pc[c] \in {"sharing", "locked"} => want[c].definition # d

Writable(d) == NoPublisher(d) /\ NoStarter(d)

-----------------------------------------------------------------------------
(* Authors                                                                 *)

\* GET of the definition: the draft and, as its ETag, updated_at.
Read(u, d) ==
  /\ author[u] = "idle"
  /\ target' = [target EXCEPT ![u] = d]
  /\ seen' = [seen EXCEPT ![u] =
                [draft_graph |-> draft_graph[d], updated_at |-> updated_at[d]]]
  /\ UNCHANGED <<definitionVars, versions, executions, clock, author, now, callerVars>>

\* A transaction of the author begins; NOW() stays what it is from here on.
Begin(u, step) ==
  /\ author[u] = "idle"
  /\ clock < MaxTime
  /\ clock' = clock + 1
  /\ now' = [now EXCEPT ![u] = clock + 1]
  /\ author' = [author EXCEPT ![u] = step]
  /\ UNCHANGED <<definitionVars, versions, executions, target, seen, callerVars>>

\* The transaction ends, here or by a rollback; nothing was written before.
End(u) == author' = [author EXCEPT ![u] = "idle"]

Rollback(u) ==
  /\ author[u] # "idle"
  /\ End(u)
  /\ UNCHANGED <<definitionVars, versions, executions, clock, target, seen, now, callerVars>>

\* An UPDATE of the draft, or of name and description only, with or without a
\* look at the ETag before; trg_wfd_updated_at stamps it.  An archived row
\* refuses it (its own WHERE clause, or trg_wfd_archived_immutable).
Edit(u) ==
  /\ author[u] = "editing"
  /\ Writable(target[u])
  /\ IF status[target[u]] = "ARCHIVED" THEN UNCHANGED <<draft_graph, updated_at>>
     ELSE /\ \E g \in {draft_graph[target[u]], now[u]} :
               draft_graph' = [draft_graph EXCEPT ![target[u]] = g]
          /\ updated_at' = [updated_at EXCEPT ![target[u]] = now[u]]
  /\ End(u)
  /\ UNCHANGED <<status, published, versions, executions, clock, target, seen, now, callerVars>>

\* Mutant of Precondition: the author's ETag is not compared.
NoPrecondition(u) == status[target[u]] # "ARCHIVED"

\* What fn_publish_workflow() requires: not ARCHIVED, and unchanged since read.
Precondition(u) ==
  /\ status[target[u]] # "ARCHIVED"
  /\ updated_at[target[u]] = seen[u].updated_at

\* Mutant of LockFree: the SELECT of the publish takes no lock.
LockFreeAlways(u) == TRUE

\* The SELECT .. FOR UPDATE waits for every other lock.
LockFree(u) == Writable(target[u])

LockForPublish(u) ==
  /\ author[u] = "publishing"
  /\ LockFree(u)
  /\ author' = [author EXCEPT ![u] = IF Precondition(u) THEN "locked" ELSE "idle"]
  /\ UNCHANGED <<definitionVars, versions, executions, clock, target, seen, now, callerVars>>

\* COALESCE(MAX(version_number), 0) + 1
NextNumber(d, n) ==
  /\ \A v \in versions : v.definition = d => v.version_number < n
  /\ n = 1 \/ \E v \in versions : v.definition = d /\ v.version_number = n - 1

\* Mutant of Snapshot: the graph in the request, not the one in the row.
SnapshotOfRequest(u) == now[u]

\* v_wfd.draft_graph, read under the lock.
Snapshot(u) == draft_graph[target[u]]

Publish(u) ==
  LET d == target[u] IN
  /\ author[u] = "locked"
  /\ \E n \in Numbers :
       /\ NextNumber(d, n)
       /\ versions' = versions \cup
            {[definition |-> d, version_number |-> n,
              graph_json |-> Snapshot(u), published_at |-> now[u]]}
       /\ published' = [published EXCEPT ![d] = n]
  /\ status' = [status EXCEPT ![d] = "PUBLISHED"]
  /\ updated_at' = [updated_at EXCEPT ![d] = now[u]]
  /\ End(u)
  /\ UNCHANGED <<draft_graph, executions, clock, target, seen, now, callerVars>>

\* fn_archive_workflow(): one guarded UPDATE; ALREADY_ARCHIVED changes nothing.
Archive(u) ==
  /\ author[u] = "archiving"
  /\ Writable(target[u])
  /\ IF status[target[u]] = "ARCHIVED" THEN UNCHANGED <<status, updated_at>>
     ELSE /\ status' = [status EXCEPT ![target[u]] = "ARCHIVED"]
          /\ updated_at' = [updated_at EXCEPT ![target[u]] = now[u]]
  /\ End(u)
  /\ UNCHANGED <<draft_graph, published, versions, executions, clock, target,
                 seen, now, callerVars>>

-----------------------------------------------------------------------------
(* Callers                                                                 *)

\* resolve_published_workflow_version(): the version to start, at call set-up.
Resolve(c, s, d) ==
  /\ pc[c] = "idle"
  /\ status[d] = "PUBLISHED"
  /\ want' = [want EXCEPT ![c] = [session_ref |-> s, definition |-> d,
                                  version_number |-> published[d]]]
  /\ pc' = [pc EXCEPT ![c] = "resolved"]
  /\ answer' = [answer EXCEPT ![c] = "none"]
  /\ UNCHANGED <<definitionVars, versions, executions, authorVars, existing>>

\* SELECT .. FOR SHARE OF wd, and the exception if the definition is archived.
ShareDefinition(c) ==
  /\ pc[c] = "resolved"
  /\ NoPublisher(want[c].definition)
  /\ IF status[want[c].definition] = "ARCHIVED"
     THEN /\ pc' = [pc EXCEPT ![c] = "answered"]
          /\ answer' = [answer EXCEPT ![c] = "raised"]
     ELSE pc' = [pc EXCEPT ![c] = "sharing"] /\ UNCHANGED answer
  /\ UNCHANGED <<definitionVars, versions, executions, authorVars, want, existing>>

\* Mutant of SessionFree: no advisory lock.
SessionFreeAlways(c) == TRUE

\* pg_advisory_xact_lock() on the session is granted.
SessionFree(c) == \A b \in Callers :
  pc[b] = "locked" => want[b].session_ref # want[c].session_ref

Active(s) == {e \in executions : e.session_ref = s /\ e.active}

\* The lock, and then a SELECT that sees what was committed before it.
LockSession(c) ==
  /\ pc[c] = "sharing"
  /\ SessionFree(c)
  /\ existing' = [existing EXCEPT ![c] = Active(want[c].session_ref)]
  /\ pc' = [pc EXCEPT ![c] = "locked"]
  /\ UNCHANGED <<definitionVars, versions, executions, authorVars, want, answer>>

Runs(e, r) == e.definition = r.definition /\ e.version_number = r.version_number

Insert(c, i) ==
  /\ \A e \in executions : e.id # i
  /\ executions' = executions \cup
       {[id |-> i, session_ref |-> want[c].session_ref, definition |-> want[c].definition,
         version_number |-> want[c].version_number, active |-> TRUE]}

\* One of the rows found decides the answer; without one, a row is inserted.
Start(c) ==
  /\ pc[c] = "locked"
  /\ \/ /\ existing[c] = {}
        /\ \E i \in Ids : Insert(c, i)
        /\ answer' = [answer EXCEPT ![c] = "STARTED"]
     \/ \E e \in existing[c] :
          /\ answer' = [answer EXCEPT ![c] =
               IF Runs(e, want[c]) THEN "REPLAYED_EXISTING" ELSE "VERSION_CONFLICT"]
          /\ UNCHANGED executions
  /\ existing' = [existing EXCEPT ![c] = {}]
  /\ pc' = [pc EXCEPT ![c] = "answered"]
  /\ UNCHANGED <<definitionVars, versions, authorVars, want>>

\* The caller dies, or its connection does: everything it holds is released.
Abort(c) ==
  /\ pc[c] \in {"resolved", "sharing", "locked"}
  /\ pc' = [pc EXCEPT ![c] = "answered"]
  /\ existing' = [existing EXCEPT ![c] = {}]
  /\ UNCHANGED <<definitionVars, versions, executions, authorVars, want, answer>>

\* The answer was lost, and the same start is tried again; or the next call.
Retry(c) ==
  /\ pc[c] = "answered"
  /\ pc' \in {[pc EXCEPT ![c] = "resolved"], [pc EXCEPT ![c] = "idle"]}
  /\ answer' = [answer EXCEPT ![c] = "none"]
  /\ UNCHANGED <<definitionVars, versions, executions, authorVars, want, existing>>

\* fn_complete_ or fn_fail_workflow_execution()
EndExecution(e) ==
  /\ e.active
  /\ executions' = (executions \ {e}) \cup {[e EXCEPT !.active = FALSE]}
  /\ UNCHANGED <<definitionVars, versions, authorVars, callerVars>>

-----------------------------------------------------------------------------
AuthorStep(u) ==
  \/ \E d \in Definitions : Read(u, d)
  \/ \E step \in {"editing", "publishing", "archiving"} : Begin(u, step)
  \/ Rollback(u)
  \/ Edit(u)
  \/ LockForPublish(u)
  \/ Publish(u)
  \/ Archive(u)

CallerStep(c) ==
  \/ \E s \in Sessions, d \in Definitions : Resolve(c, s, d)
  \/ ShareDefinition(c)
  \/ LockSession(c)
  \/ Start(c)
  \/ Abort(c)
  \/ Retry(c)

Next ==
  \/ \E u \in Authors : AuthorStep(u)
  \/ \E c \in Callers : CallerStep(c)
  \/ \E e \in executions : EndExecution(e)

Spec == Init /\ [][Next]_vars

-----------------------------------------------------------------------------
(* Properties                                                              *)

\* However many callers retry and race, a session has one execution that is
\* ACTIVE: no unique index can say so on the partitioned table, only the
\* advisory lock does (041_5G.sql, fn_start_workflow_execution).
OneActivePerSession == \A e, f \in executions :
  e.active /\ f.active /\ e.session_ref = f.session_ref => e = f

\* No execution begins of a definition whose archive has committed, although
\* the check and the insert are two steps (INV-6I-START-01), and what begins
\* runs a version that was published.
StartsArePublished ==
  [][ \A e \in executions' : (\A f \in executions : f.id # e.id) =>
        /\ status[e.definition] # "ARCHIVED"
        /\ \E v \in versions : v.definition = e.definition
                               /\ v.version_number = e.version_number ]_vars

\* A version holds the graph that its publisher had read, and the row is the
\* same at the instant of the publish (INV-6I-PUB-03 to -06): nothing another
\* author did in between is published unseen.
PublishesWhatWasRead ==
  [][ \A v \in versions' \ versions : \E u \in Authors :
        /\ author[u] = "locked" /\ target[u] = v.definition
        /\ v.graph_json = seen[u].draft_graph ]_vars

\* Version numbers of a definition are 1, 2, 3, .. and in the order of
\* published_at, although NOW() is taken before the lock is waited for.
VersionsInOrder ==
  /\ \A v, w \in versions : v.definition = w.definition =>
       /\ v.version_number = w.version_number => v = w
       /\ v.version_number < w.version_number => v.published_at < w.published_at
  /\ \A v \in versions : v.version_number > 1 =>
       \E w \in versions : w.definition = v.definition
                           /\ w.version_number = v.version_number - 1

\* "a retry for the same session and the same workflow_version_id now gets
\* REPLAYED_EXISTING": a start is refused only if nothing it asked for runs.
RetryIsReplayed ==
  [][ \A c \in Callers : answer'[c] = "raised" /\ answer[c] # "raised" =>
        \A e \in Active(want[c].session_ref) : ~Runs(e, want[c]) ]_vars
-----------------------------------------------------------------------------
(* The inductive invariant                                                 *)

InFlight(u) == author[u] # "idle"

HasVersion(d, n) == \E v \in versions : v.definition = d /\ v.version_number = n

\* The NOW() of a transaction in flight is its own, and nobody has seen it yet.
StampsAreFresh ==
  /\ \A d \in Definitions : updated_at[d] <= clock
  /\ \A v \in versions : v.published_at <= clock
  /\ \A u \in Authors : seen[u].updated_at <= clock /\ now[u] <= clock
  /\ \A u \in Authors : InFlight(u) =>
       /\ \A d \in Definitions : updated_at[d] # now[u]
       /\ \A w \in Authors : seen[w].updated_at # now[u]
       /\ \A w \in Authors : InFlight(w) /\ w # u => now[w] # now[u]

\* While the ETag an author has seen is current, so is the draft that came with
\* it, and what is published already is older than the author's transaction.
EtagTellsAll == \A u \in Authors :
  seen[u].updated_at = updated_at[target[u]] =>
    /\ seen[u].draft_graph = draft_graph[target[u]]
    /\ InFlight(u) => \A v \in versions :
         v.definition = target[u] => v.published_at < now[u]

\* A publisher that holds its lock excludes the others and every start.
PublisherIsAlone == \A u \in Authors : author[u] = "locked" =>
  /\ Precondition(u)
  /\ NoStarter(target[u])
  /\ \A w \in Authors : author[w] = "locked" /\ target[w] = target[u] => w = u

PublishedHasVersion == \A d \in Definitions :
  status[d] = "PUBLISHED" => HasVersion(d, published[d])

\* What a caller relies on from its locks until it commits.
CallersHold == \A c \in Callers :
  /\ pc[c] # "idle" => HasVersion(want[c].definition, want[c].version_number)
  /\ pc[c] \in {"sharing", "locked"} => status[want[c].definition] # "ARCHIVED"
  /\ pc[c] = "locked" =>
       /\ \A b \in Callers : pc[b] = "locked"
                              /\ want[b].session_ref = want[c].session_ref => b = c
       /\ existing[c] = {} => Active(want[c].session_ref) = {}

LifecycleInv ==
  /\ StampsAreFresh
  /\ EtagTellsAll
  /\ PublisherIsAlone
  /\ PublishedHasVersion
  /\ CallersHold
  /\ OneActivePerSession
  /\ VersionsInOrder

Inductive == TypeOK /\ LifecycleInv
=============================================================================
