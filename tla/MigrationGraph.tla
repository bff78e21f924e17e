--------------------------- MODULE MigrationGraph ---------------------------
(***************************************************************************)
(* The static check of the migration package (migration_graph.py).         *)
(*                                                                         *)
(* A package is [present, files, sqls, content, checkout]: the wrappers    *)
(* under alembic/versions, the ids that migrations/ has an SQL file for,   *)
(* the bytes of all files, and what a checkout adds (line endings, caches) *)
(* without changing them.  A wrapper is [stem, revision, down, sql]: its   *)
(* file name, and the sets of ids its constants name: none, one, or, for a *)
(* merge point, several.  An id is its ordinal, 0 if it has none.          *)
(***************************************************************************)
EXTENDS Naturals, Sequences, FiniteSets

CONSTANT N   \* EXPECTED_REVISION_COUNT; 1 is the root, N the head

ASSUME GraphAssumption == N \in Nat \ {0}

Wrapper(i) == [stem |-> i, revision |-> {i}, down |-> {i - 1} \ {0}, sql |-> {i}]

\* FROZEN_MIGRATION_PACKAGE_SHA256 stands for these bytes.
Frozen == [present |-> TRUE, files |-> {Wrapper(i) : i \in 1..N}, sqls |-> 1..N,
           content |-> "frozen", checkout |-> "plain"]

\* compute_package_digest: every path and its content, line ends and caches
\* left out.
compute_package_digest(package) == <<package.files, package.sqls, package.content>>

\* read_revisions: a wrapper without an id, or with several parents, is only a
\* defect.
Unnamed(f) == f.revision = {}
Merging(f) == Cardinality(f.down) > 1
read_revisions(package) == {f \in package.files : ~Unnamed(f) /\ ~Merging(f)}
ReadDefects(package) ==
  {<<"no identifier", f.stem>> : f \in {g \in package.files : Unnamed(g)}}
    \cup {<<"not the file name", f.stem>> :
            f \in {g \in package.files : ~Unnamed(g) /\ g.revision # {g.stem}}}
    \cup {<<"several parents", f.stem>> : f \in {g \in package.files : ~Unnamed(g) /\ Merging(g)}}

Known(revisions) == UNION {r.revision : r \in revisions}
Roots(revisions) == {r \in revisions : r.down = {}}
Heads(revisions) == Known(revisions) \ UNION {r.down : r \in revisions}
Children(revisions, id) == {r \in revisions : r.down = {id}}

\* _walk_chain.  The walk follows the children from the root, one step after
\* another; "position" is the id it is at, 0 when it has come to an end.
The(ids) == CHOOSE id \in ids : TRUE
Walkable(revisions) ==
  /\ Cardinality(Roots(revisions)) = 1
  /\ \A id \in UNION {r.down : r \in revisions} : Cardinality(Children(revisions, id)) = 1

Ended == N + 99
Walk(revisions) ==
  LET after[i \in Nat] ==
        IF i = 0 THEN The((The(Roots(revisions))).revision)
        ELSE IF after[i - 1] # Ended /\ Children(revisions, after[i - 1]) # {}
             THEN The((The(Children(revisions, after[i - 1]))).revision)
             ELSE Ended
  IN after

\* An id that two wrappers claim may lead the walk back to itself, for ever.
WalkEnds(revisions) ==
  Walkable(revisions) => Walk(revisions)[Cardinality(revisions)] = Ended

\* Mutant of _walk_chain: the length of the chain is not compared.
WalkedPart(revisions) ==
  IF ~Walkable(revisions) THEN <<>>
  ELSE LET n == CHOOSE i \in 1..Cardinality(revisions) :
                  /\ Walk(revisions)[i] = Ended
                  /\ \A j \in 0..(i - 1) : Walk(revisions)[j] # Ended
       IN [i \in 1..n |-> Walk(revisions)[i - 1]]

_walk_chain(revisions) ==
  IF /\ Walkable(revisions)
     /\ \A i \in 0..(Cardinality(revisions) - 1) : Walk(revisions)[i] # Ended
  THEN [i \in 1..Cardinality(revisions) |-> Walk(revisions)[i - 1]]
  ELSE <<>>

\* inspect_migration_package
Defects(package) ==
  LET revisions == read_revisions(package)
      chain == _walk_chain(revisions) IN
  ReadDefects(package)
    \cup {<<"defined twice", id>> : id \in
            {k \in Known(revisions) : Cardinality({r \in revisions : r.revision = {k}}) > 1}}
    \cup {<<"unknown parent", r.stem>> : r \in
            {s \in revisions : ~(s.down \subseteq Known(revisions))}}
    \cup {<<"wraps another file", r.stem>> : r \in {s \in revisions : s.sql # s.revision}}
    \cup {<<"SQL missing", id>> : id \in Known(revisions) \ package.sqls}
    \cup {<<"SQL orphaned", id>> : id \in package.sqls \ Known(revisions)}
    \cup (IF chain = <<>> THEN {<<"no single chain", 0>>}
          ELSE IF \E i \in DOMAIN chain : chain[i] # i THEN {<<"ordinals", 0>>} ELSE {})

inspect_migration_package(package) ==
  LET revisions == read_revisions(package) IN
  [revision_count |-> Cardinality(revisions), sql_file_count |-> Cardinality(package.sqls),
   roots |-> {r.revision : r \in Roots(revisions)}, heads |-> Heads(revisions),
   chain |-> _walk_chain(revisions), package_sha256 |-> compute_package_digest(package),
   defects |-> Defects(package)]

\* find_baseline_violations is empty
Conforms(report) ==
  /\ report.defects = {}
  /\ report.revision_count = N /\ report.sql_file_count = N
  /\ report.roots = {{1}} /\ report.heads = {N}
  /\ report.package_sha256 = compute_package_digest(Frozen)

\* validate_frozen_baseline, and _validated_graph of the operator commands
validate_frozen_baseline(package) ==
  package.present /\ Conforms(inspect_migration_package(package))

-----------------------------------------------------------------------------
\* What "a single chain" means: an order of all revisions, their ids distinct,
\* in which the first has no parent and each is the parent of the next.
Orders(revisions) ==
  {order \in [1..Cardinality(revisions) -> revisions] :
     /\ \A i, j \in DOMAIN order : i # j => order[i].revision # order[j].revision
     /\ \A i \in DOMAIN order :
          order[i].down = IF i = 1 THEN {} ELSE order[i - 1].revision}
IsLinear(revisions) == revisions # {} /\ Orders(revisions) # {}
=============================================================================
