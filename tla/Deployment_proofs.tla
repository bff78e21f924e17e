-------------------------- MODULE Deployment_proofs --------------------------
(***************************************************************************)
(* Proofs about MigrationGraph, for any set of wrappers: the walk over a   *)
(* package comes to an end unless two wrappers claim one id, and what it   *)
(* finds is then a chain exactly when the revisions are one.  The walk is  *)
(* a recursive function, and the facts about it are proved by induction.   *)
(*                                                                         *)
(* Then about Deployment, for any number of operators and revisions, any   *)
(* packages, environments and configurations, and whichever revisions      *)
(* commit by themselves: what a URL that is accepted leads to, that the    *)
(* version row and the objects agree, and that what a command reports and  *)
(* where it connects is so.                                                *)
(***************************************************************************)
EXTENDS Deployment, NumberInduction, FiniteSetTheorems

-----------------------------------------------------------------------------
(* The walk over a package                                                 *)

\* A sequence that begins with b and goes on with g exists.
Part(g, b, S, n, h) ==
  h \in [0..n -> S] /\ h[0] = b /\ \A i \in 1..n : h[i] = g[h[i - 1]]

\* Two such sequences agree as far as both go.
LEMMA PartsAgree ==
  ASSUME NEW S, NEW b, NEW g, NEW n \in Nat, NEW h, Part(g, b, S, n, h),
         NEW m \in Nat, NEW k, Part(g, b, S, m, k)
  PROVE  \A i \in Nat : i <= n /\ i <= m => h[i] = k[i]
<1>. DEFINE T == {i \in Nat : i <= n /\ i <= m => h[i] = k[i]}
<1>1. 0 \in T
  BY DEF Part
<1>2. ASSUME NEW i \in Nat, i \in T PROVE i + 1 \in T
  <2> SUFFICES ASSUME i + 1 <= n, i + 1 <= m PROVE h[i + 1] = k[i + 1]
    OBVIOUS
  <2>1. h[i] = k[i] /\ i + 1 \in 1..n /\ i + 1 \in 1..m /\ (i + 1) - 1 = i
    BY <1>2
  <2>. QED
    BY <2>1 DEF Part
<1>. HIDE DEF T
<1>3. \A i \in Nat : i \in T
  BY <1>1, <1>2, Induction
<1>. QED
  BY <1>3 DEF T

\* The parts make one function that goes on for ever.
LEMMA Recursion ==
  ASSUME NEW S, NEW b \in S, NEW g \in [S -> S]
  PROVE  \E f \in [Nat -> S] : f[0] = b /\ \A i \in Nat \ {0} : f[i] = g[f[i - 1]]
<1>. DEFINE T == {n \in Nat : \E h : Part(g, b, S, n, h)}
<1>1. 0 \in T
  <2>1. Part(g, b, S, 0, [i \in 0..0 |-> b])
    BY DEF Part
  <2>. QED
    BY <2>1
<1>2. ASSUME NEW n \in Nat, n \in T PROVE n + 1 \in T
  <2>1. PICK h : Part(g, b, S, n, h)
    BY <1>2
  <2>. DEFINE k == [i \in 0..(n + 1) |-> IF i = n + 1 THEN g[h[n]] ELSE h[i]]
  <2>2. h[n] \in S /\ \A i \in 0..n : h[i] \in S
    BY <2>1 DEF Part
  <2>3. k \in [0..(n + 1) -> S]
    BY <2>2
  <2>4. k[0] = b
    BY <2>1 DEF Part
  <2>5. ASSUME NEW i \in 1..(n + 1) PROVE k[i] = g[k[i - 1]]
    <3>1. i - 1 \in 0..n /\ i - 1 # n + 1 /\ k[i - 1] = h[i - 1]
      OBVIOUS
    <3>2. CASE i = n + 1
      BY <3>1, <3>2
    <3>3. CASE i # n + 1
      <4>1. i \in 1..n /\ k[i] = h[i]
        BY <3>3
      <4>. QED
        BY <2>1, <3>1, <4>1 DEF Part
    <3>. QED
      BY <3>2, <3>3
  <2>. HIDE DEF k
  <2>6. Part(g, b, S, n + 1, k)
    BY <2>3, <2>4, <2>5 DEF Part
  <2>. QED
    BY <2>6
<1>. HIDE DEF T
<1>3. \A n \in Nat : n \in T
  BY <1>1, <1>2, Induction
<1>. DEFINE H(n) == CHOOSE h : Part(g, b, S, n, h)
<1>4. \A n \in Nat : Part(g, b, S, n, H(n))
  BY <1>3 DEF T
<1>. HIDE DEF H
<1>. DEFINE f == [i \in Nat |-> H(i)[i]]
<1>5. f \in [Nat -> S]
  <2>1. ASSUME NEW i \in Nat PROVE H(i)[i] \in S
    <3>1. i \in 0..i /\ H(i) \in [0..i -> S]
      BY <1>4 DEF Part
    <3>. QED
      BY <3>1
  <2>. QED
    BY <2>1
<1>6. f[0] = b
  BY <1>4 DEF Part
<1>7. ASSUME NEW i \in Nat \ {0} PROVE f[i] = g[f[i - 1]]
  <2>1. i \in Nat /\ i - 1 \in Nat /\ i - 1 <= i /\ i - 1 <= i - 1 /\ i \in 1..i
    OBVIOUS
  <2>2. H(i)[i] = g[H(i)[i - 1]]
    BY <1>4, <2>1 DEF Part
  <2>3. H(i)[i - 1] = H(i - 1)[i - 1]
    <3>1. Part(g, b, S, i, H(i)) /\ Part(g, b, S, i - 1, H(i - 1))
      BY <1>4, <2>1
    <3>. QED
      BY <2>1, <3>1, PartsAgree
  <2>. QED
    BY <2>1, <2>2, <2>3
<1>. HIDE DEF f
<1>. QED
  BY <1>5, <1>6, <1>7

-----------------------------------------------------------------------------
(* What the walk does                                                      *)

\* One step of it.
After(revisions, id) ==
  IF id # Ended /\ Children(revisions, id) # {}
  THEN The((The(Children(revisions, id))).revision) ELSE Ended

\* The loop's next wrapper is one of the children it may choose from.
LEMMA Chosen == \A ids : ids # {} => The(ids) \in ids
BY DEF The

\* _walk_chain as the loop runs it: from a root, one child after another.
LEMMA WalkIs ==
  ASSUME NEW revisions
  PROVE  /\ Walk(revisions)[0] = The((The(Roots(revisions))).revision)
         /\ \A i \in Nat \ {0} : Walk(revisions)[i] = After(revisions, Walk(revisions)[i - 1])
<1>. DEFINE b == The((The(Roots(revisions))).revision)
            S == {b, Ended} \cup {The(r.revision) : r \in revisions}
            g == [id \in S |-> After(revisions, id)]
            Is(f) == f = [i \in Nat |->
                            IF i = 0 THEN b
                            ELSE IF f[i - 1] # Ended /\ Children(revisions, f[i - 1]) # {}
                                 THEN The((The(Children(revisions, f[i - 1]))).revision)
                                 ELSE Ended]
<1>1. g \in [S -> S]
  <2>1. ASSUME NEW id \in S PROVE After(revisions, id) \in S
    <3>1. CASE id # Ended /\ Children(revisions, id) # {}
      <4>1. The(Children(revisions, id)) \in revisions
        BY <3>1, Chosen DEF Children
      <4>. QED
        BY <3>1, <4>1 DEF After
    <3>2. CASE ~(id # Ended /\ Children(revisions, id) # {})
      BY <3>2 DEF After
    <3>. QED
      BY <3>1, <3>2
  <2>. QED
    BY <2>1
<1>2. b \in S
  OBVIOUS
<1>3. \A id \in S : g[id] = After(revisions, id)
  OBVIOUS
<1>. HIDE DEF b, g, S
<1>4. PICK f \in [Nat -> S] : f[0] = b /\ \A i \in Nat \ {0} : f[i] = g[f[i - 1]]
  BY <1>1, <1>2, Recursion
<1>5. Is(f)
  <2>1. f = [i \in Nat |-> f[i]]
    OBVIOUS
  <2>2. ASSUME NEW i \in Nat \ {0} PROVE f[i] = After(revisions, f[i - 1])
    <3>1. i - 1 \in Nat /\ f[i - 1] \in S
      OBVIOUS
    <3>. QED
      BY <1>3, <1>4, <3>1
  <2>. QED
    BY <1>4, <2>1, <2>2 DEF After
<1>6. Walk(revisions) = CHOOSE h : Is(h)
  BY Zenon DEF Walk, b
<1>7. Is(Walk(revisions))
  BY <1>5, <1>6, Zenon
<1>. HIDE DEF Walk
<1>8. Walk(revisions)[0] = b
  BY <1>7
<1>9. ASSUME NEW i \in Nat \ {0}
      PROVE  Walk(revisions)[i] = After(revisions, Walk(revisions)[i - 1])
  BY <1>7 DEF After
<1>. QED
  BY <1>8, <1>9 DEF b

-----------------------------------------------------------------------------
(* What the walk visits                                                    *)

\* What read_revisions gives: finitely many wrappers, each with one id and with
\* one parent at most.
Read(revisions) ==
  /\ IsFiniteSet(revisions)
  /\ \A r \in revisions :
       /\ \E id \in r.revision : r.revision = {id} /\ id # Ended
       /\ r.down = {} \/ \E id \in r.down : r.down = {id}

\* What is chosen from a single one is that one.
LEMMA OnlyOne == \A id : The({id}) = id
BY DEF The

\* No two wrappers of a package that can be walked have the same parent, or none.
LEMMA OnlyChild ==
  ASSUME NEW revisions, Read(revisions), Walkable(revisions),
         NEW r \in revisions, NEW s \in revisions, r.down = s.down
  PROVE  r = s
<1>1. CASE r.down = {}
  <2>1. r \in Roots(revisions) /\ s \in Roots(revisions)
    BY <1>1 DEF Roots
  <2>2. IsFiniteSet(Roots(revisions)) /\ Cardinality(Roots(revisions)) = 1
    BY FS_Subset DEF Read, Walkable, Roots
  <2>3. \E x : Roots(revisions) = {x}
    BY <2>2, FS_Singleton
  <2>. QED
    BY <2>1, <2>3
<1>2. ASSUME NEW id, r.down = {id} PROVE r = s
  <2>1. r \in Children(revisions, id) /\ s \in Children(revisions, id)
    BY <1>2 DEF Children
  <2>2. id \in UNION {x.down : x \in revisions}
    BY <1>2
  <2>3. IsFiniteSet(Children(revisions, id)) /\ Cardinality(Children(revisions, id)) = 1
    BY <2>2, FS_Subset DEF Read, Walkable, Children
  <2>4. \E x : Children(revisions, id) = {x}
    BY <2>3, FS_Singleton
  <2>. QED
    BY <2>1, <2>4
<1>. QED
  BY <1>1, <1>2 DEF Read

\* The wrapper that is at a position of the walk.
Visited(revisions, i) ==
  IF i = 0 THEN The(Roots(revisions)) ELSE The(Children(revisions, Walk(revisions)[i - 1]))

\* It has the id of the position, and is a child of the one before.
LEMMA VisitedIs ==
  ASSUME NEW revisions, Read(revisions), Walkable(revisions),
         NEW i \in Nat, Walk(revisions)[i] # Ended
  PROVE  /\ Visited(revisions, i) \in revisions
         /\ Visited(revisions, i).revision = {Walk(revisions)[i]}
         /\ i = 0 => Visited(revisions, i).down = {}
         /\ i # 0 => /\ Walk(revisions)[i - 1] # Ended
                     /\ Visited(revisions, i).down = {Walk(revisions)[i - 1]}
<1>. DEFINE r == Visited(revisions, i)
<1>0. \A s \in revisions : s.revision = {The(s.revision)}
  BY OnlyOne DEF Read
<1>1. CASE i = 0
  <2>1. Walk(revisions)[i] = The(r.revision) /\ r = The(Roots(revisions))
    BY <1>1, WalkIs DEF Visited
  <2>2. Roots(revisions) # {}
    BY FS_EmptySet DEF Walkable
  <2>3. r \in revisions /\ r.down = {}
    BY <2>1, <2>2, Chosen DEF Roots
  <2>. QED
    BY <1>0, <1>1, <2>1, <2>3
<1>2. CASE i # 0
  <2>1. Walk(revisions)[i] = After(revisions, Walk(revisions)[i - 1])
    BY <1>2, WalkIs
  <2>2. Walk(revisions)[i - 1] # Ended /\ Children(revisions, Walk(revisions)[i - 1]) # {}
    BY <2>1 DEF After
  <2>3. r = The(Children(revisions, Walk(revisions)[i - 1])) /\ Walk(revisions)[i] = The(r.revision)
    BY <1>2, <2>1, <2>2 DEF After, Visited
  <2>4. r \in revisions /\ r.down = {Walk(revisions)[i - 1]}
    BY <2>2, <2>3, Chosen DEF Children
  <2>. QED
    BY <1>0, <1>2, <2>2, <2>3, <2>4
<1>. QED
  BY <1>1, <1>2

\* The walk has not ended before a position that it reaches.
LEMMA NotEndedBefore ==
  ASSUME NEW revisions, NEW j \in Nat, Walk(revisions)[j] # Ended
  PROVE  \A i \in 0..j : Walk(revisions)[i] # Ended
<1>. DEFINE T == {k \in Nat : k <= j => Walk(revisions)[j - k] # Ended}
<1>1. 0 \in T
  OBVIOUS
<1>2. ASSUME NEW k \in Nat, k \in T PROVE k + 1 \in T
  <2> SUFFICES ASSUME k + 1 <= j PROVE Walk(revisions)[j - (k + 1)] # Ended
    OBVIOUS
  <2>1. /\ Walk(revisions)[j - k] # Ended /\ j - k \in Nat \ {0}
        /\ (j - k) - 1 = j - (k + 1)
    BY <1>2
  <2>2. Walk(revisions)[j - k] = After(revisions, Walk(revisions)[j - (k + 1)])
    BY <2>1, WalkIs
  <2>. QED
    BY <2>1, <2>2 DEF After
<1>. HIDE DEF T
<1>3. \A k \in Nat : k \in T
  BY <1>1, <1>2, Induction
<1>4. ASSUME NEW i \in 0..j PROVE Walk(revisions)[i] # Ended
  <2>1. j - i \in Nat /\ j - i <= j /\ j - (j - i) = i
    OBVIOUS
  <2>. QED
    BY <1>3, <2>1 DEF T
<1>. QED
  BY <1>4

\* A walk that comes back to an id never ends.
LEMMA WalkGoesRound ==
  ASSUME NEW revisions, NEW i \in Nat, NEW j \in Nat, i < j,
         Walk(revisions)[j] # Ended, Walk(revisions)[i] = Walk(revisions)[j]
  PROVE  \A m \in Nat : Walk(revisions)[m] # Ended
<1>. DEFINE W == Walk(revisions)
            T == {k \in Nat : W[i + k] = W[j + k]}
            E == {m \in Nat : W[m] = Ended}
<1>1. \A m \in Nat \ {0} : W[m] = After(revisions, W[m - 1])
  BY WalkIs
<1>2. \A m \in 0..j : W[m] # Ended
  BY NotEndedBefore
<1>. HIDE DEF W
<1>3. 0 \in T
  BY DEF W
<1>4. ASSUME NEW k \in Nat, k \in T PROVE k + 1 \in T
  <2>1. W[i + k] = W[j + k]
    BY <1>4
  <2>2. /\ i + (k + 1) \in Nat \ {0} /\ (i + (k + 1)) - 1 = i + k
        /\ j + (k + 1) \in Nat \ {0} /\ (j + (k + 1)) - 1 = j + k
    OBVIOUS
  <2>3. W[i + (k + 1)] = After(revisions, W[i + k]) /\ W[j + (k + 1)] = After(revisions, W[j + k])
    BY <1>1, <2>2
  <2>. QED
    BY <2>1, <2>3
<1>. HIDE DEF T
<1>5. \A k \in Nat : k \in T
  BY <1>3, <1>4, Induction
<1>6. E = {}
  <2> SUFFICES ASSUME E # {} PROVE FALSE
    OBVIOUS
  <2>1. PICK m \in E : \A l \in E : m <= l
    <3>1. E \subseteq Nat
      OBVIOUS
    <3>. HIDE DEF E
    <3>. QED
      BY <3>1, LeastNumber
  <2>2. m \in Nat /\ W[m] = Ended
    OBVIOUS
  <2>3. m > j
    BY <1>2, <2>2
  <2>4. m - j \in Nat /\ j + (m - j) = m /\ i + (m - j) \in Nat /\ i + (m - j) < m
    BY <2>2, <2>3
  <2>5. W[i + (m - j)] = W[m]
    BY <1>5, <2>4 DEF T
  <2>6. i + (m - j) \in E
    BY <2>2, <2>4, <2>5
  <2>. QED
    BY <2>1, <2>2, <2>4, <2>6
<1>. QED
  BY <1>6 DEF W

-----------------------------------------------------------------------------
(* What the walk finds                                                     *)

\* Revisions that are one chain are found: the walk passes them in their order.
LEMMA LinearIsFound ==
  ASSUME NEW revisions, Read(revisions), IsLinear(revisions)
  PROVE  _walk_chain(revisions) # <<>>
<1>. DEFINE n == Cardinality(revisions)
            W == Walk(revisions)
<1>1. n \in Nat \ {0} /\ IsFiniteSet(revisions)
  BY FS_CardinalityType, FS_EmptySet DEF Read, IsLinear
<1>2. PICK order \in [1..n -> revisions] :
        /\ \A i, j \in 1..n : i # j => order[i].revision # order[j].revision
        /\ \A i \in 1..n : order[i].down = IF i = 1 THEN {} ELSE order[i - 1].revision
  BY DEF IsLinear, Orders
<1>3. \A r \in revisions : r.revision = {The(r.revision)} /\ The(r.revision) # Ended
  BY OnlyOne DEF Read
<1>. HIDE DEF n
<1>4. ASSUME NEW r \in revisions PROVE \E i \in 1..n : order[i] = r
  <2> SUFFICES ASSUME \A i \in 1..n : order[i] # r PROVE FALSE
    OBVIOUS
  <2>1. order \in [1..n -> revisions \ {r}]
    OBVIOUS
  <2>2. IsFiniteSet(revisions \ {r}) /\ Cardinality(revisions \ {r}) = n - 1
    BY <1>1, FS_RemoveElement DEF n
  <2>3. IsFiniteSet(1..n) /\ Cardinality(1..n) = n
    BY <1>1, FS_Interval
  <2>4. \E i, j \in 1..n : i # j /\ order[i] = order[j]
    BY <1>1, <2>1, <2>2, <2>3, FS_PigeonHole
  <2>. QED
    BY <1>2, <2>4
<1>5. ASSUME NEW i \in 1..n, i # 1
      PROVE  i - 1 \in 1..n /\ order[i].down = {The(order[i - 1].revision)}
  <2>1. i - 1 \in 1..n
    BY <1>1, <1>5
  <2>2. order[i].down = order[i - 1].revision
    BY <1>2, <1>5
  <2>3. order[i - 1] \in revisions
    BY <2>1
  <2>. QED
    BY <1>3, <2>1, <2>2, <2>3
<1>6. order[1].down = {} /\ 1 \in 1..n
  BY <1>1, <1>2
<1>7. Roots(revisions) = {order[1]}
  BY <1>2, <1>4, <1>5, <1>6 DEF Roots
<1>8. ASSUME NEW i \in 1..n, i # 1
      PROVE  Children(revisions, The(order[i - 1].revision)) = {order[i]}
  <2>1. ASSUME NEW j \in 1..n, order[j].down = {The(order[i - 1].revision)}
        PROVE  j = i
    <3>1. j # 1 /\ j - 1 \in 1..n /\ order[j].down = {The(order[j - 1].revision)}
      BY <1>5, <1>6, <2>1
    <3>2. The(order[j - 1].revision) = The(order[i - 1].revision) /\ i - 1 \in 1..n
      BY <1>5, <1>8, <2>1, <3>1
    <3>3. order[j - 1].revision = order[i - 1].revision
      BY <1>2, <1>3, <3>1, <3>2
    <3>4. j - 1 = i - 1
      BY <1>2, <3>1, <3>2, <3>3
    <3>. QED
      BY <3>4
  <2>. QED
    BY <1>2, <1>4, <1>5, <1>8, <2>1 DEF Children
<1>9. Walkable(revisions)
  <2>1. Cardinality(Roots(revisions)) = 1
    BY <1>7, FS_Singleton
  <2>2. ASSUME NEW id \in UNION {r.down : r \in revisions}
        PROVE  Cardinality(Children(revisions, id)) = 1
    <3>1. PICK i \in 1..n : id \in order[i].down
      BY <1>4
    <3>2. i # 1 /\ id = The(order[i - 1].revision)
      BY <1>5, <1>6, <3>1
    <3>. QED
      BY <1>8, <3>2, FS_Singleton
  <2>. QED
    BY <2>1, <2>2 DEF Walkable
<1>10. W[0] = The(order[1].revision) /\ \A i \in Nat \ {0} : W[i] = After(revisions, W[i - 1])
  BY <1>7, OnlyOne, WalkIs
<1>. HIDE DEF W
<1>. DEFINE T == {i \in Nat : i < n => W[i] = The(order[i + 1].revision)}
<1>11. 0 \in T
  BY <1>10
<1>12. ASSUME NEW i \in Nat, i \in T PROVE i + 1 \in T
  <2> SUFFICES ASSUME i + 1 < n PROVE W[i + 1] = The(order[(i + 1) + 1].revision)
    OBVIOUS
  <2>0. i < n /\ n \in Nat /\ i + 1 \in 1..n /\ (i + 1) + 1 \in 1..n /\ (i + 1) + 1 # 1
        /\ ((i + 1) + 1) - 1 = i + 1 /\ (i + 1) - 1 = i /\ i + 1 \in Nat \ {0}
    BY <1>1
  <2>1. W[i] = The(order[i + 1].revision)
    BY <1>12, <2>0
  <2>2. W[i] # Ended
    BY <1>2, <1>3, <2>0, <2>1
  <2>3. Children(revisions, W[i]) = {order[(i + 1) + 1]}
    BY <1>8, <2>0, <2>1
  <2>4. W[i + 1] = After(revisions, W[i])
    BY <1>10, <2>0
  <2>5. The(Children(revisions, W[i])) = order[(i + 1) + 1]
    BY <2>3, OnlyOne
  <2>. QED
    BY <2>2, <2>3, <2>4, <2>5 DEF After
<1>. HIDE DEF T
<1>13. \A i \in Nat : i \in T
  BY <1>11, <1>12, Induction
<1>14. ASSUME NEW i \in 0..(n - 1) PROVE W[i] # Ended
  <2>1. i \in Nat /\ i < n /\ i + 1 \in 1..n
    BY <1>1
  <2>2. W[i] = The(order[i + 1].revision)
    BY <1>13, <2>1 DEF T
  <2>. QED
    BY <1>2, <1>3, <2>1, <2>2
<1>15. _walk_chain(revisions) = [i \in 1..n |-> W[i - 1]]
  BY <1>9, <1>14 DEF _walk_chain, n, W
<1>16. DOMAIN _walk_chain(revisions) = 1..n /\ 1 \in 1..n
  BY <1>1, <1>15
<1>17. DOMAIN <<>> = {}
  OBVIOUS
<1>. QED
  BY <1>16, <1>17

\* A walk that has come to its end is one of distinct wrappers: a chain that was
\* found is one, in the order in which it is told.
LEMMA FoundIsLinear ==
  ASSUME NEW revisions, Read(revisions), WalkEnds(revisions), _walk_chain(revisions) # <<>>
  PROVE  /\ IsLinear(revisions)
         /\ \E order \in Orders(revisions) :
              \A i \in DOMAIN order : order[i].revision = {_walk_chain(revisions)[i]}
<1>. DEFINE n == Cardinality(revisions)
            W == Walk(revisions)
            order == [i \in 1..n |-> Visited(revisions, i - 1)]
<1>1. /\ Walkable(revisions) /\ \A i \in 0..(n - 1) : W[i] # Ended
      /\ _walk_chain(revisions) = [i \in 1..n |-> W[i - 1]]
  BY DEF _walk_chain
<1>2. W[n] = Ended
  BY <1>1 DEF WalkEnds
<1>3. n \in Nat /\ revisions # {}
  <2>1. Cardinality(Roots(revisions)) = 1
    BY <1>1 DEF Walkable
  <2>2. Roots(revisions) # {}
    BY <2>1, FS_EmptySet
  <2>. QED
    BY <2>2, FS_CardinalityType DEF Read, Roots
<1>. HIDE DEF n
<1>4. ASSUME NEW i \in 1..n
      PROVE  /\ i - 1 \in 0..(n - 1) /\ i - 1 \in Nat
             /\ order[i] \in revisions /\ order[i].revision = {W[i - 1]}
             /\ order[i].down = IF i = 1 THEN {} ELSE {W[(i - 1) - 1]}
  <2>1. i - 1 \in 0..(n - 1) /\ i - 1 \in Nat /\ (i - 1 = 0 <=> i = 1)
    BY <1>3
  <2>2. W[i - 1] # Ended
    BY <1>1, <2>1
  <2>3. order[i] = Visited(revisions, i - 1)
    OBVIOUS
  <2>. QED
    BY <1>1, <2>1, <2>2, <2>3, VisitedIs
<1>5. ASSUME NEW i \in Nat, NEW j \in Nat, i < j, j < n PROVE W[i] # W[j]
  <2>1. W[j] # Ended
    BY <1>1, <1>3, <1>5
  <2>. QED
    BY <1>2, <1>3, <1>5, <2>1, WalkGoesRound
<1>. HIDE DEF order, W
<1>6. order \in [1..n -> revisions]
  <2>1. order = [i \in 1..n |-> order[i]]
    BY DEF order
  <2>. QED
    BY <1>4, <2>1
<1>7. ASSUME NEW i \in 1..n, NEW j \in 1..n, i # j
      PROVE  order[i].revision # order[j].revision
  <2>1. W[i - 1] # W[j - 1]
    <3>1. i \in Nat /\ j \in Nat /\ i - 1 \in Nat /\ j - 1 \in Nat /\ i - 1 < n /\ j - 1 < n
      BY <1>3
    <3>2. CASE i < j
      BY <1>5, <3>1, <3>2
    <3>3. CASE j < i
      BY <1>5, <3>1, <3>3
    <3>. QED
      BY <1>7, <3>1, <3>2, <3>3
  <2>2. order[i].revision = {W[i - 1]} /\ order[j].revision = {W[j - 1]}
    BY <1>4
  <2>. QED
    BY <2>1, <2>2
<1>8. ASSUME NEW i \in 1..n
      PROVE  order[i].down = IF i = 1 THEN {} ELSE order[i - 1].revision
  <2>1. CASE i = 1
    BY <1>4, <2>1
  <2>2. CASE i # 1
    <3>1. i - 1 \in 1..n
      BY <1>3, <2>2
    <3>. QED
      BY <1>4, <2>2, <3>1
  <2>. QED
    BY <2>1, <2>2
<1>9. DOMAIN order = 1..n
  BY <1>6
<1>10. order \in Orders(revisions)
  BY <1>6, <1>7, <1>8, <1>9 DEF Orders, n
<1>11. \A i \in DOMAIN order : order[i].revision = {_walk_chain(revisions)[i]}
  <2>1. ASSUME NEW i \in 1..n PROVE order[i].revision = {_walk_chain(revisions)[i]}
    <3>1. order[i].revision = {W[i - 1]}
      BY <1>4
    <3>2. _walk_chain(revisions)[i] = W[i - 1]
      BY <1>1 DEF W
    <3>. QED
      BY <3>1, <3>2
  <2>. QED
    BY <1>9, <2>1
<1>. QED
  BY <1>3, <1>10, <1>11 DEF IsLinear

\* A walk that does not end has come back to where it was, and can only have
\* done so over an id that two wrappers claim.
LEMMA EndlessIsDouble ==
  ASSUME NEW revisions, Read(revisions), ~WalkEnds(revisions)
  PROVE  \E r1, r2 \in revisions : r1 # r2 /\ r1.revision = r2.revision
<1> SUFFICES ASSUME \A r1, r2 \in revisions : r1.revision = r2.revision => r1 = r2
             PROVE  FALSE
  OBVIOUS
<1>. DEFINE n == Cardinality(revisions)
            W == Walk(revisions)
            X(i) == Visited(revisions, i)
            f == [i \in 0..n |-> X(i)]
            Again == {i \in Nat : \E j \in 0..n : i < j /\ X(i) = X(j)}
<1>1. n \in Nat /\ IsFiniteSet(revisions)
  BY FS_CardinalityType DEF Read
<1>2. Walkable(revisions) /\ W[n] # Ended
  BY DEF WalkEnds
<1>3. \A i \in 0..n : W[i] # Ended
  BY <1>1, <1>2, NotEndedBefore
<1>4. ASSUME NEW i \in 0..n
      PROVE  /\ X(i) \in revisions /\ X(i).revision = {W[i]}
             /\ i = 0 => X(i).down = {}
             /\ i # 0 => X(i).down = {W[i - 1]}
  BY <1>2, <1>3, VisitedIs
<1>. HIDE DEF n, X, W
<1>5. f \in [0..n -> revisions]
  BY <1>4
<1>6. Again # {}
  <2>1. IsFiniteSet(0..n) /\ Cardinality(0..n) = n + 1
    BY <1>1, FS_Interval
  <2>2. n < n + 1
    BY <1>1
  <2>3. PICK i, j \in 0..n : i # j /\ f[i] = f[j]
    <3>. HIDE DEF f
    <3>. QED
      BY <1>1, <1>5, <2>1, <2>2, FS_PigeonHole DEF n
  <2>4. i \in Nat /\ j \in Nat /\ X(i) = X(j)
    BY <2>3
  <2>5. i < j \/ j < i
    BY <2>3, <2>4
  <2>. QED
    BY <2>4, <2>5
<1>7. PICK i \in Again : \A k \in Again : i <= k
  <2>1. Again \subseteq Nat
    OBVIOUS
  <2>. HIDE DEF Again
  <2>. QED
    BY <1>6, <2>1, LeastNumber
<1>8. PICK j \in 0..n : i \in Nat /\ i < j /\ X(i) = X(j)
  OBVIOUS
<1>9. i \in 0..n /\ j # 0 /\ j - 1 \in 0..n
  BY <1>1, <1>8
<1>10. i # 0 /\ W[i - 1] = W[j - 1]
  BY <1>4, <1>8, <1>9
<1>11. i - 1 \in 0..n /\ i - 1 \in Nat /\ i - 1 < j - 1 /\ ~(i <= i - 1)
  BY <1>1, <1>8, <1>9, <1>10
<1>12. X(i - 1) = X(j - 1)
  <2>1. X(i - 1).revision = {W[i - 1]} /\ X(i - 1) \in revisions
    BY <1>4, <1>11
  <2>2. X(j - 1).revision = {W[j - 1]} /\ X(j - 1) \in revisions
    BY <1>4, <1>9
  <2>. QED
    BY <1>10, <2>1, <2>2
<1>13. i - 1 \in Again
  BY <1>9, <1>11, <1>12
<1>. QED
  BY <1>7, <1>11, <1>13

-----------------------------------------------------------------------------
(* The frozen package                                                      *)

\* Its wrappers, and what they have.
LEMMA WrapperIs ==
  ASSUME NEW i \in 1..N
  PROVE  /\ Wrapper(i).stem = i /\ Wrapper(i).revision = {i} /\ Wrapper(i).sql = {i}
         /\ Wrapper(i).down = IF i = 1 THEN {} ELSE {i - 1}
<1>1. /\ Wrapper(i).stem = i /\ Wrapper(i).revision = {i} /\ Wrapper(i).sql = {i}
      /\ Wrapper(i).down = {i - 1} \ {0}
  BY DEF Wrapper
<1>2. i - 1 = 0 <=> i = 1
  BY GraphAssumption
<1>. QED
  BY <1>1, <1>2

\* The frozen package has one wrapper and one SQL file for each revision ...
LEMMA FrozenIs ==
  /\ Frozen.present /\ Frozen.sqls = 1..N /\ Frozen.content = "frozen"
  /\ Frozen.files = {Wrapper(i) : i \in 1..N}
BY DEF Frozen

\* ... and they are read without a defect.
LEMMA FrozenRevisions ==
  /\ read_revisions(Frozen) = {Wrapper(i) : i \in 1..N}
  /\ ReadDefects(Frozen) = {}
  /\ Read(read_revisions(Frozen))
  /\ Cardinality(read_revisions(Frozen)) = N
<1>. DEFINE R == {Wrapper(i) : i \in 1..N}
<1>0. N \in Nat /\ N > 0
  BY GraphAssumption
<1>1. ASSUME NEW i \in 1..N
      PROVE  /\ ~Unnamed(Wrapper(i)) /\ ~Merging(Wrapper(i))
             /\ Wrapper(i).revision = {Wrapper(i).stem}
             /\ Wrapper(i).revision = {i} /\ i # Ended
             /\ Wrapper(i).down = {} \/ \E id \in Wrapper(i).down : Wrapper(i).down = {id}
  <2>1. i \in Nat /\ i # 0 /\ i # Ended
    BY <1>0 DEF Ended
  <2>2. Wrapper(i).down = {} \/ Wrapper(i).down = {i - 1}
    BY <2>1, WrapperIs
  <2>3. ~Merging(Wrapper(i))
    <3>1. Cardinality(Wrapper(i).down) = 0 \/ Cardinality(Wrapper(i).down) = 1
      BY <2>2, FS_EmptySet, FS_Singleton
    <3>. QED
      BY <3>1 DEF Merging
  <2>4. ~Unnamed(Wrapper(i)) /\ Wrapper(i).revision = {i} /\ Wrapper(i).stem = i
    <3>1. Wrapper(i).revision = {i} /\ Wrapper(i).stem = i
      BY WrapperIs
    <3>. QED
      BY <3>1 DEF Unnamed
  <2>. QED
    BY <2>1, <2>2, <2>3, <2>4
<1>2. read_revisions(Frozen) = R
  BY <1>1, FrozenIs DEF read_revisions
<1>3. ReadDefects(Frozen) = {}
  <2>1. \A f \in Frozen.files : ~Unnamed(f) /\ ~Merging(f) /\ f.revision = {f.stem}
    BY <1>1, FrozenIs
  <2>. QED
    BY <2>1 DEF ReadDefects
<1>4. IsFiniteSet(R) /\ Cardinality(R) = N
  <2>. DEFINE f == [i \in 1..N |-> Wrapper(i)]
  <2>1. ASSUME NEW i \in 1..N, NEW j \in 1..N, Wrapper(i) = Wrapper(j) PROVE i = j
    <3>1. Wrapper(i).stem = i
      BY WrapperIs
    <3>2. Wrapper(j).stem = j
      BY WrapperIs
    <3>. QED
      BY <2>1, <3>1, <3>2
  <2>2. f \in [1..N -> R] /\ \A r \in R : \E i \in 1..N : f[i] = r
    OBVIOUS
  <2>3. \A i, j \in 1..N : f[i] = f[j] => i = j
    BY <2>1
  <2>. HIDE DEF f
  <2>4. ExistsBijection(1..N, R)
    BY <2>2, <2>3 DEF ExistsBijection, Bijection, Injection, Surjection, IsInjective
  <2>5. IsFiniteSet(1..N) /\ Cardinality(1..N) = N
    BY <1>0, FS_Interval
  <2>. QED
    BY <2>4, <2>5, FS_Bijection
<1>5. Read(R)
  BY <1>1, <1>4 DEF Read
<1>. QED
  BY <1>2, <1>3, <1>4, <1>5

\* The walk over the frozen package passes 1, 2, ..., N.
LEMMA FrozenChain ==
  ASSUME NEW revisions, revisions = {Wrapper(i) : i \in 1..N}, Read(revisions),
         Cardinality(revisions) = N
  PROVE  _walk_chain(revisions) = [i \in 1..N |-> i]
<1>. DEFINE W == Walk(revisions)
            T == {i \in Nat : i < N => W[i] = i + 1}
<1>0. N \in Nat /\ N > 0 /\ 1 \in 1..N
  BY GraphAssumption
<1>1. ASSUME NEW i \in 1..N, NEW id \in Nat \ {0}
      PROVE  Wrapper(i).down = {id} <=> i = id + 1
  <2>1. Wrapper(i).down = IF i = 1 THEN {} ELSE {i - 1}
    BY WrapperIs
  <2>2. (i = 1 => i # id + 1) /\ (i - 1 = id <=> i = id + 1)
    BY <1>0
  <2>. QED
    BY <2>1, <2>2
<1>2. \A i \in 1..N : Wrapper(i).down = {} <=> i = 1
  BY WrapperIs
<1>3. Roots(revisions) = {Wrapper(1)}
  BY <1>0, <1>2 DEF Roots
<1>4. ASSUME NEW id \in 1..N, id < N PROVE Children(revisions, id) = {Wrapper(id + 1)}
  <2>1. id + 1 \in 1..N /\ id \in Nat \ {0}
    BY <1>0, <1>4
  <2>. QED
    BY <1>1, <2>1 DEF Children
<1>5. Walkable(revisions)
  <2>1. Cardinality(Roots(revisions)) = 1
    BY <1>3, FS_Singleton
  <2>2. ASSUME NEW id \in UNION {r.down : r \in revisions}
        PROVE  Cardinality(Children(revisions, id)) = 1
    <3>1. PICK i \in 1..N : id \in Wrapper(i).down
      OBVIOUS
    <3>2. i # 1 /\ id = i - 1
      <4>1. Wrapper(i).down = IF i = 1 THEN {} ELSE {i - 1}
        BY WrapperIs
      <4>. QED
        BY <3>1, <4>1
    <3>3. id \in 1..N /\ id < N
      BY <1>0, <3>2
    <3>. QED
      BY <1>4, <3>3, FS_Singleton
  <2>. QED
    BY <2>1, <2>2 DEF Walkable
<1>6. /\ W[0] = The((The(Roots(revisions))).revision)
      /\ \A i \in Nat \ {0} : W[i] = After(revisions, W[i - 1])
  BY WalkIs
<1>. HIDE DEF W
<1>7. 0 \in T
  <2>1. Wrapper(1).revision = {1}
    BY <1>0, WrapperIs
  <2>2. The(Roots(revisions)) = Wrapper(1) /\ The({1}) = 1
    BY <1>3, OnlyOne
  <2>3. W[0] = 1
    BY <1>6, <2>1, <2>2
  <2>. QED
    BY <2>3
<1>8. ASSUME NEW i \in Nat, i \in T PROVE i + 1 \in T
  <2> SUFFICES ASSUME i + 1 < N PROVE W[i + 1] = (i + 1) + 1
    OBVIOUS
  <2>1. /\ i + 1 \in 1..N /\ i + 1 \in Nat \ {0} /\ (i + 1) - 1 = i /\ i + 1 # Ended
    BY <1>0 DEF Ended
  <2>2. W[i] = i + 1
    BY <1>0, <1>8
  <2>3. Children(revisions, i + 1) = {Wrapper((i + 1) + 1)}
    BY <1>4, <2>1
  <2>4. W[i + 1] = After(revisions, i + 1)
    BY <1>6, <2>1, <2>2
  <2>. DEFINE next == (i + 1) + 1
  <2>5. next \in 1..N
    BY <1>0
  <2>. HIDE DEF next
  <2>6. Wrapper(next).revision = {next}
    BY <2>5, WrapperIs
  <2>7. The(Children(revisions, i + 1)) = Wrapper(next) /\ The({next}) = next
    BY <2>3, OnlyOne DEF next
  <2>8. Children(revisions, i + 1) # {}
    BY <2>3
  <2>. QED
    BY <2>1, <2>4, <2>6, <2>7, <2>8 DEF After, next
<1>. HIDE DEF T
<1>9. \A i \in Nat : i \in T
  BY <1>7, <1>8, Induction
<1>10. ASSUME NEW i \in 0..(N - 1) PROVE W[i] = i + 1 /\ W[i] # Ended
  <2>1. i \in Nat /\ i < N
    BY <1>0
  <2>2. W[i] = i + 1
    BY <1>9, <2>1 DEF T
  <2>. QED
    BY <1>0, <2>1, <2>2 DEF Ended
<1>11. _walk_chain(revisions) = [i \in 1..N |-> W[i - 1]]
  BY <1>5, <1>10 DEF _walk_chain, W
<1>12. \A i \in 1..N : W[i - 1] = i
  <2>1. \A i \in 1..N : i - 1 \in 0..(N - 1) /\ (i - 1) + 1 = i
    BY <1>0
  <2>. QED
    BY <1>10, <2>1
<1>. QED
  BY <1>11, <1>12

\* The frozen package passes its own check, however many revisions it has: the
\* gate is not one that nothing can pass.
THEOREM FrozenPasses == validate_frozen_baseline(Frozen)
<1>. DEFINE R == read_revisions(Frozen)
            report == inspect_migration_package(Frozen)
<1>0. N \in Nat /\ N > 0 /\ 1 \in 1..N /\ N \in 1..N
  BY GraphAssumption
<1>1. /\ R = {Wrapper(i) : i \in 1..N} /\ ReadDefects(Frozen) = {} /\ Read(R)
      /\ Cardinality(R) = N
  BY FrozenRevisions
<1>2. _walk_chain(R) = [i \in 1..N |-> i]
  BY <1>1, FrozenChain
<1>. HIDE DEF R
<1>3. Known(R) = 1..N
  <2>1. ASSUME NEW i \in 1..N PROVE Wrapper(i).revision = {i}
    BY WrapperIs
  <2>. QED
    BY <1>1, <2>1 DEF Known
<1>4. UNION {r.down : r \in R} = 1..(N - 1)
  <2>1. ASSUME NEW id \in 1..(N - 1) PROVE \E r \in R : id \in r.down
    <3>1. id + 1 \in 1..N /\ id + 1 # 1 /\ (id + 1) - 1 = id
      BY <1>0
    <3>2. Wrapper(id + 1).down = {id}
      BY <3>1, WrapperIs
    <3>. QED
      BY <1>1, <3>1, <3>2
  <2>2. ASSUME NEW r \in R, NEW id \in r.down PROVE id \in 1..(N - 1)
    <3>1. PICK i \in 1..N : r = Wrapper(i)
      BY <1>1
    <3>2. i # 1 /\ id = i - 1
      <4>1. Wrapper(i).down = IF i = 1 THEN {} ELSE {i - 1}
        BY WrapperIs
      <4>. QED
        BY <2>2, <3>1, <4>1
    <3>. QED
      BY <1>0, <3>2
  <2>. QED
    BY <2>1, <2>2
<1>5. Roots(R) = {Wrapper(1)}
  <2>1. ASSUME NEW i \in 1..N PROVE Wrapper(i).down = {} <=> i = 1
    BY WrapperIs
  <2>. QED
    BY <1>0, <1>1, <2>1 DEF Roots
<1>6. Heads(R) = {N}
  BY <1>0, <1>3, <1>4 DEF Heads
<1>7. Defects(Frozen) = {}
  <2>1. \A k \in Known(R) : ~(Cardinality({r \in R : r.revision = {k}}) > 1)
    <3>1. ASSUME NEW k \in 1..N PROVE Cardinality({r \in R : r.revision = {k}}) = 1
      <4>1. {r \in R : r.revision = {k}} = {Wrapper(k)}
        <5>1. ASSUME NEW i \in 1..N PROVE Wrapper(i).revision = {i}
          BY WrapperIs
        <5>. QED
          BY <1>1, <5>1
      <4>. QED
        BY <4>1, FS_Singleton
    <3>2. ASSUME NEW k \in Known(R) PROVE ~(Cardinality({r \in R : r.revision = {k}}) > 1)
      <4>1. k \in 1..N
        BY <1>3, Zenon
      <4>2. Cardinality({r \in R : r.revision = {k}}) = 1
        BY <3>1, <4>1, Zenon
      <4>3. ~(1 > 1)
        OBVIOUS
      <4>. QED
        BY <4>2, <4>3, Zenon
    <3>. QED
      BY <3>2, Zenon
  <2>2. \A s \in R : s.down \subseteq Known(R) /\ s.sql = s.revision
    <3>1. \A s \in R : s.sql = s.revision
      <4>1. ASSUME NEW i \in 1..N PROVE Wrapper(i).sql = Wrapper(i).revision
        BY WrapperIs
      <4>. QED
        BY <1>1, <4>1
    <3>2. \A s \in R : s.down \subseteq 1..(N - 1)
      BY <1>4
    <3>. QED
      BY <1>0, <1>3, <3>1, <3>2
  <2>3. Known(R) \ Frozen.sqls = {} /\ Frozen.sqls \ Known(R) = {}
    BY <1>3, FrozenIs
  <2>4. DOMAIN _walk_chain(R) = 1..N /\ \A i \in 1..N : _walk_chain(R)[i] = i
    BY <1>2
  <2>5. _walk_chain(R) # <<>>
    <3>1. DOMAIN <<>> = {}
      OBVIOUS
    <3>. QED
      BY <1>0, <2>4, <3>1
  <2>. QED
    BY <1>1, <2>1, <2>2, <2>3, <2>4, <2>5 DEF Defects, R
<1>8. /\ report.defects = {} /\ report.revision_count = N
      /\ report.sql_file_count = N /\ report.heads = {N} /\ report.roots = {{1}}
      /\ report.package_sha256 = compute_package_digest(Frozen)
  <2>1. Cardinality(Frozen.sqls) = N
    BY <1>0, FrozenIs, FS_Interval
  <2>2. {r.revision : r \in Roots(R)} = {{1}}
    <3>1. Wrapper(1).revision = {1}
      BY <1>0, WrapperIs
    <3>. QED
      BY <1>5, <3>1
  <2>. QED
    BY <1>1, <1>6, <1>7, <2>1, <2>2 DEF inspect_migration_package, R
<1>. QED
  BY <1>8, FrozenIs DEF validate_frozen_baseline, Conforms

-----------------------------------------------------------------------------
(* What the checks before a connection establish                           *)

\* A package that passes is the frozen one, but for what a checkout adds.
LEMMA OnlyTheFrozenPackagePasses ==
  ASSUME NEW p, validate_frozen_baseline(p)
  PROVE  IsFrozen(p)
<1>1. p.present
  BY Zenon DEF validate_frozen_baseline
<1>2. inspect_migration_package(p).package_sha256 = compute_package_digest(p)
  BY DEF inspect_migration_package
<1>3. compute_package_digest(p) = compute_package_digest(Frozen)
  BY <1>2 DEF validate_frozen_baseline, Conforms
<1>4. p.files = Frozen.files /\ p.sqls = Frozen.sqls /\ p.content = Frozen.content
  BY <1>3 DEF compute_package_digest
<1>. QED
  BY <1>1, <1>4, Zenon DEF IsFrozen

\* And it does pass, however many revisions there are: the check refuses every
\* package but that one, and never that one.
THEOREM ExactlyTheFrozenPackagePasses ==
  \A p : validate_frozen_baseline(p) <=> IsFrozen(p)
<1> SUFFICES ASSUME NEW p, IsFrozen(p) PROVE validate_frozen_baseline(p)
  BY OnlyTheFrozenPackagePasses
<1>1. p.present /\ p.files = Frozen.files /\ p.sqls = Frozen.sqls /\ p.content = Frozen.content
  BY Zenon DEF IsFrozen
<1>2. read_revisions(p) = read_revisions(Frozen) /\ ReadDefects(p) = ReadDefects(Frozen)
  BY <1>1, Zenon DEF read_revisions, ReadDefects
<1>3. Defects(p) = Defects(Frozen)
  BY <1>1, <1>2, Zenon DEF Defects
<1>4. compute_package_digest(p) = compute_package_digest(Frozen)
  BY <1>1, Zenon DEF compute_package_digest
<1>5. inspect_migration_package(p) = inspect_migration_package(Frozen)
  BY <1>1, <1>2, <1>3, <1>4, Zenon DEF inspect_migration_package
<1>6. Conforms(inspect_migration_package(Frozen))
  BY FrozenPasses, Zenon DEF validate_frozen_baseline
<1>. QED
  BY <1>1, <1>5, <1>6, Zenon DEF validate_frozen_baseline

\* libpq goes where the URL of a migration command says.
LEMMA LibpqGoesThere ==
  ASSUME NEW s, migration_target(s)
  PROVE  LibpqDials(s.url, s.variables) =
           [host |-> s.url.host, port |-> s.url.port, dbname |-> s.url.database, user |-> s.url.user]
  BY DEF migration_target, LibpqDials, SAFE_LIBPQ_QUERY_PARAMETERS

\* asyncpg goes where a URL says that the settings accept.
LEMMA AsyncpgGoesThere ==
  ASSUME NEW url, ValidDatabaseUrl(url)
  PROVE  AsyncpgDials(url) = target(url)
  BY DEF ValidDatabaseUrl, AsyncpgDials, target

\* The settings that are accepted are declared in the environment, unless that
\* says it is a developer's.
LEMMA AcceptedIsDeclared ==
  ASSUME NEW c, Accepted(c.process, c.dotenv), ~c.superuser, ~c.bypassrls,
         NEW url, url = Complete(c.process, c.dotenv)["DATABASE"]
  PROVE  AsyncpgDials(url) = target(url) /\ Declared(c, AsyncpgDials(url))
<1>. DEFINE s == Complete(c.process, c.dotenv)
<1>1. /\ {"ENVIRONMENT", "DATABASE", "REDIS"} \subseteq DOMAIN s
      /\ ValidDatabaseUrl(url) /\ EnvironmentRules(s)
  BY DEF Accepted
<1>2. AsyncpgDials(url) = target(url)
  BY <1>1, AsyncpgGoesThere
<1>3. DOMAIN Defaults = {"LOG_FORMAT", "LOG_LEVEL", "ORIGINS", "NUMBERS"}
  BY DEF Defaults
<1>4. /\ DOMAIN s = DOMAIN Given(c.process, c.dotenv) \cup DOMAIN Defaults
      /\ \A name \in DOMAIN Given(c.process, c.dotenv) : s[name] = Given(c.process, c.dotenv)[name]
  BY DEF Complete, Over
<1>5. "ENVIRONMENT" \in DOMAIN c.process
  BY <1>1, <1>3, <1>4 DEF Given
<1>6. c.process["ENVIRONMENT"] = s["ENVIRONMENT"]
  BY <1>4, <1>5 DEF Given, Over
<1>7. target(url).database \in TestDatabases \/ s["ENVIRONMENT"] # "test"
  BY <1>1 DEF EnvironmentRules
<1>8. ASSUME s["ENVIRONMENT"] \in ProductionLike
      PROVE  /\ s["DATABASE"].ssl \in TLSModes /\ s["REDIS"].scheme = "rediss"
             /\ \A name \in DOMAIN s \ DOMAIN Defaults : s[name] = c.process[name]
  <2>1. Given(c.process, c.dotenv) = c.process
    BY <1>6, <1>8 DEF Given, ProductionLike
  <2>. QED
    BY <1>1, <1>4, <1>8, <2>1 DEF EnvironmentRules
<1>9. target(url).user \notin FORBIDDEN_RUNTIME_DATABASE_USERS
  BY <1>1 DEF ValidDatabaseUrl, target
<1>. HIDE DEF s
<1>10. Declared(c, target(url))
  BY <1>6, <1>7, <1>8, <1>9 DEF Declared, s
<1>. QED
  BY <1>2, <1>10

-----------------------------------------------------------------------------
(* Type correctness                                                        *)

\* There is a first revision, and Unknown comes after the last one.
LEMMA NIsPositive == N \in Nat /\ N > 0 /\ Unknown \in Nat /\ Unknown = N + 1
  BY GraphAssumption DEF Unknown

\* A revision creates only extensions the release requires.
LEMMA ExtensionsType == \A k \in 1..N : ExtensionsOf(k) \subseteq REQUIRED_EXTENSIONS
  BY DEF ExtensionsOf, REQUIRED_EXTENSIONS

\* What applying a revision adds to the database is of its type.
LEMMA GrownType ==
  ASSUME TypeOK, NEW k \in 1..N
  PROVE  /\ schema \cup {k} \subseteq 1..Unknown /\ {k} \subseteq 1..Unknown
         /\ schema \subseteq 1..Unknown /\ extensions \subseteq REQUIRED_EXTENSIONS
         /\ extensions \cup ExtensionsOf(k) \subseteq REQUIRED_EXTENSIONS
<1>1. k \in 1..Unknown
  BY NIsPositive
<1>2. ExtensionsOf(k) \subseteq REQUIRED_EXTENSIONS
  BY ExtensionsType
<1>. QED
  BY <1>1, <1>2 DEF TypeOK

\* The version row Alembic reads is a revision it knows.
LEMMA VersionRead ==
  ASSUME TypeOK, ~(Cardinality(version) > 1), Unknown \notin version, version # {}
  PROVE  The(version) \in 1..N /\ version = {The(version)}
<1>1. IsFiniteSet(version)
  <2>1. IsFiniteSet(1..Unknown)
    BY NIsPositive, FS_Interval
  <2>. QED
    BY <2>1, FS_Subset DEF TypeOK
<1>2. Cardinality(version) \in Nat /\ Cardinality(version) # 0
  BY <1>1, FS_CardinalityType, FS_EmptySet
<1>3. Cardinality(version) = 1
  BY <1>2
<1>4. PICK v : version = {v}
  BY <1>1, <1>3, FS_Singleton
<1>5. The(version) = v
  BY <1>4 DEF The
<1>6. v \in 1..Unknown /\ v # Unknown
  BY <1>4 DEF TypeOK
<1>. QED
  BY <1>4, <1>5, <1>6, NIsPositive

\* A command that ends, whatever it reports.
LEMMA EndType ==
  ASSUME TypeOK, NEW o \in Operators, NEW outcome \in Results, End(o, outcome)
  PROVE  /\ package' \in Packages /\ pc' \in [Operators -> Steps]
         /\ at' \in [Operators -> 0..N] /\ holding' \subseteq Operators
         /\ fine' \in [Operators -> BOOLEAN] /\ result' \in [Operators -> Results]
         /\ DOMAIN link' = Operators /\ DOMAIN settings' = Operators
<1>1. pc' \in [Operators -> Steps]
  BY DEF TypeOK, End, Steps
<1>2. at' \in [Operators -> 0..N]
  <2>1. 0 \in 0..N
    BY NIsPositive
  <2>. QED
    BY <2>1 DEF TypeOK, End
<1>3. /\ package' \in Packages /\ holding' \subseteq Operators
      /\ result' \in [Operators -> Results]
      /\ DOMAIN link' = Operators /\ DOMAIN settings' = Operators
  BY DEF TypeOK, End
<1>4. fine' \in [Operators -> BOOLEAN]
  BY DEF TypeOK, End
<1>. QED
  BY <1>1, <1>2, <1>3, <1>4

\* One that is refused, or fails, leaves the database as it is.
LEMMA RefuseType ==
  ASSUME TypeOK, NEW o \in Operators, Refuse(o)
  PROVE  TypeOK'
<1>1. "none" \in Results /\ End(o, "none")
  BY DEF Refuse, Results
<1>2. UNCHANGED dbVars
  BY DEF Refuse
<1>. QED
  BY <1>1, <1>2, EndType DEF TypeOK, dbVars

\* One that reports something.
LEMMA ReportType ==
  ASSUME TypeOK, NEW o \in Operators, NEW outcome \in Results, End(o, outcome),
         UNCHANGED dbVars
  PROVE  TypeOK'
  BY EndType DEF TypeOK, dbVars

\* One that goes on, with what it has read.
LEMMA StepType ==
  ASSUME TypeOK, NEW o \in Operators, NEW step \in Steps, NEW sofar \in BOOLEAN,
         Step(o, step, sofar), UNCHANGED dbVars
  PROVE  TypeOK'
<1>1. pc' \in [Operators -> Steps] /\ fine' \in [Operators -> BOOLEAN]
  BY DEF TypeOK, Step
<1>. QED
  BY <1>1 DEF TypeOK, Step, dbVars

\* One that connects.
LEMMA ConnectType ==
  ASSUME TypeOK, NEW o \in Operators, NEW step \in Steps, NEW s, Connect(o, step, s)
  PROVE  TypeOK'
<1>1. /\ pc' \in [Operators -> Steps] /\ result' \in [Operators -> Results]
      /\ DOMAIN link' = Operators /\ DOMAIN settings' = Operators
  BY DEF TypeOK, Connect, Results
<1>. QED
  BY <1>1 DEF TypeOK, Connect, dbVars

\* Reading the package from disk keeps the types.
LEMMA InspectsType ==
  ASSUME TypeOK, NEW o \in Operators, NEW step \in Steps, Inspects(o, step)
  PROVE  TypeOK'
<1>1. pc' \in [Operators -> Steps]
  BY DEF TypeOK, Inspects, Steps
<1>2. result' \in [Operators -> Results]
  BY DEF TypeOK, Inspects, Results
<1>3. DOMAIN link' = Operators /\ DOMAIN settings' = Operators
  BY DEF TypeOK, Inspects
<1>. QED
  BY <1>1, <1>2, <1>3 DEF TypeOK, Inspects, dbVars

\* The database, the package and the settings that are there at first are of their types.
LEMMA TypeInit == Init => TypeOK
<1> SUFFICES ASSUME Init PROVE TypeOK
  OBVIOUS
<1>1. PICK k \in 0..Unknown :
        /\ schema = 1..k
        /\ \/ table = FALSE /\ version = {}
           \/ table = TRUE /\ version = {k} \ {0}
           \/ table = TRUE /\ k > 1 /\ version = {k - 1, k}
        /\ extensions \in {{}, UNION {ExtensionsOf(i) : i \in 1..k}}
  BY DEF Init
<1>2. schema \subseteq 1..Unknown /\ version \subseteq 1..Unknown /\ reverted \subseteq 1..Unknown
  <2>1. reverted = {}
    BY DEF Init
  <2>. QED
    BY <1>1, <2>1, NIsPositive
<1>3. table \in BOOLEAN /\ (version # {} => table)
  BY <1>1
<1>4. extensions \subseteq REQUIRED_EXTENSIONS
  BY <1>1 DEF ExtensionsOf, REQUIRED_EXTENSIONS
<1>5. /\ package \in Packages /\ pc \in [Operators -> Steps] /\ holding \subseteq Operators
      /\ fine \in [Operators -> BOOLEAN] /\ result \in [Operators -> Results]
      /\ DOMAIN link = Operators /\ DOMAIN settings = Operators
  BY DEF Init, Steps, Results
<1>6. at \in [Operators -> 0..N]
  BY NIsPositive DEF Init
<1>. QED
  BY <1>2, <1>3, <1>4, <1>5, <1>6 DEF TypeOK

\* Every statement of every command keeps the types.
LEMMA TypeStep ==
  ASSUME TypeOK, \A o \in Operators : MigrationInStep(o), [Next]_vars
  PROVE  TypeOK'
<1>1. ASSUME NEW o \in Operators, Graph(o) \/ GateInspects(o) \/ UpgradeInspects(o)
      PROVE  TypeOK'
  BY <1>1, InspectsType DEF Graph, GateInspects, UpgradeInspects, Steps
<1>2. ASSUME NEW o \in Operators, Inspected(o) \/ Fail(o) PROVE TypeOK'
  BY <1>2, RefuseType DEF Inspected, Fail
<1>3. ASSUME NEW o \in Operators, NEW s, Check(o, s) \/ Gate(o, s) \/ Upgrade(o, s)
      PROVE  TypeOK'
  <2>1. Refuse(o) \/ \E step \in Steps : Connect(o, step, s)
    BY <1>3 DEF Check, Gate, Upgrade, Steps
  <2>. QED
    BY <2>1, RefuseType, ConnectType
<1>4. ASSUME NEW o \in Operators, NEW s, SetRuntimePassword(o, s) PROVE TypeOK'
  <2>1. Refuse(o) \/ (End(o, "password ok") /\ UNCHANGED dbVars)
    BY <1>4 DEF SetRuntimePassword
  <2>. QED
    BY <2>1, RefuseType, ReportType DEF Results
<1>5. ASSUME NEW o \in Operators, NEW c, StartApp(o, c) PROVE TypeOK'
  <2>1. CASE Refuse(o)
    BY <2>1, RefuseType
  <2>2. CASE ~Refuse(o)
    <3>1. /\ pc' \in [Operators -> Steps] /\ result' \in [Operators -> Results]
          /\ DOMAIN link' = Operators /\ DOMAIN settings' = Operators
          /\ UNCHANGED <<package, dbVars, at, holding, fine>>
      BY <1>5, <2>2 DEF StartApp, TypeOK, Steps, Results
    <3>. QED
      BY <3>1 DEF TypeOK, dbVars
  <2>. QED
    BY <2>1, <2>2
<1>6. ASSUME NEW o \in Operators, CheckExtensions(o) \/ GateRevisions(o) PROVE TypeOK'
  <2>1. UNCHANGED dbVars /\ \E step \in Steps, sofar \in BOOLEAN : Step(o, step, sofar)
    BY <1>6 DEF CheckExtensions, GateRevisions, Steps, AtHead
  <2>. QED
    BY <2>1, StepType
<1>7. ASSUME NEW o \in Operators, CheckRevisions(o) \/ GateExtensions(o) \/ UpgradeEnds(o)
      PROVE  TypeOK'
  <2>1. UNCHANGED dbVars /\ \E outcome \in Results : End(o, outcome)
    BY <1>7 DEF CheckRevisions, GateExtensions, UpgradeEnds, Results
  <2>. QED
    BY <2>1, ReportType
<1>8. ASSUME NEW o \in Operators, UpgradeRevisions(o) \/ UpgradeSentinel(o) PROVE TypeOK'
  <2>1. \/ Refuse(o)
        \/ UNCHANGED dbVars /\ \E step \in Steps, sofar \in BOOLEAN : Step(o, step, sofar)
    <3>1. table \in BOOLEAN
      BY DEF TypeOK
    <3>2. "upgrade read" \in Steps /\ "alembic started" \in Steps
      BY DEF Steps
    <3>. QED
      BY <1>8, <3>1, <3>2, Zenon DEF UpgradeRevisions, UpgradeSentinel
  <2>. QED
    BY <2>1, RefuseType, StepType
<1>9. ASSUME NEW o \in Operators, AlembicStarts(o) PROVE TypeOK'
  <2>1. CASE Refuse(o)
    BY <2>1, RefuseType
  <2>2. CASE ~Refuse(o)
    <3>1. ~(Cardinality(version) > 1) /\ Unknown \notin version
      BY <1>9, <2>2, Zenon DEF AlembicStarts
    <3>2. (IF version = {} THEN 0 ELSE The(version)) \in 0..N
      BY <3>1, VersionRead, NIsPositive
    <3>3. at' \in [Operators -> 0..N] /\ pc' \in [Operators -> Steps]
      BY <1>9, <2>2, <3>1, <3>2 DEF AlembicStarts, TypeOK, Steps, Migrating
    <3>. QED
      BY <1>9, <2>2, <3>3 DEF AlembicStarts, TypeOK, dbVars
  <2>. QED
    BY <2>1, <2>2
<1>10. ASSUME NEW o \in Operators, Apply(o) PROVE TypeOK'
  <2>1. Next_(o) \in 1..N
    <3>1. at[o] \in 0..N /\ at[o] < N
      BY <1>10 DEF TypeOK, Apply
    <3>. QED
      BY <3>1, NIsPositive DEF Next_
  <2>2. schema' \subseteq 1..Unknown /\ extensions' \subseteq REQUIRED_EXTENSIONS
    <3>1. /\ schema' \in {schema, schema \cup {Next_(o)}}
          /\ extensions' \in {extensions, extensions \cup ExtensionsOf(Next_(o))}
      BY <1>10 DEF Apply
    <3>. QED
      BY <2>1, <3>1, GrownType
  <2>3. table' \in BOOLEAN /\ (version' # {} => table')
    BY <1>10 DEF TypeOK, Apply
  <2>4. pc' \in [Operators -> Steps]
    BY <1>10 DEF TypeOK, Apply, Steps, Migrating
  <2>. QED
    BY <1>10, <2>2, <2>3, <2>4 DEF TypeOK, Apply
<1>11. ASSUME NEW o \in Operators, Record(o) PROVE TypeOK'
  BY <1>11 DEF TypeOK, Record, Steps, Migrating, dbVars
<1>12. ASSUME NEW o \in Operators, CommitRevision(o) PROVE TypeOK'
  <2>1. Next_(o) \in 1..N
    <3>1. at[o] \in 0..N /\ at[o] < N
      BY <1>12 DEF TypeOK, CommitRevision, MigrationInStep
    <3>. QED
      BY <3>1, NIsPositive DEF Next_
  <2>2. /\ schema' \subseteq 1..Unknown /\ extensions' \subseteq REQUIRED_EXTENSIONS
        /\ version' \subseteq 1..Unknown /\ table' = TRUE /\ reverted' \subseteq 1..Unknown
    <3>1. /\ schema' = schema \cup {Next_(o)} /\ table' = TRUE
          /\ version' = (version \ {at[o]}) \cup {Next_(o)}
          /\ extensions' = extensions \cup ExtensionsOf(Next_(o))
          /\ reverted' \subseteq reverted \cup schema
      BY <1>12 DEF CommitRevision
    <3>2. version \subseteq 1..Unknown /\ reverted \subseteq 1..Unknown
      BY DEF TypeOK
    <3>. QED
      BY <2>1, <3>1, <3>2, GrownType
  <2>3. /\ package' \in Packages /\ pc' \in [Operators -> Steps]
        /\ at' \in [Operators -> 0..N] /\ holding' \subseteq Operators
        /\ fine' \in [Operators -> BOOLEAN] /\ result' \in [Operators -> Results]
        /\ DOMAIN link' = Operators /\ DOMAIN settings' = Operators
    <3>1. CASE End(o, "none")
      BY <3>1, EndType DEF Results
    <3>2. CASE /\ at' = [at EXCEPT ![o] = Next_(o)]
               /\ pc' = [pc EXCEPT ![o] = "migrating"]
               /\ holding' = holding \ {o}
               /\ UNCHANGED <<package, fine, link, settings, result>>
      <4>1. Next_(o) \in 0..N
        BY <2>1
      <4>2. at' \in [Operators -> 0..N] /\ pc' \in [Operators -> Steps]
        BY <3>2, <4>1 DEF TypeOK, Steps, Migrating
      <4>. QED
        BY <3>2, <4>2 DEF TypeOK
    <3>. QED
      BY <1>12, <3>1, <3>2 DEF CommitRevision
  <2>. QED
    BY <2>2, <2>3 DEF TypeOK
<1>13. ASSUME NEW o \in Operators, AlembicEnds(o) PROVE TypeOK'
  BY <1>13 DEF TypeOK, AlembicEnds, Steps, dbVars
<1>14. ASSUME NEW o \in Operators, VerifyExtensions(o) PROVE TypeOK'
  <2>1. Refuse(o) \/ (Step(o, "app checked", TRUE) /\ UNCHANGED dbVars)
    BY <1>14 DEF VerifyExtensions
  <2>. QED
    BY <2>1, RefuseType, StepType DEF Steps
<1>15. ASSUME NEW o \in Operators, VerifyRevision(o) PROVE TypeOK'
  <2>1. Refuse(o) \/ (UNCHANGED dbVars /\ \E outcome \in Results : End(o, outcome))
    BY <1>15 DEF VerifyRevision, Results
  <2>. QED
    BY <2>1, RefuseType, ReportType
<1>16. ASSUME NEW o \in Operators, _ensure_version_table(o) PROVE TypeOK'
  BY <1>16 DEF TypeOK, _ensure_version_table, Steps, Migrating, dbVars
<1>17. CASE UNCHANGED vars
  BY <1>17 DEF TypeOK, vars, dbVars
<1>. QED
  BY <1>1, <1>2, <1>3, <1>4, <1>5, <1>6, <1>7, <1>8, <1>9, <1>10, <1>11, <1>12, <1>13, <1>14,
     <1>15, <1>16, <1>17, Zenon DEF Next, Command

-----------------------------------------------------------------------------
(* Commands against each other                                             *)

\* A command leaves alone what belongs to the other operators.
LEMMA OthersKept ==
  ASSUME TypeOK, NEW o \in Operators, NEW p \in Operators \ {o}, Command(o)
  PROVE  /\ pc'[p] = pc[p] /\ at'[p] = at[p] /\ fine'[p] = fine[p]
         /\ link'[p] = link[p] /\ settings'[p] = settings[p] /\ result'[p] = result[p]
         /\ (p \in holding' => p \in holding) /\ Next_(p)' = Next_(p) /\ Touched(p)' = Touched(p)
         /\ package' = package
<1>. DEFINE Own ==
       /\ pc'[p] = pc[p] /\ at'[p] = at[p] /\ fine'[p] = fine[p]
       /\ link'[p] = link[p] /\ settings'[p] = settings[p] /\ result'[p] = result[p]
       /\ (p \in holding' => p \in holding)
       /\ package' = package
<1>0. /\ DOMAIN pc = Operators /\ DOMAIN at = Operators /\ DOMAIN fine = Operators
      /\ DOMAIN link = Operators /\ DOMAIN settings = Operators /\ DOMAIN result = Operators
  BY DEF TypeOK
<1>1. ASSUME NEW outcome, End(o, outcome) PROVE Own
  BY <1>0, <1>1 DEF End
<1>2. ASSUME Refuse(o) PROVE Own
  BY <1>1, <1>2 DEF Refuse
<1>3. ASSUME NEW step, NEW sofar, Step(o, step, sofar) PROVE Own
  BY <1>0, <1>3 DEF Step
<1>4. ASSUME NEW step, NEW s, Connect(o, step, s) PROVE Own
  BY <1>0, <1>4 DEF Connect
<1>5. ASSUME NEW step, Inspects(o, step) PROVE Own
  BY <1>0, <1>5 DEF Inspects
<1>6. ASSUME Graph(o) \/ GateInspects(o) \/ UpgradeInspects(o) PROVE Own
  BY <1>5, <1>6 DEF Graph, GateInspects, UpgradeInspects
<1>7. ASSUME Inspected(o) \/ Fail(o) PROVE Own
  BY <1>2, <1>7 DEF Inspected, Fail
<1>8. ASSUME NEW s, Check(o, s) \/ Gate(o, s) \/ Upgrade(o, s) \/ SetRuntimePassword(o, s)
      PROVE  Own
  <2>1. Refuse(o) \/ (\E step : Connect(o, step, s)) \/ End(o, "password ok")
    BY <1>8 DEF Check, Gate, Upgrade, SetRuntimePassword
  <2>. QED
    BY <1>1, <1>2, <1>4, <2>1
<1>9. ASSUME NEW c, StartApp(o, c) PROVE Own
  <2>1. CASE Refuse(o)
    BY <1>2, <2>1
  <2>2. CASE ~Refuse(o)
    BY <1>0, <1>9, <2>2 DEF StartApp
  <2>. QED
    BY <2>1, <2>2
<1>10. ASSUME CheckExtensions(o) \/ GateRevisions(o) PROVE Own
  BY <1>3, <1>10 DEF CheckExtensions, GateRevisions
<1>11. ASSUME CheckRevisions(o) \/ GateExtensions(o) \/ UpgradeEnds(o) PROVE Own
  BY <1>1, <1>11 DEF CheckRevisions, GateExtensions, UpgradeEnds
<1>12. ASSUME UpgradeRevisions(o) \/ UpgradeSentinel(o) \/ VerifyExtensions(o) \/ VerifyRevision(o)
       PROVE  Own
  <2>1. Refuse(o) \/ (\E step, sofar : Step(o, step, sofar)) \/ (\E outcome : End(o, outcome))
    BY <1>12, Zenon DEF UpgradeRevisions, UpgradeSentinel, VerifyExtensions, VerifyRevision
  <2>. QED
    BY <1>1, <1>2, <1>3, <2>1
<1>13. ASSUME AlembicStarts(o) PROVE Own
  <2>1. CASE Refuse(o)
    BY <1>2, <2>1
  <2>2. CASE ~Refuse(o)
    BY <1>0, <1>13, <2>2 DEF AlembicStarts
  <2>. QED
    BY <2>1, <2>2
<1>14. ASSUME _ensure_version_table(o) \/ Apply(o) \/ Record(o) \/ AlembicEnds(o) PROVE Own
  BY <1>0, <1>14 DEF _ensure_version_table, Apply, Record, AlembicEnds
<1>15. ASSUME CommitRevision(o) PROVE Own
  <2>1. CASE End(o, "none")
    BY <1>1, <2>1
  <2>2. CASE ~End(o, "none")
    BY <1>0, <1>15, <2>2 DEF CommitRevision
  <2>. QED
    BY <2>1, <2>2
<1>. HIDE DEF Own
<1>16. Own
  BY <1>6, <1>7, <1>8, <1>9, <1>10, <1>11, <1>12, <1>13, <1>14, <1>15, Zenon DEF Command
<1>. QED
  BY <1>16 DEF Own, Next_, Touched

\* The steps of Alembic, and the last one before it starts.
AlembicStep(o) ==
  \/ UpgradeSentinel(o) \/ AlembicStarts(o) \/ _ensure_version_table(o)
  \/ Apply(o) \/ Record(o) \/ CommitRevision(o)

\* Everything else leaves the database, and whoever writes to it, as it was.
LEMMA QuietSteps ==
  ASSUME TypeOK, OneWriter, NEW o \in Operators, Command(o), ~AlembicStep(o) \/ Refuse(o)
  PROVE  /\ UNCHANGED dbVars
         /\ pc'[o] \notin {"alembic started", "heads read"} \cup Migrating
         /\ holding' = holding \ {o}
<1>. DEFINE Quiet == /\ UNCHANGED dbVars
                     /\ pc'[o] \notin {"alembic started", "heads read"} \cup Migrating
                     /\ holding' = holding \ {o}
<1>0. DOMAIN pc = Operators /\ (pc[o] # "recorded" => holding = holding \ {o})
  BY DEF TypeOK, OneWriter
<1>. USE DEF Migrating
<1>1. ASSUME NEW outcome, End(o, outcome), UNCHANGED dbVars PROVE Quiet
  BY <1>0, <1>1 DEF End
<1>2. ASSUME Refuse(o) PROVE Quiet
  BY <1>1, <1>2 DEF Refuse
<1>3. ASSUME NEW step \in {"check read", "gate read", "upgrade read", "app checked"}, NEW sofar,
             Step(o, step, sofar), UNCHANGED dbVars, pc[o] # "recorded"
      PROVE  Quiet
  BY <1>0, <1>3 DEF Step
<1>4. ASSUME NEW step \in {"check connected", "gate connected", "upgrade connected"}, NEW s,
             Connect(o, step, s), pc[o] # "recorded"
      PROVE  Quiet
  BY <1>0, <1>4 DEF Connect, dbVars
<1>5. ASSUME NEW step \in {"idle", "gate inspected", "upgrade inspected"}, Inspects(o, step)
      PROVE  Quiet
  BY <1>0, <1>5 DEF Inspects
<1>6. ASSUME Graph(o) \/ GateInspects(o) \/ UpgradeInspects(o) PROVE Quiet
  BY <1>5, <1>6 DEF Graph, GateInspects, UpgradeInspects
<1>7. ASSUME Inspected(o) \/ Fail(o) PROVE Quiet
  BY <1>2, <1>7 DEF Inspected, Fail
<1>8. ASSUME NEW s, Check(o, s) \/ Gate(o, s) \/ Upgrade(o, s) \/ SetRuntimePassword(o, s)
      PROVE  Quiet
  <2>1. \/ Refuse(o)
        \/ /\ \E step \in {"check connected", "gate connected", "upgrade connected"} :
                Connect(o, step, s)
           /\ pc[o] # "recorded"
        \/ End(o, "password ok") /\ UNCHANGED dbVars
    BY <1>8 DEF Check, Gate, Upgrade, SetRuntimePassword
  <2>. QED
    BY <1>1, <1>2, <1>4, <2>1
<1>9. ASSUME NEW c, StartApp(o, c) PROVE Quiet
  <2>1. CASE Refuse(o)
    BY <1>2, <2>1
  <2>2. CASE ~Refuse(o)
    BY <1>0, <1>9, <2>2 DEF StartApp
  <2>. QED
    BY <2>1, <2>2
<1>10. ASSUME CheckExtensions(o) \/ GateRevisions(o) \/ UpgradeRevisions(o) \/ VerifyExtensions(o)
       PROVE  Quiet
  <2>1. \/ Refuse(o)
        \/ /\ \E step \in {"check read", "gate read", "upgrade read", "app checked"} : \E sofar :
                Step(o, step, sofar)
           /\ UNCHANGED dbVars /\ pc[o] # "recorded"
    BY <1>10 DEF CheckExtensions, GateRevisions, UpgradeRevisions, VerifyExtensions
  <2>. QED
    BY <1>2, <1>3, <2>1
<1>11. ASSUME CheckRevisions(o) \/ GateExtensions(o) \/ UpgradeEnds(o) \/ VerifyRevision(o)
       PROVE  Quiet
  <2>1. Refuse(o) \/ (UNCHANGED dbVars /\ \E outcome : End(o, outcome))
    BY <1>11, Zenon DEF CheckRevisions, GateExtensions, UpgradeEnds, VerifyRevision
  <2>. QED
    BY <1>1, <1>2, <2>1
<1>12. ASSUME AlembicEnds(o) PROVE Quiet
  BY <1>0, <1>12 DEF AlembicEnds
<1>. HIDE DEF Quiet
<1>13. Quiet
  BY <1>2, <1>6, <1>7, <1>8, <1>9, <1>10, <1>11, <1>12, Zenon DEF Command, AlembicStep
<1>. QED
  BY <1>13 DEF Quiet

\* What Alembic and the commands around it keep of the database.
Migrations ==
  /\ VersionAgrees /\ OneWriter /\ RowsAreLate /\ RevertedIsSeen
  /\ \A o \in Operators : MigrationInStep(o)

\* A command that is at work has every revision below it, and adding the next
\* one leaves no gap.
LEMMA NextRevision ==
  ASSUME TypeOK, Migrations, NEW o \in Operators, pc[o] \in Migrating, at[o] < N
  PROVE  /\ Next_(o) \in 1..N /\ at[o] \in 0..N /\ Next_(o) = at[o] + 1
         /\ 1..at[o] \subseteq schema
         /\ Next_(o) \notin schema => schema = 1..at[o]
         /\ \E k \in 0..Unknown : schema \cup {Next_(o)} = 1..k
<1>. DEFINE a == at[o]
<1>1. a \in 0..N /\ a \in Nat /\ a < N /\ N \in Nat /\ Unknown = N + 1
  BY NIsPositive DEF TypeOK
<1>2. 1..a \subseteq schema
  <2>1. CASE a = 0
    BY <2>1
  <2>2. CASE \E v \in version : a <= v
    <3>1. PICK w \in version : a <= w
      BY <2>2
    <3>2. PICK v \in version : (\A u \in version : u <= v) /\ 1..v \subseteq schema
      BY <3>1 DEF Migrations, VersionAgrees
    <3>3. v \in 1..Unknown /\ w \in 1..Unknown /\ w <= v
      BY <3>2 DEF TypeOK
    <3>. QED
      BY <1>1, <3>1, <3>2, <3>3
  <2>. QED
    BY <2>1, <2>2 DEF Migrations, MigrationInStep
<1>3. PICK k \in 0..Unknown : schema = 1..k
  BY DEF Migrations, VersionAgrees
<1>4. Next_(o) = a + 1
  BY DEF Next_
<1>. HIDE DEF a
<1>5. k >= a
  BY <1>1, <1>2, <1>3
<1>6. a + 1 \notin schema => k = a
  BY <1>1, <1>3, <1>5
<1>7. CASE a + 1 \in schema
  BY <1>1, <1>2, <1>3, <1>4, <1>7 DEF a
<1>8. CASE a + 1 \notin schema
  <2>1. schema \cup {a + 1} = 1..(a + 1)
    BY <1>1, <1>3, <1>6, <1>8
  <2>2. a + 1 \in 0..Unknown
    BY <1>1
  <2>3. schema = 1..a
    BY <1>3, <1>6, <1>8
  <2>. QED
    BY <1>1, <1>2, <1>4, <2>1, <2>2, <2>3 DEF a
<1>. QED
  BY <1>7, <1>8

\* Every row names revisions that are there.
LEMMA RowsAreThere ==
  ASSUME TypeOK, Migrations, NEW v \in version
  PROVE  v \in 1..Unknown /\ 1..v \subseteq schema
<1>1. PICK u \in version : (\A w \in version : w <= u) /\ 1..u \subseteq schema
  BY DEF Migrations, VersionAgrees
<1>2. u \in 1..Unknown /\ v \in 1..Unknown /\ v <= u
  BY <1>1 DEF TypeOK
<1>. QED
  BY <1>1, <1>2, NIsPositive

\* A revision that is not there yet comes after every row.
LEMMA NewIsLast ==
  ASSUME TypeOK, Migrations, NEW o \in Operators, pc[o] \in Migrating, at[o] < N,
         Next_(o) \notin schema, NEW v \in version
  PROVE  v <= at[o]
<1>1. v \in 1..Unknown /\ 1..v \subseteq schema
  BY RowsAreThere
<1>2. at[o] \in 0..N /\ Next_(o) = at[o] + 1
  BY NextRevision
<1>. QED
  BY <1>1, <1>2, NIsPositive

\* A revision that commits by itself is at most one ahead of the newest row.
LEMMA ApplyAgrees ==
  ASSUME TypeOK, Migrations, NEW o \in Operators, Apply(o)
  PROVE  VersionAgrees'
<1>1. CASE Next_(o) \notin SelfCommitting
  BY <1>1 DEF Apply, Migrations, VersionAgrees
<1>2. CASE Next_(o) \in SelfCommitting
  <2>. DEFINE a == at[o]
  <2>1. /\ schema' = schema \cup {Next_(o)} /\ table' = TRUE /\ version' = version
        /\ Next_(o) \notin schema /\ pc[o] \in Migrating /\ a < N
    BY <1>2, DeploymentAssumption DEF Apply, Migrating
  <2>2. /\ a \in 0..N /\ Next_(o) = a + 1 /\ schema = 1..a
        /\ \E k \in 0..Unknown : schema' = 1..k
    BY <2>1, NextRevision
  <2>3. a = 0 \/ \E v \in version : a <= v
    BY <2>1 DEF Migrations, MigrationInStep
  <2>4. \A v \in version : v <= a
    BY <2>1, NewIsLast
  <2>. HIDE DEF a
  <2>5. ASSUME version' # {}
        PROVE  \E v \in version' :
                 /\ \A w \in version' : w <= v
                 /\ 1..v \subseteq schema' /\ schema' \ (1..v) \subseteq {v + 1} \cap SelfCommitting
    <3>1. a \in version
      <4>0. version # {} /\ \A v \in version : v \in Nat
        BY <2>1, <2>5, NIsPositive DEF TypeOK
      <4>1. PICK v \in version : a <= v
        BY <2>2, <2>3, <4>0
      <4>2. v \in 1..Unknown /\ v <= a
        BY <2>4, <4>1 DEF TypeOK
      <4>. QED
        BY <2>2, <4>1, <4>2, NIsPositive
    <3>2. 1..a \subseteq schema' /\ schema' \ (1..a) \subseteq {a + 1} \cap SelfCommitting
      BY <1>2, <2>1, <2>2
    <3>. QED
      BY <2>1, <2>4, <3>1, <3>2
  <2>6. ASSUME version' = {} PROVE schema' \subseteq {1} \cap SelfCommitting
    <3>1. a = 0
      BY <2>1, <2>3, <2>6
    <3>. QED
      BY <1>2, <2>1, <2>2, <3>1
  <2>. QED
    BY <2>2, <2>5, <2>6 DEF VersionAgrees
<1>. QED
  BY <1>1, <1>2

\* What is so when a revision commits.
LEMMA CommitFacts ==
  ASSUME TypeOK, Migrations, NEW o \in Operators, CommitRevision(o)
  PROVE  /\ pc[o] = "recorded" /\ pc[o] \in Migrating /\ o \in holding
         /\ at[o] \in 0..N /\ at[o] < N /\ Next_(o) \in 1..N /\ Next_(o) = at[o] + 1
         /\ at[o] = 0 \/ at[o] \in version
         /\ Next_(o) \notin version /\ (table \/ schema = {})
         /\ Next_(o) \notin Repeatable => \A v \in version : v <= at[o]
         /\ schema' = schema \cup {Next_(o)} /\ table' = TRUE
         /\ version' = (version \ {at[o]}) \cup {Next_(o)}
<1>1. /\ pc[o] = "recorded"
      /\ schema' = schema \cup {Next_(o)} /\ table' = TRUE
      /\ version' = (version \ {at[o]}) \cup {Next_(o)}
  BY DEF CommitRevision
<1>2. pc[o] \in Migrating
  BY <1>1 DEF Migrating
<1>3. o \in holding /\ Next_(o) \notin version /\ (at[o] = 0 \/ at[o] \in version)
  BY <1>1 DEF Migrations, OneWriter
<1>4. /\ at[o] < N /\ (table \/ schema = {})
      /\ Next_(o) \notin Repeatable => \A v \in version : v <= at[o]
  BY <1>1, <1>2 DEF Migrations, MigrationInStep
<1>. QED
  BY <1>1, <1>2, <1>3, <1>4, NextRevision

\* It is the last one there is, or a repeatable one that was behind the newest row.
LEMMA LastOrLate ==
  ASSUME TypeOK, Migrations, NEW o \in Operators, CommitRevision(o)
  PROVE  \/ (\A v \in version : v <= at[o]) /\ schema \subseteq 1..Next_(o)
         \/ /\ Next_(o) \in Repeatable /\ Next_(o) \in schema
            /\ \E u \in version :
                 /\ \A w \in version : w <= u
                 /\ at[o] < u /\ Next_(o) < u
                 /\ 1..u \subseteq schema /\ schema \ (1..u) \subseteq {u + 1} \cap SelfCommitting
<1>. DEFINE a == at[o]
<1>1. /\ a \in 0..N /\ Next_(o) = a + 1 /\ Next_(o) \in 1..N /\ (a = 0 \/ a \in version)
      /\ Next_(o) \notin version /\ (table \/ schema = {})
      /\ Next_(o) \notin Repeatable => \A v \in version : v <= a
  BY CommitFacts
<1>2. version \subseteq 1..Unknown /\ N \in Nat /\ Unknown \in Nat
  BY NIsPositive DEF TypeOK
<1>. HIDE DEF a
<1>3. CASE version = {}
  <2>1. schema \subseteq {1} /\ a = 0
    BY <1>1, <1>3 DEF Migrations, VersionAgrees
  <2>. QED
    BY <1>1, <1>3, <2>1 DEF a
<1>4. CASE version # {}
  <2>1. PICK u \in version :
          /\ \A w \in version : w <= u
          /\ 1..u \subseteq schema /\ schema \ (1..u) \subseteq {u + 1} \cap SelfCommitting
    BY <1>4 DEF Migrations, VersionAgrees
  <2>2. u \in 1..Unknown
    BY <1>2
  <2>3. CASE u <= a
    <3>1. a \in version /\ u = a
      BY <1>1, <1>2, <2>1, <2>2, <2>3
    <3>2. schema \subseteq 1..Next_(o)
      BY <1>1, <1>2, <2>1, <3>1
    <3>. QED
      BY <2>1, <3>1, <3>2 DEF a
  <2>4. CASE ~(u <= a)
    <3>1. a < u /\ Next_(o) < u /\ Next_(o) \in 1..u
      BY <1>1, <1>2, <2>2, <2>4
    <3>2. Next_(o) \in Repeatable
      BY <1>1, <2>4
    <3>. QED
      BY <2>1, <3>1, <3>2 DEF a
  <2>. QED
    BY <2>3, <2>4
<1>. QED
  BY <1>3, <1>4

\* After a commit the newest row names the last revision there is.
LEMMA CommitAgrees ==
  ASSUME TypeOK, Migrations, NEW o \in Operators, CommitRevision(o)
  PROVE  VersionAgrees'
<1>. DEFINE a == at[o]
            next == Next_(o)
<1>1. /\ a \in 0..N /\ a < N /\ next = a + 1 /\ next \in 1..N
      /\ pc[o] \in Migrating
      /\ schema' = schema \cup {next} /\ table' = TRUE /\ version' = (version \ {a}) \cup {next}
  BY CommitFacts
<1>2. 1..a \subseteq schema /\ \E k \in 0..Unknown : schema' = 1..k
  BY <1>1, NextRevision
<1>3. version \subseteq 1..Unknown /\ N \in Nat /\ Unknown \in Nat
  BY NIsPositive DEF TypeOK
<1>4. \/ (\A v \in version : v <= a) /\ schema \subseteq 1..next
      \/ \E u \in version :
           /\ \A w \in version : w <= u
           /\ a < u /\ next < u
           /\ 1..u \subseteq schema /\ schema \ (1..u) \subseteq {u + 1} \cap SelfCommitting
           /\ next \in schema
  BY LastOrLate
<1>. HIDE DEF a, next
<1>5. \E v \in version' :
        /\ \A w \in version' : w <= v
        /\ 1..v \subseteq schema' /\ schema' \ (1..v) \subseteq {v + 1} \cap SelfCommitting
  <2>1. CASE (\A v \in version : v <= a) /\ schema \subseteq 1..next
    <3>1. next \in version' /\ \A w \in version' : w <= next
      BY <1>1, <1>3, <2>1
    <3>2. 1..next \subseteq schema' /\ schema' \subseteq 1..next
      BY <1>1, <1>2, <2>1
    <3>. QED
      BY <3>1, <3>2
  <2>2. CASE ~((\A v \in version : v <= a) /\ schema \subseteq 1..next)
    <3>1. PICK u \in version :
            /\ \A w \in version : w <= u
            /\ a < u /\ next < u
            /\ 1..u \subseteq schema /\ schema \ (1..u) \subseteq {u + 1} \cap SelfCommitting
            /\ next \in schema
      BY <1>4, <2>2
    <3>2. u \in 1..Unknown /\ u # a
      BY <1>1, <1>3, <3>1
    <3>3. u \in version' /\ \A w \in version' : w <= u
      BY <1>1, <1>3, <3>1, <3>2
    <3>4. schema' = schema
      BY <1>1, <3>1
    <3>. QED
      BY <3>1, <3>3, <3>4
  <2>. QED
    BY <2>1, <2>2
<1>. QED
  BY <1>1, <1>2, <1>5 DEF VersionAgrees

\* A row that is behind another is that of repeatable revisions; and if the
\* revision that commits puts back old definitions, it is behind.
LEMMA CommitIsSeen ==
  ASSUME TypeOK, Migrations, NEW o \in Operators, CommitRevision(o)
  PROVE  RowsAreLate' /\ RevertedIsSeen'
<1>. DEFINE a == at[o]
            next == Next_(o)
<1>1. /\ a \in 0..N /\ a < N /\ next = a + 1 /\ next \in 1..N /\ (a = 0 \/ a \in version)
      /\ pc[o] \in Migrating /\ version' = (version \ {a}) \cup {next}
      /\ next \notin Repeatable => \A v \in version : v <= a
  BY CommitFacts
<1>2. version \subseteq 1..Unknown /\ schema \subseteq 1..Unknown /\ N \in Nat /\ Unknown \in Nat
  BY NIsPositive DEF TypeOK
<1>3. \/ (\A v \in version : v <= a) /\ schema \subseteq 1..next
      \/ next \in Repeatable /\ \E u \in version : (\A w \in version : w <= u) /\ a < u /\ next < u
  BY LastOrLate
<1>4. \A v, w \in version : v < w => 1..v \subseteq Repeatable
  BY <1>1 DEF Migrations, RowsAreLate
<1>5. reverted' \subseteq reverted \cup {k \in schema : Replaces(next, k)}
  BY DEF CommitRevision
<1>. HIDE DEF a, next
<1>6. ASSUME NEW v \in version', NEW w \in version', v < w PROVE 1..v \subseteq Repeatable
  <2>1. CASE v \in version /\ w \in version
    BY <1>4, <1>6, <2>1
  <2>2. CASE v = next
    <3>1. w \in version /\ ~(w <= a)
      BY <1>1, <1>2, <1>6, <2>2
    <3>2. next \in Repeatable
      BY <1>1, <3>1
    <3>3. 1..a \subseteq Repeatable
      <4>1. CASE a = 0
        BY <4>1
      <4>2. CASE a \in version
        <5>1. a < w
          BY <1>1, <1>2, <3>1
        <5>. QED
          BY <1>4, <3>1, <4>2, <5>1
      <4>. QED
        BY <1>1, <4>1, <4>2
    <3>. QED
      BY <1>1, <2>2, <3>2, <3>3
  <2>3. CASE v \in version /\ w = next /\ v # next
    <3>1. v \in 1..Unknown /\ v < a
      <4>1. v # a
        BY <1>1, <2>3
      <4>. QED
        BY <1>1, <1>2, <1>6, <2>3, <4>1
    <3>2. a \in version
      BY <1>1, <1>2, <3>1
    <3>. QED
      BY <1>4, <2>3, <3>1, <3>2
  <2>. QED
    BY <1>1, <2>1, <2>2, <2>3
<1>7. ASSUME reverted' # {} PROVE \E v, w \in version' : v < w
  <2>1. CASE \E u \in version : a < u /\ next < u
    <3>1. PICK u \in version : a < u /\ next < u
      BY <2>1
    <3>2. u \in version' /\ next \in version'
      BY <1>1, <1>2, <3>1
    <3>. QED
      BY <3>1, <3>2
  <2>2. CASE (\A v \in version : v <= a) /\ schema \subseteq 1..next
    <3>1. {k \in schema : Replaces(next, k)} = {}
      <4>1. \A k \in schema : ~(next < k)
        BY <1>1, <1>2, <2>2
      <4>. QED
        BY <4>1 DEF Replaces
    <3>2. PICK v \in version, w \in version : v < w
      BY <1>5, <1>7, <3>1 DEF Migrations, RevertedIsSeen
    <3>3. v < a
      BY <1>1, <1>2, <2>2, <3>2
    <3>4. v \in version' /\ next \in version' /\ v < next
      BY <1>1, <1>2, <3>2, <3>3
    <3>. QED
      BY <3>4
  <2>. QED
    BY <1>3, <2>1, <2>2
<1>. QED
  BY <1>6, <1>7 DEF RowsAreLate, RevertedIsSeen

\* The writers stay apart when one of them commits.
LEMMA CommitKeepsWriters ==
  ASSUME TypeOK, Migrations, NEW o \in Operators, CommitRevision(o)
  PROVE  OneWriter'
<1>0. OneWriter /\ holding \subseteq Operators /\ DOMAIN pc = Operators
  BY DEF Migrations, TypeOK
<1>1. /\ o \in holding /\ holding' = holding \ {o} /\ pc'[o] \in {"migrating", "idle"}
      /\ schema \subseteq schema'
      /\ version' = (version \ {at[o]}) \cup {Next_(o)}
  BY <1>0, CommitFacts DEF CommitRevision, End
<1>2. ASSUME NEW p \in Operators \ {o}
      PROVE  /\ pc'[p] = pc[p] /\ at'[p] = at[p] /\ Next_(p)' = Next_(p)
             /\ Touched(p)' = Touched(p)
  BY <1>2, OthersKept DEF Command
<1>3. ASSUME NEW p \in holding'
      PROVE  Next_(p)' \notin version' /\ (at'[p] = 0 \/ at'[p] \in version')
  <2>1. p \in holding /\ p # o /\ Touched(p) \cap Touched(o) = {}
    BY <1>0, <1>1, <1>3 DEF OneWriter
  <2>2. at[p] # at[o] /\ Next_(p) # Next_(o)
    BY <2>1 DEF Touched
  <2>3. Next_(p) \notin version /\ (at[p] = 0 \/ at[p] \in version)
    BY <1>0, <2>1 DEF OneWriter
  <2>. QED
    BY <1>0, <1>1, <1>2, <2>1, <2>2, <2>3
<1>4. \A p \in Operators : (pc[p] = "recorded" <=> p \in holding)'
  BY <1>0, <1>1, <1>2 DEF OneWriter
<1>5. ASSUME NEW p \in holding', NEW q \in holding', p # q PROVE Touched(p)' \cap Touched(q)' = {}
  BY <1>0, <1>1, <1>2, <1>5 DEF OneWriter
<1>6. ASSUME NEW p \in Operators, NEW q \in Operators,
             pc'[p] \in {"applied", "recorded"}, pc'[q] \in {"applied", "recorded"}, at'[p] = at'[q]
      PROVE  p = q
  <2>1. p # o /\ q # o
    BY <1>1, <1>6
  <2>. QED
    BY <1>0, <1>2, <1>6, <2>1 DEF OneWriter
<1>7. ASSUME NEW p \in Operators, pc'[p] \in {"applied", "recorded"}, Next_(p)' \in SelfCommitting
      PROVE  Next_(p)' \in schema'
  <2>1. p # o
    BY <1>1, <1>7
  <2>. QED
    BY <1>0, <1>1, <1>2, <1>7, <2>1 DEF OneWriter
<1>. QED
  BY <1>3, <1>4, <1>5, <1>6, <1>7 DEF OneWriter

\* Whoever is at work stays in step when another commits.
LEMMA CommitKeepsStep ==
  ASSUME TypeOK, Migrations, NEW o \in Operators, CommitRevision(o), NEW p \in Operators \ {o}
  PROVE  MigrationInStep(p)'
<1>0. /\ pc'[p] = pc[p] /\ at'[p] = at[p] /\ Next_(p)' = Next_(p)
      /\ MigrationInStep(p) /\ at[p] \in 0..N /\ N \in Nat
  BY OthersKept, NIsPositive DEF Migrations, TypeOK, Command
<1>1. /\ at[o] \in 0..N /\ Next_(o) = at[o] + 1 /\ (at[o] = 0 \/ at[o] \in version)
      /\ table' = TRUE /\ version' = (version \ {at[o]}) \cup {Next_(o)}
      /\ pc[o] = "recorded"
  BY CommitFacts
<1>2. version \subseteq 1..Unknown /\ Unknown \in Nat
  BY NIsPositive DEF TypeOK
<1>3. ASSUME NEW v \in version, at[p] <= v PROVE \E w \in version' : at[p] <= w
  <2>1. CASE v = at[o]
    <3>1. at[p] <= Next_(o)
      BY <1>0, <1>1, <1>3, <2>1
    <3>. QED
      BY <1>1, <3>1
  <2>2. CASE v # at[o]
    BY <1>1, <1>3, <2>2
  <2>. QED
    BY <2>1, <2>2
<1>4. ASSUME pc[p] \in {"applied", "recorded"}, Next_(p) \notin Repeatable
      PROVE  \A v \in version' : v <= at[p]
  <2>1. \A v \in version : v <= at[p]
    BY <1>0, <1>4 DEF MigrationInStep
  <2>2. at[p] # at[o]
    BY <1>1, <1>4 DEF Migrations, OneWriter
  <2>3. at[o] < at[p]
    BY <1>0, <1>1, <1>2, <2>1, <2>2
  <2>. QED
    BY <1>0, <1>1, <2>1, <2>3
<1>. QED
  BY <1>0, <1>1, <1>3, <1>4 DEF MigrationInStep

\* The writers stay apart while nobody writes.
LEMMA WritersKept ==
  ASSUME TypeOK, OneWriter, UNCHANGED dbVars, NEW o \in Operators,
         pc'[o] \notin {"applied", "recorded"}, holding' = holding \ {o},
         \A p \in Operators \ {o} :
           /\ pc'[p] = pc[p] /\ at'[p] = at[p]
           /\ Next_(p)' = Next_(p) /\ Touched(p)' = Touched(p)
  PROVE  OneWriter'
<1>0. holding \subseteq Operators /\ version' = version /\ schema' = schema
  BY DEF TypeOK, dbVars
<1>1. \A p \in Operators : (pc[p] = "recorded" <=> p \in holding)'
  BY <1>0 DEF OneWriter
<1>2. \A p, q \in holding' : p # q => Touched(p)' \cap Touched(q)' = {}
  BY <1>0 DEF OneWriter
<1>3. \A p \in holding' : Next_(p)' \notin version' /\ (at'[p] = 0 \/ at'[p] \in version')
  BY <1>0 DEF OneWriter
<1>4. \A p, q \in Operators :
        pc'[p] \in {"applied", "recorded"} /\ pc'[q] \in {"applied", "recorded"}
          /\ at'[p] = at'[q] => p = q
  BY DEF OneWriter
<1>5. \A p \in Operators :
        pc'[p] \in {"applied", "recorded"} /\ Next_(p)' \in SelfCommitting => Next_(p)' \in schema'
  BY <1>0 DEF OneWriter
<1>. QED
  BY <1>1, <1>2, <1>3, <1>4, <1>5 DEF OneWriter

\* The rows and the objects stay in step, whoever migrates, fails or is killed.
LEMMA MigrationsStep ==
  ASSUME TypeOK, Migrations, \A o \in Operators : ReadingLasts(o), [Next]_vars
  PROVE  Migrations'
<1>1. CASE UNCHANGED vars
  BY <1>1 DEF Migrations, VersionAgrees, OneWriter, RowsAreLate, RevertedIsSeen, MigrationInStep,
     Next_, Touched, vars
<1>2. ASSUME NEW o \in Operators, Command(o) PROVE Migrations'
  <2>0. /\ DOMAIN pc = Operators /\ DOMAIN at = Operators
        /\ VersionAgrees /\ OneWriter /\ RowsAreLate /\ RevertedIsSeen
        /\ \A p \in Operators : MigrationInStep(p)
    BY DEF TypeOK, Migrations
  <2>1. \A p \in Operators \ {o} :
          /\ pc'[p] = pc[p] /\ at'[p] = at[p] /\ (p \in holding' => p \in holding)
          /\ Next_(p)' = Next_(p) /\ Touched(p)' = Touched(p)
    BY <1>2, OthersKept
  <2>2. CASE ~AlembicStep(o) \/ Refuse(o)
    <3>1. /\ UNCHANGED dbVars /\ pc'[o] \notin {"alembic started", "heads read"} \cup Migrating
          /\ holding' = holding \ {o}
      BY <1>2, <2>0, <2>2, QuietSteps
    <3>2. VersionAgrees' /\ RevertedIsSeen'
      BY <2>0, <3>1 DEF VersionAgrees, RevertedIsSeen, dbVars
    <3>3. OneWriter'
      BY <2>0, <2>1, <3>1, WritersKept DEF Migrating
    <3>4. RowsAreLate'
      BY <2>0, <2>1, <3>1 DEF RowsAreLate, dbVars
    <3>5. ASSUME NEW p \in Operators PROVE MigrationInStep(p)'
      <4>1. CASE p = o
        BY <3>1, <4>1 DEF MigrationInStep, Migrating
      <4>2. CASE p # o
        <5>1. MigrationInStep(p) /\ table' = table /\ schema' = schema /\ version' = version
          BY <2>0, <3>1 DEF dbVars
        <5>. QED
          BY <2>1, <3>1, <4>2, <5>1 DEF MigrationInStep
      <4>. QED
        BY <4>1, <4>2
    <3>. QED
      BY <3>2, <3>3, <3>4, <3>5 DEF Migrations
  <2>3. CASE UpgradeSentinel(o) /\ ~Refuse(o)
    <3>1. /\ UNCHANGED dbVars /\ holding' = holding /\ at' = at
          /\ pc[o] = "upgrade read" /\ pc'[o] = "alembic started" /\ (fine[o] \/ 1 \notin schema)
      BY <2>0, <2>3 DEF UpgradeSentinel, Step
    <3>2. table \/ schema = {}
      <4>1. CASE fine[o]
        BY <3>1, <4>1 DEF ReadingLasts
      <4>2. CASE 1 \notin schema
        BY <2>0, <4>2, NIsPositive DEF VersionAgrees
      <4>. QED
        BY <3>1, <4>1, <4>2
    <3>3. VersionAgrees' /\ RevertedIsSeen'
      BY <2>0, <3>1 DEF VersionAgrees, RevertedIsSeen, dbVars
    <3>4. OneWriter'
      BY <2>0, <2>1, <3>1, WritersKept DEF OneWriter, TypeOK
    <3>5. RowsAreLate'
      BY <2>0, <2>1, <3>1 DEF RowsAreLate, dbVars, Migrating
    <3>6. ASSUME NEW p \in Operators PROVE MigrationInStep(p)'
      <4>1. MigrationInStep(p) /\ table' = table /\ schema' = schema /\ version' = version
        BY <2>0, <3>1 DEF dbVars
      <4>2. CASE p = o
        BY <3>1, <3>2, <4>1, <4>2 DEF MigrationInStep, Migrating
      <4>3. CASE p # o
        <5>1. \A q \in Operators : pc'[q] \in Migrating => pc[q] \in Migrating
          BY <2>1, <3>1 DEF Migrating
        <5>. QED
          BY <2>1, <4>1, <4>3, <5>1 DEF MigrationInStep
      <4>. QED
        BY <4>2, <4>3
    <3>. QED
      BY <3>3, <3>4, <3>5, <3>6 DEF Migrations
  <2>4. CASE AlembicStarts(o) /\ ~Refuse(o)
    <3>1. /\ UNCHANGED dbVars /\ holding' = holding
          /\ pc[o] = "alembic started"
          /\ ~(Cardinality(version) > 1) /\ Unknown \notin version
          /\ at'[o] = IF version = {} THEN 0 ELSE The(version)
          /\ pc'[o] = IF version = {} THEN "heads read" ELSE "migrating"
      BY <2>0, <2>4 DEF AlembicStarts
    <3>2. /\ table' = table /\ schema' = schema /\ version' = version
          /\ table \/ schema = {}
      BY <2>0, <3>1 DEF MigrationInStep, dbVars
    <3>3. \/ pc'[o] = "heads read" /\ at'[o] = 0 /\ version = {}
          \/ \E v \in 1..N : pc'[o] = "migrating" /\ at'[o] = v /\ version = {v} /\ table
      BY <3>1, VersionRead DEF TypeOK
    <3>4. VersionAgrees' /\ RevertedIsSeen'
      BY <2>0, <3>1 DEF VersionAgrees, RevertedIsSeen, dbVars
    <3>5. OneWriter'
      <4>1. pc'[o] \in {"heads read", "migrating"}
        BY <3>1
      <4>. QED
        BY <2>0, <2>1, <3>1, <4>1, WritersKept DEF OneWriter, TypeOK
    <3>6. RowsAreLate'
      <4>1. version = {} \/ \E v \in 1..N : version = {v}
        BY <3>3
      <4>2. \A v \in 1..N : ~(v < v)
        OBVIOUS
      <4>3. \A v, w \in version' : ~(v < w)
        BY <3>2, <4>1, <4>2
      <4>. QED
        BY <4>3 DEF RowsAreLate
    <3>7. ASSUME NEW p \in Operators \ {o} PROVE MigrationInStep(p)'
      <4>1. ~table => \A q \in Operators : pc'[q] \in Migrating => pc[q] \in Migrating
        BY <2>1, <3>3 DEF Migrating
      <4>2. MigrationInStep(p)
        BY <2>0
      <4>. QED
        BY <2>1, <3>2, <4>1, <4>2 DEF MigrationInStep
    <3>8. MigrationInStep(o)'
      <4>1. CASE pc'[o] = "heads read" /\ at'[o] = 0
        BY <3>2, <4>1 DEF MigrationInStep, Migrating
      <4>2. CASE \E v \in 1..N : pc'[o] = "migrating" /\ at'[o] = v /\ version = {v} /\ table
        <5>1. PICK v \in 1..N : pc'[o] = "migrating" /\ at'[o] = v /\ version = {v} /\ table
          BY <4>2
        <5>2. v <= v
          BY NIsPositive
        <5>. QED
          BY <3>2, <5>1, <5>2 DEF MigrationInStep
      <4>. QED
        BY <3>3, <4>1, <4>2
    <3>. QED
      BY <3>4, <3>5, <3>6, <3>7, <3>8 DEF Migrations
  <2>5. CASE _ensure_version_table(o)
    <3>1. /\ UNCHANGED dbVars /\ holding' = holding /\ at' = at
          /\ pc[o] = "heads read" /\ pc'[o] = "migrating"
          /\ table \/ \A p \in Operators : pc[p] \notin Migrating
      BY <2>0, <2>5 DEF _ensure_version_table
    <3>2. table' = table /\ schema' = schema /\ version' = version
      BY <3>1 DEF dbVars
    <3>3. VersionAgrees' /\ RevertedIsSeen'
      BY <2>0, <3>1 DEF VersionAgrees, RevertedIsSeen, dbVars
    <3>4. OneWriter'
      BY <2>0, <2>1, <3>1, WritersKept DEF OneWriter, TypeOK
    <3>5. RowsAreLate'
      BY <2>0, <3>1, <3>2 DEF RowsAreLate
    <3>6. ASSUME NEW p \in Operators, pc'[p] \in Migrating, ~table
          PROVE  \A q \in Operators : pc'[q] \in Migrating => q = p
      BY <2>1, <3>1, <3>6
    <3>7. ASSUME NEW p \in Operators \ {o} PROVE MigrationInStep(p)'
      <4>1. MigrationInStep(p)
        BY <2>0
      <4>. QED
        BY <2>1, <3>2, <3>6, <4>1 DEF MigrationInStep
    <3>8. MigrationInStep(o)'
      <4>1. at'[o] = 0 /\ (table \/ schema = {})
        BY <2>0, <3>1 DEF MigrationInStep
      <4>. QED
        BY <3>1, <3>2, <3>6, <4>1 DEF MigrationInStep
    <3>. QED
      BY <3>3, <3>4, <3>5, <3>7, <3>8 DEF Migrations
  <2>6. CASE Apply(o)
    <3>1. /\ pc[o] = "migrating" /\ pc'[o] = "applied" /\ at' = at /\ holding' = holding
          /\ version' = version /\ reverted' = reverted /\ at[o] < N /\ schema \subseteq schema'
          /\ table' \/ (schema' = schema /\ table' = table)
          /\ Next_(o)' = Next_(o) /\ Touched(o)' = Touched(o)
      BY <2>0, <2>6 DEF Apply, Next_, Touched
    <3>2. VersionAgrees' /\ RevertedIsSeen'
      BY <2>0, <2>6, <3>1, ApplyAgrees DEF RevertedIsSeen
    <3>3. OneWriter'
      <4>1. ASSUME NEW p \in Operators \ {o}, pc[p] \in {"applied", "recorded"}, at[p] = at[o]
            PROVE  FALSE
        <5>1. Next_(p) = Next_(o)
          BY <4>1 DEF Next_
        <5>2. Next_(p) \in SelfCommitting
          BY <2>6, <4>1, <5>1 DEF Apply, Blocked
        <5>3. Next_(o) \in schema /\ Next_(o) \notin Repeatable
          BY <2>0, <4>1, <5>1, <5>2, DeploymentAssumption DEF OneWriter
        <5>. QED
          BY <2>6, <5>3 DEF Apply
      <4>2. ASSUME NEW p \in Operators, NEW q \in Operators,
                   pc'[p] \in {"applied", "recorded"}, pc'[q] \in {"applied", "recorded"},
                   at'[p] = at'[q]
            PROVE  p = q
        BY <2>0, <2>1, <3>1, <4>1, <4>2 DEF OneWriter
      <4>3. ASSUME NEW p \in Operators, pc'[p] \in {"applied", "recorded"},
                   Next_(p)' \in SelfCommitting
            PROVE  Next_(p)' \in schema'
        <5>1. CASE p = o
          BY <2>6, <3>1, <4>3, <5>1 DEF Apply
        <5>2. CASE p # o
          BY <2>0, <2>1, <3>1, <4>3, <5>2 DEF OneWriter
        <5>. QED
          BY <5>1, <5>2
      <4>4. \A p \in Operators : (pc[p] = "recorded" <=> p \in holding)'
        BY <2>0, <2>1, <3>1 DEF OneWriter
      <4>5. \A p, q \in holding' : p # q => Touched(p)' \cap Touched(q)' = {}
        BY <2>0, <2>1, <3>1 DEF OneWriter, TypeOK
      <4>6. \A p \in holding' : Next_(p)' \notin version' /\ (at'[p] = 0 \/ at'[p] \in version')
        BY <2>0, <2>1, <3>1 DEF OneWriter, TypeOK
      <4>. QED
        BY <4>2, <4>3, <4>4, <4>5, <4>6 DEF OneWriter
    <3>4. RowsAreLate'
      BY <2>0, <2>1, <3>1 DEF RowsAreLate, Migrating
    <3>5. \A q \in Operators : pc'[q] \in Migrating <=> pc[q] \in Migrating
      BY <2>1, <3>1 DEF Migrating
    <3>6. ASSUME NEW p \in Operators \ {o} PROVE MigrationInStep(p)'
      <4>1. MigrationInStep(p) /\ pc'[p] = pc[p] /\ at'[p] = at[p] /\ Next_(p)' = Next_(p)
        BY <2>0, <2>1
      <4>. QED
        BY <3>1, <3>5, <4>1 DEF MigrationInStep
    <3>7. MigrationInStep(o)'
      <4>1. MigrationInStep(o)
        BY <2>0
      <4>2. Next_(o) \notin Repeatable => \A v \in version : v <= at[o]
        BY <2>6, <3>1, NewIsLast DEF Apply, Migrating
      <4>. QED
        BY <3>1, <3>5, <4>1, <4>2 DEF MigrationInStep, Migrating
    <3>. QED
      BY <3>2, <3>3, <3>4, <3>6, <3>7 DEF Migrations
  <2>7. CASE Record(o)
    <3>1. /\ UNCHANGED dbVars /\ at' = at /\ pc[o] = "applied" /\ pc'[o] = "recorded"
          /\ holding' = holding \cup {o} /\ Next_(o)' = Next_(o) /\ Touched(o)' = Touched(o)
          /\ \A p \in holding : Touched(o) \cap Touched(p) = {}
          /\ Next_(o) \notin version /\ (at[o] = 0 \/ at[o] \in version)
      BY <2>0, <2>7 DEF Record, Next_, Touched
    <3>2. version' = version /\ schema' = schema /\ table' = table
      BY <3>1 DEF dbVars
    <3>3. VersionAgrees' /\ RevertedIsSeen'
      BY <2>0, <3>1 DEF VersionAgrees, RevertedIsSeen, dbVars
    <3>4. OneWriter'
      <4>0. holding \subseteq Operators
        BY DEF TypeOK
      <4>1. \A p \in Operators : (pc[p] = "recorded" <=> p \in holding)'
        BY <2>0, <2>1, <3>1, <4>0 DEF OneWriter
      <4>2. \A p, q \in holding' : p # q => Touched(p)' \cap Touched(q)' = {}
        BY <2>0, <2>1, <3>1, <4>0 DEF OneWriter
      <4>3. \A p \in holding' : Next_(p)' \notin version' /\ (at'[p] = 0 \/ at'[p] \in version')
        BY <2>0, <2>1, <3>1, <3>2, <4>0 DEF OneWriter
      <4>4. \A p, q \in Operators :
              pc'[p] \in {"applied", "recorded"} /\ pc'[q] \in {"applied", "recorded"}
                /\ at'[p] = at'[q] => p = q
        BY <2>0, <2>1, <3>1 DEF OneWriter
      <4>5. \A p \in Operators :
              pc'[p] \in {"applied", "recorded"} /\ Next_(p)' \in SelfCommitting
                => Next_(p)' \in schema'
        BY <2>0, <2>1, <3>1, <3>2 DEF OneWriter
      <4>. QED
        BY <4>1, <4>2, <4>3, <4>4, <4>5 DEF OneWriter
    <3>5. RowsAreLate'
      BY <2>0, <2>1, <3>1, <3>2 DEF RowsAreLate, Migrating
    <3>6. \A q \in Operators : pc'[q] \in Migrating <=> pc[q] \in Migrating
      BY <2>1, <3>1 DEF Migrating
    <3>7. ASSUME NEW p \in Operators \ {o} PROVE MigrationInStep(p)'
      <4>1. MigrationInStep(p) /\ pc'[p] = pc[p] /\ at'[p] = at[p] /\ Next_(p)' = Next_(p)
        BY <2>0, <2>1
      <4>. QED
        BY <3>2, <3>6, <4>1 DEF MigrationInStep
    <3>8. MigrationInStep(o)'
      <4>1. MigrationInStep(o)
        BY <2>0
      <4>. QED
        BY <3>1, <3>2, <3>6, <4>1 DEF MigrationInStep, Migrating
    <3>. QED
      BY <3>3, <3>4, <3>5, <3>7, <3>8 DEF Migrations
  <2>8. CASE CommitRevision(o)
    <3>1. VersionAgrees' /\ RowsAreLate' /\ RevertedIsSeen' /\ OneWriter'
      BY <2>8, CommitAgrees, CommitIsSeen, CommitKeepsWriters
    <3>2. \A p \in Operators \ {o} : MigrationInStep(p)'
      BY <2>8, CommitKeepsStep
    <3>3. MigrationInStep(o)'
      <4>1. /\ table' = TRUE /\ Next_(o) \in version' /\ Next_(o) \in 1..N
            /\ pc'[o] = "idle" \/ (pc'[o] = "migrating" /\ at'[o] = Next_(o))
        BY <2>0, <2>8, CommitFacts DEF CommitRevision, End
      <4>2. Next_(o) <= Next_(o)
        BY <4>1
      <4>. QED
        BY <4>1, <4>2 DEF MigrationInStep, Migrating
    <3>. QED
      BY <3>1, <3>2, <3>3 DEF Migrations
  <2>. QED
    BY <2>2, <2>3, <2>4, <2>5, <2>6, <2>7, <2>8, Zenon DEF AlembicStep
<1>. QED
  BY <1>1, <1>2 DEF Next

-----------------------------------------------------------------------------
(* What a command has read, what it reports, where it connects             *)

\* Once the head has been reached there is every revision, and none after it.
LEMMA HeadHasAll == TypeOK /\ VersionAgrees /\ HeadReached => schema = 1..N
<1> SUFFICES ASSUME TypeOK, VersionAgrees, HeadReached PROVE schema = 1..N
  OBVIOUS
<1>1. PICK u \in version :
        /\ \A w \in version : w <= u
        /\ 1..u \subseteq schema /\ schema \ (1..u) \subseteq {u + 1} \cap SelfCommitting
  BY DEF VersionAgrees, HeadReached
<1>2. u \in 1..Unknown /\ N <= u
  BY <1>1 DEF HeadReached, TypeOK
<1>3. u = N
  <2>1. SUFFICES ASSUME u # N PROVE FALSE
    OBVIOUS
  <2>2. 1..u \subseteq 1..N
    BY <1>1, <2>1, DeploymentAssumption DEF HeadReached
  <2>. QED
    BY <1>2, <2>1, <2>2, NIsPositive
<1>4. N + 1 \notin SelfCommitting
  BY DeploymentAssumption, NIsPositive
<1>. QED
  BY <1>1, <1>3, <1>4

\* What a command reads that finds the head alone.
LEMMA AtHeadMeans ==
  ASSUME TypeOK, Migrations, AtHead
  PROVE  HeadReached /\ schema = 1..N /\ reverted = {}
<1>1. HeadReached
  BY DEF AtHead, HeadReached
<1>2. reverted = {}
  BY NIsPositive DEF AtHead, Migrations, RevertedIsSeen
<1>. QED
  BY <1>1, <1>2, HeadHasAll DEF Migrations

\* Nothing is ever taken back: the extensions, the version table, and the row of
\* the head, beside which only repeatable revisions may be named.
LEMMA NothingIsTakenBack ==
  ASSUME TypeOK, Migrations, NEW o \in Operators, Command(o)
  PROVE  /\ extensions \subseteq extensions' /\ (table => table')
         /\ (HeadReached => HeadReached')
<1>1. CASE UNCHANGED dbVars
  BY <1>1 DEF dbVars, HeadReached
<1>2. CASE Apply(o)
  <2>1. version' = version /\ extensions \subseteq extensions' /\ (table => table')
    BY <1>2 DEF Apply
  <2>. QED
    BY <2>1 DEF HeadReached
<1>3. CASE CommitRevision(o)
  <2>1. extensions \subseteq extensions' /\ table'
    BY <1>3 DEF CommitRevision
  <2>. DEFINE a == at[o]
              next == Next_(o)
  <2>2. /\ a \in 0..N /\ a < N /\ next = a + 1 /\ (a = 0 \/ a \in version)
        /\ version' = (version \ {a}) \cup {next}
        /\ next \notin Repeatable => \A v \in version : v <= a
    BY <1>3, CommitFacts
  <2>. HIDE DEF a, next
  <2>3. ASSUME HeadReached PROVE HeadReached'
    <3>1. N \in version /\ a # N /\ ~(N <= a)
      BY <2>2, <2>3, NIsPositive DEF HeadReached
    <3>2. next \in Repeatable
      BY <2>2, <3>1
    <3>3. 1..a \subseteq Repeatable
      BY <2>2, <2>3, <3>1 DEF HeadReached
    <3>4. 1..next \subseteq Repeatable
      BY <2>2, <3>2, <3>3
    <3>5. N \in version' /\ \A v \in version' \ {N} : 1..v \subseteq Repeatable
      BY <2>2, <2>3, <3>1, <3>4 DEF HeadReached
    <3>. QED
      BY <2>1, <3>5 DEF HeadReached
  <2>. QED
    BY <2>1, <2>3
<1>4. CASE \/ UpgradeSentinel(o) \/ AlembicStarts(o) \/ _ensure_version_table(o)
           \/ Record(o)
  <2>1. UNCHANGED dbVars
    BY <1>4 DEF UpgradeSentinel, AlembicStarts, _ensure_version_table, Record, Refuse
  <2>. QED
    BY <1>1, <2>1
<1>5. CASE ~AlembicStep(o) \/ Refuse(o)
  BY <1>1, <1>5, QuietSteps DEF Migrations
<1>. QED
  BY <1>2, <1>3, <1>4, <1>5 DEF AlembicStep

\* What is said of one operator.
InStep(o) == ReadingLasts(o) /\ InspectedFirst(o) /\ TrueReport(o) /\ ConnectedAs(o)

\* It stays true of those that do not move.
LEMMA OthersStayInStep ==
  ASSUME TypeOK, TypeOK', Migrations, Migrations', NEW o \in Operators, NEW p \in Operators \ {o},
         Command(o), InStep(p)
  PROVE  InStep(p)'
<1>1. /\ pc'[p] = pc[p] /\ fine'[p] = fine[p] /\ link'[p] = link[p]
      /\ settings'[p] = settings[p] /\ result'[p] = result[p] /\ package' = package
  BY OthersKept
<1>2. /\ extensions \subseteq extensions' /\ (table => table') /\ (HeadReached => HeadReached')
  BY NothingIsTakenBack
<1>3. HeadReached' => schema' = 1..N
  <2>1. (TypeOK /\ VersionAgrees /\ HeadReached => schema = 1..N)'
    BY HeadHasAll, PTL
  <2>. QED
    BY <2>1 DEF Migrations
<1>4. ReadingLasts(p)'
  BY <1>1, <1>2, Zenon DEF InStep, ReadingLasts
<1>5. InspectedFirst(p)'
  BY <1>1, Zenon DEF InStep, InspectedFirst
<1>6. TrueReport(p)'
  BY <1>1, <1>2, <1>3, Zenon DEF InStep, TrueReport
<1>7. ConnectedAs(p)'
  BY <1>1, Zenon DEF InStep, ConnectedAs
<1>. QED
  BY <1>4, <1>5, <1>6, <1>7 DEF InStep

\* What a record of a connection has.
LEMMA NoLinkAgrees == NoLink.named = NoLink.dialled
BY DEF NoLink

IsLink(l, a, b, d) == l = [named |-> a, dialled |-> b, database |-> d]

\* ... and of one that was made.
LEMMA LinkFields ==
  ASSUME NEW l, NEW a, NEW b, NEW d, IsLink(l, a, b, d)
  PROVE  l.named = a /\ l.dialled = b /\ l.database = d
BY DEF IsLink


\* One that is refused, or fails, claims nothing.
LEMMA RefusedInStep ==
  ASSUME TypeOK, NEW o \in Operators, End(o, "none")
  PROVE  InStep(o)'
<1>1. pc'[o] = "idle" /\ result'[o] = "none" /\ link'[o] = NoLink
  BY DEF TypeOK, End
<1>2. link'[o].named = link'[o].dialled
  BY <1>1, NoLinkAgrees, Zenon
<1>3. ReadingLasts(o)' /\ InspectedFirst(o)' /\ TrueReport(o)'
  BY <1>1 DEF ReadingLasts, InspectedFirst, TrueReport, Migrating
<1>4. ConnectedAs(o)'
  BY <1>1, <1>2 DEF ConnectedAs
<1>. QED
  BY <1>3, <1>4 DEF InStep

\* One that has begun to inspect the package, or has.
LEMMA InspectedInStep ==
  ASSUME TypeOK, NEW o \in Operators,
         NEW step \in {"idle", "gate inspected", "upgrade inspected"}, Inspects(o, step)
  PROVE  InStep(o)'
<1>1. link'[o] = NoLink /\ package' = package
  BY DEF TypeOK, Inspects
<1>2. link'[o].named = link'[o].dialled
  BY <1>1, NoLinkAgrees, Zenon
<1>3. \/ pc'[o] = "walking" /\ result'[o] = "none"
      \/ pc'[o] = step /\ result'[o] \in {"none", "graph ok"} /\ IsFrozen(package)
  <2>1. CASE package.present /\ ~WalkEnds(read_revisions(package))
    BY <2>1 DEF TypeOK, Inspects
  <2>2. CASE ~(package.present /\ ~WalkEnds(read_revisions(package)))
    <3>1. validate_frozen_baseline(package)
      BY <2>2 DEF Inspects
    <3>2. pc'[o] = step /\ result'[o] \in {"none", "graph ok"}
      BY <2>2 DEF TypeOK, Inspects
    <3>. QED
      BY <3>1, <3>2, OnlyTheFrozenPackagePasses
  <2>. QED
    BY <2>1, <2>2
<1>. HIDE DEF Inspects
<1>4. (IsFrozen(package))' <=> IsFrozen(package)
  BY <1>1, Zenon DEF IsFrozen
<1>5. ReadingLasts(o)' /\ InspectedFirst(o)' /\ TrueReport(o)'
  BY <1>3, <1>4 DEF ReadingLasts, InspectedFirst, TrueReport, Migrating
<1>6. ConnectedAs(o)'
  BY <1>2, <1>3 DEF ConnectedAs
<1>. QED
  BY <1>5, <1>6 DEF InStep

\* One that has connected is where its URL says.
LEMMA ConnectedInStep ==
  ASSUME TypeOK, NEW o \in Operators,
         NEW step \in {"check connected", "gate connected", "upgrade connected"},
         NEW s, Connect(o, step, s), migration_target(s),
         step \in {"gate connected", "upgrade connected"} => IsFrozen(package),
         step = "gate connected" => s.server.database = s.url.database
  PROVE  InStep(o)'
<1>1. /\ pc'[o] = step /\ result'[o] = "none" /\ package' = package
      /\ link'[o] = [named |-> [host |-> s.url.host, port |-> s.url.port,
                                dbname |-> s.url.database, user |-> s.url.user],
                     dialled |-> LibpqDials(s.url, s.variables),
                     database |-> s.server.database]
  BY DEF TypeOK, Connect
<1>. DEFINE place == [host |-> s.url.host, port |-> s.url.port,
                      dbname |-> s.url.database, user |-> s.url.user]
<1>2. LibpqDials(s.url, s.variables) = place /\ place.dbname = s.url.database
  BY LibpqGoesThere
<1>3. /\ link'[o].named = link'[o].dialled /\ link'[o].database = s.server.database
      /\ link'[o].named.dbname = s.url.database
  <2>1. IsLink(link'[o], place, LibpqDials(s.url, s.variables), s.server.database)
    BY <1>1 DEF IsLink
  <2>. HIDE DEF place
  <2>2. /\ link'[o].named = place /\ link'[o].dialled = LibpqDials(s.url, s.variables)
        /\ link'[o].database = s.server.database
    BY <2>1, LinkFields, Zenon
  <2>. QED
    BY <1>2, <2>2, Zenon
<1>4. ReadingLasts(o)' /\ TrueReport(o)'
  BY <1>1 DEF ReadingLasts, TrueReport
<1>5. (IsFrozen(package))' <=> IsFrozen(package)
  BY <1>1, Zenon DEF IsFrozen
<1>6. InspectedFirst(o)'
  BY <1>1, <1>5 DEF InspectedFirst, Migrating
<1>7. ConnectedAs(o)'
  BY <1>1, <1>3 DEF ConnectedAs
<1>. QED
  BY <1>4, <1>6, <1>7 DEF InStep

\* An application that has connected is where its settings say, and those are
\* declared in its environment.
LEMMA StartedInStep ==
  ASSUME TypeOK, NEW o \in Operators, NEW c, StartApp(o, c), ~Refuse(o)
  PROVE  InStep(o)'
<1>. DEFINE url == Complete(c.process, c.dotenv)["DATABASE"]
<1>1. /\ pc'[o] = "app connected" /\ result'[o] = "none" /\ settings'[o] = c
      /\ link'[o] = [named |-> target(url), dialled |-> AsyncpgDials(url),
                     database |-> url.database]
  BY DEF TypeOK, StartApp
<1>2. Accepted(c.process, c.dotenv) /\ ~c.superuser /\ ~c.bypassrls
  BY DEF StartApp
<1>3. AsyncpgDials(url) = target(url) /\ Declared(c, AsyncpgDials(url))
  BY <1>2, AcceptedIsDeclared
<1>. HIDE DEF url
<1>4. link'[o].named = target(url) /\ link'[o].dialled = AsyncpgDials(url)
  <2>1. IsLink(link'[o], target(url), AsyncpgDials(url), url.database)
    BY <1>1 DEF IsLink
  <2>. QED
    BY <2>1, LinkFields, Zenon
<1>5. ReadingLasts(o)' /\ InspectedFirst(o)' /\ TrueReport(o)'
  BY <1>1 DEF ReadingLasts, InspectedFirst, TrueReport, Migrating
<1>6. ConnectedAs(o)'
  BY <1>1, <1>3, <1>4 DEF ConnectedAs
<1>. QED
  BY <1>5, <1>6 DEF InStep

\* One that goes on with what it has read knows no more than that, and is
\* connected as before.
LEMMA SteppedInStep ==
  ASSUME TypeOK, TypeOK', Migrations, Migrations', NEW o \in Operators, Command(o), InStep(o),
         NEW step \in {"check read", "gate read", "upgrade read", "alembic started", "app checked"},
         NEW sofar \in BOOLEAN, Step(o, step, sofar), UNCHANGED dbVars,
         step = "check read" /\ sofar => REQUIRED_EXTENSIONS \subseteq extensions,
         step = "gate read" => pc[o] = "gate connected" /\ (sofar => HeadReached),
         step = "upgrade read" => pc[o] = "upgrade connected" /\ (sofar => table),
         step = "alembic started" => pc[o] = "upgrade read",
         step = "app checked" =>
           pc[o] = "app connected" /\ REQUIRED_EXTENSIONS \subseteq extensions
  PROVE  InStep(o)'
<1>1. /\ pc'[o] = step /\ fine'[o] = sofar /\ package' = package
      /\ link'[o] = link[o] /\ settings'[o] = settings[o] /\ result'[o] = result[o]
  BY DEF TypeOK, Step
<1>2. extensions' = extensions /\ table' = table /\ schema' = schema /\ version' = version
  BY DEF dbVars
<1>3. ReadingLasts(o)'
  BY <1>1, <1>2 DEF ReadingLasts, HeadReached
<1>4. (IsFrozen(package))' <=> IsFrozen(package)
  BY <1>1, Zenon DEF IsFrozen
<1>5. InspectedFirst(o)'
  BY <1>1, <1>4 DEF InStep, InspectedFirst, Migrating
<1>6. HeadReached' <=> HeadReached
  BY <1>2 DEF HeadReached
<1>7. TrueReport(o)'
  BY <1>1, <1>2, <1>4, <1>6, Zenon DEF InStep, TrueReport
<1>8. ConnectedAs(o)'
  BY <1>1 DEF InStep, ConnectedAs
<1>. QED
  BY <1>3, <1>5, <1>7, <1>8 DEF InStep

\* One that ends with a report has what it takes for it.
LEMMA ReportedInStep ==
  ASSUME TypeOK, Migrations, NEW o \in Operators, InStep(o), NEW outcome \in Results,
         End(o, outcome), UNCHANGED dbVars,
         outcome \in {"gate ok", "head ok", "upgrade ok", "app verified"} => HeadReached,
         outcome \in {"gate ok", "head ok", "app verified", "app gated"} =>
           REQUIRED_EXTENSIONS \subseteq extensions,
         outcome \in {"gate ok", "upgrade ok", "graph ok"} => IsFrozen(package),
         outcome = "gate ok" => pc[o] = "gate read",
         outcome \in {"app verified", "app gated"} => pc[o] = "app checked"
  PROVE  InStep(o)'
<1>1. /\ pc'[o] = "idle" /\ result'[o] = outcome /\ package' = package
  BY DEF TypeOK, End
<1>2. \/ link'[o] = NoLink /\ outcome \notin {"gate ok", "app verified", "app gated"}
      \/ link'[o] = link[o] /\ settings'[o] = settings[o]
  BY DEF TypeOK, End
<1>3. extensions' = extensions /\ schema' = schema /\ (HeadReached' <=> HeadReached)
  BY DEF dbVars, HeadReached
<1>4. HeadReached => schema = 1..N
  BY HeadHasAll DEF Migrations
<1>5. (IsFrozen(package))' <=> IsFrozen(package)
  BY <1>1, Zenon DEF IsFrozen
<1>6. ReadingLasts(o)' /\ InspectedFirst(o)'
  BY <1>1 DEF ReadingLasts, InspectedFirst, Migrating
<1>7. TrueReport(o)'
  BY <1>1, <1>3, <1>4, <1>5, Zenon DEF TrueReport
<1>8. NoLink.named = NoLink.dialled
  BY NoLinkAgrees
<1>9. ConnectedAs(o)'
  <2>1. CASE link'[o] = NoLink /\ outcome \notin {"gate ok", "app verified", "app gated"}
    BY <1>1, <1>8, <2>1 DEF ConnectedAs
  <2>2. CASE link'[o] = link[o] /\ settings'[o] = settings[o]
    BY <1>1, <2>2 DEF InStep, ConnectedAs
  <2>. QED
    BY <1>2, <2>1, <2>2
<1>. QED
  BY <1>6, <1>7, <1>9 DEF InStep

\* Alembic changes nothing of what is known of the package and the connection.
LEMMA MigratedInStep ==
  ASSUME TypeOK, TypeOK', Migrations, Migrations', NEW o \in Operators, Command(o), InStep(o),
         pc[o] \in {"alembic started", "heads read"} \cup Migrating,
         pc'[o] \in {"heads read", "after alembic"} \cup Migrating,
         package' = package,
         link'[o] = link[o], settings'[o] = settings[o], result'[o] = result[o]
  PROVE  InStep(o)'
<1>. USE DEF Migrating
<1>1. /\ extensions \subseteq extensions' /\ (HeadReached => HeadReached')
  BY NothingIsTakenBack
<1>2. HeadReached' => schema' = 1..N
  <2>1. (TypeOK /\ VersionAgrees /\ HeadReached => schema = 1..N)'
    BY HeadHasAll, PTL
  <2>. QED
    BY <2>1 DEF Migrations
<1>3. (IsFrozen(package))' <=> IsFrozen(package)
  BY Zenon DEF IsFrozen
<1>4. ReadingLasts(o)'
  BY DEF ReadingLasts
<1>5. InspectedFirst(o)'
  BY <1>3 DEF InStep, InspectedFirst
<1>6. TrueReport(o)'
  BY <1>1, <1>2, <1>3, Zenon DEF InStep, TrueReport
<1>7. ConnectedAs(o)'
  BY DEF InStep, ConnectedAs
<1>. QED
  BY <1>4, <1>5, <1>6, <1>7 DEF InStep

\* So does the operator that moves.
LEMMA OwnStep ==
  ASSUME TypeOK, TypeOK', Migrations, Migrations', NEW o \in Operators, Command(o), InStep(o)
  PROVE  InStep(o)'
<1>1. CASE Refuse(o)
  BY <1>1, RefusedInStep DEF Refuse
<1>2. CASE Graph(o) \/ GateInspects(o) \/ UpgradeInspects(o)
  BY <1>2, InspectedInStep DEF Graph, GateInspects, UpgradeInspects
<1>3. ASSUME NEW s, Check(o, s), ~Refuse(o) PROVE InStep(o)'
  <2>1. migration_target(s) /\ Connect(o, "check connected", s)
    BY <1>3 DEF Check
  <2>. QED
    BY <2>1, ConnectedInStep
<1>4. ASSUME NEW s, Gate(o, s), ~Refuse(o) PROVE InStep(o)'
  <2>1. migration_target(s) /\ Connect(o, "gate connected", s) /\ pc[o] = "gate inspected"
    BY <1>4 DEF Gate
  <2>2. IsFrozen(package) /\ s.server.database = s.url.database
    BY <1>4, <2>1 DEF Gate, InStep, InspectedFirst
  <2>. QED
    BY <2>1, <2>2, ConnectedInStep
<1>5. ASSUME NEW s, Upgrade(o, s), ~Refuse(o) PROVE InStep(o)'
  <2>1. /\ migration_target(s) /\ Connect(o, "upgrade connected", s)
        /\ pc[o] = "upgrade inspected"
    BY <1>5 DEF Upgrade
  <2>2. IsFrozen(package)
    BY <2>1 DEF InStep, InspectedFirst
  <2>. QED
    BY <2>1, <2>2, ConnectedInStep
<1>6. ASSUME NEW s, SetRuntimePassword(o, s), ~Refuse(o) PROVE InStep(o)'
  <2>1. End(o, "password ok") /\ UNCHANGED dbVars
    BY <1>6 DEF SetRuntimePassword
  <2>. QED
    BY <2>1, ReportedInStep DEF Results
<1>7. ASSUME NEW c, StartApp(o, c), ~Refuse(o) PROVE InStep(o)'
  BY <1>7, StartedInStep
<1>8. CASE CheckExtensions(o)
  <2>1. Step(o, "check read", REQUIRED_EXTENSIONS \subseteq extensions) /\ UNCHANGED dbVars
    BY <1>8 DEF CheckExtensions
  <2>. QED
    BY <2>1, SteppedInStep
<1>9. CASE GateRevisions(o)
  <2>1. Step(o, "gate read", AtHead) /\ UNCHANGED dbVars /\ pc[o] = "gate connected"
    BY <1>9 DEF GateRevisions
  <2>2. AtHead \in BOOLEAN /\ (AtHead => HeadReached)
    BY AtHeadMeans DEF AtHead, TypeOK
  <2>. QED
    BY <2>1, <2>2, SteppedInStep
<1>10. CASE UpgradeRevisions(o) /\ ~Refuse(o)
  <2>1. Step(o, "upgrade read", table) /\ UNCHANGED dbVars /\ pc[o] = "upgrade connected"
    BY <1>10 DEF UpgradeRevisions
  <2>2. table \in BOOLEAN
    BY DEF TypeOK
  <2>. QED
    BY <2>1, <2>2, SteppedInStep
<1>11. CASE UpgradeSentinel(o) /\ ~Refuse(o)
  <2>1. Step(o, "alembic started", TRUE) /\ UNCHANGED dbVars /\ pc[o] = "upgrade read"
    BY <1>11 DEF UpgradeSentinel
  <2>. QED
    BY <2>1, SteppedInStep
<1>12. CASE VerifyExtensions(o) /\ ~Refuse(o)
  <2>1. /\ Step(o, "app checked", TRUE) /\ UNCHANGED dbVars /\ pc[o] = "app connected"
        /\ REQUIRED_EXTENSIONS \subseteq extensions
    BY <1>12 DEF VerifyExtensions
  <2>. QED
    BY <2>1, SteppedInStep
<1>13. CASE CheckRevisions(o)
  <2>1. /\ UNCHANGED dbVars /\ pc[o] = "check read"
        /\ \/ End(o, "none")
           \/ End(o, "head ok") /\ HeadReached /\ fine[o]
    BY <1>13, AtHeadMeans DEF CheckRevisions
  <2>2. CASE End(o, "none")
    BY <2>2, RefusedInStep
  <2>3. CASE End(o, "head ok") /\ HeadReached /\ fine[o]
    <3>1. REQUIRED_EXTENSIONS \subseteq extensions
      BY <2>1, <2>3 DEF InStep, ReadingLasts
    <3>. QED
      BY <2>1, <2>3, <3>1, ReportedInStep DEF Results
  <2>. QED
    BY <2>1, <2>2, <2>3
<1>14. CASE GateExtensions(o)
  <2>1. /\ UNCHANGED dbVars /\ pc[o] = "gate read"
        /\ \/ End(o, "none")
           \/ End(o, "gate ok") /\ fine[o] /\ REQUIRED_EXTENSIONS \subseteq extensions
    BY <1>14 DEF GateExtensions
  <2>2. CASE End(o, "none")
    BY <2>2, RefusedInStep
  <2>3. CASE End(o, "gate ok") /\ fine[o] /\ REQUIRED_EXTENSIONS \subseteq extensions
    <3>1. HeadReached /\ IsFrozen(package)
      BY <2>1, <2>3 DEF InStep, ReadingLasts, InspectedFirst
    <3>. QED
      BY <2>1, <2>3, <3>1, ReportedInStep DEF Results
  <2>. QED
    BY <2>1, <2>2, <2>3
<1>15. CASE UpgradeEnds(o)
  <2>1. /\ UNCHANGED dbVars /\ pc[o] = "after alembic"
        /\ End(o, "none") \/ (End(o, "upgrade ok") /\ HeadReached)
    BY <1>15, AtHeadMeans DEF UpgradeEnds
  <2>2. CASE End(o, "none")
    BY <2>2, RefusedInStep
  <2>3. CASE End(o, "upgrade ok") /\ HeadReached
    <3>1. IsFrozen(package)
      BY <2>1 DEF InStep, InspectedFirst
    <3>. QED
      BY <2>1, <2>3, <3>1, ReportedInStep DEF Results
  <2>. QED
    BY <2>1, <2>2, <2>3
<1>16. CASE VerifyRevision(o) /\ ~Refuse(o)
  <2>1. /\ UNCHANGED dbVars /\ pc[o] = "app checked"
        /\ \/ End(o, "app verified") /\ HeadReached
           \/ End(o, "app gated")
    BY <1>16, AtHeadMeans DEF VerifyRevision, AtHead
  <2>2. REQUIRED_EXTENSIONS \subseteq extensions
    BY <2>1 DEF InStep, ReadingLasts
  <2>3. CASE End(o, "app verified") /\ HeadReached
    BY <2>1, <2>2, <2>3, ReportedInStep DEF Results
  <2>4. CASE End(o, "app gated")
    BY <2>1, <2>2, <2>4, ReportedInStep DEF Results
  <2>. QED
    BY <2>1, <2>3, <2>4
<1>17. CASE /\ \/ AlembicStarts(o) \/ _ensure_version_table(o)
               \/ Apply(o) \/ Record(o) \/ CommitRevision(o) \/ AlembicEnds(o)
            /\ ~Refuse(o) /\ ~End(o, "none")
  <2>1. /\ pc[o] \in {"alembic started", "heads read"} \cup Migrating
        /\ pc'[o] \in {"heads read", "after alembic"} \cup Migrating
        /\ package' = package
        /\ link'[o] = link[o] /\ settings'[o] = settings[o] /\ result'[o] = result[o]
    BY <1>17 DEF AlembicStarts, _ensure_version_table, Apply, Record, CommitRevision, AlembicEnds, Migrating, TypeOK
  <2>. QED
    BY <2>1, MigratedInStep
<1>18. CASE End(o, "none")
  BY <1>18, RefusedInStep
<1>19. CASE Inspected(o) \/ Fail(o)
  BY <1>19, <1>1 DEF Inspected, Fail
<1>. QED
  BY <1>1, <1>2, <1>3, <1>4, <1>5, <1>6, <1>7, <1>8, <1>9, <1>10, <1>11, <1>12, <1>13,
     <1>14, <1>15, <1>16, <1>17, <1>18, <1>19 DEF Command

-----------------------------------------------------------------------------
(* Passwords                                                               *)

\* A password that was set was set on this machine.
SetHere(a) ==
  /\ a.environment \notin ProductionLike /\ a.address \in LOOPBACK_SERVER_ADDRESSES
  /\ a.role \in RUNTIME_ROLES
  /\ a.port = a.named.port /\ a.database = a.named.database

\* The checks of set-password before it connects and after amount to that.
LEMMA SettingIsLocal ==
  ASSUME NEW environment, environment \in PASSWORD_ENVIRONMENTS,
         NEW address, address \in LOOPBACK_SERVER_ADDRESSES,
         NEW role, role \in RUNTIME_ROLES,
         NEW named, NEW port, NEW database, port = named.port, database = named.database
  PROVE  SetHere([environment |-> environment, address |-> address, port |-> port,
                  database |-> database, role |-> role, named |-> named])
BY DEF SetHere, PASSWORD_ENVIRONMENTS, ProductionLike

\* What is altered was, or is set here now.
LEMMA PasswordsStep ==
  ASSUME TypeOK, \A a \in altered : SetHere(a), NEW o \in Operators, Command(o)
  PROVE  \A a \in altered' : SetHere(a)
<1>1. ASSUME NEW s, SetRuntimePassword(o, s), ~Refuse(o)
      PROVE  \A a \in altered' : SetHere(a)
  <2>1. /\ s.environment \in PASSWORD_ENVIRONMENTS
        /\ s.server.address \in LOOPBACK_SERVER_ADDRESSES
        /\ s.runtime.user \in RUNTIME_ROLES
        /\ <<target(s.runtime).host, target(s.runtime).port, target(s.runtime).database>> =
             <<s.url.host, s.url.port, s.url.database>>
        /\ s.server.port = s.url.port /\ s.server.database = s.url.database
        /\ altered' = altered \cup
               {[environment |-> s.environment, address |-> s.server.address,
                 port |-> s.server.port, database |-> s.server.database,
                 role |-> s.runtime.user, named |-> target(s.runtime)]}
    BY <1>1 DEF SetRuntimePassword
  <2>2. /\ s.server.port = target(s.runtime).port
        /\ s.server.database = target(s.runtime).database
    BY <2>1
  <2>3. SetHere([environment |-> s.environment, address |-> s.server.address,
                 port |-> s.server.port, database |-> s.server.database,
                 role |-> s.runtime.user, named |-> target(s.runtime)])
    BY <2>1, <2>2, SettingIsLocal
  <2>. QED
    BY <2>1, <2>3
<1>2. CASE altered' = altered
  BY <1>2
<1>3. CASE Refuse(o)
  BY <1>2, <1>3 DEF Refuse
<1>4. CASE Graph(o) \/ GateInspects(o) \/ UpgradeInspects(o)
  BY <1>2, <1>4 DEF Graph, GateInspects, UpgradeInspects, Inspects
<1>5. ASSUME NEW s, Check(o, s) \/ Gate(o, s) \/ Upgrade(o, s)
      PROVE  \A a \in altered' : SetHere(a)
  BY <1>2, <1>3, <1>5 DEF Check, Gate, Upgrade, Connect
<1>6. ASSUME NEW c, StartApp(o, c) PROVE \A a \in altered' : SetHere(a)
  BY <1>2, <1>3, <1>6 DEF StartApp
<1>7. CASE \/ CheckExtensions(o) \/ CheckRevisions(o) \/ GateRevisions(o) \/ GateExtensions(o)
           \/ UpgradeRevisions(o) \/ UpgradeSentinel(o) \/ UpgradeEnds(o)
           \/ VerifyExtensions(o) \/ VerifyRevision(o)
  BY <1>2, <1>3, <1>7 DEF CheckExtensions, CheckRevisions, GateRevisions, GateExtensions,
     UpgradeRevisions, UpgradeSentinel, UpgradeEnds, VerifyExtensions, VerifyRevision, Step
<1>8. CASE \/ AlembicStarts(o) \/ _ensure_version_table(o)
           \/ Apply(o) \/ Record(o) \/ CommitRevision(o) \/ AlembicEnds(o)
  BY <1>2, <1>3, <1>8 DEF AlembicStarts, _ensure_version_table, Apply, Record, CommitRevision,
     AlembicEnds
<1>9. CASE Inspected(o) \/ Fail(o)
  BY <1>3, <1>9 DEF Inspected, Fail
<1>. QED
  BY <1>1, <1>3, <1>4, <1>5, <1>6, <1>7, <1>8, <1>9 DEF Command

-----------------------------------------------------------------------------
(* The invariant                                                           *)

\* Inductive, as the operators' parts and what was altered.
LEMMA PartsOfInductive ==
  Inductive <=> /\ TypeOK /\ Migrations /\ (\A o \in Operators : InStep(o))
                /\ \A a \in altered : SetHere(a)
<1>1. TypeOK /\ Migrations /\ AtHead => schema = 1..N /\ reverted = {}
  BY AtHeadMeans
<1>. QED
  BY <1>1, Zenon DEF Inductive, Migrations, InStep, HeadIsTrue, ConnectsAsDeclared, SetHere

\* It holds of any database that a deployment can find ...
LEMMA InvariantInit == Init => Inductive
<1> SUFFICES ASSUME Init PROVE Inductive
  OBVIOUS
<1>1. TypeOK
  BY TypeInit
<1>2. Migrations
  <2>1. PICK k \in 0..Unknown :
          /\ schema = 1..k
          /\ \/ table = FALSE /\ version = {}
             \/ table = TRUE /\ version = {k} \ {0}
             \/ table = TRUE /\ k > 1 /\ version = {k - 1, k}
    BY DEF Init
  <2>2. VersionAgrees
    <3>1. CASE version = {}
      <4>1. table => k = 0
        BY <2>1, <3>1
      <4>. QED
        BY <2>1, <3>1, <4>1 DEF VersionAgrees
    <3>2. CASE version = {k} /\ k # 0
      BY <2>1, <3>2, NIsPositive DEF VersionAgrees
    <3>3. CASE table = TRUE /\ k > 1 /\ version = {k - 1, k}
      <4>1. k \in version /\ \A w \in version : w <= k
        BY <2>1, <3>3, NIsPositive
      <4>2. version # {} /\ schema \ (1..k) = {}
        BY <2>1, <3>3
      <4>. QED
        BY <2>1, <4>1, <4>2 DEF VersionAgrees
    <3>. QED
      BY <2>1, <3>1, <3>2, <3>3
  <2>3. OneWriter /\ RowsAreLate /\ RevertedIsSeen /\ \A o \in Operators : MigrationInStep(o)
    BY DEF Init, OneWriter, RowsAreLate, RevertedIsSeen, MigrationInStep, Migrating
  <2>. QED
    BY <2>2, <2>3 DEF Migrations
<1>3. ASSUME NEW o \in Operators PROVE InStep(o)
  <2>1. pc[o] = "idle" /\ result[o] = "none" /\ link[o] = NoLink
    BY DEF Init
  <2>2. link[o].named = link[o].dialled
    BY <2>1, NoLinkAgrees, Zenon
  <2>3. ConnectedAs(o)
    BY <2>1, <2>2 DEF ConnectedAs
  <2>. QED
    BY <2>1, <2>3 DEF InStep, ReadingLasts, InspectedFirst, TrueReport, Migrating
<1>4. altered = {}
  BY DEF Init
<1>. QED
  BY <1>1, <1>2, <1>3, <1>4, PartsOfInductive

\* ... and after every statement of every command.
LEMMA InvariantStep == Inductive /\ [Next]_vars => Inductive'
<1> SUFFICES ASSUME Inductive, [Next]_vars PROVE Inductive'
  OBVIOUS
<1>1. /\ TypeOK /\ Migrations /\ (\A o \in Operators : InStep(o))
      /\ \A a \in altered : SetHere(a)
  BY PartsOfInductive
<1>2. /\ \A o \in Operators : MigrationInStep(o)
      /\ \A o \in Operators : ReadingLasts(o)
  BY <1>1 DEF Migrations, InStep
<1>3. TypeOK' /\ Migrations'
  BY <1>1, <1>2, TypeStep, MigrationsStep
<1>4. (\A o \in Operators : InStep(o)') /\ \A a \in altered' : SetHere(a)
  <2>1. CASE UNCHANGED vars
    <3>1. ASSUME NEW o \in Operators PROVE InStep(o)'
      <4>1. InStep(o)
        BY <1>1
      <4>2. (IsFrozen(package))' <=> IsFrozen(package)
        BY <2>1, Zenon DEF IsFrozen, vars
      <4>3. ReadingLasts(o)' /\ InspectedFirst(o)' /\ TrueReport(o)'
        BY <2>1, <4>1, <4>2 DEF InStep, ReadingLasts, InspectedFirst, TrueReport, HeadReached, vars
      <4>4. ConnectedAs(o)'
        BY <2>1, <4>1 DEF InStep, ConnectedAs, vars
      <4>. QED
        BY <4>3, <4>4 DEF InStep
    <3>. QED
      BY <1>1, <2>1, <3>1 DEF vars
  <2>2. ASSUME NEW o \in Operators, Command(o)
        PROVE  (\A p \in Operators : InStep(p)') /\ \A a \in altered' : SetHere(a)
    <3>1. ASSUME NEW p \in Operators PROVE InStep(p)'
      <4>1. CASE p = o
        BY <1>1, <1>3, <2>2, <4>1, OwnStep
      <4>2. CASE p # o
        BY <1>1, <1>3, <2>2, <4>2, OthersStayInStep
      <4>. QED
        BY <4>1, <4>2
    <3>. QED
      BY <1>1, <2>2, <3>1, PasswordsStep
  <2>. QED
    BY <2>1, <2>2 DEF Next
<1>5. (Inductive <=> /\ TypeOK /\ Migrations /\ (\A o \in Operators : InStep(o))
                     /\ \A a \in altered : SetHere(a))'
  BY PartsOfInductive, PTL
<1>. QED
  BY <1>3, <1>4, <1>5

\* However many operators migrate, gate and start at once, and wherever any of
\* them fails: the newest version row and the objects of the database agree, no
\* two transactions write the same row or run the same revision, a row beside the
\* newest one is that of repeatable revisions run late, definitions that such a
\* run puts back are never without a second row, and what a command has read of
\* the database and of the package stays true until it ends.
THEOREM DeploymentInvariant == Spec => []Inductive
<1>1. Init => Inductive
  BY InvariantInit
<1>2. Inductive /\ [Next]_vars => Inductive'
  BY InvariantStep
<1>. QED
  BY <1>1, <1>2, PTL DEF Spec

\* A command that has said that the database is at the head has said so truly:
\* the database has every revision and the head's row, and keeps them whatever
\* anybody does later.  And a version table with the head's row alone, which is
\* what such a command reads, means that no revision's definitions are undone.
THEOREM HeadReportsAreTrue == Spec => []HeadIsTrue
<1>1. Inductive => HeadIsTrue
  BY DEF Inductive
<1>. QED
  BY <1>1, DeploymentInvariant, PTL

\* Every connection is to the server, database and role that the URL names, an
\* application that runs uses what is declared for its environment, and a
\* runtime password is only set on this machine.
THEOREM ConnectionsAreDeclared == Spec => []ConnectsAsDeclared
<1>1. Inductive => ConnectsAsDeclared
  BY DEF Inductive
<1>. QED
  BY <1>1, DeploymentInvariant, PTL

-----------------------------------------------------------------------------
(* The package                                                             *)

\* The wrappers that read_revisions keeps have one id and at most one parent.
LEMMA RevisionsAreRead ==
  ASSUME NEW p \in Packages
  PROVE  Read(read_revisions(p))
<1>1. IsFiniteSet(read_revisions(p))
  BY PackageAssumption, FS_Subset DEF read_revisions
<1>2. ASSUME NEW r \in read_revisions(p)
      PROVE  /\ \E id \in r.revision : r.revision = {id} /\ id # Ended
             /\ r.down = {} \/ \E id \in r.down : r.down = {id}
  <2>1. r \in p.files /\ r.revision # {} /\ ~(Cardinality(r.down) > 1)
    BY DEF read_revisions, Unnamed, Merging
  <2>2. IsFiniteSet(r.down) /\ \E id \in r.revision : r.revision = {id} /\ id # Ended
    BY <2>1, PackageAssumption
  <2>3. Cardinality(r.down) = 0 \/ Cardinality(r.down) = 1
    BY <2>1, <2>2, FS_CardinalityType
  <2>. QED
    BY <2>2, <2>3, FS_EmptySet, FS_Singleton
<1>. QED
  BY <1>1, <1>2 DEF Read

\* Whatever is on disk, the walk finds a chain exactly when the revisions are
\* one, and tells it in its order; only when two wrappers claim one id does it
\* not come to an end.
THEOREM ChainsAreLinear == Spec => []ChainIsLinear
<1>1. TypeOK => ChainIsLinear
  <2> SUFFICES ASSUME TypeOK PROVE ChainIsLinear
    OBVIOUS
  <2>. DEFINE revisions == read_revisions(package)
  <2>1. Read(revisions)
    BY RevisionsAreRead DEF TypeOK
  <2>. HIDE DEF revisions
  <2>2. CASE WalkEnds(revisions)
    <3>1. IsLinear(revisions) <=> _walk_chain(revisions) # <<>>
      BY <2>1, <2>2, LinearIsFound, FoundIsLinear
    <3>2. _walk_chain(revisions) # <<>> =>
            \E order \in Orders(revisions) :
              \A i \in DOMAIN order : order[i].revision = {_walk_chain(revisions)[i]}
      BY <2>1, <2>2, FoundIsLinear
    <3>. QED
      BY <2>2, <3>1, <3>2, Zenon DEF ChainIsLinear, revisions
  <2>3. CASE ~WalkEnds(revisions)
    <3>1. \E r1, r2 \in revisions : r1 # r2 /\ r1.revision = r2.revision
      BY <2>1, <2>3, EndlessIsDouble
    <3>. QED
      BY <2>3, <3>1, Zenon DEF ChainIsLinear, revisions
  <2>. QED
    BY <2>2, <2>3
<1>2. Inductive => TypeOK
  BY DEF Inductive
<1>. QED
  BY <1>1, <1>2, DeploymentInvariant, PTL
=============================================================================
