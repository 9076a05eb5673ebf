----------------------- MODULE RetroCatalogue_proofs -----------------------
(* Theorems about RetroCatalogue: the import of any catalogue, of any       *)
(* length, repeats itself and is told by the planner but for generations    *)
(* that share a name, and a status is only replaced by a client that had    *)
(* read it.                                                                 *)
EXTENDS RetroCatalogue, FiniteSetTheorems, TLAPS

-----------------------------------------------------------------------------
(* The walk of the import.                                                  *)

\* Counting to n without an induction theorem: if n were left out, i + 1
\* for i would put the set into itself with 0 to spare.
LEMMA UpTo ==
  ASSUME NEW n \in Nat, NEW T, 0 \in T,
         \A i \in 0 .. n - 1 : i \in T => i + 1 \in T
  PROVE  n \in T
<1> DEFINE S == T \cap (0 .. n)
<1>1. IsFiniteSet(S) /\ 0 \in S
  <2>1. IsFiniteSet(0 .. n)
    BY FS_Interval
  <2> QED  BY <2>1, FS_Subset
<1>2. SUFFICES ASSUME n \notin T PROVE FALSE
  OBVIOUS
<1> DEFINE f == [i \in S |-> i + 1]
<1>3. f \in Injection(S, S \ {0})
  <2>1. \A i \in S : i + 1 \in S \ {0}
    BY <1>2
  <2>2. f \in [S -> S \ {0}]
    BY <2>1
  <2>3. \A i, j \in S : f[i] = f[j] => i = j
    OBVIOUS
  <2> QED  BY <2>2, <2>3 DEF Injection, IsInjective
<1>4. IsFiniteSet(S \ {0}) /\ Cardinality(S \ {0}) = Cardinality(S) - 1
  BY <1>1, FS_RemoveElement
<1>5. Cardinality(S) <= Cardinality(S \ {0})
  BY <1>3, <1>4, FS_Injection
<1>6. Cardinality(S) \in Nat
  BY <1>1, FS_CardinalityType
<1> QED  BY <1>4, <1>5, <1>6

\* The states of the walk after each of the first n entries.
WalkedTo(w, d, cat, n) ==
  /\ w[0] = ApplyGroup(d)
  /\ \A i \in 1 .. n : w[i] = ApplyEntry(w[i - 1], cat[i])

\* The definition of the walk, read as an equation.
Recursion(w, d, cat, n) ==
  w = [i \in 0 .. n |-> IF i = 0 THEN ApplyGroup(d) ELSE ApplyEntry(w[i - 1], cat[i])]

LEMMA WalkExists ==
  ASSUME NEW d, NEW cat, NEW n \in Nat
  PROVE  \E w : Recursion(w, d, cat, n)
<1> DEFINE T == {m \in 0 .. n : \E w : WalkedTo(w, d, cat, m)}
<1>1. 0 \in T
  <2>1. WalkedTo([i \in {0} |-> ApplyGroup(d)], d, cat, 0)
    BY DEF WalkedTo
  <2> QED  BY <2>1
<1>2. ASSUME NEW m \in 0 .. n - 1, m \in T  PROVE m + 1 \in T
  <2>1. PICK w : WalkedTo(w, d, cat, m)
    BY <1>2
  <2> DEFINE v == [i \in 0 .. m + 1 |-> IF i = m + 1 THEN ApplyEntry(w[m], cat[m + 1]) ELSE w[i]]
  <2>2. v[0] = w[0]
    OBVIOUS
  <2>3. ASSUME NEW i \in 1 .. m + 1  PROVE v[i] = ApplyEntry(v[i - 1], cat[i])
    <3>0. v[i - 1] = w[i - 1]
      OBVIOUS
    <3>1. CASE i = m + 1
      <4>1. v[i] = ApplyEntry(w[m], cat[m + 1])
        BY <3>1
      <4>2. w[m] = v[i - 1] /\ cat[m + 1] = cat[i]
        BY <3>0, <3>1
      <4> QED  BY <4>1, <4>2
    <3>2. CASE i # m + 1
      <4>1. v[i] = w[i] /\ i \in 1 .. m
        BY <3>2
      <4> QED  BY <2>1, <3>0, <4>1 DEF WalkedTo
    <3> QED  BY <3>1, <3>2
  <2> HIDE DEF v
  <2>4. WalkedTo(v, d, cat, m + 1)
    BY <2>1, <2>2, <2>3 DEF WalkedTo
  <2> QED  BY <2>4
<1>3. n \in T
  <2> HIDE DEF T
  <2> QED  BY <1>1, <1>2, UpTo
<1>4. PICK w : WalkedTo(w, d, cat, n)
  BY <1>3
<1> DEFINE v == [i \in 0 .. n |-> w[i]]
<1>5. ASSUME NEW i \in 0 .. n
      PROVE  v[i] = IF i = 0 THEN ApplyGroup(d) ELSE ApplyEntry(v[i - 1], cat[i])
  <2>1. CASE i = 0
    BY <1>4, <2>1 DEF WalkedTo
  <2>2. CASE i # 0
    <3>1. v[i - 1] = w[i - 1] /\ v[i] = w[i] /\ i \in 1 .. n
      BY <2>2
    <3> QED  BY <1>4, <2>2, <3>1 DEF WalkedTo
  <2> QED  BY <2>1, <2>2
<1>6. v = [i \in 0 .. n |-> v[i]]
  OBVIOUS
<1> HIDE DEF v
<1>7. v = [i \in 0 .. n |-> IF i = 0 THEN ApplyGroup(d) ELSE ApplyEntry(v[i - 1], cat[i])]
  BY <1>5, <1>6
<1> QED  BY <1>7 DEF Recursion

LEMMA WalkSteps ==
  ASSUME NEW d, NEW cat, Len(cat) \in Nat
  PROVE  \E w : WalkedTo(w, d, cat, Len(cat)) /\ Walk(d, cat) = w[Len(cat)]
<1> DEFINE w == CHOOSE w : Recursion(w, d, cat, Len(cat))
<1>1. Recursion(w, d, cat, Len(cat))
  BY WalkExists, Zenon
<1>2. Walk(d, cat) = w[Len(cat)]
  BY DEF Walk, Recursion
<1> HIDE DEF w
<1>3. \A i \in 0 .. Len(cat) : w[i] = IF i = 0 THEN ApplyGroup(d) ELSE ApplyEntry(w[i - 1], cat[i])
  BY <1>1 DEF Recursion
<1>4. WalkedTo(w, d, cat, Len(cat))
  BY <1>3 DEF WalkedTo
<1> QED  BY <1>2, <1>4


-----------------------------------------------------------------------------
(* One entry of the catalogue.                                              *)

Ids == {<<"group">>} \cup {<<"generation", o>> : o \in Orders}
         \cup {<<"platform", s>> : s \in Slugs} \cup {<<"game", k>> : k \in Keys}

Reports == [created : SUBSET Ids, updated : SUBSET Ids, unchanged : SUBSET Ids,
            orphaned : SUBSET Ids, deactivated : SUBSET Ids]

Walks == [db : Databases, report : Reports, ok : BOOLEAN]

RowOf(e) == [generation |-> e.generation, name |-> e.name]

LEMMA EntryTypes ==
  ASSUME NEW e \in Entries
  PROVE  /\ e.generation \in Generations /\ e.order \in Orders
         /\ e.slug \in Slugs /\ e.name \in Names
         /\ DOMAIN e.games \subseteq Keys
         /\ \A k \in DOMAIN e.games : e.games[k] \in Details
         /\ RowOf(e) \in Platforms
         /\ \A k \in DOMAIN e.games : Desired(e, k) \in Games
<1>1. PICK K \in SUBSET Keys : e.games \in [K -> Details]
  BY DEF Entries
<1>2. /\ DOMAIN e.games \subseteq Keys
      /\ \A k \in DOMAIN e.games : e.games[k] \in Details
  BY <1>1
<1>3. /\ e.generation \in Generations /\ e.order \in Orders
      /\ e.slug \in Slugs /\ e.name \in Names
  BY DEF Entries
<1> QED  BY <1>2, <1>3 DEF RowOf, Desired, Platforms, Games

LEMMA IdTypes ==
  /\ <<"group">> \in Ids
  /\ \A o \in Orders : <<"generation", o>> \in Ids
  /\ \A s \in Slugs : <<"platform", s>> \in Ids
  /\ \A k \in Keys : <<"game", k>> \in Ids
BY DEF Ids

\* What _record leaves in each part of the report.
LEMMA Counted ==
  ASSUME NEW r \in Reports, NEW id \in Ids, NEW exists \in BOOLEAN, NEW changed \in BOOLEAN,
         NEW c, c = Count(r, id, exists, changed)
  PROVE  /\ c \in Reports
         /\ c.created = IF exists THEN r.created ELSE r.created \cup {id}
         /\ c.updated = IF exists /\ changed THEN r.updated \cup {id} ELSE r.updated
         /\ c.unchanged = IF exists /\ ~changed THEN r.unchanged \cup {id} ELSE r.unchanged
         /\ c.orphaned = r.orphaned /\ c.deactivated = r.deactivated
BY DEF Count, Reports

LEMMA GroupApplied ==
  ASSUME NEW d \in Databases, NEW v, v = ApplyGroup(d)
  PROVE  /\ v \in Walks /\ v.ok
         /\ v.db.group = "retro" /\ v.db.category = d.category /\ v.db.order = d.order
         /\ v.db.platform = d.platform /\ v.db.game = d.game
         /\ v.report = Count(Report, <<"group">>, d.group # "absent", d.group # "retro")
         /\ Report \in Reports /\ v.db = [d EXCEPT !.group = "retro"]
<1>1. Report \in Reports
  BY DEF Report, Reports
<1>2. Count(Report, <<"group">>, d.group # "absent", d.group # "retro") \in Reports
  BY <1>1, IdTypes, Counted
<1>3. [d EXCEPT !.group = "retro"] \in Databases
  BY DEF Databases
<1> QED  BY <1>1, <1>2, <1>3 DEF ApplyGroup, Walks, Databases

\* The walk v is w with the generation of e found or created, unless w has it.
WithGeneration(v, w, e) ==
  /\ v \in Walks
  /\ Generation(e) \in Reported(w.report) => v = w
  /\ Generation(e) \notin Reported(w.report) =>
       /\ v.db = [w.db EXCEPT !.category[e.generation] = "own",
                              !.order[e.generation] = e.order]
       /\ v.report = Count(w.report, Generation(e), w.db.category[e.generation] = "own",
                           w.db.order[e.generation] # e.order)
       /\ v.ok <=> w.ok /\ w.db.category[e.generation] # "other"

LEMMA GenerationApplied ==
  ASSUME NEW w \in Walks, NEW e \in Entries, NEW v, v = ApplyGeneration(w, e)
  PROVE  WithGeneration(v, w, e)
<1> DEFINE n == e.generation
           id == Generation(e)
<1>1. n \in Generations /\ e.order \in Orders /\ id \in Ids
  BY EntryTypes, IdTypes DEF Generation
<1>2. CASE id \in Reported(w.report)
  BY <1>2 DEF ApplyGeneration, WithGeneration
<1>3. CASE id \notin Reported(w.report)
  <2> DEFINE c == Count(w.report, id, w.db.category[n] = "own", w.db.order[n] # e.order)
             r == [w.db EXCEPT !.category[n] = "own", !.order[n] = e.order]
             ok == w.ok /\ w.db.category[n] # "other"
  <2>0. w.report \in Reports /\ w.db \in Databases /\ w.ok \in BOOLEAN
    BY DEF Walks
  <2>1. c \in Reports
    BY <1>1, <2>0, Counted
  <2>2. r \in Databases
    BY <1>1, <2>0 DEF Databases
  <2>3. v = [db |-> r, report |-> c, ok |-> ok]
    BY <1>3 DEF ApplyGeneration, FindsGeneration
  <2>4. ok \in BOOLEAN
    BY <2>0
  <2>5. ok <=> w.ok /\ w.db.category[n] # "other"
    OBVIOUS
  <2> HIDE DEF c, r, ok
  <2>6. v.db = r /\ v.report = c /\ v \in Walks /\ v.ok = ok
    BY <2>0, <2>1, <2>2, <2>3, <2>4 DEF Walks
  <2> QED  BY <1>3, <2>5, <2>6 DEF c, r, WithGeneration
<1> QED  BY <1>2, <1>3

LEMMA PlatformApplied ==
  ASSUME NEW w \in Walks, NEW e \in Entries, NEW v, v = ApplyPlatform(w, e),
         NEW old, old = w.db.platform[e.slug]
  PROVE  /\ v \in Walks
         /\ v.db = [w.db EXCEPT !.platform[e.slug] = RowOf(e)]
         /\ v.report = Count(w.report, <<"platform", e.slug>>, old # None, old # RowOf(e))
         /\ v.ok => w.ok
         /\ w.ok /\ old = RowOf(e) => v.ok
<1>1. e.slug \in Slugs /\ <<"platform", e.slug>> \in Ids /\ RowOf(e) \in Platforms
  BY EntryTypes, IdTypes
<1> DEFINE c == Count(w.report, <<"platform", e.slug>>, old # None, old # RowOf(e))
           r == [w.db EXCEPT !.platform[e.slug] = RowOf(e)]
           ok == w.ok /\ (old = RowOf(e) \/ ~NameTaken(w.db, RowOf(e), e.slug))
<1>2. w.report \in Reports /\ w.db \in Databases /\ w.ok \in BOOLEAN
  BY DEF Walks
<1>3. c \in Reports
  BY <1>1, <1>2, Counted
<1>4. r \in Databases
  BY <1>1, <1>2 DEF Databases
<1>5. v = [db |-> r, report |-> c, ok |-> ok]
  BY DEF ApplyPlatform, RowOf
<1>6. ok \in BOOLEAN
  BY <1>2
<1>7. (ok => w.ok) /\ (w.ok /\ old = RowOf(e) => ok)
  OBVIOUS
<1> HIDE DEF c, r, ok
<1>8. v.db = r /\ v.report = c /\ v.ok = ok /\ v \in Walks
  BY <1>3, <1>4, <1>5, <1>6 DEF Walks
<1> QED  BY <1>7, <1>8 DEF c, r

\* The games of an entry are counted one by one, all of the same rows.
LEMMA GamesApplied ==
  ASSUME NEW w \in Walks, NEW e \in Entries, NEW v, v = ApplyGames(w, e),
         NEW old, old = w.db.game
  PROVE  /\ v \in Walks /\ v.ok = w.ok
         /\ v.db.group = w.db.group /\ v.db.category = w.db.category
         /\ v.db.order = w.db.order /\ v.db.platform = w.db.platform
         /\ v.db.game = [k \in Keys |-> IF k \in DOMAIN e.games THEN Desired(e, k) ELSE old[k]]
         /\ v.report.created = w.report.created
              \cup {<<"game", k>> : k \in {k \in DOMAIN e.games : old[k] = None}}
         /\ v.report.updated = w.report.updated
              \cup {<<"game", k>> : k \in {k \in DOMAIN e.games :
                       old[k] # None /\ old[k] # Desired(e, k)}}
         /\ v.report.unchanged = w.report.unchanged
              \cup {<<"game", k>> : k \in {k \in DOMAIN e.games :
                       old[k] # None /\ old[k] = Desired(e, k)}}
         /\ v.report.orphaned = w.report.orphaned
         /\ v.report.deactivated = w.report.deactivated
<1> DEFINE g == [k \in Keys |-> IF k \in DOMAIN e.games THEN Desired(e, k) ELSE old[k]]
           A == {<<"game", k>> : k \in {k \in DOMAIN e.games : old[k] = None}}
           B == {<<"game", k>> : k \in {k \in DOMAIN e.games :
                       old[k] # None /\ old[k] # Desired(e, k)}}
           C == {<<"game", k>> : k \in {k \in DOMAIN e.games :
                       old[k] # None /\ old[k] = Desired(e, k)}}
<1>1. w.report \in Reports /\ w.db \in Databases /\ w.ok \in BOOLEAN
  BY DEF Walks
<1>2. v = [w EXCEPT !.db.game = g, !.report.created = @ \cup A,
                    !.report.updated = @ \cup B, !.report.unchanged = @ \cup C]
  BY DEF ApplyGames
<1>3. A \subseteq Ids /\ B \subseteq Ids /\ C \subseteq Ids
  BY EntryTypes, IdTypes
<1>4. g \in [Keys -> Games \cup {None}]
  BY <1>1, EntryTypes DEF Databases
<1> HIDE DEF g, A, B, C
<1>5. /\ v.ok = w.ok
      /\ v.db = [w.db EXCEPT !.game = g]
      /\ v.report = [w.report EXCEPT !.created = @ \cup A, !.updated = @ \cup B,
                                     !.unchanged = @ \cup C]
      /\ v = [db |-> v.db, report |-> v.report, ok |-> v.ok]
  BY <1>1, <1>2 DEF Walks, Reports, Databases
<1>6. /\ v.db \in Databases /\ v.db.group = w.db.group /\ v.db.category = w.db.category
      /\ v.db.order = w.db.order /\ v.db.platform = w.db.platform /\ v.db.game = g
  BY <1>1, <1>4, <1>5 DEF Databases
<1>7. /\ v.report \in Reports
      /\ v.report.created = w.report.created \cup A
      /\ v.report.updated = w.report.updated \cup B
      /\ v.report.unchanged = w.report.unchanged \cup C
      /\ v.report.orphaned = w.report.orphaned
      /\ v.report.deactivated = w.report.deactivated
  BY <1>1, <1>3, <1>5 DEF Reports
<1>8. v \in Walks
  BY <1>1, <1>5, <1>6, <1>7 DEF Walks
<1> QED  BY <1>5, <1>6, <1>7, <1>8 DEF g, A, B, C

\* What the platform and the games of an entry say of the rows d: its
\* identities that are new, that differ and that are there as they should.
Creates(x, d, e) ==
  \/ x = <<"platform", e.slug>> /\ d.platform[e.slug] = None
  \/ \E k \in DOMAIN e.games : x = <<"game", k>> /\ d.game[k] = None

Updates(x, d, e) ==
  \/ /\ x = <<"platform", e.slug>>
     /\ d.platform[e.slug] # None /\ d.platform[e.slug] # RowOf(e)
  \/ \E k \in DOMAIN e.games :
       x = <<"game", k>> /\ d.game[k] # None /\ d.game[k] # Desired(e, k)

Leaves(x, d, e) ==
  \/ /\ x = <<"platform", e.slug>>
     /\ d.platform[e.slug] # None /\ d.platform[e.slug] = RowOf(e)
  \/ \E k \in DOMAIN e.games :
       x = <<"game", k>> /\ d.game[k] # None /\ d.game[k] = Desired(e, k)

\* The same of its generation.
CreatesGeneration(x, d, e) == x = Generation(e) /\ d.category[e.generation] # "own"

UpdatesGeneration(x, d, e) ==
  x = Generation(e) /\ d.category[e.generation] = "own" /\ d.order[e.generation] # e.order

LeavesGeneration(x, d, e) ==
  x = Generation(e) /\ d.category[e.generation] = "own" /\ d.order[e.generation] = e.order

\* What an entry leaves of the rows c.
Entered(b, c, e) ==
  /\ b.group = c.group
  /\ b.category = [c.category EXCEPT ![e.generation] = "own"]
  /\ b.order = [c.order EXCEPT ![e.generation] = e.order]
  /\ b.platform = [c.platform EXCEPT ![e.slug] = RowOf(e)]
  /\ b.game = [k \in Keys |-> IF k \in DOMAIN e.games THEN Desired(e, k) ELSE c.game[k]]

\* A generation that was reported is there, as the entry wants it.
Written(w, e) ==
  Generation(e) \in Reported(w.report) =>
    w.db.category[e.generation] = "own" /\ w.db.order[e.generation] = e.order

LEMMA EntryApplied ==
  ASSUME NEW w \in Walks, w.ok, NEW e \in Entries, Written(w, e),
         NEW v, v = ApplyEntry(w, e)
  PROVE  /\ v \in Walks
         /\ Entered(v.db, w.db, e)
         /\ \A x : x \in v.report.created <=>
              \/ x \in w.report.created \/ Creates(x, w.db, e)
              \/ CreatesGeneration(x, w.db, e) /\ x \notin Reported(w.report)
         /\ \A x : x \in v.report.updated <=>
              \/ x \in w.report.updated \/ Updates(x, w.db, e)
              \/ UpdatesGeneration(x, w.db, e) /\ x \notin Reported(w.report)
         /\ \A x : x \in v.report.unchanged <=>
              \/ x \in w.report.unchanged \/ Leaves(x, w.db, e)
              \/ LeavesGeneration(x, w.db, e) /\ x \notin Reported(w.report)
         /\ v.report.orphaned = w.report.orphaned
         /\ v.report.deactivated = w.report.deactivated
         /\ w.db.category[e.generation] = "own" /\ w.db.platform[e.slug] = RowOf(e) => v.ok
<1> DEFINE n == e.generation
           id == Generation(e)
           was == w.report
           owned == w.db.category[n] = "own"
           ordered == w.db.order[n] = e.order
           first == id \notin Reported(was)
<1>0. /\ n \in Generations /\ e.slug \in Slugs /\ DOMAIN e.games \subseteq Keys
      /\ e.order \in Orders /\ id \in Ids /\ <<"platform", e.slug>> \in Ids
      /\ was \in Reports /\ w.db \in Databases /\ RowOf(e) \in Platforms
  BY EntryTypes, IdTypes DEF Walks, Generation
<1>1. PICK a : a = ApplyGeneration(w, e)
  OBVIOUS
<1>2. PICK b : b = ApplyPlatform(a, e)
  OBVIOUS
<1>3. v = ApplyGames(b, e)
  BY <1>1, <1>2 DEF ApplyEntry
<1>4. /\ a \in Walks /\ a.report \in Reports
      /\ a.db.group = w.db.group /\ a.db.platform = w.db.platform /\ a.db.game = w.db.game
      /\ a.db.category = [w.db.category EXCEPT ![n] = "own"]
      /\ a.db.order = [w.db.order EXCEPT ![n] = e.order]
      /\ a.report.created = IF first /\ ~owned THEN was.created \cup {id} ELSE was.created
      /\ a.report.updated = IF first /\ owned /\ ~ordered THEN was.updated \cup {id}
                                                          ELSE was.updated
      /\ a.report.unchanged = IF first /\ owned /\ ordered THEN was.unchanged \cup {id}
                                                           ELSE was.unchanged
      /\ a.report.orphaned = was.orphaned /\ a.report.deactivated = was.deactivated
      /\ owned => a.ok
  <2>0. WithGeneration(a, w, e)
    BY <1>1, GenerationApplied
  <2>1. a \in Walks /\ a.report \in Reports
    BY <2>0 DEF WithGeneration, Walks
  <2>2. CASE ~first
    <3>1. a = w
      BY <2>2, <2>0 DEF WithGeneration
    <3>2. owned /\ ordered
      BY <1>0, <2>2 DEF Written
    <3>3. /\ [w.db.category EXCEPT ![n] = "own"] = w.db.category
          /\ [w.db.order EXCEPT ![n] = e.order] = w.db.order
      BY <1>0, <3>2 DEF Databases
    <3> QED  BY <2>1, <2>2, <3>1, <3>2, <3>3
  <2>3. CASE first
    <3>1. /\ a.db = [w.db EXCEPT !.category[n] = "own", !.order[n] = e.order]
          /\ a.report = Count(was, id, owned, ~ordered)
          /\ a.ok <=> w.ok /\ w.db.category[n] # "other"
      BY <2>3, <2>0 DEF WithGeneration
    <3>2. /\ a.db.group = w.db.group /\ a.db.platform = w.db.platform /\ a.db.game = w.db.game
          /\ a.db.category = [w.db.category EXCEPT ![n] = "own"]
          /\ a.db.order = [w.db.order EXCEPT ![n] = e.order]
      BY <1>0, <3>1 DEF Databases
    <3>3. /\ a.report.created = IF owned THEN was.created ELSE was.created \cup {id}
          /\ a.report.updated = IF owned /\ ~ordered THEN was.updated \cup {id} ELSE was.updated
          /\ a.report.unchanged = IF owned /\ ordered THEN was.unchanged \cup {id}
                                  ELSE was.unchanged
          /\ a.report.orphaned = was.orphaned /\ a.report.deactivated = was.deactivated
      BY <1>0, <3>1 DEF Count, Reports
    <3>4. owned => a.ok
      BY <3>1
    <3> HIDE DEF owned, ordered, first
    <3> QED  BY <2>1, <2>3, <3>2, <3>3, <3>4
  <2> QED  BY <2>2, <2>3
<1> DEFINE old == w.db.platform[e.slug]
           p == <<"platform", e.slug>>
<1>5. /\ b \in Walks /\ b.report \in Reports
      /\ b.db.group = a.db.group /\ b.db.category = a.db.category /\ b.db.game = a.db.game
      /\ b.db.order = a.db.order
      /\ b.db.platform = [a.db.platform EXCEPT ![e.slug] = RowOf(e)]
      /\ b.report.created = IF old = None THEN a.report.created \cup {p} ELSE a.report.created
      /\ b.report.updated = IF old # None /\ old # RowOf(e) THEN a.report.updated \cup {p}
                                                            ELSE a.report.updated
      /\ b.report.unchanged = IF old # None /\ old = RowOf(e) THEN a.report.unchanged \cup {p}
                                                              ELSE a.report.unchanged
      /\ b.report.orphaned = was.orphaned /\ b.report.deactivated = was.deactivated
      /\ a.ok /\ old = RowOf(e) => b.ok
  <2>1. old = a.db.platform[e.slug]
    BY <1>4
  <2>2. /\ b \in Walks
        /\ b.db = [a.db EXCEPT !.platform[e.slug] = RowOf(e)]
        /\ b.report = Count(a.report, p, old # None, old # RowOf(e))
        /\ a.ok /\ old = RowOf(e) => b.ok
    BY <1>2, <1>4, <2>1, PlatformApplied
  <2>3. a.db \in Databases /\ b.report \in Reports
    BY <1>4, <2>2 DEF Walks
  <2>4. /\ b.db.group = a.db.group /\ b.db.category = a.db.category /\ b.db.game = a.db.game
        /\ b.db.order = a.db.order
        /\ b.db.platform = [a.db.platform EXCEPT ![e.slug] = RowOf(e)]
    BY <2>2, <2>3 DEF Databases
  <2>5. /\ b.report.created = IF old # None THEN a.report.created ELSE a.report.created \cup {p}
        /\ b.report.updated = IF old # None /\ old # RowOf(e) THEN a.report.updated \cup {p}
                                                              ELSE a.report.updated
        /\ b.report.unchanged = IF old # None /\ ~(old # RowOf(e))
                                  THEN a.report.unchanged \cup {p} ELSE a.report.unchanged
        /\ b.report.orphaned = was.orphaned /\ b.report.deactivated = was.deactivated
    BY <1>0, <1>4, <2>2 DEF Count, Reports
  <2> HIDE DEF old, p
  <2> QED  BY <2>2, <2>3, <2>4, <2>5
<1>6. b.db.game = w.db.game
  BY <1>4, <1>5
<1> DEFINE A == {<<"game", k>> : k \in {k \in DOMAIN e.games : w.db.game[k] = None}}
           B == {<<"game", k>> : k \in {k \in DOMAIN e.games :
                    w.db.game[k] # None /\ w.db.game[k] # Desired(e, k)}}
           C == {<<"game", k>> : k \in {k \in DOMAIN e.games :
                    w.db.game[k] # None /\ w.db.game[k] = Desired(e, k)}}
<1>7. /\ v \in Walks /\ v.ok = b.ok
      /\ v.db.group = b.db.group /\ v.db.category = b.db.category
      /\ v.db.order = b.db.order /\ v.db.platform = b.db.platform
      /\ v.db.game = [k \in Keys |-> IF k \in DOMAIN e.games THEN Desired(e, k)
                                                           ELSE w.db.game[k]]
      /\ v.report.created = b.report.created \cup A
      /\ v.report.updated = b.report.updated \cup B
      /\ v.report.unchanged = b.report.unchanged \cup C
      /\ v.report.orphaned = b.report.orphaned
      /\ v.report.deactivated = b.report.deactivated
  BY <1>3, <1>5, <1>6, GamesApplied
<1>8. Entered(v.db, w.db, e)
  BY <1>4, <1>5, <1>7 DEF Entered
<1> HIDE DEF owned, ordered, first
<1>9. \A x : x \in v.report.created <=>
        \/ x \in w.report.created \/ Creates(x, w.db, e)
        \/ CreatesGeneration(x, w.db, e) /\ x \notin Reported(w.report)
  <2>2. \A x : x \in A <=> \E k \in DOMAIN e.games : x = <<"game", k>> /\ w.db.game[k] = None
    OBVIOUS
  <2>3. v.report.created = b.report.created \cup A
    BY <1>7
  <2>4. b.report.created = IF old = None THEN a.report.created \cup {p} ELSE a.report.created
    BY <1>5
  <2>5. a.report.created = IF first /\ ~owned THEN was.created \cup {id} ELSE was.created
    BY <1>4
  <2> HIDE DEF A
  <2> QED  BY <2>2, <2>3, <2>4, <2>5 DEF Creates, CreatesGeneration, owned, first
<1>10. \A x : x \in v.report.updated <=>
         \/ x \in w.report.updated \/ Updates(x, w.db, e)
         \/ UpdatesGeneration(x, w.db, e) /\ x \notin Reported(w.report)
  <2>2. \A x : x \in B <=> \E k \in DOMAIN e.games :
                x = <<"game", k>> /\ w.db.game[k] # None /\ w.db.game[k] # Desired(e, k)
    OBVIOUS
  <2>3. v.report.updated = b.report.updated \cup B
    BY <1>7
  <2>4. b.report.updated = IF old # None /\ old # RowOf(e) THEN a.report.updated \cup {p}
                                                          ELSE a.report.updated
    BY <1>5
  <2>5. a.report.updated = IF first /\ owned /\ ~ordered THEN was.updated \cup {id}
                                                      ELSE was.updated
    BY <1>4
  <2> HIDE DEF B
  <2> QED  BY <2>2, <2>3, <2>4, <2>5 DEF Updates, UpdatesGeneration, owned, ordered, first
<1>11. \A x : x \in v.report.unchanged <=>
         \/ x \in w.report.unchanged \/ Leaves(x, w.db, e)
         \/ LeavesGeneration(x, w.db, e) /\ x \notin Reported(w.report)
  <2>2. \A x : x \in C <=> \E k \in DOMAIN e.games :
                x = <<"game", k>> /\ w.db.game[k] # None /\ w.db.game[k] = Desired(e, k)
    OBVIOUS
  <2>3. v.report.unchanged = b.report.unchanged \cup C
    BY <1>7
  <2>4. b.report.unchanged = IF old # None /\ old = RowOf(e) THEN a.report.unchanged \cup {p}
                                                            ELSE a.report.unchanged
    BY <1>5
  <2>5. a.report.unchanged = IF first /\ owned /\ ordered THEN was.unchanged \cup {id}
                                                       ELSE was.unchanged
    BY <1>4
  <2> HIDE DEF C
  <2> QED  BY <2>2, <2>3, <2>4, <2>5 DEF Leaves, LeavesGeneration, owned, ordered, first
<1>12. owned /\ old = RowOf(e) => v.ok
  BY <1>4, <1>5, <1>7
<1> QED  BY <1>5, <1>7, <1>8, <1>9, <1>10, <1>11, <1>12 DEF owned

-----------------------------------------------------------------------------
(* The walk of a catalogue, by induction over its entries.                  *)

\* The rows b after the first i entries, from the rows d.
RowsTo(b, d, cat, i) ==
  /\ b.group = "retro"
  /\ \A n \in Generations :
       b.category[n] = IF \E j \in 1 .. i : cat[j].generation = n THEN "own" ELSE d.category[n]
  /\ \A j \in 1 .. i :
       /\ b.platform[cat[j].slug] = RowOf(cat[j])
       /\ \A k \in DOMAIN cat[j].games : b.game[k] = Desired(cat[j], k)
  /\ \A s \in Slugs : (\A j \in 1 .. i : cat[j].slug # s) => b.platform[s] = d.platform[s]
  /\ \A k \in Keys :
       (\A j \in 1 .. i : k \notin DOMAIN cat[j].games) => b.game[k] = d.game[k]

\* The order of each generation is the one of the last of the first i
\* entries with its name, if there is one.
OrdersTo(b, d, cat, i) ==
  \A n \in Generations :
    \/ /\ \A j \in 1 .. i : cat[j].generation # n
       /\ b.order[n] = d.order[n]
    \/ \E l \in 1 .. i : /\ cat[l].generation = n /\ b.order[n] = cat[l].order
                         /\ \A j \in l + 1 .. i : cat[j].generation # n

\* The report after the first i entries: what each of them says of d, but
\* that the generations in "again" were always updated.
Told(r, d, cat, i, again) ==
  /\ \A x : x \in r.created <=>
       \/ x = <<"group">> /\ d.group = "absent"
       \/ \E j \in 1 .. i : Creates(x, d, cat[j])
                            \/ (CreatesGeneration(x, d, cat[j]) /\ x \notin again)
  /\ \A x : x \in r.updated <=>
       \/ x = <<"group">> /\ d.group = "plain"
       \/ \E j \in 1 .. i : Updates(x, d, cat[j])
                            \/ UpdatesGeneration(x, d, cat[j])
                            \/ (x = Generation(cat[j]) /\ x \in again)
  /\ \A x : x \in r.unchanged <=>
       \/ x = <<"group">> /\ d.group = "retro"
       \/ \E j \in 1 .. i : Leaves(x, d, cat[j])
                            \/ (LeavesGeneration(x, d, cat[j]) /\ x \notin again)
  /\ r.orphaned = {} /\ r.deactivated = {}

\* The kinds of identities differ.
LEMMA Kinds ==
  ASSUME NEW o, NEW s, NEW k
  PROVE  /\ <<"generation", o>> # <<"group">>
         /\ <<"generation", o>> # <<"platform", s>>
         /\ <<"generation", o>> # <<"game", k>>
<1>1. <<"generation", o>> # <<"group">>
  <2>1. Len(<<"generation", o>>) = 2 /\ Len(<<"group">>) = 1
    OBVIOUS
  <2> QED  BY <2>1
<1>2. <<"generation", o>>[1] = "generation" /\ <<"platform", s>>[1] = "platform"
      /\ <<"game", k>>[1] = "game"
  OBVIOUS
<1> QED  BY <1>1, <1>2

LEMMA NotGenerations ==
  ASSUME NEW d, NEW e, NEW f
  PROVE  /\ ~Creates(Generation(f), d, e) /\ ~Updates(Generation(f), d, e)
         /\ ~Leaves(Generation(f), d, e) /\ Generation(f) # <<"group">>
BY Kinds DEF Creates, Updates, Leaves, Generation

LEMMA FirstState ==
  ASSUME NEW d \in Databases, NEW cat, NEW v, v = ApplyGroup(d), NEW again
  PROVE  /\ v \in Walks /\ v.ok
         /\ RowsTo(v.db, d, cat, 0) /\ OrdersTo(v.db, d, cat, 0)
         /\ Told(v.report, d, cat, 0, again)
<1>1. /\ v \in Walks /\ v.ok
      /\ v.db.group = "retro" /\ v.db.category = d.category /\ v.db.order = d.order
      /\ v.db.platform = d.platform /\ v.db.game = d.game
      /\ v.report = Count(Report, <<"group">>, d.group # "absent", d.group # "retro")
  BY GroupApplied
<1>2. d.group \in {"absent", "plain", "retro"}
  BY DEF Databases
<1>3. /\ \A x : x \in v.report.created <=> x = <<"group">> /\ d.group = "absent"
      /\ \A x : x \in v.report.updated <=> x = <<"group">> /\ d.group = "plain"
      /\ \A x : x \in v.report.unchanged <=> x = <<"group">> /\ d.group = "retro"
      /\ v.report.orphaned = {} /\ v.report.deactivated = {}
  BY <1>1, <1>2 DEF Count, Report
<1>4. Told(v.report, d, cat, 0, again)
  BY <1>3 DEF Told
<1>5. RowsTo(v.db, d, cat, 0) /\ OrdersTo(v.db, d, cat, 0)
  BY <1>1 DEF RowsTo, OrdersTo
<1> QED  BY <1>1, <1>4, <1>5

\* The generations reported so far are those of the entries so far.
LEMMA ReportedTo ==
  ASSUME NEW r, NEW d, NEW cat, NEW i, NEW again, Told(r, d, cat, i, again), NEW f
  PROVE  Generation(f) \in Reported(r) <=> \E j \in 1 .. i : Generation(cat[j]) = Generation(f)
<1> DEFINE id == Generation(f)
<1>1. /\ \A e : ~Creates(id, d, e) /\ ~Updates(id, d, e) /\ ~Leaves(id, d, e)
      /\ id # <<"group">>
  BY NotGenerations
<1> HIDE DEF id
<1>2. id \in r.created <=>
        \E j \in 1 .. i : CreatesGeneration(id, d, cat[j]) /\ id \notin again
  BY <1>1 DEF Told
<1>3. id \in r.updated <=>
        \E j \in 1 .. i : UpdatesGeneration(id, d, cat[j]) \/ (id = Generation(cat[j]) /\ id \in again)
  BY <1>1 DEF Told
<1>4. id \in r.unchanged <=>
        \E j \in 1 .. i : LeavesGeneration(id, d, cat[j]) /\ id \notin again
  BY <1>1 DEF Told
<1>5. \A j \in 1 .. i :
        id = Generation(cat[j]) <=> \/ CreatesGeneration(id, d, cat[j])
                                   \/ UpdatesGeneration(id, d, cat[j])
                                   \/ LeavesGeneration(id, d, cat[j])
  BY DEF CreatesGeneration, UpdatesGeneration, LeavesGeneration
<1> QED  BY <1>2, <1>3, <1>4, <1>5 DEF Reported, id

\* So the row of a generation that was reported is as it was written.
LEMMA StaysWritten ==
  ASSUME NEW d \in Databases, NEW cat \in Seq(Entries), Valid(cat),
         NEW i \in 0 .. Len(cat) - 1, NEW w \in Walks, NEW again,
         RowsTo(w.db, d, cat, i), OrdersTo(w.db, d, cat, i), Told(w.report, d, cat, i, again)
  PROVE  Written(w, cat[i + 1])
<1> DEFINE e == cat[i + 1]
<1>1. SUFFICES ASSUME Generation(e) \in Reported(w.report)
               PROVE  w.db.category[e.generation] = "own" /\ w.db.order[e.generation] = e.order
  BY DEF Written
<1>2. PICK j \in 1 .. i : Generation(cat[j]) = Generation(e)
  BY <1>1, ReportedTo
<1>3. cat[j].order = e.order
  BY <1>2 DEF Generation
<1>4. /\ e \in Entries /\ j \in DOMAIN cat /\ i + 1 \in DOMAIN cat /\ i \in j .. i + 1
      /\ i + 1 \in j .. i + 1 /\ i \in 1 .. i
  OBVIOUS
<1>5. \A k \in j .. i + 1 : cat[k].order = cat[j].order /\ cat[k].generation = cat[j].generation
  BY <1>3, <1>4 DEF Valid
<1>6. cat[i].order = e.order /\ cat[i].generation = e.generation
  BY <1>4, <1>5
<1>7. e.generation \in Generations
  BY <1>4, EntryTypes
<1>8. w.db.category[e.generation] = "own"
  BY <1>4, <1>6, <1>7 DEF RowsTo
<1>9. PICK l \in 1 .. i : /\ w.db.order[e.generation] = cat[l].order
                         /\ \A k \in l + 1 .. i : cat[k].generation # e.generation
  BY <1>4, <1>6, <1>7 DEF OrdersTo
<1>10. l = i
  BY <1>4, <1>6, <1>9
<1> QED  BY <1>6, <1>8, <1>9, <1>10

\* One more entry, in the rows and in the report.
LEMMA RowsOfNext ==
  ASSUME NEW d \in Databases, NEW cat \in Seq(Entries), Valid(cat),
         NEW i \in 0 .. Len(cat) - 1, NEW c \in Databases, NEW b \in Databases,
         RowsTo(c, d, cat, i), Entered(b, c, cat[i + 1])
  PROVE  RowsTo(b, d, cat, i + 1)
<1> DEFINE e == cat[i + 1]
<1>1. /\ e \in Entries /\ DOMAIN cat = 1 .. Len(cat) /\ i + 1 \in 1 .. Len(cat)
      /\ \A j \in 1 .. i : j \in DOMAIN cat /\ j # i + 1 /\ cat[j] \in Entries
      /\ \A j \in 1 .. i + 1 : j \in 1 .. i \/ j = i + 1
      /\ \A j \in 1 .. i : j \in 1 .. i + 1
      /\ i + 1 \in 1 .. i + 1
  OBVIOUS
<1>2. /\ e.slug \in Slugs /\ DOMAIN e.games \subseteq Keys /\ e.generation \in Generations
      /\ \A j \in 1 .. i : cat[j].slug \in Slugs /\ DOMAIN cat[j].games \subseteq Keys
  BY <1>1, EntryTypes
<1>3. \A j \in 1 .. i : cat[j].slug # e.slug /\ DOMAIN cat[j].games \cap DOMAIN e.games = {}
  BY <1>1 DEF Valid
<1>4. /\ c.category \in [Generations -> {"none", "own", "other"}]
      /\ c.platform \in [Slugs -> Platforms \cup {None}]
  BY DEF Databases
<1>5. /\ b.group = c.group
      /\ b.category = [c.category EXCEPT ![e.generation] = "own"]
      /\ b.platform = [c.platform EXCEPT ![e.slug] = RowOf(e)]
      /\ b.game = [k \in Keys |-> IF k \in DOMAIN e.games THEN Desired(e, k) ELSE c.game[k]]
  BY DEF Entered
<1> HIDE DEF e
<1>6. ASSUME NEW n \in Generations
      PROVE  b.category[n] = IF \E j \in 1 .. i + 1 : cat[j].generation = n THEN "own"
                                                                         ELSE d.category[n]
  BY <1>1, <1>2, <1>4, <1>5 DEF RowsTo, e
<1>7. ASSUME NEW j \in 1 .. i + 1
      PROVE  /\ b.platform[cat[j].slug] = RowOf(cat[j])
             /\ \A k \in DOMAIN cat[j].games : b.game[k] = Desired(cat[j], k)
  <2>1. CASE j = i + 1
    <3>1. cat[j] = e
      BY <2>1 DEF e
    <3> QED  BY <1>2, <1>4, <1>5, <3>1
  <2>2. CASE j \in 1 .. i
    <3>1. c.platform[cat[j].slug] = RowOf(cat[j])
      BY <2>2 DEF RowsTo
    <3>2. \A k \in DOMAIN cat[j].games : c.game[k] = Desired(cat[j], k)
      BY <2>2 DEF RowsTo
    <3> QED  BY <1>2, <1>3, <1>4, <1>5, <2>2, <3>1, <3>2
  <2> QED  BY <1>1, <2>1, <2>2
<1>8. ASSUME NEW s \in Slugs, \A j \in 1 .. i + 1 : cat[j].slug # s
      PROVE  b.platform[s] = d.platform[s]
  <2>1. s # e.slug /\ \A j \in 1 .. i : cat[j].slug # s
    BY <1>1, <1>8 DEF e
  <2> QED  BY <1>4, <1>5, <2>1 DEF RowsTo
<1>9. ASSUME NEW k \in Keys, \A j \in 1 .. i + 1 : k \notin DOMAIN cat[j].games
      PROVE  b.game[k] = d.game[k]
  <2>1. k \notin DOMAIN e.games /\ \A j \in 1 .. i : k \notin DOMAIN cat[j].games
    BY <1>1, <1>9 DEF e
  <2> QED  BY <1>5, <2>1 DEF RowsTo
<1>10. b.group = "retro"
  BY <1>5 DEF RowsTo
<1> QED  BY <1>6, <1>7, <1>8, <1>9, <1>10 DEF RowsTo

LEMMA OrdersOfNext ==
  ASSUME NEW d \in Databases, NEW cat \in Seq(Entries),
         NEW i \in 0 .. Len(cat) - 1, NEW c \in Databases, NEW b,
         OrdersTo(c, d, cat, i), Entered(b, c, cat[i + 1])
  PROVE  OrdersTo(b, d, cat, i + 1)
<1> DEFINE e == cat[i + 1]
<1>1. /\ e \in Entries /\ i + 1 \in 1 .. i + 1
      /\ \A j \in 1 .. i + 1 : j \in 1 .. i \/ j = i + 1
      /\ \A j \in 1 .. i : j \in 1 .. i + 1
      /\ \A l \in 1 .. i : \A j \in l + 1 .. i + 1 : j \in l + 1 .. i \/ j = i + 1
  OBVIOUS
<1>2. e.generation \in Generations
  BY <1>1, EntryTypes
<1>3. /\ b.order = [c.order EXCEPT ![e.generation] = e.order]
      /\ c.order \in [Generations -> Orders \cup {None}]
  BY DEF Entered, Databases
<1>4. SUFFICES ASSUME NEW n \in Generations
      PROVE  \/ /\ \A j \in 1 .. i + 1 : cat[j].generation # n
                /\ b.order[n] = d.order[n]
             \/ \E l \in 1 .. i + 1 : /\ cat[l].generation = n /\ b.order[n] = cat[l].order
                                      /\ \A j \in l + 1 .. i + 1 : cat[j].generation # n
  BY DEF OrdersTo
<1>5. CASE n = e.generation
  <2>1. b.order[n] = e.order /\ \A j \in (i + 1) + 1 .. i + 1 : FALSE
    BY <1>2, <1>3, <1>5
  <2> QED  BY <1>1, <1>5, <2>1
<1>6. CASE n # e.generation
  <2>1. b.order[n] = c.order[n]
    BY <1>3, <1>6
  <2>2. CASE (\A j \in 1 .. i : cat[j].generation # n) /\ c.order[n] = d.order[n]
    BY <1>1, <1>6, <2>1, <2>2
  <2>3. CASE \E l \in 1 .. i : /\ cat[l].generation = n /\ c.order[n] = cat[l].order
                              /\ \A j \in l + 1 .. i : cat[j].generation # n
    BY <1>1, <1>6, <2>1, <2>3
  <2> QED  BY <2>2, <2>3 DEF OrdersTo
<1> QED  BY <1>5, <1>6

\* What the next generation says of the rows of the walk, and of those the
\* walk began with.
LEMMA GenerationOfNext ==
  ASSUME NEW d \in Databases, NEW cat \in Seq(Entries), Valid(cat),
         NEW i \in 0 .. Len(cat) - 1, NEW c \in Databases,
         RowsTo(c, d, cat, i), OrdersTo(c, d, cat, i),
         \A j \in 1 .. i : cat[j].order # cat[i + 1].order
  PROVE  LET id == Generation(cat[i + 1]) again == RepeatsName(cat) IN
         /\ CreatesGeneration(id, c, cat[i + 1])
              <=> CreatesGeneration(id, d, cat[i + 1]) /\ id \notin again
         /\ UpdatesGeneration(id, c, cat[i + 1])
              <=> UpdatesGeneration(id, d, cat[i + 1]) \/ id \in again
         /\ LeavesGeneration(id, c, cat[i + 1])
              <=> LeavesGeneration(id, d, cat[i + 1]) /\ id \notin again
<1> DEFINE e == cat[i + 1]
           n == e.generation
           id == Generation(e)
<1>1. /\ e \in Entries /\ DOMAIN cat = 1 .. Len(cat) /\ i + 1 \in DOMAIN cat
      /\ \A j \in 1 .. i : j \in 1 .. (i + 1) - 1
  OBVIOUS
<1>2. n \in Generations
  BY <1>1, EntryTypes
<1>3. CASE \E j \in 1 .. i : cat[j].generation = n
  <2>1. c.category[n] = "own"
    BY <1>2, <1>3 DEF RowsTo
  <2>2. c.order[n] # e.order
    BY <1>2, <1>3 DEF OrdersTo
  <2>3. id \in RepeatsName(cat)
    BY <1>1, <1>3 DEF RepeatsName
  <2> QED  BY <2>1, <2>2, <2>3 DEF CreatesGeneration, UpdatesGeneration, LeavesGeneration
<1>4. CASE \A j \in 1 .. i : cat[j].generation # n
  <2>1. c.category[n] = d.category[n] /\ c.order[n] = d.order[n]
    BY <1>2, <1>4 DEF RowsTo, OrdersTo
  <2>2. id \notin RepeatsName(cat)
    <3>1. SUFFICES ASSUME id \in RepeatsName(cat) PROVE FALSE
      OBVIOUS
    <3>2. PICK m \in DOMAIN cat : /\ id = Generation(cat[m])
                                 /\ \E j \in 1 .. m - 1 : /\ cat[j].generation = cat[m].generation
                                                         /\ cat[j].order # cat[m].order
      BY <3>1 DEF RepeatsName
    <3>3. PICK j \in 1 .. m - 1 : /\ cat[j].generation = cat[m].generation
                                 /\ cat[j].order # cat[m].order
      BY <3>2
    <3>4. cat[m].order = e.order
      BY <3>2 DEF Generation
    <3>5. m \in i + 1 .. Len(cat) /\ m \in i + 1 .. m
      BY <1>1, <3>4
    <3>6. \A k \in i + 1 .. m : cat[k].order = e.order /\ cat[k].generation = n
      BY <1>1, <3>4 DEF Valid
    <3>7. cat[m].generation = n
      BY <3>5, <3>6
    <3>8. j \in 1 .. i \/ j \in i + 1 .. m
      BY <3>5
    <3> QED  BY <1>4, <3>3, <3>4, <3>6, <3>7, <3>8
  <2>3. c.category[n] \in {"none", "own", "other"}
    BY <1>2 DEF Databases
  <2>4. /\ CreatesGeneration(id, c, e) <=> CreatesGeneration(id, d, e)
        /\ UpdatesGeneration(id, c, e) <=> UpdatesGeneration(id, d, e)
        /\ LeavesGeneration(id, c, e) <=> LeavesGeneration(id, d, e)
    BY <2>1 DEF CreatesGeneration, UpdatesGeneration, LeavesGeneration
  <2> QED  BY <2>2, <2>4
<1> QED  BY <1>3, <1>4

LEMMA ReportOfNext ==
  ASSUME NEW d \in Databases, NEW cat \in Seq(Entries), Valid(cat),
         NEW i \in 0 .. Len(cat) - 1, NEW w \in Walks, w.ok,
         RowsTo(w.db, d, cat, i), OrdersTo(w.db, d, cat, i),
         NEW again, again = RepeatsName(cat), Told(w.report, d, cat, i, again),
         NEW v, v = ApplyEntry(w, cat[i + 1])
  PROVE  Told(v.report, d, cat, i + 1, again)
<1> DEFINE e == cat[i + 1]
           id == Generation(e)
           seen == id \in Reported(w.report)
<1>1. /\ e \in Entries /\ DOMAIN cat = 1 .. Len(cat) /\ i + 1 \in 1 .. Len(cat)
      /\ \A j \in 1 .. i : j \in DOMAIN cat /\ j # i + 1 /\ cat[j] \in Entries
      /\ \A j \in 1 .. i + 1 : j \in 1 .. i \/ j = i + 1
      /\ \A j \in 1 .. i : j \in 1 .. i + 1
      /\ i + 1 \in 1 .. i + 1
  OBVIOUS
<1>2. e.slug \in Slugs /\ DOMAIN e.games \subseteq Keys
  BY <1>1, EntryTypes
<1>3. \A j \in 1 .. i : cat[j].slug # e.slug /\ DOMAIN cat[j].games \cap DOMAIN e.games = {}
  BY <1>1 DEF Valid
<1>4. /\ w.db.platform[e.slug] = d.platform[e.slug]
      /\ \A k \in DOMAIN e.games : w.db.game[k] = d.game[k]
  <2>1. w.db.platform[e.slug] = d.platform[e.slug]
    BY <1>2, <1>3 DEF RowsTo
  <2>2. \A k \in DOMAIN e.games : w.db.game[k] = d.game[k]
    BY <1>2, <1>3 DEF RowsTo
  <2> QED  BY <2>1, <2>2
<1>5. Written(w, e)
  BY StaysWritten
<1>6. /\ \A x : x \in v.report.created <=>
           \/ x \in w.report.created \/ Creates(x, w.db, e)
           \/ CreatesGeneration(x, w.db, e) /\ x \notin Reported(w.report)
      /\ \A x : x \in v.report.updated <=>
           \/ x \in w.report.updated \/ Updates(x, w.db, e)
           \/ UpdatesGeneration(x, w.db, e) /\ x \notin Reported(w.report)
      /\ \A x : x \in v.report.unchanged <=>
           \/ x \in w.report.unchanged \/ Leaves(x, w.db, e)
           \/ LeavesGeneration(x, w.db, e) /\ x \notin Reported(w.report)
      /\ v.report.orphaned = w.report.orphaned
      /\ v.report.deactivated = w.report.deactivated
  BY <1>1, <1>5, EntryApplied
<1>7. \A x : /\ Creates(x, w.db, e) <=> Creates(x, d, e)
             /\ Updates(x, w.db, e) <=> Updates(x, d, e)
             /\ Leaves(x, w.db, e) <=> Leaves(x, d, e)
  BY <1>4 DEF Creates, Updates, Leaves
<1>8. \A x, c : CreatesGeneration(x, c, e) \/ UpdatesGeneration(x, c, e) \/ LeavesGeneration(x, c, e)
                => x = id
  BY DEF CreatesGeneration, UpdatesGeneration, LeavesGeneration
\* A generation that was seen is one of those before.
<1>9. seen => \E j \in 1 .. i :
        /\ id = Generation(cat[j])
        /\ CreatesGeneration(id, d, e) <=> CreatesGeneration(id, d, cat[j])
        /\ UpdatesGeneration(id, d, e) <=> UpdatesGeneration(id, d, cat[j])
        /\ LeavesGeneration(id, d, e) <=> LeavesGeneration(id, d, cat[j])
  <2>1. SUFFICES ASSUME seen
        PROVE  \E j \in 1 .. i : cat[j].order = e.order /\ cat[j].generation = e.generation
    BY DEF CreatesGeneration, UpdatesGeneration, LeavesGeneration, Generation
  <2>2. PICK j \in 1 .. i : Generation(cat[j]) = id
    BY <2>1, ReportedTo
  <2>3. cat[j].order = e.order
    BY <2>2 DEF Generation
  <2>4. j \in DOMAIN cat /\ i + 1 \in DOMAIN cat /\ i + 1 \in j .. i + 1
    BY <1>1
  <2>5. e.generation = cat[j].generation
    BY <2>3, <2>4 DEF Valid
  <2> QED  BY <2>3, <2>5
\* And one that was not says what it says of the rows of the walk.
<1>10. ~seen =>
         /\ CreatesGeneration(id, w.db, e) <=> CreatesGeneration(id, d, e) /\ id \notin again
         /\ UpdatesGeneration(id, w.db, e) <=> UpdatesGeneration(id, d, e) \/ id \in again
         /\ LeavesGeneration(id, w.db, e) <=> LeavesGeneration(id, d, e) /\ id \notin again
  <2>1. SUFFICES ASSUME ~seen
        PROVE /\ CreatesGeneration(id, w.db, e) <=> CreatesGeneration(id, d, e) /\ id \notin again
              /\ UpdatesGeneration(id, w.db, e) <=> UpdatesGeneration(id, d, e) \/ id \in again
              /\ LeavesGeneration(id, w.db, e) <=> LeavesGeneration(id, d, e) /\ id \notin again
    OBVIOUS
  <2>2. \A j \in 1 .. i : cat[j].order # e.order
    <3>1. \A j \in 1 .. i : Generation(cat[j]) # id
      BY <2>1, ReportedTo
    <3> QED  BY <3>1 DEF Generation
  <2>3. w.db \in Databases
    BY DEF Walks
  <2> QED  BY <2>2, <2>3, GenerationOfNext
<1> DEFINE C(x, f) == Creates(x, d, f) \/ (CreatesGeneration(x, d, f) /\ x \notin again)
           U(x, f) == Updates(x, d, f) \/ UpdatesGeneration(x, d, f)
                        \/ (x = Generation(f) /\ x \in again)
           L(x, f) == Leaves(x, d, f) \/ (LeavesGeneration(x, d, f) /\ x \notin again)
<1>11. /\ \A x : x \in w.report.created <=>
            (x = <<"group">> /\ d.group = "absent") \/ \E j \in 1 .. i : C(x, cat[j])
       /\ \A x : x \in w.report.updated <=>
            (x = <<"group">> /\ d.group = "plain") \/ \E j \in 1 .. i : U(x, cat[j])
       /\ \A x : x \in w.report.unchanged <=>
            (x = <<"group">> /\ d.group = "retro") \/ \E j \in 1 .. i : L(x, cat[j])
  BY DEF Told
<1>12. \A x : x \in v.report.created <=> x \in w.report.created \/ C(x, e)
  <2>1. SUFFICES ASSUME NEW x
        PROVE  x \in v.report.created <=> x \in w.report.created \/ C(x, e)
    OBVIOUS
  <2>2. CASE x # id
    BY <1>6, <1>7, <1>8, <2>2
  <2>3. CASE x = id /\ seen
    <3>1. CreatesGeneration(x, d, e) /\ x \notin again => x \in w.report.created
      BY <1>9, <1>11, <2>3
    <3>2. x \in v.report.created <=> x \in w.report.created \/ Creates(x, d, e)
      BY <1>6, <1>7, <2>3
    <3> QED  BY <3>1, <3>2
  <2>4. CASE x = id /\ ~seen
    <3>1. x \in v.report.created <=>
            x \in w.report.created \/ Creates(x, d, e) \/ CreatesGeneration(x, w.db, e)
      BY <1>6, <1>7, <2>4
    <3> QED  BY <1>10, <2>4, <3>1
  <2> QED  BY <2>2, <2>3, <2>4
<1>13. \A x : x \in v.report.updated <=> x \in w.report.updated \/ U(x, e)
  <2>1. SUFFICES ASSUME NEW x
        PROVE  x \in v.report.updated <=> x \in w.report.updated \/ U(x, e)
    OBVIOUS
  <2>2. CASE x # id
    BY <1>6, <1>7, <1>8, <2>2
  <2>3. CASE x = id /\ seen
    <3>1. UpdatesGeneration(x, d, e) \/ x \in again => x \in w.report.updated
      BY <1>9, <1>11, <2>3
    <3>2. x \in v.report.updated <=> x \in w.report.updated \/ Updates(x, d, e)
      BY <1>6, <1>7, <2>3
    <3> QED  BY <3>1, <3>2
  <2>4. CASE x = id /\ ~seen
    <3>1. x \in v.report.updated <=>
            x \in w.report.updated \/ Updates(x, d, e) \/ UpdatesGeneration(x, w.db, e)
      BY <1>6, <1>7, <2>4
    <3> QED  BY <1>10, <2>4, <3>1
  <2> QED  BY <2>2, <2>3, <2>4
<1>14. \A x : x \in v.report.unchanged <=> x \in w.report.unchanged \/ L(x, e)
  <2>1. SUFFICES ASSUME NEW x
        PROVE  x \in v.report.unchanged <=> x \in w.report.unchanged \/ L(x, e)
    OBVIOUS
  <2>2. CASE x # id
    BY <1>6, <1>7, <1>8, <2>2
  <2>3. CASE x = id /\ seen
    <3>1. LeavesGeneration(x, d, e) /\ x \notin again => x \in w.report.unchanged
      BY <1>9, <1>11, <2>3
    <3>2. x \in v.report.unchanged <=> x \in w.report.unchanged \/ Leaves(x, d, e)
      BY <1>6, <1>7, <2>3
    <3> QED  BY <3>1, <3>2
  <2>4. CASE x = id /\ ~seen
    <3>1. x \in v.report.unchanged <=>
            x \in w.report.unchanged \/ Leaves(x, d, e) \/ LeavesGeneration(x, w.db, e)
      BY <1>6, <1>7, <2>4
    <3> QED  BY <1>10, <2>4, <3>1
  <2> QED  BY <2>2, <2>3, <2>4
<1>15. v.report.orphaned = {} /\ v.report.deactivated = {}
  BY <1>6 DEF Told
<1> HIDE DEF C, U, L, e, id, seen
<1>16. /\ \A x : x \in v.report.created <=>
            (x = <<"group">> /\ d.group = "absent") \/ \E j \in 1 .. i + 1 : C(x, cat[j])
       /\ \A x : x \in v.report.updated <=>
            (x = <<"group">> /\ d.group = "plain") \/ \E j \in 1 .. i + 1 : U(x, cat[j])
       /\ \A x : x \in v.report.unchanged <=>
            (x = <<"group">> /\ d.group = "retro") \/ \E j \in 1 .. i + 1 : L(x, cat[j])
  <2>1. \A x : /\ (\E j \in 1 .. i + 1 : C(x, cat[j])) <=> (\E j \in 1 .. i : C(x, cat[j])) \/ C(x, e)
               /\ (\E j \in 1 .. i + 1 : U(x, cat[j])) <=> (\E j \in 1 .. i : U(x, cat[j])) \/ U(x, e)
               /\ (\E j \in 1 .. i + 1 : L(x, cat[j])) <=> (\E j \in 1 .. i : L(x, cat[j])) \/ L(x, e)
    BY <1>1 DEF e
  <2> QED  BY <1>11, <1>12, <1>13, <1>14, <2>1
<1> QED  BY <1>15, <1>16 DEF Told, C, U, L

\* What the whole walk leaves, unless the database refuses something.
LEMMA WalkOutcome ==
  ASSUME NEW d \in Databases, NEW cat \in Seq(Entries), Valid(cat), NEW r, r = Walk(d, cat)
  PROVE  /\ r \in Walks
         /\ r.ok => /\ RowsTo(r.db, d, cat, Len(cat)) /\ OrdersTo(r.db, d, cat, Len(cat))
                    /\ Told(r.report, d, cat, Len(cat), RepeatsName(cat))
         \* Rows that hold the platforms of the catalogue are not refused.
         /\ (\A j \in 1 .. Len(cat) : /\ d.category[cat[j].generation] = "own"
                                      /\ d.platform[cat[j].slug] = RowOf(cat[j])) => r.ok
<1>1. Len(cat) \in Nat
  OBVIOUS
<1>2. PICK w : WalkedTo(w, d, cat, Len(cat)) /\ Walk(d, cat) = w[Len(cat)]
  BY <1>1, WalkSteps
<1> DEFINE again == RepeatsName(cat)
           held == \A j \in 1 .. Len(cat) : /\ d.category[cat[j].generation] = "own"
                                           /\ d.platform[cat[j].slug] = RowOf(cat[j])
           Right(i) == /\ w[i] \in Walks
                       /\ w[i].ok => /\ RowsTo(w[i].db, d, cat, i) /\ OrdersTo(w[i].db, d, cat, i)
                                     /\ Told(w[i].report, d, cat, i, again)
                       /\ held => w[i].ok
           T == {i \in 0 .. Len(cat) : Right(i)}
<1> HIDE DEF again, held
<1>3. 0 \in T
  <2>1. w[0] = ApplyGroup(d)
    BY <1>2 DEF WalkedTo
  <2>2. /\ w[0] \in Walks /\ w[0].ok
        /\ RowsTo(w[0].db, d, cat, 0) /\ OrdersTo(w[0].db, d, cat, 0)
    BY <2>1, FirstState
  <2>3. Told(w[0].report, d, cat, 0, again)
    BY <2>1, FirstState
  <2>4. 0 \in 0 .. Len(cat)
    BY <1>1
  <2> QED  BY <2>2, <2>3, <2>4
<1>4. ASSUME NEW i \in 0 .. Len(cat) - 1, i \in T  PROVE i + 1 \in T
  <2>1. /\ w[i + 1] = ApplyEntry(w[i], cat[i + 1]) /\ cat[i + 1] \in Entries
        /\ i + 1 \in 0 .. Len(cat) /\ i + 1 \in 1 .. Len(cat) /\ w[i] \in Walks
        /\ held => w[i].ok
    <3>1. i + 1 \in 1 .. Len(cat) /\ (i + 1) - 1 = i
      OBVIOUS
    <3> QED  BY <1>2, <1>4, <3>1 DEF WalkedTo
  <2>2. CASE ~w[i].ok
    <3>1. w[i + 1] = w[i]
      BY <2>1, <2>2 DEF ApplyEntry
    <3> QED  BY <2>1, <2>2, <3>1
  <2>3. CASE w[i].ok
    <3>1. /\ RowsTo(w[i].db, d, cat, i) /\ OrdersTo(w[i].db, d, cat, i)
          /\ Told(w[i].report, d, cat, i, again)
      BY <1>4, <2>3
    <3>2. Written(w[i], cat[i + 1])
      BY <2>1, <3>1, StaysWritten
    <3>3. /\ w[i + 1] \in Walks /\ Entered(w[i + 1].db, w[i].db, cat[i + 1])
          /\ w[i].db.category[cat[i + 1].generation] = "own"
               /\ w[i].db.platform[cat[i + 1].slug] = RowOf(cat[i + 1]) => w[i + 1].ok
      BY <2>1, <2>3, <3>2, EntryApplied
    <3>4. w[i].db \in Databases /\ w[i + 1].db \in Databases
      BY <2>1, <3>3 DEF Walks
    <3>5. RowsTo(w[i + 1].db, d, cat, i + 1) /\ OrdersTo(w[i + 1].db, d, cat, i + 1)
      BY <3>1, <3>3, <3>4, RowsOfNext, OrdersOfNext
    <3>6. Told(w[i + 1].report, d, cat, i + 1, again)
      BY <2>1, <2>3, <3>1, ReportOfNext DEF again
    <3>7. held => w[i + 1].ok
      <4>1. SUFFICES ASSUME held PROVE w[i + 1].ok
        OBVIOUS
      <4>2. cat[i + 1].generation \in Generations /\ cat[i + 1].slug \in Slugs
        BY <2>1, EntryTypes
      <4>3. \A j \in 1 .. i : cat[j].slug # cat[i + 1].slug
        BY <2>1 DEF Valid
      <4>4. /\ d.category[cat[i + 1].generation] = "own"
            /\ d.platform[cat[i + 1].slug] = RowOf(cat[i + 1])
        BY <2>1, <4>1 DEF held
      <4>5. w[i].db.category[cat[i + 1].generation] = "own"
        BY <3>1, <4>2, <4>4 DEF RowsTo
      <4>6. w[i].db.platform[cat[i + 1].slug] = RowOf(cat[i + 1])
        BY <3>1, <4>2, <4>3, <4>4 DEF RowsTo
      <4> QED  BY <3>3, <4>5, <4>6
    <3> QED  BY <2>1, <3>3, <3>5, <3>6, <3>7
  <2> QED  BY <2>2, <2>3
<1>5. Len(cat) \in T
  <2> HIDE DEF T
  <2> QED  BY <1>1, <1>3, <1>4, UpTo
<1> QED  BY <1>2, <1>5 DEF again, held

\* The rows hold what the catalogue says, the last generation of a name its
\* order.
InPlace(d, cat) ==
  /\ d.group = "retro"
  /\ \A j \in 1 .. Len(cat) :
       /\ d.category[cat[j].generation] = "own"
       /\ d.platform[cat[j].slug] = RowOf(cat[j])
       /\ \A k \in DOMAIN cat[j].games : d.game[k] = Desired(cat[j], k)
       /\ \E l \in 1 .. Len(cat) :
            /\ cat[l].generation = cat[j].generation
            /\ d.order[cat[j].generation] = cat[l].order
            /\ \A m \in l + 1 .. Len(cat) : cat[m].generation # cat[j].generation

\* The walk of such rows leaves them, and updates the generations that share
\* a name.
LEMMA WalkInPlace ==
  ASSUME NEW d \in Databases, NEW cat \in Seq(Entries), Valid(cat), InPlace(d, cat),
         NEW r, r = Walk(d, cat)
  PROVE  r.ok /\ r.db = d /\ r.report.created = {} /\ r.report.updated = SharesName(cat)
<1> DEFINE N == Len(cat)
           again == RepeatsName(cat)
<1>0. N \in Nat /\ DOMAIN cat = 1 .. N
  OBVIOUS
<1>1. /\ r \in Walks /\ r.ok
      /\ RowsTo(r.db, d, cat, N) /\ OrdersTo(r.db, d, cat, N)
      /\ Told(r.report, d, cat, N, again)
  BY WalkOutcome DEF InPlace
<1>2. \A j \in 1 .. N :
        /\ cat[j].generation \in Generations /\ cat[j].slug \in Slugs
        /\ DOMAIN cat[j].games \subseteq Keys
        /\ RowOf(cat[j]) # None /\ \A k \in DOMAIN cat[j].games : Desired(cat[j], k) # None
  <2>1. SUFFICES ASSUME NEW j \in 1 .. N
        PROVE  /\ cat[j].generation \in Generations /\ cat[j].slug \in Slugs
               /\ DOMAIN cat[j].games \subseteq Keys
               /\ RowOf(cat[j]) # None /\ \A k \in DOMAIN cat[j].games : Desired(cat[j], k) # None
    OBVIOUS
  <2>2. cat[j] \in Entries
    OBVIOUS
  <2> QED  BY <2>2, EntryTypes, NoneAssumption
<1> HIDE DEF N, again
<1>3. r.db = d
  <2>0. r.db \in Databases
    BY <1>1 DEF Walks
  <2>1. r.db.group = d.group
    BY <1>1 DEF InPlace, RowsTo
  <2>2. r.db.category = d.category
    <3>1. \A n \in Generations : r.db.category[n] = d.category[n]
      BY <1>1 DEF RowsTo, InPlace, N
    <3> QED  BY <2>0, <3>1 DEF Databases
  <2>3. r.db.order = d.order
    <3>1. SUFFICES ASSUME NEW n \in Generations PROVE r.db.order[n] = d.order[n]
      BY <2>0 DEF Databases
    <3>2. CASE \A j \in 1 .. N : cat[j].generation # n
      BY <1>1, <3>2 DEF OrdersTo
    <3>3. CASE \E j \in 1 .. N : cat[j].generation = n
      <4>1. PICK l \in 1 .. N : /\ cat[l].generation = n /\ r.db.order[n] = cat[l].order
                               /\ \A j \in l + 1 .. N : cat[j].generation # n
        BY <1>1, <3>3 DEF OrdersTo
      <4>2. PICK m \in 1 .. N : /\ cat[m].generation = n /\ d.order[n] = cat[m].order
                               /\ \A j \in m + 1 .. N : cat[j].generation # n
        BY <3>3 DEF InPlace, N
      <4>3. l = m
        BY <1>0, <4>1, <4>2
      <4> QED  BY <4>1, <4>2, <4>3
    <3> QED  BY <3>2, <3>3
  <2>4. r.db.platform = d.platform
    <3>1. SUFFICES ASSUME NEW s \in Slugs PROVE r.db.platform[s] = d.platform[s]
      BY <2>0 DEF Databases
    <3> QED  BY <1>1 DEF RowsTo, InPlace, N
  <2>5. r.db.game = d.game
    <3>1. SUFFICES ASSUME NEW k \in Keys PROVE r.db.game[k] = d.game[k]
      BY <2>0 DEF Databases
    <3>2. CASE \A j \in 1 .. N : k \notin DOMAIN cat[j].games
      BY <1>1, <3>2 DEF RowsTo
    <3>3. CASE \E j \in 1 .. N : k \in DOMAIN cat[j].games
      BY <1>1, <3>3 DEF RowsTo, InPlace, N
    <3> QED  BY <3>2, <3>3
  <2> QED  BY <2>0, <2>1, <2>2, <2>3, <2>4, <2>5 DEF Databases
<1>4. \A j \in 1 .. N : \A x : ~Creates(x, d, cat[j]) /\ ~Updates(x, d, cat[j])
                                /\ ~CreatesGeneration(x, d, cat[j])
  BY <1>2 DEF InPlace, Creates, Updates, CreatesGeneration, N
<1>5. d.group = "retro"
  BY DEF InPlace
<1>6. r.report.created = {}
  BY <1>1, <1>4, <1>5 DEF Told
<1>7. \A x : x \in r.report.updated <=>
        \E j \in 1 .. N : UpdatesGeneration(x, d, cat[j]) \/ (x = Generation(cat[j]) /\ x \in again)
  BY <1>1, <1>4, <1>5 DEF Told
<1>8. \A x : x \in SharesName(cat) => x \in r.report.updated
  <2>1. SUFFICES ASSUME NEW x \in SharesName(cat) PROVE x \in r.report.updated
    OBVIOUS
  <2>2. PICK j \in 1 .. N, k \in 1 .. N :
          /\ x = Generation(cat[j])
          /\ cat[k].generation = cat[j].generation /\ cat[k].order # cat[j].order
    BY <1>0 DEF SharesName
  <2>3. PICK l \in 1 .. N :
          /\ cat[l].generation = cat[j].generation
          /\ d.order[cat[j].generation] = cat[l].order
          /\ \A m \in l + 1 .. N : cat[m].generation # cat[j].generation
    BY DEF InPlace, N
  <2>4. d.category[cat[j].generation] = "own"
    BY DEF InPlace, N
  <2>5. CASE cat[l].order # cat[j].order
    <3>1. UpdatesGeneration(x, d, cat[j])
      BY <2>2, <2>3, <2>4, <2>5 DEF UpdatesGeneration
    <3> QED  BY <1>7, <3>1
  <2>6. CASE cat[l].order = cat[j].order
    <3>1. x = Generation(cat[l])
      BY <2>2, <2>6 DEF Generation
    <3>2. k \in 1 .. l - 1
      BY <1>0, <2>2, <2>3, <2>6
    <3>3. cat[k].generation = cat[l].generation /\ cat[k].order # cat[l].order /\ l \in DOMAIN cat
      BY <1>0, <2>2, <2>3, <2>6
    <3>4. x \in again
      BY <3>1, <3>2, <3>3 DEF RepeatsName, again
    <3> QED  BY <1>7, <3>1, <3>4
  <2> QED  BY <2>5, <2>6
<1>9. \A x : x \in r.report.updated => x \in SharesName(cat)
  <2>1. SUFFICES ASSUME NEW x \in r.report.updated PROVE x \in SharesName(cat)
    OBVIOUS
  <2>2. CASE x \in again
    <3>1. PICK i \in DOMAIN cat : /\ x = Generation(cat[i])
                                 /\ \E j \in 1 .. i - 1 : /\ cat[j].generation = cat[i].generation
                                                         /\ cat[j].order # cat[i].order
      BY <2>2 DEF RepeatsName, again
    <3>2. \A j \in 1 .. i - 1 : j \in DOMAIN cat
      BY <1>0, <3>1
    <3> QED  BY <3>1, <3>2 DEF SharesName
  <2>3. CASE x \notin again
    <3>1. PICK j \in 1 .. N : UpdatesGeneration(x, d, cat[j])
      BY <1>7, <2>1, <2>3
    <3>2. PICK l \in 1 .. N :
            /\ cat[l].generation = cat[j].generation
            /\ d.order[cat[j].generation] = cat[l].order
      BY DEF InPlace, N
    <3>3. x = Generation(cat[j]) /\ cat[l].order # cat[j].order
      BY <3>1, <3>2 DEF UpdatesGeneration
    <3> QED  BY <1>0, <3>2, <3>3 DEF SharesName
  <2> QED  BY <2>2, <2>3
<1> QED  BY <1>1, <1>3, <1>6, <1>8, <1>9

LEMMA Switched ==
  ASSUME NEW d \in Databases, NEW cat, NEW b, b = Deactivated(d, cat)
  PROVE  /\ b \in Databases /\ b.group = d.group /\ b.category = d.category /\ b.order = d.order
         /\ b.platform = d.platform
         /\ \A k \in KeysOf(cat) \cap Keys : b.game[k] = d.game[k]
         /\ \A k \in Keys : b.game[k] = None <=> d.game[k] = None
         /\ \A k \in Keys : d.game[k] # None => /\ b.game[k].generation = d.game[k].generation
                                              /\ b.game[k].slug = d.game[k].slug
         /\ \A k \in Orphans(b, cat) : ~Live(b, k)
         /\ Deactivated(b, cat) = b
<1> DEFINE off(x, k) == IF k \in Orphans(x, cat)
                          THEN [x.game[k] EXCEPT !.active = FALSE, !.game_active = FALSE]
                          ELSE x.game[k]
<1>1. d.game \in [Keys -> Games \cup {None}]
  BY DEF Databases
<1>2. ASSUME NEW k \in Keys
      PROVE  /\ off(d, k) \in Games \cup {None} /\ (off(d, k) = None <=> d.game[k] = None)
             /\ d.game[k] # None => /\ off(d, k).generation = d.game[k].generation
                                   /\ off(d, k).slug = d.game[k].slug
             /\ k \in Orphans(d, cat) => ~off(d, k).active /\ ~off(d, k).game_active
             /\ k \notin Orphans(d, cat) => off(d, k) = d.game[k]
  <2>1. CASE k \in Orphans(d, cat)
    <3>1. d.game[k] \in Games
      BY <1>1, <2>1 DEF Orphans
    <3>2. off(d, k) = [d.game[k] EXCEPT !.active = FALSE, !.game_active = FALSE]
      BY <2>1
    <3>3. /\ off(d, k) \in Games /\ ~off(d, k).active /\ ~off(d, k).game_active
          /\ off(d, k).generation = d.game[k].generation /\ off(d, k).slug = d.game[k].slug
      BY <3>1, <3>2 DEF Games
    <3> HIDE DEF off
    <3> QED  BY <2>1, <3>1, <3>3, NoneAssumption
  <2>2. CASE k \notin Orphans(d, cat)
    BY <1>1, <2>2
  <2> QED  BY <2>1, <2>2
<1>3. b = [d EXCEPT !.game = [k \in Keys |-> off(d, k)]]
  BY DEF Deactivated
<1>4. Deactivated(b, cat) = [b EXCEPT !.game = [k \in Keys |-> off(b, k)]]
  BY DEF Deactivated
<1>5. \A k \in Keys : k \in Orphans(b, cat) => off(b, k) = [b.game[k] EXCEPT !.active = FALSE, !.game_active = FALSE]
  OBVIOUS
<1>6. \A k \in Keys : k \notin Orphans(b, cat) => off(b, k) = b.game[k]
  OBVIOUS
<1> HIDE DEF off
<1>7. b \in Databases /\ b.game = [k \in Keys |-> off(d, k)]
      /\ b.group = d.group /\ b.category = d.category /\ b.order = d.order /\ b.platform = d.platform
  <2>1. [k \in Keys |-> off(d, k)] \in [Keys -> Games \cup {None}]
    BY <1>2
  <2> DEFINE g == [k \in Keys |-> off(d, k)]
  <2> HIDE DEF g
  <2>2. g \in [Keys -> Games \cup {None}] /\ b = [d EXCEPT !.game = g]
    BY <1>3, <2>1 DEF g
  <2>3. /\ b \in Databases /\ b.game = g
        /\ b.group = d.group /\ b.category = d.category /\ b.order = d.order /\ b.platform = d.platform
    BY <2>2 DEF Databases
  <2> QED  BY <2>3 DEF g
<1>8. \A k \in Keys : b.game[k] = None <=> d.game[k] = None
  BY <1>2, <1>7
<1>9. Orphans(b, cat) = Orphans(d, cat)
  BY <1>8 DEF Orphans
<1>10. \A k \in Orphans(b, cat) : k \in Keys /\ ~b.game[k].active /\ ~b.game[k].game_active
  BY <1>2, <1>7, <1>9 DEF Orphans
<1>11. \A k \in Keys : off(b, k) = b.game[k]
  <2>1. SUFFICES ASSUME NEW k \in Keys, k \in Orphans(b, cat)  PROVE off(b, k) = b.game[k]
    BY <1>6
  <2>2. b.game[k] \in Games
    BY <1>7, <2>1 DEF Orphans, Databases
  <2>3. ~b.game[k].active /\ ~b.game[k].game_active
    BY <1>10, <2>1
  <2>4. [b.game[k] EXCEPT !.active = FALSE, !.game_active = FALSE] = b.game[k]
    BY <2>2, <2>3 DEF Games
  <2> QED  BY <1>5, <2>1, <2>4
<1>12. Deactivated(b, cat) = b
  <2>1. [k \in Keys |-> off(b, k)] = b.game
    BY <1>7, <1>11
  <2>2. [b EXCEPT !.game = b.game] = b
    BY <1>7 DEF Databases
  <2> QED  BY <1>4, <2>1, <2>2
<1>13. \A k \in Orphans(b, cat) : ~Live(b, k)
  BY <1>10 DEF Live
<1>14. \A k \in KeysOf(cat) \cap Keys : b.game[k] = d.game[k]
  BY <1>2, <1>7 DEF Orphans
<1>15. \A k \in Keys : d.game[k] # None => /\ b.game[k].generation = d.game[k].generation
                                         /\ b.game[k].slug = d.game[k].slug
  BY <1>2, <1>7
<1> QED  BY <1>7, <1>8, <1>12, <1>13, <1>14, <1>15

\* What _apply returns.
LEMMA Applied ==
  ASSUME NEW d, NEW cat, NEW deactivate \in BOOLEAN, NEW w, w = Walk(d, cat)
  PROVE  /\ _apply(d, cat, deactivate).ok = w.ok
         /\ _apply(d, cat, deactivate).db = IF deactivate THEN Deactivated(w.db, cat) ELSE w.db
         /\ _apply(d, cat, deactivate).report = Missing(w.report, w.db, cat, deactivate)
BY DEF _apply

LEMMA RowsInPlace ==
  ASSUME NEW d, NEW b, NEW cat \in Seq(Entries), RowsTo(b, d, cat, Len(cat)),
         OrdersTo(b, d, cat, Len(cat))
  PROVE  InPlace(b, cat)
<1>1. \A j \in 1 .. Len(cat) : cat[j].generation \in Generations
  BY EntryTypes
<1>2. ASSUME NEW j \in 1 .. Len(cat)
      PROVE  \E l \in 1 .. Len(cat) :
               /\ cat[l].generation = cat[j].generation
               /\ b.order[cat[j].generation] = cat[l].order
               /\ \A m \in l + 1 .. Len(cat) : cat[m].generation # cat[j].generation
  BY <1>1 DEF OrdersTo
<1> QED  BY <1>1, <1>2 DEF RowsTo, InPlace

LEMMA StaysInPlace ==
  ASSUME NEW d \in Databases, NEW cat \in Seq(Entries), InPlace(d, cat), NEW b,
         b = Deactivated(d, cat)
  PROVE  InPlace(b, cat)
<1>1. /\ b.group = d.group /\ b.category = d.category /\ b.order = d.order
      /\ b.platform = d.platform
      /\ \A k \in KeysOf(cat) \cap Keys : b.game[k] = d.game[k]
  BY Switched
<1>2. ASSUME NEW j \in 1 .. Len(cat), NEW k \in DOMAIN cat[j].games
      PROVE  k \in KeysOf(cat) \cap Keys
  BY EntryTypes DEF KeysOf
<1> QED  BY <1>1, <1>2 DEF InPlace

\* An import that was accepted, and the one that follows.
LEMMA Repeated ==
  ASSUME NEW d \in Databases, NEW cat \in Seq(Entries), Valid(cat),
         NEW deactivate \in BOOLEAN,
         NEW first, first = _apply(d, cat, deactivate), first.ok,
         NEW second, second = _apply(first.db, cat, deactivate)
  PROVE  /\ second.ok /\ second.db = first.db
         /\ second.report.created \cup second.report.deactivated = {}
         /\ second.report.updated = SharesName(cat)
<1> DEFINE w == Walk(d, cat)
           b == first.db
           v == Walk(b, cat)
<1>1. w \in Walks /\ w.ok /\ b = IF deactivate THEN Deactivated(w.db, cat) ELSE w.db
  BY Applied, WalkOutcome
<1>2. w.db \in Databases /\ InPlace(w.db, cat)
  BY <1>1, WalkOutcome, RowsInPlace DEF Walks
<1> HIDE DEF w, b
<1>3. b \in Databases /\ InPlace(b, cat)
  BY <1>1, <1>2, Switched, StaysInPlace
<1>4. v.ok /\ v.db = b /\ v.report.created = {} /\ v.report.updated = SharesName(cat)
  BY <1>3, WalkInPlace
<1>5. deactivate => Deactivated(b, cat) = b /\ \A k \in Orphans(b, cat) : ~Live(b, k)
  BY <1>1, <1>2, Switched
<1>6. v \in Walks
  BY <1>3, WalkOutcome
<1>7. /\ second.ok = v.ok
      /\ second.db = IF deactivate THEN Deactivated(v.db, cat) ELSE v.db
      /\ second.report = Missing(v.report, v.db, cat, deactivate)
  BY Applied DEF b
<1> HIDE DEF v
<1>8. second.ok /\ second.db = b
  BY <1>4, <1>5, <1>7
<1>9. /\ second.report.created = v.report.created /\ second.report.updated = v.report.updated
      /\ second.report.deactivated = IF deactivate
            THEN {<<"game", k>> : k \in {k \in Orphans(b, cat) : Live(b, k)}} ELSE {}
  BY <1>4, <1>6, <1>7 DEF Missing, Walks, Reports
<1>10. second.report.deactivated = {}
  BY <1>5, <1>9
<1> QED  BY <1>4, <1>8, <1>9, <1>10 DEF b

-----------------------------------------------------------------------------
(* The planner.                                                             *)

\* Every platform is in a category of the group, and every game too, with a
\* platform: what the foreign keys and the imports keep.
Rooted(d) ==
  /\ \A s \in Slugs : d.platform[s] # None => d.category[d.platform[s].generation] = "own"
  /\ \A k \in Keys : d.game[k] # None =>
       /\ d.category[d.game[k].generation] = "own"
       /\ d.platform[d.game[k].slug] # None

\* An import keeps it.
LEMMA RowsRooted ==
  ASSUME NEW d \in Databases, Rooted(d), NEW cat \in Seq(Entries), NEW b \in Databases,
         RowsTo(b, d, cat, Len(cat))
  PROVE  Rooted(b)
<1>1. \A j \in 1 .. Len(cat) : cat[j] \in Entries
  OBVIOUS
<1>2. \A n \in Generations : d.category[n] = "own" => b.category[n] = "own"
  BY DEF RowsTo
<1>3. \A j \in 1 .. Len(cat) :
        /\ b.category[cat[j].generation] = "own" /\ b.platform[cat[j].slug] = RowOf(cat[j])
        /\ \A k \in DOMAIN cat[j].games : b.game[k] = Desired(cat[j], k)
        /\ RowOf(cat[j]) # None /\ RowOf(cat[j]).generation = cat[j].generation
        /\ \A k \in DOMAIN cat[j].games : /\ Desired(cat[j], k).generation = cat[j].generation
                                        /\ Desired(cat[j], k).slug = cat[j].slug
  <2>1. SUFFICES ASSUME NEW j \in 1 .. Len(cat)
        PROVE  /\ b.category[cat[j].generation] = "own" /\ RowOf(cat[j]) # None
               /\ b.platform[cat[j].slug] = RowOf(cat[j])
               /\ \A k \in DOMAIN cat[j].games : b.game[k] = Desired(cat[j], k)
    BY DEF RowOf, Desired
  <2>2. cat[j].generation \in Generations /\ RowOf(cat[j]) # None
    BY <1>1, EntryTypes, NoneAssumption
  <2> QED  BY <2>2 DEF RowsTo
<1>4. /\ d.platform \in [Slugs -> Platforms \cup {None}]
      /\ d.game \in [Keys -> Games \cup {None}]
  BY DEF Databases
<1>5. \A s \in Slugs : d.platform[s] # None => b.platform[s] # None
  <2>1. SUFFICES ASSUME NEW s \in Slugs, d.platform[s] # None  PROVE b.platform[s] # None
    OBVIOUS
  <2>2. CASE \E j \in 1 .. Len(cat) : cat[j].slug = s
    BY <1>3, <2>2
  <2>3. CASE \A j \in 1 .. Len(cat) : cat[j].slug # s
    BY <2>1, <2>3 DEF RowsTo
  <2> QED  BY <2>2, <2>3
<1>6. ASSUME NEW s \in Slugs, b.platform[s] # None
      PROVE  b.category[b.platform[s].generation] = "own"
  <2>1. CASE \E j \in 1 .. Len(cat) : cat[j].slug = s
    BY <1>3, <2>1
  <2>2. CASE \A j \in 1 .. Len(cat) : cat[j].slug # s
    <3>1. b.platform[s] = d.platform[s]
      BY <2>2 DEF RowsTo
    <3>2. d.platform[s].generation \in Generations /\ d.category[d.platform[s].generation] = "own"
      BY <1>4, <1>6, <3>1 DEF Platforms, Rooted
    <3> QED  BY <1>2, <3>1, <3>2
  <2> QED  BY <2>1, <2>2
<1>7. ASSUME NEW k \in Keys, b.game[k] # None
      PROVE  b.category[b.game[k].generation] = "own" /\ b.platform[b.game[k].slug] # None
  <2>1. CASE \E j \in 1 .. Len(cat) : k \in DOMAIN cat[j].games
    BY <1>3, <2>1
  <2>2. CASE \A j \in 1 .. Len(cat) : k \notin DOMAIN cat[j].games
    <3>1. b.game[k] = d.game[k]
      BY <2>2 DEF RowsTo
    <3>2. /\ d.game[k].generation \in Generations /\ d.category[d.game[k].generation] = "own"
          /\ d.game[k].slug \in Slugs /\ d.platform[d.game[k].slug] # None
      BY <1>4, <1>7, <3>1 DEF Games, Rooted
    <3> QED  BY <1>2, <1>5, <3>1, <3>2
  <2> QED  BY <2>1, <2>2
<1> QED  BY <1>6, <1>7 DEF Rooted

LEMMA SwitchedRooted ==
  ASSUME NEW d \in Databases, Rooted(d), NEW cat, NEW b, b = Deactivated(d, cat)
  PROVE  Rooted(b)
<1>1. /\ b.category = d.category /\ b.platform = d.platform
      /\ \A k \in Keys : b.game[k] = None <=> d.game[k] = None
      /\ \A k \in Keys : d.game[k] # None => /\ b.game[k].generation = d.game[k].generation
                                           /\ b.game[k].slug = d.game[k].slug
  BY Switched
<1> QED  BY <1>1 DEF Rooted

\* The three outcomes of the planner, entry by entry.
PlanRight(d, e) ==
  /\ PlanHas(d, e.generation) <=> d.category[e.generation] = "own"
  /\ d.platform[e.slug] # None => (PlatformChanges(d, e) <=> d.platform[e.slug] # RowOf(e))
  /\ \A k \in DOMAIN e.games :
       d.game[k] # None => (GameChanges(d, e, k) <=> d.game[k] # Desired(e, k))

LEMMA PlanIsRight ==
  ASSUME NEW d \in Databases, Rooted(d), d.group = "retro", NEW e \in Entries
  PROVE  PlanRight(d, e)
<1>1. e.slug \in Slugs /\ DOMAIN e.games \subseteq Keys
  BY EntryTypes
<1>2. PlanHas(d, e.generation) <=> d.category[e.generation] = "own"
  BY DEF PlanHas
<1>3. d.platform[e.slug] = RowOf(e) /\ d.platform[e.slug] # None => d.category[e.generation] = "own"
  BY <1>1 DEF Rooted, RowOf
<1>4. \A k \in DOMAIN e.games : d.game[k] = Desired(e, k) /\ d.game[k] # None =>
        d.category[e.generation] = "own" /\ d.platform[e.slug] # None
  BY <1>1 DEF Rooted, Desired
<1>5. PlatformChanges(d, e) <=> d.category[e.generation] # "own" \/ d.platform[e.slug] # RowOf(e)
  BY <1>2 DEF PlatformChanges, RowOf
<1>6. \A k \in DOMAIN e.games :
        GameChanges(d, e, k) <=> \/ d.category[e.generation] # "own" \/ d.platform[e.slug] = None
                                \/ d.game[k] # Desired(e, k)
  BY <1>2 DEF GameChanges
<1> QED  BY <1>2, <1>3, <1>4, <1>5, <1>6 DEF PlanRight

LEMMA GroupPlanned ==
  ASSUME NEW g, g = Count(Report, <<"group">>, TRUE, FALSE)
  PROVE  /\ g \in Reports /\ g.created = {} /\ g.updated = {}
         /\ g.unchanged = {<<"group">>} /\ g.orphaned = {} /\ g.deactivated = {}
BY IdTypes DEF Count, Report, Reports

LEMMA Planned ==
  ASSUME NEW d \in Databases, Rooted(d), d.group = "retro", NEW cat \in Seq(Entries),
         NEW deactivate \in BOOLEAN
  PROVE  \E r \in Reports : /\ Told(r, d, cat, Len(cat), {})
                           /\ _plan(d, cat, deactivate) = Missing(r, d, cat, deactivate)
<1>1. DOMAIN cat = 1 .. Len(cat) /\ \A j \in DOMAIN cat : cat[j] \in Entries
  OBVIOUS
<1>2. \A j \in DOMAIN cat : PlanRight(d, cat[j])
  BY <1>1, PlanIsRight
<1> DEFINE group == Count(Report, <<"group">>, d.group = "retro", FALSE)
           G1 == {Generation(cat[i]) : i \in {i \in DOMAIN cat : ~PlanHas(d, cat[i].generation)}}
           G2 == {Generation(cat[i]) : i \in {i \in DOMAIN cat :
                    PlanHas(d, cat[i].generation) /\ PlanOrders(d, cat[i])}}
           G3 == {Generation(cat[i]) : i \in {i \in DOMAIN cat :
                    PlanHas(d, cat[i].generation) /\ ~PlanOrders(d, cat[i])}}
           P1 == {<<"platform", cat[i].slug>> : i \in {i \in DOMAIN cat : d.platform[cat[i].slug] = None}}
           P2 == {<<"platform", cat[i].slug>> : i \in {i \in DOMAIN cat :
                    d.platform[cat[i].slug] # None /\ PlatformChanges(d, cat[i])}}
           P3 == {<<"platform", cat[i].slug>> : i \in {i \in DOMAIN cat :
                    d.platform[cat[i].slug] # None /\ ~PlatformChanges(d, cat[i])}}
           K1 == UNION {{<<"game", k>> : k \in {k \in DOMAIN cat[i].games : d.game[k] = None}} :
                          i \in DOMAIN cat}
           K2 == UNION {{<<"game", k>> : k \in {k \in DOMAIN cat[i].games :
                            d.game[k] # None /\ GameChanges(d, cat[i], k)}} : i \in DOMAIN cat}
           K3 == UNION {{<<"game", k>> : k \in {k \in DOMAIN cat[i].games :
                            d.game[k] # None /\ ~GameChanges(d, cat[i], k)}} : i \in DOMAIN cat}
           r == [group EXCEPT !.created = @ \cup G1 \cup P1 \cup K1,
                              !.updated = @ \cup G2 \cup P2 \cup K2,
                              !.unchanged = @ \cup G3 \cup P3 \cup K3]
<1>3. _plan(d, cat, deactivate) = Missing(r, d, cat, deactivate)
  BY Zenon DEF _plan
<1>4. /\ \A x : x \in G1 <=> \E i \in DOMAIN cat : CreatesGeneration(x, d, cat[i])
      /\ \A x : x \in G2 <=> \E i \in DOMAIN cat : UpdatesGeneration(x, d, cat[i])
      /\ \A x : x \in G3 <=> \E i \in DOMAIN cat : LeavesGeneration(x, d, cat[i])
  BY <1>2 DEF PlanRight, PlanOrders, CreatesGeneration, UpdatesGeneration, LeavesGeneration
<1>5. /\ \A x : x \in P1 <=> \E i \in DOMAIN cat : x = <<"platform", cat[i].slug>>
                                             /\ d.platform[cat[i].slug] = None
      /\ \A x : x \in P2 <=> \E i \in DOMAIN cat : x = <<"platform", cat[i].slug>>
            /\ d.platform[cat[i].slug] # None /\ d.platform[cat[i].slug] # RowOf(cat[i])
      /\ \A x : x \in P3 <=> \E i \in DOMAIN cat : x = <<"platform", cat[i].slug>>
            /\ d.platform[cat[i].slug] # None /\ d.platform[cat[i].slug] = RowOf(cat[i])
  BY <1>2 DEF PlanRight
<1>6. /\ \A x : x \in K1 <=> \E i \in DOMAIN cat : \E k \in DOMAIN cat[i].games :
            x = <<"game", k>> /\ d.game[k] = None
      /\ \A x : x \in K2 <=> \E i \in DOMAIN cat : \E k \in DOMAIN cat[i].games :
            x = <<"game", k>> /\ d.game[k] # None /\ d.game[k] # Desired(cat[i], k)
      /\ \A x : x \in K3 <=> \E i \in DOMAIN cat : \E k \in DOMAIN cat[i].games :
            x = <<"game", k>> /\ d.game[k] # None /\ d.game[k] = Desired(cat[i], k)
  BY <1>2 DEF PlanRight
<1>7. /\ group \in Reports /\ group.created = {} /\ group.updated = {}
      /\ group.unchanged = {<<"group">>} /\ group.orphaned = {} /\ group.deactivated = {}
  <2>1. group = Count(Report, <<"group">>, TRUE, FALSE)
    OBVIOUS
  <2> HIDE DEF group, G1, G2, G3, P1, P2, P3, K1, K2, K3
  <2> QED  BY <2>1, GroupPlanned
<1>8. /\ G1 \subseteq Ids /\ G2 \subseteq Ids /\ G3 \subseteq Ids
      /\ P1 \subseteq Ids /\ P2 \subseteq Ids
      /\ P3 \subseteq Ids /\ K1 \subseteq Ids /\ K2 \subseteq Ids /\ K3 \subseteq Ids
  <2>1. \A i \in DOMAIN cat :
          /\ Generation(cat[i]) \in Ids /\ <<"platform", cat[i].slug>> \in Ids
          /\ \A k \in DOMAIN cat[i].games : <<"game", k>> \in Ids
    BY <1>1, EntryTypes, IdTypes DEF Generation
  <2>2. G1 \subseteq Ids /\ G2 \subseteq Ids /\ G3 \subseteq Ids
    BY <2>1
  <2>3. P1 \subseteq Ids /\ P2 \subseteq Ids /\ P3 \subseteq Ids
    BY <2>1
  <2>4. K1 \subseteq Ids /\ K2 \subseteq Ids /\ K3 \subseteq Ids
    <3>1. \A i \in DOMAIN cat : \A k \in DOMAIN cat[i].games : <<"game", k>> \in Ids
      BY <2>1
    <3>2. \A x \in K1 \cup K2 \cup K3 : \E i \in DOMAIN cat : \E k \in DOMAIN cat[i].games :
                                     x = <<"game", k>>
      OBVIOUS
    <3> HIDE DEF K1, K2, K3
    <3>3. \A x \in K1 \cup K2 \cup K3 : x \in Ids
      BY <3>1, <3>2, Zenon
    <3> QED  BY <3>3
  <2> QED  BY <2>2, <2>3, <2>4
<1> HIDE DEF group, G1, G2, G3, P1, P2, P3, K1, K2, K3
<1>9. /\ r.created = G1 \cup P1 \cup K1 /\ r.updated = G2 \cup P2 \cup K2
      /\ r.unchanged = {<<"group">>} \cup G3 \cup P3 \cup K3
      /\ r.orphaned = {} /\ r.deactivated = {} /\ r \in Reports
  BY <1>7, <1>8 DEF Reports
<1> HIDE DEF r
<1>10. /\ \A x : x \in r.created <=>
             \E j \in 1 .. Len(cat) : Creates(x, d, cat[j]) \/ CreatesGeneration(x, d, cat[j])
       /\ \A x : x \in r.updated <=>
             \E j \in 1 .. Len(cat) : Updates(x, d, cat[j]) \/ UpdatesGeneration(x, d, cat[j])
       /\ \A x : x \in r.unchanged <=>
            x = <<"group">> \/ \E j \in 1 .. Len(cat) : Leaves(x, d, cat[j])
                                                      \/ LeavesGeneration(x, d, cat[j])
  <2>1. \A x : x \in r.created <=>
             \E j \in 1 .. Len(cat) : Creates(x, d, cat[j]) \/ CreatesGeneration(x, d, cat[j])
    BY <1>1, <1>4, <1>5, <1>6, <1>9 DEF Creates
  <2>2. \A x : x \in r.updated <=>
             \E j \in 1 .. Len(cat) : Updates(x, d, cat[j]) \/ UpdatesGeneration(x, d, cat[j])
    BY <1>1, <1>4, <1>5, <1>6, <1>9 DEF Updates
  <2>3. \A x : x \in r.unchanged <=>
            x = <<"group">> \/ \E j \in 1 .. Len(cat) : Leaves(x, d, cat[j])
                                                      \/ LeavesGeneration(x, d, cat[j])
    <3>1. \A x : x \in r.unchanged <=> x = <<"group">> \/ x \in G3 \/ x \in P3 \/ x \in K3
      BY <1>9
    <3>2. \A x : x \in P3 \/ x \in K3 <=> \E j \in 1 .. Len(cat) : Leaves(x, d, cat[j])
      BY <1>1, <1>5, <1>6 DEF Leaves
    <3>3. \A x : x \in G3 <=> \E j \in 1 .. Len(cat) : LeavesGeneration(x, d, cat[j])
      BY <1>1, <1>4
    <3> QED  BY <3>1, <3>2, <3>3
  <2> QED  BY <2>1, <2>2, <2>3
<1>11. Told(r, d, cat, Len(cat), {})
  BY <1>9, <1>10 DEF Told
<1> QED  BY <1>3, <1>9, <1>11

\* The report with the repeated generations taken as updated.
Reread(r, again) ==
  [r EXCEPT !.created = @ \ again, !.updated = @ \cup again, !.unchanged = @ \ again]

LEMMA ToldOfRepeats ==
  ASSUME NEW d, NEW cat \in Seq(Entries), NEW again, again = RepeatsName(cat),
         NEW q \in Reports, NEW r \in Reports,
         Told(q, d, cat, Len(cat), again), Told(r, d, cat, Len(cat), {})
  PROVE  q = Reread(r, again)
<1> DEFINE N == Len(cat)
<1>1. DOMAIN cat = 1 .. N
  OBVIOUS
<1> HIDE DEF N
<1>2. \A x \in again : \E i \in 1 .. N : x = Generation(cat[i])
  BY <1>1 DEF RepeatsName
<1>3. \A x \in again : x # <<"group">> /\ \A e : /\ ~Creates(x, d, e) /\ ~Updates(x, d, e)
                                                /\ ~Leaves(x, d, e)
  BY <1>2, NotGenerations
<1>4. q.created = r.created \ again
  <2>1. \A x : x \in q.created <=>
          \/ x = <<"group">> /\ d.group = "absent"
          \/ \E j \in 1 .. N : Creates(x, d, cat[j])
                               \/ (CreatesGeneration(x, d, cat[j]) /\ x \notin again)
    BY DEF Told, N
  <2>2. \A x : x \in r.created <=>
          \/ x = <<"group">> /\ d.group = "absent"
          \/ \E j \in 1 .. N : Creates(x, d, cat[j]) \/ CreatesGeneration(x, d, cat[j])
    BY DEF Told, N
  <2>3. \A x : x \in q.created <=> x \in r.created /\ x \notin again
    BY <1>3, <2>1, <2>2
  <2> QED  BY <2>3
<1>5. q.updated = r.updated \cup again
  <2>1. \A x : x \in q.updated <=>
          \/ x = <<"group">> /\ d.group = "plain"
          \/ \E j \in 1 .. N : \/ Updates(x, d, cat[j]) \/ UpdatesGeneration(x, d, cat[j])
                               \/ (x = Generation(cat[j]) /\ x \in again)
    BY DEF Told, N
  <2>2. \A x : x \in r.updated <=>
          \/ x = <<"group">> /\ d.group = "plain"
          \/ \E j \in 1 .. N : Updates(x, d, cat[j]) \/ UpdatesGeneration(x, d, cat[j])
    BY DEF Told, N
  <2>3. \A x : x \in q.updated <=> x \in r.updated \/ x \in again
    BY <1>2, <2>1, <2>2
  <2> QED  BY <2>3
<1>6. q.unchanged = r.unchanged \ again
  <2>1. \A x : x \in q.unchanged <=>
          \/ x = <<"group">> /\ d.group = "retro"
          \/ \E j \in 1 .. N : Leaves(x, d, cat[j])
                               \/ (LeavesGeneration(x, d, cat[j]) /\ x \notin again)
    BY DEF Told, N
  <2>2. \A x : x \in r.unchanged <=>
          \/ x = <<"group">> /\ d.group = "retro"
          \/ \E j \in 1 .. N : Leaves(x, d, cat[j]) \/ LeavesGeneration(x, d, cat[j])
    BY DEF Told, N
  <2>3. \A x : x \in q.unchanged <=> x \in r.unchanged /\ x \notin again
    BY <1>3, <2>1, <2>2
  <2> QED  BY <2>3
<1>7. q.orphaned = r.orphaned /\ q.deactivated = r.deactivated
  BY DEF Told
<1> QED  BY <1>4, <1>5, <1>6, <1>7 DEF Reread, Reports

\* The walk does not touch what the catalogue does not have.
LEMMA SameMissing ==
  ASSUME NEW d \in Databases, Rooted(d), NEW cat \in Seq(Entries), NEW b \in Databases,
         RowsTo(b, d, cat, Len(cat)), NEW r, NEW deactivate \in BOOLEAN
  PROVE  Missing(r, d, cat, deactivate) = Missing(r, b, cat, deactivate)
<1>1. DOMAIN cat = 1 .. Len(cat)
  OBVIOUS
<1>2. \A k \in Keys \ KeysOf(cat) : b.game[k] = d.game[k]
  BY <1>1 DEF RowsTo, KeysOf
<1>3. \A s \in Slugs \ SlugsOf(cat) : b.platform[s] = d.platform[s]
  BY <1>1 DEF RowsTo, SlugsOf
<1>4. Orphans(d, cat) = Orphans(b, cat)
  BY <1>2 DEF Orphans
<1>5. \A k \in Orphans(d, cat) : Live(d, k) <=> Live(b, k)
  BY <1>2 DEF Orphans, Live
<1>6. \A s \in Slugs : d.platform[s] # None => /\ d.category[d.platform[s].generation] = "own"
                                            /\ b.category[d.platform[s].generation] = "own"
  <2>1. \A s \in Slugs : d.platform[s] # None => d.platform[s].generation \in Generations
    BY DEF Databases, Platforms
  <2> QED  BY <2>1 DEF Rooted, RowsTo
<1> DEFINE P(x) == {<<"platform", s>> : s \in {s \in Slugs \ SlugsOf(cat) :
                      x.platform[s] # None /\ x.category[x.platform[s].generation] = "own"}}
           L(x) == {<<"game", k>> : k \in {k \in Orphans(x, cat) : Live(x, k)}}
           G(x) == {<<"game", k>> : k \in Orphans(x, cat)}
<1>7. \A s \in Slugs \ SlugsOf(cat) :
        d.platform[s] # None /\ d.category[d.platform[s].generation] = "own"
          <=> b.platform[s] # None /\ b.category[b.platform[s].generation] = "own"
  BY <1>3, <1>6
<1>8. P(d) = P(b)
  BY <1>7
<1>9. L(d) = L(b)
  BY <1>4, <1>5
<1>10. G(d) = G(b)
  BY <1>4
<1>11. \A x : Missing(r, x, cat, deactivate) =
               [r EXCEPT !.orphaned = G(x) \cup P(x), !.deactivated = IF deactivate THEN L(x) ELSE {}]
  BY DEF Missing
<1> HIDE DEF P, L, G
<1> QED  BY <1>8, <1>9, <1>10, <1>11

LEMMA Foretold ==
  ASSUME NEW d \in Databases, Rooted(d), d.group = "retro", NEW cat \in Seq(Entries), Valid(cat),
         NEW deactivate \in BOOLEAN, NEW result, result = _apply(d, cat, deactivate), result.ok
  PROVE  result.report = Reread(_plan(d, cat, deactivate), RepeatsName(cat))
<1>1. PICK w : w = Walk(d, cat)
  OBVIOUS
<1> DEFINE again == RepeatsName(cat)
<1>2. result.ok = w.ok /\ result.report = Missing(w.report, w.db, cat, deactivate)
  BY <1>1, Applied
<1>3. /\ w \in Walks /\ RowsTo(w.db, d, cat, Len(cat))
      /\ Told(w.report, d, cat, Len(cat), again)
  BY <1>1, <1>2, WalkOutcome
<1>4. w.db \in Databases /\ w.report \in Reports
  BY <1>3 DEF Walks
<1>5. PICK r \in Reports : /\ Told(r, d, cat, Len(cat), {})
                          /\ _plan(d, cat, deactivate) = Missing(r, d, cat, deactivate)
  BY Planned
<1>6. w.report = Reread(r, again)
  BY <1>3, <1>4, <1>5, ToldOfRepeats
<1>7. Missing(w.report, d, cat, deactivate) = Missing(w.report, w.db, cat, deactivate)
  BY <1>3, <1>4, SameMissing
<1> HIDE DEF again
<1>8. Missing(Reread(r, again), d, cat, deactivate)
        = Reread(Missing(r, d, cat, deactivate), again)
  BY DEF Missing, Reread, Reports
<1> QED  BY <1>2, <1>5, <1>6, <1>7, <1>8 DEF again

LEMMA Imported ==
  ASSUME NEW d \in Databases, Rooted(d), NEW cat \in Seq(Entries), Valid(cat),
         NEW deactivate \in BOOLEAN, NEW result, result = _apply(d, cat, deactivate), result.ok
  PROVE  result.db \in Databases /\ Rooted(result.db)
<1>1. PICK w : w = Walk(d, cat)
  OBVIOUS
<1>2. result.ok = w.ok /\ result.db = IF deactivate THEN Deactivated(w.db, cat) ELSE w.db
  BY <1>1, Applied
<1>3. w \in Walks /\ RowsTo(w.db, d, cat, Len(cat))
  BY <1>1, <1>2, WalkOutcome
<1>4. w.db \in Databases
  BY <1>3 DEF Walks
<1>5. Rooted(w.db)
  BY <1>3, <1>4, RowsRooted
<1> QED  BY <1>2, <1>4, <1>5, Switched, SwitchedRooted

-----------------------------------------------------------------------------
(* The inductive invariant.                                                 *)

\* A version that a client named leaves room for the change it asks for.
RoomToChange ==
  \A c \in Clients : request[c] # Idle => request[c].expected_version < MaxVersion

IInv == TypeOK /\ Rooted(db) /\ RoomToChange

LEMMA Sent ==
  ASSUME TypeOK, NEW c \in Clients, request[c].step \in {"sent", "inserting"}
  PROVE  /\ request[c] # Idle /\ request[c].key \in Keys /\ request[c].status \in Statuses
         /\ request[c].expected_version \in 0 .. MaxVersion
         /\ request[c] = [step |-> request[c].step, key |-> request[c].key,
                          status |-> request[c].status,
                          expected_version |-> request[c].expected_version]
BY DEF TypeOK, Requests, Idle

LEMMA RowTypes ==
  /\ \A status \in Statuses : First(status) \in Rows
  /\ \A row \in Rows, status \in Statuses :
       row.version < MaxVersion => Changed(row, status) \in Rows
  /\ Idle \in Requests
<1>1. MaxVersion \in Nat \ {0}
  BY CatalogueBounds
<1>2. \A status \in Statuses : First(status) \in Rows
  BY <1>1 DEF First, Rows
<1>3. ASSUME NEW row \in Rows, NEW status \in Statuses, row.version < MaxVersion
      PROVE  Changed(row, status) \in Rows
  <2>1. row.version + 1 \in 1 .. MaxVersion
    BY <1>1, <1>3 DEF Rows
  <2>2. (row.started \/ status # "skipped") \in BOOLEAN
    OBVIOUS
  <2> QED  BY <2>1, <2>2 DEF Changed, Rows
<1>4. Idle \in Requests
  BY DEF Idle, Requests
<1> QED  BY <1>2, <1>3, <1>4

LEMMA InitIInv == Init => IInv
<1> SUFFICES ASSUME Init PROVE IInv
  OBVIOUS
<1>1. PICK group \in {"absent", "plain", "retro"} :
        db = [group |-> group, category |-> [n \in Generations |-> "none"],
              order |-> [n \in Generations |-> None],
              platform |-> [s \in Slugs |-> None], game |-> [k \in Keys |-> None]]
  BY DEF Init
<1>2. db \in Databases /\ Rooted(db)
  BY <1>1 DEF Databases, Rooted
<1>3. TypeOK
  BY <1>2, RowTypes, CatalogueBounds DEF Init, TypeOK
<1>4. RoomToChange
  BY DEF Init, RoomToChange
<1> QED  BY <1>2, <1>3, <1>4 DEF IInv

\* Every change of the rows keeps them as they should be.
LEMMA DatabaseKept ==
  ASSUME IInv, [Next]_vars
  PROVE  db' \in Databases /\ Rooted(db')
<1>0. db \in Databases /\ Rooted(db)
  BY DEF IInv, TypeOK
<1>1. CASE UNCHANGED db
  BY <1>0, <1>1
<1>2. ASSUME NEW cat \in Catalogues, NEW deactivate \in BOOLEAN, import_catalog(cat, deactivate)
      PROVE  db' \in Databases /\ Rooted(db')
  <2>1. cat \in Seq(Entries)
    BY CataloguesAssumption
  <2>2. PICK result : result = _apply(db, cat, deactivate)
    OBVIOUS
  <2>3. Valid(cat) /\ result.ok /\ db' = result.db
    BY <1>2, <2>2 DEF import_catalog
  <2> QED  BY <1>0, <2>1, <2>2, <2>3, Imported
<1>3. ASSUME NEW k \in Keys, NEW name \in Generations, EditActivity(k, name)
      PROVE  db' \in Databases /\ Rooted(db')
  <2>1. PICK on \in BOOLEAN :
          db' = [db EXCEPT !.game[k].generation = name, !.game[k].active = on]
    BY <1>3 DEF EditActivity, Edit
  <2>2. db.game[k] \in Games /\ db.game[k] # None /\ db.category[name] = "own"
    BY <1>0, <1>3 DEF EditActivity, Databases
  <2> DEFINE g == [db.game[k] EXCEPT !.generation = name, !.active = on]
             games == [db.game EXCEPT ![k] = g]
  <2>3. g \in Games /\ g.generation = name /\ g.slug = db.game[k].slug
    BY <2>2 DEF Games
  <2>4. db' = [db EXCEPT !.game = games]
    BY <1>0, <2>1 DEF Databases
  <2> HIDE DEF g
  <2>5. games \in [Keys -> Games \cup {None}] /\ games[k] = g
        /\ \A j \in Keys : j # k => games[j] = db.game[j]
    BY <1>0, <2>3 DEF Databases
  <2> HIDE DEF games
  <2>6. /\ db' \in Databases /\ db'.game = games /\ db'.category = db.category
        /\ db'.platform = db.platform
    BY <1>0, <2>4, <2>5 DEF Databases
  <2>7. Rooted(db')
    BY <1>0, <2>2, <2>3, <2>5, <2>6 DEF Rooted
  <2> QED  BY <2>6, <2>7
<1>5. ASSUME NEW name \in Generations, NEW order \in Orders, OrderCategory(name, order)
      PROVE  db' \in Databases /\ Rooted(db')
  <2>1. db' = [db EXCEPT !.order[name] = order]
    BY <1>5 DEF OrderCategory, Edit
  <2>2. /\ db' \in Databases /\ db'.game = db.game /\ db'.platform = db.platform
        /\ db'.category = db.category
    BY <1>0, <2>1 DEF Databases
  <2> QED  BY <1>0, <2>2 DEF Rooted
<1>4. ASSUME NEW name \in Generations, NEW where \in {"own", "other"}, CreateCategory(name, where)
      PROVE  db' \in Databases /\ Rooted(db')
  <2>1. db' = [db EXCEPT !.category[name] = where] /\ db.category[name] = "none"
    BY <1>4 DEF CreateCategory, Edit
  <2>2. /\ db' \in Databases /\ db'.game = db.game /\ db'.platform = db.platform
        /\ db'.category = [db.category EXCEPT ![name] = where]
    BY <1>0, <2>1 DEF Databases
  <2>3. \A n \in Generations : db.category[n] = "own" => db'.category[n] = "own"
    BY <1>0, <2>1, <2>2 DEF Databases
  <2>4. /\ \A s \in Slugs : db.platform[s] # None => db.platform[s].generation \in Generations
        /\ \A k \in Keys : db.game[k] # None => db.game[k].generation \in Generations
    BY <1>0 DEF Databases, Platforms, Games
  <2>5. Rooted(db')
    BY <1>0, <2>2, <2>3, <2>4 DEF Rooted
  <2> QED  BY <2>2, <2>5
<1> QED
  BY <1>1, <1>2, <1>3, <1>4, <1>5
  DEF Next, vars, StartRetro, StartFromQueue, Complete, AskProgress, ChangeProgress,
      FindNoProgress, InsertProgress

LEMMA NextIInv == IInv /\ [Next]_vars => IInv'
<1> SUFFICES ASSUME IInv, [Next]_vars PROVE IInv'
  OBVIOUS
<1> USE DEF IInv
<1>0. db' \in Databases /\ Rooted(db')
  BY DatabaseKept
<1>1. MaxEdits \in Nat /\ MaxVersion \in Nat \ {0}
  BY CatalogueBounds
<1>2. CASE UNCHANGED <<progress, session, request>> /\ edits' \in 0 .. MaxEdits
  BY <1>0, <1>2 DEF TypeOK, RoomToChange
<1>3. ASSUME NEW k \in Keys, StartRetro(k)  PROVE IInv'
  <2>1. /\ session' \in [Keys -> {"none", "open", "played"}]
        /\ UNCHANGED <<request, edits>>
    BY <1>3 DEF StartRetro, TypeOK
  <2>2. progress' \in [Keys -> Rows \cup {None}]
    <3>1. ensure_started(progress[k]) \in Rows \cup {None}
      BY RowTypes DEF ensure_started, TypeOK, Statuses
    <3> QED  BY <1>3, <3>1 DEF StartRetro, TypeOK
  <2> QED  BY <1>0, <2>1, <2>2 DEF TypeOK, RoomToChange
<1>4. ASSUME NEW k \in Keys, StartFromQueue(k) \/ Complete(k)  PROVE IInv'
  <2>1. /\ session' \in [Keys -> {"none", "open", "played"}]
        /\ UNCHANGED <<progress, request, edits>>
    BY <1>4 DEF StartFromQueue, Complete, TypeOK
  <2> QED  BY <1>0, <2>1 DEF TypeOK, RoomToChange
<1>5. ASSUME NEW c \in Clients, NEW k \in Keys, NEW status \in Statuses, AskProgress(c, k, status)
      PROVE  IInv'
  <2> DEFINE r == [step |-> "sent", key |-> k, status |-> status, expected_version |-> VersionOf(k)]
  <2>1. VersionOf(k) \in 0 .. MaxVersion /\ VersionOf(k) < MaxVersion
    BY <1>1, <1>5 DEF AskProgress, VersionOf, TypeOK, Rows
  <2>2. r \in Requests /\ r.expected_version < MaxVersion
    BY <2>1 DEF Requests
  <2>3. request' = [request EXCEPT ![c] = r] /\ UNCHANGED <<progress, session, edits>>
    BY <1>5 DEF AskProgress
  <2> HIDE DEF r
  <2>4. request' \in [Clients -> Requests] /\ RoomToChange'
    BY <2>2, <2>3 DEF TypeOK, RoomToChange
  <2> QED  BY <1>0, <2>3, <2>4 DEF TypeOK
<1>6. ASSUME NEW c \in Clients, ChangeProgress(c)  PROVE IInv'
  <2> DEFINE r == request[c]
             row == progress[r.key]
  <2>1. /\ r # Idle /\ r.key \in Keys /\ r.status \in Statuses
        /\ r.expected_version < MaxVersion /\ row # None
    BY <1>6, Sent DEF ChangeProgress, RoomToChange
  <2>2. request' = [request EXCEPT ![c] = Idle] /\ UNCHANGED <<session, edits>>
    BY <1>6 DEF ChangeProgress
  <2>3. request' \in [Clients -> Requests] /\ RoomToChange'
    BY <2>2, RowTypes DEF TypeOK, RoomToChange
  <2>4. progress' \in [Keys -> Rows \cup {None}]
    <3>1. CASE UNCHANGED progress
      BY <3>1 DEF TypeOK
    <3>2. CASE progress' = [progress EXCEPT ![r.key] = Changed(row, r.status)] /\ ~Stale(r, row.version)
      <4>1. row \in Rows /\ row.version < MaxVersion
        BY <2>1, <3>2 DEF TypeOK, Stale
      <4>2. Changed(row, r.status) \in Rows
        BY <2>1, <4>1, RowTypes
      <4> QED  BY <3>2, <4>2 DEF TypeOK
    <3> QED  BY <1>6, <3>1, <3>2 DEF ChangeProgress
  <2> QED  BY <1>0, <2>2, <2>3, <2>4 DEF TypeOK
<1>7. ASSUME NEW c \in Clients, FindNoProgress(c)  PROVE IInv'
  <2> DEFINE r == request[c]
             q == [r EXCEPT !.step = "inserting"]
  <2>1. /\ request' = [request EXCEPT ![c] = IF Stale(r, 0) THEN Idle ELSE q]
        /\ UNCHANGED <<progress, session, edits>> /\ r.step = "sent"
    BY <1>7 DEF FindNoProgress
  <2>2. q \in Requests /\ q.expected_version < MaxVersion
    <3>1. /\ r # Idle /\ r.key \in Keys /\ r.status \in Statuses
          /\ r.expected_version \in 0 .. MaxVersion /\ r.expected_version < MaxVersion
          /\ r = [step |-> r.step, key |-> r.key, status |-> r.status,
                  expected_version |-> r.expected_version]
      BY <2>1, Sent DEF RoomToChange
    <3>2. q = [step |-> "inserting", key |-> r.key, status |-> r.status,
               expected_version |-> r.expected_version]
      BY <3>1
    <3> QED  BY <3>1, <3>2 DEF Requests
  <2> HIDE DEF q
  <2>3. request' \in [Clients -> Requests] /\ RoomToChange'
    BY <2>1, <2>2, RowTypes DEF TypeOK, RoomToChange
  <2> QED  BY <1>0, <2>1, <2>3 DEF TypeOK
<1>8. ASSUME NEW c \in Clients, InsertProgress(c)  PROVE IInv'
  <2> DEFINE r == request[c]
  <2>1. /\ request' = [request EXCEPT ![c] = Idle] /\ UNCHANGED <<session, edits>>
        /\ progress' = [progress EXCEPT ![r.key] = Inserted(progress[r.key], r.status)]
        /\ r.step = "inserting"
    BY <1>8 DEF InsertProgress
  <2>2. r.key \in Keys /\ r.status \in Statuses
    BY <2>1, Sent
  <2>3. Inserted(progress[r.key], r.status) \in Rows \cup {None}
    BY <2>2, RowTypes DEF Inserted, TypeOK
  <2>4. progress' \in [Keys -> Rows \cup {None}]
    BY <2>1, <2>3 DEF TypeOK
  <2>5. request' \in [Clients -> Requests] /\ RoomToChange'
    BY <2>1, RowTypes DEF TypeOK, RoomToChange
  <2> QED  BY <1>0, <2>1, <2>4, <2>5 DEF TypeOK
<1>9. ASSUME NEW cat \in Catalogues, NEW deactivate \in BOOLEAN, import_catalog(cat, deactivate)
      PROVE  IInv'
  BY <1>2, <1>9 DEF import_catalog, TypeOK
<1>10. ASSUME NEW k \in Keys, NEW name \in Generations, EditActivity(k, name)  PROVE IInv'
  <2>1. edits' \in 0 .. MaxEdits /\ UNCHANGED <<progress, session, request>>
    BY <1>1, <1>10 DEF EditActivity, Edit, TypeOK
  <2> QED  BY <1>2, <2>1
<1>11. ASSUME NEW name \in Generations, NEW where \in {"own", "other"}, CreateCategory(name, where)
       PROVE  IInv'
  <2>1. edits' \in 0 .. MaxEdits /\ UNCHANGED <<progress, session, request>>
    BY <1>1, <1>11 DEF CreateCategory, Edit, TypeOK
  <2> QED  BY <1>2, <2>1
<1>12. CASE UNCHANGED vars
  BY <1>2, <1>12 DEF vars, TypeOK
<1>13. ASSUME NEW name \in Generations, NEW order \in Orders, OrderCategory(name, order)
       PROVE  IInv'
  <2>1. edits' \in 0 .. MaxEdits /\ UNCHANGED <<progress, session, request>>
    BY <1>1, <1>13 DEF OrderCategory, Edit, TypeOK
  <2> QED  BY <1>2, <2>1
<1> QED
  BY <1>3, <1>4, <1>5, <1>6, <1>7, <1>8, <1>9, <1>10, <1>11, <1>12, <1>13, PlayedAssumption DEF Next

-----------------------------------------------------------------------------
(* The theorems.                                                            *)

LEMMA Inductive == Spec => []IInv
BY InitIInv, NextIInv, PTL DEF Spec

\* The rows, the progress and the requests have their types: a version never
\* passes its bound because a client whose version is stale changes nothing
\* (retro_progress.py:17-54).
THEOREM TypeCorrect == Spec => []TypeOK
<1>1. IInv => TypeOK
  BY DEF IInv
<1> QED  BY Inductive, <1>1, PTL

\* A repeated import of any catalogue the validator accepts is accepted,
\* leaves every row as it was and reports updates of exactly the generations
\* that share a name (retrogames_catalog_import.py:394-519).
THEOREM ReimportOfAnyCatalogue == Spec => []ReimportRewritesSharedNames
<1>1. IInv => ReimportRewritesSharedNames
  <2> SUFFICES ASSUME IInv, NEW cat \in Catalogues, NEW deactivate \in BOOLEAN,
                      Valid(cat), _apply(db, cat, deactivate).ok
               PROVE  LET first == _apply(db, cat, deactivate)
                          second == _apply(first.db, cat, deactivate)
                      IN /\ second.ok /\ second.db = first.db
                         /\ second.report.created \cup second.report.deactivated = {}
                         /\ second.report.updated = SharesName(cat)
    BY Zenon DEF ReimportRewritesSharedNames
  <2>1. cat \in Seq(Entries) /\ db \in Databases
    BY CataloguesAssumption DEF IInv, TypeOK
  <2>2. PICK first : first = _apply(db, cat, deactivate)
    OBVIOUS
  <2>3. PICK second : second = _apply(first.db, cat, deactivate)
    OBVIOUS
  <2>4. /\ second.ok /\ second.db = first.db
        /\ second.report.created \cup second.report.deactivated = {}
        /\ second.report.updated = SharesName(cat)
    BY <2>1, <2>2, <2>3, Repeated
  <2> QED  BY <2>2, <2>3, <2>4
<1> QED  BY Inductive, <1>1, PTL

\* The planner of --dry-run and the walk of the import say the same of any
\* catalogue the validator accepts, but for the generations with the name of
\* an earlier one, which the import reports updated
\* (retrogames_catalog_import.py:307-380 and :394-519).
THEOREM PlanIsTheImport == Spec => []PlanTellsTheImport
<1>1. IInv => PlanTellsTheImport
  <2> SUFFICES ASSUME IInv, NEW cat \in Catalogues, NEW deactivate \in BOOLEAN,
                      Valid(cat), _apply(db, cat, deactivate).ok, db.group = "retro"
               PROVE  _apply(db, cat, deactivate).report =
                        Reread(_plan(db, cat, deactivate), RepeatsName(cat))
    BY Zenon DEF PlanTellsTheImport, Reread
  <2>1. cat \in Seq(Entries) /\ db \in Databases /\ Rooted(db)
    BY CataloguesAssumption DEF IInv, TypeOK
  <2> QED  BY <2>1, Foretold
<1> QED  BY Inductive, <1>1, PTL

\* No status is replaced but by a client that had read it, with any number of
\* clients and starts of sessions at the same time (retro_progress.py:17-54).
THEOREM ReplacementsWereRead == Spec => ReplacedWasRead
<1> DEFINE A == \A k \in Keys :
       progress[k] # None /\ progress'[k] # progress[k] =>
         \E c \in Clients :
           /\ request[c] # Idle /\ request[c].key = k
           /\ request[c].expected_version = progress[k].version
<1>1. IInv /\ [Next]_vars => [A]_vars
  <2> SUFFICES ASSUME IInv, Next, NEW k \in Keys, progress[k] # None, progress'[k] # progress[k]
               PROVE  \E c \in Clients :
                        /\ request[c] # Idle /\ request[c].key = k
                        /\ request[c].expected_version = progress[k].version
    OBVIOUS
  <2>1. TypeOK
    BY DEF IInv
  <2>2. ASSUME NEW j \in Keys, StartRetro(j)  PROVE FALSE
    BY <2>1, <2>2 DEF StartRetro, ensure_started, TypeOK
  <2>3. ASSUME NEW c \in Clients, InsertProgress(c)  PROVE FALSE
    <3>1. progress' = [progress EXCEPT ![request[c].key] = Inserted(progress[request[c].key], request[c].status)]
      BY <2>3 DEF InsertProgress
    <3> QED  BY <2>1, <3>1 DEF Inserted, TypeOK
  <2>4. PICK c \in Clients : ChangeProgress(c)
    BY <2>2, <2>3, PlayedAssumption
    DEF Next, import_catalog, EditActivity, OrderCategory, CreateCategory, Edit, StartFromQueue, Complete,
        AskProgress, FindNoProgress
  <2>5. /\ request[c].step = "sent" /\ ~Stale(request[c], progress[request[c].key].version)
        /\ progress' = [progress EXCEPT ![request[c].key] =
                          Changed(progress[request[c].key], request[c].status)]
    BY <2>4 DEF ChangeProgress
  <2>6. request[c] # Idle /\ request[c].key = k
    BY <2>1, <2>5, Sent DEF TypeOK
  <2> QED  BY <2>5, <2>6 DEF Stale
<1>2. [][A]_vars <=> ReplacedWasRead
  BY DEF ReplacedWasRead
<1> QED  BY Inductive, <1>1, <1>2, PTL DEF Spec

\* Each game of the catalogue is in exactly one of the four lists
\* (retro_catalog.py:69-85).
THEOREM ListsAreAPartition == Spec => []ListsPartition
<1>1. IInv => ListsPartition
  <2> SUFFICES ASSUME TypeOK PROVE ListsPartition
    BY DEF IInv
  <2> DEFINE lists == <<NotStarted, InProgress, Finished("completed"), Finished("skipped")>>
  <2>1. \A k \in Keys : progress[k] # None => progress[k].status \in Statuses
    BY DEF TypeOK, Rows
  <2>2. \A k \in Keys : session[k] \in {"none", "open", "played"}
    BY DEF TypeOK
  <2>3. NotStarted \cup InProgress \cup Finished("completed") \cup Finished("skipped")
          = {k \in Keys : db.game[k] # None}
    BY <2>1, <2>2 DEF NotStarted, InProgress, Finished, Statuses
  <2>4. /\ NotStarted \cap InProgress = {} /\ NotStarted \cap Finished("completed") = {}
        /\ NotStarted \cap Finished("skipped") = {} /\ InProgress \cap Finished("completed") = {}
        /\ InProgress \cap Finished("skipped") = {}
        /\ Finished("completed") \cap Finished("skipped") = {}
    BY DEF NotStarted, InProgress, Finished
  <2>5. DOMAIN lists = 1 .. 4
    OBVIOUS
  <2>6. UNION {lists[i] : i \in DOMAIN lists} =
          NotStarted \cup InProgress \cup Finished("completed") \cup Finished("skipped")
    BY <2>5
  <2>7. \A i, j \in DOMAIN lists : i # j => lists[i] \cap lists[j] = {}
    BY <2>4, <2>5
  <2> QED  BY <2>3, <2>6, <2>7 DEF ListsPartition
<1> QED  BY Inductive, <1>1, PTL

=============================================================================
