-------------------------- MODULE WeeklyGoals_proofs --------------------------
(* Theorems about WeeklyGoals: types, and that in any week a goal is what   *)
(* the edits made so far say.                                               *)
EXTENDS WeeklyGoals, WellFoundedInduction, TLAPS

-----------------------------------------------------------------------------
(* Weeks.                                                                   *)

(* A bounded set of numbers has a greatest one.                             *)
LEMMA Greatest ==
  ASSUME NEW S \in SUBSET Nat, S # {}, NEW b \in Nat, \A x \in S : x <= b
  PROVE  Max(S) \in S /\ \A x \in S : x <= Max(S)
<1> DEFINE T == {b - x : x \in S}
           R == OpToRel(<, Nat)
<1>1. T \subseteq Nat /\ T # {}
  <2>1. \A x \in S : b - x \in Nat
    OBVIOUS
  <2> QED  BY <2>1
<1>2. PICK t \in T : \A y \in T : ~ (<<y, t>> \in R)
  <2> HIDE DEF T, R
  <2>1. IsWellFoundedOn(R, Nat)
    BY NatLessThanWellFounded DEF R
  <2> QED  BY <1>1, <2>1, WFMin
<1>3. \A y \in T : t <= y
  <2>1. \A i, j \in Nat : i < j => <<i, j>> \in R
    BY DEF OpToRel
  <2> HIDE DEF T, R
  <2>2. ASSUME NEW y \in T PROVE t <= y
    <3>1. y \in Nat /\ t \in Nat /\ ~(y < t)
      BY <1>1, <1>2, <2>1
    <3> QED  BY <3>1
  <2> QED  BY <2>2
<1>4. PICK m \in S : t = b - m
  BY <1>2
<1>5. \A x \in S : m >= x
  BY <1>3, <1>4
<1> QED  BY <1>4, <1>5 DEF Max

LEMMA MaxIs ==
  ASSUME NEW S \in SUBSET Nat, NEW m \in S, \A x \in S : x <= m
  PROVE  Max(S) = m
<1>1. PICK a : a = Max(S)
  OBVIOUS
<1>2. a \in S /\ \A x \in S : x <= a
  <2>1. S # {} /\ m \in Nat
    OBVIOUS
  <2> QED  BY <1>1, <2>1, Greatest
<1>3. a \in Nat /\ m \in Nat /\ a <= m /\ m <= a
  BY <1>2
<1> QED  BY <1>1, <1>3

LEMMA CurrentWeek ==
  ASSUME NEW n \in 0 .. MaxTime
  PROVE  /\ current_week(n) \in Weeks
         /\ n + 1 \in 0 .. MaxTime => current_week(n) <= current_week(n + 1)
BY GoalBounds, WeekAssumption DEF current_week, Weeks

-----------------------------------------------------------------------------
(* The inductive invariant.                                                 *)

Edits == [week : Weeks, change : Changes]
Fields == {"target", "active"}

\* The edits of a goal come in the order of their weeks, each with its
\* revision; the first one, of the creation, sets both fields.
History(k) ==
  /\ edits[k] \in Seq(Edits)
  /\ \A i \in DOMAIN edits[k] : edits[k][i].week <= current_week(now)
  /\ \A w \in Weeks : goal[k].revisions[w] # None <=> \E i \in DOMAIN edits[k] : edits[k][i].week = w
  /\ \A i \in DOMAIN edits[k] :
       edits[k][1].week <= edits[k][i].week
  /\ edits[k] # <<>> => edits[k][1].change.target # None /\ edits[k][1].change.active # None

\* What a request knows: an edit that is not stale is of no earlier week
\* than any other.
Asked(r) ==
  /\ r.step \in {"create", "edit"} => r.week <= current_week(now)
  /\ r.step = "read" => r.version < MaxVersion /\ r.version <= goal[r.key].version
  /\ r.step = "edit" =>
       /\ r.expected_version < MaxVersion /\ r.expected_version <= goal[r.key].version
       /\ ~Stale(r) => \A i \in DOMAIN edits[r.key] : edits[r.key][i].week <= r.week

IInv ==
  /\ TypeOK /\ edits = [k \in GoalKeys |-> edits[k]]
  /\ \A k \in GoalKeys : History(k)
  /\ \A c \in Clients : Asked(request[c])
  /\ EditsSayWhatHolds

-----------------------------------------------------------------------------
(* A goal is written in the last week it was edited in, or later.           *)

Revised(row, w) == {v \in Weeks : v <= w /\ row.revisions[v] # None}
Setting(log, w, field) == {i \in DOMAIN log : log[i].week <= w /\ log[i].change[field] # None}

LEMMA Bounded ==
  ASSUME NEW row, NEW w \in Weeks, Revised(row, w) # {}
  PROVE  /\ Max(Revised(row, w)) \in Weeks /\ Max(Revised(row, w)) <= w
         /\ row.revisions[Max(Revised(row, w))] # None
         /\ \A v \in Revised(row, w) : v <= Max(Revised(row, w))
<1>1. Revised(row, w) \in SUBSET Nat /\ w \in Nat /\ \A v \in Revised(row, w) : v <= w
  BY GoalBounds DEF Revised, Weeks
<1>2. Max(Revised(row, w)) \in Revised(row, w) /\ \A v \in Revised(row, w) : v <= Max(Revised(row, w))
  BY <1>1, Greatest
<1> QED  BY <1>2 DEF Revised

LEMMA LaterEdit ==
  ASSUME NEW log \in Seq(Edits), NEW e \in Edits, NEW next, next = Append(log, e)
  PROVE  /\ next \in Seq(Edits) /\ Len(next) = Len(log) + 1 /\ Len(log) \in Nat
         /\ DOMAIN next = DOMAIN log \cup {Len(log) + 1} /\ next[Len(log) + 1] = e
         /\ \A i \in DOMAIN log : next[i] = log[i]
         /\ \A i \in DOMAIN log : i \in Nat /\ i <= Len(log) /\ log[i] \in Edits
<1>1. \A i \in DOMAIN log : log[i] \in Edits
  OBVIOUS
<1> QED  BY <1>1

(* The field of the last of the edits that set it.                          *)
LEMMA LastOfField ==
  ASSUME NEW log \in Seq(Edits), NEW e \in Edits, \A i \in DOMAIN log : log[i].week <= e.week,
         NEW next, next = Append(log, e),
         NEW w \in Weeks, NEW field \in Fields
  PROVE  /\ w < e.week => Setting(next, w, field) = Setting(log, w, field)
         /\ w >= e.week /\ e.change[field] # None => Max(Setting(next, w, field)) = Len(log) + 1
         /\ w >= e.week /\ e.change[field] = None =>
              Setting(next, w, field) = Setting(log, e.week, field)
<1> DEFINE n == Len(log) + 1
<1>1. /\ DOMAIN next = DOMAIN log \cup {n} /\ \A i \in DOMAIN log : next[i] = log[i]
      /\ next[n] = e
      /\ \A i \in DOMAIN log : i \in Nat /\ i <= Len(log) /\ log[i].week \in Nat
      /\ Len(log) \in Nat /\ e.week \in Nat /\ w \in Nat
  <2>1. /\ DOMAIN next = DOMAIN log \cup {n} /\ \A i \in DOMAIN log : next[i] = log[i]
        /\ next[n] = e /\ Len(log) \in Nat
        /\ \A i \in DOMAIN log : i \in Nat /\ i <= Len(log) /\ log[i] \in Edits
    BY LaterEdit
  <2>2. w \in Nat /\ \A d \in Edits : d.week \in Nat
    BY GoalBounds DEF Weeks, Edits
  <2> QED  BY <2>1, <2>2
<1> HIDE DEF n
<1>2. ASSUME w < e.week PROVE Setting(next, w, field) = Setting(log, w, field)
  BY <1>1, <1>2 DEF Setting
<1>3. ASSUME w >= e.week, e.change[field] # None PROVE Max(Setting(next, w, field)) = n
  <2>1. n \in Setting(next, w, field)
    BY <1>1, <1>3 DEF Setting
  <2>2. Setting(next, w, field) \in SUBSET Nat /\ \A i \in Setting(next, w, field) : i <= n
    BY <1>1 DEF Setting, n
  <2> QED  BY <2>1, <2>2, MaxIs
<1>4. ASSUME w >= e.week, e.change[field] = None
      PROVE  Setting(next, w, field) = Setting(log, e.week, field)
  <2>1. \A i \in DOMAIN log : log[i].week <= w
    <3> SUFFICES ASSUME NEW i \in DOMAIN log PROVE log[i].week <= w
      OBVIOUS
    <3>1. log[i].week \in Nat /\ log[i].week <= e.week
      BY <1>1
    <3> QED  BY <1>1, <1>4, <3>1
  <2> QED  BY <1>1, <1>4, <2>1 DEF Setting
<1> QED  BY <1>2, <1>3, <1>4 DEF n

LEMMA LastIsAnEdit ==
  ASSUME NEW k \in GoalKeys, History(k), NEW log, log = edits[k], NEW w \in Weeks,
         \E i \in DOMAIN log : log[i].week <= w, NEW field \in {"target", "active"}
  PROVE  Max(Setting(log, w, field)) \in DOMAIN log
<1>1. /\ log \in Seq(Edits) /\ Len(log) \in Nat /\ DOMAIN log = 1 .. Len(log)
      /\ \A i \in DOMAIN log : log[1].week <= log[i].week
      /\ log # <<>> => log[1].change.target # None /\ log[1].change.active # None
  BY DEF History
<1>2. PICK i \in DOMAIN log : log[i].week <= w
  OBVIOUS
<1>3. 1 \in DOMAIN log /\ log # <<>>
  BY <1>1, <1>2
<1>4. log[1].week <= w
  <2>1. log[1] \in Edits /\ log[i] \in Edits
    BY <1>1, <1>2, <1>3
  <2>2. log[1].week \in Nat /\ log[i].week \in Nat /\ w \in Nat
    BY <2>1, GoalBounds DEF Edits, Weeks
  <2>3. log[1].week <= log[i].week
    BY <1>1
  <2> QED  BY <1>2, <2>2, <2>3
<1>5. 1 \in Setting(log, w, field)
  BY <1>1, <1>3, <1>4 DEF Setting
<1>6. Setting(log, w, field) \in SUBSET Nat /\ \A j \in Setting(log, w, field) : j <= Len(log)
  BY <1>1 DEF Setting
<1>7. Max(Setting(log, w, field)) \in Setting(log, w, field)
  BY <1>1, <1>5, <1>6, Greatest
<1> QED  BY <1>7 DEF Setting

LEMMA SaveStep ==
  ASSUME IInv, NEW k \in GoalKeys, NEW x \in Weeks, NEW change \in Changes, NEW holding \in Holding,
         goal[k].version < MaxVersion, Save(k, x, change, Write(k, x, holding)), now' = now,
         x <= current_week(now), \A i \in DOMAIN edits[k] : edits[k][i].week <= x,
         edits[k] = <<>> => change.target # None /\ change.active # None,
         holding = Replace(change, goals_for_week(k, x))
  PROVE  /\ goal' \in [GoalKeys -> GoalRows] /\ edits' = [q \in GoalKeys |-> edits'[q]]
         /\ \A q \in GoalKeys : Len(edits'[q]) = goal'[q].version /\ History(q)'
         /\ goal'[k].version = goal[k].version + 1
         /\ \A q \in GoalKeys \ {k} : goal'[q] = goal[q] /\ edits'[q] = edits[q]
         /\ EditsSayWhatHolds'
<1>1. TypeOK /\ History(k) /\ edits = [q \in GoalKeys |-> edits[q]] /\ goal \in [GoalKeys -> GoalRows]
      /\ goal[k].version \in Nat
  BY DEF IInv, TypeOK, GoalRows
<1>2. PICK log : log = edits[k]
  OBVIOUS
<1>3. PICK e : e = [week |-> x, change |-> change]
  OBVIOUS
<1>4. PICK next : next = Append(log, e)
  OBVIOUS
<1>5. e \in Edits /\ e.week = x /\ e.change = change
  BY <1>3 DEF Edits
<1>6. PICK row : row = Write(k, x, holding)
  OBVIOUS
<1>7. /\ row \in GoalRows /\ row.version = goal[k].version + 1
      /\ row.revisions[x] = holding
      /\ \A v \in Weeks : v # x => row.revisions[v] = goal[k].revisions[v]
  <2>1. goal[k] \in GoalRows /\ holding \in Holding \cup {None}
    BY <1>1
  <2>2. row = [goal[k] EXCEPT !.version = goal[k].version + 1,
                              !.revisions = [goal[k].revisions EXCEPT ![x] = holding]]
    BY <1>6, <2>1 DEF Write, GoalRows
  <2>3. goal[k].version + 1 \in 0 .. MaxVersion
    BY <2>1, GoalBounds DEF GoalRows
  <2>4. [goal[k].revisions EXCEPT ![x] = holding] \in [Weeks -> Holding \cup {None}]
    BY <2>1 DEF GoalRows
  <2> QED  BY <2>1, <2>2, <2>3, <2>4 DEF GoalRows
<1>8. /\ goal' \in [GoalKeys -> GoalRows] /\ goal'[k] = row
      /\ edits' = [q \in GoalKeys |-> edits'[q]] /\ edits'[k] = next
      /\ \A q \in GoalKeys \ {k} : goal'[q] = goal[q] /\ edits'[q] = edits[q]
  BY <1>1, <1>2, <1>3, <1>4, <1>6, <1>7 DEF Save
<1>9. /\ log \in Seq(Edits) /\ next \in Seq(Edits) /\ Len(next) = Len(log) + 1 /\ Len(log) \in Nat
      /\ DOMAIN next = DOMAIN log \cup {Len(log) + 1}
      /\ \A i \in DOMAIN log : next[i] = log[i]
      /\ next[Len(log) + 1].week = x /\ next[Len(log) + 1].change = change
  <2>1. log \in Seq(Edits)
    BY <1>1, <1>2 DEF History
  <2>2. /\ next \in Seq(Edits) /\ Len(next) = Len(log) + 1 /\ Len(log) \in Nat
        /\ DOMAIN next = DOMAIN log \cup {Len(log) + 1} /\ next[Len(log) + 1] = e
        /\ \A i \in DOMAIN log : next[i] = log[i]
    BY <1>4, <1>5, <2>1, LaterEdit
  <2> QED  BY <1>5, <2>1, <2>2
<1>10. \A i \in DOMAIN log : log[i].week <= e.week
  BY <1>2, <1>5
<1>11. \A v \in Weeks, f \in Fields :
         /\ v < x => Setting(next, v, f) = Setting(log, v, f)
         /\ v >= x /\ change[f] # None => Max(Setting(next, v, f)) = Len(log) + 1
         /\ v >= x /\ change[f] = None => Setting(next, v, f) = Setting(log, x, f)
  <2> SUFFICES ASSUME NEW v \in Weeks, NEW f \in Fields
               PROVE  /\ v < x => Setting(next, v, f) = Setting(log, v, f)
                      /\ v >= x /\ change[f] # None => Max(Setting(next, v, f)) = Len(log) + 1
                      /\ v >= x /\ change[f] = None => Setting(next, v, f) = Setting(log, x, f)
    OBVIOUS
  <2>1. log \in Seq(Edits) /\ e \in Edits
    BY <1>9, <1>5
  <2>2. /\ v < e.week => Setting(next, v, f) = Setting(log, v, f)
        /\ v >= e.week /\ e.change[f] # None => Max(Setting(next, v, f)) = Len(log) + 1
        /\ v >= e.week /\ e.change[f] = None => Setting(next, v, f) = Setting(log, e.week, f)
    BY <1>4, <1>10, <2>1, LastOfField
  <2> QED  BY <1>5, <2>2
<1>12. holding # None /\ None \notin Targets /\ x \in Nat /\ Weeks \subseteq Nat
  BY NoneAssumption, GoalBounds DEF Holding, Weeks
<1>13. History(k)'
  <2>1. \A w \in Weeks : row.revisions[w] # None <=> \E i \in DOMAIN next : next[i].week = w
    BY <1>1, <1>2, <1>7, <1>9, <1>12 DEF History
  <2>2. /\ \A i \in DOMAIN next : next[1].week <= next[i].week
        /\ next[1].change.target # None /\ next[1].change.active # None
    <3>1. CASE log = <<>>
      <4>1. Len(log) = 0 /\ DOMAIN next = {1}
        BY <1>9, <3>1
      <4>2. change.target # None /\ change.active # None
        BY <1>2, <3>1
      <4> QED  BY <1>9, <1>12, <4>1, <4>2
    <3>2. CASE log # <<>>
      <4>1. 1 \in DOMAIN log
        BY <1>9, <3>2
      <4>2. \A i \in DOMAIN log : log[1].week <= log[i].week
        BY <1>1, <1>2 DEF History
      <4>3. log[1].week <= x /\ log[1].change.target # None /\ log[1].change.active # None
        BY <1>1, <1>2, <3>2, <4>1 DEF History
      <4> QED  BY <1>9, <4>1, <4>2, <4>3
    <3> QED  BY <3>1, <3>2
  <2>4. \A i \in DOMAIN next : next[i].week <= current_week(now)
    BY <1>1, <1>2, <1>9 DEF History
  <2> QED  BY <1>8, <1>9, <2>1, <2>2, <2>4 DEF History
<1>14. ASSUME NEW q \in GoalKeys  PROVE  Len(edits'[q]) = goal'[q].version /\ History(q)'
  <2>1. CASE q = k
    BY <2>1, <1>1, <1>2, <1>7, <1>8, <1>9, <1>13 DEF TypeOK
  <2>2. CASE q # k
    BY <2>2, <1>8 DEF IInv, TypeOK, History
  <2> QED  BY <2>1, <2>2
<1>15. EditsSayWhatHolds'
  <2> SUFFICES ASSUME NEW q \in GoalKeys, NEW w \in Weeks,
                      \E i \in DOMAIN edits'[q] : edits'[q][i].week <= w
               PROVE  goals_for_week(q, w)'
                        = [target |-> LastSet(q, w, "target")', active |-> LastSet(q, w, "active")']
    BY DEF EditsSayWhatHolds
  <2>0. w \in Nat
    BY GoalBounds DEF Weeks
  <2>1. CASE q # k
    <3>1. goal'[q] = goal[q] /\ edits'[q] = edits[q]
      BY <2>1, <1>8
    <3>2. goals_for_week(q, w)' = goals_for_week(q, w)
      BY <3>1 DEF goals_for_week, RevisedBy
    <3>3. /\ LastSet(q, w, "target")' = LastSet(q, w, "target")
          /\ LastSet(q, w, "active")' = LastSet(q, w, "active")
      BY <3>1 DEF LastSet, Sets
    <3>4. goals_for_week(q, w) = [target |-> LastSet(q, w, "target"), active |-> LastSet(q, w, "active")]
      BY <3>1 DEF IInv, EditsSayWhatHolds
    <3> QED  BY <3>2, <3>3, <3>4
  <2>2. CASE q = k
    <3>1. goals_for_week(q, w)' = row.revisions[Max(Revised(row, w))]
      BY <2>2, <1>8 DEF goals_for_week, RevisedBy, Revised
    <3>2. \A field \in {"target", "active"} :
            LastSet(q, w, field)' = next[Max(Setting(next, w, field))].change[field]
      BY <2>2, <1>8 DEF LastSet, Sets, Setting
    <3>3. goals_for_week(k, w) = goal[k].revisions[Max(Revised(goal[k], w))]
      BY DEF goals_for_week, RevisedBy, Revised
    <3>4. \A v \in Weeks, field \in {"target", "active"} :
            LastSet(k, v, field) = log[Max(Setting(log, v, field))].change[field]
      BY <1>2 DEF LastSet, Sets, Setting
    <3>5. CASE w < x
      <4>1. \E i \in DOMAIN log : log[i].week <= w
        BY <2>2, <3>5, <1>8, <1>9, <1>12
      <4>2. Revised(row, w) = Revised(goal[k], w)
        <5>1. ASSUME NEW v \in Weeks, v <= w PROVE row.revisions[v] = goal[k].revisions[v]
          <6>1. v \in Nat /\ v # x
            BY <1>12, <2>0, <3>5, <5>1 DEF Weeks
          <6> QED  BY <1>7, <6>1
        <5> QED  BY <5>1 DEF Revised
      <4>3. Revised(row, w) # {}
        <5>1. PICK i \in DOMAIN log : log[i].week <= w
          BY <4>1
        <5>2. log[i].week \in Weeks /\ goal[k].revisions[log[i].week] # None
          <6>1. log[i] \in Edits
            BY <1>9, <5>1
          <6> QED  BY <1>1, <1>2, <6>1 DEF History, Edits
        <5> QED  BY <4>2, <5>1, <5>2 DEF Revised
      <4>4. goals_for_week(q, w)' = goals_for_week(k, w)
        <5>1. PICK m : m = Max(Revised(row, w))
          OBVIOUS
        <5>2. m \in Weeks /\ m <= w
          BY <4>3, <5>1, Bounded
        <5>3. m # x
          <6>1. m \in Nat
            BY <5>2 DEF Weeks
          <6> QED  BY <1>12, <2>0, <3>5, <5>2, <6>1
        <5> QED  BY <1>7, <3>1, <3>3, <4>2, <5>1, <5>2, <5>3
      <4>5. ASSUME NEW field \in {"target", "active"}
            PROVE  LastSet(q, w, field)' = LastSet(k, w, field)
        <5>1. Setting(next, w, field) = Setting(log, w, field)
          BY <1>11, <3>5 DEF Fields
        <5>2. Max(Setting(log, w, field)) \in DOMAIN log
          BY <1>1, <1>2, <4>1, LastIsAnEdit
        <5> QED  BY <1>9, <3>2, <3>4, <5>1, <5>2
      <4>6. goals_for_week(k, w) = [target |-> LastSet(k, w, "target"), active |-> LastSet(k, w, "active")]
        BY <1>2, <4>1 DEF IInv, EditsSayWhatHolds
      <4> QED  BY <4>4, <4>5, <4>6
    <3>6. CASE w >= x
      <4>1. Max(Revised(row, w)) = x
        <5>1. x \in Revised(row, w)
          BY <1>7, <1>12, <3>6 DEF Revised
        <5>2. Revised(row, w) \in SUBSET Nat /\ \A v \in Revised(row, w) : v <= x
          BY <1>1, <1>2, <1>7, <1>12 DEF Revised, History
        <5> QED  BY <5>1, <5>2, MaxIs
      <4>2. goals_for_week(q, w)' = Replace(change, goals_for_week(k, x))
        BY <1>7, <3>1, <4>1
      <4>3. ASSUME NEW field \in {"target", "active"}, change[field] # None
            PROVE  LastSet(q, w, field)' = change[field]
        <5>1. Max(Setting(next, w, field)) = Len(log) + 1
          BY <1>11, <3>6, <4>3 DEF Fields
        <5> QED  BY <1>9, <3>2, <5>1
      <4>4. ASSUME NEW field \in {"target", "active"}, change[field] = None
            PROVE  LastSet(q, w, field)' = goals_for_week(k, x)[field]
        <5>1. Setting(next, w, field) = Setting(log, x, field)
          BY <1>11, <3>6, <4>4 DEF Fields
        <5>2. log # <<>>
          BY <1>2, <4>4
        <5>3. \E i \in DOMAIN log : log[i].week <= x
          <6>1. 1 \in DOMAIN log
            BY <1>9, <5>2
          <6> QED  BY <1>2, <6>1
        <5>4. Max(Setting(log, x, field)) \in DOMAIN log
          BY <1>1, <1>2, <5>3, LastIsAnEdit
        <5>5. LastSet(q, w, field)' = LastSet(k, x, field)
          BY <1>9, <3>2, <3>4, <5>1, <5>4
        <5>6. goals_for_week(k, x) = [target |-> LastSet(k, x, "target"), active |-> LastSet(k, x, "active")]
          BY <1>2, <5>3 DEF IInv, EditsSayWhatHolds
        <5>7. goals_for_week(k, x)[field] = LastSet(k, x, field)
          BY <5>6
        <5> QED  BY <5>5, <5>7
      <4>5. LastSet(q, w, "target")' = IF change.target = None THEN goals_for_week(k, x).target ELSE change.target
        BY <4>3, <4>4
      <4>6. LastSet(q, w, "active")' = IF change.active = None THEN goals_for_week(k, x).active ELSE change.active
        BY <4>3, <4>4
      <4> QED  BY <4>2, <4>5, <4>6 DEF Replace
    <3>7. w < x \/ w >= x
      BY <1>12, <2>0
    <3> QED  BY <3>5, <3>6, <3>7
  <2> QED  BY <2>1, <2>2
<1> QED  BY <1>7, <1>8, <1>14, <1>15

-----------------------------------------------------------------------------
(* The steps.                                                               *)

LEMMA RequestTypes ==
  ASSUME NEW r \in Requests
  PROVE  /\ r.step = "create" => r.key \in GoalKeys /\ r.week \in Weeks /\ r.target \in Targets
         /\ r.step = "edit" => /\ r.key \in GoalKeys /\ r.week \in Weeks
                               /\ r.expected_version \in 1 .. MaxVersion /\ r.change \in Changes
         /\ r.step = "read" => r.key \in GoalKeys /\ r.version \in 1 .. MaxVersion
BY DEF Requests

LEMMA IdleIsAsked == Idle \in Requests /\ Asked(Idle) /\ Asked(Idle)'
BY DEF Idle, Requests, Asked

(* A client begins something.                                               *)
LEMMA AskStep ==
  ASSUME IInv, NEW c \in Clients, NEW r \in Requests, Set(c, r), Asked(r), UNCHANGED <<now, goal, edits>>
  PROVE  IInv'
<1>1. request \in [Clients -> Requests]
  BY DEF IInv, TypeOK
<1>2. request' = [request EXCEPT ![c] = r]
  BY DEF Set
<1>3. \A q \in Clients : Asked(request'[q])
  BY <1>1, <1>2 DEF IInv
<1>4. \A q \in Clients : Asked(request[q])'
  BY <1>3 DEF Asked, Stale
<1>5. TypeOK' /\ edits' = [k \in GoalKeys |-> edits'[k]]
  BY <1>1, <1>2 DEF IInv, TypeOK
<1>6. \A k \in GoalKeys : History(k)'
  BY DEF IInv, History
<1>7. EditsSayWhatHolds'
  BY DEF IInv, EditsSayWhatHolds, goals_for_week, RevisedBy, LastSet, Sets
<1> QED  BY <1>4, <1>5, <1>6, <1>7 DEF IInv

LEMMA AskCreateStep ==
  ASSUME IInv, NEW c \in Clients, NEW k \in GoalKeys, NEW t \in Targets, AskCreate(c, k, t)
  PROVE  IInv'
<1> DEFINE r == [step |-> "create", key |-> k, week |-> current_week(now), target |-> t]
<1>1. current_week(now) \in Weeks
  BY CurrentWeek DEF IInv, TypeOK
<1>2. r \in Requests
  BY <1>1 DEF Requests
<1>3. current_week(now) <= current_week(now)
  BY <1>1, GoalBounds DEF Weeks
<1>4. Asked(r)
  BY <1>3 DEF Asked
<1>5. Set(c, r) /\ UNCHANGED <<now, goal, edits>>
  BY DEF AskCreate
<1> HIDE DEF r
<1> QED  BY <1>2, <1>4, <1>5, AskStep

LEMMA RetrieveStep ==
  ASSUME IInv, NEW c \in Clients, NEW k \in GoalKeys, Retrieve(c, k)
  PROVE  IInv'
<1> DEFINE r == [step |-> "read", key |-> k, version |-> goal[k].version]
<1>1. goal[k].version \in 1 .. MaxVersion /\ goal[k].version < MaxVersion
  BY GoalBounds DEF IInv, TypeOK, GoalRows, Retrieve, Exists
<1>2. r \in Requests
  BY <1>1 DEF Requests
<1>3. Asked(r)
  BY <1>1 DEF Asked
<1>4. Set(c, r) /\ UNCHANGED <<now, goal, edits>>
  BY DEF Retrieve
<1> HIDE DEF r
<1> QED  BY <1>2, <1>3, <1>4, AskStep

(* What the client read is of the week of its request, or earlier.          *)
LEMMA AskUpdateStep ==
  ASSUME IInv, NEW c \in Clients, NEW change \in Changes, AskUpdate(c, change)
  PROVE  IInv'
<1>1. PICK k, v : k = request[c].key /\ v = request[c].version
  OBVIOUS
<1> DEFINE r == [step |-> "edit", key |-> k, week |-> current_week(now),
                 expected_version |-> v, change |-> change]
<1>2. k \in GoalKeys /\ v \in 1 .. MaxVersion /\ v < MaxVersion /\ v <= goal[k].version
  <2>1. request[c] \in Requests /\ Asked(request[c]) /\ request[c].step = "read"
    BY DEF IInv, TypeOK, AskUpdate
  <2> QED  BY <1>1, <2>1, RequestTypes DEF Asked
<1>3. current_week(now) \in Weeks
  BY CurrentWeek DEF IInv, TypeOK
<1>4. r \in Requests
  BY <1>2, <1>3 DEF Requests
<1>5. \A i \in DOMAIN edits[k] : edits[k][i].week <= current_week(now)
  BY <1>2 DEF IInv, History
<1>6. current_week(now) <= current_week(now)
  BY <1>3, GoalBounds DEF Weeks
<1>7. Asked(r)
  BY <1>2, <1>5, <1>6 DEF Asked
<1>8. Set(c, r) /\ UNCHANGED <<now, goal, edits>>
  BY <1>1 DEF AskUpdate
<1> HIDE DEF r
<1> QED  BY <1>4, <1>7, <1>8, AskStep

(* A request that writes a goal makes the others about it stale.            *)
LEMMA WriteStep ==
  ASSUME IInv, NEW c \in Clients, Set(c, Idle),
         NEW k \in GoalKeys, NEW x \in Weeks, NEW change \in Changes, NEW holding \in Holding,
         goal[k].version < MaxVersion, Save(k, x, change, Write(k, x, holding)), now' = now,
         x <= current_week(now), \A i \in DOMAIN edits[k] : edits[k][i].week <= x,
         edits[k] = <<>> => change.target # None /\ change.active # None,
         holding = Replace(change, goals_for_week(k, x))
  PROVE  IInv'
<1>1. /\ goal' \in [GoalKeys -> GoalRows] /\ edits' = [q \in GoalKeys |-> edits'[q]]
      /\ \A q \in GoalKeys : Len(edits'[q]) = goal'[q].version /\ History(q)'
      /\ goal'[k].version = goal[k].version + 1
      /\ \A q \in GoalKeys \ {k} : goal'[q] = goal[q] /\ edits'[q] = edits[q]
      /\ EditsSayWhatHolds'
  BY SaveStep
<1>2. request \in [Clients -> Requests] /\ request' = [request EXCEPT ![c] = Idle]
  BY DEF IInv, TypeOK, Set
<1>3. request' \in [Clients -> Requests]
  BY <1>2, IdleIsAsked
<1>4. TypeOK'
  BY <1>1, <1>3 DEF TypeOK, IInv
<1>5. goal[k].version \in Nat /\ MaxVersion \in Nat
  BY GoalBounds DEF IInv, TypeOK, GoalRows
<1>6. ASSUME NEW q \in Clients  PROVE  Asked(request[q])'
  <2>1. CASE q = c
    BY <1>2, <2>1, IdleIsAsked
  <2>2. CASE q # c
    <3>1. PICK r : r = request[q]
      OBVIOUS
    <3>2. request'[q] = r /\ r \in Requests /\ Asked(r)
      BY <1>2, <2>2, <3>1 DEF IInv
    <3>3. ASSUME r.step \in {"create", "edit"} PROVE r.week <= current_week(now)'
      BY <3>2, <3>3 DEF Asked, current_week
    <3>4. ASSUME r.step = "read" PROVE r.version < MaxVersion /\ r.version <= goal'[r.key].version
      <4>1. r.version \in Nat /\ r.version < MaxVersion /\ r.version <= goal[r.key].version /\ r.key \in GoalKeys
        BY <3>2, <3>4, RequestTypes, GoalBounds DEF Asked
      <4> QED  BY <1>1, <1>5, <4>1
    <3>5. ASSUME r.step = "edit"
          PROVE  /\ r.expected_version < MaxVersion /\ r.expected_version <= goal'[r.key].version
                 /\ ~Stale(r)' => \A i \in DOMAIN edits'[r.key] : edits'[r.key][i].week <= r.week
      <4>1. /\ r.expected_version \in Nat /\ r.expected_version < MaxVersion
            /\ r.expected_version <= goal[r.key].version /\ r.key \in GoalKeys
            /\ ~Stale(r) => \A i \in DOMAIN edits[r.key] : edits[r.key][i].week <= r.week
        BY <3>2, <3>5, RequestTypes, GoalBounds DEF Asked
      <4>2. CASE r.key = k
        BY <1>1, <1>5, <4>1, <4>2 DEF Stale
      <4>3. CASE r.key # k
        BY <1>1, <4>1, <4>3 DEF Stale
      <4> QED  BY <4>2, <4>3
    <3> QED  BY <3>2, <3>3, <3>4, <3>5 DEF Asked
  <2> QED  BY <2>1, <2>2
<1> QED  BY <1>1, <1>4, <1>6 DEF IInv

LEMMA CreateStep ==
  ASSUME IInv, NEW c \in Clients, create_goal(c)
  PROVE  IInv'
<1>1. PICK r : r = request[c]
  OBVIOUS
<1>2. PICK k : k = r.key
  OBVIOUS
<1>3. /\ r \in Requests /\ Asked(r) /\ r.step = "create" /\ Set(c, Idle) /\ now' = now
      /\ k \in GoalKeys /\ r.week \in Weeks /\ r.target \in Targets /\ r.week <= current_week(now)
  <2>1. r \in Requests /\ Asked(r) /\ r.step = "create" /\ Set(c, Idle) /\ now' = now
    BY <1>1 DEF IInv, TypeOK, create_goal
  <2> QED  BY <1>2, <2>1, RequestTypes DEF Asked
<1>4. CASE Exists(k)
  BY <1>1, <1>2, <1>3, <1>4, IdleIsAsked, AskStep DEF create_goal
<1>5. CASE ~Exists(k)
  <2> DEFINE initial == [target |-> r.target, active |-> TRUE]
  <2>1. Save(k, r.week, initial, Write(k, r.week, initial))
    BY <1>1, <1>2, <1>5 DEF create_goal
  <2>2. r.target # None /\ TRUE # None
    BY <1>3, NoneAssumption
  <2>3. initial \in Changes /\ initial \in Holding /\ initial.target # None /\ initial.active # None
    BY <1>3, <2>2 DEF Changes, Holding
  <2>4. initial = Replace(initial, goals_for_week(k, r.week))
    BY <2>2 DEF Replace
  <2>5. goal[k].version < MaxVersion /\ edits[k] = <<>>
    <3>1. goal[k].version \in Nat /\ goal[k].version = 0 /\ Len(edits[k]) = 0 /\ edits[k] \in Seq(Edits)
      BY <1>3, <1>5 DEF IInv, TypeOK, GoalRows, Exists, History
    <3> QED  BY <3>1, GoalBounds
  <2>6. \A i \in DOMAIN edits[k] : edits[k][i].week <= r.week
    BY <2>5
  <2> HIDE DEF initial
  <2> QED  BY <1>3, <2>1, <2>3, <2>4, <2>5, <2>6, WriteStep
<1> QED  BY <1>4, <1>5

LEMMA UpdateStep ==
  ASSUME IInv, NEW c \in Clients, update_goal(c)
  PROVE  IInv'
<1>1. PICK r : r = request[c]
  OBVIOUS
<1>2. PICK k : k = r.key
  OBVIOUS
<1>3. /\ r \in Requests /\ Asked(r) /\ r.step = "edit" /\ Set(c, Idle) /\ now' = now
      /\ k \in GoalKeys /\ r.week \in Weeks /\ r.change \in Changes /\ r.week <= current_week(now)
      /\ r.expected_version < MaxVersion
      /\ ~Stale(r) => \A i \in DOMAIN edits[k] : edits[k][i].week <= r.week
  <2>1. r \in Requests /\ Asked(r) /\ r.step = "edit" /\ Set(c, Idle) /\ now' = now
    BY <1>1 DEF IInv, TypeOK, update_goal
  <2> QED  BY <1>2, <2>1, RequestTypes DEF Asked
<1>4. CASE UNCHANGED <<goal, edits>>
  BY <1>3, <1>4, IdleIsAsked, AskStep
<1>5. CASE ~(Stale(r) \/ RevisedBy(k, r.week) = {})
  <2>1. PICK holding : holding = Replace(r.change, goals_for_week(k, r.week))
    OBVIOUS
  <2>2. Save(k, r.week, r.change, Write(k, r.week, holding))
    BY <1>1, <1>2, <1>5, <2>1 DEF update_goal
  <2>3. goals_for_week(k, r.week) \in Holding
    <3>1. PICK w : w = Max(Revised(goal[k], r.week))
      OBVIOUS
    <3>2. Revised(goal[k], r.week) # {}
      BY <1>5 DEF Revised, RevisedBy
    <3>3. w \in Weeks /\ goal[k].revisions[w] # None
      BY <1>3, <3>1, <3>2, Bounded
    <3>4. goal[k].revisions \in [Weeks -> Holding \cup {None}]
      BY <1>3 DEF IInv, TypeOK, GoalRows
    <3> QED  BY <3>1, <3>3, <3>4 DEF goals_for_week, RevisedBy, Revised
  <2>4. holding \in Holding
    BY <1>3, <2>1, <2>3 DEF Replace, Holding, Changes
  <2>5. goal[k].version < MaxVersion
    BY <1>2, <1>3, <1>5 DEF Stale
  <2>6. edits[k] # <<>>
    <3>1. PICK v \in Weeks : goal[k].revisions[v] # None
      BY <1>5 DEF RevisedBy
    <3>2. \E i \in DOMAIN edits[k] : edits[k][i].week = v
      BY <1>3, <3>1 DEF IInv, History
    <3> QED  BY <3>2
  <2> QED  BY <1>3, <1>5, <2>1, <2>2, <2>4, <2>5, <2>6, WriteStep
<1> QED  BY <1>1, <1>2, <1>4, <1>5 DEF update_goal

LEMMA TickStep ==
  ASSUME IInv, Tick
  PROVE  IInv'
<1>1. now \in 0 .. MaxTime /\ now + 1 \in 0 .. MaxTime /\ now' = now + 1 /\ UNCHANGED <<goal, request, edits>>
  BY GoalBounds DEF IInv, TypeOK, Tick
<1>2. /\ current_week(now) \in Nat /\ current_week(now)' \in Nat
      /\ current_week(now) <= current_week(now)'
  <2>1. current_week(now) \in Weeks /\ current_week(now + 1) \in Weeks /\ current_week(now) <= current_week(now + 1)
    BY <1>1, CurrentWeek
  <2>2. current_week(now)' = current_week(now + 1)
    BY <1>1 DEF current_week
  <2> QED  BY <2>1, <2>2, GoalBounds DEF Weeks
<1>3. TypeOK' /\ edits' = [k \in GoalKeys |-> edits'[k]]
  BY <1>1 DEF IInv, TypeOK
<1>4. ASSUME NEW k \in GoalKeys  PROVE  History(k)'
  <2>1. \A i \in DOMAIN edits[k] : edits[k][i].week <= current_week(now)'
    <3> SUFFICES ASSUME NEW i \in DOMAIN edits[k] PROVE edits[k][i].week <= current_week(now)'
      OBVIOUS
    <3>1. edits[k][i] \in Edits /\ edits[k][i].week <= current_week(now)
      BY <1>4 DEF IInv, History
    <3>2. edits[k][i].week \in Nat
      BY <3>1, GoalBounds DEF Edits, Weeks
    <3> QED  BY <1>2, <3>1, <3>2
  <2> QED  BY <1>1, <2>1 DEF IInv, History
<1>5. ASSUME NEW c \in Clients  PROVE  Asked(request[c])'
  <2>1. request[c] \in Requests /\ Asked(request[c])
    BY <1>5 DEF IInv, TypeOK
  <2>2. ASSUME request[c].step \in {"create", "edit"} PROVE request[c].week <= current_week(now)'
    <3>1. request[c].week \in Nat
      BY <2>1, <2>2, RequestTypes, GoalBounds DEF Weeks
    <3> QED  BY <1>2, <2>1, <2>2, <3>1 DEF Asked
  <2> QED  BY <1>1, <2>1, <2>2 DEF Asked, Stale
<1>6. EditsSayWhatHolds'
  BY <1>1 DEF IInv, EditsSayWhatHolds, goals_for_week, RevisedBy, LastSet, Sets
<1> QED  BY <1>3, <1>4, <1>5, <1>6 DEF IInv

LEMMA NoStep ==
  ASSUME IInv, UNCHANGED vars
  PROVE  IInv'
<1>1. UNCHANGED <<now, goal, request, edits>>
  BY DEF vars
<1>2. TypeOK' /\ edits' = [k \in GoalKeys |-> edits'[k]]
  BY <1>1 DEF IInv, TypeOK
<1>3. \A k \in GoalKeys : History(k)'
  BY <1>1 DEF IInv, History
<1>4. \A c \in Clients : Asked(request[c])'
  BY <1>1 DEF IInv, Asked, Stale
<1>5. EditsSayWhatHolds'
  BY <1>1 DEF IInv, EditsSayWhatHolds, goals_for_week, RevisedBy, LastSet, Sets
<1> QED  BY <1>2, <1>3, <1>4, <1>5 DEF IInv

LEMMA InitHasIInv == Init => IInv
<1> SUFFICES ASSUME Init PROVE IInv
  OBVIOUS
<1>1. /\ now = 0 /\ goal = [k \in GoalKeys |-> NoGoal]
      /\ request = [c \in Clients |-> Idle] /\ edits = [k \in GoalKeys |-> <<>>]
  BY DEF Init
<1>2. NoGoal \in GoalRows
  BY GoalBounds DEF NoGoal, GoalRows
<1>3. TypeOK
  BY <1>1, <1>2, GoalBounds, IdleIsAsked DEF TypeOK, NoGoal
<1>4. \A k \in GoalKeys : History(k)
  BY <1>1 DEF History, NoGoal
<1>5. \A c \in Clients : Asked(request[c])
  BY <1>1, IdleIsAsked
<1>6. EditsSayWhatHolds
  BY <1>1 DEF EditsSayWhatHolds
<1> QED  BY <1>1, <1>3, <1>4, <1>5, <1>6 DEF IInv

-----------------------------------------------------------------------------
(* The theorems.                                                            *)

(* The inductive invariant holds: an edit that is not stale is of the last  *)
(* week a goal was edited in or of a later one (weekly_goals.py update_goal).*)
THEOREM Invariance == Spec => []IInv
<1>1. Init => IInv
  BY InitHasIInv
<1>2. IInv /\ [Next]_vars => IInv'
  BY TickStep, AskCreateStep, CreateStep, RetrieveStep, AskUpdateStep, UpdateStep, NoStep DEF Next
<1> QED  BY <1>1, <1>2, PTL DEF Spec

(* Goals, revisions and requests have their types, and the version of a     *)
(* goal counts its edits, whatever the number of goals, clients and weeks.  *)
THEOREM GoalTypes == Spec => []TypeOK
<1>1. IInv => TypeOK
  BY DEF IInv
<1> QED  BY <1>1, Invariance, PTL

(* In every week a goal is what the last edits of that week or an earlier   *)
(* one said, though requests keep the week they began in (weekly_goals.py   *)
(* goals_for_week, update_goal).                                            *)
THEOREM GoalsAreWhatWasEdited == Spec => []EditsSayWhatHolds
<1>1. IInv => EditsSayWhatHolds
  BY DEF IInv
<1> QED  BY <1>1, Invariance, PTL
=============================================================================
