-------------------------- MODULE RoutinePlan_proofs --------------------------
(***************************************************************************)
(* Proofs about RoutinePlan, for any weeks, replacements and bounds: plans *)
(* keep their type and their revisions their order, no edit changes what   *)
(* the agenda said of the past about occurrences of past days, and none    *)
(* makes the agenda of a day unreadable.                                   *)
(***************************************************************************)
EXTENDS RoutinePlan, SequenceTheorems, TLAPS

(* The edits, as the plan q they make of plan p.                           *)
Revision(p, q, from, week) ==
  /\ q.revisions = Append(p.revisions, [from |-> from, week |-> week])
  /\ q.exceptions = p.exceptions
  /\ q.suspended = p.suspended
  /\ q.templateApplied \in BOOLEAN
Exception(p, q, origin, b, e) ==
  /\ q.exceptions = [p.exceptions EXCEPT ![<<origin, b>>] = e]
  /\ q.revisions = p.revisions
  /\ q.suspended = p.suspended
  /\ q.templateApplied = p.templateApplied
Suspension(p, q, date) ==
  /\ q.suspended \in {p.suspended \cup {date}, p.suspended \ {date}}
  /\ q.revisions = p.revisions
  /\ q.exceptions = p.exceptions
  /\ q.templateApplied = p.templateApplied
Bumped(p, q) ==
  /\ q = [version |-> q.version, templateApplied |-> q.templateApplied,
          revisions |-> q.revisions, exceptions |-> q.exceptions,
          suspended |-> q.suspended]
  /\ p.version < MaxVersion /\ q.version = p.version + 1

InOrder(revisions) ==
  \A i, j \in DOMAIN revisions : i < j => revisions[i].from < revisions[j].from

(* Every step is the next day or one of three edits of an editable date.    *)
IsRevision  == \E from \in Days, week \in Weeks :
                 IsEditable(from) /\ MayStart(from) /\ Revision(plan, plan', from, week)
IsException == \E origin \in Days, b \in Blocks, e \in {Cancelled} \cup Replacements :
                 IsEditable(origin) /\ Exception(plan, plan', origin, b, e)
IsSuspension == \E date \in Days : IsEditable(date) /\ Suspension(plan, plan', date)
IsEdit == /\ Bumped(plan, plan') /\ today' = today
          /\ IsRevision \/ IsException \/ IsSuspension

LEMMA ReviseIsEdit ==
  ASSUME TypeOK, NEW from \in Days, NEW week \in Weeks, NEW byTemplate \in BOOLEAN,
         Revise(from, week, byTemplate)
  PROVE  IsEdit
<1> DEFINE p == [plan EXCEPT !.revisions = Append(@, [from |-> from, week |-> week]),
                             !.templateApplied = @ \/ byTemplate]
<1>1. plan.version < MaxVersion /\ MayStart(from) /\ Save(p)
  BY DEF Revise
<1>2. plan' = [p EXCEPT !.version = @ + 1] /\ today' = today
  BY <1>1 DEF Save
<1>3. plan \in Plans
  BY DEF TypeOK
<1>4. Bumped(plan, plan')
  BY <1>1, <1>2, <1>3 DEF Bumped, Plans
<1>5. plan'.templateApplied = (plan.templateApplied \/ byTemplate)
  BY <1>2, <1>3 DEF Plans
<1>6. Revision(plan, plan', from, week)
  <2>1. plan.templateApplied \in BOOLEAN
    BY <1>3 DEF Plans
  <2>2. plan'.templateApplied \in BOOLEAN
    BY <1>5, <2>1
  <2> QED  BY <1>2, <1>3, <2>2 DEF Revision, Plans
<1> QED  BY <1>1, <1>2, <1>4, <1>6 DEF IsEdit, IsRevision, MayStart

LEMMA ExceptIsEdit ==
  ASSUME TypeOK, NEW origin \in Days, NEW b \in Blocks,
         NEW e \in {Cancelled} \cup Replacements, Except(origin, b, e)
  PROVE  IsEdit
<1> DEFINE p == [plan EXCEPT !.exceptions[<<origin, b>>] = e]
<1>1. plan.version < MaxVersion /\ IsEditable(origin) /\ Save(p)
  BY DEF Except
<1>2. plan' = [p EXCEPT !.version = @ + 1] /\ today' = today
  BY <1>1 DEF Save
<1>3. plan \in Plans
  BY DEF TypeOK
<1>4. Bumped(plan, plan')
  BY <1>1, <1>2, <1>3 DEF Bumped, Plans
<1>5. Exception(plan, plan', origin, b, e)
  BY <1>2, <1>3 DEF Exception, Plans
<1> QED  BY <1>1, <1>2, <1>4, <1>5 DEF IsEdit, IsException

LEMMA SuspendIsEdit ==
  ASSUME TypeOK, NEW date \in Days, Suspend(date) \/ Resume(date)
  PROVE  IsEdit
<1>1. PICK s \in {plan.suspended \cup {date}, plan.suspended \ {date}} :
        /\ plan.version < MaxVersion /\ IsEditable(date)
        /\ Save([plan EXCEPT !.suspended = s])
  BY DEF Suspend, Resume
<1>2. /\ plan' = [[plan EXCEPT !.suspended = s] EXCEPT !.version = @ + 1]
      /\ today' = today
  BY <1>1 DEF Save
<1>3. plan \in Plans
  BY DEF TypeOK
<1>4. Bumped(plan, plan')
  BY <1>1, <1>2, <1>3 DEF Bumped, Plans
<1>5. Suspension(plan, plan', date)
  BY <1>1, <1>2, <1>3 DEF Suspension, Plans
<1> QED  BY <1>1, <1>2, <1>4, <1>5 DEF IsEdit, IsSuspension

LEMMA NextIsEdit == TypeOK /\ Next => IsEdit \/ NextDay
<1> SUFFICES ASSUME TypeOK, Next, ~NextDay PROVE IsEdit
  OBVIOUS
<1>1. PICK d \in Days :
        \/ \E w \in Weeks : SaveRevision(d, w)
        \/ ApplyTemplate(d)
        \/ Suspend(d)
        \/ Resume(d)
        \/ \E b \in Blocks :
             \/ Cancel(d, b)
             \/ \E r \in Replacements : Move(d, b, r) \/ Shorten(d, b, r) \/ Replace(d, b, r)
  BY DEF Next
<1>2. CASE \E w \in Weeks : SaveRevision(d, w)
  BY <1>2, ReviseIsEdit DEF SaveRevision
<1>3. CASE ApplyTemplate(d)
  BY <1>3, ReviseIsEdit, RoutineAssumption DEF ApplyTemplate
<1>4. CASE Suspend(d) \/ Resume(d)
  BY <1>4, SuspendIsEdit
<1>5. ASSUME NEW b \in Blocks, Cancel(d, b) PROVE IsEdit
  BY <1>5, ExceptIsEdit DEF Cancel
<1>6. ASSUME NEW b \in Blocks, NEW r \in Replacements,
             Move(d, b, r) \/ Shorten(d, b, r) \/ Replace(d, b, r)
      PROVE IsEdit
  <2>1. Except(d, b, r)
    BY <1>6 DEF Move, Shorten, Replace
  <2> QED  BY <2>1, ExceptIsEdit
<1> QED  BY <1>1, <1>2, <1>3, <1>4, <1>5, <1>6

-----------------------------------------------------------------------------
(* Types.                                                                   *)
LEMMA InitTypes == Init => TypeOK
  BY RoutineAssumption DEF Init, TypeOK, Plans, Days

LEMMA EditTypes == TypeOK /\ IsEdit => TypeOK'
<1> SUFFICES ASSUME TypeOK, IsEdit PROVE TypeOK'
  OBVIOUS
<1> USE DEF Days
<1>1. plan \in Plans /\ InOrder(plan.revisions) /\ today \in 1..LastToday
  BY DEF TypeOK, InOrder
<1>2. plan'.version \in 0..MaxVersion
  BY <1>1, RoutineAssumption DEF IsEdit, Bumped, Plans
<1>3. /\ plan'.revisions \in Seq([from : Days, week : Weeks])
      /\ InOrder(plan'.revisions)
      /\ plan'.exceptions \in [Days \X Blocks -> {None, Cancelled} \cup Replacements]
      /\ plan'.suspended \in SUBSET Days
      /\ plan'.templateApplied \in BOOLEAN
  <2>1. CASE IsRevision
    <3>1. PICK from \in Days, week \in Weeks :
            MayStart(from) /\ Revision(plan, plan', from, week)
      BY <2>1 DEF IsRevision
    <3> DEFINE n == Len(plan.revisions)
    <3>2. plan.revisions \in Seq([from : Days, week : Weeks])
      BY <1>1 DEF Plans
    <3>3. \A i \in 1..n : plan.revisions[i].from < from
      <4> SUFFICES ASSUME NEW i \in 1..n PROVE plan.revisions[i].from < from
        OBVIOUS
      <4>1. plan.revisions # <<>> /\ n \in DOMAIN plan.revisions
        BY <3>2
      <4>2. plan.revisions[n].from < from
        BY <3>1, <4>1 DEF MayStart, Latest
      <4>3. /\ plan.revisions[i].from \in Nat
            /\ plan.revisions[n].from \in Nat
        <5>1. \A k \in 1..n : plan.revisions[k] \in [from : Days, week : Weeks]
          BY <3>2, ElementOfSeq
        <5>2. n \in 1..n
          BY <3>2, <4>1
        <5> QED  BY <5>1, <5>2, RoutineAssumption
      <4>4. i < n => plan.revisions[i].from < plan.revisions[n].from
        BY <1>1, <3>2, <4>1 DEF InOrder
      <4> QED  BY <4>2, <4>3, <4>4, <3>2
    <3>4. /\ plan'.revisions = Append(plan.revisions, [from |-> from, week |-> week])
          /\ [from |-> from, week |-> week] \in [from : Days, week : Weeks]
      BY <3>1 DEF Revision
    <3>5. plan'.revisions \in Seq([from : Days, week : Weeks])
      BY <3>2, <3>4
    <3>6. InOrder(plan'.revisions)
      <4>1. /\ DOMAIN plan'.revisions = 1..(n + 1)
            /\ \A i \in 1..n : plan'.revisions[i] = plan.revisions[i]
            /\ plan'.revisions[n + 1].from = from
        BY <3>2, <3>4
      <4>2. n \in Nat /\ DOMAIN plan.revisions = 1..n
        BY <3>2
      <4> QED  BY <4>1, <4>2, <3>3, <1>1 DEF InOrder
    <3> QED  BY <3>1, <3>5, <3>6, <1>1 DEF Revision, Plans
  <2>2. CASE IsException
    BY <2>2, <1>1 DEF IsException, Exception, Plans
  <2>3. CASE IsSuspension
    BY <2>3, <1>1 DEF IsSuspension, Suspension, Plans
  <2> QED  BY <2>1, <2>2, <2>3 DEF IsEdit
<1>4. plan' \in Plans
  BY <1>2, <1>3 DEF IsEdit, Bumped, Plans
<1> QED  BY <1>1, <1>3, <1>4 DEF TypeOK, IsEdit, InOrder

(* Every plan of every run has its type, and its revisions follow one       *)
(* another by date, as save_revision asks of a new one.                     *)
THEOREM PlanTypes == Spec => []TypeOK
<1>1. Init => TypeOK
  BY InitTypes
<1>2. TypeOK /\ [Next]_vars => TypeOK'
  <2> SUFFICES ASSUME TypeOK, [Next]_vars PROVE TypeOK'
    OBVIOUS
  <2>1. CASE IsEdit
    BY <2>1, EditTypes
  <2>2. CASE NextDay
    BY <2>2, RoutineAssumption DEF NextDay, TypeOK
  <2>3. CASE UNCHANGED vars
    BY <2>3 DEF vars, TypeOK
  <2> QED  BY <2>1, <2>2, <2>3, NextIsEdit
<1> QED  BY <1>1, <1>2, PTL DEF Spec

-----------------------------------------------------------------------------
(* The past.                                                                *)

\* Edit q of plan p leaves the occurrences and suspensions of past days.
SamePast(p, q) ==
  /\ \A o \in Int, b \in Blocks : o < today => Row(q, o, b) = Row(p, o, b)
  /\ \A d \in Int : d < today => (d \in q.suspended <=> d \in p.suspended)

(* A slot lies in one day.                                                  *)
LEMMA DaysAreApart ==
  ASSUME NEW d \in Int, NEW e \in Int, NEW x \in SlotsOf(d), x \in SlotsOf(e)
  PROVE  d = e
<1> DEFINE S == Slots
<1>1. S \in Nat /\ S > 0
  BY RoutineAssumption
<1>2. /\ x \in Int
      /\ d * S <= x /\ x < (d + 1) * S
      /\ e * S <= x /\ x < (e + 1) * S
  BY <1>1 DEF SlotsOf, Midnight
<1> HIDE DEF S
<1>3. ASSUME NEW a \in Int, NEW c \in Int, a < c PROVE (a + 1) * S <= c * S
  BY <1>1, <1>3
<1>4. ~(d < e) /\ ~(e < d)
  BY <1>1, <1>2, <1>3
<1> QED  BY <1>4

LEMMA ShownOfPast ==
  ASSUME SamePast(plan, plan'), plan.suspended \subseteq Int, plan'.suspended \subseteq Int,
         today \in Int, NEW o \in Int, NEW b \in Blocks, NEW day \in Int,
         o < today, day < today
  PROVE  Shown(plan', o, b) \cap SlotsOf(day) = Shown(plan, o, b) \cap SlotsOf(day)
<1>1. Row(plan', o, b) = Row(plan, o, b)
  BY DEF SamePast
<1>2. \A x \in SlotsOf(day) :
        x \in UNION {SlotsOf(d) : d \in plan'.suspended} <=>
        x \in UNION {SlotsOf(d) : d \in plan.suspended}
  <2> TAKE x \in SlotsOf(day)
  <2>1. \A d \in Int : x \in SlotsOf(d) => d = day
    BY DaysAreApart
  <2>2. day \in plan'.suspended <=> day \in plan.suspended
    BY DEF SamePast
  <2> QED  BY <2>1, <2>2
<1> QED  BY <1>1, <1>2 DEF Shown

(* A revision that is appended and begins after a day is not in force on it. *)
LEMMA LaterRevisionIsNotInForce ==
  ASSUME NEW r, NEW s, NEW n \in Nat, NEW o \in Int,
         DOMAIN r = 1..n, DOMAIN s = 1..(n + 1),
         \A i \in 1..n : s[i] = r[i],
         s[n + 1].from \in Int, o < s[n + 1].from
  PROVE  InForce(s, o) = InForce(r, o)
<1>1. ASSUME NEW i \in 1..(n + 1), i \in InForce(s, o)  PROVE  i \in InForce(r, o)
  <2>1. s[i].from <= o
    BY <1>1 DEF InForce
  <2>2. i \in 1..n
    <3> SUFFICES ASSUME i = n + 1 PROVE FALSE
      OBVIOUS
    <3> QED  BY <2>1
  <2>3. \A j \in 1..n : i < j => o < s[j].from
    BY <1>1 DEF InForce
  <2> QED  BY <2>1, <2>2, <2>3 DEF InForce
<1>2. ASSUME NEW i \in 1..n, i \in InForce(r, o)  PROVE  i \in InForce(s, o)
  <2>1. r[i].from <= o /\ \A j \in 1..n : i < j => o < r[j].from
    BY <1>2 DEF InForce
  <2>2. s[i].from <= o
    BY <2>1
  <2>3. ASSUME NEW j \in 1..(n + 1), i < j  PROVE  o < s[j].from
    <3>1. CASE j = n + 1
      BY <3>1
    <3>2. CASE j \in 1..n
      BY <2>1, <2>3, <3>2
    <3> QED  BY <3>1, <3>2
  <2> QED  BY <2>2, <2>3 DEF InForce
<1> QED  BY <1>1, <1>2 DEF InForce

LEMMA EditKeepsPast == TypeOK /\ IsEdit => SamePast(plan, plan')
<1> SUFFICES ASSUME TypeOK, IsEdit PROVE SamePast(plan, plan')
  OBVIOUS
<1>1. plan \in Plans /\ today \in Int
  BY RoutineAssumption DEF TypeOK, Days
<1>2. CASE IsRevision
  <2>1. PICK from \in Days, week \in Weeks :
          IsEditable(from) /\ Revision(plan, plan', from, week)
    BY <1>2 DEF IsRevision
  <2> DEFINE n == Len(plan.revisions)
  <2>2. plan.revisions \in Seq([from : Days, week : Weeks])
    BY <1>1 DEF Plans
  <2>3. /\ n \in Nat /\ DOMAIN plan.revisions = 1..n
        /\ DOMAIN plan'.revisions = 1..(n + 1)
        /\ \A i \in 1..n : plan'.revisions[i] = plan.revisions[i]
        /\ plan'.revisions[n + 1].from = from
    BY <2>1, <2>2 DEF Revision
  <2>4. from \in Int /\ today <= from
    BY <2>1, <1>1, RoutineAssumption DEF IsEditable, Days
  <2> SUFFICES ASSUME NEW o \in Int, NEW b \in Blocks, o < today
               PROVE  Row(plan', o, b) = Row(plan, o, b)
    BY <2>1 DEF SamePast, Revision
  <2>5. InForce(plan'.revisions, o) = InForce(plan.revisions, o)
    <3>1. plan'.revisions[n + 1].from \in Int /\ o < plan'.revisions[n + 1].from
      BY <2>3, <2>4, <1>1
    <3> HIDE DEF n
    <3> QED  BY <3>1, <2>3, LaterRevisionIsNotInForce
  <2>6. \A i \in InForce(plan.revisions, o) : plan'.revisions[i] = plan.revisions[i]
    BY <2>3 DEF InForce
  <2>7. HasBlock(plan', o, b) <=> HasBlock(plan, o, b)
    BY <2>5, <2>6 DEF HasBlock
  <2>8. HasBlock(plan, o, b) => Original(plan', o, b) = Original(plan, o, b)
    <3>1. HasBlock(plan, o, b) =>
            (CHOOSE i \in InForce(plan.revisions, o) : TRUE) \in InForce(plan.revisions, o)
      BY DEF HasBlock
    <3> QED  BY <3>1, <2>5, <2>6 DEF Original
  <2>9. ExceptionAt(plan', o, b) = ExceptionAt(plan, o, b)
    BY <2>1 DEF ExceptionAt, Revision
  <2> QED  BY <2>7, <2>8, <2>9 DEF Row
<1>3. CASE IsException
  <2>1. PICK origin \in Days, c \in Blocks, e \in {Cancelled} \cup Replacements :
          IsEditable(origin) /\ Exception(plan, plan', origin, c, e)
    BY <1>3 DEF IsException
  <2>2. plan.exceptions \in [Days \X Blocks -> {None, Cancelled} \cup Replacements]
    BY <1>1 DEF Plans
  <2> SUFFICES ASSUME NEW o \in Int, NEW b \in Blocks, o < today
               PROVE  Row(plan', o, b) = Row(plan, o, b)
    BY <2>1 DEF SamePast, Exception
  <2>3. o # origin
    BY <2>1, <1>1, RoutineAssumption DEF IsEditable, Days
  <2>4. ExceptionAt(plan', o, b) = ExceptionAt(plan, o, b)
    <3>1. plan'.exceptions = [plan.exceptions EXCEPT ![<<origin, c>>] = e]
      BY <2>1 DEF Exception
    <3>2. o \in Days => plan'.exceptions[<<o, b>>] = plan.exceptions[<<o, b>>]
      BY <3>1, <2>2, <2>3
    <3> QED  BY <3>2 DEF ExceptionAt
  <2>5. /\ HasBlock(plan', o, b) <=> HasBlock(plan, o, b)
        /\ Original(plan', o, b) = Original(plan, o, b)
    BY <2>1 DEF HasBlock, Original, Exception
  <2> QED  BY <2>4, <2>5 DEF Row
<1>4. CASE IsSuspension
  <2>1. PICK date \in Days : IsEditable(date) /\ Suspension(plan, plan', date)
    BY <1>4 DEF IsSuspension
  <2>2. \A o \in Int, b \in Blocks : Row(plan', o, b) = Row(plan, o, b)
    BY <2>1 DEF Row, HasBlock, Original, ExceptionAt, Suspension
  <2>3. \A d \in Int : d < today => d # date
    BY <2>1, <1>1, RoutineAssumption DEF IsEditable, Days
  <2> QED  BY <2>1, <2>2, <2>3 DEF SamePast, Suspension
<1> QED  BY <1>2, <1>3, <1>4 DEF IsEdit

(* What a step may do to the past, as PastIsKept says it.                   *)
KeptByStep ==
  /\ \A day \in Days : day < today - 1 => Agenda(plan', day) = Agenda(plan, day)
  /\ \A o, day \in Days, b \in Blocks :
       o < today /\ day < today =>
         Shown(plan', o, b) \cap SlotsOf(day) = Shown(plan, o, b) \cap SlotsOf(day)

LEMMA StepKeepsPast == TypeOK /\ [Next]_vars => [KeptByStep]_vars
<1>0. plan' = plan => KeptByStep
  BY DEF KeptByStep, Agenda
<1> SUFFICES ASSUME TypeOK, Next, plan' # plan PROVE KeptByStep
  BY <1>0 DEF vars
<1>1. IsEdit
  BY NextIsEdit DEF NextDay
<1>2. SamePast(plan, plan')
  BY <1>1, EditKeepsPast
<1>3. TypeOK'
  BY <1>1, EditTypes
<1>4. /\ plan.suspended \subseteq Int /\ plan'.suspended \subseteq Int
      /\ today \in Int
  BY <1>3, RoutineAssumption DEF TypeOK, Plans, Days
<1>5. \A o, day \in Int, b \in Blocks :
        o < today /\ day < today =>
          Shown(plan', o, b) \cap SlotsOf(day) = Shown(plan, o, b) \cap SlotsOf(day)
  BY <1>2, <1>4, ShownOfPast
<1>6. Days \subseteq Int
  BY RoutineAssumption DEF Days
<1>7. ASSUME NEW day \in Days, day < today - 1
      PROVE  Agenda(plan', day) = Agenda(plan, day)
  <2>1. \A x \in Origins(day, day) \X Blocks :
          Shown(plan', x[1], x[2]) \cap SlotsOf(day) = Shown(plan, x[1], x[2]) \cap SlotsOf(day)
    <3> TAKE x \in Origins(day, day) \X Blocks
    <3>1. x[1] \in Int /\ x[1] < today /\ x[2] \in Blocks
      BY <1>4, <1>6, <1>7 DEF Origins
    <3>2. day \in Int /\ day < today
      BY <1>4, <1>6, <1>7
    <3> QED  BY <1>5, <3>1, <3>2
  <2> QED  BY <2>1 DEF Agenda
<1> QED  BY <1>5, <1>6, <1>7 DEF KeptByStep

(* No edit rewrites what the agenda said before yesterday, nor what it said *)
(* of the past about occurrences of past days, for any weeks and moves.     *)
THEOREM PastIsKeptAlways == Spec => PastIsKept
<1>1. TypeOK /\ [Next]_vars => [KeptByStep]_vars
  BY StepKeepsPast
<1>2. Spec => [][KeptByStep]_vars
  BY <1>1, PlanTypes, PTL DEF Spec
<1> QED  BY <1>2 DEF PastIsKept, KeptByStep

-----------------------------------------------------------------------------
(* The agenda stays readable.                                               *)

LEMMA Midnights ==
  /\ \A a \in Int : Midnight(a) \in Int /\ Midnight(a + 1) = Midnight(a) + Slots
  /\ \A a, c \in Int : Midnight(a + c) = Midnight(a) + Midnight(c)
  /\ \A a, c \in Int : a <= c => Midnight(a) <= Midnight(c)
  /\ \A a, c \in Int : Midnight(a) < Midnight(c) => a < c
  /\ Midnight(0) = 0 /\ Slots \in Nat \ {0}
<1> DEFINE S == Slots
<1>1. S \in Nat \ {0}
  BY RoutineAssumption
<1> HIDE DEF S
<1>2. \A a \in Int : a * S \in Int /\ (a + 1) * S = a * S + S
  BY <1>1
<1>3. \A a, c \in Int : (a + c) * S = a * S + c * S
  BY <1>1
<1>4. ASSUME NEW a \in Int, NEW c \in Int, a <= c  PROVE a * S <= c * S
  BY <1>1, <1>4
<1>5. \A a, c \in Int : a * S < c * S => a < c
  BY <1>1, <1>2, <1>4
<1>6. 0 * S = 0
  BY <1>1
<1> QED  BY <1>1, <1>2, <1>3, <1>4, <1>5, <1>6 DEF Midnight, S

LEMMA Weekdays ==
  ASSUME NEW o \in Nat
  PROVE  /\ o % WeekLength \in 0 .. (WeekLength - 1) /\ o \div WeekLength \in Int
         /\ o = (o \div WeekLength) * WeekLength + (o % WeekLength)
<1> DEFINE W == WeekLength
<1>1. W \in Nat /\ W > 0
  BY RoutineAssumption
<1> HIDE DEF W
<1>2. o % W \in 0 .. (W - 1) /\ o \div W \in Int
  BY <1>1
<1>3. o = (o \div W) * W + (o % W)
  BY <1>1
<1> QED  BY <1>2, <1>3 DEF W

\* Neighbouring days lie in the same week or in neighbouring ones.
LEMMA WeeksApart ==
  ASSUME NEW W \in Nat \ {0}, NEW m \in Int, NEW n \in Int, NEW x \in 0 .. (W - 1), NEW y \in 0 .. (W - 1),
         m * W + x <= n * W + y + 1, n * W + y <= m * W + x + 1
  PROVE  m - n \in -1 .. 1
<1>1. (m - n) * W = m * W - n * W
  OBVIOUS
<1>2. (m - n) * W <= W /\ (m - n) * W >= -W
  BY <1>1
<1>3. ASSUME NEW k \in Int, k * W <= W, k * W >= -W  PROVE k \in -1 .. 1
  <2>1. ASSUME k >= 2 PROVE FALSE
    <3>1. k * W >= 2 * W
      BY <2>1
    <3> QED  BY <1>3, <3>1
  <2>2. ASSUME k <= -2 PROVE FALSE
    <3>1. k * W <= (-2) * W
      BY <2>2
    <3> QED  BY <1>3, <3>1
  <2> QED  BY <2>1, <2>2
<1> QED  BY <1>2, <1>3

LEMMA SpanBounds ==
  ASSUME NEW o \in Int, NEW r \in Placements, NEW s \in Span(o, r)
  PROVE  /\ s \in Int /\ Midnight(o - 1) <= s /\ s < Midnight(o + 3)
         /\ r.shift = 0 => Midnight(o) <= s /\ s < Midnight(o + 2)
<1>1. /\ r.shift \in -1 .. 1 /\ r.start \in 0 .. (Slots - 1) /\ r.end \in 1 .. (2 * Slots - 1)
      /\ Slots \in Nat
  BY Midnights DEF Placements
<1>0. PICK d \in Int : d = o + r.shift
  BY <1>1
<1>2. Midnight(d) \in Int
  BY Midnights
<1>3. s \in Int /\ Midnight(d) + r.start <= s /\ s <= Midnight(d) + r.end - 1
  BY <1>0, <1>1, <1>2 DEF Span
<1>4. Midnight(d + 2) = Midnight(d) + Slots + Slots
  <2>1. Midnight(d + 1) = Midnight(d) + Slots /\ d + 1 \in Int
    BY Midnights
  <2>2. Midnight((d + 1) + 1) = Midnight(d + 1) + Slots
    BY <2>1, Midnights
  <2>3. (d + 1) + 1 = d + 2
    OBVIOUS
  <2> QED  BY <2>1, <2>2, <2>3
<1>5. Midnight(d) <= s /\ s < Midnight(d + 2)
  BY <1>1, <1>2, <1>3, <1>4
<1>6. Midnight(o - 1) <= Midnight(d) /\ Midnight(d + 2) <= Midnight(o + 3)
  <2>1. o - 1 \in Int /\ o - 1 <= d /\ d + 2 \in Int /\ o + 3 \in Int /\ d + 2 <= o + 3
    BY <1>0, <1>1
  <2> QED  BY <2>1, Midnights
<1>7. Midnight(o - 1) \in Int /\ Midnight(o + 3) \in Int /\ Midnight(d + 2) \in Int
  <2>1. o - 1 \in Int /\ d + 2 \in Int /\ o + 3 \in Int
    OBVIOUS
  <2> QED  BY <2>1, Midnights
<1>8. Midnight(o - 1) <= s /\ s < Midnight(o + 3)
  BY <1>2, <1>3, <1>5, <1>6, <1>7
<1>9. r.shift = 0 => d = o
  BY <1>0
<1> QED  BY <1>3, <1>5, <1>8, <1>9

\* At most one revision is in force on a day.
LEMMA OneInForce ==
  ASSUME NEW n \in Nat, NEW r, DOMAIN r = 1 .. n, \A i \in 1 .. n : r[i].from \in Int,
         NEW day \in Int, NEW i \in InForce(r, day), NEW j \in InForce(r, day)
  PROVE  i = j
<1>1. i \in 1 .. n /\ j \in 1 .. n /\ r[i].from <= day /\ r[j].from <= day
  BY DEF InForce
<1>2. (i < j => day < r[j].from) /\ (j < i => day < r[i].from)
  BY <1>1 DEF InForce
<1> QED  BY <1>1, <1>2

\* The occurrence o of b lies where week says: not by an exception.
Regular(week, o, b) ==
  b \in DOMAIN week /\ week[b].weekday = o % WeekLength /\ o \in Nat

LEMMA Rows ==
  ASSUME NEW p \in Plans, NEW o \in Int, NEW b \in Blocks, Row(p, o, b) # {}
  PROVE  /\ \E r \in Placements : Row(p, o, b) = Span(o, r)
         /\ ExceptionAt(p, o, b) = None =>
              \E i \in InForce(p.revisions, o) :
                /\ p.revisions[i].week \in WeekTables
                /\ Regular(p.revisions[i].week, o, b)
                /\ Row(p, o, b) = Span(o, p.revisions[i].week[b].at)
<1> DEFINE R == p.revisions
           e == ExceptionAt(p, o, b)
<1>1. R \in Seq([from : Days, week : Weeks])
  BY DEF Plans
<1>2. /\ DOMAIN R = 1 .. Len(R) /\ Len(R) \in Nat
      /\ \A i \in 1 .. Len(R) : R[i] \in [from : Days, week : Weeks]
  <2>1. DOMAIN R = 1 .. Len(R) /\ Len(R) \in Nat
    BY <1>1
  <2>2. \A i \in 1 .. Len(R) : R[i] \in [from : Days, week : Weeks]
    BY <1>1, ElementOfSeq
  <2> QED  BY <2>1, <2>2
<1>3. \A i \in 1 .. Len(R) : R[i].from \in Int /\ R[i].from >= 1 /\ R[i].week \in WeekTables
  BY <1>2, RoutineAssumption DEF Days
<1>4. HasBlock(p, o, b) /\ e # Cancelled
  BY DEF Row
<1>5. PICK i \in InForce(R, o) : b \in DOMAIN R[i].week /\ R[i].week[b].weekday = o % WeekLength
  BY <1>4 DEF HasBlock
<1>6. i \in 1 .. Len(R) /\ R[i].from <= o
  BY <1>2, <1>5 DEF InForce
<1>7. o \in Nat /\ R[i].week \in WeekTables
  BY <1>3, <1>6
<1>8. (CHOOSE j \in InForce(R, o) : TRUE) = i
  <2>1. (CHOOSE j \in InForce(R, o) : TRUE) \in InForce(R, o)
    BY <1>5
  <2> HIDE DEF R
  <2> QED  BY <1>2, <1>3, <1>5, <2>1, OneInForce
<1>9. Original(p, o, b) = R[i].week[b].at
  BY <1>8 DEF Original
<1>10. Row(p, o, b) = Span(o, IF e = None THEN R[i].week[b].at ELSE e)
  BY <1>4, <1>9 DEF Row
<1>11. R[i].week[b].at \in Placements
  BY <1>5, <1>7 DEF WeekTables
<1>12. e # None => e \in Placements
  <2>1. p.exceptions \in [Days \X Blocks -> {None, Cancelled} \cup Replacements]
    BY DEF Plans
  <2>2. e # None => o \in Days /\ e = p.exceptions[<<o, b>>]
    BY DEF ExceptionAt
  <2>3. e # None => e \in {None, Cancelled} \cup Replacements
    BY <2>1, <2>2
  <2> QED  BY <1>4, <2>3, RoutineAssumption
<1>13. \E r \in Placements : Row(p, o, b) = Span(o, r)
  BY <1>10, <1>11, <1>12
<1>14. e = None => Row(p, o, b) = Span(o, R[i].week[b].at)
  BY <1>10
<1>15. Regular(R[i].week, o, b)
  BY <1>5, <1>7 DEF Regular
<1> QED  BY <1>5, <1>7, <1>13, <1>14, <1>15

\* No two occurrences share a slot of the agenda, on any day.
NoClash(p) ==
  \A o1, o2 \in Int, b1, b2 \in Blocks :
    <<o1, b1>> # <<o2, b2>> => Shown(p, o1, b1) \cap Shown(p, o2, b2) = {}

LEMMA RowBounds ==
  ASSUME NEW p \in Plans, NEW o \in Int, NEW b \in Blocks, NEW s \in Row(p, o, b)
  PROVE  /\ s \in Int /\ Midnight(o - 1) <= s /\ s < Midnight(o + 3)
         /\ ExceptionAt(p, o, b) = None => Midnight(o) <= s /\ s < Midnight(o + 2)
<1>1. PICK r \in Placements : Row(p, o, b) = Span(o, r)
  BY Rows
<1>2. s \in Int /\ Midnight(o - 1) <= s /\ s < Midnight(o + 3)
  BY <1>1, SpanBounds
<1>3. ASSUME ExceptionAt(p, o, b) = None  PROVE Midnight(o) <= s /\ s < Midnight(o + 2)
  <2>1. PICK week \in WeekTables : Regular(week, o, b) /\ Row(p, o, b) = Span(o, week[b].at)
    BY <1>3, Rows
  <2>2. week[b].at \in Placements /\ week[b].at.shift = 0
    BY <2>1 DEF WeekTables, Regular
  <2> QED  BY <2>1, <2>2, SpanBounds
<1> QED  BY <1>2, <1>3

\* The slots of a window that is readable belong to one occurrence each.
LEMMA WindowIsClear ==
  ASSUME NEW p \in Plans, NEW from \in Int, NEW to \in Int, Readable(p, from, to),
         NEW o1 \in Int, NEW b1 \in Blocks, NEW o2 \in Int, NEW b2 \in Blocks,
         <<o1, b1>> # <<o2, b2>>,
         NEW s \in Int, Midnight(from) <= s, s < Midnight(to + 1),
         s \in Shown(p, o1, b1), s \in Shown(p, o2, b2)
  PROVE  FALSE
<1>1. s \in Row(p, o1, b1) /\ s \in Row(p, o2, b2)
  BY DEF Shown
<1>2. ASSUME NEW o \in Int, NEW b \in Blocks, s \in Row(p, o, b)
      PROVE  <<o, b>> \in Expand(p, from, to)
  <2>1. Midnight(o - 1) <= s /\ s < Midnight(o + 3)
    BY <1>2, RowBounds
  <2>2. /\ o - 1 \in Int /\ o + 3 \in Int /\ to + 1 \in Int
        /\ Midnight(o - 1) \in Int /\ Midnight(o + 3) \in Int
        /\ Midnight(from) \in Int /\ Midnight(to + 1) \in Int
    <3>1. o - 1 \in Int /\ o + 3 \in Int /\ to + 1 \in Int
      OBVIOUS
    <3> QED  BY <3>1, Midnights
  <2>3. Midnight(o - 1) < Midnight(to + 1) /\ Midnight(from) < Midnight(o + 3)
    BY <2>1, <2>2
  <2>4. o - 1 < to + 1 /\ from < o + 3
    BY <2>2, <2>3, Midnights
  <2>5. o \in Origins(from, to)
    BY <2>4 DEF Origins
  <2>6. s \in Midnight(from)..(Midnight(to + 1) - 1)
    BY <2>2
  <2> DEFINE x == <<o, b>>
  <2>7. x \in Origins(from, to) \X Blocks /\ x[1] = o /\ x[2] = b
    BY <2>5
  <2>8. Row(p, x[1], x[2]) \cap (Midnight(from)..(Midnight(to + 1) - 1)) # {}
    BY <1>2, <2>6, <2>7
  <2> HIDE DEF x
  <2>9. x \in Expand(p, from, to)
    BY <2>7, <2>8 DEF Expand
  <2> QED  BY <2>9 DEF x
<1> DEFINE x == <<o1, b1>>
           y == <<o2, b2>>
<1>3. x \in Expand(p, from, to) /\ y \in Expand(p, from, to) /\ x # y
  BY <1>1, <1>2
<1>4. x[1] = o1 /\ x[2] = b1 /\ y[1] = o2 /\ y[2] = b2
  OBVIOUS
<1> HIDE DEF x, y
<1>5. Shown(p, x[1], x[2]) \cap Shown(p, y[1], y[2]) = {}
  BY <1>3 DEF Readable
<1> QED  BY <1>4, <1>5

\* So is every slot of an occurrence when the days around its own are read.
LEMMA OccurrenceIsClear ==
  ASSUME NEW p \in Plans, NEW o1 \in Int, NEW b1 \in Blocks, NEW o2 \in Int, NEW b2 \in Blocks,
         Readable(p, o1 - 2, o1 + 2), <<o1, b1>> # <<o2, b2>>
  PROVE  Shown(p, o1, b1) \cap Shown(p, o2, b2) = {}
<1> SUFFICES ASSUME NEW s \in Shown(p, o1, b1), s \in Shown(p, o2, b2)  PROVE FALSE
  OBVIOUS
<1>1. s \in Row(p, o1, b1)
  BY DEF Shown
<1>2. s \in Int /\ Midnight(o1 - 1) <= s /\ s < Midnight(o1 + 3)
  BY <1>1, RowBounds
<1>3. PICK from \in Int : from = o1 - 2
  OBVIOUS
<1>4. PICK to \in Int : to = o1 + 2
  OBVIOUS
<1>5. /\ o1 - 1 \in Int /\ from <= o1 - 1 /\ to + 1 = o1 + 3
  BY <1>3, <1>4
<1>6. Midnight(from) <= Midnight(o1 - 1) /\ Midnight(from) \in Int /\ Midnight(o1 - 1) \in Int
  BY <1>5, Midnights
<1>7. Midnight(from) <= s /\ s < Midnight(to + 1)
  BY <1>2, <1>5, <1>6
<1>8. Readable(p, from, to)
  BY <1>3, <1>4
<1> QED  BY <1>2, <1>7, <1>8, WindowIsClear

\* Two occurrences that a valid week places do not overlap.
LEMMA WeekIsClear ==
  ASSUME NEW week \in WeekTables, ValidWeek(week),
         NEW o1 \in Nat, NEW b1 \in Blocks, NEW o2 \in Nat, NEW b2 \in Blocks,
         <<o1, b1>> # <<o2, b2>>, Regular(week, o1, b1), Regular(week, o2, b2)
  PROVE  Span(o1, week[b1].at) \cap Span(o2, week[b2].at) = {}
<1> SUFFICES ASSUME NEW s \in Span(o1, week[b1].at), s \in Span(o2, week[b2].at)  PROVE FALSE
  OBVIOUS
<1>1. PICK r1 \in Placements : r1 = week[b1].at /\ r1.shift = 0
  BY DEF WeekTables, Regular
<1>2. PICK r2 \in Placements : r2 = week[b2].at /\ r2.shift = 0
  BY DEF WeekTables, Regular
<1>3. /\ s \in Int /\ Midnight(o1) <= s /\ s < Midnight(o1 + 2)
      /\ Midnight(o2) <= s /\ s < Midnight(o2 + 2)
  BY <1>1, <1>2, SpanBounds
<1>4. o1 < o2 + 2 /\ o2 < o1 + 2
  <2>1. /\ o1 + 2 \in Int /\ o2 + 2 \in Int /\ Midnight(o1) \in Int /\ Midnight(o2) \in Int
        /\ Midnight(o1 + 2) \in Int /\ Midnight(o2 + 2) \in Int
    <3>1. o1 + 2 \in Int /\ o2 + 2 \in Int
      OBVIOUS
    <3> QED  BY <3>1, Midnights
  <2>2. Midnight(o1) < Midnight(o2 + 2) /\ Midnight(o2) < Midnight(o1 + 2)
    BY <1>3, <2>1
  <2> QED  BY <2>1, <2>2, Midnights
<1>5. PICK m \in Int : m = o1 \div WeekLength /\ o1 = m * WeekLength + week[b1].weekday
  BY Weekdays DEF Regular
<1>6. PICK n \in Int : n = o2 \div WeekLength /\ o2 = n * WeekLength + week[b2].weekday
  BY Weekdays DEF Regular
<1>7. PICK x \in 0 .. (WeekLength - 1) : x = week[b1].weekday
  BY Weekdays DEF Regular
<1>8. PICK y \in 0 .. (WeekLength - 1) : y = week[b2].weekday
  BY Weekdays DEF Regular
<1>9. PICK W \in Nat \ {0} : W = WeekLength
  BY RoutineAssumption
<1>10. PICK k \in -1 .. 1 : k = m - n
  <2>1. /\ m * W + x <= n * W + y + 1 /\ n * W + y <= m * W + x + 1
        /\ x \in 0 .. (W - 1) /\ y \in 0 .. (W - 1)
    BY <1>4, <1>5, <1>6, <1>7, <1>8, <1>9
  <2> QED  BY <2>1, WeeksApart
<1>11. <<k, b1>> # <<0, b2>>
  <2>1. ASSUME k = 0, b1 = b2  PROVE FALSE
    BY <1>5, <1>6, <1>10, <2>1
  <2> QED  BY <2>1
<1> DEFINE at(i, b) == Span(i * WeekLength + week[b].weekday, week[b].at)
<1>12. at(k, b1) \cap at(0, b2) = {}
  <2>1. b1 \in DOMAIN week /\ b2 \in DOMAIN week /\ 0 \in -1 .. 1
    BY DEF Regular
  <2> QED  BY <1>11, <2>1 DEF ValidWeek
<1>13. k * W + x \in Int /\ n * W \in Int /\ y \in Int
  OBVIOUS
<1>14. PICK shift \in Int : shift = Midnight(n * W)
  BY <1>13, Midnights
<1>15. Midnight(o1) = shift + Midnight(k * W + x)
  <2>1. o1 = n * W + (k * W + x)
    <3>1. (n + k) * W = n * W + k * W
      OBVIOUS
    <3>2. m = n + k
      BY <1>10
    <3> QED  BY <1>5, <1>7, <1>9, <3>1, <3>2
  <2> QED  BY <1>13, <1>14, <2>1, Midnights
<1>16. Midnight(o2) = shift + Midnight(y)
  <2>1. o2 = n * W + y
    BY <1>6, <1>8, <1>9
  <2> QED  BY <1>13, <1>14, <2>1, Midnights
<1>17. /\ Midnight(k * W + x) \in Int /\ Midnight(y) \in Int
      /\ r1.start \in Int /\ r1.end \in Int /\ r2.start \in Int /\ r2.end \in Int
  <2>1. /\ r1.start \in Int /\ r1.end \in Int /\ r2.start \in Int /\ r2.end \in Int
    BY Midnights DEF Placements
  <2> QED  BY <1>13, <2>1, Midnights
<1>18. s \in (Midnight(o1) + r1.start)..(Midnight(o1) + r1.end - 1)
  <2>1. o1 + 0 = o1
    OBVIOUS
  <2> QED  BY <1>1, <2>1 DEF Span
<1>19. s \in (Midnight(o2) + r2.start)..(Midnight(o2) + r2.end - 1)
  <2>1. o2 + 0 = o2
    OBVIOUS
  <2> QED  BY <1>2, <2>1 DEF Span
<1>20. s - shift \in (Midnight(k * W + x) + r1.start)..(Midnight(k * W + x) + r1.end - 1)
  BY <1>15, <1>17, <1>18
<1>21. s - shift \in (Midnight(y) + r2.start)..(Midnight(y) + r2.end - 1)
  BY <1>16, <1>17, <1>19
<1>22. s - shift \in at(k, b1)
  <2>1. k * WeekLength + week[b1].weekday = k * W + x /\ (k * W + x) + 0 = k * W + x
    BY <1>7, <1>9, <1>13
  <2> QED  BY <1>1, <1>20, <2>1 DEF Span
<1>23. s - shift \in at(0, b2)
  <2>1. 0 * WeekLength + week[b2].weekday = y /\ y + 0 = y
    BY <1>8, <1>9, <1>13
  <2> QED  BY <1>2, <1>21, <2>1 DEF Span
<1> QED  BY <1>12, <1>22, <1>23

-----------------------------------------------------------------------------
(* The edits and the agenda.                                                *)

SameAgenda(p, q) ==
  p.revisions = q.revisions /\ p.exceptions = q.exceptions /\ p.suspended = q.suspended

LEMMA SavedAsChecked ==
  ASSUME NEW p, NEW q, SameAgenda(p, q), NoClash(p)
  PROVE  NoClash(q)
<1>1. \A o, b : Shown(q, o, b) = Shown(p, o, b)
  BY DEF SameAgenda, Shown, Row, HasBlock, Original, ExceptionAt
<1> QED  BY <1>1 DEF NoClash

\* An exception changes one occurrence.
LEMMA ExceptionKeepsClear ==
  ASSUME NEW p \in Plans, NoClash(p), NEW origin \in Days, NEW c \in Blocks, NEW e,
         NEW q \in Plans, q = [p EXCEPT !.exceptions[<<origin, c>>] = e],
         Readable(q, origin - 2, origin + 2)
  PROVE  NoClash(q)
<1> SUFFICES ASSUME NEW o1 \in Int, NEW o2 \in Int, NEW b1 \in Blocks, NEW b2 \in Blocks,
                    <<o1, b1>> # <<o2, b2>>
             PROVE  Shown(q, o1, b1) \cap Shown(q, o2, b2) = {}
  BY DEF NoClash
<1>1. /\ q.exceptions = [p.exceptions EXCEPT ![<<origin, c>>] = e]
      /\ q.revisions = p.revisions /\ q.suspended = p.suspended
      /\ p.exceptions \in [Days \X Blocks -> {None, Cancelled} \cup Replacements]
  BY DEF Plans
<1>2. ASSUME NEW o \in Int, NEW b \in Blocks, <<o, b>> # <<origin, c>>
      PROVE  Shown(q, o, b) = Shown(p, o, b)
  <2>1. o \in Days => q.exceptions[<<o, b>>] = p.exceptions[<<o, b>>]
    BY <1>1, <1>2
  <2>2. ExceptionAt(q, o, b) = ExceptionAt(p, o, b)
    BY <2>1 DEF ExceptionAt
  <2>3. /\ HasBlock(q, o, b) <=> HasBlock(p, o, b)
        /\ Original(q, o, b) = Original(p, o, b)
    BY <1>1 DEF HasBlock, Original
  <2> QED  BY <1>1, <2>2, <2>3 DEF Shown, Row
<1>3. origin \in Int
  BY RoutineAssumption DEF Days
<1>4. CASE o1 = origin /\ b1 = c
  BY <1>3, <1>4, OccurrenceIsClear
<1>5. CASE o2 = origin /\ b2 = c
  <2>1. Shown(q, o2, b2) \cap Shown(q, o1, b1) = {}
    BY <1>3, <1>5, OccurrenceIsClear
  <2> QED  BY <2>1
<1>6. CASE ~(o1 = origin /\ b1 = c) /\ ~(o2 = origin /\ b2 = c)
  <2>1. Shown(q, o1, b1) = Shown(p, o1, b1) /\ Shown(q, o2, b2) = Shown(p, o2, b2)
    BY <1>2, <1>6
  <2> QED  BY <2>1 DEF NoClash
<1> QED  BY <1>4, <1>5, <1>6

\* Suspended days only take slots away.
LEMMA SuspensionKeepsClear ==
  ASSUME NEW p, NoClash(p), NEW date, NEW q, q.suspended = p.suspended \cup {date},
         q.revisions = p.revisions, q.exceptions = p.exceptions
  PROVE  NoClash(q)
<1>1. \A o, b : Row(q, o, b) = Row(p, o, b)
  BY DEF Row, HasBlock, Original, ExceptionAt
<1>2. \A o, b : Shown(q, o, b) \subseteq Shown(p, o, b)
  BY <1>1 DEF Shown
<1>3. ASSUME NEW o1 \in Int, NEW o2 \in Int, NEW b1 \in Blocks, NEW b2 \in Blocks,
             <<o1, b1>> # <<o2, b2>>
      PROVE  Shown(q, o1, b1) \cap Shown(q, o2, b2) = {}
  <2>1. Shown(p, o1, b1) \cap Shown(p, o2, b2) = {}
    BY <1>3 DEF NoClash
  <2> QED  BY <1>2, <2>1
<1> QED  BY <1>3 DEF NoClash

\* A day that is resumed gives back only its own slots.
LEMMA ResumptionKeepsClear ==
  ASSUME NEW p \in Plans, NoClash(p), NEW date \in Days, NEW q \in Plans,
         q.suspended = p.suspended \ {date},
         q.revisions = p.revisions, q.exceptions = p.exceptions,
         Readable(q, date - 2, date + 2)
  PROVE  NoClash(q)
<1> SUFFICES ASSUME NEW o1 \in Int, NEW o2 \in Int, NEW b1 \in Blocks, NEW b2 \in Blocks,
                    <<o1, b1>> # <<o2, b2>>,
                    NEW s \in Shown(q, o1, b1), s \in Shown(q, o2, b2)
             PROVE  FALSE
  BY DEF NoClash
<1>1. \A o, b : Row(q, o, b) = Row(p, o, b)
  BY DEF Row, HasBlock, Original, ExceptionAt
<1>2. ~(s \in Shown(p, o1, b1) /\ s \in Shown(p, o2, b2))
  BY DEF NoClash
<1>3. s \in SlotsOf(date)
  BY <1>1, <1>2 DEF Shown
<1>4. PICK from \in Int : from = date - 2
  BY RoutineAssumption DEF Days
<1>5. PICK to \in Int : to = date + 2
  BY RoutineAssumption DEF Days
<1>6. date \in Int /\ date + 1 \in Int /\ to + 1 \in Int /\ from <= date /\ date + 1 <= to + 1
  BY <1>4, <1>5, RoutineAssumption DEF Days
<1>7. /\ Midnight(from) \in Int /\ Midnight(date) \in Int /\ Midnight(date + 1) \in Int
      /\ Midnight(to + 1) \in Int
      /\ Midnight(from) <= Midnight(date) /\ Midnight(date + 1) <= Midnight(to + 1)
  BY <1>6, Midnights
<1>8. s \in Int /\ Midnight(from) <= s /\ s < Midnight(to + 1)
  BY <1>3, <1>7 DEF SlotsOf
<1>9. Readable(q, from, to)
  BY <1>4, <1>5
<1> QED  BY <1>8, <1>9, WindowIsClear

\* A revision: the occurrences before it stay, those from it on follow its
\* week or an exception, around which the agenda was read.
LEMMA RevisionKeepsClear ==
  ASSUME NEW p \in Plans, NoClash(p), NEW from \in Days, NEW week \in Weeks, ValidWeek(week),
         NEW q \in Plans,
         q.revisions = Append(p.revisions, [from |-> from, week |-> week]),
         q.exceptions = p.exceptions, q.suspended = p.suspended,
         Readable(q, from - 2, from + 2),
         \A o \in Days, b \in Blocks :
           o >= from /\ p.exceptions[<<o, b>>] # None => Readable(q, o - 2, o + 2)
  PROVE  NoClash(q)
<1> DEFINE n == Len(p.revisions)
<1>0. from \in Int
  BY RoutineAssumption DEF Days
<1>1. /\ n \in Nat /\ DOMAIN p.revisions = 1..n /\ DOMAIN q.revisions = 1..(n + 1)
      /\ \A i \in 1..n : q.revisions[i] = p.revisions[i]
      /\ q.revisions[n + 1] = [from |-> from, week |-> week]
  <2>1. p.revisions \in Seq([from : Days, week : Weeks])
    BY DEF Plans
  <2> QED  BY <2>1
<1> HIDE DEF n
<1>2. ASSUME NEW o \in Int, NEW b \in Blocks, o < from
      PROVE  Shown(q, o, b) = Shown(p, o, b)
  <2>1. InForce(q.revisions, o) = InForce(p.revisions, o)
    <3>1. q.revisions[n + 1].from \in Int /\ o < q.revisions[n + 1].from
      BY <1>0, <1>1, <1>2
    <3> QED  BY <1>1, <3>1, LaterRevisionIsNotInForce
  <2>2. \A i \in InForce(p.revisions, o) : q.revisions[i] = p.revisions[i]
    BY <1>1 DEF InForce
  <2>3. HasBlock(q, o, b) <=> HasBlock(p, o, b)
    BY <2>1, <2>2 DEF HasBlock
  <2>4. HasBlock(p, o, b) => Original(q, o, b) = Original(p, o, b)
    <3>1. HasBlock(p, o, b) =>
            (CHOOSE i \in InForce(p.revisions, o) : TRUE) \in InForce(p.revisions, o)
      BY DEF HasBlock
    <3> QED  BY <3>1, <2>1, <2>2 DEF Original
  <2>5. ExceptionAt(q, o, b) = ExceptionAt(p, o, b)
    BY DEF ExceptionAt
  <2> QED  BY <2>3, <2>4, <2>5 DEF Row, Shown
<1>3. ASSUME NEW o \in Int, NEW b \in Blocks, o >= from, ExceptionAt(q, o, b) # None,
             NEW x \in Int, NEW c \in Blocks, <<o, b>> # <<x, c>>
      PROVE  Shown(q, o, b) \cap Shown(q, x, c) = {}
  <2>1. o \in Days /\ p.exceptions[<<o, b>>] # None
    BY <1>3 DEF ExceptionAt
  <2>2. Readable(q, o - 2, o + 2)
    BY <1>3, <2>1
  <2> QED  BY <1>3, <2>2, OccurrenceIsClear
<1>4. ASSUME NEW o \in Int, NEW b \in Blocks, o >= from, ExceptionAt(q, o, b) = None,
             Row(q, o, b) # {}
      PROVE  Regular(week, o, b) /\ Row(q, o, b) = Span(o, week[b].at)
  <2>1. PICK i \in InForce(q.revisions, o) :
          /\ Regular(q.revisions[i].week, o, b)
          /\ Row(q, o, b) = Span(o, q.revisions[i].week[b].at)
    BY <1>4, Rows
  <2>2. i = n + 1
    <3>1. i \in 1..(n + 1) /\ \A j \in 1..(n + 1) : i < j => o < q.revisions[j].from
      BY <1>1 DEF InForce
    <3>2. n + 1 \in 1..(n + 1) /\ q.revisions[n + 1].from = from
      BY <1>1
    <3>3. ~(i < n + 1)
      <4>1. PICK m \in 1..(n + 1) : m = n + 1 /\ q.revisions[m].from = from
        BY <3>2
      <4>2. i < m => o < from
        BY <3>1, <4>1
      <4> QED  BY <1>0, <1>4, <4>1, <4>2
    <3> QED  BY <1>1, <3>1, <3>3
  <2>3. q.revisions[i].week = week
    BY <1>1, <2>2
  <2> QED  BY <2>1, <2>3
\* An occurrence before the revision and one of its week.
<1>5. ASSUME NEW o \in Int, NEW b \in Blocks, NEW x \in Int, NEW c \in Blocks,
             o >= from, x < from, ExceptionAt(q, o, b) = None
      PROVE  Shown(q, o, b) \cap Shown(q, x, c) = {}
  <2> SUFFICES ASSUME NEW s \in Shown(q, o, b), s \in Shown(q, x, c)  PROVE FALSE
    OBVIOUS
  <2>1. s \in Row(q, o, b) /\ s \in Row(q, x, c)
    BY DEF Shown
  <2>2. s \in Int /\ Midnight(o) <= s /\ s < Midnight(x + 3)
    BY <1>5, <2>1, RowBounds
  <2>3. PICK f \in Int : f = from - 2
    BY <1>0
  <2>4. PICK t \in Int : t = from + 2
    BY <1>0
  <2>5. x + 3 \in Int /\ t + 1 \in Int /\ f <= o /\ x + 3 <= t + 1
    BY <1>0, <1>5, <2>3, <2>4
  <2>6. /\ Midnight(f) \in Int /\ Midnight(o) \in Int /\ Midnight(x + 3) \in Int
        /\ Midnight(t + 1) \in Int
        /\ Midnight(f) <= Midnight(o) /\ Midnight(x + 3) <= Midnight(t + 1)
    BY <2>5, Midnights
  <2>7. Midnight(f) <= s /\ s < Midnight(t + 1)
    BY <2>2, <2>6
  <2>8. Readable(q, f, t) /\ <<o, b>> # <<x, c>>
    BY <1>0, <1>5, <2>3, <2>4
  <2> QED  BY <2>2, <2>7, <2>8, WindowIsClear
<1> SUFFICES ASSUME NEW o1 \in Int, NEW o2 \in Int, NEW b1 \in Blocks, NEW b2 \in Blocks,
                    <<o1, b1>> # <<o2, b2>>
             PROVE  Shown(q, o1, b1) \cap Shown(q, o2, b2) = {}
  BY DEF NoClash
<1>6. CASE o1 < from /\ o2 < from
  <2>1. Shown(q, o1, b1) = Shown(p, o1, b1) /\ Shown(q, o2, b2) = Shown(p, o2, b2)
    BY <1>2, <1>6
  <2> QED  BY <2>1 DEF NoClash
<1>7. CASE o1 >= from /\ ExceptionAt(q, o1, b1) # None
  BY <1>3, <1>7
<1>8. CASE o2 >= from /\ ExceptionAt(q, o2, b2) # None
  <2>1. Shown(q, o2, b2) \cap Shown(q, o1, b1) = {}
    BY <1>3, <1>8
  <2> QED  BY <2>1
<1>9. CASE o1 >= from /\ ExceptionAt(q, o1, b1) = None /\ o2 < from
  BY <1>5, <1>9
<1>10. CASE o2 >= from /\ ExceptionAt(q, o2, b2) = None /\ o1 < from
  <2>1. Shown(q, o2, b2) \cap Shown(q, o1, b1) = {}
    BY <1>5, <1>10
  <2> QED  BY <2>1
<1>11. CASE /\ o1 >= from /\ ExceptionAt(q, o1, b1) = None
            /\ o2 >= from /\ ExceptionAt(q, o2, b2) = None
  <2>1. CASE Row(q, o1, b1) = {} \/ Row(q, o2, b2) = {}
    BY <2>1 DEF Shown
  <2>2. CASE Row(q, o1, b1) # {} /\ Row(q, o2, b2) # {}
    <3>1. /\ Regular(week, o1, b1) /\ Row(q, o1, b1) = Span(o1, week[b1].at)
          /\ Regular(week, o2, b2) /\ Row(q, o2, b2) = Span(o2, week[b2].at)
      BY <1>4, <1>11, <2>2
    <3>2. week \in WeekTables /\ o1 \in Nat /\ o2 \in Nat
      BY <3>1, RoutineAssumption DEF Regular
    <3>3. Span(o1, week[b1].at) \cap Span(o2, week[b2].at) = {}
      BY <3>1, <3>2, WeekIsClear
    <3> QED  BY <3>1, <3>3 DEF Shown
  <2> QED  BY <2>1, <2>2
<1>12. (o1 < from \/ o1 >= from) /\ (o2 < from \/ o2 >= from)
  BY <1>0
<1> QED  BY <1>6, <1>7, <1>8, <1>9, <1>10, <1>11, <1>12

\* What the edits keep, and what they need for it.
AgendaInv == TypeOK /\ NoClash(plan)

LEMMA ReviseKeepsClear ==
  ASSUME AgendaInv, NEW from \in Days, NEW week \in Weeks, NEW byTemplate \in BOOLEAN,
         Revise(from, week, byTemplate)
  PROVE  NoClash(plan')
<1> DEFINE new == [from |-> from, week |-> week]
           q == [plan EXCEPT !.revisions = Append(@, [from |-> from, week |-> week]),
                             !.templateApplied = @ \/ byTemplate]
<1>1. plan \in Plans /\ NoClash(plan)
  BY DEF AgendaInv, TypeOK
<1>2. /\ ValidWeek(week) /\ Save(q)
      /\ \A day \in Affected(from) : Readable(q, day - 2, day + 2)
  BY DEF Revise
<1>3. /\ q.revisions = Append(plan.revisions, new)
      /\ q.exceptions = plan.exceptions /\ q.suspended = plan.suspended
  BY <1>1 DEF Plans
<1>4. q \in Plans
  <2>1. Append(plan.revisions, new) \in Seq([from : Days, week : Weeks])
    BY <1>1 DEF Plans
  <2>2. (plan.templateApplied \/ byTemplate) \in BOOLEAN
    OBVIOUS
  <2> QED  BY <1>1, <2>1, <2>2 DEF Plans
<1>5. SameAgenda(q, plan')
  BY <1>1, <1>2 DEF Save, SameAgenda, Plans
<1>6. from \in Affected(from)
  BY DEF Affected
<1>7. \A o \in Days, b \in Blocks : o >= from /\ plan.exceptions[<<o, b>>] # None => o \in Affected(from)
  <2> SUFFICES ASSUME NEW o \in Days, NEW b \in Blocks, o >= from, plan.exceptions[<<o, b>>] # None
               PROVE  o \in Affected(from)
    OBVIOUS
  <2>1. o >= from - 2
    BY RoutineAssumption DEF Days
  <2>2. \E c \in Blocks : plan.exceptions[o, c] # None
    BY Zenon
  <2> QED  BY <2>1, <2>2, Zenon DEF Affected
<1> HIDE DEF q
<1>8. Readable(q, from - 2, from + 2)
  BY <1>2, <1>6
<1>9. \A o \in Days, b \in Blocks :
        o >= from /\ plan.exceptions[<<o, b>>] # None => Readable(q, o - 2, o + 2)
  BY <1>2, <1>7
<1>10. NoClash(q)
  BY <1>1, <1>2, <1>3, <1>4, <1>8, <1>9, RevisionKeepsClear
<1> QED  BY <1>5, <1>10, SavedAsChecked

LEMMA ExceptKeepsClear ==
  ASSUME AgendaInv, NEW origin \in Days, NEW b \in Blocks,
         NEW e \in {Cancelled} \cup Replacements, Except(origin, b, e)
  PROVE  NoClash(plan')
<1> DEFINE q == [plan EXCEPT !.exceptions[<<origin, b>>] = e]
<1>1. plan \in Plans /\ NoClash(plan)
  BY DEF AgendaInv, TypeOK
<1>2. Save(q) /\ Readable(q, origin - 2, origin + 2)
  BY DEF Except
<1>3. q \in Plans
  <2>1. [plan.exceptions EXCEPT ![<<origin, b>>] = e] \in [Days \X Blocks -> {None, Cancelled} \cup Replacements]
    BY <1>1 DEF Plans
  <2> QED  BY <1>1, <2>1 DEF Plans
<1>4. SameAgenda(q, plan')
  BY <1>1, <1>2 DEF Save, SameAgenda, Plans
<1>5. NoClash(q)
  BY <1>1, <1>2, <1>3, ExceptionKeepsClear
<1> QED  BY <1>4, <1>5, SavedAsChecked

LEMMA SuspendKeepsClear ==
  ASSUME AgendaInv, NEW date \in Days, Suspend(date)
  PROVE  NoClash(plan')
<1>1. plan \in Plans /\ NoClash(plan)
  BY DEF AgendaInv, TypeOK
<1>2. /\ plan'.suspended = plan.suspended \cup {date}
      /\ plan'.revisions = plan.revisions /\ plan'.exceptions = plan.exceptions
  BY <1>1 DEF Suspend, Save, Plans
<1> QED  BY <1>1, <1>2, SuspensionKeepsClear

LEMMA ResumeKeepsClear ==
  ASSUME AgendaInv, NEW date \in Days, Resume(date)
  PROVE  NoClash(plan')
<1> DEFINE q == [plan EXCEPT !.suspended = @ \ {date}]
<1>1. plan \in Plans /\ NoClash(plan)
  BY DEF AgendaInv, TypeOK
<1>2. Save(q) /\ Readable(q, date - 2, date + 2)
  BY DEF Resume
<1>3. /\ q \in Plans /\ q.suspended = plan.suspended \ {date}
      /\ q.revisions = plan.revisions /\ q.exceptions = plan.exceptions
  BY <1>1 DEF Plans
<1>4. SameAgenda(q, plan')
  BY <1>1, <1>2 DEF Save, SameAgenda, Plans
<1> HIDE DEF q
<1>5. NoClash(q)
  BY <1>1, <1>2, <1>3, ResumptionKeepsClear
<1> QED  BY <1>4, <1>5, SavedAsChecked

LEMMA NextKeepsClear == AgendaInv /\ [Next]_vars => NoClash(plan')
<1> SUFFICES ASSUME AgendaInv, [Next]_vars PROVE NoClash(plan')
  OBVIOUS
<1>1. CASE plan' = plan
  BY <1>1 DEF AgendaInv
<1>2. CASE plan' # plan
  <2>1. PICK d \in Days :
        \/ \E w \in Weeks : SaveRevision(d, w)
        \/ ApplyTemplate(d)
        \/ Suspend(d)
        \/ Resume(d)
        \/ \E b \in Blocks :
             \/ Cancel(d, b)
             \/ \E r \in Replacements : Move(d, b, r) \/ Shorten(d, b, r) \/ Replace(d, b, r)
    BY <1>2 DEF Next, NextDay, vars
  <2>2. CASE \E w \in Weeks : SaveRevision(d, w)
    BY <2>2, ReviseKeepsClear DEF SaveRevision
  <2>3. CASE ApplyTemplate(d)
    BY <2>3, ReviseKeepsClear, RoutineAssumption DEF ApplyTemplate
  <2>4. CASE Suspend(d)
    BY <2>4, SuspendKeepsClear
  <2>5. CASE Resume(d)
    BY <2>5, ResumeKeepsClear
  <2>6. ASSUME NEW b \in Blocks, Cancel(d, b)  PROVE NoClash(plan')
    BY <2>6, ExceptKeepsClear DEF Cancel
  <2>7. ASSUME NEW b \in Blocks, NEW r \in Replacements,
               Move(d, b, r) \/ Shorten(d, b, r) \/ Replace(d, b, r)
        PROVE  NoClash(plan')
    <3>1. Except(d, b, r)
      BY <2>7 DEF Move, Shorten, Replace
    <3> QED  BY <3>1, ExceptKeepsClear
  <2> QED  BY <2>1, <2>2, <2>3, <2>4, <2>5, <2>6, <2>7
<1> QED  BY <1>1, <1>2

LEMMA ClearIsReadable ==
  ASSUME NEW p, NoClash(p), NEW from \in Int, NEW to \in Int
  PROVE  Readable(p, from, to)
<1> DEFINE shown == [x \in Expand(p, from, to) |-> Shown(p, x[1], x[2])]
<1> SUFFICES ASSUME NEW x \in Expand(p, from, to), NEW y \in Expand(p, from, to), x # y
             PROVE  shown[x] \cap shown[y] = {}
  BY DEF Readable
<1>1. /\ x \in Int \X Blocks /\ y \in Int \X Blocks
  BY DEF Expand, Origins
<1>2. /\ x[1] \in Int /\ x[2] \in Blocks /\ y[1] \in Int /\ y[2] \in Blocks
      /\ x = <<x[1], x[2]>> /\ y = <<y[1], y[2]>>
  BY <1>1
<1>3. Shown(p, x[1], x[2]) \cap Shown(p, y[1], y[2]) = {}
  BY <1>2 DEF NoClash
<1> QED  BY <1>3

LEMMA AlwaysClear == Spec => []NoClash(plan)
<1>1. Init => NoClash(plan)
  <2> SUFFICES ASSUME Init PROVE NoClash(plan)
    OBVIOUS
  <2>1. plan.revisions = <<>>
    BY DEF Init
  <2>2. \A o, b : Shown(plan, o, b) = {}
    BY <2>1 DEF Shown, Row, HasBlock, InForce
  <2> QED  BY <2>2 DEF NoClash
<1>2. TypeOK /\ NoClash(plan) /\ [Next]_vars => NoClash(plan)'
  BY NextKeepsClear DEF AgendaInv, NoClash
<1> QED  BY <1>1, <1>2, PlanTypes, PTL DEF Spec

(* No sequence of edits makes the agenda of a day unreadable, whatever the  *)
(* weeks, moves and suspensions: validate_overlaps, run around the days     *)
(* that an edit names, covers all the days it touches (routines.py:205).    *)
THEOREM AgendaStaysReadable == Spec => []AgendaReadable
<1>1. NoClash(plan) => AgendaReadable
  <2>1. \A day \in 1..(MaxDay + WeekLength + 3) : day \in Int
    OBVIOUS
  <2> QED  BY <2>1, ClearIsReadable DEF AgendaReadable
<1> QED  BY <1>1, AlwaysClear, PTL

(* Nor the agenda of any window of days, however long or far off.           *)
THEOREM EveryWindowIsReadable == Spec => [](\A from, to \in Int : Readable(plan, from, to))
<1>1. NoClash(plan) => \A from, to \in Int : Readable(plan, from, to)
  BY ClearIsReadable
<1> QED  BY <1>1, AlwaysClear, PTL

=============================================================================
