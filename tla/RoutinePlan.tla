----------------------------- MODULE RoutinePlan -----------------------------
(* The weekly routine of one scope (services/routines.py): revisions of the *)
(* week that apply from a date on, exceptions to single occurrences, and    *)
(* suspended days.  Every edit locks the plan's row and compares its        *)
(* version (locked_plan), so edits of a scope follow one another and each   *)
(* is one action here.  A request that names another version changes        *)
(* nothing and has no action.                                               *)
(*                                                                          *)
(* Time is counted in slots: a day has Slots of them and day n starts with  *)
(* slot n * Slots.  Kinds, profiles and expectations of blocks are left     *)
(* out, and with them the rule that a move keeps them.                      *)
EXTENDS Integers, Sequences, FiniteSets

CONSTANTS
  Blocks,      \* the identities of blocks (block_id)
  WeekLength,  \* the days of a week
  Slots,       \* the slots of a day
  Weeks,       \* the weeks a client may ask for
  Template,    \* the week of initial_blocks
  Replacements,\* the placements a client may move an occurrence to
  None,        \* no exception
  Cancelled,   \* the exception that cancels
  MaxDay,      \* bound: the last day an edit names
  LastToday,   \* bound: the last day time reaches
  MaxVersion   \* bound: the number of edits

Days == 1..MaxDay

\* Where an occurrence lies, relative to the day it belongs to.
Placements == {p \in [shift : -1..1, start : 0..(Slots - 1), end : 1..(2 * Slots - 1)] : p.start < p.end}

\* A week places some of the blocks, each on a weekday and without a shift.
WeekTables == UNION {[B -> [weekday : 0..(WeekLength - 1), at : {p \in Placements : p.shift = 0}]] : B \in SUBSET Blocks}

ASSUME RoutineAssumption ==
  /\ WeekLength \in Nat \ {0, 1}
  /\ Slots \in Nat \ {0}
  /\ MaxDay \in Nat /\ MaxVersion \in Nat /\ LastToday \in 1..MaxDay
  /\ Weeks \subseteq WeekTables /\ Template \in Weeks
  /\ Replacements \subseteq Placements
  /\ None # Cancelled /\ {None, Cancelled} \cap Placements = {}

VARIABLES
  today,  \* the civil date in the routine's time zone
  plan    \* RoutinePlan with its revisions, exceptions and suspensions

vars == <<today, plan>>

Plans ==
  [version : 0..MaxVersion, templateApplied : BOOLEAN,
   revisions : Seq([from : Days, week : Weeks]),
   exceptions : [Days \X Blocks -> {None, Cancelled} \cup Replacements],
   suspended : SUBSET Days]

Init ==
  /\ today = 1
  /\ plan = [version |-> 0, templateApplied |-> FALSE, revisions |-> <<>>,
             exceptions |-> [x \in Days \X Blocks |-> None], suspended |-> {}]

-----------------------------------------------------------------------------
(* The agenda.                                                              *)

Midnight(day) == day * Slots
SlotsOf(day) == Midnight(day)..(Midnight(day + 1) - 1)

\* The slots of an occurrence with this placement: half-open, as in the code.
Span(origin, p) == (Midnight(origin + p.shift) + p.start)..(Midnight(origin + p.shift) + p.end - 1)

\* The revision in force on a day, if there is one: the latest that has begun.
InForce(revisions, day) ==
  {i \in DOMAIN revisions : /\ revisions[i].from <= day
                           /\ \A j \in DOMAIN revisions : i < j => day < revisions[j].from}

\* The week in force on a day has this block on that day.
HasBlock(p, origin, b) ==
  \E i \in InForce(p.revisions, origin) :
    /\ b \in DOMAIN p.revisions[i].week
    /\ p.revisions[i].week[b].weekday = origin % WeekLength

\* Its placement there, before exceptions.
Original(p, origin, b) ==
  LET i == CHOOSE i \in InForce(p.revisions, origin) : TRUE
  IN  p.revisions[i].week[b].at

ExceptionAt(p, origin, b) == IF origin \in Days THEN p.exceptions[origin, b] ELSE None

\* The slots of an occurrence before suspensions, {} if there is none.
Row(p, origin, b) ==
  LET e == ExceptionAt(p, origin, b)
  IN  IF ~HasBlock(p, origin, b) \/ e = Cancelled THEN {}
      ELSE Span(origin, IF e = None THEN Original(p, origin, b) ELSE e)

\* The slots of the agenda an occurrence keeps: suspended days are cut out.
Shown(p, origin, b) == Row(p, origin, b) \ UNION {SlotsOf(d) : d \in p.suspended}

\* The days around a window whose occurrences may reach into it.
Origins(from, to) == (from - 2)..(to + 1)

\* The occurrences expand() finds in a window of days.
Expand(p, from, to) ==
  {x \in Origins(from, to) \X Blocks :
     Row(p, x[1], x[2]) \cap (Midnight(from)..(Midnight(to + 1) - 1)) # {}}

\* expand() returns: validate_overlaps finds no two parts that overlap.
Readable(p, from, to) ==
  LET shown == [x \in Expand(p, from, to) |-> Shown(p, x[1], x[2])]
  IN  \A x, y \in DOMAIN shown : x # y => shown[x] \cap shown[y] = {}

\* validate_week: the week agrees with itself and with its neighbours.
ValidWeek(week) ==
  LET at(n, b) == Span(n * WeekLength + week[b].weekday, week[b].at)
  IN  \A n, m \in -1..1 : \A b, c \in DOMAIN week :
        <<n, b>> # <<m, c>> => at(n, b) \cap at(m, c) = {}

-----------------------------------------------------------------------------
(* The edits.                                                               *)

\* bump: an edit that succeeds gives the plan a new version.
Save(p) == plan' = [p EXCEPT !.version = @ + 1] /\ UNCHANGED today

\* Variant for a mutant: a date taken in another time zone.
IsYesterdayOrLater(date) == date >= today - 1
\* Earlier dates are history: historical_edit_forbidden.
IsEditable(date) == date >= today

Latest == plan.revisions[Len(plan.revisions)]

\* The first revision starts today at the earliest, later ones tomorrow and
\* after the latest.
\* Variant for a mutant: the latest revision is not asked.
MayStartAnyDay(from) == IsEditable(from)
MayStart(from) ==
  /\ IsEditable(from)
  /\ plan.revisions # <<>> => from > today /\ from > Latest.from

\* The days whose surroundings a new revision is checked against.
\* Variant for a mutant: saved exceptions are forgotten.
AffectedByWeek(from) == {from}
Affected(from) == {from} \cup {o \in Days : o >= from - 2 /\ \E b \in Blocks : plan.exceptions[o, b] # None}

Revise(from, week, byTemplate) ==
  LET p == [plan EXCEPT !.revisions = Append(@, [from |-> from, week |-> week]),
                        !.templateApplied = @ \/ byTemplate]
  IN  /\ plan.version < MaxVersion
      /\ MayStart(from)
      /\ ValidWeek(week)
      /\ \A day \in Affected(from) : Readable(p, day - 2, day + 2)
      /\ Save(p)

SaveRevision(from, week) == Revise(from, week, FALSE)

\* The template is applied once; a later request for it returns the plan.
ApplyTemplate(from) ==
  /\ ~plan.templateApplied
  /\ plan.revisions = <<>>
  /\ Revise(from, Template, TRUE)

\* save_exception without its checks of the replacement.
Except(origin, b, e) ==
  LET p == [plan EXCEPT !.exceptions[<<origin, b>>] = e]
  IN  /\ plan.version < MaxVersion
      /\ IsEditable(origin)
      /\ HasBlock(plan, origin, b)
      /\ Readable(p, origin - 2, origin + 2)
      /\ Save(p)

Cancel(origin, b) == Except(origin, b, Cancelled)

\* A replacement may not start before today.  Moving and shortening are
\* replacements as well, with rules on what they keep.
Replace(origin, b, r) ==
  /\ Midnight(origin + r.shift) + r.start >= Midnight(today)
  /\ Except(origin, b, r)

Move(origin, b, r) ==
  /\ HasBlock(plan, origin, b)
  /\ Cardinality(Span(origin, r)) = Cardinality(Span(origin, Original(plan, origin, b)))
  /\ Replace(origin, b, r)

Shorten(origin, b, r) ==
  /\ HasBlock(plan, origin, b)
  /\ Span(origin, r) \subseteq Span(origin, Original(plan, origin, b))
  /\ Replace(origin, b, r)

\* The row of the plan is created with its first revision (locked_plan).
PlanExists == plan.version > 0

Suspend(date) ==
  /\ plan.version < MaxVersion
  /\ PlanExists
  /\ IsEditable(date)
  /\ Save([plan EXCEPT !.suspended = @ \cup {date}])

\* The day's occurrences come back, so they are checked again.
Resume(date) ==
  LET p == [plan EXCEPT !.suspended = @ \ {date}]
  IN  /\ plan.version < MaxVersion
      /\ PlanExists
      /\ IsEditable(date)
      /\ Readable(p, date - 2, date + 2)
      /\ Save(p)

NextDay == today < LastToday /\ today' = today + 1 /\ UNCHANGED plan

Next ==
  \/ \E d \in Days :
       \/ \E w \in Weeks : SaveRevision(d, w)
       \/ ApplyTemplate(d)
       \/ Suspend(d)
       \/ Resume(d)
       \/ \E b \in Blocks :
            \/ Cancel(d, b)
            \/ \E r \in Replacements : Move(d, b, r) \/ Shorten(d, b, r) \/ Replace(d, b, r)
  \/ NextDay

Spec == Init /\ [][Next]_vars

-----------------------------------------------------------------------------
(* Properties.                                                              *)

\* Every plan has its type and its revisions follow one another by date.
TypeOK ==
  /\ today \in 1..LastToday
  /\ plan \in Plans
  /\ \A i, j \in DOMAIN plan.revisions : i < j => plan.revisions[i].from < plan.revisions[j].from

\* No sequence of edits makes a window of the agenda unreadable: every read
\* runs validate_overlaps and would answer 409 from then on, the reads an
\* edit needs included (routines.py:205).  Two occurrences that overlap do so
\* on some day, so windows of one day are enough.
AgendaReadable == \A day \in 1..(MaxDay + WeekLength + 3) : Readable(plan, day, day)

\* What the agenda says of a day.
Agenda(p, day) == [x \in Origins(day, day) \X Blocks |-> Shown(p, x[1], x[2]) \cap SlotsOf(day)]

\* What the agenda said of a day before yesterday stays said, and so does what
\* it said of the past about the occurrences of past days.  The day before
\* today is not covered: an occurrence of today that was moved to yesterday can
\* be cancelled or moved once more (routines.py:235).
PastIsKept ==
  [][/\ \A day \in Days : day < today - 1 => Agenda(plan', day) = Agenda(plan, day)
     /\ \A o, day \in Days, b \in Blocks :
          o < today /\ day < today =>
            Shown(plan', o, b) \cap SlotsOf(day) = Shown(plan, o, b) \cap SlotsOf(day)]_vars
=============================================================================
