--------------------------- MODULE RetroCatalogue ---------------------------
(***************************************************************************)
(* The retro games: the import of the editorial catalogue, the progress of *)
(* one scope in its games, and the lists of the games by status.           *)
(*                                                                         *)
(* The import walks the catalogue in one transaction and stops at the      *)
(* first row the database refuses; --dry-run is another function, which    *)
(* reads everything first.  Admins edit the same rows in between.  The     *)
(* progress of a game has no row to lock before its first change.          *)
(*                                                                         *)
(* Abstracted: texts, colours and years (the managed fields of a game are  *)
(* one value, those of a platform its name, those of a generation its      *)
(* order, those of the group none), the inventory, durations of sessions.  *)
(* The entries of a catalogue are active ones, and a list is taken before  *)
(* the other filters of a request.                                         *)
(***************************************************************************)
EXTENDS Integers, Sequences, FiniteSets

CONSTANTS
  Generations,   \* names of categories
  Orders,        \* values of retro_sort_order
  Slugs, Names,  \* of platforms
  Keys,          \* external_id of the games
  Details,       \* the other managed fields of a game
  Catalogues,    \* the JSON files: sequences of platforms
  Played,        \* the games whose progress and sessions an instance has
  Clients,
  MaxEdits, MaxVersion,   \* bounds of the instance
  None           \* no row

Statuses == {"in_progress", "completed", "skipped"}

\* Platforms with the name and the order of the generation they are listed
\* under, and their games.  The order tells the generations of a catalogue
\* apart, as the key does; the rows are told apart by the name alone.
Entries == [generation : Generations, order : Orders, slug : Slugs, name : Names,
            games : UNION {[K -> Details] : K \in SUBSET Keys}]

ASSUME CatalogueBounds == MaxEdits \in Nat /\ MaxVersion \in Nat \ {0}
ASSUME PlayedAssumption == Played \subseteq Keys
ASSUME CataloguesAssumption == Catalogues \subseteq Seq(Entries)

VARIABLES
  db,         \* the rows of the catalogue
  progress,   \* RetroGameProgress rows of the scope
  session,    \* whether each game was played, or is being played, in the scope
  request,    \* a change of the progress each client has going on
  edits       \* changes of the admins so far

vars == <<db, progress, session, request, edits>>

-----------------------------------------------------------------------------
(* The catalogue rows.  A category is in the group with the name of the     *)
(* catalogue's group or in another one; the group may not be flagged yet.   *)

Platforms == [generation : Generations, name : Names]
Games == [generation : Generations, details : Details, active : BOOLEAN,
          slug : Slugs, game_active : BOOLEAN]

ASSUME NoneAssumption == None \notin Platforms \cup Games \cup Orders

Databases ==
  [group : {"absent", "plain", "retro"},
   category : [Generations -> {"none", "own", "other"}],
   order : [Generations -> Orders \cup {None}],
   platform : [Slugs -> Platforms \cup {None}],
   game : [Keys -> Games \cup {None}]]

KeysOf(cat)  == UNION {DOMAIN cat[i].games : i \in DOMAIN cat}
SlugsOf(cat) == {cat[i].slug : i \in DOMAIN cat}

(* validate_catalog: the keys and orders of generations, the slugs and the  *)
(* keys of games occur once, and every platform has a game.  The names of   *)
(* generations are not looked at.                                           *)
Valid(cat) ==
  /\ cat # <<>>
  /\ \A i, j \in DOMAIN cat : cat[i].order = cat[j].order =>
       \A k \in i .. j : cat[k].order = cat[i].order /\ cat[k].generation = cat[i].generation
  /\ \A i, j \in DOMAIN cat : i # j =>
       /\ cat[i].slug # cat[j].slug
       /\ DOMAIN cat[i].games \cap DOMAIN cat[j].games = {}
  /\ \A i \in DOMAIN cat : cat[i].games # <<>>

Report == [created |-> {}, updated |-> {}, unchanged |-> {},
           orphaned |-> {}, deactivated |-> {}]

(* _record                                                                  *)
Count(report, id, exists, changed) ==
  IF ~exists THEN [report EXCEPT !.created = @ \cup {id}]
  ELSE IF changed THEN [report EXCEPT !.updated = @ \cup {id}]
  ELSE [report EXCEPT !.unchanged = @ \cup {id}]

(* _desired_activity and _desired_game.                                     *)
Desired(entry, k) ==
  [generation |-> entry.generation, details |-> entry.games[k], active |-> TRUE,
   slug |-> entry.slug, game_active |-> TRUE]

Orphans(d, cat) == {k \in Keys : d.game[k] # None} \ KeysOf(cat)
Live(d, k)      == d.game[k].active \/ d.game[k].game_active

(* The part of both reports about what the catalogue does not have.         *)
Missing(report, d, cat, deactivate) ==
  [report EXCEPT
     !.orphaned = {<<"game", k>> : k \in Orphans(d, cat)}
       \cup {<<"platform", s>> : s \in {s \in Slugs \ SlugsOf(cat) :
               d.platform[s] # None /\ d.category[d.platform[s].generation] = "own"}},
     !.deactivated = IF deactivate
       THEN {<<"game", k>> : k \in {k \in Orphans(d, cat) : Live(d, k)}} ELSE {}]

-----------------------------------------------------------------------------
(* _apply: a state of the walk is the rows, the report and whether the      *)
(* database has refused something.                                          *)

Generation(entry) == <<"generation", entry.order>>
Reported(report)  == report.created \cup report.updated \cup report.unchanged

FindsGeneration(d, name) == d.category[name] = "own"

\* Variant for a mutant: the order is only written when the row is created.
ApplyNewGeneration(walk, entry) ==
  LET name == entry.generation
      found == FindsGeneration(walk.db, name)
  IN IF Generation(entry) \in Reported(walk.report) THEN walk
     ELSE [db |-> IF found THEN walk.db
                  ELSE [walk.db EXCEPT !.category[name] = "own", !.order[name] = entry.order],
           report |-> Count(walk.report, Generation(entry), found,
                            walk.db.order[name] # entry.order),
           ok |-> walk.ok /\ walk.db.category[name] # "other"]

\* With the first of its platforms: the row of that name in the group is
\* brought to the order, or created.
ApplyGeneration(walk, entry) ==
  LET name == entry.generation
      found == FindsGeneration(walk.db, name)
  IN IF Generation(entry) \in Reported(walk.report) THEN walk
     ELSE [db |-> [walk.db EXCEPT !.category[name] = "own", !.order[name] = entry.order],
           report |-> Count(walk.report, Generation(entry), found,
                            walk.db.order[name] # entry.order),
           \* The name of a category is unique in all the groups.
           ok |-> walk.ok /\ walk.db.category[name] # "other"]

\* full_clean: the name of a platform is unique in its generation.
NameTaken(d, row, slug) ==
  \E s \in Slugs \ {slug} : d.platform[s] = row

ApplyPlatform(walk, entry) ==
  LET old == walk.db.platform[entry.slug]
      row == [generation |-> entry.generation, name |-> entry.name]
  IN [db |-> [walk.db EXCEPT !.platform[entry.slug] = row],
      report |-> Count(walk.report, <<"platform", entry.slug>>, old # None, old # row),
      ok |-> walk.ok /\ (old = row \/ ~NameTaken(walk.db, row, entry.slug))]

ApplyGames(walk, entry) ==
  LET keys == DOMAIN entry.games
      old == walk.db.game
      With(outcome, P(_)) == outcome \cup {<<"game", k>> : k \in {k \in keys : P(k)}}
  IN [walk EXCEPT
        !.db.game = [k \in Keys |-> IF k \in keys THEN Desired(entry, k) ELSE old[k]],
        !.report.created = With(@, LAMBDA k : old[k] = None),
        !.report.updated =
          With(@, LAMBDA k : old[k] # None /\ old[k] # Desired(entry, k)),
        !.report.unchanged =
          With(@, LAMBDA k : old[k] # None /\ old[k] = Desired(entry, k))]

ApplyEntry(walk, entry) ==
  IF walk.ok THEN ApplyGames(ApplyPlatform(ApplyGeneration(walk, entry), entry), entry)
             ELSE walk

(* The group is found by its flag, adopted by its name or created.          *)
ApplyGroup(d) ==
  [db |-> [d EXCEPT !.group = "retro"], ok |-> TRUE,
   report |-> Count(Report, <<"group">>, d.group # "absent", d.group # "retro")]

Deactivated(d, cat) ==
  [d EXCEPT !.game = [k \in Keys |->
     IF k \in Orphans(d, cat)
       THEN [d.game[k] EXCEPT !.active = FALSE, !.game_active = FALSE] ELSE d.game[k]]]

Walk(d, cat) ==
  LET walk[i \in 0 .. Len(cat)] ==
        IF i = 0 THEN ApplyGroup(d) ELSE ApplyEntry(walk[i - 1], cat[i])
  IN walk[Len(cat)]

_apply(d, cat, deactivate) ==
  LET walk == Walk(d, cat)
  IN [ok |-> walk.ok,
      db |-> IF deactivate THEN Deactivated(walk.db, cat) ELSE walk.db,
      report |-> Missing(walk.report, walk.db, cat, deactivate)]

-----------------------------------------------------------------------------
(* _plan: each part of the catalogue against the rows there are.            *)

PlanHas(d, name) == d.group = "retro" /\ d.category[name] = "own"
PlanOrders(d, e) == d.order[e.generation] # e.order

\* Variant for a mutant: a platform that would move is not reported.
PlatformChangesByName(d, entry) == d.platform[entry.slug].name # entry.name
PlatformChanges(d, entry) ==
  \/ ~PlanHas(d, entry.generation)
  \/ d.platform[entry.slug] # [generation |-> entry.generation, name |-> entry.name]

GameChanges(d, entry, k) ==
  \/ ~PlanHas(d, entry.generation) \/ d.platform[entry.slug] = None
  \/ d.game[k] # Desired(entry, k)

_plan(d, cat, deactivate) ==
  LET GenerationsThat(P(_)) ==
        {Generation(cat[i]) : i \in {i \in DOMAIN cat : P(cat[i])}}
      PlatformsThat(P(_)) ==
        {<<"platform", cat[i].slug>> : i \in {i \in DOMAIN cat : P(cat[i])}}
      GamesThat(P(_, _)) ==
        UNION {{<<"game", k>> : k \in {k \in DOMAIN cat[i].games : P(cat[i], k)}} :
                 i \in DOMAIN cat}
      group == Count(Report, <<"group">>, d.group = "retro", FALSE)
      walked == [group EXCEPT
        !.created = @ \cup GenerationsThat(LAMBDA e : ~PlanHas(d, e.generation))
           \cup PlatformsThat(LAMBDA e : d.platform[e.slug] = None)
           \cup GamesThat(LAMBDA e, k : d.game[k] = None),
        !.updated = @
           \cup GenerationsThat(LAMBDA e : PlanHas(d, e.generation) /\ PlanOrders(d, e))
           \cup PlatformsThat(LAMBDA e :
                  d.platform[e.slug] # None /\ PlatformChanges(d, e))
           \cup GamesThat(LAMBDA e, k : d.game[k] # None /\ GameChanges(d, e, k)),
        !.unchanged = @
           \cup GenerationsThat(LAMBDA e : PlanHas(d, e.generation) /\ ~PlanOrders(d, e))
           \cup PlatformsThat(LAMBDA e :
                  d.platform[e.slug] # None /\ ~PlatformChanges(d, e))
           \cup GamesThat(LAMBDA e, k : d.game[k] # None /\ ~GameChanges(d, e, k))]
  IN Missing(walked, d, cat, deactivate)

-----------------------------------------------------------------------------
(* The command and the admins.                                              *)

(* One transaction: all of it or nothing.                                   *)
import_catalog(cat, deactivate) ==
  LET result == _apply(db, cat, deactivate)
  IN /\ Valid(cat) /\ result.ok
     /\ db' = result.db
     /\ UNCHANGED <<progress, session, request, edits>>

Edit(d) ==
  /\ edits < MaxEdits
  /\ edits' = edits + 1
  /\ db' = d
  /\ UNCHANGED <<progress, session, request>>

(* An activity is moved to another category or switched off.                *)
EditActivity(k, name) ==
  /\ db.game[k] # None /\ db.category[name] = "own"
  /\ \E on \in BOOLEAN :
       Edit([db EXCEPT !.game[k].generation = name, !.game[k].active = on])

(* The order of a generation is edited.                                     *)
OrderCategory(name, order) ==
  /\ db.category[name] = "own"
  /\ Edit([db EXCEPT !.order[name] = order])

(* A category is created in another group, or in the retro group.           *)
CreateCategory(name, where) ==
  /\ db.category[name] = "none"
  /\ where = "own" => db.group = "retro"
  /\ Edit([db EXCEPT !.category[name] = where])

-----------------------------------------------------------------------------
(* Progress.                                                                *)

Playable(k) ==
  /\ db.game[k] # None
  /\ db.game[k].generation = db.platform[db.game[k].slug].generation
  /\ db.game[k].active /\ db.game[k].game_active

(* Before the first change there is no row and its version counts as 0.     *)
VersionOf(k) == IF progress[k] = None THEN 0 ELSE progress[k].version

Rows == [status : Statuses, started : BOOLEAN, version : 1 .. MaxVersion]
First(status) ==
  [status |-> status, started |-> status # "skipped", version |-> 1]

\* Variant for a mutant: the start of a session sets the status.
StartedAgain(row) == First("in_progress")
ensure_started(row) == IF row = None THEN First("in_progress") ELSE row

(* start_retro for a game nobody is playing, with the row of the game locked.*)
StartRetro(k) ==
  /\ Playable(k)
  /\ \A j \in Keys : session[j] # "open"
  /\ session' = [session EXCEPT ![k] = "open"]
  /\ progress' = [progress EXCEPT ![k] = ensure_started(@)]
  /\ UNCHANGED <<db, request, edits>>

(* The activity of a game may also be run from a queue, which knows nothing *)
(* of progress.                                                             *)
StartFromQueue(k) ==
  /\ db.game[k] # None /\ db.game[k].active
  /\ \A j \in Keys : session[j] # "open"
  /\ session' = [session EXCEPT ![k] = "open"]
  /\ UNCHANGED <<db, progress, request, edits>>

Complete(k) ==
  /\ session[k] = "open"
  /\ session' = [session EXCEPT ![k] = "played"]
  /\ UNCHANGED <<db, progress, request, edits>>

Requests ==
  [step : {"sent", "inserting"}, key : Keys, status : Statuses,
   expected_version : 0 .. MaxVersion]
    \cup {[step |-> "idle"]}
Idle == [step |-> "idle"]

(* A client names the version it has read.                                  *)
AskProgress(c, k, status) ==
  /\ request[c] = Idle
  /\ db.game[k] # None
  /\ VersionOf(k) < MaxVersion
  /\ request' = [request EXCEPT ![c] = [step |-> "sent", key |-> k, status |-> status,
                                        expected_version |-> VersionOf(k)]]
  /\ UNCHANGED <<db, progress, session, edits>>

Changed(row, status) ==
  [status |-> status, version |-> row.version + 1,
   started |-> row.started \/ status # "skipped"]

\* Variant for a mutant: any version will do.
StaleNever(r, version) == FALSE
Stale(r, version) == r.expected_version # version

(* set_progress when there is a row: it is locked, and the change is made,  *)
(* found made already or refused.                                           *)
ChangeProgress(c) ==
  LET r == request[c] IN
  /\ r.step = "sent" /\ progress[r.key] # None
  /\ LET row == progress[r.key] IN
     IF row.status = r.status \/ Stale(r, row.version)
       THEN UNCHANGED progress
       ELSE progress' = [progress EXCEPT ![r.key] = Changed(row, r.status)]
  /\ request' = [request EXCEPT ![c] = Idle]
  /\ UNCHANGED <<db, session, edits>>

(* set_progress when there is none: nothing is locked until the insertion.  *)
FindNoProgress(c) ==
  LET r == request[c] IN
  /\ r.step = "sent" /\ progress[r.key] = None
  /\ request' = [request EXCEPT ![c] =
       IF Stale(r, 0) THEN Idle ELSE [r EXCEPT !.step = "inserting"]]
  /\ UNCHANGED <<db, progress, session, edits>>

(* One row per scope and game: the insertion fails when another came first. *)
Inserted(row, status) == IF row = None THEN First(status) ELSE row

InsertProgress(c) ==
  LET r == request[c] IN
  /\ r.step = "inserting"
  /\ progress' = [progress EXCEPT ![r.key] = Inserted(@, r.status)]
  /\ request' = [request EXCEPT ![c] = Idle]
  /\ UNCHANGED <<db, session, edits>>

-----------------------------------------------------------------------------
(* retro_catalog.games(status=...): the games of the list.                  *)

NotStarted == {k \in Keys : db.game[k] # None /\ progress[k] = None /\ session[k] = "none"}

\* Variant for a mutant: a game that is being played has not been played.
InProgressPlayed ==
  {k \in Keys : /\ db.game[k] # None
     /\ IF progress[k] = None THEN session[k] = "played"
                              ELSE progress[k].status = "in_progress"}
InProgress ==
  {k \in Keys : /\ db.game[k] # None
     /\ IF progress[k] = None THEN session[k] # "none"
                              ELSE progress[k].status = "in_progress"}

Finished(status) ==
  {k \in Keys : /\ db.game[k] # None /\ progress[k] # None
                /\ progress[k].status = status}

-----------------------------------------------------------------------------
Init ==
  /\ \E group \in {"absent", "plain", "retro"} :
       db = [group |-> group, category |-> [n \in Generations |-> "none"],
             order |-> [n \in Generations |-> None],
             platform |-> [s \in Slugs |-> None], game |-> [k \in Keys |-> None]]
  /\ progress = [k \in Keys |-> None]
  /\ session = [k \in Keys |-> "none"]
  /\ request = [c \in Clients |-> Idle]
  /\ edits = 0

Next ==
  \/ \E cat \in Catalogues, deactivate \in BOOLEAN : import_catalog(cat, deactivate)
  \/ \E k \in Keys, name \in Generations : EditActivity(k, name)
  \/ \E name \in Generations, order \in Orders : OrderCategory(name, order)
  \/ \E name \in Generations, where \in {"own", "other"} : CreateCategory(name, where)
  \/ \E k \in Played :
       \/ StartRetro(k)
       \/ StartFromQueue(k)
       \/ Complete(k)
  \/ \E c \in Clients, k \in Played, status \in Statuses : AskProgress(c, k, status)
  \/ \E c \in Clients :
       \/ ChangeProgress(c)
       \/ FindNoProgress(c)
       \/ InsertProgress(c)

Spec == Init /\ [][Next]_vars

-----------------------------------------------------------------------------
(* Properties.                                                              *)

TypeOK ==
  /\ db \in Databases
  /\ progress \in [Keys -> Rows \cup {None}]
  /\ session \in [Keys -> {"none", "open", "played"}]
  /\ request \in [Clients -> Requests]
  /\ edits \in 0 .. MaxEdits

\* Generations with the name of another one of the catalogue, and those with
\* the name of an earlier one.
SharesName(cat) ==
  {Generation(cat[i]) : i \in {i \in DOMAIN cat : \E j \in DOMAIN cat :
     cat[j].generation = cat[i].generation /\ cat[j].order # cat[i].order}}
RepeatsName(cat) ==
  {Generation(cat[i]) : i \in {i \in DOMAIN cat : \E j \in 1 .. i - 1 :
     cat[j].generation = cat[i].generation /\ cat[j].order # cat[i].order}}

(* An import that succeeded, run again on what it left, is accepted, leaves *)
(* the rows as they were and reports updates of exactly the generations     *)
(* that share a name: each rewrites the one row of the other, every time.   *)
(* For a catalogue whose generations have names of their own all is         *)
(* unchanged, which SPEC-BACK-016:63-64 promises for all of them            *)
(* (retrogames_catalog_import.py:144-154, :260-267 and :420-433).           *)
ReimportRewritesSharedNames ==
  \A cat \in Catalogues, deactivate \in BOOLEAN :
    LET first == _apply(db, cat, deactivate)
        second == _apply(first.db, cat, deactivate)
    IN Valid(cat) /\ first.ok =>
         /\ second.ok /\ second.db = first.db
         /\ second.report.created \cup second.report.deactivated = {}
         /\ second.report.updated = SharesName(cat)

(* The report of --dry-run is the one of the import that follows, when the  *)
(* retro group exists and the database refuses nothing, but for the         *)
(* generations with the name of an earlier one: these the import finds just *)
(* written and reports updated, whatever the planner said, which reads all  *)
(* first (retrogames_catalog_import.py:307-380 and :394-519).               *)
PlanTellsTheImport ==
  \A cat \in Catalogues, deactivate \in BOOLEAN :
    LET result == _apply(db, cat, deactivate)
        again == RepeatsName(cat)
    IN Valid(cat) /\ result.ok /\ db.group = "retro" =>
         result.report = [_plan(db, cat, deactivate) EXCEPT
           !.created = @ \ again, !.updated = @ \cup again, !.unchanged = @ \ again]

(* A status is only replaced by a client that had read it: neither the      *)
(* start of a session, nor a first change made at the same time, takes a    *)
(* finished game back (retro_progress.py:17-54).                            *)
ReplacedWasRead ==
  [][\A k \in Keys :
       progress[k] # None /\ progress'[k] # progress[k] =>
         \E c \in Clients :
           /\ request[c] # Idle /\ request[c].key = k
           /\ request[c].expected_version = progress[k].version]_vars

(* Each game is in one of the lists, whatever ran it (retro_catalog.py:69-85).*)
ListsPartition ==
  LET lists == <<NotStarted, InProgress, Finished("completed"), Finished("skipped")>>
  IN /\ UNION {lists[i] : i \in DOMAIN lists} = {k \in Keys : db.game[k] # None}
     /\ \A i, j \in DOMAIN lists : i # j => lists[i] \cap lists[j] = {}

=============================================================================
