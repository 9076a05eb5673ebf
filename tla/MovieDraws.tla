------------------------------ MODULE MovieDraws ------------------------------
(***************************************************************************)
(* The movie roulette of one scope: draws and the reservation they leave,  *)
(* progress, tier lists, and the ledger that answers a repeated command.   *)
(*                                                                         *)
(* Every command locks the row of its scope first (lock_states), so the    *)
(* commands of a scope are serialised and one action is one committed      *)
(* command.  A client reads the versions, sends a command with a request   *)
(* id, and may send it again when the answer is lost; other clients of the *)
(* scope and the editors of the catalogue act at any moment in between.    *)
(*                                                                         *)
(* Abstracted: Movie.active and Activity.active are one flag, the category *)
(* that entries() compares is part of being an entry, and the candidate    *)
(* snapshot, the dates and the answers are left out.  What draw_movie      *)
(* reads of the catalogue before it locks the movie is checked again       *)
(* afterwards, so its reads are those of one moment.                       *)
(***************************************************************************)
EXTENDS Integers, FiniteSets, FiniteSetsExt

CONSTANTS
  Collections, Movies,
  Tiers, TierLimit,     \* LIMITS
  RequestIds,           \* UUIDs of the clients
  Clients,              \* devices that share the scope
  InitialEntries,       \* MovieCollectionEntry rows at first
  InitialProgress,      \* what MovieProgress may be, as earlier sessions left it
  Operations,           \* the kinds of commands clients send
  Editions,             \* the kinds of edits editors make
  MaxDraws, MaxEdits    \* bounds of the instance

DrawIds == 1 .. MaxDraws
None    == 0          \* a null foreign key
Unrated == "unrated"  \* no MovieTierRating row
Keep    == "keep"     \* a movie that a tier command does not mention

Statuses     == {"unwatched", "watching", "watched"}
ProgressRows == [status : Statuses, version : Nat]

ASSUME MovieBounds == MaxDraws \in Nat /\ MaxEdits \in Nat
ASSUME MovieCatalog ==
  /\ InitialEntries \subseteq Collections \X Movies
  /\ InitialProgress \subseteq [Movies -> ProgressRows]
  /\ Collections # {} /\ Movies # {} /\ IsFiniteSet(Movies)
  /\ TierLimit \in [Tiers -> Nat]
  /\ Unrated \notin Tiers /\ Keep \notin Tiers

VARIABLES
  catalog,    \* what editors change: entries, active collections and movies
  progress,   \* MovieProgress; version 0 when there is no row
  state,      \* MovieDrawState of each collection
  draw,       \* MovieDraw rows
  tier,       \* MovieTierState and MovieTierRating of each collection
  ledger,     \* MovieMutation: the command remembered under a request id
  outbox,     \* the message a client still has no answer to
  edits       \* edits made so far

vars == <<catalog, progress, state, draw, tier, ledger, outbox, edits>>

-----------------------------------------------------------------------------
(* Rows and commands.                                                       *)

DrawStatuses == {"none", "pending", "accepted", "dismissed", "invalidated"}
Ratings      == Tiers \cup {Unrated}

Catalogs ==
  [entries : SUBSET (Collections \X Movies),
   open : SUBSET Collections, shown : SUBSET Movies]
StateRows    == [current : DrawIds \cup {None}, version : Nat]
DrawRows     == [status : DrawStatuses, collection : Collections, movie : Movies]
TierRows     == [rating : [Movies -> Ratings], version : Nat]

DrawCommands ==
  [op : {"draw"}, id : RequestIds, collection : Collections, expected : Nat]
DismissCommands ==
  [op : {"dismiss"}, id : RequestIds, collection : Collections,
   draw : DrawIds, expected : Nat]
AcceptCommands ==
  [op : {"accept"}, id : RequestIds, collection : Collections,
   draw : DrawIds, expected : Nat, expectedProgress : Nat]
ProgressCommands ==
  [op : {"progress"}, id : RequestIds, movie : Movies, status : Statuses,
   expected : Nat, draw : DrawIds \cup {None}]
TierCommands ==
  [op : {"tiers"}, id : RequestIds, collection : Collections, expected : Nat,
   moves : [Movies -> Ratings \cup {Keep}]]
Commands ==
  DrawCommands \cup DismissCommands \cup AcceptCommands
    \cup ProgressCommands \cup TierCommands

BlankDraw ==
  [status |-> "none", collection |-> CHOOSE c \in Collections : TRUE,
   movie |-> CHOOSE m \in Movies : TRUE]
NoCommand == [op |-> "none"]
NoMessage == [command |-> NoCommand, saw |-> <<>>]

-----------------------------------------------------------------------------
(* Reading the tables.                                                      *)

(* repositories.movies.entries: the entries that can be drawn or accepted.  *)
Entries(c) ==
  {m \in catalog.shown : c \in catalog.open /\ <<c, m>> \in catalog.entries}
Eligible(c) == {m \in Entries(c) : progress[m].status = "unwatched"}

DrawValid(d) == draw[d].movie \in Eligible(draw[d].collection)

FreshDraws == {d \in DrawIds : draw[d].status = "none"}
\* Variant for a mutant: the ledger is not asked.
AnyCommand(cmd) == TRUE
IsNew(cmd) == ledger[cmd.id] = NoCommand

(* The collections that hold a reservation of a movie.                      *)
\* Variant for a mutant: a closed collection is left out.
ReservingOpen(m) ==
  {c \in catalog.open : state[c].current # None /\ draw[state[c].current].movie = m}
Reserving(m) ==
  {c \in Collections : state[c].current # None /\ draw[state[c].current].movie = m}

(* The watched movies of a collection, active or not: its tier board.       *)
Board(c) ==
  {m \in Movies : <<c, m>> \in catalog.entries /\ progress[m].status = "watched"}

-----------------------------------------------------------------------------
(* What the commands write.                                                 *)

Remember(cmd) == ledger' = [ledger EXCEPT ![cmd.id] = cmd]

\* Variant for a mutant: a status that is not one of the choices.
ResolveAsRefused(d, status) == [draw EXCEPT ![d].status = "refused"]
Resolve(d, status) == [draw EXCEPT ![d].status = status]

(* update_progress, with clear_movie when the movie stops being watched.    *)
\* Variant for a mutant: the version stays.
WriteStatus(m, status) ==
  progress' = [progress EXCEPT ![m].status = status]
WriteProgress(m, status) ==
  progress' = [progress EXCEPT ![m] = [status |-> status,
                                       version |-> @.version + 1]]

WithoutRating(row, m) ==
  IF row.rating[m] = Unrated THEN row
  ELSE [rating |-> [row.rating EXCEPT ![m] = Unrated], version |-> row.version + 1]
\* Variant for a mutant: only the collections the movie is still in.
ClearListed(m, status) ==
  tier' = IF status = "watched" THEN tier
          ELSE [c \in Collections |-> IF <<c, m>> \in catalog.entries
                                       THEN WithoutRating(tier[c], m) ELSE tier[c]]
ClearMovie(m, status) ==
  tier' = IF status = "watched" THEN tier
          ELSE [c \in Collections |-> WithoutRating(tier[c], m)]

(* The end of mutate: watching and watched resolve the reservations of the  *)
(* movie in every collection, and the version of each collection touched    *)
(* moves once.                                                              *)
Resolved(m, status) == IF status = "unwatched" THEN {} ELSE Reserving(m)
\* Variant for a mutant: the states are released and their draws are not.
ResolveNoDraw(m, status) == draw' = draw
ResolveReservations(m, status) ==
  draw' = [d \in DrawIds |->
    IF \E c \in Resolved(m, status) : state[c].current = d
    THEN [draw[d] EXCEPT !.status = "accepted"] ELSE draw[d]]
Touched(m, status) ==
  {c \in Collections : c \in Resolved(m, status) \/ <<c, m>> \in catalog.entries}
MoveStates(m, status) ==
  state' = [c \in Collections |->
    [current |-> IF c \in Resolved(m, status) THEN None ELSE state[c].current,
     version |-> IF c \in Touched(m, status) THEN state[c].version + 1
                 ELSE state[c].version]]

Mutate(m, status) ==
  /\ WriteProgress(m, status)
  /\ ClearMovie(m, status)
  /\ ResolveReservations(m, status)
  /\ MoveStates(m, status)

(* The whole board that a tier command proposes.                            *)
\* Variant for a mutant: only what the command moves is counted.
ProposedMoves(c, moves) ==
  [m \in Movies |-> IF moves[m] # Keep THEN moves[m] ELSE Unrated]
Proposed(c, moves) ==
  [m \in Movies |-> IF moves[m] # Keep THEN moves[m]
                    ELSE IF m \in Board(c) THEN tier[c].rating[m] ELSE Unrated]
TierFits(proposed) ==
  \A t \in Tiers : Cardinality({m \in Movies : proposed[m] = t}) <= TierLimit[t]
MoveAllowed(c, moves, m) ==
  moves[m] # Keep => /\ <<c, m>> \in catalog.entries
                     /\ moves[m] = Unrated \/ m \in Board(c)

-----------------------------------------------------------------------------
(* Clients.                                                                 *)

(* A client sends what it read: the versions, and the reservation or the    *)
(* progress they stand for (saw, which the server never gets).  It takes a  *)
(* request id the server does not know yet, but two clients may take the    *)
(* same.                                                                    *)
Saw(cmd) ==
  CASE cmd.op \in {"draw", "dismiss"} -> <<state[cmd.collection].current>>
    [] cmd.op = "accept" ->
         <<state[cmd.collection].current, progress[draw[cmd.draw].movie].status>>
    [] cmd.op = "progress" -> <<progress[cmd.movie].status>>
    [] cmd.op = "tiers" -> <<tier[cmd.collection].rating>>

Send(cl, cmd) ==
  /\ cmd.op \in Operations
  /\ IsNew(cmd)
  /\ outbox[cl] = NoMessage
  /\ outbox' = [outbox EXCEPT ![cl] = [command |-> cmd, saw |-> Saw(cmd)]]
  /\ UNCHANGED <<catalog, progress, state, draw, tier, ledger, edits>>

SendDraw(cl, id, c) ==
  Send(cl, [op |-> "draw", id |-> id, collection |-> c,
            expected |-> state[c].version])
SendDismiss(cl, id, c) ==
  /\ state[c].current # None
  /\ Send(cl, [op |-> "dismiss", id |-> id, collection |-> c,
               draw |-> state[c].current, expected |-> state[c].version])
SendAccept(cl, id, c) ==
  /\ state[c].current # None
  /\ Send(cl, [op |-> "accept", id |-> id, collection |-> c,
               draw |-> state[c].current, expected |-> state[c].version,
               expectedProgress |-> progress[draw[state[c].current].movie].version])
SendProgress(cl, id, m, status) ==
  \E d \in {None} \cup {state[c].current : c \in Reserving(m)} :
    Send(cl, [op |-> "progress", id |-> id, movie |-> m, status |-> status,
              expected |-> progress[m].version, draw |-> d])
SendTiers(cl, id, c, moves) ==
  /\ \E m \in Movies : moves[m] # Keep
  /\ Send(cl, [op |-> "tiers", id |-> id, collection |-> c,
               expected |-> tier[c].version, moves |-> moves])

(* The client has its answer, or gives up waiting for one.                  *)
Forget(cl) ==
  /\ outbox[cl] # NoMessage
  /\ outbox' = [outbox EXCEPT ![cl] = NoMessage]
  /\ UNCHANGED <<catalog, progress, state, draw, tier, ledger, edits>>

-----------------------------------------------------------------------------
(* Commands.  The message stays in the outbox: it may be delivered again,   *)
(* and then the ledger answers and nothing is written.  A refused command   *)
(* writes nothing either and does not consume its request id.               *)

DrawMovie(cl) ==
  LET cmd == outbox[cl].command
      c == cmd.collection
  IN /\ cmd.op = "draw" /\ IsNew(cmd)
     /\ c \in catalog.open
     /\ state[c].version = cmd.expected
     /\ state[c].current = None
     /\ \E d \in FreshDraws, m \in Eligible(c) :
          /\ \A e \in FreshDraws : d <= e
          /\ draw' = [draw EXCEPT ![d] = [status |-> "pending",
                                          collection |-> c, movie |-> m]]
          /\ state' = [state EXCEPT ![c] = [current |-> d,
                                            version |-> @.version + 1]]
     /\ Remember(cmd)
     /\ UNCHANGED <<catalog, progress, tier, outbox, edits>>

IsCurrent(cmd) ==
  /\ state[cmd.collection].version = cmd.expected
  /\ state[cmd.collection].current = cmd.draw
  /\ draw[cmd.draw].status = "pending"

DismissDraw(cl) ==
  LET cmd == outbox[cl].command
  IN /\ cmd.op = "dismiss" /\ IsNew(cmd)
     /\ IsCurrent(cmd)
     /\ draw' = Resolve(cmd.draw,
                        IF DrawValid(cmd.draw) THEN "dismissed" ELSE "invalidated")
     /\ state' = [state EXCEPT ![cmd.collection] =
                    [current |-> None, version |-> @.version + 1]]
     /\ Remember(cmd)
     /\ UNCHANGED <<catalog, progress, tier, outbox, edits>>

AcceptDraw(cl) ==
  LET cmd == outbox[cl].command
      m == draw[cmd.draw].movie
  IN /\ cmd.op = "accept" /\ IsNew(cmd)
     /\ IsCurrent(cmd)
     /\ DrawValid(cmd.draw)
     /\ progress[m].version = cmd.expectedProgress
     /\ Mutate(m, "watching")
     /\ Remember(cmd)
     /\ UNCHANGED <<catalog, outbox, edits>>

(* The draw that a progress command names must hold the reservation.        *)
NamesValidDraw(cmd) ==
  cmd.draw # None =>
    /\ draw[cmd.draw].movie = cmd.movie
    /\ state[draw[cmd.draw].collection].current = cmd.draw
    /\ DrawValid(cmd.draw)

SetProgress(cl) ==
  LET cmd == outbox[cl].command
  IN /\ cmd.op = "progress" /\ IsNew(cmd)
     /\ cmd.movie \in catalog.shown
     /\ NamesValidDraw(cmd)
     /\ progress[cmd.movie].version = cmd.expected
     /\ Mutate(cmd.movie, cmd.status)
     /\ Remember(cmd)
     /\ UNCHANGED <<catalog, outbox, edits>>

Rebalance(cl) ==
  LET cmd == outbox[cl].command
      c == cmd.collection
  IN /\ cmd.op = "tiers" /\ IsNew(cmd)
     /\ c \in catalog.open
     /\ tier[c].version = cmd.expected
     /\ \A m \in Movies : MoveAllowed(c, cmd.moves, m)
     /\ TierFits(Proposed(c, cmd.moves))
     /\ tier' = [tier EXCEPT ![c] =
          [rating |-> [m \in Movies |-> IF cmd.moves[m] = Keep THEN @.rating[m]
                                        ELSE cmd.moves[m]],
           version |-> @.version + 1]]
     /\ Remember(cmd)
     /\ UNCHANGED <<catalog, progress, state, draw, outbox, edits>>

-----------------------------------------------------------------------------
(* Editors of the catalogue.                                                *)

Edit(kind, changed) ==
  /\ kind \in Editions
  /\ edits < MaxEdits
  /\ catalog' = changed
  /\ edits' = edits + 1
  /\ UNCHANGED <<progress, state, draw, tier, ledger, outbox>>

Toggle(S, x) == IF x \in S THEN S \ {x} ELSE S \cup {x}
ToggleCollection(c) ==
  Edit("collection", [catalog EXCEPT !.open = Toggle(@, c)])
ToggleMovie(m) == Edit("movie", [catalog EXCEPT !.shown = Toggle(@, m)])
RemoveEntry(c, m) ==
  /\ <<c, m>> \in catalog.entries
  /\ Edit("remove", [catalog EXCEPT !.entries = @ \ {<<c, m>>}])
AddEntry(c, m) ==
  /\ <<c, m>> \notin catalog.entries
  /\ Edit("add", [catalog EXCEPT !.entries = @ \cup {<<c, m>>}])

-----------------------------------------------------------------------------
Init ==
  /\ catalog = [entries |-> InitialEntries, open |-> Collections, shown |-> Movies]
  /\ progress \in InitialProgress
  /\ state = [c \in Collections |-> [current |-> None, version |-> 0]]
  /\ draw = [d \in DrawIds |-> BlankDraw]
  /\ tier = [c \in Collections |-> [rating |-> [m \in Movies |-> Unrated],
                                    version |-> 0]]
  /\ ledger = [id \in RequestIds |-> NoCommand]
  /\ outbox = [cl \in Clients |-> NoMessage]
  /\ edits = 0

Next ==
  \/ \E cl \in Clients, id \in RequestIds, c \in Collections :
       SendDraw(cl, id, c) \/ SendDismiss(cl, id, c) \/ SendAccept(cl, id, c)
  \/ \E cl \in Clients, id \in RequestIds, m \in Movies, s \in Statuses :
       SendProgress(cl, id, m, s)
  \/ \E cl \in Clients, id \in RequestIds, c \in Collections,
        moves \in [Movies -> Ratings \cup {Keep}] : SendTiers(cl, id, c, moves)
  \/ \E cl \in Clients :
       \/ DrawMovie(cl) \/ DismissDraw(cl) \/ AcceptDraw(cl)
       \/ SetProgress(cl) \/ Rebalance(cl) \/ Forget(cl)
  \/ \E c \in Collections : ToggleCollection(c)
  \/ \E m \in Movies : ToggleMovie(m)
  \/ \E c \in Collections, m \in Movies : RemoveEntry(c, m) \/ AddEntry(c, m)

Spec == Init /\ [][Next]_vars

-----------------------------------------------------------------------------
(* Properties.                                                              *)

(* Every row, command and message has its type.                             *)
TypeOK ==
  /\ catalog \in Catalogs
  /\ progress \in [Movies -> ProgressRows]
  /\ state \in [Collections -> StateRows]
  /\ draw \in [DrawIds -> DrawRows]
  /\ tier \in [Collections -> TierRows]
  /\ ledger \in [RequestIds -> Commands \cup {NoCommand}]
  /\ outbox = [cl \in Clients |-> outbox[cl]]
  /\ \A cl \in Clients :
       outbox[cl] = NoMessage \/ outbox[cl].command \in Commands
  /\ edits \in 0 .. MaxEdits

(* A collection's current draw is its only pending one, after any sequence  *)
(* of draws, acceptances, dismissals and progress commands.                 *)
ReservationsMatch ==
  /\ \A c \in Collections : state[c].current # None =>
       draw[state[c].current].collection = c
  /\ \A d \in DrawIds : draw[d].status = "pending" <=>
       state[draw[d].collection].current = d

(* A movie someone started or finished is reserved nowhere: the progress of *)
(* one collection resolves the reservations of all the others.              *)
ReservedIsUnwatched ==
  \A d \in DrawIds : draw[d].status = "pending" =>
    progress[draw[d].movie].status = "unwatched"

(* Only watched movies have a tier, in every collection and although an     *)
(* entry may have left the collection since it was rated.                   *)
RatedIsWatched ==
  \A c \in Collections, m \in Movies :
    tier[c].rating[m] # Unrated => progress[m].status = "watched"

(* No tier of a board holds more movies than LIMITS gives it.               *)
TierLimits ==
  \A c \in Collections, t \in Tiers :
    Cardinality({m \in Board(c) : tier[c].rating[m] = t}) <= TierLimit[t]

(* A command takes effect only on what its client had read: nothing it      *)
(* relies on changed between the read and the commit, however late or often *)
(* the message is delivered.                                                *)
NoLostUpdate ==
  [][\A cl \in Clients :
       LET cmd == outbox[cl].command
       IN /\ cmd # NoCommand
          /\ ledger[cmd.id] = NoCommand /\ ledger'[cmd.id] = cmd
          => outbox[cl].saw = Saw(cmd)]_vars

(* A resolved draw and a remembered command are never changed.              *)
LedgerIsFinal ==
  [][/\ \A d \in DrawIds :
          /\ draw[d].status \in {"accepted", "dismissed", "invalidated"}
             => draw'[d] = draw[d]
          /\ draw[d].status = "pending" =>
               /\ draw'[d].collection = draw[d].collection
               /\ draw'[d].movie = draw[d].movie
     /\ \A id \in RequestIds :
          ledger[id] # NoCommand => ledger'[id] = ledger[id]]_vars

=============================================================================
