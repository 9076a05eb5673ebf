-------------------------- MODULE MovieDraws_proofs --------------------------
(***************************************************************************)
(* Proofs about MovieDraws, for any collections, movies, clients, request  *)
(* ids and bounds: the reservations and the tiers agree with the progress, *)
(* resolved draws and remembered commands are final, no command takes      *)
(* effect on what its client has not read, and tiers keep their limits     *)
(* while no rated movie enters a collection again.                         *)
(***************************************************************************)
EXTENDS MovieDraws, FiniteSetTheorems, TLAPS

(* The inductive invariant of the tables.                                   *)
Tables ==
  /\ ReservationsMatch
  /\ ReservedIsUnwatched
  /\ RatedIsWatched
IInv == TypeOK /\ Tables

-----------------------------------------------------------------------------
(* A command that is not the empty one has the fields of its kind.          *)
LEMMA CommandKinds ==
  ASSUME NEW cmd \in Commands \cup {NoCommand}
  PROVE  /\ cmd.op = "draw" => cmd \in DrawCommands
         /\ cmd.op = "dismiss" => cmd \in DismissCommands
         /\ cmd.op = "accept" => cmd \in AcceptCommands
         /\ cmd.op = "progress" => cmd \in ProgressCommands
         /\ cmd.op = "tiers" => cmd \in TierCommands
  BY DEF Commands, NoCommand, DrawCommands, DismissCommands, AcceptCommands,
         ProgressCommands, TierCommands

(* What a client holds is a command or nothing.                             *)
LEMMA OutboxHolds ==
  ASSUME TypeOK, NEW cl \in Clients
  PROVE  outbox[cl].command \in Commands \cup {NoCommand}
  BY DEF TypeOK, NoMessage

(* The draw of a current reservation is pending and of its collection.      *)
LEMMA CurrentIsPending ==
  ASSUME IInv, NEW c \in Collections, state[c].current # None
  PROVE  /\ state[c].current \in DrawIds
         /\ draw[state[c].current].collection = c
         /\ draw[state[c].current].status = "pending"
  <1>1. state[c].current \in DrawIds
    BY DEF IInv, TypeOK, StateRows
  <1> QED
    BY <1>1 DEF IInv, Tables, ReservationsMatch

-----------------------------------------------------------------------------
(* Sending and forgetting a message leave the tables alone.                 *)
LEMMA SendKeepsInvariant ==
  ASSUME IInv, NEW cl \in Clients, NEW cmd \in Commands, Send(cl, cmd)
  PROVE  IInv'
  <1>1. UNCHANGED <<catalog, progress, state, draw, tier, ledger, edits>>
    BY DEF Send
  <1>2. /\ outbox' = [x \in Clients |-> outbox'[x]]
        /\ \A x \in Clients :
             outbox'[x] = NoMessage \/ outbox'[x].command \in Commands
    BY DEF IInv, TypeOK, Send
  <1>3. TypeOK'
    BY <1>1, <1>2 DEF IInv, TypeOK
  <1>4. Tables'
    BY <1>1 DEF IInv, Tables, ReservationsMatch, ReservedIsUnwatched, RatedIsWatched
  <1> QED
    BY <1>3, <1>4 DEF IInv

LEMMA ForgetKeepsInvariant ==
  ASSUME IInv, NEW cl \in Clients, Forget(cl)
  PROVE  IInv'
  <1>1. UNCHANGED <<catalog, progress, state, draw, tier, ledger, edits>>
    BY DEF Forget
  <1>2. /\ outbox' = [x \in Clients |-> outbox'[x]]
        /\ \A x \in Clients :
             outbox'[x] = NoMessage \/ outbox'[x].command \in Commands
    BY DEF IInv, TypeOK, Forget
  <1>3. TypeOK'
    BY <1>1, <1>2 DEF IInv, TypeOK
  <1>4. Tables'
    BY <1>1 DEF IInv, Tables, ReservationsMatch, ReservedIsUnwatched, RatedIsWatched
  <1> QED
    BY <1>3, <1>4 DEF IInv

(* A command that a client can send is a command.                           *)
LEMMA SentIsCommand ==
  ASSUME IInv, NEW cl \in Clients, NEW id \in RequestIds
  PROVE  /\ \A c \in Collections :
              /\ SendDraw(cl, id, c) => \E cmd \in Commands : Send(cl, cmd)
              /\ SendDismiss(cl, id, c) => \E cmd \in Commands : Send(cl, cmd)
              /\ SendAccept(cl, id, c) => \E cmd \in Commands : Send(cl, cmd)
         /\ \A m \in Movies, s \in Statuses :
              SendProgress(cl, id, m, s) => \E cmd \in Commands : Send(cl, cmd)
         /\ \A c \in Collections, moves \in [Movies -> Ratings \cup {Keep}] :
              SendTiers(cl, id, c, moves) => \E cmd \in Commands : Send(cl, cmd)
  <1>1. ASSUME NEW c \in Collections
        PROVE  /\ state[c].version \in Nat /\ tier[c].version \in Nat
               /\ state[c].current # None => state[c].current \in DrawIds
               /\ state[c].current # None =>
                    progress[draw[state[c].current].movie].version \in Nat
    BY DEF IInv, TypeOK, StateRows, TierRows, DrawRows, ProgressRows
  <1>2. ASSUME NEW c \in Collections, SendDraw(cl, id, c)
        PROVE  \E cmd \in Commands : Send(cl, cmd)
    <2> DEFINE cmd == [op |-> "draw", id |-> id, collection |-> c,
                       expected |-> state[c].version]
    <2>1. cmd \in Commands
      BY <1>1 DEF Commands, DrawCommands
    <2> QED
      BY <1>2, <2>1 DEF SendDraw
  <1>3. ASSUME NEW c \in Collections, SendDismiss(cl, id, c)
        PROVE  \E cmd \in Commands : Send(cl, cmd)
    <2> DEFINE cmd == [op |-> "dismiss", id |-> id, collection |-> c,
                       draw |-> state[c].current, expected |-> state[c].version]
    <2>1. cmd \in Commands
      BY <1>1, <1>3 DEF Commands, DismissCommands, SendDismiss
    <2> QED
      BY <1>3, <2>1 DEF SendDismiss
  <1>4. ASSUME NEW c \in Collections, SendAccept(cl, id, c)
        PROVE  \E cmd \in Commands : Send(cl, cmd)
    <2> DEFINE cmd ==
          [op |-> "accept", id |-> id, collection |-> c,
           draw |-> state[c].current, expected |-> state[c].version,
           expectedProgress |-> progress[draw[state[c].current].movie].version]
    <2>1. cmd \in Commands
      BY <1>1, <1>4 DEF Commands, AcceptCommands, SendAccept
    <2> QED
      BY <1>4, <2>1 DEF SendAccept
  <1>5. ASSUME NEW m \in Movies, NEW s \in Statuses, SendProgress(cl, id, m, s)
        PROVE  \E cmd \in Commands : Send(cl, cmd)
    <2>1. PICK d \in {None} \cup {state[c].current : c \in Reserving(m)} :
            Send(cl, [op |-> "progress", id |-> id, movie |-> m, status |-> s,
                      expected |-> progress[m].version, draw |-> d])
      BY <1>5 DEF SendProgress
    <2>2. d \in DrawIds \cup {None}
      BY <1>1 DEF Reserving
    <2>3. progress[m].version \in Nat
      BY DEF IInv, TypeOK, ProgressRows
    <2> DEFINE cmd == [op |-> "progress", id |-> id, movie |-> m, status |-> s,
                       expected |-> progress[m].version, draw |-> d]
    <2>4. cmd \in Commands
      BY <2>2, <2>3 DEF Commands, ProgressCommands
    <2> QED
      BY <2>1, <2>4
  <1>6. ASSUME NEW c \in Collections, NEW moves \in [Movies -> Ratings \cup {Keep}],
               SendTiers(cl, id, c, moves)
        PROVE  \E cmd \in Commands : Send(cl, cmd)
    <2> DEFINE cmd == [op |-> "tiers", id |-> id, collection |-> c,
                       expected |-> tier[c].version, moves |-> moves]
    <2>1. cmd \in Commands
      BY <1>1 DEF Commands, TierCommands
    <2> QED
      BY <1>6, <2>1 DEF SendTiers
  <1> QED
    BY <1>2, <1>3, <1>4, <1>5, <1>6

-----------------------------------------------------------------------------
(* The commands that write.                                                 *)

(* Only the draw of the reservation and its collection change: a collection *)
(* reserves a fresh draw, or releases its current one.                      *)
LEMMA RememberTyped ==
  ASSUME TypeOK, NEW cl \in Clients, outbox[cl].command # NoCommand,
         Remember(outbox[cl].command)
  PROVE  ledger' \in [RequestIds -> Commands \cup {NoCommand}]
  <1>1. outbox[cl].command \in Commands
    BY OutboxHolds
  <1>2. outbox[cl].command.id \in RequestIds
    BY <1>1 DEF Commands, DrawCommands, DismissCommands, AcceptCommands,
                ProgressCommands, TierCommands
  <1> QED
    BY <1>1, <1>2 DEF TypeOK, Remember

LEMMA DrawKeepsInvariant ==
  ASSUME IInv, NEW cl \in Clients, DrawMovie(cl)
  PROVE  IInv'
  <1> DEFINE cmd == outbox[cl].command
             c == cmd.collection
  <1>1. cmd \in DrawCommands /\ c \in Collections /\ cmd # NoCommand
    BY OutboxHolds, CommandKinds DEF IInv, DrawMovie, DrawCommands, NoCommand
  <1>2. PICK d \in FreshDraws, m \in Eligible(c) :
          /\ draw' = [draw EXCEPT ![d] = [status |-> "pending",
                                          collection |-> c, movie |-> m]]
          /\ state' = [state EXCEPT ![c] = [current |-> d,
                                            version |-> state[c].version + 1]]
    BY DEF DrawMovie
  <1>3. /\ d \in DrawIds /\ draw[d].status = "none"
        /\ m \in Movies /\ progress[m].status = "unwatched"
    BY <1>2 DEF FreshDraws, Eligible, Entries, IInv, TypeOK, Catalogs
  <1>4. UNCHANGED <<catalog, progress, tier, outbox, edits>>
    BY DEF DrawMovie
  <1>5. TypeOK'
    <2>1. ledger' \in [RequestIds -> Commands \cup {NoCommand}]
      BY <1>1, RememberTyped DEF IInv, DrawMovie
    <2>2. draw' \in [DrawIds -> DrawRows]
      BY <1>1, <1>2, <1>3 DEF IInv, TypeOK, DrawRows, DrawStatuses
    <2>3. state' \in [Collections -> StateRows]
      BY <1>1, <1>2, <1>3 DEF IInv, TypeOK, StateRows
    <2> QED
      BY <1>4, <2>1, <2>2, <2>3 DEF IInv, TypeOK
  <1>6. ReservationsMatch'
    <2>1. \A x \in Collections : state[x].current # d
      BY <1>3, CurrentIsPending DEF None, DrawIds
    <2>2. state[c].current = None
      BY DEF DrawMovie
    <2>3. ASSUME NEW x \in Collections, state'[x].current # None
          PROVE  draw'[state'[x].current].collection = x
      <3>1. CASE x = c
        BY <1>1, <1>2, <1>3, <3>1 DEF IInv, TypeOK
      <3>2. CASE x # c
        BY <1>1, <1>2, <1>3, <2>1, <2>3, <3>2, CurrentIsPending DEF IInv, TypeOK
      <3> QED
        BY <3>1, <3>2
    <2>4. ASSUME NEW e \in DrawIds
          PROVE  draw'[e].status = "pending" <=> state'[draw'[e].collection].current = e
      <3>1. CASE e = d
        BY <1>1, <1>2, <1>3, <3>1 DEF IInv, TypeOK
      <3>2. CASE e # d
        <4>1. draw'[e] = draw[e] /\ draw[e].collection \in Collections
          BY <1>2, <1>3, <3>2 DEF IInv, TypeOK, DrawRows
        <4>2. draw[e].status = "pending" <=> state[draw[e].collection].current = e
          BY DEF IInv, Tables, ReservationsMatch
        <4>3. CASE draw[e].collection = c
          BY <1>1, <1>2, <1>3, <2>2, <3>2, <4>1, <4>2, <4>3
            DEF IInv, TypeOK, None, DrawIds
        <4>4. CASE draw[e].collection # c
          BY <1>1, <1>2, <4>1, <4>2, <4>4 DEF IInv, TypeOK
        <4> QED
          BY <4>3, <4>4
      <3> QED
        BY <3>1, <3>2
    <2> QED
      BY <2>3, <2>4 DEF ReservationsMatch
  <1>7. ReservedIsUnwatched'
    <2> SUFFICES ASSUME NEW e \in DrawIds, draw'[e].status = "pending"
                 PROVE  progress[draw'[e].movie].status = "unwatched"
      BY <1>4 DEF ReservedIsUnwatched
    <2> QED
      BY <1>2, <1>3 DEF IInv, Tables, ReservedIsUnwatched, TypeOK
  <1>8. RatedIsWatched'
    BY <1>4 DEF IInv, Tables, RatedIsWatched
  <1> QED
    BY <1>5, <1>6, <1>7, <1>8 DEF IInv, Tables

LEMMA DismissKeepsInvariant ==
  ASSUME IInv, NEW cl \in Clients, DismissDraw(cl)
  PROVE  IInv'
  <1> DEFINE cmd == outbox[cl].command
             c == cmd.collection
             d == cmd.draw
  <1>1. /\ cmd \in DismissCommands /\ cmd # NoCommand
        /\ c \in Collections /\ d \in DrawIds
    BY OutboxHolds, CommandKinds DEF IInv, DismissDraw, DismissCommands, NoCommand
  <1>2. PICK s \in {"dismissed", "invalidated"} :
          draw' = [draw EXCEPT ![d].status = s]
    BY DEF DismissDraw, Resolve
  <1>3. state' = [state EXCEPT ![c] = [current |-> None,
                                       version |-> state[c].version + 1]]
    BY DEF DismissDraw
  <1>4. /\ state[c].current = d /\ draw[d].collection = c
        /\ UNCHANGED <<catalog, progress, tier, outbox, edits>>
    BY <1>1, CurrentIsPending DEF DismissDraw, IsCurrent, None, DrawIds
  <1>5. TypeOK'
    <2>1. ledger' \in [RequestIds -> Commands \cup {NoCommand}]
      BY <1>1, RememberTyped DEF IInv, DismissDraw
    <2>2. draw' \in [DrawIds -> DrawRows]
      BY <1>1, <1>2 DEF IInv, TypeOK, DrawRows, DrawStatuses
    <2>3. state' \in [Collections -> StateRows]
      BY <1>1, <1>3 DEF IInv, TypeOK, StateRows
    <2> QED
      BY <1>4, <2>1, <2>2, <2>3 DEF IInv, TypeOK
  <1>6. \A e \in DrawIds : /\ e # d => draw'[e] = draw[e]
                           /\ draw'[e].collection = draw[e].collection
                           /\ draw'[e].movie = draw[e].movie
    BY <1>1, <1>2 DEF IInv, TypeOK, DrawRows
  <1>7. ReservationsMatch'
    <2>1. ASSUME NEW x \in Collections, state'[x].current # None
          PROVE  draw'[state'[x].current].collection = x
      BY <1>1, <1>3, <1>6, <2>1, CurrentIsPending DEF IInv, TypeOK
    <2>2. ASSUME NEW e \in DrawIds
          PROVE  draw'[e].status = "pending" <=> state'[draw'[e].collection].current = e
      <3>1. CASE e = d
        BY <1>1, <1>2, <1>3, <1>4, <1>6, <3>1 DEF IInv, TypeOK, DrawRows, None, DrawIds
      <3>2. CASE e # d
        <4>1. draw[e].status = "pending" <=> state[draw[e].collection].current = e
          BY DEF IInv, Tables, ReservationsMatch
        <4>2. draw[e].collection \in Collections
          BY DEF IInv, TypeOK, DrawRows
        <4>3. CASE draw[e].collection = c
          BY <1>1, <1>3, <1>4, <1>6, <3>2, <4>1, <4>3 DEF IInv, TypeOK, None, DrawIds
        <4>4. CASE draw[e].collection # c
          BY <1>1, <1>3, <1>6, <3>2, <4>1, <4>2, <4>4 DEF IInv, TypeOK
        <4> QED
          BY <4>3, <4>4
      <3> QED
        BY <3>1, <3>2
    <2> QED
      BY <2>1, <2>2 DEF ReservationsMatch
  <1>8. ReservedIsUnwatched'
    BY <1>1, <1>2, <1>4, <1>6 DEF IInv, Tables, ReservedIsUnwatched, TypeOK, DrawRows
  <1>9. RatedIsWatched'
    BY <1>4 DEF IInv, Tables, RatedIsWatched
  <1> QED
    BY <1>5, <1>7, <1>8, <1>9 DEF IInv, Tables

-----------------------------------------------------------------------------
(* The shared end of an acceptance and of a progress command.               *)
LEMMA MutateKeepsInvariant ==
  ASSUME IInv, NEW m \in Movies, NEW s \in Statuses, Mutate(m, s),
         UNCHANGED <<catalog, outbox, edits>>,
         ledger' \in [RequestIds -> Commands \cup {NoCommand}]
  PROVE  IInv'
  <1>1. /\ progress' = [progress EXCEPT ![m] = [status |-> s,
                                        version |-> progress[m].version + 1]]
        /\ progress' \in [Movies -> ProgressRows]
        /\ progress'[m].status = s
        /\ \A x \in Movies : x # m => progress'[x] = progress[x]
    BY DEF Mutate, WriteProgress, IInv, TypeOK, ProgressRows
  <1>2. /\ Resolved(m, s) \subseteq Collections
        /\ Touched(m, s) \subseteq Collections
        /\ s # "unwatched" => Resolved(m, s) = Reserving(m)
    BY DEF Resolved, Touched, Reserving
  <1>3. \A c \in Collections :
          /\ state'[c].current = (IF c \in Resolved(m, s) THEN None
                                  ELSE state[c].current)
          /\ state'[c] \in StateRows
    BY DEF Mutate, MoveStates, IInv, TypeOK, StateRows
  <1>4. state' \in [Collections -> StateRows]
    BY <1>3 DEF Mutate, MoveStates
  <1>5. \A d \in DrawIds :
          /\ draw'[d].collection = draw[d].collection
          /\ draw'[d].movie = draw[d].movie
          /\ draw'[d].status = (IF \E c \in Resolved(m, s) : state[c].current = d
                                THEN "accepted" ELSE draw[d].status)
          /\ draw'[d] \in DrawRows
    BY DEF Mutate, ResolveReservations, IInv, TypeOK, DrawRows, DrawStatuses
  <1>6. draw' \in [DrawIds -> DrawRows]
    BY <1>5 DEF Mutate, ResolveReservations
  <1>7. /\ tier' \in [Collections -> TierRows]
        /\ \A c \in Collections, x \in Movies :
             tier'[c].rating[x] # Unrated =>
               /\ tier[c].rating[x] # Unrated
               /\ s = "watched" \/ x # m
    <2>1. CASE s = "watched"
      BY <2>1 DEF Mutate, ClearMovie, IInv, TypeOK
    <2>2. CASE s # "watched"
      <3>1. tier' = [c \in Collections |-> WithoutRating(tier[c], m)]
        BY <2>2 DEF Mutate, ClearMovie
      <3>2. ASSUME NEW c \in Collections
            PROVE  /\ WithoutRating(tier[c], m) \in TierRows
                   /\ \A x \in Movies :
                        WithoutRating(tier[c], m).rating[x] # Unrated =>
                          tier[c].rating[x] # Unrated /\ x # m
        BY DEF WithoutRating, IInv, TypeOK, TierRows, Ratings
      <3> QED
        BY <3>1, <3>2
    <2> QED
      BY <2>1, <2>2
  <1>8. TypeOK'
    BY <1>1, <1>4, <1>6, <1>7 DEF IInv, TypeOK
  <1>9. ReservationsMatch'
    <2>1. ASSUME NEW c \in Collections, state'[c].current # None
          PROVE  draw'[state'[c].current].collection = c
      BY <1>3, <1>5, <2>1, CurrentIsPending
    <2>2. ASSUME NEW d \in DrawIds
          PROVE  draw'[d].status = "pending" <=> state'[draw'[d].collection].current = d
      <3>1. draw[d].collection \in Collections
        BY DEF IInv, TypeOK, DrawRows
      <3>2. draw[d].status = "pending" <=> state[draw[d].collection].current = d
        BY DEF IInv, Tables, ReservationsMatch
      <3>3. CASE \E c \in Resolved(m, s) : state[c].current = d
        <4>1. PICK c \in Resolved(m, s) : state[c].current = d
          BY <3>3
        <4>2. draw[d].collection = c
          BY <1>2, <4>1, CurrentIsPending DEF None, DrawIds
        <4> QED
          BY <1>3, <1>5, <3>1, <3>3, <4>1, <4>2 DEF None, DrawIds
      <3>4. CASE ~\E c \in Resolved(m, s) : state[c].current = d
        BY <1>3, <1>5, <3>1, <3>2, <3>4 DEF None, DrawIds
      <3> QED
        BY <3>3, <3>4
    <2> QED
      BY <2>1, <2>2 DEF ReservationsMatch
  <1>10. ReservedIsUnwatched'
    <2> SUFFICES ASSUME NEW d \in DrawIds, draw'[d].status = "pending"
                 PROVE  progress'[draw'[d].movie].status = "unwatched"
      BY DEF ReservedIsUnwatched
    <2>1. /\ draw[d].status = "pending"
          /\ ~\E c \in Resolved(m, s) : state[c].current = d
      BY <1>5
    <2>2. progress[draw[d].movie].status = "unwatched" /\ draw[d].movie \in Movies
      BY <2>1 DEF IInv, Tables, ReservedIsUnwatched, TypeOK, DrawRows
    <2>3. CASE draw[d].movie = m /\ s # "unwatched"
      <3>1. draw[d].collection \in Collections /\ state[draw[d].collection].current = d
        BY <2>1 DEF IInv, Tables, ReservationsMatch, TypeOK, DrawRows
      <3>2. draw[d].collection \in Reserving(m)
        BY <2>3, <3>1 DEF Reserving, None, DrawIds
      <3> QED
        BY <1>2, <2>1, <2>3, <3>1, <3>2
    <2>4. CASE draw[d].movie = m /\ s = "unwatched"
      BY <1>1, <1>5, <2>4
    <2>5. CASE draw[d].movie # m
      BY <1>1, <1>5, <2>2, <2>5
    <2> QED
      BY <2>3, <2>4, <2>5
  <1>11. RatedIsWatched'
    BY <1>1, <1>7 DEF IInv, Tables, RatedIsWatched
  <1> QED
    BY <1>8, <1>9, <1>10, <1>11 DEF IInv, Tables

LEMMA AcceptKeepsInvariant ==
  ASSUME IInv, NEW cl \in Clients, AcceptDraw(cl)
  PROVE  IInv'
  <1> DEFINE cmd == outbox[cl].command
  <1>1. cmd \in AcceptCommands /\ cmd # NoCommand /\ cmd.draw \in DrawIds
    BY OutboxHolds, CommandKinds DEF IInv, AcceptDraw, AcceptCommands, NoCommand
  <1>2. draw[cmd.draw].movie \in Movies
    BY <1>1 DEF IInv, TypeOK, DrawRows
  <1>3. ledger' \in [RequestIds -> Commands \cup {NoCommand}]
    BY <1>1, RememberTyped DEF IInv, AcceptDraw
  <1> QED
    BY <1>2, <1>3, MutateKeepsInvariant DEF AcceptDraw, Statuses

LEMMA ProgressKeepsInvariant ==
  ASSUME IInv, NEW cl \in Clients, SetProgress(cl)
  PROVE  IInv'
  <1> DEFINE cmd == outbox[cl].command
  <1>1. /\ cmd \in ProgressCommands /\ cmd # NoCommand
        /\ cmd.movie \in Movies /\ cmd.status \in Statuses
    BY OutboxHolds, CommandKinds DEF IInv, SetProgress, ProgressCommands, NoCommand
  <1>2. ledger' \in [RequestIds -> Commands \cup {NoCommand}]
    BY <1>1, RememberTyped DEF IInv, SetProgress
  <1> QED
    BY <1>1, <1>2, MutateKeepsInvariant DEF SetProgress

LEMMA RebalanceKeepsInvariant ==
  ASSUME IInv, NEW cl \in Clients, Rebalance(cl)
  PROVE  IInv'
  <1> DEFINE cmd == outbox[cl].command
             c == cmd.collection
  <1>1. /\ cmd \in TierCommands /\ cmd # NoCommand /\ c \in Collections
        /\ cmd.moves \in [Movies -> Ratings \cup {Keep}]
    BY OutboxHolds, CommandKinds DEF IInv, Rebalance, TierCommands, NoCommand
  <1>2. ledger' \in [RequestIds -> Commands \cup {NoCommand}]
    BY <1>1, RememberTyped DEF IInv, Rebalance
  <1>3. UNCHANGED <<catalog, progress, state, draw, outbox, edits>>
    BY DEF Rebalance
  <1> DEFINE rating == [m \in Movies |-> IF cmd.moves[m] = Keep
                                         THEN tier[c].rating[m] ELSE cmd.moves[m]]
  <1>4. tier' = [tier EXCEPT ![c] = [rating |-> rating,
                                     version |-> tier[c].version + 1]]
    BY DEF Rebalance
  <1>5. /\ rating \in [Movies -> Ratings]
        /\ tier[c] \in TierRows
    BY <1>1 DEF IInv, TypeOK, TierRows
  <1>6. tier' \in [Collections -> TierRows]
    <2>1. [rating |-> rating, version |-> tier[c].version + 1] \in TierRows
      BY <1>5 DEF TierRows
    <2> HIDE DEF rating
    <2> QED
      BY <1>1, <1>4, <2>1 DEF IInv, TypeOK
  <1>7. TypeOK'
    BY <1>2, <1>3, <1>6 DEF IInv, TypeOK
  <1>8. RatedIsWatched'
    <2> SUFFICES ASSUME NEW x \in Collections, NEW m \in Movies,
                        tier'[x].rating[m] # Unrated
                 PROVE  progress[m].status = "watched"
      BY <1>3 DEF RatedIsWatched
    <2>1. CASE x = c
      <3>1. tier'[x].rating[m] = rating[m]
        BY <1>1, <1>4, <2>1 DEF IInv, TypeOK
      <3>2. CASE cmd.moves[m] = Keep
        BY <1>1, <3>1, <3>2 DEF IInv, Tables, RatedIsWatched
      <3>3. CASE cmd.moves[m] # Keep
        <4>1. MoveAllowed(c, cmd.moves, m)
          BY DEF Rebalance
        <4>2. m \in Board(c)
          BY <3>1, <3>3, <4>1 DEF MoveAllowed
        <4> QED
          BY <4>2 DEF Board
      <3> QED
        BY <3>2, <3>3
    <2>2. CASE x # c
      BY <1>1, <1>4, <2>2 DEF IInv, Tables, RatedIsWatched, TypeOK
    <2> QED
      BY <2>1, <2>2
  <1>9. ReservationsMatch' /\ ReservedIsUnwatched'
    BY <1>3 DEF IInv, Tables, ReservationsMatch, ReservedIsUnwatched
  <1> QED
    BY <1>7, <1>8, <1>9 DEF IInv, Tables

LEMMA EditKeepsInvariant ==
  ASSUME IInv, NEW k, NEW changed \in Catalogs, Edit(k, changed)
  PROVE  IInv'
  <1>1. UNCHANGED <<progress, state, draw, tier, ledger, outbox>>
    BY DEF Edit
  <1>2. catalog' \in Catalogs /\ edits' \in 0 .. MaxEdits
    BY MovieBounds DEF Edit, IInv, TypeOK
  <1>3. TypeOK'
    BY <1>1, <1>2 DEF IInv, TypeOK
  <1>4. Tables'
    BY <1>1 DEF IInv, Tables, ReservationsMatch, ReservedIsUnwatched, RatedIsWatched
  <1> QED
    BY <1>3, <1>4 DEF IInv

LEMMA EditsAreTyped ==
  ASSUME IInv, NEW c \in Collections, NEW m \in Movies
  PROVE  /\ [catalog EXCEPT !.open = Toggle(@, c)] \in Catalogs
         /\ [catalog EXCEPT !.shown = Toggle(@, m)] \in Catalogs
         /\ [catalog EXCEPT !.entries = @ \ {<<c, m>>}] \in Catalogs
         /\ [catalog EXCEPT !.entries = @ \cup {<<c, m>>}] \in Catalogs
  BY DEF IInv, TypeOK, Catalogs, Toggle

-----------------------------------------------------------------------------
LEMMA InitEstablishesInvariant == Init => IInv
  <1> SUFFICES ASSUME Init PROVE IInv
    OBVIOUS
  <1>1. BlankDraw \in DrawRows
    BY MovieCatalog DEF BlankDraw, DrawRows, DrawStatuses
  <1>2. TypeOK
    BY <1>1, MovieBounds, MovieCatalog
      DEF Init, TypeOK, Catalogs, StateRows, TierRows, Ratings, NoMessage
  <1>3. ReservationsMatch
    BY <1>1 DEF Init, ReservationsMatch, BlankDraw, DrawRows, None, DrawIds
  <1>4. ReservedIsUnwatched /\ RatedIsWatched
    BY DEF Init, ReservedIsUnwatched, RatedIsWatched, BlankDraw
  <1> QED
    BY <1>2, <1>3, <1>4 DEF IInv, Tables

LEMMA NextKeepsInvariant == IInv /\ [Next]_vars => IInv'
  <1> SUFFICES ASSUME IInv, [Next]_vars PROVE IInv'
    OBVIOUS
  <1>1. ASSUME NEW cl \in Clients, NEW id \in RequestIds, NEW c \in Collections,
               SendDraw(cl, id, c) \/ SendDismiss(cl, id, c) \/ SendAccept(cl, id, c)
        PROVE  IInv'
    BY <1>1, SentIsCommand, SendKeepsInvariant
  <1>2. ASSUME NEW cl \in Clients, NEW id \in RequestIds, NEW m \in Movies,
               NEW s \in Statuses, SendProgress(cl, id, m, s)
        PROVE  IInv'
    BY <1>2, SentIsCommand, SendKeepsInvariant
  <1>3. ASSUME NEW cl \in Clients, NEW id \in RequestIds, NEW c \in Collections,
               NEW moves \in [Movies -> Ratings \cup {Keep}],
               SendTiers(cl, id, c, moves)
        PROVE  IInv'
    BY <1>3, SentIsCommand, SendKeepsInvariant
  <1>4. ASSUME NEW cl \in Clients,
               \/ DrawMovie(cl) \/ DismissDraw(cl) \/ AcceptDraw(cl)
               \/ SetProgress(cl) \/ Rebalance(cl) \/ Forget(cl)
        PROVE  IInv'
    BY <1>4, DrawKeepsInvariant, DismissKeepsInvariant, AcceptKeepsInvariant,
       ProgressKeepsInvariant, RebalanceKeepsInvariant, ForgetKeepsInvariant
  <1>5. ASSUME NEW c \in Collections, ToggleCollection(c)
        PROVE  IInv'
    BY <1>5, MovieCatalog, EditsAreTyped, EditKeepsInvariant DEF ToggleCollection
  <1>6. ASSUME NEW m \in Movies, ToggleMovie(m)
        PROVE  IInv'
    BY <1>6, MovieCatalog, EditsAreTyped, EditKeepsInvariant DEF ToggleMovie
  <1>7. ASSUME NEW c \in Collections, NEW m \in Movies,
               RemoveEntry(c, m) \/ AddEntry(c, m)
        PROVE  IInv'
    BY <1>7, EditsAreTyped, EditKeepsInvariant DEF RemoveEntry, AddEntry
  <1>8. CASE UNCHANGED vars
    BY <1>8 DEF vars, IInv, TypeOK, Tables, ReservationsMatch,
                ReservedIsUnwatched, RatedIsWatched
  <1> QED
    BY <1>1, <1>2, <1>3, <1>4, <1>5, <1>6, <1>7, <1>8 DEF Next

LEMMA InvariantHolds == Spec => []IInv
  BY InitEstablishesInvariant, NextKeepsInvariant, PTL DEF Spec

(* Every reachable state is well typed, for any collections, movies,        *)
(* clients, request ids and bounds.                                         *)
THEOREM MovieTypes == Spec => []TypeOK
  BY InvariantHolds, PTL DEF IInv

(* A collection's current draw is its only pending one.                     *)
THEOREM OneReservation == Spec => []ReservationsMatch
  <1>1. IInv => ReservationsMatch
    BY DEF IInv, Tables
  <1> QED
    BY <1>1, InvariantHolds, PTL

(* No movie that was started or finished is reserved in any collection.     *)
THEOREM NoReservationOutlivesProgress == Spec => []ReservedIsUnwatched
  <1>1. IInv => ReservedIsUnwatched
    BY DEF IInv, Tables
  <1> QED
    BY <1>1, InvariantHolds, PTL

(* No movie keeps a tier once it is no longer watched.                      *)
THEOREM NoTierOutlivesProgress == Spec => []RatedIsWatched
  <1>1. IInv => RatedIsWatched
    BY DEF IInv, Tables
  <1> QED
    BY <1>1, InvariantHolds, PTL

-----------------------------------------------------------------------------
(* Finality and lost updates.  Progress, states and tiers are versioned: a  *)
(* row that changes moves its version, and a draw that exists keeps its     *)
(* movie.                                                                   *)
VersionedStep ==
  /\ \A m \in Movies :
       /\ progress'[m].version >= progress[m].version
       /\ progress'[m].version = progress[m].version => progress'[m] = progress[m]
  /\ \A c \in Collections :
       /\ state'[c].version >= state[c].version
       /\ state'[c].version = state[c].version => state'[c] = state[c]
       /\ tier'[c].version >= tier[c].version
       /\ tier'[c].version = tier[c].version => tier'[c] = tier[c]
  /\ \A d \in DrawIds : draw[d].status # "none" =>
       /\ draw'[d].status # "none"
       /\ draw'[d].movie = draw[d].movie /\ draw'[d].collection = draw[d].collection
       /\ draw[d].status # "pending" => draw'[d] = draw[d]

LEMMA UnchangedIsVersioned ==
  ASSUME IInv, UNCHANGED <<progress, state, draw, tier>>
  PROVE  VersionedStep
  BY DEF VersionedStep, IInv, TypeOK, ProgressRows, StateRows, TierRows

LEMMA DrawIsVersioned ==
  ASSUME IInv, NEW cl \in Clients, DrawMovie(cl)
  PROVE  VersionedStep
  <1> DEFINE c == outbox[cl].command.collection
  <1>1. c \in Collections
    BY OutboxHolds, CommandKinds DEF IInv, DrawMovie, DrawCommands
  <1>2. PICK d \in FreshDraws, m \in Movies :
          /\ draw' = [draw EXCEPT ![d] = [status |-> "pending",
                                          collection |-> c, movie |-> m]]
          /\ state' = [state EXCEPT ![c] = [current |-> d,
                                            version |-> state[c].version + 1]]
    BY DEF DrawMovie, Eligible, Entries, IInv, TypeOK, Catalogs
  <1>3. d \in DrawIds /\ draw[d].status = "none"
    BY DEF FreshDraws
  <1>4. UNCHANGED <<progress, tier>>
    BY DEF DrawMovie
  <1>5. \A x \in Collections :
          /\ state'[x].version >= state[x].version
          /\ state'[x].version = state[x].version => state'[x] = state[x]
    BY <1>1, <1>2 DEF IInv, TypeOK, StateRows
  <1>6. \A e \in DrawIds : draw[e].status # "none" => draw'[e] = draw[e]
    BY <1>2, <1>3 DEF IInv, TypeOK
  <1> QED
    BY <1>4, <1>5, <1>6 DEF VersionedStep, IInv, TypeOK, ProgressRows, TierRows

LEMMA DismissIsVersioned ==
  ASSUME IInv, NEW cl \in Clients, DismissDraw(cl)
  PROVE  VersionedStep
  <1> DEFINE cmd == outbox[cl].command
             c == cmd.collection
  <1>1. c \in Collections /\ cmd.draw \in DrawIds
    BY OutboxHolds, CommandKinds DEF IInv, DismissDraw, DismissCommands
  <1>2. PICK s \in {"dismissed", "invalidated"} :
          draw' = [draw EXCEPT ![cmd.draw].status = s]
    BY DEF DismissDraw, Resolve
  <1>3. /\ state' = [state EXCEPT ![c] = [current |-> None,
                                          version |-> state[c].version + 1]]
        /\ draw[cmd.draw].status = "pending"
        /\ UNCHANGED <<progress, tier>>
    BY DEF DismissDraw, IsCurrent
  <1>4. \A x \in Collections :
          /\ state'[x].version >= state[x].version
          /\ state'[x].version = state[x].version => state'[x] = state[x]
    BY <1>1, <1>3 DEF IInv, TypeOK, StateRows
  <1>5. \A e \in DrawIds :
          /\ draw[e].status # "none" => draw'[e].status # "none"
          /\ draw'[e].movie = draw[e].movie
          /\ draw'[e].collection = draw[e].collection
          /\ draw[e].status # "pending" => draw'[e] = draw[e]
    BY <1>1, <1>2, <1>3 DEF IInv, TypeOK, DrawRows
  <1> QED
    BY <1>3, <1>4, <1>5 DEF VersionedStep, IInv, TypeOK, ProgressRows, TierRows

LEMMA MutateIsVersioned ==
  ASSUME IInv, NEW m \in Movies, NEW s \in Statuses, Mutate(m, s)
  PROVE  VersionedStep
  <1>1. \A x \in Movies :
          /\ progress'[x].version >= progress[x].version
          /\ progress'[x].version = progress[x].version => progress'[x] = progress[x]
    BY DEF Mutate, WriteProgress, IInv, TypeOK, ProgressRows
  <1>2. Resolved(m, s) \subseteq Touched(m, s)
    BY DEF Resolved, Touched, Reserving
  <1>3. ASSUME NEW c \in Collections
        PROVE  /\ state'[c].version >= state[c].version
               /\ state'[c].version = state[c].version => state'[c] = state[c]
    <2>1. state[c] \in StateRows
      BY DEF IInv, TypeOK
    <2>2. state'[c] = [current |-> IF c \in Resolved(m, s) THEN None
                                   ELSE state[c].current,
                       version |-> IF c \in Touched(m, s) THEN state[c].version + 1
                                   ELSE state[c].version]
      BY DEF Mutate, MoveStates
    <2>3. CASE c \in Touched(m, s)
      BY <2>1, <2>2, <2>3 DEF StateRows
    <2>4. CASE c \notin Touched(m, s)
      BY <1>2, <2>1, <2>2, <2>4 DEF StateRows
    <2> QED
      BY <2>3, <2>4
  <1>4. ASSUME NEW c \in Collections
        PROVE  /\ tier'[c].version >= tier[c].version
               /\ tier'[c].version = tier[c].version => tier'[c] = tier[c]
    <2>1. tier'[c] = tier[c] \/ tier'[c] = WithoutRating(tier[c], m)
      BY DEF Mutate, ClearMovie
    <2> QED
      BY <2>1 DEF WithoutRating, IInv, TypeOK, TierRows
  <1>5. ASSUME NEW d \in DrawIds, draw[d].status # "none"
        PROVE  /\ draw'[d].status # "none"
               /\ draw'[d].movie = draw[d].movie
               /\ draw'[d].collection = draw[d].collection
               /\ draw[d].status # "pending" => draw'[d] = draw[d]
    <2>1. CASE \E c \in Resolved(m, s) : state[c].current = d
      <3>1. draw[d].status = "pending"
        BY <2>1, CurrentIsPending DEF Resolved, Reserving, None, DrawIds
      <3> QED
        BY <2>1, <3>1 DEF Mutate, ResolveReservations, IInv, TypeOK, DrawRows
    <2>2. CASE ~\E c \in Resolved(m, s) : state[c].current = d
      BY <1>5, <2>2 DEF Mutate, ResolveReservations
    <2> QED
      BY <2>1, <2>2
  <1> QED
    BY <1>1, <1>3, <1>4, <1>5 DEF VersionedStep

LEMMA RebalanceIsVersioned ==
  ASSUME IInv, NEW cl \in Clients, Rebalance(cl)
  PROVE  VersionedStep
  <1> DEFINE c == outbox[cl].command.collection
  <1>1. c \in Collections
    BY OutboxHolds, CommandKinds DEF IInv, Rebalance, TierCommands
  <1>2. UNCHANGED <<progress, state, draw>>
    BY DEF Rebalance
  <1>3. PICK r : tier' = [tier EXCEPT ![c] = [rating |-> r,
                                              version |-> tier[c].version + 1]]
    BY DEF Rebalance
  <1>4. \A x \in Collections :
          /\ tier'[x].version >= tier[x].version
          /\ tier'[x].version = tier[x].version => tier'[x] = tier[x]
    BY <1>1, <1>3 DEF IInv, TypeOK, TierRows
  <1> QED
    BY <1>2, <1>4 DEF VersionedStep, IInv, TypeOK, ProgressRows, StateRows

(* A command as its client could have sent it: about rows that exist, and   *)
(* with versions that were once theirs (NotAhead); it is Current while they *)
(* still are.                                                               *)
NotAhead(cmd) ==
  /\ cmd.op \in {"draw", "dismiss", "accept"} =>
       cmd.expected <= state[cmd.collection].version
  /\ cmd.op = "accept" =>
       /\ draw[cmd.draw].status # "none"
       /\ cmd.expectedProgress <= progress[draw[cmd.draw].movie].version
  /\ cmd.op = "progress" => cmd.expected <= progress[cmd.movie].version
  /\ cmd.op = "tiers" => cmd.expected <= tier[cmd.collection].version

Current(cmd) ==
  /\ cmd.op \in {"draw", "dismiss", "accept"} =>
       cmd.expected = state[cmd.collection].version
  /\ cmd.op = "accept" =>
       cmd.expectedProgress = progress[draw[cmd.draw].movie].version
  /\ cmd.op = "progress" => cmd.expected = progress[cmd.movie].version
  /\ cmd.op = "tiers" => cmd.expected = tier[cmd.collection].version

(* While the versions are those of the message, so is what they stand for.  *)
Seen ==
  \A cl \in Clients : \A cmd \in Commands :
    outbox[cl].command = cmd =>
      NotAhead(cmd) /\ (Current(cmd) => outbox[cl].saw = Saw(cmd))

LEMMA CommandFields ==
  ASSUME NEW cmd \in Commands
  PROVE  /\ cmd.op \in {"draw", "dismiss", "accept", "tiers"} =>
              cmd.collection \in Collections /\ cmd.expected \in Nat
         /\ cmd.op \in {"dismiss", "accept"} => cmd.draw \in DrawIds
         /\ cmd.op = "accept" => cmd.expectedProgress \in Nat
         /\ cmd.op = "progress" => cmd.movie \in Movies /\ cmd.expected \in Nat
         /\ cmd.op \in {"draw", "dismiss", "accept", "progress", "tiers"}
         /\ cmd.id \in RequestIds
         /\ cmd # NoCommand
  BY DEF Commands, DrawCommands, DismissCommands, AcceptCommands,
         ProgressCommands, TierCommands, NoCommand

LEMMA Sandwich ==
  \A x, y \in Nat : \A e : e <= x /\ e = y /\ y >= x => y = x
  OBVIOUS

(* A versioned step leaves a command behind the tables, and what a current  *)
(* command stands for is what it stood for before.                          *)
LEMMA VersionedStepKeepsSaw ==
  ASSUME IInv, VersionedStep, NEW cmd \in Commands, NotAhead(cmd),
         progress' \in [Movies -> ProgressRows],
         state' \in [Collections -> StateRows],
         tier' \in [Collections -> TierRows]
  PROVE  /\ NotAhead(cmd)'
         /\ Current(cmd)' => Current(cmd) /\ Saw(cmd)' = Saw(cmd)
  <1>1. /\ \A m \in Movies : progress[m].version \in Nat /\ progress'[m].version \in Nat
        /\ \A c \in Collections :
             /\ state[c].version \in Nat /\ state'[c].version \in Nat
             /\ tier[c].version \in Nat /\ tier'[c].version \in Nat
        /\ \A d \in DrawIds : draw[d].movie \in Movies
    BY DEF IInv, TypeOK, ProgressRows, StateRows, TierRows, DrawRows
  <1>2. CASE cmd.op \in {"draw", "dismiss"}
    <2>1. cmd.collection \in Collections /\ cmd.expected \in Nat
      BY <1>2, CommandFields
    <2>2. NotAhead(cmd)'
      BY <1>1, <1>2, <2>1 DEF NotAhead, VersionedStep
    <2>3. ASSUME Current(cmd)'
          PROVE  state'[cmd.collection] = state[cmd.collection]
      <3>1. cmd.expected <= state[cmd.collection].version
        BY <1>2 DEF NotAhead
      <3>2. cmd.expected = state'[cmd.collection].version
        BY <1>2, <2>3 DEF Current
      <3>3. state'[cmd.collection].version >= state[cmd.collection].version
        BY <2>1 DEF VersionedStep
      <3>a. state[cmd.collection].version \in Nat /\ state'[cmd.collection].version \in Nat
        BY <1>1, <2>1
      <3>4. state'[cmd.collection].version = state[cmd.collection].version
        BY <3>a, <3>1, <3>2, <3>3, Sandwich
      <3> QED
        BY <2>1, <3>4 DEF VersionedStep
    <2>4. Current(cmd)' => Current(cmd)
      BY <1>2, <2>3 DEF Current
    <2>5. Saw(cmd) = <<state[cmd.collection].current>> /\ Saw(cmd)' = <<state'[cmd.collection].current>>
      BY <1>2 DEF Saw
    <2> QED
      BY <2>2, <2>3, <2>4, <2>5
  <1>3. CASE cmd.op = "accept"
    <2>1. /\ cmd.collection \in Collections /\ cmd.expected \in Nat
          /\ cmd.draw \in DrawIds /\ cmd.expectedProgress \in Nat
      BY <1>3, CommandFields
    <2>2. /\ draw'[cmd.draw].status # "none"
          /\ draw'[cmd.draw].movie = draw[cmd.draw].movie
      BY <1>3, <2>1 DEF NotAhead, VersionedStep
    <2>3. NotAhead(cmd)'
      BY <1>1, <1>3, <2>1, <2>2 DEF NotAhead, VersionedStep
    <2>7. ASSUME Current(cmd)'
          PROVE  state'[cmd.collection] = state[cmd.collection]
      <3>1. cmd.expected <= state[cmd.collection].version
        BY <1>3 DEF NotAhead
      <3>2. cmd.expected = state'[cmd.collection].version
        BY <1>3, <2>7 DEF Current
      <3>3. state'[cmd.collection].version >= state[cmd.collection].version
        BY <2>1 DEF VersionedStep
      <3>a. state[cmd.collection].version \in Nat /\ state'[cmd.collection].version \in Nat
        BY <1>1, <2>1
      <3>4. state'[cmd.collection].version = state[cmd.collection].version
        BY <3>a, <3>1, <3>2, <3>3, Sandwich
      <3> QED
        BY <2>1, <3>4 DEF VersionedStep
    <2>8. ASSUME Current(cmd)'
          PROVE  progress'[draw[cmd.draw].movie] = progress[draw[cmd.draw].movie]
      <3>0. draw[cmd.draw].movie \in Movies
        BY <1>1, <2>1
      <3>1. cmd.expectedProgress <= progress[draw[cmd.draw].movie].version
        BY <1>3, <2>2 DEF NotAhead
      <3>2. cmd.expectedProgress = progress'[draw[cmd.draw].movie].version
        BY <1>3, <2>8, <2>2 DEF Current
      <3>3. progress'[draw[cmd.draw].movie].version >= progress[draw[cmd.draw].movie].version
        BY <3>0 DEF VersionedStep
      <3>a. progress[draw[cmd.draw].movie].version \in Nat /\ progress'[draw[cmd.draw].movie].version \in Nat
        BY <1>1, <2>1, <3>0
      <3>4. progress'[draw[cmd.draw].movie].version = progress[draw[cmd.draw].movie].version
        BY <3>a, <3>1, <3>2, <3>3, Sandwich
      <3> QED
        BY <3>0, <3>4 DEF VersionedStep
    <2>4. Current(cmd)' => /\ state'[cmd.collection] = state[cmd.collection]
                           /\ progress'[draw[cmd.draw].movie]
                                = progress[draw[cmd.draw].movie]
      BY <2>7, <2>8
    <2>5. Current(cmd)' => Current(cmd)
      BY <1>3, <2>2, <2>4 DEF Current
    <2>6. /\ Saw(cmd) = <<state[cmd.collection].current,
                          progress[draw[cmd.draw].movie].status>>
          /\ Saw(cmd)' = <<state'[cmd.collection].current,
                           progress'[draw'[cmd.draw].movie].status>>
      BY <1>3 DEF Saw
    <2> QED
      BY <2>2, <2>3, <2>4, <2>5, <2>6
  <1>4. CASE cmd.op = "progress"
    <2>1. cmd.movie \in Movies /\ cmd.expected \in Nat
      BY <1>4, CommandFields
    <2>2. NotAhead(cmd)'
      BY <1>1, <1>4, <2>1 DEF NotAhead, VersionedStep
    <2>3. ASSUME Current(cmd)'
          PROVE  progress'[cmd.movie] = progress[cmd.movie]
      <3>1. cmd.expected <= progress[cmd.movie].version
        BY <1>4 DEF NotAhead
      <3>2. cmd.expected = progress'[cmd.movie].version
        BY <1>4, <2>3 DEF Current
      <3>3. progress'[cmd.movie].version >= progress[cmd.movie].version
        BY <2>1 DEF VersionedStep
      <3>a. progress[cmd.movie].version \in Nat /\ progress'[cmd.movie].version \in Nat
        BY <1>1, <2>1
      <3>4. progress'[cmd.movie].version = progress[cmd.movie].version
        BY <3>a, <3>1, <3>2, <3>3, Sandwich
      <3> QED
        BY <2>1, <3>4 DEF VersionedStep
    <2>4. Current(cmd)' => Current(cmd)
      BY <1>4, <2>3 DEF Current
    <2>5. Saw(cmd) = <<progress[cmd.movie].status>> /\ Saw(cmd)' = <<progress'[cmd.movie].status>>
      BY <1>4 DEF Saw
    <2> QED
      BY <2>2, <2>3, <2>4, <2>5
  <1>5. CASE cmd.op = "tiers"
    <2>1. cmd.collection \in Collections /\ cmd.expected \in Nat
      BY <1>5, CommandFields
    <2>2. NotAhead(cmd)'
      BY <1>1, <1>5, <2>1 DEF NotAhead, VersionedStep
    <2>3. ASSUME Current(cmd)'
          PROVE  tier'[cmd.collection] = tier[cmd.collection]
      <3>1. cmd.expected <= tier[cmd.collection].version
        BY <1>5 DEF NotAhead
      <3>2. cmd.expected = tier'[cmd.collection].version
        BY <1>5, <2>3 DEF Current
      <3>3. tier'[cmd.collection].version >= tier[cmd.collection].version
        BY <2>1 DEF VersionedStep
      <3>a. tier[cmd.collection].version \in Nat /\ tier'[cmd.collection].version \in Nat
        BY <1>1, <2>1
      <3>4. tier'[cmd.collection].version = tier[cmd.collection].version
        BY <3>a, <3>1, <3>2, <3>3, Sandwich
      <3> QED
        BY <2>1, <3>4 DEF VersionedStep
    <2>4. Current(cmd)' => Current(cmd)
      BY <1>5, <2>3 DEF Current
    <2>5. Saw(cmd) = <<tier[cmd.collection].rating>> /\ Saw(cmd)' = <<tier'[cmd.collection].rating>>
      BY <1>5 DEF Saw
    <2> QED
      BY <2>2, <2>3, <2>4, <2>5
  <1> QED
    BY <1>2, <1>3, <1>4, <1>5, CommandFields

(* A message that stays in the outbox stays seen, and a new one is.         *)
LEMMA OutboxKeepsSeen ==
  ASSUME IInv, IInv', Seen, VersionedStep, outbox' = outbox
  PROVE  Seen'
  <1> SUFFICES ASSUME NEW cl \in Clients, NEW cmd \in Commands,
                      outbox[cl].command = cmd
               PROVE  NotAhead(cmd)' /\ (Current(cmd)' => outbox[cl].saw = Saw(cmd)')
    BY DEF Seen
  <1>1. NotAhead(cmd) /\ (Current(cmd) => outbox[cl].saw = Saw(cmd))
    BY DEF Seen
  <1> QED
    BY <1>1, VersionedStepKeepsSaw DEF IInv, TypeOK

LEMMA NewMessageKeepsSeen ==
  ASSUME IInv, Seen, NEW cl \in Clients, NEW sent \in Commands,
         NotAhead(sent), Send(cl, sent)
  PROVE  Seen'
  <1>1. UNCHANGED <<progress, state, draw, tier>>
    BY DEF Send
  <1> SUFFICES ASSUME NEW x \in Clients, NEW cmd \in Commands,
                      outbox'[x].command = cmd
               PROVE  NotAhead(cmd)' /\ (Current(cmd)' => outbox'[x].saw = Saw(cmd)')
    BY DEF Seen
  <1>2. NotAhead(cmd)' = NotAhead(cmd) /\ Current(cmd)' = Current(cmd)
    BY <1>1 DEF NotAhead, Current
  <1>3. Saw(cmd)' = Saw(cmd)
    BY <1>1 DEF Saw
  <1>4. CASE x = cl
    <2>1. outbox'[x] = [command |-> sent, saw |-> Saw(sent)]
      BY <1>4 DEF Send, IInv, TypeOK
    <2> QED
      BY <1>2, <1>3, <2>1
  <1>5. CASE x # cl
    <2>1. outbox'[x] = outbox[x]
      BY <1>5 DEF Send, IInv, TypeOK
    <2> QED
      BY <1>2, <1>3, <2>1 DEF Seen
  <1> QED
    BY <1>4, <1>5

LEMMA ForgetKeepsSeen ==
  ASSUME IInv, Seen, NEW cl \in Clients, Forget(cl)
  PROVE  Seen'
  <1>1. UNCHANGED <<progress, state, draw, tier>>
    BY DEF Forget
  <1> SUFFICES ASSUME NEW x \in Clients, NEW cmd \in Commands,
                      outbox'[x].command = cmd
               PROVE  NotAhead(cmd)' /\ (Current(cmd)' => outbox'[x].saw = Saw(cmd)')
    BY DEF Seen
  <1>2. x # cl
    BY CommandFields DEF Forget, IInv, TypeOK, NoMessage
  <1>3. outbox'[x] = outbox[x]
    BY <1>2 DEF Forget, IInv, TypeOK
  <1>4. NotAhead(cmd)' = NotAhead(cmd) /\ Current(cmd)' = Current(cmd)
    BY <1>1 DEF NotAhead, Current
  <1>5. Saw(cmd)' = Saw(cmd)
    BY <1>1 DEF Saw
  <1> QED
    BY <1>3, <1>4, <1>5 DEF Seen

LEMMA SendsAreNotAhead ==
  ASSUME IInv, NEW cl \in Clients, NEW id \in RequestIds
  PROVE  /\ \A c \in Collections :
              SendDraw(cl, id, c) \/ SendDismiss(cl, id, c) \/ SendAccept(cl, id, c)
              => \E cmd \in Commands : NotAhead(cmd) /\ Send(cl, cmd)
         /\ \A m \in Movies, s \in Statuses :
              SendProgress(cl, id, m, s) =>
                \E cmd \in Commands : NotAhead(cmd) /\ Send(cl, cmd)
         /\ \A c \in Collections, moves \in [Movies -> Ratings \cup {Keep}] :
              SendTiers(cl, id, c, moves) =>
                \E cmd \in Commands : NotAhead(cmd) /\ Send(cl, cmd)
  <1>1. /\ \A c \in Collections : /\ state[c].version \in Nat
                                  /\ tier[c].version \in Nat
        /\ \A m \in Movies : progress[m].version \in Nat
        /\ \A c \in Collections : state[c].current # None =>
             /\ draw[state[c].current].status # "none"
             /\ state[c].current \in DrawIds
             /\ draw[state[c].current].movie \in Movies
    BY CurrentIsPending DEF IInv, TypeOK, StateRows, TierRows, ProgressRows, DrawRows
  <1>2. ASSUME NEW c \in Collections, SendDraw(cl, id, c)
        PROVE  \E cmd \in Commands : NotAhead(cmd) /\ Send(cl, cmd)
    <2> DEFINE cmd == [op |-> "draw", id |-> id, collection |-> c,
                       expected |-> state[c].version]
    <2>1. cmd \in Commands
      BY <1>1 DEF Commands, DrawCommands
    <2>2. NotAhead(cmd)
      BY <1>1 DEF NotAhead
    <2> QED
      BY <1>2, <2>1, <2>2 DEF SendDraw
  <1>3. ASSUME NEW c \in Collections, SendDismiss(cl, id, c)
        PROVE  \E cmd \in Commands : NotAhead(cmd) /\ Send(cl, cmd)
    <2> DEFINE cmd == [op |-> "dismiss", id |-> id, collection |-> c,
                       draw |-> state[c].current, expected |-> state[c].version]
    <2>1. cmd \in Commands
      BY <1>1, <1>3 DEF Commands, DismissCommands, SendDismiss
    <2>2. NotAhead(cmd)
      BY <1>1 DEF NotAhead
    <2> QED
      BY <1>3, <2>1, <2>2 DEF SendDismiss
  <1>4. ASSUME NEW c \in Collections, SendAccept(cl, id, c)
        PROVE  \E cmd \in Commands : NotAhead(cmd) /\ Send(cl, cmd)
    <2> DEFINE cmd ==
          [op |-> "accept", id |-> id, collection |-> c,
           draw |-> state[c].current, expected |-> state[c].version,
           expectedProgress |-> progress[draw[state[c].current].movie].version]
    <2>1. cmd \in Commands
      BY <1>1, <1>4 DEF Commands, AcceptCommands, SendAccept
    <2>2. NotAhead(cmd)
      BY <1>1, <1>4 DEF NotAhead, SendAccept
    <2> QED
      BY <1>4, <2>1, <2>2 DEF SendAccept
  <1>5. ASSUME NEW m \in Movies, NEW s \in Statuses, SendProgress(cl, id, m, s)
        PROVE  \E cmd \in Commands : NotAhead(cmd) /\ Send(cl, cmd)
    <2>1. PICK d \in {None} \cup {state[c].current : c \in Reserving(m)} :
            Send(cl, [op |-> "progress", id |-> id, movie |-> m, status |-> s,
                      expected |-> progress[m].version, draw |-> d])
      BY <1>5 DEF SendProgress
    <2> DEFINE cmd == [op |-> "progress", id |-> id, movie |-> m, status |-> s,
                       expected |-> progress[m].version, draw |-> d]
    <2>2. cmd \in Commands
      BY <1>1 DEF Commands, ProgressCommands, Reserving
    <2>3. NotAhead(cmd)
      BY <1>1 DEF NotAhead
    <2> QED
      BY <2>1, <2>2, <2>3
  <1>6. ASSUME NEW c \in Collections, NEW moves \in [Movies -> Ratings \cup {Keep}],
               SendTiers(cl, id, c, moves)
        PROVE  \E cmd \in Commands : NotAhead(cmd) /\ Send(cl, cmd)
    <2> DEFINE cmd == [op |-> "tiers", id |-> id, collection |-> c,
                       expected |-> tier[c].version, moves |-> moves]
    <2>1. cmd \in Commands
      BY <1>1 DEF Commands, TierCommands
    <2>2. NotAhead(cmd)
      BY <1>1 DEF NotAhead
    <2> QED
      BY <1>6, <2>1, <2>2 DEF SendTiers
  <1> QED
    BY <1>2, <1>3, <1>4, <1>5, <1>6

(* What every step is: a message sent or forgotten, a command that is new   *)
(* and current, or a change of the catalogue.                               *)
Commits(cl) ==
  /\ outbox[cl].command \in Commands
  /\ IsNew(outbox[cl].command) /\ Current(outbox[cl].command)
  /\ Remember(outbox[cl].command)
  /\ outbox' = outbox

LEMMA CommandsAreCurrent ==
  ASSUME IInv, NEW cl \in Clients,
         \/ DrawMovie(cl) \/ DismissDraw(cl) \/ AcceptDraw(cl)
         \/ SetProgress(cl) \/ Rebalance(cl)
  PROVE  Commits(cl) /\ VersionedStep
  <1> DEFINE cmd == outbox[cl].command
  <1>1. cmd.op # "none"
    BY DEF DrawMovie, DismissDraw, AcceptDraw, SetProgress, Rebalance
  <1>2. cmd \in Commands
    BY <1>1, OutboxHolds DEF IInv, NoCommand
  <1>3. CASE DrawMovie(cl)
    BY <1>2, <1>3, DrawIsVersioned DEF DrawMovie, Commits, Current
  <1>4. CASE DismissDraw(cl)
    BY <1>2, <1>4, DismissIsVersioned DEF DismissDraw, IsCurrent, Commits, Current
  <1>5. CASE AcceptDraw(cl)
    <2>1. draw[cmd.draw].movie \in Movies
      BY <1>2, <1>5, CommandFields DEF AcceptDraw, IInv, TypeOK, DrawRows
    <2>2. VersionedStep
      BY <1>5, <2>1, MutateIsVersioned DEF AcceptDraw, Statuses
    <2> QED
      BY <1>2, <1>5, <2>2 DEF AcceptDraw, IsCurrent, Commits, Current
  <1>6. CASE SetProgress(cl)
    <2>1. cmd.movie \in Movies /\ cmd.status \in Statuses
      BY <1>2, <1>6, CommandKinds DEF SetProgress, ProgressCommands
    <2>2. VersionedStep
      BY <1>6, <2>1, MutateIsVersioned DEF SetProgress
    <2> QED
      BY <1>2, <1>6, <2>2 DEF SetProgress, Commits, Current
  <1>7. CASE Rebalance(cl)
    BY <1>2, <1>7, RebalanceIsVersioned DEF Rebalance, Commits, Current
  <1> QED
    BY <1>3, <1>4, <1>5, <1>6, <1>7

LEMMA StepKinds ==
  ASSUME IInv, [Next]_vars
  PROVE  \/ \E cl \in Clients, cmd \in Commands : NotAhead(cmd) /\ Send(cl, cmd)
         \/ \E cl \in Clients : Forget(cl)
         \/ \E cl \in Clients : Commits(cl) /\ VersionedStep
         \/ UNCHANGED <<progress, state, draw, tier, ledger, outbox>>
  <1>1. ASSUME NEW cl \in Clients,
               \/ DrawMovie(cl) \/ DismissDraw(cl) \/ AcceptDraw(cl)
               \/ SetProgress(cl) \/ Rebalance(cl)
        PROVE  Commits(cl) /\ VersionedStep
    BY <1>1, CommandsAreCurrent
  <1>2. ASSUME \/ \E c \in Collections : ToggleCollection(c)
               \/ \E m \in Movies : ToggleMovie(m)
               \/ \E c \in Collections, m \in Movies : RemoveEntry(c, m) \/ AddEntry(c, m)
        PROVE  UNCHANGED <<progress, state, draw, tier, ledger, outbox>>
    BY <1>2 DEF ToggleCollection, ToggleMovie, RemoveEntry, AddEntry, Edit
  <1>3. CASE UNCHANGED vars
    BY <1>3 DEF vars
  <1>4. CASE Next
    BY <1>1, <1>2, <1>4, SendsAreNotAhead DEF Next
  <1> QED
    BY <1>3, <1>4

LEMMA SeenHolds == Spec => [](IInv /\ Seen)
  <1>1. Init => Seen
    BY CommandFields DEF Init, Seen, NoMessage
  <1>2. ASSUME IInv, IInv', Seen, [Next]_vars
        PROVE  Seen'
    <2>1. ASSUME NEW cl \in Clients, NEW cmd \in Commands, NotAhead(cmd), Send(cl, cmd)
          PROVE  Seen'
      BY <1>2, <2>1, NewMessageKeepsSeen
    <2>2. ASSUME NEW cl \in Clients, Forget(cl)
          PROVE  Seen'
      BY <1>2, <2>2, ForgetKeepsSeen
    <2>3. ASSUME NEW cl \in Clients, Commits(cl), VersionedStep
          PROVE  Seen'
      BY <1>2, <2>3, OutboxKeepsSeen DEF Commits
    <2>4. CASE UNCHANGED <<progress, state, draw, tier, ledger, outbox>>
      BY <1>2, <2>4, UnchangedIsVersioned, OutboxKeepsSeen
    <2> QED
      BY <1>2, <2>1, <2>2, <2>3, <2>4, StepKinds
  <1> QED
    BY <1>1, <1>2, InvariantHolds, PTL DEF Spec

(* A command takes effect only on what its client had read, for any number  *)
(* of clients and deliveries.                                               *)
THEOREM NoUpdateIsLost == Spec => NoLostUpdate
  <1>1. ASSUME IInv, Seen, [Next]_vars, NEW cl \in Clients,
               outbox[cl].command # NoCommand,
               ledger[outbox[cl].command.id] = NoCommand,
               ledger'[outbox[cl].command.id] = outbox[cl].command
        PROVE  outbox[cl].saw = Saw(outbox[cl].command)
    <2> DEFINE cmd == outbox[cl].command
    <2>1. cmd \in Commands
      BY <1>1, OutboxHolds DEF IInv
    <2>2. ledger' # ledger
      BY <1>1
    <2>3. PICK x \in Clients : Commits(x)
      BY <1>1, <2>2, StepKinds DEF Send, Forget
    <2>4. outbox[x].command = cmd
      BY <1>1, <2>1, <2>3, CommandFields DEF Commits, Remember, IInv, TypeOK
    <2> QED
      BY <1>1, <2>1, <2>3, <2>4 DEF Commits, Seen
  <1>2. IInv /\ Seen /\ [Next]_vars =>
          [\A cl \in Clients :
             LET cmd == outbox[cl].command
             IN /\ cmd # NoCommand
                /\ ledger[cmd.id] = NoCommand /\ ledger'[cmd.id] = cmd
                => outbox[cl].saw = Saw(cmd)]_vars
    BY <1>1
  <1> QED
    BY <1>2, SeenHolds, PTL DEF Spec, NoLostUpdate

(* A resolved draw and a remembered command are never changed.              *)
THEOREM MovieHistoryIsFinal == Spec => LedgerIsFinal
  <1>1. ASSUME IInv, [Next]_vars, NEW id \in RequestIds, ledger[id] # NoCommand
        PROVE  ledger'[id] = ledger[id]
    <2>1. CASE ledger' = ledger
      BY <2>1
    <2>2. CASE ledger' # ledger
      <3>1. PICK x \in Clients : Commits(x)
        BY <1>1, <2>2, StepKinds DEF Send, Forget
      <3> QED
        BY <1>1, <3>1 DEF Commits, Remember, IsNew, IInv, TypeOK
    <2> QED
      BY <2>1, <2>2
  <1>2. ASSUME IInv, [Next]_vars
        PROVE  VersionedStep
    BY <1>2, StepKinds, UnchangedIsVersioned DEF Send, Forget
  <1>3. IInv /\ [Next]_vars =>
          /\ \A d \in DrawIds :
               /\ draw[d].status \in {"accepted", "dismissed", "invalidated"}
                  => draw'[d] = draw[d]
               /\ draw[d].status = "pending" =>
                    /\ draw'[d].collection = draw[d].collection
                    /\ draw'[d].movie = draw[d].movie
          /\ \A id \in RequestIds :
               ledger[id] # NoCommand => ledger'[id] = ledger[id]
    BY <1>1, <1>2 DEF VersionedStep
  <1> QED
    BY <1>3, InvariantHolds, PTL DEF Spec, LedgerIsFinal

-----------------------------------------------------------------------------
(* The capacity of the tiers.  Rebalance counts the board of now, so a      *)
(* rating that outlives its entry comes back uncounted with the entry: the  *)
(* violation of the run TierReentry.  The theorem says that nothing else    *)
(* breaks the limits.                                                       *)
AddsUnrated ==
  \A c \in Collections, m \in Movies :
    <<c, m>> \in catalog'.entries \ catalog.entries => tier[c].rating[m] = Unrated

InTier(c, t) == {m \in Board(c) : tier[c].rating[m] = t}

(* A step other than a tier command only takes ratings away.                *)
LEMMA OnlyRebalanceRates ==
  ASSUME IInv, [Next]_vars, \A cl \in Clients : ~ Rebalance(cl)
  PROVE  \A c \in Collections, m \in Movies :
           tier'[c].rating[m] \in {tier[c].rating[m], Unrated}
  <1>1. ASSUME NEW m \in Movies, NEW s \in Statuses, Mutate(m, s)
        PROVE  \A c \in Collections, x \in Movies :
                 tier'[c].rating[x] \in {tier[c].rating[x], Unrated}
    <2> SUFFICES ASSUME NEW c \in Collections, NEW x \in Movies
                 PROVE  tier'[c].rating[x] \in {tier[c].rating[x], Unrated}
      OBVIOUS
    <2>1. tier[c].rating \in [Movies -> Ratings]
      BY DEF IInv, TypeOK, TierRows
    <2>2. tier' = tier \/ tier' = [y \in Collections |-> WithoutRating(tier[y], m)]
      BY <1>1 DEF Mutate, ClearMovie
    <2> QED
      BY <2>1, <2>2 DEF WithoutRating
  <1>2. ASSUME NEW cl \in Clients, AcceptDraw(cl)
        PROVE  \E m \in Movies, s \in Statuses : Mutate(m, s)
    <2>1. outbox[cl].command \in AcceptCommands
      BY <1>2, OutboxHolds, CommandKinds DEF IInv, AcceptDraw
    <2>2. draw[outbox[cl].command.draw].movie \in Movies
      BY <2>1 DEF AcceptCommands, IInv, TypeOK, DrawRows
    <2> QED
      BY <1>2, <2>2 DEF AcceptDraw, Statuses
  <1>3. ASSUME NEW cl \in Clients, SetProgress(cl)
        PROVE  \E m \in Movies, s \in Statuses : Mutate(m, s)
    <2>1. outbox[cl].command \in ProgressCommands
      BY <1>3, OutboxHolds, CommandKinds DEF IInv, SetProgress
    <2> QED
      BY <1>3, <2>1 DEF SetProgress, ProgressCommands
  <1>4. ASSUME NEW cl \in Clients, DrawMovie(cl) \/ DismissDraw(cl)
        PROVE  tier' = tier
    BY <1>4 DEF DrawMovie, DismissDraw
  <1>5. ASSUME UNCHANGED <<progress, state, draw, tier, ledger, outbox>>
        PROVE  tier' = tier
    BY <1>5
  <1>6. ASSUME \/ \E cl \in Clients, cmd \in Commands : Send(cl, cmd)
               \/ \E cl \in Clients : Forget(cl)
        PROVE  tier' = tier
    BY <1>6 DEF Send, Forget
  <1>7. \/ tier' = tier
        \/ \E cl \in Clients : AcceptDraw(cl) \/ SetProgress(cl)
    <2>1. CASE Next
      <3>1. ASSUME \/ \E c \in Collections : ToggleCollection(c)
                   \/ \E m \in Movies : ToggleMovie(m)
                   \/ \E c \in Collections, m \in Movies :
                        RemoveEntry(c, m) \/ AddEntry(c, m)
            PROVE  tier' = tier
        BY <3>1 DEF ToggleCollection, ToggleMovie, RemoveEntry, AddEntry, Edit
      <3> QED
        BY <2>1, <3>1, <1>4, <1>6, SendsAreNotAhead DEF Next
    <2>2. CASE UNCHANGED vars
      BY <2>2 DEF vars
    <2> QED
      BY <2>1, <2>2
  <1> QED
    BY <1>1, <1>2, <1>3, <1>7

(* What is in a tier afterwards was there before, or is what a tier command *)
(* proposed.                                                                *)
LEMMA TiersOnlyGrowByCommand ==
  ASSUME IInv, [Next]_vars, AddsUnrated, NEW c \in Collections, NEW t \in Tiers
  PROVE  \/ InTier(c, t)' \subseteq InTier(c, t)
         \/ \E cl \in Clients :
              /\ TierFits(Proposed(c, outbox[cl].command.moves))
              /\ InTier(c, t)' \subseteq
                   {m \in Movies : Proposed(c, outbox[cl].command.moves)[m] = t}
  <1>1. t # Unrated
    BY MovieCatalog
  <1>2. CASE \A cl \in Clients : ~ Rebalance(cl)
    <2> SUFFICES ASSUME NEW m \in InTier(c, t)'
                 PROVE  m \in InTier(c, t)
      OBVIOUS
    <2>1. m \in Movies /\ tier'[c].rating[m] = t /\ <<c, m>> \in catalog'.entries
      BY DEF InTier, Board
    <2>2. tier[c].rating[m] = t
      BY <1>1, <1>2, <2>1, OnlyRebalanceRates
    <2>3. progress[m].status = "watched"
      BY <1>1, <2>1, <2>2 DEF IInv, Tables, RatedIsWatched
    <2>4. <<c, m>> \in catalog.entries
      BY <1>1, <2>1, <2>2 DEF AddsUnrated
    <2> QED
      BY <2>1, <2>2, <2>3, <2>4 DEF InTier, Board
  <1>3. ASSUME NEW cl \in Clients, Rebalance(cl)
        PROVE  \/ InTier(c, t)' \subseteq InTier(c, t)
               \/ /\ TierFits(Proposed(c, outbox[cl].command.moves))
                  /\ InTier(c, t)' \subseteq
                       {m \in Movies : Proposed(c, outbox[cl].command.moves)[m] = t}
    <2> DEFINE cmd == outbox[cl].command
    <2>1. cmd \in TierCommands
      BY <1>3, OutboxHolds, CommandKinds DEF IInv, Rebalance
    <2>2. /\ cmd.collection \in Collections
          /\ cmd.moves \in [Movies -> Ratings \cup {Keep}]
      BY <2>1 DEF TierCommands
    <2>3. UNCHANGED <<catalog, progress>>
      BY <1>3 DEF Rebalance
    <2>4. Board(c)' = Board(c)
      BY <2>3 DEF Board
    <2>5. CASE c # cmd.collection
      <3>1. tier'[c] = tier[c]
        BY <1>3, <2>2, <2>5 DEF Rebalance, IInv, TypeOK
      <3> QED
        BY <2>4, <3>1 DEF InTier
    <2>6. CASE c = cmd.collection
      <3>1. tier'[c].rating = [m \in Movies |-> IF cmd.moves[m] = Keep
                                                THEN tier[c].rating[m]
                                                ELSE cmd.moves[m]]
        BY <1>3, <2>2, <2>6 DEF Rebalance, IInv, TypeOK
      <3>2. ASSUME NEW m \in InTier(c, t)'
            PROVE  m \in Movies /\ Proposed(c, cmd.moves)[m] = t
        <4>1. m \in Board(c) /\ m \in Movies /\ tier'[c].rating[m] = t
          BY <2>4, <3>2 DEF InTier, Board
        <4> QED
          BY <3>1, <4>1 DEF Proposed
      <3>3. TierFits(Proposed(c, cmd.moves))
        BY <1>3, <2>6 DEF Rebalance
      <3> QED
        BY <3>2, <3>3
    <2> QED
      BY <2>5, <2>6
  <1> QED
    BY <1>2, <1>3

(* No tier of a board holds more movies than its limit, as long as no movie *)
(* that has a tier enters a collection again.                               *)
THEOREM TiersStayWithinLimits == Spec /\ [][AddsUnrated]_vars => []TierLimits
  <1>1. Init => TierLimits
    <2> SUFFICES ASSUME Init, NEW c \in Collections, NEW t \in Tiers
                 PROVE  Cardinality({m \in Board(c) : tier[c].rating[m] = t})
                          <= TierLimit[t]
      BY DEF TierLimits
    <2>1. {m \in Board(c) : tier[c].rating[m] = t} = {}
      BY MovieCatalog DEF Init, Board
    <2> QED
      BY <2>1, FS_EmptySet, MovieCatalog
  <1>2. ASSUME IInv, TierLimits, [Next]_vars, [AddsUnrated]_vars
        PROVE  TierLimits'
    <2>1. AddsUnrated
      BY <1>2 DEF AddsUnrated, vars
    <2> SUFFICES ASSUME NEW c \in Collections, NEW t \in Tiers
                 PROVE  Cardinality(InTier(c, t)') <= TierLimit[t]
      BY DEF TierLimits, InTier
    <2>2. ASSUME NEW S, NEW T, S \subseteq T, T \subseteq Movies,
                 Cardinality(T) <= TierLimit[t]
          PROVE  Cardinality(S) <= TierLimit[t]
      <3>1. IsFiniteSet(T)
        BY <2>2, FS_Subset, MovieCatalog
      <3>2. IsFiniteSet(S) /\ Cardinality(S) <= Cardinality(T)
        BY <2>2, <3>1, FS_Subset
      <3>3. Cardinality(S) \in Nat /\ Cardinality(T) \in Nat
        BY <3>1, <3>2, FS_CardinalityType
      <3> QED
        BY <2>2, <3>2, <3>3, MovieCatalog
    <2>3. Cardinality(InTier(c, t)) <= TierLimit[t] /\ InTier(c, t) \subseteq Movies
      BY <1>2 DEF TierLimits, InTier, Board
    <2>4. CASE InTier(c, t)' \subseteq InTier(c, t)
      BY <2>2, <2>3, <2>4
    <2>5. ASSUME NEW cl \in Clients,
                 TierFits(Proposed(c, outbox[cl].command.moves)),
                 InTier(c, t)' \subseteq
                   {m \in Movies : Proposed(c, outbox[cl].command.moves)[m] = t}
          PROVE  Cardinality(InTier(c, t)') <= TierLimit[t]
      <3>1. Cardinality({m \in Movies :
                           Proposed(c, outbox[cl].command.moves)[m] = t})
              <= TierLimit[t]
        BY <2>5 DEF TierFits
      <3> HIDE DEF InTier
      <3> QED
        BY <2>2, <2>5, <3>1
    <2> QED
      BY <1>2, <2>1, <2>4, <2>5, TiersOnlyGrowByCommand
  <1> QED
    BY <1>1, <1>2, InvariantHolds, PTL DEF Spec

=============================================================================
