----------------------- MODULE DirectExecutions_proofs -----------------------
(* Theorems about DirectExecutions: types, one open execution, and what an  *)
(* idempotency key guarantees.  Every request relies on the locks it holds  *)
(* and guarantees the others theirs: Request is what a request relies on at *)
(* its step, Frame what a step of another one leaves alone.  The last part  *)
(* shows that DirectExecutions implements ExecutionService: every step of a *)
(* request leaves what its clients see alone or is one step of the service. *)
EXTENDS DirectExecutions, SequenceTheorems, TLAPS

-----------------------------------------------------------------------------
(* The inductive invariant.                                                 *)

Checked == {"active", "overdue", "completing", "insert", "fallback", "record"}
InContext == Checked \cup {"predecessor"}
Looked == InContext \cup {"context"}

Key(r)     == tx[r].key
From(r)    == tx[r].payload.from
IsStart(r) == tx[r].kind = "start" /\ tx[r].pc # "unsent"

\* What a request knows of itself.
Sent(r) ==
  /\ IsStart(r) => tx[r].key \in Keys /\ tx[r].payload \in Payloads
  /\ tx[r].kind = "complete" => tx[r].pc \in {"overdue", "completing", "done"}
  /\ tx[r].pc # "done" => tx[r].outcome = "none"
  /\ tx[r].pc \in {"overdue", "completing"} => tx[r].seen \in DOMAIN rows
  /\ tx[r].inserted <=> tx[r].pc = "record"
  /\ tx[r].completed # None => tx[r].pc \in {"insert", "fallback", "record"}

\* What its locks keep.
HoldsNothing(r) ==
  tx[r].pc \in {"unsent", "plan", "done"} => \A l \in Locks : owner[l] # r
HoldsPlan(r) ==
  planned /\ IsStart(r) /\ tx[r].pc \in Looked \cup {"lookup"} =>
    /\ owner[Plan] = r
    /\ tx[r].pc # "lookup" => records[Key(r)] = Unset
HoldsContext(r) ==
  IsStart(r) /\ tx[r].pc \in InContext =>
    owner[Context(tx[r].payload.context)] = r /\ tx[r].payload.context \notin closed
HoldsSeen(r) ==
  tx[r].pc = "completing" => owner[Row(tx[r].seen)] = r
HoldsCompleted(r) ==
  tx[r].completed # None =>
    tx[r].completed \in DOMAIN rows /\ owner[Row(tx[r].completed)] = r /\ Running(tx[r].completed)
HoldsPredecessor(r) ==
  IsStart(r) /\ From(r) # None =>
    /\ From(r) \in DOMAIN rows
    /\ rows[From(r)].payload.context = tx[r].payload.context
    /\ tx[r].pc \in Checked => owner[Row(From(r))] = r /\ Successors(From(r)) = {}
MayInsert(r) ==
  tx[r].inserted => Open \subseteq {tx[r].completed} /\ Len(rows) < MaxRows

Request(r) ==
  /\ Sent(r) /\ HoldsNothing(r) /\ HoldsPlan(r) /\ HoldsContext(r) /\ HoldsSeen(r)
  /\ HoldsCompleted(r) /\ HoldsPredecessor(r) /\ MayInsert(r)

\* What the tables say of each other.
Tables ==
  /\ \A e \in DOMAIN rows : Running(e) => rows[e].version = 1
  /\ \A e \in DOMAIN rows : records[rows[e].key] # Unset
  /\ \A e \in DOMAIN rows : rows[e].payload.from # None =>
       /\ rows[e].payload.from \in DOMAIN rows
       /\ rows[rows[e].payload.from].payload.context = rows[e].payload.context
  /\ \A k \in Keys : records[k] # Unset =>
       /\ records[k].execution \in DOMAIN rows
       /\ rows[records[k].execution].payload = records[k].payload

\* What a request was answered is recorded.
Replied(r) ==
  Started(r) =>
    /\ records[tx[r].key] # Unset
    /\ records[tx[r].key] = [payload |-> tx[r].payload, execution |-> tx[r].reply]

OneInserts == \A r, q \in Requests : tx[r].inserted /\ tx[q].inserted => r = q

IInv ==
  /\ TypeOK /\ Tables /\ OneInserts
  /\ \A r \in Requests : Request(r) /\ Replied(r)
  /\ OneOpenExecution /\ KeyStartsOnce

-----------------------------------------------------------------------------
(* What a step of another request, or of nobody, leaves to request q.       *)

FrameTx(q) ==
  /\ tx'[q] = tx[q] /\ planned' = planned
  /\ \A l \in Locks : owner'[l] = q <=> owner[l] = q
FrameRows(q) ==
  /\ DOMAIN rows \subseteq DOMAIN rows'
  /\ \A e \in DOMAIN rows : rows'[e].payload = rows[e].payload
  /\ \A e \in DOMAIN rows : owner[Row(e)] = q =>
       rows'[e] = rows[e] /\ Successors(e)' \subseteq Successors(e)
  /\ tx[q].inserted => Open' \subseteq Open /\ Len(rows') = Len(rows)
FrameTables(q) ==
  /\ \A c \in Contexts : owner[Context(c)] = q /\ c \notin closed => c \notin closed'
  /\ planned /\ owner[Plan] = q => records' = records
Frame(q) == FrameTx(q) /\ FrameRows(q) /\ FrameTables(q)

LEMMA RowsAreIds ==
  ASSUME TypeOK
  PROVE  /\ DOMAIN rows = 1..Len(rows) /\ Len(rows) \in Nat /\ DOMAIN rows \subseteq Ids
         /\ None \notin DOMAIN rows
         /\ \A e \in DOMAIN rows : rows[e] \in Execs /\ Row(e) \in Locks
BY DirectBounds DEF TypeOK, Ids, None, Locks

LEMMA FrameKeepsRequest ==
  ASSUME TypeOK, NEW q \in Requests, Request(q), Frame(q)
  PROVE  Request(q)'
<1> USE DEF Frame
<1>0. DOMAIN rows \subseteq DOMAIN rows' /\ tx'[q] = tx[q]
  BY DEF FrameTx, FrameRows
<1>1. Sent(q)'
  BY <1>0 DEF Sent, IsStart, Request
<1>2. HoldsNothing(q)'
  BY <1>0 DEF FrameTx, HoldsNothing, Request
<1>3. HoldsPlan(q)'
  BY <1>0 DEF FrameTx, FrameTables, HoldsPlan, IsStart, Key, Request, Locks
<1>4. HoldsContext(q)'
  <2>1. SUFFICES ASSUME IsStart(q)', tx'[q].pc \in InContext
                 PROVE  /\ owner'[Context(tx'[q].payload.context)] = q
                        /\ tx'[q].payload.context \notin closed'
    BY DEF HoldsContext
  <2>2. IsStart(q) /\ tx[q].pc \in InContext
    BY <2>1, <1>0 DEF IsStart
  <2>3. owner[Context(tx[q].payload.context)] = q /\ tx[q].payload.context \notin closed
    BY <2>2 DEF HoldsContext, Request
  <2>4. tx[q].payload.context \in Contexts
    BY <2>2 DEF Sent, Request, Payloads
  <2>5. Context(tx[q].payload.context) \in Locks
    BY <2>4 DEF Locks
  <2> QED  BY <1>0, <2>3, <2>4, <2>5 DEF FrameTx, FrameTables
<1>5. HoldsSeen(q)'
  <2>1. SUFFICES ASSUME tx[q].pc = "completing" PROVE owner'[Row(tx[q].seen)] = q
    BY <1>0 DEF HoldsSeen
  <2>2. Row(tx[q].seen) \in Locks /\ owner[Row(tx[q].seen)] = q
    BY <2>1, RowsAreIds DEF Sent, HoldsSeen, Request
  <2> QED  BY <2>2 DEF FrameTx
<1>6. HoldsCompleted(q)'
  <2> DEFINE e == tx[q].completed
  <2>1. SUFFICES ASSUME e # None
                 PROVE  e \in DOMAIN rows' /\ owner'[Row(e)] = q /\ Running(e)'
    BY <1>0 DEF HoldsCompleted
  <2>2. e \in DOMAIN rows /\ owner[Row(e)] = q /\ Running(e) /\ Row(e) \in Locks
    BY <2>1, RowsAreIds DEF HoldsCompleted, Request
  <2> QED  BY <2>2, <1>0 DEF FrameTx, FrameRows, Running
<1>7. HoldsPredecessor(q)'
  <2>1. PICK e : e = From(q) /\ e = From(q)'
    BY <1>0 DEF From
  <2>2. SUFFICES ASSUME IsStart(q), e # None
                 PROVE  /\ e \in DOMAIN rows'
                        /\ rows'[e].payload.context = tx[q].payload.context
                        /\ tx[q].pc \in Checked => owner'[Row(e)] = q /\ Successors(e)' = {}
    BY <2>1, <1>0 DEF HoldsPredecessor, IsStart, Successors
  <2>3. /\ e \in DOMAIN rows /\ Row(e) \in Locks
        /\ rows[e].payload.context = tx[q].payload.context
        /\ tx[q].pc \in Checked => owner[Row(e)] = q /\ Successors(e) = {}
    BY <2>1, <2>2, RowsAreIds DEF HoldsPredecessor, Request
  <2> QED  BY <2>3, <1>0 DEF FrameTx, FrameRows
<1>8. MayInsert(q)'
  BY <1>0 DEF MayInsert, Request, FrameRows
<1> QED  BY <1>1, <1>2, <1>3, <1>4, <1>5, <1>6, <1>7, <1>8 DEF Request

-----------------------------------------------------------------------------
(* What a step of request r does to transactions and locks.                 *)

Same(r) ==
  /\ tx'[r].kind = tx[r].kind /\ tx'[r].key = tx[r].key /\ tx'[r].payload = tx[r].payload
Others(r) ==
  /\ tx' \in [Requests -> Transactions]
  /\ \A q \in Requests \ {r} : tx'[q] = tx[q]
LocksOf(r) ==
  /\ owner' \in [Locks -> Requests \cup {Unset}]
  /\ \A l \in Locks : owner'[l] = owner[l] \/ {owner[l], owner'[l]} \subseteq {Unset, r}

LEMMA GoToStep ==
  ASSUME TypeOK, NEW r \in Requests, NEW pc \in Steps, GoTo(r, pc)
  PROVE  /\ Others(r) /\ Same(r) /\ tx'[r].pc = pc
         /\ tx'[r].expected = tx[r].expected /\ tx'[r].seen = tx[r].seen
         /\ tx'[r].completed = tx[r].completed /\ tx'[r].inserted = tx[r].inserted
         /\ tx'[r].outcome = tx[r].outcome /\ tx'[r].reply = tx[r].reply
<1>1. tx \in [Requests -> Transactions] /\ tx[r] \in Transactions
  BY DEF TypeOK
<1>2. tx' = [tx EXCEPT ![r] = [tx[r] EXCEPT !.pc = pc]]
  BY <1>1 DEF GoTo
<1>3. [tx[r] EXCEPT !.pc = pc] \in Transactions
  BY <1>1 DEF Transactions
<1> QED  BY <1>1, <1>2, <1>3 DEF Others, Same, Transactions

LEMMA EndsStep ==
  ASSUME TypeOK, NEW r \in Requests, NEW outcome \in Outcomes, NEW e \in IdsOrNone,
         Ends(r, outcome, e)
  PROVE  /\ Others(r) /\ LocksOf(r) /\ Same(r)
         /\ tx'[r].pc = "done" /\ tx'[r].outcome = outcome /\ tx'[r].reply = e
         /\ tx'[r].seen = None /\ tx'[r].completed = None /\ tx'[r].inserted = FALSE
         /\ \A l \in Locks : owner'[l] # r
         /\ \A l \in Locks : owner'[l] = owner[l] \/ owner[l] = r
<1>1. tx \in [Requests -> Transactions] /\ tx[r] \in Transactions
  BY DEF TypeOK
<1> DEFINE t == [tx[r] EXCEPT !.pc = "done", !.outcome = outcome, !.reply = e, !.seen = None,
                              !.completed = None, !.inserted = FALSE]
<1>2. tx' = [tx EXCEPT ![r] = t]
  BY <1>1 DEF Ends
<1>3. t \in Transactions
  BY <1>1 DEF Transactions, Steps, IdsOrNone
<1>4. /\ t.kind = tx[r].kind /\ t.key = tx[r].key /\ t.payload = tx[r].payload
      /\ t.pc = "done" /\ t.outcome = outcome /\ t.reply = e
      /\ t.seen = None /\ t.completed = None /\ t.inserted = FALSE
  BY <1>1 DEF Transactions
<1>5. owner \in [Locks -> Requests \cup {Unset}] /\ Unset # r
  BY UnsetIsNoValue DEF TypeOK
<1>6. owner' = [l \in Locks |-> IF owner[l] = r THEN Unset ELSE owner[l]]
  BY DEF Ends
<1>7. LocksOf(r) /\ \A l \in Locks : owner'[l] # r /\ (owner'[l] = owner[l] \/ owner[l] = r)
  BY <1>5, <1>6 DEF LocksOf
<1> HIDE DEF t
<1>8. Others(r) /\ tx'[r] = t
  BY <1>1, <1>2, <1>3 DEF Others
<1> QED  BY <1>4, <1>7, <1>8 DEF Same

LEMMA TakeStep ==
  ASSUME TypeOK, NEW r \in Requests, NEW l \in Locks, Available(r, l), Take(r, l)
  PROVE  /\ LocksOf(r) /\ owner'[l] = r
         /\ \A k \in Locks : owner[k] = r => owner'[k] = r
<1>1. owner \in [Locks -> Requests \cup {Unset}]
  BY DEF TypeOK
<1> QED  BY <1>1 DEF Take, Available, LocksOf

LEMMA KeepLocks ==
  ASSUME TypeOK, NEW r, UNCHANGED owner
  PROVE  LocksOf(r)
BY DEF TypeOK, LocksOf

(* A step that leaves the tables alone.                                     *)
LEMMA QuietStep ==
  ASSUME IInv, NEW r \in Requests, Others(r), LocksOf(r),
         UNCHANGED <<rows, records, closed, overdue, planned>>,
         Request(r)', Replied(r)',
         tx'[r].inserted => tx[r].inserted \/ \A q \in Requests \ {r} : ~tx[q].inserted
  PROVE  IInv'
<1>1. TypeOK'
  BY DEF IInv, TypeOK, Others, LocksOf
<1>2. Tables' /\ OneOpenExecution' /\ KeyStartsOnce'
  BY DEF IInv, Tables, OneOpenExecution, KeyStartsOnce, Open, Running
<1>3. OneInserts'
  BY DEF IInv, OneInserts, Others
<1>4. ASSUME NEW q \in Requests, q # r  PROVE  Replied(q)'
  BY <1>4 DEF IInv, Replied, Started, Others
<1>5. ASSUME NEW q \in Requests, q # r  PROVE  Request(q)'
  <2>1. tx'[q] = tx[q] /\ planned' = planned
    BY <1>5 DEF Others
  <2>2. \A l \in Locks : owner'[l] = q <=> owner[l] = q
    BY <1>5, UnsetIsNoValue DEF LocksOf
  <2>3. FrameTx(q) /\ FrameRows(q) /\ FrameTables(q)
    BY <2>1, <2>2 DEF FrameTx, FrameRows, FrameTables, Successors, Open, Running, Present
  <2> QED  BY <2>3, FrameKeepsRequest DEF Frame, IInv
<1> QED  BY <1>1, <1>2, <1>3, <1>4, <1>5 DEF IInv

(* The request of a transaction that ended.                                 *)
LEMMA EndedRequest ==
  ASSUME TypeOK, NEW r \in Requests, Request(r), tx[r].pc # "unsent",
         Same(r), tx'[r].pc = "done", tx'[r].completed = None, tx'[r].inserted = FALSE,
         \A l \in Locks : owner'[l] # r,
         DOMAIN rows \subseteq DOMAIN rows',
         \A e \in DOMAIN rows : rows'[e].payload = rows[e].payload
  PROVE  Request(r)'
<1>1. Sent(r)'
  BY DEF Sent, IsStart, Same, Request
<1>2. HoldsNothing(r)' /\ HoldsPlan(r)' /\ HoldsContext(r)' /\ HoldsSeen(r)' /\ HoldsCompleted(r)' /\ MayInsert(r)'
  BY DEF HoldsNothing, HoldsPlan, HoldsContext, HoldsSeen, HoldsCompleted, MayInsert,
         InContext, Checked, Looked
<1>3. HoldsPredecessor(r)'
  <2>1. SUFFICES ASSUME IsStart(r), From(r) # None
                 PROVE  /\ From(r) \in DOMAIN rows'
                        /\ rows'[From(r)].payload.context = tx[r].payload.context
    BY DEF HoldsPredecessor, IsStart, From, Same, Checked
  <2> QED  BY <2>1 DEF HoldsPredecessor, Request
<1> QED  BY <1>1, <1>2, <1>3 DEF Request

LEMMA RefusesStep ==
  ASSUME IInv, NEW r \in Requests, tx[r].pc # "unsent", NEW code \in Refusals, Refuses(r, code)
  PROVE  IInv'
<1>1. TypeOK /\ Request(r)
  BY DEF IInv
<1>2. Ends(r, code, None) /\ UNCHANGED <<rows, records, closed, overdue, planned>>
  BY DEF Refuses
<1>3. code \in Outcomes /\ None \in IdsOrNone /\ code # "ok"
  BY DEF Outcomes, IdsOrNone, Refusals
<1>4. /\ Others(r) /\ LocksOf(r) /\ Same(r)
      /\ tx'[r].pc = "done" /\ tx'[r].outcome = code
      /\ tx'[r].completed = None /\ tx'[r].inserted = FALSE
      /\ \A l \in Locks : owner'[l] # r
  BY <1>1, <1>2, <1>3, EndsStep
<1>5. Request(r)'
  BY <1>1, <1>2, <1>4, EndedRequest
<1> QED  BY <1>2, <1>3, <1>4, <1>5, QuietStep DEF Started, Replied

LEMMA ReplaysStep ==
  ASSUME IInv, NEW r \in Requests, IsStart(r), HasExecution(r), Replays(r, records[tx[r].key].execution)
  PROVE  IInv'
<1>1. TypeOK /\ Request(r) /\ tx[r].key \in Keys
  BY DEF IInv, Request, Sent
<1>2. records[tx[r].key] \in Uses /\ records[tx[r].key].payload = tx[r].payload
  BY <1>1 DEF TypeOK, HasExecution
<1>3. PICK e \in IdsOrNone : records[tx[r].key] = [payload |-> tx[r].payload, execution |-> e]
  BY <1>2 DEF Uses, IdsOrNone
<1>4. Ends(r, "ok", e) /\ UNCHANGED <<rows, records, closed, overdue, planned>>
  BY <1>3 DEF Replays
<1>5. "ok" \in Outcomes
  BY DEF Outcomes
<1>6. /\ Others(r) /\ LocksOf(r) /\ Same(r)
      /\ tx'[r].pc = "done" /\ tx'[r].completed = None /\ tx'[r].inserted = FALSE
      /\ \A l \in Locks : owner'[l] # r
  BY <1>1, <1>4, <1>5, EndsStep
<1>7. tx'[r].reply = e
  <2>1. tx[r] \in Transactions /\ tx \in [Requests -> Transactions]
    BY <1>1 DEF TypeOK
  <2> QED  BY <1>4, <2>1 DEF Ends, Transactions
<1>8. Request(r)'
  BY <1>1, <1>4, <1>6, EndedRequest DEF IsStart
<1>9. Replied(r)'
  <2>1. records'[tx'[r].key] = records[tx[r].key] /\ tx'[r].payload = tx[r].payload
    BY <1>4, <1>6 DEF Same
  <2> QED  BY <1>3, <1>7, <2>1 DEF Replied, HasExecution
<1> QED  BY <1>4, <1>6, <1>8, <1>9, QuietStep

-----------------------------------------------------------------------------
(* A request arrives.                                                       *)

LEMMA SendsStep ==
  ASSUME IInv, NEW r \in Requests, At(r, "unsent"),
         NEW k \in Keys, NEW p \in Payloads, NEW v \in 0..2,
         p.from # None => p.from \in DOMAIN rows /\ rows[p.from].payload.context = p.context,
         tx' = [tx EXCEPT ![r] = [tx[r] EXCEPT !.pc = "plan", !.key = k, !.payload = p, !.expected = v]],
         UNCHANGED <<rows, records, closed, overdue, planned, owner>>
  PROVE  IInv'
<1> DEFINE t == [tx[r] EXCEPT !.pc = "plan", !.key = k, !.payload = p, !.expected = v]
<1>1. TypeOK /\ Request(r) /\ tx \in [Requests -> Transactions] /\ tx[r] \in Transactions
  BY DEF IInv, TypeOK
<1>2. t \in Transactions
  BY <1>1 DEF Transactions, Steps
<1>3. /\ t.pc = "plan" /\ t.key = k /\ t.payload = p /\ t.kind = tx[r].kind
      /\ t.seen = tx[r].seen /\ t.completed = tx[r].completed
      /\ t.inserted = tx[r].inserted /\ t.outcome = tx[r].outcome
  BY <1>1 DEF Transactions
<1> HIDE DEF t
<1>4. Others(r) /\ tx'[r] = t
  BY <1>1, <1>2 DEF Others, t
<1>5. LocksOf(r)
  BY <1>1, KeepLocks
<1>6. Request(r)'
  <2>1. Sent(r)'
    BY <1>1, <1>3, <1>4 DEF At, Request, Sent, IsStart, Transactions
  <2>2. HoldsNothing(r)'
    BY <1>1 DEF At, Request, HoldsNothing
  <2>3. HoldsPlan(r)' /\ HoldsContext(r)' /\ HoldsSeen(r)'
    BY <1>3, <1>4 DEF HoldsPlan, HoldsContext, HoldsSeen, InContext, Looked, Checked
  <2>4. HoldsCompleted(r)' /\ MayInsert(r)'
    BY <1>1, <1>3, <1>4 DEF HoldsCompleted, MayInsert, Request, Sent, At
  <2>5. HoldsPredecessor(r)'
    BY <1>3, <1>4 DEF HoldsPredecessor, From, Checked
  <2> QED  BY <2>1, <2>2, <2>3, <2>4, <2>5 DEF Request
<1>7. ~Started(r)' /\ (tx'[r].inserted => tx[r].inserted)
  BY <1>1, <1>3, <1>4 DEF Started, At, Request, Sent
<1> QED  BY <1>4, <1>5, <1>6, <1>7, QuietStep DEF Replied

LEMMA CompleteOrReadStep ==
  ASSUME IInv, NEW r \in Requests, NEW e \in DOMAIN rows, CompleteOrRead(r, e)
  PROVE  IInv'
<1>1. TypeOK /\ Request(r) /\ tx \in [Requests -> Transactions] /\ tx[r] \in Transactions
  BY DEF IInv, TypeOK
<1> DEFINE t == [tx[r] EXCEPT !.pc = "overdue", !.kind = "complete", !.seen = e]
<1>2. e \in IdsOrNone
  BY <1>1, RowsAreIds DEF IdsOrNone
<1>3. t \in Transactions
  BY <1>1, <1>2 DEF Transactions, Steps
<1>4. /\ t.pc = "overdue" /\ t.kind = "complete" /\ t.seen = e
      /\ t.completed = tx[r].completed /\ t.inserted = tx[r].inserted /\ t.outcome = tx[r].outcome
  BY <1>1 DEF Transactions
<1>5. tx' = [tx EXCEPT ![r] = t]
  BY <1>1 DEF CompleteOrRead
<1> HIDE DEF t
<1>6. Others(r) /\ tx'[r] = t
  BY <1>1, <1>3, <1>5 DEF Others
<1>7. At(r, "unsent") /\ UNCHANGED <<rows, records, closed, overdue, planned, owner>>
  BY DEF CompleteOrRead
<1>8. LocksOf(r)
  BY <1>1, <1>7, KeepLocks
<1>9. Request(r)'
  <2>1. Sent(r)' /\ HoldsCompleted(r)' /\ MayInsert(r)'
    BY <1>1, <1>4, <1>6, <1>7 DEF Sent, HoldsCompleted, MayInsert, At, Request, IsStart
  <2>2. HoldsNothing(r)' /\ HoldsPlan(r)' /\ HoldsContext(r)' /\ HoldsSeen(r)' /\ HoldsPredecessor(r)'
    BY <1>4, <1>6 DEF HoldsNothing, HoldsPlan, HoldsContext, HoldsSeen, HoldsPredecessor, IsStart
  <2> QED  BY <2>1, <2>2 DEF Request
<1>10. ~Started(r)' /\ (tx'[r].inserted => tx[r].inserted)
  BY <1>1, <1>4, <1>6 DEF Started
<1> QED  BY <1>6, <1>7, <1>8, <1>9, <1>10, QuietStep DEF Replied

LEMMA ArriveStep ==
  ASSUME IInv, NEW r \in Requests, Arrive(r)
  PROVE  IInv'
<1>1. TypeOK /\ tx \in [Requests -> Transactions] /\ tx[r] \in Transactions
  BY DEF IInv, TypeOK
<1>2. ASSUME NEW k \in Keys, NEW c \in Contexts, NEW d \in Durations, StartDirect(r, k, c, d)
      PROVE  IInv'
  <2> DEFINE p == [context |-> c, duration |-> d, from |-> None]
  <2>1. p \in Payloads /\ p.from = None
    BY DEF Payloads, IdsOrNone
  <2>2. tx' = [tx EXCEPT ![r] = [tx[r] EXCEPT !.pc = "plan", !.key = k, !.payload = p,
                                              !.expected = tx[r].expected]]
    BY <1>1, <1>2 DEF StartDirect, Transactions
  <2>3. /\ At(r, "unsent") /\ UNCHANGED <<rows, records, closed, overdue, planned, owner>>
        /\ tx[r].expected \in 0..2
    BY <1>1, <1>2 DEF StartDirect, Transactions
  <2> HIDE DEF p
  <2> QED  BY <2>1, <2>2, <2>3, SendsStep
<1>3. ASSUME NEW k \in Keys, NEW e \in DOMAIN rows, NEW d \in Durations, Continue(r, k, e, d)
      PROVE  IInv'
  <2> DEFINE p == [context |-> rows[e].payload.context, duration |-> d, from |-> e]
  <2>1. p \in Payloads /\ p.from = e /\ p.context = rows[e].payload.context /\ rows[e].version \in 0..2
    BY <1>1, RowsAreIds DEF Payloads, IdsOrNone, Execs
  <2>2. tx' = [tx EXCEPT ![r] = [tx[r] EXCEPT !.pc = "plan", !.key = k, !.payload = p,
                                              !.expected = rows[e].version]]
    BY <1>1, <1>3 DEF Continue, Transactions
  <2>3. At(r, "unsent") /\ UNCHANGED <<rows, records, closed, overdue, planned, owner>>
    BY <1>3 DEF Continue
  <2> HIDE DEF p
  <2> QED  BY <2>1, <2>2, <2>3, SendsStep
<1> QED  BY <1>2, <1>3, CompleteOrReadStep DEF Arrive

-----------------------------------------------------------------------------
(* A request advances without touching the tables.                          *)

LEMMA PlanIsALock ==
  ASSUME TypeOK
  PROVE  /\ Plan \in Locks
         /\ \A c \in Contexts : Context(c) \in Locks
         /\ \A e \in DOMAIN rows : Row(e) \in Locks
BY RowsAreIds DEF Locks

\* What the step to pc needs besides what the request had.
Earned(r, pc) ==
  /\ tx[r].kind = "complete" => pc = "completing"
  /\ IsStart(r) /\ planned =>
       owner'[Plan] = r /\ (pc # "lookup" => records[Key(r)] = Unset)
  /\ IsStart(r) /\ pc \in InContext =>
       owner'[Context(tx[r].payload.context)] = r /\ tx[r].payload.context \notin closed
  /\ IsStart(r) /\ pc \in Checked /\ From(r) # None =>
       owner'[Row(From(r))] = r /\ Successors(From(r)) = {}

\* What it needs for the execution it has seen or completed.
Sees(r, pc) ==
  /\ pc \in {"overdue", "completing"} => tx'[r].seen \in DOMAIN rows
  /\ pc = "completing" => owner'[Row(tx'[r].seen)] = r
Completes(r, pc) ==
  tx'[r].completed # None =>
    /\ pc \in {"insert", "fallback"}
    /\ tx'[r].completed \in DOMAIN rows
    /\ owner'[Row(tx'[r].completed)] = r /\ Running(tx'[r].completed)

Waiting == Steps \ {"unsent", "plan", "record", "done"}

LEMMA MovesStep ==
  ASSUME IInv, NEW r \in Requests, NEW pc \in Waiting,
         tx[r].pc \notin {"unsent", "record", "done"},
         Others(r), Same(r), tx'[r].pc = pc, tx'[r].inserted = tx[r].inserted,
         tx'[r].outcome = tx[r].outcome, LocksOf(r),
         UNCHANGED <<rows, records, closed, overdue, planned>>,
         Earned(r, pc), Sees(r, pc), Completes(r, pc)
  PROVE  IInv'
<1>1. TypeOK /\ Request(r)
  BY DEF IInv
<1>2. IsStart(r)' <=> IsStart(r)
  BY DEF IsStart, Same, Waiting
<1>3. Sent(r)'
  BY <1>1, <1>2 DEF Sent, Request, Earned, Sees, Completes, Same, Waiting
<1>4. HoldsNothing(r)' /\ MayInsert(r)' /\ HoldsCompleted(r)'
  BY <1>1 DEF HoldsNothing, MayInsert, HoldsCompleted, Completes, Running, Request, Sent, Waiting
<1>5. HoldsPlan(r)' /\ HoldsContext(r)' /\ HoldsSeen(r)'
  BY <1>1, <1>2 DEF HoldsPlan, HoldsContext, HoldsSeen, Earned, Sees, Same, Key, Waiting
<1>6. HoldsPredecessor(r)'
  <2>1. PICK e : e = From(r) /\ e = From(r)'
    BY DEF From, Same
  <2>2. SUFFICES ASSUME IsStart(r), e # None
                 PROVE  /\ e \in DOMAIN rows
                        /\ rows[e].payload.context = tx[r].payload.context
                        /\ pc \in Checked => owner'[Row(e)] = r /\ Successors(e) = {}
    BY <2>1, <1>2 DEF HoldsPredecessor, Successors, Present, Same
  <2> QED  BY <2>1, <2>2, <1>1 DEF HoldsPredecessor, Request, Earned
<1>7. Request(r)'
  BY <1>3, <1>4, <1>5, <1>6 DEF Request
<1>8. ~Started(r)'
  BY <1>1 DEF Started, Request, Sent, Waiting
<1> QED  BY <1>7, <1>8, QuietStep DEF Replied

LEMMA AdvanceStep ==
  ASSUME IInv, NEW r \in Requests, NEW pc \in Waiting \ {"overdue"},
         tx[r].pc \notin {"unsent", "record", "done"},
         GoTo(r, pc), LocksOf(r), \A l \in Locks : owner[l] = r => owner'[l] = r,
         UNCHANGED <<rows, records, closed, overdue, planned>>, Earned(r, pc),
         pc = "completing" => tx[r].seen \in DOMAIN rows /\ owner'[Row(tx[r].seen)] = r,
         tx[r].completed # None => pc = "fallback"
  PROVE  IInv'
<1>1. TypeOK /\ Request(r) /\ pc \in Steps
  BY DEF IInv, Waiting
<1>2. /\ Others(r) /\ Same(r) /\ tx'[r].pc = pc
      /\ tx'[r].seen = tx[r].seen /\ tx'[r].completed = tx[r].completed
      /\ tx'[r].inserted = tx[r].inserted /\ tx'[r].outcome = tx[r].outcome
  BY <1>1, GoToStep
<1>3. Sees(r, pc)
  BY <1>2 DEF Sees
<1>4. Completes(r, pc)
  BY <1>1, <1>2, PlanIsALock DEF Completes, Request, HoldsCompleted
<1> QED  BY <1>2, <1>3, <1>4, MovesStep

LEMMA StartsAreTyped ==
  ASSUME IInv, NEW r \in Requests, tx[r].pc \notin {"unsent", "overdue", "completing", "done"}
  PROVE  /\ IsStart(r) /\ tx[r].key \in Keys /\ tx[r].payload \in Payloads
         /\ tx[r].payload.context \in Contexts /\ Context(tx[r].payload.context) \in Locks
         /\ tx[r].kind # "complete"
<1>1. TypeOK /\ Request(r) /\ tx[r] \in Transactions
  BY DEF IInv, TypeOK
<1>2. tx[r].kind \in {"start", "complete"}
  BY <1>1 DEF Transactions
<1>3. IsStart(r) /\ tx[r].key \in Keys /\ tx[r].payload \in Payloads /\ tx[r].kind # "complete"
  BY <1>1, <1>2 DEF Request, Sent, IsStart
<1> QED  BY <1>1, <1>3, PlanIsALock DEF Payloads

LEMMA LockPlanStep ==
  ASSUME IInv, NEW r \in Requests, LockPlan(r)
  PROVE  IInv'
<1>1. TypeOK /\ Request(r) /\ tx[r].pc = "plan" /\ UNCHANGED <<rows, records, closed, overdue, planned>>
  BY DEF IInv, LockPlan, At
<1>2. GoTo(r, "lookup") /\ tx[r].completed = None /\ tx[r].kind # "complete"
  BY <1>1, StartsAreTyped DEF LockPlan, Request, Sent
<1>3. LocksOf(r) /\ \A l \in Locks : owner[l] = r => owner'[l] = r
  <2>1. CASE planned
    BY <1>1, <2>1, TakeStep, PlanIsALock DEF LockPlan, Available
  <2>2. CASE ~planned
    BY <1>1, <2>2, KeepLocks DEF LockPlan
  <2> QED  BY <2>1, <2>2
<1>4. planned => owner'[Plan] = r
  BY <1>1, TakeStep, PlanIsALock DEF LockPlan, Available
<1>5. Earned(r, "lookup")
  BY <1>2, <1>4 DEF Earned, InContext, Checked
<1> QED  BY <1>1, <1>2, <1>3, <1>5, AdvanceStep DEF Steps, Waiting

LEMMA FindRecordStep ==
  ASSUME IInv, NEW r \in Requests, FindRecord(r)
  PROVE  IInv'
<1>1. TypeOK /\ Request(r) /\ tx[r].pc = "lookup"
  BY DEF IInv, FindRecord, At
<1>2. IsStart(r) /\ tx[r].kind # "complete"
  BY <1>1, StartsAreTyped
<1>3. CASE /\ records[tx[r].key] = Unset /\ GoTo(r, "context")
           /\ UNCHANGED <<rows, records, closed, overdue, planned, owner>>
  <2>1. planned => owner'[Plan] = r
    BY <1>1, <1>2, <1>3 DEF HoldsPlan, Request
  <2>2. tx[r].completed = None
    BY <1>1 DEF Request, Sent
  <2>3. Earned(r, "context")
    BY <1>2, <1>3, <2>1, <2>2 DEF Earned, InContext, Checked, Key
  <2>4. LocksOf(r)
    BY <1>1, <1>3, KeepLocks
  <2> QED  BY <1>1, <1>3, <2>2, <2>3, <2>4, AdvanceStep DEF Steps, Waiting
<1>4. CASE \E code \in Refusals : Refuses(r, code)
  BY <1>1, <1>4, RefusesStep
<1>5. CASE HasExecution(r) /\ Replays(r, records[tx[r].key].execution)
  BY <1>2, <1>5, ReplaysStep
<1> QED  BY <1>3, <1>4, <1>5 DEF FindRecord, Refusals

LEMMA LockContextStep ==
  ASSUME IInv, NEW r \in Requests, LockContext(r)
  PROVE  IInv'
<1> DEFINE c == tx[r].payload.context
           next == IF tx[r].payload.from = None THEN "active" ELSE "predecessor"
<1>1. TypeOK /\ Request(r) /\ tx[r].pc = "context" /\ Available(r, Context(c))
  BY DEF IInv, LockContext, At
<1>2. IsStart(r) /\ tx[r].kind # "complete" /\ Context(c) \in Locks
  BY <1>1, StartsAreTyped
<1>3. CASE Refuses(r, "inactive")
  BY <1>1, <1>3, RefusesStep DEF Refusals
<1>4. CASE /\ c \notin closed /\ Take(r, Context(c)) /\ GoTo(r, next)
           /\ UNCHANGED <<rows, records, closed, overdue, planned>>
  <2>1. LocksOf(r) /\ owner'[Context(c)] = r /\ \A l \in Locks : owner[l] = r => owner'[l] = r
    BY <1>1, <1>2, <1>4, TakeStep
  <2>2. planned => owner'[Plan] = r /\ records[Key(r)] = Unset
    BY <1>1, <1>2, <2>1, PlanIsALock DEF HoldsPlan, Request, Looked
  <2>3. tx[r].completed = None
    BY <1>1 DEF Request, Sent
  <2>4. next \in Checked => From(r) = None
    BY DEF Checked, From
  <2>5. next \in {"active", "predecessor"}
    OBVIOUS
  <2> HIDE DEF next
  <2>6. Earned(r, next)
    BY <1>2, <1>4, <2>1, <2>2, <2>3, <2>4, <2>5 DEF Earned
  <2>7. next \in Waiting \ {"overdue", "completing"}
    BY <2>5 DEF Steps, Waiting
  <2> QED  BY <1>1, <1>4, <2>1, <2>3, <2>6, <2>7, AdvanceStep
<1> QED  BY <1>3, <1>4 DEF LockContext

-----------------------------------------------------------------------------
(* A request records its answer: a continuation that exists already, or the *)
(* execution it starts.                                                     *)

LEMMA RecordsStep ==
  ASSUME IInv, NEW r \in Requests, tx[r].pc \in {"predecessor", "record"},
         NEW e \in Ids, records[tx[r].key] = Unset,
         Ends(r, "ok", e), records' = Recorded(r, e), UNCHANGED <<closed, overdue, planned>>,
         DOMAIN rows \subseteq DOMAIN rows', e \in DOMAIN rows',
         rows'[e].payload = tx[r].payload,
         \A x \in DOMAIN rows : rows'[x].payload = rows[x].payload
  PROVE  /\ Others(r) /\ LocksOf(r) /\ Request(r)' /\ OneInserts'
         /\ records' \in [Keys -> Uses \cup {Unset}]
         /\ \A k \in Keys : records[k] # Unset => records'[k] = records[k]
         /\ records'[tx[r].key] # Unset
         /\ \A k \in Keys : records'[k] # Unset =>
              /\ records'[k].execution \in DOMAIN rows'
              /\ rows'[records'[k].execution].payload = records'[k].payload
         /\ \A q \in Requests : Replied(q)'
         /\ \A q \in Requests \ {r} : FrameTx(q) /\ FrameTables(q)
<1>1. TypeOK /\ Request(r) /\ records \in [Keys -> Uses \cup {Unset}]
  BY DEF IInv, TypeOK
<1>2. IsStart(r) /\ tx[r].key \in Keys /\ tx[r].payload \in Payloads
  BY StartsAreTyped
<1> DEFINE use == [payload |-> tx[r].payload, execution |-> e]
<1>3. use \in Uses /\ use # Unset /\ use.execution = e /\ use.payload = tx[r].payload
  BY <1>2, UnsetIsNoValue DEF Uses
<1>4. records' = [records EXCEPT ![tx[r].key] = use]
  BY DEF Recorded
<1>5. e \in IdsOrNone /\ "ok" \in Outcomes
  BY DEF IdsOrNone, Outcomes
<1>6. /\ Others(r) /\ LocksOf(r) /\ Same(r)
      /\ tx'[r].pc = "done" /\ tx'[r].completed = None /\ tx'[r].inserted = FALSE
      /\ \A l \in Locks : owner'[l] # r
  BY <1>1, <1>5, EndsStep
<1>7. tx'[r].reply = e
  BY <1>1 DEF Ends, TypeOK, Transactions
<1>8. Request(r)'
  BY <1>1, <1>2, <1>6, EndedRequest DEF IsStart
<1>9. OneInserts'
  BY <1>6 DEF IInv, OneInserts, Others
<1> HIDE DEF use
<1>10. /\ records' \in [Keys -> Uses \cup {Unset}] /\ records'[tx[r].key] = use
       /\ \A k \in Keys : k # tx[r].key => records'[k] = records[k]
       /\ \A k \in Keys : records[k] # Unset => records'[k] = records[k]
  BY <1>1, <1>2, <1>3, <1>4
<1>11. ASSUME NEW k \in Keys, records'[k] # Unset
       PROVE  /\ records'[k].execution \in DOMAIN rows'
              /\ rows'[records'[k].execution].payload = records'[k].payload
  <2>1. CASE k = tx[r].key
    BY <1>3, <1>10, <2>1
  <2>2. CASE k # tx[r].key
    <3>1. records'[k] = records[k]
      BY <1>10, <2>2
    <3>2. /\ records[k].execution \in DOMAIN rows
          /\ rows[records[k].execution].payload = records[k].payload
      BY <1>11, <3>1 DEF IInv, Tables
    <3> QED  BY <3>1, <3>2
  <2> QED  BY <2>1, <2>2
<1>12. ASSUME NEW q \in Requests  PROVE  Replied(q)'
  <2>1. CASE q = r
    BY <2>1, <1>3, <1>6, <1>7, <1>10 DEF Replied, Same, use
  <2>2. CASE q # r
    <3>1. tx'[q] = tx[q]
      BY <1>6, <2>2 DEF Others
    <3>2. Started(q) => IsStart(q) /\ tx[q].key \in Keys
      BY DEF Started, IInv, Request, Sent, IsStart
    <3> QED  BY <3>1, <3>2, <1>10 DEF IInv, Replied, Started
  <2> QED  BY <2>1, <2>2
<1>13. ASSUME NEW q \in Requests \ {r}  PROVE  FrameTx(q) /\ FrameTables(q)
  <2>1. FrameTx(q)
    BY <1>6, UnsetIsNoValue DEF FrameTx, Others, LocksOf
  <2>2. planned => owner[Plan] = r
    BY <1>1, <1>2 DEF Request, HoldsPlan, Looked, InContext, Checked
  <2> QED  BY <2>1, <2>2 DEF FrameTables
<1> QED  BY <1>3, <1>6, <1>8, <1>9, <1>10, <1>11, <1>12, <1>13

LEMMA SameRowsFrame ==
  ASSUME UNCHANGED rows, NEW q
  PROVE  FrameRows(q)
BY DEF FrameRows, Successors, Present, Open, Running

LEMMA AdoptStep ==
  ASSUME IInv, NEW r \in Requests, At(r, "predecessor"), From(r) # None,
         NEW s \in Successors(From(r)), Adopt(r, s)
  PROVE  IInv'
<1>1. TypeOK /\ Request(r) /\ IsStart(r) /\ tx[r].payload \in Payloads /\ tx[r].pc = "predecessor"
  BY StartsAreTyped DEF IInv, At
<1>2. s \in DOMAIN rows /\ rows[s].payload.from = From(r) /\ s \in Ids
  BY <1>1, RowsAreIds DEF Successors
<1>3. CASE \E code \in Refusals : Refuses(r, code)
  BY <1>1, <1>3, RefusesStep
<1>4. CASE /\ rows[s].payload.duration = tx[r].payload.duration /\ records[tx[r].key] = Unset
           /\ Answers(r, s) /\ records' = Recorded(r, s) /\ UNCHANGED <<rows, closed, overdue, planned>>
  <2>1. rows[s].payload = tx[r].payload
    <3>1. rows[s].payload \in Payloads
      BY <1>1, <1>2, RowsAreIds DEF Execs
    <3>2. rows[s].payload.context = tx[r].payload.context
      BY <1>1, <1>2 DEF IInv, Tables, Request, HoldsPredecessor
    <3>3. rows[s].payload.from = tx[r].payload.from
      BY <1>2 DEF From
    <3> QED  BY <1>1, <1>4, <3>1, <3>2, <3>3 DEF Payloads
  <2>2. /\ Others(r) /\ LocksOf(r) /\ Request(r)' /\ OneInserts'
        /\ records' \in [Keys -> Uses \cup {Unset}]
        /\ \A k \in Keys : records[k] # Unset => records'[k] = records[k]
        /\ \A k \in Keys : records'[k] # Unset =>
             /\ records'[k].execution \in DOMAIN rows
             /\ rows[records'[k].execution].payload = records'[k].payload
        /\ \A q \in Requests : Replied(q)'
        /\ \A q \in Requests \ {r} : FrameTx(q) /\ FrameTables(q)
    BY <1>1, <1>2, <1>4, <2>1, RecordsStep DEF Answers
  <2>3. TypeOK'
    BY <1>1, <1>4, <2>2 DEF TypeOK, Others, LocksOf
  <2>4. Tables'
    <3>1. \A x \in DOMAIN rows : rows[x].key \in Keys
      BY <1>1, RowsAreIds DEF Execs
    <3> QED  BY <1>4, <2>2, <3>1 DEF IInv, Tables, Running
  <2>5. OneOpenExecution' /\ KeyStartsOnce'
    BY <1>4 DEF IInv, OneOpenExecution, KeyStartsOnce, Open, Running
  <2>6. \A q \in Requests : Request(q)'
    BY <1>1, <1>4, <2>2, SameRowsFrame, FrameKeepsRequest DEF Frame, IInv
  <2> QED  BY <2>2, <2>3, <2>4, <2>5, <2>6 DEF IInv
<1> QED  BY <1>3, <1>4 DEF Adopt, Refusals

LEMMA CheckPredecessorStep ==
  ASSUME IInv, NEW r \in Requests, CheckPredecessor(r)
  PROVE  IInv'
<1>1. PICK e : e = From(r)
  OBVIOUS
<1>2. TypeOK /\ Request(r) /\ tx[r].pc = "predecessor" /\ Available(r, Row(e))
  BY <1>1 DEF IInv, CheckPredecessor, At, From
<1>3. IsStart(r) /\ tx[r].kind # "complete"
  BY <1>2, StartsAreTyped
<1>4. CASE \E code \in Refusals : Refuses(r, code)
  BY <1>2, <1>4, RefusesStep
<1>5. CASE /\ Present(e) /\ Successors(e) = {} /\ Take(r, Row(e)) /\ GoTo(r, "active")
           /\ UNCHANGED <<rows, records, closed, overdue, planned>>
  <2>1. Row(e) \in Locks
    BY <1>2, <1>5, PlanIsALock DEF Present
  <2>2. LocksOf(r) /\ owner'[Row(e)] = r /\ \A l \in Locks : owner[l] = r => owner'[l] = r
    BY <1>2, <1>5, <2>1, TakeStep
  <2>3. planned => owner'[Plan] = r /\ records[Key(r)] = Unset
    BY <1>2, <1>3, <2>2, PlanIsALock DEF HoldsPlan, Request, Looked, InContext
  <2>4. owner'[Context(tx[r].payload.context)] = r /\ tx[r].payload.context \notin closed
    BY <1>2, <1>3, <2>2, StartsAreTyped DEF HoldsContext, Request, InContext
  <2>5. tx[r].completed = None
    BY <1>2 DEF Request, Sent
  <2>6. Earned(r, "active")
    BY <1>1, <1>3, <1>5, <2>2, <2>3, <2>4, <2>5 DEF Earned
  <2> QED  BY <1>2, <1>5, <2>2, <2>5, <2>6, AdvanceStep DEF Steps, Waiting
<1>6. CASE Present(e) /\ \E s \in Successors(e) : Adopt(r, s)
  <2>1. From(r) # None
    BY <1>1, <1>2, <1>6, RowsAreIds DEF Present
  <2> QED  BY <1>1, <1>2, <1>6, <2>1, AdoptStep DEF At
<1> QED  BY <1>1, <1>4, <1>5, <1>6 DEF CheckPredecessor, Refusals, From

-----------------------------------------------------------------------------
(* The open execution, and the insert.                                      *)

\* What a request past its checks goes on to hold while its locks stay.
LEMMA KeepsEarned ==
  ASSUME IInv, NEW r \in Requests, tx[r].pc \in Checked, IsStart(r),
         \A l \in Locks : owner[l] = r => owner'[l] = r, NEW pc \in Checked \ {"record"}
  PROVE  Earned(r, pc)
<1>1. TypeOK /\ Request(r) /\ tx[r].kind # "complete"
  BY DEF IInv, IsStart
<1>2. planned => owner'[Plan] = r /\ records[Key(r)] = Unset
  BY <1>1, PlanIsALock DEF HoldsPlan, Request, Looked, InContext, Checked
<1>3. owner'[Context(tx[r].payload.context)] = r /\ tx[r].payload.context \notin closed
  <2>1. tx[r].payload.context \in Contexts
    BY <1>1 DEF Request, Sent, Payloads
  <2> QED  BY <1>1, <2>1, PlanIsALock DEF HoldsContext, Request, InContext
<1>4. From(r) # None => owner'[Row(From(r))] = r /\ Successors(From(r)) = {}
  BY <1>1, PlanIsALock DEF HoldsPredecessor, Request
<1> QED  BY <1>1, <1>2, <1>3, <1>4 DEF Earned

LEMMA ReadActiveStep ==
  ASSUME IInv, NEW r \in Requests, ReadActive(r)
  PROVE  IInv'
<1>1. TypeOK /\ Request(r) /\ tx[r].pc = "active" /\ tx[r].completed = None /\ tx[r].inserted = FALSE
  <2>1. TypeOK /\ Request(r) /\ tx[r].pc = "active" /\ tx[r] \in Transactions
    BY DEF IInv, TypeOK, ReadActive, At
  <2> QED  BY <2>1 DEF Request, Sent, Transactions
<1>2. IsStart(r)
  BY <1>1, StartsAreTyped
<1>3. CASE GoTo(r, "insert") /\ UNCHANGED <<rows, records, closed, overdue, planned, owner>>
  <2>1. LocksOf(r) /\ Earned(r, "insert")
    BY <1>1, <1>2, <1>3, KeepLocks, KeepsEarned DEF Checked
  <2> QED  BY <1>1, <1>3, <2>1, AdvanceStep DEF Steps, Waiting
<1>4. CASE \E code \in Refusals : Refuses(r, code)
  BY <1>1, <1>4, RefusesStep
<1>5. ASSUME NEW e \in Open \cap overdue, tx' = [tx EXCEPT ![r].pc = "overdue", ![r].seen = e],
             UNCHANGED <<rows, records, closed, overdue, planned, owner>>
      PROVE  IInv'
  <2> DEFINE t == [tx[r] EXCEPT !.pc = "overdue", !.seen = e]
  <2>1. e \in DOMAIN rows /\ e \in IdsOrNone
    BY <1>1, RowsAreIds DEF Open, IdsOrNone
  <2>2. tx \in [Requests -> Transactions] /\ tx[r] \in Transactions /\ tx' = [tx EXCEPT ![r] = t]
    BY <1>1, <1>5 DEF TypeOK
  <2>3. t \in Transactions
    BY <2>1, <2>2 DEF Transactions, Steps
  <2>4. /\ t.pc = "overdue" /\ t.seen = e /\ t.kind = tx[r].kind /\ t.key = tx[r].key
        /\ t.payload = tx[r].payload /\ t.completed = tx[r].completed
        /\ t.inserted = tx[r].inserted /\ t.outcome = tx[r].outcome
    BY <2>2 DEF Transactions
  <2> HIDE DEF t
  <2>5. Others(r) /\ tx'[r] = t
    BY <2>2, <2>3 DEF Others
  <2>6. LocksOf(r) /\ Earned(r, "overdue")
    BY <1>1, <1>2, <1>5, KeepLocks, KeepsEarned DEF Checked
  <2>7. Same(r) /\ Sees(r, "overdue") /\ Completes(r, "overdue")
    BY <1>1, <2>1, <2>4, <2>5 DEF Same, Sees, Completes
  <2> QED  BY <1>1, <1>5, <2>4, <2>5, <2>6, <2>7, MovesStep DEF Steps, Waiting
<1> QED  BY <1>3, <1>4, <1>5 DEF ReadActive, Refusals

LEMMA LockExecutionStep ==
  ASSUME IInv, NEW r \in Requests, LockExecution(r)
  PROVE  IInv'
<1>1. PICK e : e = tx[r].seen
  OBVIOUS
<1>2. /\ TypeOK /\ Request(r) /\ tx[r].pc = "overdue" /\ e \in DOMAIN rows /\ Row(e) \in Locks
      /\ tx[r].completed = None /\ Available(r, Row(e))
  <2>1. TypeOK /\ Request(r) /\ tx[r].pc = "overdue" /\ Available(r, Row(e))
    BY <1>1 DEF IInv, LockExecution, At
  <2>2. e \in DOMAIN rows /\ tx[r].completed = None
    BY <1>1, <2>1 DEF Request, Sent
  <2> QED  BY <2>1, <2>2, PlanIsALock
<1>3. CASE Refuses(r, "not found")
  BY <1>2, <1>3, RefusesStep DEF Refusals
<1>4. CASE Take(r, Row(e)) /\ GoTo(r, "completing") /\ UNCHANGED <<rows, records, closed, overdue, planned>>
  <2>1. LocksOf(r) /\ owner'[Row(e)] = r /\ \A l \in Locks : owner[l] = r => owner'[l] = r
    BY <1>2, <1>4, TakeStep
  <2>2. Earned(r, "completing")
    <3>1. CASE IsStart(r)
      BY <1>2, <2>1, <3>1, KeepsEarned DEF Checked
    <3>2. CASE ~IsStart(r)
      BY <3>2 DEF Earned
    <3> QED  BY <3>1, <3>2
  <2> QED  BY <1>1, <1>2, <1>4, <2>1, <2>2, AdvanceStep DEF Steps, Waiting
<1> QED  BY <1>1, <1>3, <1>4 DEF LockExecution

(* A completion changes one row.                                            *)
LEMMA CompletedRows ==
  ASSUME TypeOK, NEW e \in DOMAIN rows, rows[e].version = 1, NEW s, s = Completed(e)
  PROVE  /\ s \in Seq(Execs) /\ Len(s) = Len(rows) /\ DOMAIN s = DOMAIN rows
         /\ \A x \in DOMAIN rows :
              /\ s[x].payload = rows[x].payload /\ s[x].key = rows[x].key
              /\ x # e => s[x] = rows[x]
         /\ s[e].state = "completed"
<1> DEFINE t == [rows[e] EXCEPT !.state = "completed", !.version = 2]
<1>1. rows \in Seq(Execs) /\ rows[e] \in Execs
  BY DEF TypeOK
<1>2. s = [rows EXCEPT ![e] = t]
  <2>1. s = [rows EXCEPT ![e] = [[rows[e] EXCEPT !.state = "completed"] EXCEPT !.version = rows[e].version + 1]]
    BY <1>1 DEF Completed
  <2> QED  BY <1>1, <2>1 DEF Execs
<1>3. t \in Execs /\ t.payload = rows[e].payload /\ t.key = rows[e].key /\ t.state = "completed"
  BY <1>1 DEF Execs
<1> HIDE DEF t
<1>4. s \in Seq(Execs) /\ Len(s) = Len(rows)
  BY <1>1, <1>2, <1>3
<1>5. DOMAIN s = DOMAIN rows /\ s[e] = t /\ \A x \in DOMAIN rows : x # e => s[x] = rows[x]
  BY <1>1, <1>2
<1> QED  BY <1>3, <1>4, <1>5

LEMMA CompleteStep ==
  ASSUME IInv, NEW r \in Requests, At(r, "completing"), tx[r].kind = "complete",
         NEW e, e = tx[r].seen, Answers(r, e), rows' = Finish(e),
         UNCHANGED <<records, closed, overdue, planned>>
  PROVE  IInv'
<1>1. TypeOK /\ Request(r) /\ tx[r].pc = "completing"
  BY DEF IInv, At
<1>2. e \in DOMAIN rows /\ e \in IdsOrNone /\ owner[Row(e)] = r
  BY <1>1, RowsAreIds DEF Request, Sent, HoldsSeen, IdsOrNone
<1>3. /\ rows' \in Seq(Execs) /\ Len(rows') = Len(rows) /\ DOMAIN rows' = DOMAIN rows
      /\ \A x \in DOMAIN rows :
           /\ rows'[x].payload = rows[x].payload /\ rows'[x].key = rows[x].key
           /\ x # e => rows'[x] = rows[x]
      /\ rows'[e].state \in {"completed", "deleted"}
      /\ Present(e) <=> Present(e)'
  <2>1. CASE Running(e)
    <3>1. rows[e].version = 1
      BY <1>2, <2>1 DEF IInv, Tables
    <3> QED  BY <1>1, <1>2, <2>1, <3>1, CompletedRows DEF Finish, Present, Running
  <2>2. CASE ~Running(e)
    <3>1. rows' = rows
      BY <2>2 DEF Finish
    <3>2. rows[e].state \in {"completed", "deleted"}
      BY <1>1, <1>2, <2>2, RowsAreIds DEF Running, Execs
    <3> QED  BY <1>1, <3>1, <3>2 DEF TypeOK, Present
  <2> QED  BY <2>1, <2>2
<1>4. "ok" \in Outcomes
  BY DEF Outcomes
<1>5. /\ Others(r) /\ LocksOf(r) /\ Same(r)
      /\ tx'[r].pc = "done" /\ tx'[r].completed = None /\ tx'[r].inserted = FALSE
      /\ \A l \in Locks : owner'[l] # r
  BY <1>1, <1>2, <1>4, EndsStep DEF Answers
<1>6. TypeOK'
  BY <1>1, <1>3, <1>5 DEF TypeOK, Others, LocksOf
<1>7. \A x \in DOMAIN rows : Running(x)' => Running(x)
  BY <1>3 DEF Running
<1>8. Open' \subseteq Open
  BY <1>3, <1>7 DEF Open
<1>9. Tables'
  <2>1. \A x \in DOMAIN rows' : Running(x)' => rows'[x].version = 1
    BY <1>2, <1>3, <1>7 DEF IInv, Tables, Running
  <2>2. \A x \in DOMAIN rows' : records'[rows'[x].key] # Unset
    BY <1>3 DEF IInv, Tables
  <2>3. \A x \in DOMAIN rows' : rows'[x].payload.from # None =>
          /\ rows'[x].payload.from \in DOMAIN rows'
          /\ rows'[rows'[x].payload.from].payload.context = rows'[x].payload.context
    BY <1>3 DEF IInv, Tables
  <2>4. \A k \in Keys : records'[k] # Unset =>
          /\ records'[k].execution \in DOMAIN rows'
          /\ rows'[records'[k].execution].payload = records'[k].payload
    BY <1>3 DEF IInv, Tables
  <2> QED  BY <2>1, <2>2, <2>3, <2>4 DEF Tables
<1>10. OneOpenExecution' /\ KeyStartsOnce'
  BY <1>3, <1>8 DEF IInv, OneOpenExecution, KeyStartsOnce
<1>11. OneInserts' /\ Request(r)'
  BY <1>1, <1>3, <1>5, EndedRequest DEF IInv, OneInserts, Others
<1>12. ASSUME NEW q \in Requests  PROVE  Replied(q)'
  BY <1>5 DEF IInv, Replied, Started, Others, Same
<1>13. ASSUME NEW q \in Requests, q # r  PROVE  Request(q)'
  <2>1. FrameTx(q) /\ FrameTables(q)
    BY <1>5, <1>13, UnsetIsNoValue DEF FrameTx, FrameTables, Others, LocksOf
  <2>2. \A x \in DOMAIN rows : Successors(x)' \subseteq Successors(x)
    BY <1>3 DEF Successors, Present
  <2>3. \A x \in DOMAIN rows : owner[Row(x)] = q => x # e
    BY <1>2, <1>13
  <2>4. FrameRows(q)
    BY <1>3, <1>8, <2>2, <2>3 DEF FrameRows
  <2> QED  BY <2>1, <2>4, FrameKeepsRequest DEF Frame, IInv
<1> QED  BY <1>6, <1>9, <1>10, <1>11, <1>12, <1>13 DEF IInv

LEMMA CompleteScheduleStep ==
  ASSUME IInv, NEW r \in Requests, CompleteSchedule(r)
  PROVE  IInv'
<1>1. PICK e, c : e = tx[r].seen /\ c = rows[e].payload.context
  OBVIOUS
<1>2. TypeOK /\ Request(r) /\ tx[r].pc = "completing" /\ Available(r, Context(c))
  BY <1>1 DEF IInv, CompleteSchedule, At
<1>3. e \in DOMAIN rows /\ Context(c) \in Locks /\ owner[Row(e)] = r /\ Row(e) \in Locks
  <2>1. e \in DOMAIN rows /\ owner[Row(e)] = r
    BY <1>1, <1>2 DEF Request, Sent, HoldsSeen
  <2>2. rows[e].payload.context \in Contexts
    BY <1>2, <2>1, RowsAreIds DEF Execs, Payloads
  <2> QED  BY <1>1, <1>2, <2>1, <2>2, PlanIsALock
<1>4. CASE tx[r].kind = "complete"
  BY <1>1, <1>2, <1>4, CompleteStep DEF CompleteSchedule, At
<1>5. CASE tx[r].kind = "start"
  <2> DEFINE done == IF Running(e) THEN e ELSE None
  <2>1. /\ Take(r, Context(c)) /\ UNCHANGED <<rows, records, closed, overdue, planned>>
        /\ tx' = [tx EXCEPT ![r].pc = "insert", ![r].completed = done]
    BY <1>1, <1>5 DEF CompleteSchedule
  <2> DEFINE t == [tx[r] EXCEPT !.pc = "insert", !.completed = done]
  <2>2. tx \in [Requests -> Transactions] /\ tx[r] \in Transactions /\ tx' = [tx EXCEPT ![r] = t]
    BY <1>2, <2>1 DEF TypeOK
  <2>3. done \in IdsOrNone
    BY <1>2, <1>3, RowsAreIds DEF IdsOrNone
  <2>4. done # None => done = e /\ Running(e)
    OBVIOUS
  <2> HIDE DEF done
  <2>5. t \in Transactions
    BY <2>2, <2>3 DEF Transactions, Steps
  <2>6. /\ t.pc = "insert" /\ t.completed = done /\ t.kind = tx[r].kind /\ t.key = tx[r].key
        /\ t.payload = tx[r].payload /\ t.inserted = tx[r].inserted /\ t.outcome = tx[r].outcome
    BY <2>2 DEF Transactions
  <2> HIDE DEF t
  <2>7. Others(r) /\ tx'[r] = t /\ Same(r)
    BY <2>2, <2>5, <2>6 DEF Others, Same
  <2>8. LocksOf(r) /\ \A l \in Locks : owner[l] = r => owner'[l] = r
    BY <1>2, <1>3, <2>1, TakeStep
  <2>9. Earned(r, "insert")
    BY <1>2, <1>5, <2>8, KeepsEarned DEF Checked, IsStart
  <2>10. Completes(r, "insert")
    BY <1>3, <2>4, <2>6, <2>7, <2>8 DEF Completes
  <2> QED  BY <1>2, <2>1, <2>6, <2>7, <2>8, <2>9, <2>10, MovesStep DEF Steps, Waiting, Sees
<1>6. tx[r].kind \in {"start", "complete"}
  BY <1>2 DEF TypeOK, Transactions
<1> QED  BY <1>4, <1>5, <1>6

(* The insert finds no other transaction with an undecided one.             *)
LEMMA InsertsStep ==
  ASSUME IInv, NEW r \in Requests, tx[r].pc = "insert", Undecided(r) = {},
         Duplicates(r) = {}, Len(rows) < MaxRows,
         tx' = [tx EXCEPT ![r].pc = "record", ![r].inserted = TRUE],
         UNCHANGED <<rows, records, closed, overdue, planned, owner>>
  PROVE  IInv'
<1> DEFINE t == [tx[r] EXCEPT !.pc = "record", !.inserted = TRUE]
<1>1. /\ TypeOK /\ Request(r) /\ IsStart(r)
      /\ tx \in [Requests -> Transactions] /\ tx[r] \in Transactions /\ tx' = [tx EXCEPT ![r] = t]
  BY StartsAreTyped DEF IInv, TypeOK
<1>2. t \in Transactions
  BY <1>1 DEF Transactions, Steps
<1>3. /\ t.pc = "record" /\ t.inserted = TRUE /\ t.kind = tx[r].kind /\ t.key = tx[r].key
      /\ t.payload = tx[r].payload /\ t.completed = tx[r].completed /\ t.outcome = tx[r].outcome
  BY <1>1 DEF Transactions
<1> HIDE DEF t
<1>4. Others(r) /\ tx'[r] = t /\ LocksOf(r)
  BY <1>1, <1>2, KeepLocks DEF Others
<1>5. \A q \in Requests \ {r} : ~tx[q].inserted
  BY DEF Undecided
<1>6. Sent(r)' /\ HoldsNothing(r)' /\ HoldsSeen(r)' /\ HoldsCompleted(r)'
  BY <1>1, <1>3, <1>4 DEF Sent, HoldsNothing, HoldsSeen, HoldsCompleted, Request, IsStart, Running
<1>7. HoldsPlan(r)' /\ HoldsContext(r)'
  BY <1>1, <1>3, <1>4 DEF HoldsPlan, HoldsContext, Request, IsStart, Key, Looked, InContext, Checked
<1>8. HoldsPredecessor(r)'
  BY <1>1, <1>3, <1>4 DEF HoldsPredecessor, Request, IsStart, From, Checked, Successors, Present
<1>9. MayInsert(r)'
  BY <1>3, <1>4 DEF MayInsert, Duplicates, Open, Running
<1>10. Request(r)'
  BY <1>6, <1>7, <1>8, <1>9 DEF Request
<1>11. Replied(r)'
  BY <1>1, <1>3, <1>4 DEF Replied, Started, Request, Sent
<1> QED  BY <1>4, <1>5, <1>10, <1>11, QuietStep

LEMMA InsertStep ==
  ASSUME IInv, NEW r \in Requests, Insert(r)
  PROVE  IInv'
<1>1. TypeOK /\ Request(r) /\ tx[r].pc = "insert"
  BY DEF IInv, Insert, At
<1>2. CASE GoTo(r, "fallback")
  <2>1. IsStart(r) /\ UNCHANGED <<rows, records, closed, overdue, planned, owner>>
    BY <1>1, StartsAreTyped DEF Insert
  <2>2. LocksOf(r) /\ Earned(r, "fallback")
    BY <1>1, <2>1, KeepLocks, KeepsEarned DEF Checked
  <2> QED  BY <1>1, <1>2, <2>1, <2>2, AdvanceStep DEF Steps, Waiting
<1> QED  BY <1>1, <1>2, InsertsStep DEF Insert

LEMMA FallbackStep ==
  ASSUME IInv, NEW r \in Requests, Fallback(r)
  PROVE  IInv'
<1>1. Request(r) /\ tx[r].pc = "fallback" /\ IsStart(r)
  BY StartsAreTyped DEF IInv, Fallback, At
<1>2. CASE HasExecution(r) /\ Replays(r, records[tx[r].key].execution)
  BY <1>1, <1>2, ReplaysStep
<1>3. CASE \E code \in Refusals : Refuses(r, code)
  BY <1>1, <1>3, RefusesStep
<1>4. tx[r].payload.from # None => Successors(tx[r].payload.from) = {}
  BY <1>1 DEF Request, HoldsPredecessor, Checked, From
<1> QED  BY <1>2, <1>3, <1>4 DEF Fallback, Refusals

LEMMA SettledRows ==
  ASSUME IInv, NEW r \in Requests, NEW s, s = Settled(r)
  PROVE  /\ s \in Seq(Execs) /\ Len(s) = Len(rows) /\ DOMAIN s = DOMAIN rows
         /\ \A x \in DOMAIN rows :
              /\ s[x].payload = rows[x].payload /\ s[x].key = rows[x].key
              /\ x # tx[r].completed => s[x] = rows[x]
         /\ tx[r].completed # None => s[tx[r].completed].state = "completed"
<1>1. TypeOK /\ Request(r)
  BY DEF IInv
<1>2. CASE tx[r].completed = None
  BY <1>1, <1>2 DEF Settled, TypeOK
<1>3. CASE tx[r].completed # None
  <2>1. PICK e : e = tx[r].completed
    OBVIOUS
  <2>2. e \in DOMAIN rows /\ rows[e].version = 1 /\ s = Completed(e)
    BY <1>1, <1>3, <2>1 DEF Request, HoldsCompleted, IInv, Tables, Settled
  <2> QED  BY <1>1, <2>1, <2>2, CompletedRows
<1> QED  BY <1>2, <1>3

LEMMA CommitsStep ==
  ASSUME IInv, NEW r \in Requests, tx[r].pc = "record", records[tx[r].key] = Unset,
         NEW n, n = Len(rows) + 1,
         rows' = Append(Settled(r), NewExecution(r)), records' = Recorded(r, n),
         Answers(r, n), UNCHANGED <<closed, overdue, planned>>
  PROVE  IInv'
<1>1. /\ TypeOK /\ Request(r) /\ IsStart(r) /\ tx[r].inserted
      /\ tx[r].key \in Keys /\ tx[r].payload \in Payloads
  BY StartsAreTyped DEF IInv, Request, Sent
<1>2. /\ DOMAIN rows = 1..Len(rows) /\ Len(rows) \in Nat /\ Len(rows) < MaxRows
      /\ Open \subseteq {tx[r].completed} /\ n \in Ids /\ n \notin DOMAIN rows
  BY <1>1, RowsAreIds, DirectBounds DEF Request, MayInsert, Ids
<1>3. PICK s : s = Settled(r)
  OBVIOUS
<1>4. PICK new : new = NewExecution(r)
  OBVIOUS
<1>5. /\ s \in Seq(Execs) /\ Len(s) = Len(rows) /\ DOMAIN s = DOMAIN rows
      /\ \A x \in DOMAIN rows :
           /\ s[x].payload = rows[x].payload /\ s[x].key = rows[x].key
           /\ x # tx[r].completed => s[x] = rows[x]
      /\ tx[r].completed # None => s[tx[r].completed].state = "completed"
  BY <1>3, SettledRows
<1>6. /\ new \in Execs /\ new.payload = tx[r].payload /\ new.key = tx[r].key
      /\ new.state = "running" /\ new.version = 1
  BY <1>1, <1>4 DEF NewExecution, Execs
<1>7. /\ rows' \in Seq(Execs) /\ Len(rows') = n /\ DOMAIN rows' = DOMAIN rows \cup {n}
      /\ rows'[n] = new /\ \A x \in DOMAIN rows : rows'[x] = s[x]
  BY <1>2, <1>3, <1>4, <1>5, <1>6
<1>8. \A x \in DOMAIN rows : rows'[x].payload = rows[x].payload /\ rows'[x].key = rows[x].key
  BY <1>5, <1>7
<1>9. \A x \in DOMAIN rows : x # tx[r].completed => rows'[x] = rows[x]
  BY <1>5, <1>7
<1>10. /\ Others(r) /\ LocksOf(r) /\ Request(r)' /\ OneInserts'
       /\ records' \in [Keys -> Uses \cup {Unset}]
       /\ \A k \in Keys : records[k] # Unset => records'[k] = records[k]
       /\ records'[tx[r].key] # Unset
       /\ \A k \in Keys : records'[k] # Unset =>
            /\ records'[k].execution \in DOMAIN rows'
            /\ rows'[records'[k].execution].payload = records'[k].payload
       /\ \A q \in Requests : Replied(q)'
       /\ \A q \in Requests \ {r} : FrameTx(q) /\ FrameTables(q)
  BY <1>2, <1>6, <1>7, <1>8, RecordsStep DEF Answers
<1>11. TypeOK'
  BY <1>1, <1>2, <1>7, <1>10 DEF TypeOK, Others, LocksOf, Ids
<1>12. \A x \in DOMAIN rows : ~Running(x)'
  <2> SUFFICES ASSUME NEW x \in DOMAIN rows, Running(x)' PROVE FALSE
    OBVIOUS
  <2>1. rows'[x].state = "running"
    BY DEF Running
  <2>2. x # tx[r].completed \/ tx[r].completed = None
    BY <2>1, <1>5, <1>7
  <2>3. x # tx[r].completed
    BY <2>2, <1>1, RowsAreIds
  <2>4. x \in Open
    BY <2>1, <2>3, <1>9 DEF Open, Running
  <2> QED  BY <2>3, <2>4, <1>2
<1>13. OneOpenExecution'
  BY <1>7, <1>12 DEF OneOpenExecution, Open
<1>14. \A x \in DOMAIN rows : rows[x].key \in Keys /\ records[rows[x].key] # Unset
  BY <1>1, RowsAreIds DEF IInv, Tables, Execs
<1>15. KeyStartsOnce'
  <2>1. \A x \in DOMAIN rows : rows'[x].key # rows'[n].key
    BY <1>6, <1>7, <1>8, <1>14
  <2> QED  BY <1>7, <1>8, <2>1 DEF IInv, KeyStartsOnce
<1>16. Tables'
  <2>1. \A x \in DOMAIN rows' : Running(x)' => rows'[x].version = 1
    BY <1>6, <1>7, <1>12
  <2>2. \A x \in DOMAIN rows' : records'[rows'[x].key] # Unset
    BY <1>6, <1>7, <1>8, <1>10, <1>14
  <2>3. ASSUME NEW x \in DOMAIN rows', rows'[x].payload.from # None
        PROVE  /\ rows'[x].payload.from \in DOMAIN rows'
               /\ rows'[rows'[x].payload.from].payload.context = rows'[x].payload.context
    <3>1. CASE x \in DOMAIN rows
      BY <2>3, <3>1, <1>7, <1>8 DEF IInv, Tables
    <3>2. CASE x = n
      BY <2>3, <3>2, <1>1, <1>6, <1>7, <1>8 DEF Request, HoldsPredecessor, From
    <3> QED  BY <3>1, <3>2, <1>7
  <2> QED  BY <2>1, <2>2, <2>3, <1>10 DEF Tables
<1>17. ASSUME NEW q \in Requests, q # r  PROVE  Request(q)'
  <2>1. ~tx[q].inserted
    BY <1>1, <1>17 DEF IInv, OneInserts
  <2>2. ASSUME NEW x \in DOMAIN rows, owner[Row(x)] = q
        PROVE  rows'[x] = rows[x] /\ Successors(x)' \subseteq Successors(x)
    <3>1. x # None /\ Row(x) \in Locks
      BY <1>1, RowsAreIds
    <3>2. x # tx[r].completed
      BY <2>2, <3>1, <1>1, <1>17 DEF Request, HoldsCompleted
    <3>3. x # tx[r].payload.from
      BY <2>2, <3>1, <1>1, <1>17 DEF Request, HoldsPredecessor, From, Sent, Checked
    <3>4. \A y \in DOMAIN rows : Present(y)' => Present(y)
      <4> SUFFICES ASSUME NEW y \in DOMAIN rows, ~Present(y) PROVE ~Present(y)'
        OBVIOUS
      <4>1. rows[y].state = "deleted" /\ ~Running(y)
        BY DEF Present, Running
      <4>2. y # tx[r].completed \/ tx[r].completed = None
        BY <4>1, <1>1 DEF Request, HoldsCompleted
      <4>3. y # tx[r].completed
        BY <4>2, <1>1, RowsAreIds
      <4> QED  BY <4>1, <4>3, <1>9 DEF Present
    <3>5. Successors(x)' \subseteq Successors(x)
      BY <3>3, <3>4, <1>6, <1>7, <1>8 DEF Successors
    <3> QED  BY <3>2, <3>5, <1>9
  <2>3. FrameRows(q)
    BY <1>7, <1>8, <2>1, <2>2 DEF FrameRows
  <2> QED  BY <1>10, <1>17, <2>3, FrameKeepsRequest DEF Frame, IInv
<1> QED  BY <1>10, <1>11, <1>13, <1>15, <1>16, <1>17 DEF IInv

LEMMA CommitStartStep ==
  ASSUME IInv, NEW r \in Requests, CommitStart(r)
  PROVE  IInv'
<1>1. tx[r].pc = "record"
  BY DEF CommitStart, At
<1> QED  BY <1>1, RefusesStep, CommitsStep DEF CommitStart, Refusals

-----------------------------------------------------------------------------
(* Deadlocks, and the steps of nobody.                                      *)

\* Who waits is neither unsent nor done, and nobody waits for who holds nothing.
LEMMA WaitingHasBegun ==
  ASSUME NEW r, NEW q, WaitsFor(r, q)
  PROVE  tx[r].pc \notin {"unsent", "lookup", "done"}
BY DEF WaitsFor, Wanted, At

LEMMA NobodyWaitsForIt ==
  ASSUME IInv, NEW r \in Requests, NEW q, tx[r].pc \in {"unsent", "plan", "done"}
  PROVE  ~WaitsFor(q, r)
<1>1. Request(r) /\ tx[r].inserted = FALSE /\ tx[r].completed = None
  BY DEF IInv, TypeOK, Transactions, Request, Sent
<1> QED  BY <1>1 DEF WaitsFor, Wanted, Undecided, Request, HoldsNothing

LEMMA DeadlockVictimStep ==
  ASSUME IInv, NEW r \in Requests, DeadlockVictim(r)
  PROVE  IInv'
BY WaitingHasBegun, RefusesStep DEF DeadlockVictim, Refusals

LEMMA ProceedStep ==
  ASSUME IInv, NEW r \in Requests, Proceed(r)
  PROVE  IInv'
BY LockPlanStep, FindRecordStep, LockContextStep, CheckPredecessorStep, ReadActiveStep,
   LockExecutionStep, CompleteScheduleStep, InsertStep, FallbackStep, CommitStartStep,
   DeadlockVictimStep
   DEF Proceed

LEMMA NoRequestStep ==
  ASSUME IInv, UNCHANGED <<records, planned, tx, owner>>, TypeOK', Tables', OneOpenExecution',
         KeyStartsOnce', \A q \in Requests : FrameRows(q) /\ FrameTables(q)
  PROVE  IInv'
<1>1. ASSUME NEW q \in Requests  PROVE  Request(q)'
  <2>1. FrameTx(q)
    BY DEF FrameTx
  <2> QED  BY <2>1, FrameKeepsRequest DEF Frame, IInv
<1>2. OneInserts' /\ \A q \in Requests : Replied(q)'
  BY DEF IInv, OneInserts, Replied, Started
<1> QED  BY <1>1, <1>2 DEF IInv

LEMMA ElapseStep ==
  ASSUME IInv, NEW e \in DOMAIN rows, Elapse(e)
  PROVE  IInv'
<1>1. TypeOK /\ e \in Ids /\ UNCHANGED <<rows, records, closed, planned, tx, owner>>
  BY RowsAreIds DEF IInv, Elapse
<1>2. TypeOK'
  BY <1>1 DEF TypeOK, Elapse
<1>3. Tables' /\ OneOpenExecution' /\ KeyStartsOnce'
  BY <1>1 DEF IInv, Tables, OneOpenExecution, KeyStartsOnce, Open, Running
<1>4. \A q \in Requests : FrameRows(q) /\ FrameTables(q)
  BY <1>1, SameRowsFrame DEF FrameTables
<1> QED  BY <1>1, <1>2, <1>3, <1>4, NoRequestStep

LEMMA CloseContextStep ==
  ASSUME IInv, NEW c \in Contexts, CloseContext(c)
  PROVE  IInv'
<1>1. TypeOK /\ UNCHANGED <<rows, records, overdue, planned, tx, owner>>
  BY DEF IInv, CloseContext
<1>2. closed' = closed \cup {c} /\ owner[Context(c)] = Unset
  BY DEF CloseContext
<1>3. TypeOK'
  BY <1>1, <1>2 DEF TypeOK
<1>4. Tables' /\ OneOpenExecution' /\ KeyStartsOnce'
  BY <1>1 DEF IInv, Tables, OneOpenExecution, KeyStartsOnce, Open, Running
<1>5. \A q \in Requests : FrameRows(q) /\ FrameTables(q)
  BY <1>1, <1>2, SameRowsFrame, UnsetIsNoValue DEF FrameTables
<1> QED  BY <1>1, <1>3, <1>4, <1>5, NoRequestStep

LEMMA DeleteExecutionStep ==
  ASSUME IInv, NEW e \in DOMAIN rows, DeleteExecution(e)
  PROVE  IInv'
<1> DEFINE t == [rows[e] EXCEPT !.state = "deleted"]
<1>1. TypeOK /\ UNCHANGED <<records, closed, overdue, planned, tx, owner>> /\ owner[Row(e)] = Unset
  BY DEF IInv, DeleteExecution
<1>2. rows \in Seq(Execs) /\ rows[e] \in Execs /\ rows' = [rows EXCEPT ![e] = t]
  BY <1>1 DEF TypeOK, DeleteExecution
<1>3. t \in Execs /\ t.payload = rows[e].payload /\ t.key = rows[e].key /\ t.state = "deleted"
  BY <1>2 DEF Execs
<1> HIDE DEF t
<1>4. /\ rows' \in Seq(Execs) /\ Len(rows') = Len(rows) /\ DOMAIN rows' = DOMAIN rows
      /\ rows'[e] = t /\ \A x \in DOMAIN rows : x # e => rows'[x] = rows[x]
  BY <1>2, <1>3
<1>5. \A x \in DOMAIN rows : rows'[x].payload = rows[x].payload /\ rows'[x].key = rows[x].key
  BY <1>3, <1>4
<1>6. \A x \in DOMAIN rows :
        /\ Present(x)' => Present(x)
        /\ Running(x)' => Running(x) /\ rows'[x] = rows[x]
  BY <1>3, <1>4 DEF Present, Running
<1>7. TypeOK'
  BY <1>1, <1>4 DEF TypeOK
<1>8. Open' \subseteq Open
  BY <1>4, <1>6 DEF Open
<1>9. OneOpenExecution' /\ KeyStartsOnce'
  BY <1>4, <1>5, <1>8 DEF IInv, OneOpenExecution, KeyStartsOnce
<1>10. Tables'
  <2>1. \A x \in DOMAIN rows' : Running(x)' => rows'[x].version = 1
    BY <1>4, <1>6 DEF IInv, Tables
  <2>2. \A x \in DOMAIN rows' : records'[rows'[x].key] # Unset
    BY <1>1, <1>4, <1>5 DEF IInv, Tables
  <2>3. \A x \in DOMAIN rows' : rows'[x].payload.from # None =>
          /\ rows'[x].payload.from \in DOMAIN rows'
          /\ rows'[rows'[x].payload.from].payload.context = rows'[x].payload.context
    BY <1>4, <1>5 DEF IInv, Tables
  <2>4. \A k \in Keys : records'[k] # Unset =>
          /\ records'[k].execution \in DOMAIN rows'
          /\ rows'[records'[k].execution].payload = records'[k].payload
    BY <1>1, <1>4, <1>5 DEF IInv, Tables
  <2> QED  BY <2>1, <2>2, <2>3, <2>4 DEF Tables
<1>11. ASSUME NEW q \in Requests  PROVE  FrameRows(q) /\ FrameTables(q)
  <2>1. \A x \in DOMAIN rows : Successors(x)' \subseteq Successors(x)
    BY <1>4, <1>5, <1>6 DEF Successors
  <2>2. \A x \in DOMAIN rows : owner[Row(x)] = q => x # e
    BY <1>1, UnsetIsNoValue
  <2>3. FrameRows(q)
    BY <1>4, <1>5, <1>8, <2>1, <2>2 DEF FrameRows
  <2> QED  BY <1>1, <2>3 DEF FrameTables
<1> QED  BY <1>1, <1>7, <1>9, <1>10, <1>11, NoRequestStep

LEMMA NoStep ==
  ASSUME IInv, UNCHANGED vars
  PROVE  IInv'
<1>1. UNCHANGED <<rows, records, closed, overdue, planned, tx, owner>>
  BY DEF vars
<1>2. TypeOK' /\ Tables' /\ OneOpenExecution' /\ KeyStartsOnce'
  BY <1>1 DEF IInv, TypeOK, Tables, OneOpenExecution, KeyStartsOnce, Open, Running
<1>3. \A q \in Requests : FrameRows(q) /\ FrameTables(q)
  BY <1>1, SameRowsFrame DEF FrameTables
<1> QED  BY <1>1, <1>2, <1>3, NoRequestStep

LEMMA NextKeepsIInv == IInv /\ [Next]_vars => IInv'
BY ArriveStep, ProceedStep, ElapseStep, CloseContextStep, DeleteExecutionStep, NoStep
   DEF Next, Finished

LEMMA InitHasIInv == Init => IInv
<1> SUFFICES ASSUME Init PROVE IInv
  OBVIOUS
<1>1. /\ planned \in BOOLEAN /\ closed = {} /\ overdue = {}
      /\ tx = [r \in Requests |-> Blank] /\ owner = [l \in Locks |-> Unset]
  BY DEF Init
<1>2. Blank \in Transactions
  BY DEF Blank, Transactions, Steps, IdsOrNone, Outcomes
<1>3. \A r \in Requests : Request(r) /\ Replied(r)
  <2> SUFFICES ASSUME NEW r \in Requests PROVE Request(r) /\ Replied(r)
    OBVIOUS
  <2>1. /\ tx[r].pc = "unsent" /\ tx[r].kind = "start" /\ tx[r].outcome = "none"
        /\ tx[r].inserted = FALSE /\ tx[r].completed = None
    BY <1>1 DEF Blank
  <2>2. \A l \in Locks : owner[l] # r
    BY <1>1, UnsetIsNoValue
  <2> QED  BY <2>1, <2>2 DEF Request, Replied, Started, Sent, HoldsNothing, HoldsPlan, HoldsContext,
             HoldsSeen, HoldsCompleted, HoldsPredecessor, MayInsert, IsStart
<1>4. OneInserts
  BY <1>1 DEF OneInserts, Blank
<1>5. /\ rows \in Seq(Execs) /\ Len(rows) <= MaxRows /\ records \in [Keys -> Uses \cup {Unset}]
      /\ Tables /\ OneOpenExecution /\ KeyStartsOnce
  <2>1. CASE rows = <<>> /\ records = [k \in Keys |-> Unset]
    BY <2>1, DirectBounds DEF Tables, OneOpenExecution, KeyStartsOnce, Open
  <2>2. ASSUME NEW e \in Earlier, rows = <<e>>,
               records = [k \in Keys |-> IF k # e.key THEN Unset ELSE [payload |-> e.payload, execution |-> 1]]
        PROVE  /\ rows \in Seq(Execs) /\ Len(rows) <= MaxRows /\ records \in [Keys -> Uses \cup {Unset}]
               /\ Tables /\ OneOpenExecution /\ KeyStartsOnce
    <3>1. /\ e \in Execs /\ e.payload \in Payloads /\ e.payload.from = None /\ e.key \in Keys
          /\ e.state = "completed"
      BY DEF Earlier, Execs, Payloads, IdsOrNone
    <3>2. PICK use : use = [payload |-> e.payload, execution |-> 1]
      OBVIOUS
    <3>3. 1 \in Ids /\ use \in Uses /\ use # Unset /\ use.payload = e.payload /\ use.execution = 1
      BY <3>1, <3>2, DirectBounds, UnsetIsNoValue DEF Uses, Ids
    <3>4. records = [k \in Keys |-> IF k # e.key THEN Unset ELSE use]
      BY <2>2, <3>2
    <3>5. rows \in Seq(Execs) /\ Len(rows) = 1 /\ DOMAIN rows = {1} /\ rows[1] = e
      BY <2>2, <3>1
    <3>6. records \in [Keys -> Uses \cup {Unset}] /\ Len(rows) <= MaxRows
      BY <3>3, <3>4, <3>5, DirectBounds
    <3>7. Tables
      BY <3>1, <3>3, <3>4, <3>5 DEF Tables, Running
    <3> QED  BY <3>1, <3>5, <3>6, <3>7 DEF OneOpenExecution, KeyStartsOnce, Open
  <2> QED  BY <2>1, <2>2 DEF Init
<1> QED  BY <1>1, <1>2, <1>3, <1>4, <1>5 DEF IInv, TypeOK

-----------------------------------------------------------------------------
(* The theorems.                                                            *)

(* The inductive invariant holds: every request of services/premium_execution *)
(* and retro_execution relies on its locks, and no other breaks them.        *)
THEOREM Invariance == Spec => []IInv
<1>1. Init => IInv
  BY InitHasIInv
<1>2. IInv /\ [Next]_vars => IInv'
  BY NextKeepsIInv
<1> QED  BY <1>1, <1>2, PTL DEF Spec

(* Every row, record, transaction and lock has its type, whatever the number *)
(* of requests, keys and contexts (services/premium_execution.py).           *)
THEOREM DirectTypes == Spec => []TypeOK
<1>1. IInv => TypeOK
  BY DEF IInv
<1> QED  BY <1>1, Invariance, PTL

(* start_premium and start_retro never leave two executions of a scope open, *)
(* although only the insert is checked against the others.                   *)
THEOREM OneOpenAtATime == Spec => []OneOpenExecution
<1>1. IInv => OneOpenExecution
  BY DEF IInv
<1> QED  BY <1>1, Invariance, PTL

(* An idempotency key starts one execution, for good: the record outlives    *)
(* the execution (direct_execution.py).                                      *)
THEOREM AKeyStartsOnce == Spec => []KeyStartsOnce
<1>1. IInv => KeyStartsOnce
  BY DEF IInv
<1> QED  BY <1>1, Invariance, PTL

(* An answer is recorded under the key it was asked with, whichever path of  *)
(* start_premium or start_retro gave it.                                     *)
THEOREM AnswersAreRecorded == Spec => []RepliesAreRecorded
<1>1. IInv => RepliesAreRecorded
  BY DEF IInv, Replied, RepliesAreRecorded
<1> QED  BY <1>1, Invariance, PTL

(* The execution of an answer is one of the context, the duration and the    *)
(* predecessor the request asked for, though another request started it.     *)
THEOREM AnswersAreWhatWasAsked == Spec => []ReplyIsWhatWasAsked
<1>1. IInv => ReplyIsWhatWasAsked
  <2> SUFFICES ASSUME IInv, NEW r \in Requests, Started(r)
               PROVE  rows[tx[r].reply].payload = tx[r].payload
    BY DEF ReplyIsWhatWasAsked
  <2>1. tx[r].key \in Keys
    BY DEF IInv, Request, Sent, IsStart, Started
  <2>2. PICK p, e : p = tx[r].payload /\ e = tx[r].reply
    OBVIOUS
  <2>3. records[tx[r].key] # Unset /\ records[tx[r].key] = [payload |-> p, execution |-> e]
    BY <2>2 DEF IInv, Replied
  <2>4. records[tx[r].key].execution = e /\ records[tx[r].key].payload = p
    BY <2>3
  <2> QED  BY <2>1, <2>2, <2>3, <2>4 DEF IInv, Tables
<1> QED  BY <1>1, Invariance, PTL

-----------------------------------------------------------------------------
(* What a step may never do.                                                *)

InTime ==
  \A e \in DOMAIN rows' \ DOMAIN rows : rows'[e].payload.context \notin closed

LEMMA OnlyCommitsAdd ==
  ASSUME IInv, [Next]_vars
  PROVE  \/ DOMAIN rows' = DOMAIN rows
         \/ \E r \in Requests : CommitStart(r)
<1>1. TypeOK /\ rows \in Seq(Execs)
  BY DEF IInv, TypeOK
<1>2. ASSUME NEW r \in Requests, Arrive(r)  PROVE  rows' = rows
  BY <1>2 DEF Arrive, StartDirect, Continue, CompleteOrRead
<1>3. ASSUME NEW r \in Requests, Proceed(r)
      PROVE  DOMAIN rows' = DOMAIN rows \/ CommitStart(r)
  <2>1. CASE CompleteSchedule(r)
    BY <2>1, <1>1 DEF CompleteSchedule, Finish, Completed
  <2>2. CASE LockPlan(r) \/ FindRecord(r) \/ LockContext(r)
    BY <2>2 DEF LockPlan, FindRecord, LockContext, Replays, Refuses
  <2>3. CASE CheckPredecessor(r)
    BY <2>3 DEF CheckPredecessor, Adopt, Refuses
  <2>4. CASE ReadActive(r) \/ LockExecution(r) \/ Insert(r)
    BY <2>4 DEF ReadActive, LockExecution, Insert, Refuses
  <2>5. CASE Fallback(r) \/ DeadlockVictim(r)
    BY <2>5 DEF Fallback, DeadlockVictim, Replays, Refuses
  <2> QED  BY <1>3, <2>1, <2>2, <2>3, <2>4, <2>5 DEF Proceed
<1>4. CASE \E e \in DOMAIN rows : DeleteExecution(e)
  BY <1>1, <1>4 DEF DeleteExecution
<1>5. CASE \/ \E e \in DOMAIN rows : Elapse(e)
           \/ \E c \in Contexts : CloseContext(c)
           \/ Finished \/ UNCHANGED vars
  BY <1>5 DEF Elapse, CloseContext, Finished, vars
<1> QED  BY <1>2, <1>3, <1>4, <1>5 DEF Next

LEMMA CommitIsInTime ==
  ASSUME IInv, NEW r \in Requests, CommitStart(r)
  PROVE  InTime
<1>1. /\ TypeOK /\ Request(r) /\ tx[r].pc = "record" /\ IsStart(r)
      /\ tx[r].payload \in Payloads /\ tx[r].key \in Keys
  BY StartsAreTyped DEF IInv, CommitStart, At
<1>2. CASE Refuses(r, "error")
  BY <1>2 DEF Refuses, InTime
<1>3. CASE rows' = Append(Settled(r), NewExecution(r))
  <2>1. PICK s, new : s = Settled(r) /\ new = NewExecution(r)
    OBVIOUS
  <2>2. s \in Seq(Execs) /\ Len(s) = Len(rows) /\ DOMAIN s = DOMAIN rows
    BY <2>1, SettledRows
  <2>3. new \in Execs /\ new.payload = tx[r].payload
    BY <1>1, <2>1 DEF NewExecution, Execs
  <2>4. \A e \in DOMAIN rows' \ DOMAIN rows : rows'[e] = new
    BY <1>3, <2>1, <2>2, <2>3
  <2>5. tx[r].payload.context \notin closed
    BY <1>1 DEF Request, HoldsContext, InContext, Checked
  <2> QED  BY <2>3, <2>4, <2>5 DEF InTime
<1> QED  BY <1>2, <1>3 DEF CommitStart

(* No execution is committed in a period that was ended, or for a game made  *)
(* inactive, while the start was under way: the lock of the context, taken   *)
(* before it is checked, is held to the commit (premium_execution.py).       *)
THEOREM NothingStartsAfterTheEnd == Spec => NoStartAfterEnd
<1>1. IInv /\ [Next]_vars => [InTime]_vars
  BY OnlyCommitsAdd, CommitIsInTime DEF InTime
<1> QED  BY <1>1, Invariance, PTL DEF Spec, NoStartAfterEnd, InTime

FindsIt == planned => \A r \in Requests : Refused(r) => ~HasExecution(r)

\* Every step has its place in the transaction.
LEMMA StepsHaveTheirPlace ==
  ASSUME NEW r \in Requests, Proceed(r)
  PROVE  \/ tx[r].pc = "plan" /\ LockPlan(r)
         \/ tx[r].pc = "lookup" /\ FindRecord(r)
         \/ tx[r].pc \in Looked
         \/ DeadlockVictim(r)
<1>1. LockPlan(r) => tx[r].pc = "plan"
  BY DEF LockPlan, At
<1>2. FindRecord(r) => tx[r].pc = "lookup"
  BY DEF FindRecord, At
<1>3. LockContext(r) => tx[r].pc = "context"
  BY DEF LockContext, At
<1>4. CheckPredecessor(r) => tx[r].pc = "predecessor"
  BY DEF CheckPredecessor, At
<1>5. ReadActive(r) => tx[r].pc = "active"
  BY DEF ReadActive, At
<1>6. LockExecution(r) => tx[r].pc = "overdue"
  BY DEF LockExecution, At
<1>7. CompleteSchedule(r) => tx[r].pc = "completing"
  BY DEF CompleteSchedule, At
<1>8. Insert(r) => tx[r].pc = "insert"
  BY DEF Insert, At
<1>9. Fallback(r) => tx[r].pc = "fallback"
  BY DEF Fallback, At
<1>10. CommitStart(r) => tx[r].pc = "record"
  BY DEF CommitStart, At
<1> QED  BY <1>1, <1>2, <1>3, <1>4, <1>5, <1>6, <1>7, <1>8, <1>9, <1>10
         DEF Proceed, Looked, InContext, Checked

LEMMA RefusalsAreOwn ==
  ASSUME IInv, [Next]_vars, NEW r \in Requests, Refused(r)
  PROVE  Proceed(r)
<1>1. tx'[r].outcome # tx[r].outcome
  BY DEF Refused, Refusals
<1>2. tx \in [Requests -> Transactions]
  BY DEF IInv, TypeOK
<1>3. ASSUME NEW q \in Requests, Arrive(q)  PROVE  FALSE
  <2>1. ASSUME NEW k \in Keys, NEW c \in Contexts, NEW d \in Durations, StartDirect(q, k, c, d)
        PROVE  tx'[r].outcome = tx[r].outcome
    BY <1>2, <2>1 DEF StartDirect, Transactions
  <2>2. ASSUME NEW k \in Keys, NEW e \in DOMAIN rows, NEW d \in Durations, Continue(q, k, e, d)
        PROVE  tx'[r].outcome = tx[r].outcome
    BY <1>2, <2>2 DEF Continue, Transactions
  <2>3. ASSUME NEW e \in DOMAIN rows, CompleteOrRead(q, e)
        PROVE  tx'[r].outcome = tx[r].outcome
    BY <1>2, <2>3 DEF CompleteOrRead, Transactions
  <2> QED  BY <1>1, <1>3, <2>1, <2>2, <2>3 DEF Arrive
<1>4. PICK q \in Requests : Proceed(q)
  BY <1>1, <1>3 DEF Next, Elapse, CloseContext, DeleteExecution, Finished, vars
<1>5. \A p \in Requests \ {q} : tx'[p] = tx[p]
  BY <1>2, <1>4 DEF Proceed, LockPlan, FindRecord, LockContext, CheckPredecessor, Adopt, ReadActive,
     LockExecution, CompleteSchedule, Insert, Fallback, CommitStart, DeadlockVictim,
     GoTo, Ends, Answers, Replays, Refuses
<1> QED  BY <1>1, <1>4, <1>5

(* In a scope with a plan a request is not refused while its key is recorded *)
(* with its payload for an execution that is there: the plan is locked       *)
(* before the key is looked up (routine_sessions.py, lock_plan_for_start),   *)
(* so nobody records the key in between.                                     *)
THEOREM PlannedRetriesFindTheirs == Spec => PlannedRetryFindsItsExecution
<1>1. IInv /\ [Next]_vars => [FindsIt]_vars
  <2> SUFFICES ASSUME IInv, [Next]_vars, planned, NEW r \in Requests, Refused(r)
               PROVE  ~HasExecution(r)
    BY DEF FindsIt
  <2>1. Proceed(r) /\ Request(r) /\ tx[r] \in Transactions
    BY RefusalsAreOwn DEF IInv, TypeOK
  <2>2. CASE tx[r].pc \in Looked /\ IsStart(r)
    BY <2>1, <2>2 DEF Request, HoldsPlan, Key, HasExecution, Looked, InContext, Checked
  <2>3. CASE tx[r].pc = "lookup"
    <3>1. FindRecord(r)
      BY <2>1, <2>3, StepsHaveTheirPlace, WaitingHasBegun
         DEF Looked, InContext, Checked, DeadlockVictim
    <3>2. tx'[r].outcome \notin {"ok", tx[r].outcome}
      BY DEF Refused, Refusals
    <3>3. ~GoTo(r, "context")
      BY <3>2, <2>1, GoToStep DEF IInv, Steps
    <3>4. ~Replays(r, records[tx[r].key].execution)
      BY <3>2, <2>1 DEF Replays, Ends, IInv, TypeOK, Transactions
    <3> QED  BY <3>1, <3>3, <3>4 DEF FindRecord, HasExecution
  <2>4. CASE tx[r].pc \in {"unsent", "plan", "done"}
    <3>1. LockPlan(r)
      BY <2>1, <2>4, StepsHaveTheirPlace, NobodyWaitsForIt
         DEF Looked, InContext, Checked, DeadlockVictim
    <3>2. GoTo(r, "lookup")
      BY <3>1 DEF LockPlan
    <3>3. tx'[r].outcome = tx[r].outcome
      BY <3>2, GoToStep DEF IInv, Steps
    <3> QED  BY <3>3 DEF Refused, Refusals
  <2>5. tx[r].kind = "start"
    BY DEF Refused
  <2> QED  BY <2>1, <2>2, <2>3, <2>4, <2>5
           DEF IsStart, Transactions, Steps, Looked, InContext, Checked
<1> QED  BY <1>1, Invariance, PTL DEF Spec, PlannedRetryFindsItsExecution, FindsIt

-----------------------------------------------------------------------------
(* What a start knows of the executions it ends and continues.              *)

EndsOverdue(r) ==
  /\ tx[r].kind = "start" /\ tx[r].pc \in {"overdue", "completing"} => tx[r].seen \in overdue
  /\ tx[r].completed # None => tx[r].completed \in overdue
FollowsCompleted(r) ==
  IsStart(r) /\ From(r) # None /\ tx[r].pc \in Checked => rows[From(r)].state = "completed"

Knows(r) == EndsOverdue(r) /\ FollowsCompleted(r)
SInv == IInv /\ \A r \in Requests : Knows(r)

\* What a step leaves to a request that does not take it.
Leaves(q) ==
  /\ tx'[q] = tx[q]
  /\ overdue \subseteq overdue'
  /\ \A e \in DOMAIN rows :
       owner[Row(e)] = q /\ rows[e].state = "completed" => rows'[e].state = "completed"

\* A step of the service, or none.
Serves == Service!Next \/ UNCHANGED Service!serviceVars

-----------------------------------------------------------------------------
(* The mapping.                                                             *)

LEMMA FunctionsAreSequences ==
  ASSUME NEW S, NEW n \in Nat, NEW f \in [1..n -> S]
  PROVE  f \in Seq(S) /\ Len(f) = n
<1>1. f \in Seq(S)
  BY SeqDef
<1>2. Len(f) \in Nat /\ DOMAIN f = 1..Len(f) /\ DOMAIN f = 1..n
  BY <1>1
<1>3. Len(f) <= n
  <2>1. CASE Len(f) = 0
    BY <2>1
  <2>2. CASE Len(f) # 0
    BY <1>2, <2>2
  <2> QED  BY <2>1, <2>2
<1>4. n <= Len(f)
  <2>1. CASE n = 0
    BY <1>2, <2>1
  <2>2. CASE n # 0
    BY <1>2, <2>2
  <2> QED  BY <2>1, <2>2
<1> QED  BY <1>1, <1>2, <1>3, <1>4

Rows == [payload : Payloads, key : Keys, state : {"running", "completed", "deleted"}]

LEMMA Mapped ==
  ASSUME TypeOK
  PROVE  /\ DOMAIN Executions = DOMAIN rows
         /\ Executions \in Seq(Rows) /\ Len(Executions) = Len(rows)
         /\ \A e \in DOMAIN rows :
              /\ Executions[e].payload = rows[e].payload
              /\ Executions[e].key = rows[e].key
              /\ Executions[e].state = rows[e].state
              /\ Executions[e] = [payload |-> rows[e].payload, key |-> rows[e].key, state |-> rows[e].state]
<1>1. /\ DOMAIN rows = 1..Len(rows) /\ Len(rows) \in Nat
      /\ \A e \in DOMAIN rows : rows[e] \in Execs
  BY RowsAreIds
<1>2. DOMAIN Executions = DOMAIN rows
  BY DEF Executions
<1>3. \A e \in DOMAIN rows :
        Executions[e] = [payload |-> rows[e].payload, key |-> rows[e].key, state |-> rows[e].state]
  BY DEF Executions
<1>4. ASSUME NEW e \in DOMAIN rows
      PROVE  [payload |-> rows[e].payload, key |-> rows[e].key, state |-> rows[e].state] \in Rows
  <2>1. rows[e].payload \in Payloads /\ rows[e].key \in Keys /\ rows[e].state \in {"running", "completed", "deleted"}
    BY <1>1 DEF Execs
  <2> QED  BY <2>1 DEF Rows
<1>5. Executions \in [1..Len(rows) -> Rows]
  BY <1>1, <1>4 DEF Executions
<1>6. Executions \in Seq(Rows) /\ Len(Executions) = Len(rows)
  BY <1>1, <1>5, FunctionsAreSequences
<1> QED  BY <1>2, <1>3, <1>6

LEMMA SameOpen ==
  ASSUME TypeOK
  PROVE  /\ Service!Open = Open
         /\ \A e \in DOMAIN rows : Service!Present(e) <=> Present(e)
         /\ \A e \in DOMAIN rows : Service!Continued(e) <=> Successors(e) # {}
BY Mapped DEF Service!Open, Service!Present, Service!Continued, Open, Running, Present, Successors

LEMMA Unseen ==
  ASSUME UNCHANGED <<rows, records, closed, overdue>>, NEW r \in Requests,
         \A q \in Requests \ {r} : tx'[q] = tx[q],
         ~Started(r), ~Started(r)'
  PROVE  Serves
<1>1. \A q \in Requests : Started(q)' <=> Started(q)
  BY DEF Started
<1>2. Replies' = Replies
  BY <1>1 DEF Replies, Started
<1>3. Executions' = Executions
  BY DEF Executions
<1> QED  BY <1>2, <1>3 DEF Serves, Service!serviceVars

(* A start that ends with an answer tells it.                               *)
LEMMA Tells ==
  ASSUME IInv, NEW r \in Requests, IsStart(r), tx[r].pc # "done", NEW e \in Ids, Ends(r, "ok", e)
  PROVE  /\ tx[r].key \in Keys /\ tx[r].payload \in Payloads
         /\ Service!Answered(r) /\ Service!Tell(r, tx[r].key, tx[r].payload, e)
<1>1. TypeOK /\ Request(r) /\ tx[r].key \in Keys /\ tx[r].payload \in Payloads
  BY DEF IInv, Request, Sent
<1>2. e \in IdsOrNone /\ "ok" \in Outcomes
  BY DEF IdsOrNone, Outcomes
<1>3. Others(r) /\ Same(r) /\ tx'[r].outcome = "ok" /\ tx'[r].reply = e
  <2>1. Others(r) /\ Same(r)
    BY <1>1, <1>2, EndsStep
  <2>2. tx \in [Requests -> Transactions] /\ tx[r] \in Transactions
    BY <1>1 DEF TypeOK
  <2>3. tx'[r].outcome = "ok" /\ tx'[r].reply = e
    BY <2>2 DEF Ends, Transactions
  <2> QED  BY <2>1, <2>3
<1> DEFINE told == [key |-> tx[r].key, payload |-> tx[r].payload, execution |-> e]
<1>4. told # Unset
  BY <1>1, UnsetIsNoValue DEF Told
<1>5. ~Started(r) /\ Started(r)'
  BY <1>1, <1>3 DEF Started, IsStart, Same, Request, Sent
<1>6. Replies[r] = Unset /\ Replies'[r] = told
  BY <1>3, <1>5 DEF Replies, Same
<1>7. \A q \in Requests \ {r} : Replies'[q] = Replies[q]
  BY <1>3 DEF Replies, Started, Others
<1>8. /\ Replies = [q \in Requests |-> Replies[q]]
      /\ Replies' = [q \in Requests |-> Replies'[q]]
  BY DEF Replies
<1>9. Replies' = [Replies EXCEPT ![r] = told]
  BY <1>6, <1>7, <1>8
<1> QED  BY <1>1, <1>4, <1>6, <1>9 DEF Service!Answered, Service!Tell

(* An end with a refusal tells nothing.                                     *)
LEMMA RefusesServes ==
  ASSUME IInv, NEW r \in Requests, tx[r].pc # "done", NEW code \in Refusals, Refuses(r, code)
  PROVE  Serves
<1>1. TypeOK /\ Request(r) /\ code \in Outcomes /\ None \in IdsOrNone /\ code # "ok"
  BY DEF IInv, Outcomes, IdsOrNone, Refusals
<1>2. Others(r) /\ tx'[r].outcome = code
  BY <1>1, EndsStep DEF Refuses
<1>3. ~Started(r) /\ ~Started(r)'
  BY <1>1, <1>2 DEF Started, Request, Sent
<1> QED  BY <1>2, <1>3, Unseen DEF Refuses, Others

LEMMA ReplaysServes ==
  ASSUME IInv, NEW r \in Requests, IsStart(r), tx[r].pc # "done", HasExecution(r),
         Replays(r, records[tx[r].key].execution)
  PROVE  Serves
<1>1. PICK e : e = records[tx[r].key].execution
  OBVIOUS
<1>2. /\ TypeOK /\ Present(e) /\ e \in DOMAIN rows /\ e \in Ids
      /\ records[tx[r].key] # Unset /\ records[tx[r].key].payload = tx[r].payload
  BY <1>1, RowsAreIds DEF IInv, HasExecution, Present
<1>3. Ends(r, "ok", e) /\ UNCHANGED <<rows, records, closed, overdue>>
  BY <1>1 DEF Replays
<1>4. /\ tx[r].key \in Keys /\ tx[r].payload \in Payloads
      /\ Service!Answered(r) /\ Service!Tell(r, tx[r].key, tx[r].payload, e)
  BY <1>2, <1>3, Tells
<1>5. Service!Present(e) /\ UNCHANGED Executions
  BY <1>2, <1>3, SameOpen DEF Executions
<1>6. Service!Repeat(r, tx[r].key, tx[r].payload)
  BY <1>1, <1>2, <1>3, <1>4, <1>5 DEF Service!Repeat
<1> QED  BY <1>4, <1>6 DEF Serves, Service!Next

LEMMA AdoptServes ==
  ASSUME IInv, NEW r \in Requests, At(r, "predecessor"), From(r) # None,
         NEW s \in Successors(From(r)), Adopt(r, s)
  PROVE  Serves
<1>1. /\ TypeOK /\ Request(r) /\ IsStart(r) /\ tx[r].payload \in Payloads /\ tx[r].key \in Keys
      /\ tx[r].pc = "predecessor"
  BY StartsAreTyped DEF IInv, At
<1>2. s \in DOMAIN rows /\ rows[s].payload.from = From(r) /\ s \in Ids /\ Present(s)
  BY <1>1, RowsAreIds DEF Successors
<1>3. CASE \E code \in Refusals : Refuses(r, code)
  BY <1>1, <1>3, RefusesServes
<1>4. CASE /\ rows[s].payload.duration = tx[r].payload.duration /\ records[tx[r].key] = Unset
           /\ Answers(r, s) /\ records' = Recorded(r, s) /\ UNCHANGED <<rows, closed, overdue, planned>>
  <2>1. rows[s].payload = tx[r].payload
    <3>1. rows[s].payload \in Payloads
      BY <1>1, <1>2, RowsAreIds DEF Execs
    <3>2. rows[s].payload.context = tx[r].payload.context
      BY <1>1, <1>2 DEF IInv, Tables, Request, HoldsPredecessor
    <3>3. rows[s].payload.from = tx[r].payload.from
      BY <1>2 DEF From
    <3> QED  BY <1>1, <1>4, <3>1, <3>2, <3>3 DEF Payloads
  <2>2. Service!Answered(r) /\ Service!Tell(r, tx[r].key, tx[r].payload, s)
    BY <1>1, <1>2, <1>4, Tells DEF Answers
  <2>3. Service!Note(tx[r].key, tx[r].payload, s)
    BY <1>4 DEF Service!Note, Recorded
  <2>4. Service!Present(s) /\ Executions[s].payload = tx[r].payload /\ s \in DOMAIN Executions
    BY <1>1, <1>2, <2>1, SameOpen, Mapped
  <2>5. UNCHANGED Executions
    BY <1>4 DEF Executions
  <2>6. Service!Adopt(r, tx[r].key, tx[r].payload, s)
    BY <1>4, <2>2, <2>3, <2>4, <2>5 DEF Service!Adopt, From, None
  <2> QED  BY <1>1, <2>2, <2>4, <2>6 DEF Serves, Service!Next
<1> QED  BY <1>3, <1>4 DEF Adopt, Refusals

-----------------------------------------------------------------------------
(* A request advances, or finds its place taken.                            *)

(* Before it ends a request has told nothing.                               *)
LEMMA Underway ==
  ASSUME IInv, NEW r \in Requests, tx[r].pc # "done",
         UNCHANGED <<rows, records, closed, overdue>>,
         \A q \in Requests \ {r} : tx'[q] = tx[q], tx'[r].outcome = tx[r].outcome
  PROVE  Serves
<1>1. tx[r].outcome = "none"
  BY DEF IInv, Request, Sent
<1> QED  BY <1>1, Unseen DEF Started

LEMMA MovesOn ==
  ASSUME IInv, NEW r \in Requests, tx[r].pc # "done", NEW pc, GoTo(r, pc),
         UNCHANGED <<rows, records, closed, overdue>>
  PROVE  Serves
<1>1. tx \in [Requests -> Transactions] /\ tx[r] \in Transactions
  BY DEF IInv, TypeOK
<1>2. tx'[r].outcome = tx[r].outcome /\ \A q \in Requests \ {r} : tx'[q] = tx[q]
  BY <1>1 DEF GoTo, Transactions
<1> QED  BY <1>2, Underway

LEMMA ArriveServes ==
  ASSUME IInv, NEW r \in Requests, Arrive(r)
  PROVE  Serves
<1>1. tx \in [Requests -> Transactions] /\ tx[r] \in Transactions
  BY DEF IInv, TypeOK
<1>2. tx[r].pc # "done" /\ UNCHANGED <<rows, records, closed, overdue>>
  BY DEF Arrive, StartDirect, Continue, CompleteOrRead, At
<1>3. PICK t : tx' = [tx EXCEPT ![r] = t] /\ t.outcome = tx[r].outcome
  <2>1. ASSUME NEW k \in Keys, NEW c \in Contexts, NEW d \in Durations, StartDirect(r, k, c, d)
        PROVE  \E t : tx' = [tx EXCEPT ![r] = t] /\ t.outcome = tx[r].outcome
    <3> DEFINE t == [tx[r] EXCEPT !.pc = "plan", !.key = k,
                                  !.payload = [context |-> c, duration |-> d, from |-> None]]
    <3>1. tx' = [tx EXCEPT ![r] = t]
      BY <1>1, <2>1 DEF StartDirect
    <3>2. t.outcome = tx[r].outcome
      BY <1>1 DEF Transactions
    <3> HIDE DEF t
    <3> QED  BY <3>1, <3>2
  <2>2. ASSUME NEW k \in Keys, NEW e \in DOMAIN rows, NEW d \in Durations, Continue(r, k, e, d)
        PROVE  \E t : tx' = [tx EXCEPT ![r] = t] /\ t.outcome = tx[r].outcome
    <3> DEFINE t == [tx[r] EXCEPT !.pc = "plan", !.key = k,
                       !.payload = [context |-> rows[e].payload.context, duration |-> d, from |-> e],
                       !.expected = rows[e].version]
    <3>1. tx' = [tx EXCEPT ![r] = t]
      BY <1>1, <2>2 DEF Continue
    <3>2. t.outcome = tx[r].outcome
      BY <1>1 DEF Transactions
    <3> HIDE DEF t
    <3> QED  BY <3>1, <3>2
  <2>3. ASSUME NEW e \in DOMAIN rows, CompleteOrRead(r, e)
        PROVE  \E t : tx' = [tx EXCEPT ![r] = t] /\ t.outcome = tx[r].outcome
    <3> DEFINE t == [tx[r] EXCEPT !.pc = "overdue", !.kind = "complete", !.seen = e]
    <3>1. tx' = [tx EXCEPT ![r] = t]
      BY <1>1, <2>3 DEF CompleteOrRead
    <3>2. t.outcome = tx[r].outcome
      BY <1>1 DEF Transactions
    <3> HIDE DEF t
    <3> QED  BY <3>1, <3>2
  <2> QED  BY <2>1, <2>2, <2>3 DEF Arrive
<1>4. tx'[r].outcome = tx[r].outcome /\ \A q \in Requests \ {r} : tx'[q] = tx[q]
  BY <1>1, <1>3
<1> QED  BY <1>2, <1>4, Underway

LEMMA CompleteServes ==
  ASSUME IInv, NEW r \in Requests, At(r, "completing"), tx[r].kind = "complete",
         NEW e, e = tx[r].seen, Answers(r, e), rows' = Finish(e),
         UNCHANGED <<records, closed, overdue, planned>>
  PROVE  Serves
<1>1. TypeOK /\ Request(r) /\ e \in DOMAIN rows /\ e \in IdsOrNone /\ "ok" \in Outcomes
  BY RowsAreIds DEF IInv, Request, Sent, At, IdsOrNone, Outcomes
<1>2. Others(r) /\ Same(r)
  BY <1>1, EndsStep DEF Answers
<1>3. Replies' = Replies
  BY <1>2 DEF Replies, Started, Others, Same
<1>4. CASE Running(e)
  <2>1. rows[e].version = 1 /\ rows' = Completed(e)
    BY <1>1, <1>4 DEF IInv, Tables, Finish
  <2>2. /\ DOMAIN rows' = DOMAIN rows
        /\ \A x \in DOMAIN rows :
             /\ rows'[x].payload = rows[x].payload /\ rows'[x].key = rows[x].key
             /\ x # e => rows'[x] = rows[x]
        /\ rows'[e].state = "completed"
    BY <1>1, <2>1, CompletedRows
  <2>3. Executions' = Service!Ended({e})
    BY <2>2 DEF Executions, Service!Ended
  <2>4. e \in Service!Open /\ e \in DOMAIN Executions
    BY <1>1, <1>4, SameOpen, Mapped DEF Open
  <2>5. Service!Complete(e)
    BY <1>3, <2>3, <2>4 DEF Service!Complete
  <2> QED  BY <2>4, <2>5 DEF Serves, Service!Next
<1>5. CASE ~Running(e)
  BY <1>3, <1>5 DEF Finish, Executions, Serves, Service!serviceVars
<1> QED  BY <1>4, <1>5

LEMMA CommitServes ==
  ASSUME SInv, NEW r \in Requests, tx[r].pc = "record", records[tx[r].key] = Unset,
         NEW n, n = Len(rows) + 1,
         rows' = Append(Settled(r), NewExecution(r)), records' = Recorded(r, n),
         Answers(r, n), UNCHANGED <<closed, overdue, planned>>
  PROVE  Serves
<1>1. /\ IInv /\ TypeOK /\ Request(r) /\ Knows(r) /\ IsStart(r) /\ tx[r].inserted
      /\ tx[r].key \in Keys /\ tx[r].payload \in Payloads
  BY StartsAreTyped DEF SInv, IInv, Request, Sent
<1>2. /\ DOMAIN rows = 1..Len(rows) /\ Len(rows) \in Nat /\ n \in Ids
      /\ Open \subseteq {tx[r].completed} /\ n \notin DOMAIN rows
  BY <1>1, RowsAreIds, DirectBounds DEF Request, MayInsert, Ids
<1>3. Service!Open \subseteq overdue
  <2>1. \A e \in Open : e # None
    BY <1>1, RowsAreIds DEF Open
  <2> QED  BY <1>1, <1>2, <2>1, SameOpen DEF Knows, EndsOverdue
<1>4. tx[r].payload.context \notin closed
  BY <1>1 DEF Request, HoldsContext, InContext, Checked
<1>5. Service!MayFollow(tx[r].payload)
  <2>1. SUFFICES ASSUME From(r) # None
                 PROVE  /\ From(r) \in DOMAIN rows /\ rows[From(r)].state = "completed"
                        /\ Successors(From(r)) = {}
    BY <1>1, SameOpen, Mapped DEF Service!MayFollow, From, None
  <2> QED  BY <1>1, <2>1 DEF Request, HoldsPredecessor, Knows, FollowsCompleted, Checked
<1>6. Executions' = Append(Service!Ended(Service!Open), [payload |-> tx[r].payload, key |-> tx[r].key, state |-> "running"])
  <2> DEFINE new == [payload |-> tx[r].payload, key |-> tx[r].key, state |-> "running"]
             ended == Service!Ended(Service!Open)
  <2>1. PICK s : s = Settled(r)
    OBVIOUS
  <2>2. PICK row : row = NewExecution(r)
    OBVIOUS
  <2>3. /\ s \in Seq(Execs) /\ Len(s) = Len(rows)
        /\ \A x \in DOMAIN rows :
             /\ s[x].payload = rows[x].payload /\ s[x].key = rows[x].key
             /\ x # tx[r].completed => s[x] = rows[x]
        /\ tx[r].completed # None => s[tx[r].completed].state = "completed"
    BY <1>1, <2>1, SettledRows
  <2>4. row \in Execs /\ row.payload = tx[r].payload /\ row.key = tx[r].key /\ row.state = "running"
    BY <1>1, <2>2 DEF NewExecution, Execs
  <2>5. /\ DOMAIN rows' = DOMAIN rows \cup {n} /\ rows'[n] = row
        /\ \A x \in DOMAIN rows : rows'[x] = s[x]
    BY <1>2, <2>1, <2>2, <2>3, <2>4
  <2>6. \A x \in DOMAIN rows :
          rows'[x].state = IF x \in Open THEN "completed" ELSE rows[x].state
    <3> SUFFICES ASSUME NEW x \in DOMAIN rows
                 PROVE  rows'[x].state = IF x \in Open THEN "completed" ELSE rows[x].state
      OBVIOUS
    <3>1. CASE x = tx[r].completed
      BY <1>1, <2>3, <2>5, <3>1, RowsAreIds DEF Request, HoldsCompleted, Open
    <3>2. CASE x # tx[r].completed
      BY <1>2, <2>3, <2>5, <3>2
    <3> QED  BY <3>1, <3>2
  <2>7. /\ DOMAIN ended = DOMAIN rows
        /\ \A x \in DOMAIN rows :
             ended[x] = [payload |-> rows[x].payload, key |-> rows[x].key,
                         state |-> IF x \in Open THEN "completed" ELSE rows[x].state]
    BY <1>1, SameOpen, Mapped DEF Service!Ended
  <2> HIDE DEF ended
  <2>8. ended \in [1..Len(rows) -> Rows]
    <3>1. ASSUME NEW x \in DOMAIN rows  PROVE  ended[x] \in Rows
      <4>1. rows[x].payload \in Payloads /\ rows[x].key \in Keys /\ rows[x].state \in {"running", "completed", "deleted"}
        BY <1>1, RowsAreIds DEF Execs
      <4> QED  BY <2>7, <4>1 DEF Rows
    <3>2. ended = [x \in DOMAIN ended |-> ended[x]]
      BY DEF ended, Service!Ended
    <3> QED  BY <1>2, <2>7, <3>1, <3>2
  <2>9. ended \in Seq(Rows) /\ Len(ended) = Len(rows)
    BY <1>2, <2>8, FunctionsAreSequences
  <2>10. /\ DOMAIN Append(ended, new) = 1..n
         /\ \A x \in DOMAIN rows : Append(ended, new)[x] = ended[x]
         /\ Append(ended, new)[n] = new
    BY <1>2, <2>9
  <2>11. Append(ended, new) = [x \in 1..n |-> Append(ended, new)[x]]
    <3>1. new \in Rows
      BY <1>1 DEF Rows
    <3>2. Append(ended, new) \in Seq(Rows)
      BY <2>9, <3>1
    <3> QED  BY <2>10, <3>2
  <2>12. Executions' = [x \in 1..n |-> [payload |-> rows'[x].payload, key |-> rows'[x].key,
                                        state |-> rows'[x].state]]
    BY <1>2, <2>5 DEF Executions
  <2>13. \A x \in 1..n : [payload |-> rows'[x].payload, key |-> rows'[x].key, state |-> rows'[x].state]
                          = Append(ended, new)[x]
    <3>1. ASSUME NEW x \in DOMAIN rows
          PROVE  [payload |-> rows'[x].payload, key |-> rows'[x].key, state |-> rows'[x].state]
                   = Append(ended, new)[x]
      BY <2>3, <2>5, <2>6, <2>7, <2>10
    <3>2. [payload |-> rows'[n].payload, key |-> rows'[n].key, state |-> rows'[n].state] = new
      BY <2>4, <2>5
    <3>3. 1..n = DOMAIN rows \cup {n}
      BY <1>2
    <3> QED  BY <2>10, <3>1, <3>2, <3>3
  <2> QED  BY <2>11, <2>12, <2>13 DEF ended
<1>7. Service!Note(tx[r].key, tx[r].payload, n)
  BY DEF Service!Note, Recorded
<1>8. Service!Answered(r) /\ Service!Tell(r, tx[r].key, tx[r].payload, n)
  BY <1>1, <1>2, Tells DEF Answers
<1>9. n = Len(Executions) + 1
  BY <1>1, Mapped
<1>10. Service!Start(r, tx[r].key, tx[r].payload)
  BY <1>3, <1>4, <1>5, <1>6, <1>7, <1>8, <1>9 DEF Service!Start
<1> QED  BY <1>1, <1>8, <1>10 DEF Serves, Service!Next

-----------------------------------------------------------------------------
(* Every step is one of the service or none.                                *)

LEMMA ProceedServes ==
  ASSUME SInv, NEW r \in Requests, Proceed(r)
  PROVE  Serves
<1>1. IInv /\ Request(r)
  BY DEF SInv, IInv
<1>2. ASSUME LockPlan(r) PROVE Serves
  BY <1>1, <1>2, MovesOn DEF LockPlan, At
<1>3. ASSUME FindRecord(r) PROVE Serves
  <2>1. tx[r].pc = "lookup" /\ IsStart(r)
    BY <1>1, <1>3, StartsAreTyped DEF FindRecord, At
  <2> QED  BY <1>1, <1>3, <2>1, MovesOn, RefusesServes, ReplaysServes DEF FindRecord, Refusals
<1>4. ASSUME LockContext(r) PROVE Serves
  BY <1>1, <1>4, MovesOn, RefusesServes DEF LockContext, Refusals, At
<1>5. ASSUME CheckPredecessor(r) PROVE Serves
  <2>1. PICK e : e = tx[r].payload.from
    OBVIOUS
  <2>2. At(r, "predecessor") /\ tx[r].pc # "done"
    BY <1>5 DEF CheckPredecessor, At
  <2>3. CASE \E code \in Refusals : Refuses(r, code)
    BY <1>1, <2>2, <2>3, RefusesServes
  <2>4. CASE GoTo(r, "active") /\ UNCHANGED <<rows, records, closed, overdue, planned>>
    BY <1>1, <2>2, <2>4, MovesOn
  <2>5. ASSUME NEW s \in Successors(e), Present(e), Adopt(r, s) PROVE Serves
    <3>1. e # None
      BY <1>1, <2>5, RowsAreIds DEF Present, IInv
    <3> QED  BY <1>1, <2>1, <2>2, <2>5, <3>1, AdoptServes DEF From
  <2> QED  BY <1>5, <2>1, <2>3, <2>4, <2>5 DEF CheckPredecessor, Refusals
<1>6. ASSUME ReadActive(r) PROVE Serves
  <2>1. tx[r].pc = "active"
    BY <1>6 DEF ReadActive, At
  <2>2. ASSUME NEW e, tx' = [tx EXCEPT ![r].pc = "overdue", ![r].seen = e],
               UNCHANGED <<rows, records, closed, overdue, planned, owner>>
        PROVE  Serves
    <3> DEFINE t == [tx[r] EXCEPT !.pc = "overdue", !.seen = e]
    <3>1. tx \in [Requests -> Transactions] /\ tx[r] \in Transactions /\ tx' = [tx EXCEPT ![r] = t]
      BY <1>1, <2>2 DEF IInv, TypeOK
    <3>2. t.outcome = tx[r].outcome
      BY <3>1 DEF Transactions
    <3> HIDE DEF t
    <3>3. tx'[r].outcome = tx[r].outcome /\ \A q \in Requests \ {r} : tx'[q] = tx[q]
      BY <3>1, <3>2
    <3> QED  BY <1>1, <2>1, <2>2, <3>3, Underway
  <2> QED  BY <1>1, <1>6, <2>1, <2>2, MovesOn, RefusesServes DEF ReadActive, Refusals
<1>7. ASSUME LockExecution(r) PROVE Serves
  BY <1>1, <1>7, MovesOn, RefusesServes DEF LockExecution, Refusals, At
<1>8. ASSUME CompleteSchedule(r) PROVE Serves
  <2>1. tx[r].pc = "completing" /\ At(r, "completing")
    BY <1>8 DEF CompleteSchedule, At
  <2>2. PICK e, c : e = tx[r].seen /\ c = rows[e].payload.context
    OBVIOUS
  <2>3. ASSUME tx[r].kind = "start" PROVE Serves
    <3> DEFINE done == IF Running(e) THEN e ELSE None
               t == [tx[r] EXCEPT !.pc = "insert", !.completed = done]
    <3>1. /\ UNCHANGED <<rows, records, closed, overdue, planned>>
          /\ tx' = [tx EXCEPT ![r].pc = "insert", ![r].completed = done]
      BY <1>8, <2>2, <2>3 DEF CompleteSchedule
    <3> HIDE DEF done
    <3>2. tx \in [Requests -> Transactions] /\ tx[r] \in Transactions /\ tx' = [tx EXCEPT ![r] = t]
      BY <1>1, <3>1 DEF IInv, TypeOK
    <3>3. t.outcome = tx[r].outcome
      BY <3>2 DEF Transactions
    <3> HIDE DEF t
    <3>4. tx'[r].outcome = tx[r].outcome /\ \A q \in Requests \ {r} : tx'[q] = tx[q]
      BY <3>2, <3>3
    <3> QED  BY <1>1, <2>1, <3>1, <3>4, Underway
  <2> QED  BY <1>1, <1>8, <2>1, <2>2, <2>3, CompleteServes DEF CompleteSchedule
<1>9. ASSUME Insert(r) PROVE Serves
  <2>1. tx[r].pc = "insert" /\ UNCHANGED <<rows, records, closed, overdue, planned, owner>>
    BY <1>9 DEF Insert, At
  <2>2. ASSUME tx' = [tx EXCEPT ![r].pc = "record", ![r].inserted = TRUE] PROVE Serves
    <3> DEFINE t == [tx[r] EXCEPT !.pc = "record", !.inserted = TRUE]
    <3>1. tx \in [Requests -> Transactions] /\ tx[r] \in Transactions /\ tx' = [tx EXCEPT ![r] = t]
      BY <1>1, <2>2 DEF IInv, TypeOK
    <3>2. t.outcome = tx[r].outcome
      BY <3>1 DEF Transactions
    <3> HIDE DEF t
    <3>3. tx'[r].outcome = tx[r].outcome /\ \A q \in Requests \ {r} : tx'[q] = tx[q]
      BY <3>1, <3>2
    <3> QED  BY <1>1, <2>1, <3>3, Underway
  <2> QED  BY <1>1, <1>9, <2>1, <2>2, MovesOn DEF Insert
<1>10. ASSUME Fallback(r) PROVE Serves
  <2>1. tx[r].pc = "fallback" /\ IsStart(r)
    BY <1>1, <1>10, StartsAreTyped DEF Fallback, At
  <2>2. tx[r].payload.from # None => Successors(tx[r].payload.from) = {}
    BY <1>1, <2>1 DEF Request, HoldsPredecessor, Checked, From
  <2> QED  BY <1>1, <1>10, <2>1, <2>2, RefusesServes, ReplaysServes DEF Fallback, Refusals
<1>11. ASSUME CommitStart(r) PROVE Serves
  BY <1>1, <1>11, RefusesServes, CommitServes DEF CommitStart, Refusals, At
<1>12. ASSUME DeadlockVictim(r) PROVE Serves
  BY <1>1, <1>12, WaitingHasBegun, RefusesServes DEF DeadlockVictim, Refusals
<1> QED  BY <1>2, <1>3, <1>4, <1>5, <1>6, <1>7, <1>8, <1>9, <1>10, <1>11, <1>12 DEF Proceed

LEMMA AroundServes ==
  ASSUME IInv, tx' = tx
  PROVE  /\ \A e \in DOMAIN rows : Elapse(e) \/ DeleteExecution(e) => Serves
         /\ \A c \in Contexts : CloseContext(c) => Serves
<1>1. TypeOK /\ Replies' = Replies
  BY DEF IInv, Replies, Started
<1>2. ASSUME NEW e \in DOMAIN rows, Elapse(e) PROVE Serves
  <2>1. Service!FallDue(e)
    BY <1>1, <1>2, SameOpen DEF Elapse, Service!FallDue, Open, Executions
  <2> QED  BY <1>1, <2>1, Mapped DEF Serves, Service!Next
<1>3. ASSUME NEW e \in DOMAIN rows, DeleteExecution(e) PROVE Serves
  <2>1. rows' = [rows EXCEPT ![e].state = "deleted"]
    BY <1>3 DEF DeleteExecution
  <2>2. /\ DOMAIN rows' = DOMAIN rows
        /\ \A x \in DOMAIN rows :
             /\ rows'[x].payload = rows[x].payload /\ rows'[x].key = rows[x].key
             /\ rows'[x].state = IF x = e THEN "deleted" ELSE rows[x].state
    <3>1. \A x \in DOMAIN rows : rows[x] \in Execs
      BY <1>1, RowsAreIds
    <3> QED  BY <2>1, <3>1 DEF Execs
  <2>3. Executions' = [Executions EXCEPT ![e].state = "deleted"]
    BY <2>2 DEF Executions
  <2>4. Service!Delete(e)
    BY <1>1, <1>3, <2>3, SameOpen DEF DeleteExecution, Service!Delete
  <2> QED  BY <1>1, <2>4, Mapped DEF Serves, Service!Next
<1>4. ASSUME NEW c \in Contexts, CloseContext(c) PROVE Serves
  <2>1. Service!Close(c)
    BY <1>1, <1>4 DEF CloseContext, Service!Close, Executions
  <2> QED  BY <2>1 DEF Serves, Service!Next
<1> QED  BY <1>2, <1>3, <1>4

-----------------------------------------------------------------------------
(* What a start knows stays true.                                           *)

LEMMA LeavesKnows ==
  ASSUME IInv, NEW q \in Requests, Knows(q), Leaves(q)
  PROVE  Knows(q)'
<1>1. EndsOverdue(q)'
  BY DEF Leaves, EndsOverdue, Knows
<1>2. FollowsCompleted(q)'
  <2>1. SUFFICES ASSUME IsStart(q), From(q) # None, tx[q].pc \in Checked
                 PROVE  rows'[From(q)].state = "completed"
    BY DEF FollowsCompleted, IsStart, From, Leaves
  <2>2. From(q) \in DOMAIN rows /\ owner[Row(From(q))] = q
    BY <2>1 DEF IInv, Request, HoldsPredecessor
  <2> QED  BY <2>1, <2>2 DEF Leaves, Knows, FollowsCompleted
<1> QED  BY <1>1, <1>2 DEF Knows

LEMMA EndedKnows ==
  ASSUME IInv, NEW r \in Requests, NEW outcome \in Outcomes, NEW e \in IdsOrNone, Ends(r, outcome, e)
  PROVE  Knows(r)' /\ \A q \in Requests \ {r} : tx'[q] = tx[q]
<1>1. Others(r) /\ tx'[r].pc = "done" /\ tx'[r].completed = None
  BY EndsStep DEF IInv
<1> QED  BY <1>1 DEF Knows, EndsOverdue, FollowsCompleted, Checked, Others

(* A step of r that leaves the tables, or adds to them.                     *)
LEMMA KeepsSInv ==
  ASSUME SInv, IInv', NEW r \in Requests, Knows(r)', \A q \in Requests \ {r} : tx'[q] = tx[q],
         UNCHANGED <<rows, overdue>>
  PROVE  SInv'
<1>1. \A q \in Requests \ {r} : Leaves(q)
  BY DEF Leaves
<1> QED  BY <1>1, LeavesKnows DEF SInv

LEMMA RefusalKeepsSInv ==
  ASSUME SInv, IInv', NEW r \in Requests, NEW code \in Refusals, Refuses(r, code)
  PROVE  SInv'
<1>1. code \in Outcomes /\ None \in IdsOrNone
  BY DEF Outcomes, IdsOrNone
<1> QED  BY <1>1, EndedKnows, KeepsSInv DEF SInv, Refuses

LEMMA ReplayKeepsSInv ==
  ASSUME SInv, IInv', NEW r \in Requests, NEW e \in IdsOrNone, Ends(r, "ok", e),
         UNCHANGED <<rows, overdue>>
  PROVE  SInv'
<1>1. "ok" \in Outcomes
  BY DEF Outcomes
<1> QED  BY <1>1, EndedKnows, KeepsSInv DEF SInv

\* What r has to know at its next step.
Learns(r, t) ==
  /\ t.kind = "start" /\ t.pc \in {"overdue", "completing"} => t.seen \in overdue
  /\ t.completed # None => t.completed \in overdue
  /\ t.kind = "start" /\ t.payload.from # None /\ t.pc \in Checked =>
       rows[t.payload.from].state = "completed"

LEMMA MoveKeepsSInv ==
  ASSUME SInv, IInv', NEW r \in Requests, NEW t, tx' = [tx EXCEPT ![r] = t], Learns(r, t),
         UNCHANGED <<rows, overdue>>
  PROVE  SInv'
<1>1. tx'[r] = t /\ \A q \in Requests \ {r} : tx'[q] = tx[q]
  BY DEF SInv, IInv, TypeOK
<1>2. Knows(r)'
  BY <1>1 DEF Knows, EndsOverdue, FollowsCompleted, Learns, IsStart, From
<1> QED  BY <1>1, <1>2, KeepsSInv

LEMMA GoToKeepsSInv ==
  ASSUME SInv, IInv', NEW r \in Requests, NEW pc, GoTo(r, pc), tx[r].pc # "unsent",
         tx[r].kind = "start" /\ pc \in {"overdue", "completing"} => tx[r].seen \in overdue,
         tx[r].kind = "start" /\ From(r) # None /\ pc \in Checked => rows[From(r)].state = "completed",
         UNCHANGED <<rows, overdue>>
  PROVE  SInv'
<1> DEFINE t == [tx[r] EXCEPT !.pc = pc]
<1>1. tx \in [Requests -> Transactions] /\ tx[r] \in Transactions /\ Knows(r)
  BY DEF SInv, IInv, TypeOK
<1>2. tx' = [tx EXCEPT ![r] = t]
  BY <1>1 DEF GoTo
<1>3. /\ t.kind = tx[r].kind /\ t.pc = pc /\ t.seen = tx[r].seen
      /\ t.completed = tx[r].completed /\ t.payload = tx[r].payload
  BY <1>1 DEF Transactions
<1> HIDE DEF t
<1>4. Learns(r, t)
  BY <1>1, <1>3 DEF Learns, Knows, EndsOverdue, From
<1> QED  BY <1>2, <1>4, MoveKeepsSInv

LEMMA ArriveKeepsSInv ==
  ASSUME SInv, IInv', NEW r \in Requests, Arrive(r)
  PROVE  SInv'
<1>1. /\ tx \in [Requests -> Transactions] /\ tx[r] \in Transactions /\ tx[r].pc = "unsent"
      /\ UNCHANGED <<rows, overdue>>
  BY DEF SInv, IInv, TypeOK, Arrive, StartDirect, Continue, CompleteOrRead, At
<1>2. tx[r].completed = None
  BY <1>1 DEF SInv, IInv, Request, Sent
<1>3. ASSUME NEW k \in Keys, NEW c \in Contexts, NEW d \in Durations, StartDirect(r, k, c, d)
      PROVE  SInv'
  <2> DEFINE t == [tx[r] EXCEPT !.pc = "plan", !.key = k,
                                !.payload = [context |-> c, duration |-> d, from |-> None]]
  <2>1. tx' = [tx EXCEPT ![r] = t]
    BY <1>1, <1>3 DEF StartDirect
  <2>2. t.pc = "plan" /\ t.completed = None
    BY <1>1, <1>2 DEF Transactions
  <2> HIDE DEF t
  <2> QED  BY <1>1, <2>1, <2>2, MoveKeepsSInv DEF Learns, Checked
<1>4. ASSUME NEW k \in Keys, NEW e \in DOMAIN rows, NEW d \in Durations, Continue(r, k, e, d)
      PROVE  SInv'
  <2> DEFINE t == [tx[r] EXCEPT !.pc = "plan", !.key = k,
                     !.payload = [context |-> rows[e].payload.context, duration |-> d, from |-> e],
                     !.expected = rows[e].version]
  <2>1. tx' = [tx EXCEPT ![r] = t]
    BY <1>1, <1>4 DEF Continue
  <2>2. t.pc = "plan" /\ t.completed = None
    BY <1>1, <1>2 DEF Transactions
  <2> HIDE DEF t
  <2> QED  BY <1>1, <2>1, <2>2, MoveKeepsSInv DEF Learns, Checked
<1>5. ASSUME NEW e \in DOMAIN rows, CompleteOrRead(r, e)
      PROVE  SInv'
  <2> DEFINE t == [tx[r] EXCEPT !.pc = "overdue", !.kind = "complete", !.seen = e]
  <2>1. tx' = [tx EXCEPT ![r] = t]
    BY <1>1, <1>5 DEF CompleteOrRead
  <2>2. t.kind = "complete" /\ t.completed = None
    BY <1>1, <1>2 DEF Transactions
  <2> HIDE DEF t
  <2> QED  BY <1>1, <2>1, <2>2, MoveKeepsSInv DEF Learns
<1> QED  BY <1>3, <1>4, <1>5 DEF Arrive

(* A row that changes is one the request that changes it has locked.        *)
LEMMA CompleteKeepsSInv ==
  ASSUME SInv, IInv', NEW r \in Requests, At(r, "completing"),
         NEW e, e = tx[r].seen, Answers(r, e), rows' = Finish(e), UNCHANGED overdue
  PROVE  SInv'
<1>1. /\ IInv /\ TypeOK /\ Request(r) /\ e \in DOMAIN rows /\ e \in IdsOrNone /\ "ok" \in Outcomes
  BY RowsAreIds DEF SInv, IInv, Request, Sent, At, IdsOrNone, Outcomes
<1>2. Knows(r)' /\ \A q \in Requests \ {r} : tx'[q] = tx[q]
  BY <1>1, EndedKnows DEF Answers
<1>3. \A x \in DOMAIN rows : rows[x].state = "completed" => rows'[x].state = "completed"
  <2>1. CASE Running(e)
    <3>1. rows[e].version = 1 /\ rows' = Completed(e)
      BY <1>1, <2>1 DEF IInv, Tables, Finish
    <3> QED  BY <1>1, <3>1, CompletedRows
  <2>2. CASE ~Running(e)
    BY <2>2 DEF Finish
  <2> QED  BY <2>1, <2>2
<1>4. \A q \in Requests \ {r} : Leaves(q)
  BY <1>2, <1>3 DEF Leaves
<1> QED  BY <1>2, <1>4, LeavesKnows DEF SInv

LEMMA CommitKeepsSInv ==
  ASSUME SInv, IInv', NEW r \in Requests, tx[r].pc = "record",
         NEW n, n = Len(rows) + 1,
         rows' = Append(Settled(r), NewExecution(r)), Answers(r, n), UNCHANGED overdue
  PROVE  SInv'
<1>1. /\ IInv /\ TypeOK /\ Request(r) /\ n \in IdsOrNone /\ "ok" \in Outcomes
      /\ tx[r].key \in Keys /\ tx[r].payload \in Payloads
      /\ DOMAIN rows = 1..Len(rows) /\ Len(rows) \in Nat
  <2>1. /\ IInv /\ TypeOK /\ Request(r) /\ tx[r].key \in Keys /\ tx[r].payload \in Payloads
        /\ tx[r].inserted
    BY StartsAreTyped DEF SInv, IInv, Request, Sent
  <2>2. Len(rows) < MaxRows /\ DOMAIN rows = 1..Len(rows) /\ Len(rows) \in Nat
    BY <2>1, RowsAreIds DEF Request, MayInsert
  <2> QED  BY <2>1, <2>2, DirectBounds DEF IdsOrNone, Ids, Outcomes
<1>2. Knows(r)' /\ \A q \in Requests \ {r} : tx'[q] = tx[q]
  BY <1>1, EndedKnows DEF Answers
<1>3. \A x \in DOMAIN rows : rows[x].state = "completed" => rows'[x].state = "completed"
  <2>1. PICK s : s = Settled(r)
    OBVIOUS
  <2>2. PICK row : row = NewExecution(r)
    OBVIOUS
  <2>3. /\ s \in Seq(Execs) /\ Len(s) = Len(rows)
        /\ \A x \in DOMAIN rows : x # tx[r].completed => s[x] = rows[x]
        /\ tx[r].completed # None => s[tx[r].completed].state = "completed"
    BY <1>1, <2>1, SettledRows
  <2>4. row \in Execs
    BY <1>1, <2>2 DEF NewExecution, Execs
  <2>5. \A x \in DOMAIN rows : rows'[x] = s[x]
    BY <1>1, <2>1, <2>2, <2>3, <2>4
  <2> QED  BY <1>1, <2>3, <2>5, RowsAreIds
<1>4. \A q \in Requests \ {r} : Leaves(q)
  BY <1>2, <1>3 DEF Leaves
<1> QED  BY <1>2, <1>4, LeavesKnows DEF SInv

LEMMA ProceedKeepsSInv ==
  ASSUME SInv, IInv', NEW r \in Requests, Proceed(r)
  PROVE  SInv'
<1>1. IInv /\ TypeOK /\ Request(r) /\ Knows(r) /\ tx \in [Requests -> Transactions] /\ tx[r] \in Transactions
  BY DEF SInv, IInv, TypeOK
<1>2. ASSUME LockPlan(r) PROVE SInv'
  BY <1>2, GoToKeepsSInv DEF LockPlan, At, Checked
<1>3. ASSUME FindRecord(r) PROVE SInv'
  <2>1. tx[r].pc = "lookup" /\ IsStart(r)
    BY <1>1, <1>3, StartsAreTyped DEF FindRecord, At
  <2>2. CASE GoTo(r, "context") /\ UNCHANGED <<rows, records, closed, overdue, planned, owner>>
    BY <2>1, <2>2, GoToKeepsSInv DEF Checked
  <2>3. CASE \E code \in Refusals : Refuses(r, code)
    BY <2>3, RefusalKeepsSInv
  <2>4. CASE HasExecution(r) /\ Replays(r, records[tx[r].key].execution)
    <3>1. PICK e : e = records[tx[r].key].execution
      OBVIOUS
    <3>2. e \in IdsOrNone
      BY <1>1, <2>4, <3>1, RowsAreIds DEF HasExecution, Present, IdsOrNone
    <3> QED  BY <2>4, <3>1, <3>2, ReplayKeepsSInv DEF Replays
  <2> QED  BY <1>3, <2>2, <2>3, <2>4 DEF FindRecord, Refusals
<1>4. ASSUME LockContext(r) PROVE SInv'
  <2>1. PICK pc : pc = IF tx[r].payload.from = None THEN "active" ELSE "predecessor"
    OBVIOUS
  <2>2. tx[r].pc = "context" /\ (From(r) # None => pc \notin Checked) /\ pc \notin {"overdue", "completing"}
    BY <1>4, <2>1 DEF LockContext, At, From, Checked
  <2>3. CASE GoTo(r, pc) /\ UNCHANGED <<rows, records, closed, overdue, planned>>
    BY <2>2, <2>3, GoToKeepsSInv
  <2> QED  BY <1>4, <2>1, <2>3, RefusalKeepsSInv DEF LockContext, Refusals
<1>5. ASSUME CheckPredecessor(r) PROVE SInv'
  <2>1. PICK e : e = From(r)
    OBVIOUS
  <2>2. tx[r].pc = "predecessor"
    BY <1>5 DEF CheckPredecessor, At
  <2>3. CASE \E code \in Refusals : Refuses(r, code)
    BY <2>3, RefusalKeepsSInv
  <2>4. CASE Follows(r, e) /\ GoTo(r, "active") /\ UNCHANGED <<rows, records, closed, overdue, planned>>
    BY <2>1, <2>2, <2>4, GoToKeepsSInv DEF Follows
  <2>5. ASSUME NEW s \in Successors(e), Answers(r, s), UNCHANGED <<rows, overdue>> PROVE SInv'
    <3>1. s \in IdsOrNone
      BY <1>1, RowsAreIds DEF Successors, IdsOrNone
    <3> QED  BY <2>5, <3>1, ReplayKeepsSInv DEF Answers
  <2> QED  BY <1>5, <2>1, <2>3, <2>4, <2>5 DEF CheckPredecessor, Adopt, Refusals, From
<1>6. ASSUME ReadActive(r) PROVE SInv'
  <2>1. tx[r].pc = "active" /\ IsStart(r) /\ tx[r].completed = None
    BY <1>1, <1>6, StartsAreTyped DEF ReadActive, At, Request, Sent
  <2>2. From(r) # None => rows[From(r)].state = "completed"
    BY <1>1, <2>1 DEF Knows, FollowsCompleted, Checked
  <2>3. CASE GoTo(r, "insert") /\ UNCHANGED <<rows, records, closed, overdue, planned, owner>>
    BY <2>1, <2>2, <2>3, GoToKeepsSInv
  <2>4. ASSUME NEW e \in Open \cap overdue, tx' = [tx EXCEPT ![r].pc = "overdue", ![r].seen = e],
               UNCHANGED <<rows, records, closed, overdue, planned, owner>>
        PROVE  SInv'
    <3> DEFINE t == [tx[r] EXCEPT !.pc = "overdue", !.seen = e]
    <3>1. tx' = [tx EXCEPT ![r] = t]
      BY <1>1, <2>4
    <3>2. t.seen = e /\ t.completed = None /\ t.payload = tx[r].payload
      BY <1>1, <2>1 DEF Transactions
    <3> HIDE DEF t
    <3>3. Learns(r, t)
      BY <2>2, <2>4, <3>2 DEF Learns, From
    <3> QED  BY <2>4, <3>1, <3>3, MoveKeepsSInv
  <2> QED  BY <1>6, <2>3, <2>4, RefusalKeepsSInv DEF ReadActive, Refusals
<1>7. ASSUME LockExecution(r) PROVE SInv'
  <2>1. tx[r].pc = "overdue"
    BY <1>7 DEF LockExecution, At
  <2>2. CASE GoTo(r, "completing") /\ UNCHANGED <<rows, records, closed, overdue, planned>>
    <3>1. tx[r].kind = "start" => tx[r].seen \in overdue
      BY <1>1, <2>1 DEF Knows, EndsOverdue
    <3>2. tx[r].kind = "start" /\ From(r) # None => rows[From(r)].state = "completed"
      BY <1>1, <2>1 DEF Knows, FollowsCompleted, IsStart, Checked
    <3> QED  BY <2>1, <2>2, <3>1, <3>2, GoToKeepsSInv
  <2> QED  BY <1>7, <2>2, RefusalKeepsSInv DEF LockExecution, Refusals
<1>8. ASSUME CompleteSchedule(r) PROVE SInv'
  <2>1. tx[r].pc = "completing" /\ At(r, "completing")
    BY <1>8 DEF CompleteSchedule, At
  <2>2. PICK e, c : e = tx[r].seen /\ c = rows[e].payload.context
    OBVIOUS
  <2>3. ASSUME tx[r].kind = "start" PROVE SInv'
    <3> DEFINE done == IF Running(e) THEN e ELSE None
               t == [tx[r] EXCEPT !.pc = "insert", !.completed = done]
    <3>1. /\ UNCHANGED <<rows, records, closed, overdue, planned>>
          /\ tx' = [tx EXCEPT ![r].pc = "insert", ![r].completed = done]
      BY <1>8, <2>2, <2>3 DEF CompleteSchedule
    <3>2. done # None => done \in overdue
      BY <1>1, <2>1, <2>2, <2>3 DEF Knows, EndsOverdue
    <3> HIDE DEF done
    <3>3. tx' = [tx EXCEPT ![r] = t]
      BY <1>1, <3>1
    <3>4. t.pc = "insert" /\ t.completed = done /\ t.payload = tx[r].payload
      BY <1>1 DEF Transactions
    <3> HIDE DEF t
    <3>5. From(r) # None => rows[From(r)].state = "completed"
      BY <1>1, <2>1, <2>3 DEF Knows, FollowsCompleted, IsStart, Checked
    <3>6. Learns(r, t)
      BY <3>2, <3>4, <3>5 DEF Learns, From
    <3> QED  BY <3>1, <3>3, <3>6, MoveKeepsSInv
  <2> QED  BY <1>8, <2>1, <2>2, <2>3, CompleteKeepsSInv DEF CompleteSchedule
<1>9. ASSUME Insert(r) PROVE SInv'
  <2>1. tx[r].pc = "insert" /\ IsStart(r) /\ UNCHANGED <<rows, records, closed, overdue, planned, owner>>
    BY <1>1, <1>9, StartsAreTyped DEF Insert, At
  <2>2. From(r) # None => rows[From(r)].state = "completed"
    BY <1>1, <2>1 DEF Knows, FollowsCompleted, Checked
  <2>3. ASSUME tx' = [tx EXCEPT ![r].pc = "record", ![r].inserted = TRUE] PROVE SInv'
    <3> DEFINE t == [tx[r] EXCEPT !.pc = "record", !.inserted = TRUE]
    <3>1. tx' = [tx EXCEPT ![r] = t]
      BY <1>1, <2>3
    <3>2. t.pc = "record" /\ t.completed = tx[r].completed /\ t.payload = tx[r].payload
      BY <1>1 DEF Transactions
    <3> HIDE DEF t
    <3>3. Learns(r, t)
      BY <1>1, <2>2, <3>2 DEF Learns, From, Knows, EndsOverdue
    <3> QED  BY <2>1, <3>1, <3>3, MoveKeepsSInv
  <2>4. CASE GoTo(r, "fallback")
    BY <2>1, <2>2, <2>4, GoToKeepsSInv
  <2> QED  BY <1>9, <2>3, <2>4 DEF Insert
<1>10. ASSUME Fallback(r) PROVE SInv'
  <2>1. tx[r].pc = "fallback" /\ IsStart(r)
    BY <1>1, <1>10, StartsAreTyped DEF Fallback, At
  <2>2. tx[r].payload.from # None => Successors(tx[r].payload.from) = {}
    BY <1>1, <2>1 DEF Request, HoldsPredecessor, Checked, From
  <2>3. CASE HasExecution(r) /\ Replays(r, records[tx[r].key].execution)
    <3>1. PICK e : e = records[tx[r].key].execution
      OBVIOUS
    <3>2. e \in IdsOrNone
      BY <1>1, <2>3, <3>1, RowsAreIds DEF HasExecution, Present, IdsOrNone
    <3> QED  BY <2>3, <3>1, <3>2, ReplayKeepsSInv DEF Replays
  <2> QED  BY <1>10, <2>2, <2>3, RefusalKeepsSInv DEF Fallback, Refusals
<1>11. ASSUME CommitStart(r) PROVE SInv'
  BY <1>11, RefusalKeepsSInv, CommitKeepsSInv DEF CommitStart, Refusals, At
<1>12. ASSUME DeadlockVictim(r) PROVE SInv'
  BY <1>12, RefusalKeepsSInv DEF DeadlockVictim, Refusals
<1> QED  BY <1>2, <1>3, <1>4, <1>5, <1>6, <1>7, <1>8, <1>9, <1>10, <1>11, <1>12 DEF Proceed

(* Nothing but a deletion takes the state of an execution back, and it waits *)
(* for the lock of the row.                                                 *)
LEMMA AroundKeepsSInv ==
  ASSUME SInv, IInv', tx' = tx,
         \/ UNCHANGED vars
         \/ \E e \in DOMAIN rows : Elapse(e) \/ DeleteExecution(e)
         \/ \E c \in Contexts : CloseContext(c)
  PROVE  SInv'
<1>1. overdue \subseteq overdue'
  BY DEF vars, Elapse, DeleteExecution, CloseContext
<1>2. ASSUME NEW q \in Requests, NEW x \in DOMAIN rows, owner[Row(x)] = q, rows[x].state = "completed"
      PROVE  rows'[x].state = "completed"
  <2>1. ASSUME NEW e \in DOMAIN rows, DeleteExecution(e) PROVE rows'[x] = rows[x]
    <3>1. rows' = [rows EXCEPT ![e].state = "deleted"] /\ owner[Row(e)] = Unset /\ q # Unset
      BY <2>1, UnsetIsNoValue DEF DeleteExecution
    <3>2. x # e
      BY <1>2, <3>1
    <3> QED  BY <3>1, <3>2
  <2> QED  BY <1>2, <2>1 DEF vars, Elapse, CloseContext
<1>3. \A q \in Requests : Leaves(q)
  BY <1>1, <1>2 DEF Leaves
<1> QED  BY <1>3, LeavesKnows DEF SInv

-----------------------------------------------------------------------------
(* The theorem.                                                             *)

LEMMA InitHasSInv == Init => SInv /\ Service!Init
<1> SUFFICES ASSUME Init PROVE SInv /\ Service!Init
  OBVIOUS
<1>1. /\ closed = {} /\ overdue = {} /\ tx = [r \in Requests |-> Blank]
      /\ IInv /\ TypeOK
  BY InitHasIInv DEF Init, IInv
<1>2. \A r \in Requests : Knows(r)
  BY <1>1 DEF Blank, Knows, EndsOverdue, FollowsCompleted, IsStart
<1>3. Replies = [r \in Requests |-> Unset]
  BY <1>1 DEF Replies, Started, Blank
<1>4. CASE rows = <<>> /\ records = [k \in Keys |-> Unset]
  <2>1. Executions = <<>>
    BY <1>4 DEF Executions
  <2> QED  BY <1>1, <1>2, <1>3, <1>4, <2>1 DEF SInv, Service!Init
<1>5. ASSUME NEW e \in Earlier, rows = <<e>>,
             records = [k \in Keys |-> IF k # e.key THEN Unset ELSE [payload |-> e.payload, execution |-> 1]]
      PROVE  SInv /\ Service!Init
  <2> DEFINE x == [payload |-> e.payload, key |-> e.key, state |-> e.state]
  <2>1. x \in [payload : Payloads, key : Keys, state : {"completed"}]
    BY DEF Earlier, Payloads, IdsOrNone
  <2>2. DOMAIN rows = {1} /\ rows[1] = e
    BY <1>5
  <2>3. Executions = <<x>>
    BY <2>2 DEF Executions
  <2>4. x.key = e.key /\ x.payload = e.payload
    OBVIOUS
  <2> HIDE DEF x
  <2>5. DOMAIN Executions = {1} /\ Executions[1] = x
    BY <2>3
  <2>6. records = [k \in Keys |->
          IF \E i \in DOMAIN Executions : Executions[i].key = k
            THEN [payload |-> Executions[1].payload, execution |-> 1] ELSE Unset]
    BY <1>5, <2>4, <2>5
  <2> QED  BY <1>1, <1>2, <1>3, <2>1, <2>3, <2>6 DEF SInv, Service!Init
<1> QED  BY <1>4, <1>5 DEF Init

LEMMA NextServes == SInv /\ [Next]_vars => SInv' /\ Serves
<1> SUFFICES ASSUME SInv, [Next]_vars PROVE SInv' /\ Serves
  OBVIOUS
<1>1. IInv /\ IInv'
  BY NextKeepsIInv DEF SInv
<1>2. ASSUME NEW r \in Requests, Arrive(r) \/ Proceed(r) PROVE SInv' /\ Serves
  BY <1>1, <1>2, ArriveServes, ProceedServes, ArriveKeepsSInv, ProceedKeepsSInv
<1>3. CASE \/ \E e \in DOMAIN rows : Elapse(e) \/ DeleteExecution(e)
           \/ \E c \in Contexts : CloseContext(c)
  <2>1. tx' = tx
    BY <1>3 DEF Elapse, DeleteExecution, CloseContext
  <2> QED  BY <1>1, <1>3, <2>1, AroundServes, AroundKeepsSInv
<1>4. CASE UNCHANGED vars
  <2>1. SInv'
    BY <1>1, <1>4, AroundKeepsSInv DEF vars
  <2>2. Serves
    BY <1>4 DEF Serves, Service!serviceVars, vars, Executions, Replies, Started
  <2> QED  BY <2>1, <2>2
<1> QED  BY <1>2, <1>3, <1>4 DEF Next, Finished

(* Every run of start_premium, start_retro and complete_schedule, with their *)
(* locks, savepoints and lookups, is a run of the service: one execution at  *)
(* a time, in an open context, and one answer for every key.                *)
THEOREM ServiceIsImplemented == Spec => ImplementsService
<1>1. Init => SInv /\ Service!Init
  BY InitHasSInv
<1>2. SInv /\ [Next]_vars => SInv' /\ [Service!Next]_(Service!serviceVars)
  BY NextServes DEF Serves
<1> QED  BY <1>1, <1>2, PTL DEF Spec, ImplementsService, Service!Spec
=============================================================================
