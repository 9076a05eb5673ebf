-------------------------- MODULE ExecutionService --------------------------
(***************************************************************************)
(* What direct executions promise the clients of one scope, with no locks, *)
(* transactions or lookups: one execution at a time, started in a context  *)
(* that is still open, and for every idempotency key one answer, given to  *)
(* each request that asks the same under that key.                         *)
(*                                                                         *)
(* A refusal is not seen here: nothing says that a request is answered.    *)
(***************************************************************************)
EXTENDS Integers, Sequences

CONSTANTS
  Requests, Keys, Contexts,
  Payloads,    \* records with the context and the execution that is continued
  Unset        \* no answer

VARIABLES
  executions,  \* every execution: what was asked, under which key, its state
  answers,     \* the payload and the execution each key stands for
  replies,     \* what each request was told
  due,         \* executions past their end
  closed       \* contexts that take no more executions

serviceVars == <<executions, answers, replies, due, closed>>

-----------------------------------------------------------------------------
Present(e)   == executions[e].state # "deleted"
Open         == {e \in DOMAIN executions : executions[e].state = "running"}
Continued(e) == \E s \in DOMAIN executions : Present(s) /\ executions[s].payload.from = e

MayFollow(p) ==
  p.from # 0 => /\ p.from \in DOMAIN executions
                /\ executions[p.from].state = "completed"
                /\ ~Continued(p.from)

Ended(ids) ==
  [e \in DOMAIN executions |->
     IF e \in ids THEN [executions[e] EXCEPT !.state = "completed"] ELSE executions[e]]

Answered(r) == replies[r] = Unset /\ replies'[r] # Unset
Tell(r, k, p, e) ==
  /\ replies' = [replies EXCEPT ![r] = [key |-> k, payload |-> p, execution |-> e]]
Note(k, p, e) ==
  /\ answers[k] = Unset
  /\ answers' = [answers EXCEPT ![k] = [payload |-> p, execution |-> e]]

(* Only an execution that is due gives way to a new one.                    *)
Start(r, k, p) ==
  LET e == Len(executions) + 1 IN
  /\ Open \subseteq due
  /\ p.context \notin closed
  /\ MayFollow(p)
  /\ executions' = Append(Ended(Open), [payload |-> p, key |-> k, state |-> "running"])
  /\ Note(k, p, e)
  /\ Tell(r, k, p, e)
  /\ UNCHANGED <<due, closed>>

(* The key stands for this payload already.                                 *)
Repeat(r, k, p) ==
  /\ answers[k] # Unset /\ answers[k].payload = p
  /\ Present(answers[k].execution)
  /\ Tell(r, k, p, answers[k].execution)
  /\ UNCHANGED <<executions, answers, due, closed>>

(* The continuation exists already, asked for under another key.            *)
Adopt(r, k, p, e) ==
  /\ p.from # 0
  /\ executions[e].payload = p /\ Present(e)
  /\ Note(k, p, e)
  /\ Tell(r, k, p, e)
  /\ UNCHANGED <<executions, due, closed>>

Complete(e) ==
  /\ e \in Open
  /\ executions' = Ended({e})
  /\ UNCHANGED <<answers, replies, due, closed>>

FallDue(e) ==
  /\ e \in Open
  /\ due' = due \cup {e}
  /\ UNCHANGED <<executions, answers, replies, closed>>

Close(c) ==
  /\ closed' = closed \cup {c}
  /\ UNCHANGED <<executions, answers, replies, due>>

Delete(e) ==
  /\ Present(e) /\ ~Continued(e)
  /\ executions' = [executions EXCEPT ![e].state = "deleted"]
  /\ UNCHANGED <<answers, replies, due, closed>>

-----------------------------------------------------------------------------
(* At first there may be one execution, completed and noted.                *)
Init ==
  /\ executions \in {<<>>} \cup
       {<<e>> : e \in [payload : Payloads, key : Keys, state : {"completed"}]}
  /\ answers = [k \in Keys |->
       IF \E e \in DOMAIN executions : executions[e].key = k
         THEN [payload |-> executions[1].payload, execution |-> 1] ELSE Unset]
  /\ replies = [r \in Requests |-> Unset]
  /\ due = {} /\ closed = {}

Next ==
  \/ \E r \in Requests :
       /\ Answered(r)
       /\ \E k \in Keys, p \in Payloads :
            \/ Start(r, k, p)
            \/ Repeat(r, k, p)
            \/ \E e \in DOMAIN executions : Adopt(r, k, p, e)
  \/ \E e \in DOMAIN executions : Complete(e) \/ FallDue(e) \/ Delete(e)
  \/ \E c \in Contexts : Close(c)

Spec == Init /\ [][Next]_serviceVars
=============================================================================
