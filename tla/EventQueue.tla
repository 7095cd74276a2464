----------------------------- MODULE EventQueue -----------------------------
(***************************************************************************)
(* What EventResponder promises its users: for each way in which functions *)
(* are called there is a queue of responders.  A responder that is         *)
(* triggered goes to the end of the queue, once; its function is called    *)
(* after those before it; triggers that come before the call are answered  *)
(* by that call; what is cleared or detached is not called.                *)
(***************************************************************************)
EXTENDS Integers, Sequences

CONSTANTS Responder, NoResponder

Way == {"Yield", "Interrupt"}

VARIABLES
  type,       \* [Responder -> Way \cup {"Detached"}]
  triggered,  \* the responders with a trigger that no call has answered
  queue,      \* [Way -> Seq(Responder)]
  taken       \* [Way -> the responder taken from the queue, not yet called]

vars == <<type, triggered, queue, taken>>

\* q without what is at place k; q without r, which it holds at most once.
WithoutNth(q, k) == [i \in 1..Len(q) - 1 |-> q[IF i < k THEN i ELSE i + 1]]
Without(q, r) ==
  IF \E k \in 1..Len(q) : q[k] = r
  THEN WithoutNth(q, CHOOSE k \in 1..Len(q) : q[k] = r)
  ELSE q

Init ==
  /\ type = [r \in Responder |-> "Detached"]
  /\ triggered = {}
  /\ queue = [w \in Way |-> <<>>]
  /\ taken = [w \in Way |-> NoResponder]

Trigger(r) ==
  /\ triggered' = triggered \cup {r}
  /\ queue' = [w \in Way |-> IF w = type[r] /\ r \notin triggered
                             THEN Append(queue[w], r) ELSE queue[w]]
  /\ UNCHANGED <<type, taken>>

Clear(r) ==
  /\ triggered' = triggered \ {r}
  /\ queue' = [w \in Way |-> Without(queue[w], r)]
  /\ UNCHANGED <<type, taken>>

\* A responder that is attached has no trigger that waits.
Attach(r, t) ==
  /\ t \in Way => r \notin triggered
  /\ type' = [type EXCEPT ![r] = t]
  /\ queue' = [w \in Way |-> Without(queue[w], r)]
  /\ UNCHANGED <<triggered, taken>>

Take(w) ==
  /\ queue[w] # <<>>
  /\ taken[w] = NoResponder
  /\ taken' = [taken EXCEPT ![w] = Head(queue[w])]
  /\ queue' = [queue EXCEPT ![w] = Tail(@)]
  /\ UNCHANGED <<type, triggered>>

Call(w) ==
  /\ taken[w] # NoResponder
  /\ triggered' = triggered \ {taken[w]}
  /\ taken' = [taken EXCEPT ![w] = NoResponder]
  /\ UNCHANGED <<type, queue>>

Next ==
  \/ \E r \in Responder :
       \/ Trigger(r) \/ Clear(r)
       \/ \E t \in Way \cup {"Detached"} : Attach(r, t)
  \/ \E w \in Way : Take(w) \/ Call(w)

Spec == Init /\ [][Next]_vars
=============================================================================
