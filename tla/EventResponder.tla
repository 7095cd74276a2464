--------------------------- MODULE EventResponder ---------------------------
(***************************************************************************)
(* EventResponder of the Teensy core, src/pjrc/teensy4/EventResponder.cpp  *)
(* and .h, through which the IMU driver is called after a burst read.      *)
(* Triggered responders are kept in two doubly linked lists, one emptied   *)
(* by yield() in the main program, one by the PendSV interrupt.            *)
(*                                                                         *)
(* Each operation on a list has the interrupts disabled and is one step;   *)
(* any level, and any function that is called, may call it.  The runners   *)
(* take a responder, enable the interrupts and only then reset its flag    *)
(* _triggered, so that everything can come in between.                     *)
(***************************************************************************)
EXTENDS Integers, Sequences, FiniteSets

CONSTANTS
  Responder,    \* the responders
  NoResponder,  \* nullptr
  Preempts,     \* a responder is cleared or attached while a runner has it
  Reattach      \* a responder is attached while it is triggered

ASSUME ResponderAssumption ==
  /\ IsFiniteSet(Responder)
  /\ NoResponder \notin Responder
  /\ {Preempts, Reattach} \subseteq BOOLEAN

Way == {"Yield", "Interrupt"}
Type == Way \cup {"Detached"}
Link == Responder \cup {NoResponder}

VARIABLES
  type,       \* [Responder -> Type]: _type
  triggered,  \* [Responder -> BOOLEAN]: _triggered
  next, prev, \* [Responder -> Link]: _next, _prev
  first,      \* [Way -> Link]: firstYield, firstInterrupt
  last,       \* [Way -> Link]: lastYield, lastInterrupt
  pendSV,     \* the PendSV interrupt is pending
  active,     \* the PendSV interrupt is being served
  taken       \* [Way -> Link]: the runner's variable first, until the call

listVars == <<type, triggered, next, prev, first, last>>
runVars == <<active, taken>>
vars == <<listVars, pendSV, runVars>>

Init ==
  /\ type = [r \in Responder |-> "Detached"]
  /\ triggered = [r \in Responder |-> FALSE]
  /\ next = [r \in Responder |-> NoResponder]
  /\ prev = [r \in Responder |-> NoResponder]
  /\ first = [w \in Way |-> NoResponder]
  /\ last = [w \in Way |-> NoResponder]
  /\ pendSV = FALSE
  /\ active = FALSE
  /\ taken = [w \in Way |-> NoResponder]

-----------------------------------------------------------------------------
(* Operations on the lists *)

\* Mutant of Enqueue: the link of the last responder is not set.
MutEnqueue(r, w) ==
  /\ next' = [next EXCEPT ![r] = NoResponder]
  /\ prev' = [prev EXCEPT ![r] = last[w]]
  /\ first' = IF first[w] = NoResponder THEN [first EXCEPT ![w] = r] ELSE first
  /\ last' = [last EXCEPT ![w] = r]

\* Put r at the end of list w.
Enqueue(r, w) ==
  /\ last' = [last EXCEPT ![w] = r]
  /\ IF first[w] = NoResponder
     THEN /\ next' = [next EXCEPT ![r] = NoResponder]
          /\ prev' = [prev EXCEPT ![r] = NoResponder]
          /\ first' = [first EXCEPT ![w] = r]
     ELSE /\ next' = [next EXCEPT ![r] = NoResponder, ![last[w]] = r]
          /\ prev' = [prev EXCEPT ![r] = last[w]]
          /\ UNCHANGED first

\* Mutant of TriggerEvent: PendSV is set only if there is an event before.
MutTriggerEvent(r) ==
  /\ triggered' = [triggered EXCEPT ![r] = TRUE]
  /\ IF ~triggered[r] /\ type[r] \in Way
     THEN /\ Enqueue(r, type[r])
          /\ pendSV' = (pendSV \/ (type[r] = "Interrupt" /\ first["Interrupt"] # NoResponder))
     ELSE UNCHANGED <<next, prev, first, last, pendSV>>
  /\ UNCHANGED <<type, runVars>>

\* triggerEventNotImmediate
TriggerEvent(r) ==
  /\ triggered' = [triggered EXCEPT ![r] = TRUE]
  /\ IF ~triggered[r] /\ type[r] \in Way
     THEN /\ Enqueue(r, type[r])
          /\ pendSV' = (pendSV \/ type[r] = "Interrupt")
     ELSE UNCHANGED <<next, prev, first, last, pendSV>>
  /\ UNCHANGED <<type, runVars>>

\* Mutant of Unlink: the end of the list is not looked after.
MutUnlink(r, w) ==
  /\ IF prev[r] # NoResponder
     THEN next' = [next EXCEPT ![prev[r]] = next[r]] /\ UNCHANGED first
     ELSE first' = [first EXCEPT ![w] = next[r]] /\ UNCHANGED next
  /\ IF next[r] # NoResponder
     THEN prev' = [prev EXCEPT ![next[r]] = prev[r]]
     ELSE UNCHANGED prev
  /\ UNCHANGED last

\* Take r out of list w, in the middle of it too.
Unlink(r, w) ==
  /\ IF prev[r] # NoResponder
     THEN next' = [next EXCEPT ![prev[r]] = next[r]] /\ UNCHANGED first
     ELSE first' = [first EXCEPT ![w] = next[r]] /\ UNCHANGED next
  /\ IF next[r] # NoResponder
     THEN prev' = [prev EXCEPT ![next[r]] = prev[r]] /\ UNCHANGED last
     ELSE last' = [last EXCEPT ![w] = prev[r]] /\ UNCHANGED prev

UnlinkIfTriggered(r) ==
  IF triggered[r] /\ type[r] \in Way THEN Unlink(r, type[r])
  ELSE UNCHANGED <<next, prev, first, last>>

\* The runner that has taken r has not yet reset its flag.
Held(r) == \E w \in Way : taken[w] = r

ClearEvent(r) ==
  /\ Held(r) => Preempts
  /\ UnlinkIfTriggered(r)
  /\ triggered' = [triggered EXCEPT ![r] = FALSE]
  /\ UNCHANGED <<type, pendSV, runVars>>

\* attach, attachInterrupt and detach: detachNoInterrupts leaves _triggered.
Attach(r, t) ==
  /\ Held(r) => Preempts
  /\ t \in Way /\ triggered[r] => Reattach
  /\ UnlinkIfTriggered(r)
  /\ type' = [type EXCEPT ![r] = t]
  /\ UNCHANGED <<triggered, pendSV, runVars>>

-----------------------------------------------------------------------------
(* The runners *)

\* Take the first responder of list w.
Pop(w) ==
  /\ taken' = [taken EXCEPT ![w] = first[w]]
  /\ first' = [first EXCEPT ![w] = next[first[w]]]
  /\ IF next[first[w]] # NoResponder
     THEN prev' = [prev EXCEPT ![next[first[w]]] = NoResponder] /\ UNCHANGED last
     ELSE last' = [last EXCEPT ![w] = NoResponder] /\ UNCHANGED prev
  /\ UNCHANGED <<type, triggered, next>>

\* The PendSV interrupt is served.
PendableSrvReq ==
  /\ pendSV
  /\ ~active
  /\ pendSV' = FALSE
  /\ active' = TRUE
  /\ UNCHANGED <<listVars, taken>>

\* A turn of the loop of runFromInterrupt, or its end.
RunFromInterrupt ==
  /\ active
  /\ taken["Interrupt"] = NoResponder
  /\ IF first["Interrupt"] # NoResponder
     THEN Pop("Interrupt") /\ UNCHANGED <<pendSV, active>>
     ELSE active' = FALSE /\ UNCHANGED <<listVars, pendSV, taken>>

\* runFromYield, which the main program calls again and again; it stands still
\* while PendSV is active.
RunFromYield ==
  /\ ~active
  /\ first["Yield"] # NoResponder
  /\ taken["Yield"] = NoResponder
  /\ Pop("Yield")
  /\ UNCHANGED <<pendSV, active>>

\* The flag is reset and the function is called; what it does to responders are
\* steps of Use.  (While a function called from yield() runs, runningFromYield
\* only puts off the next one.)
Call(w) ==
  /\ w = "Yield" => ~active
  /\ taken[w] # NoResponder
  /\ triggered' = [triggered EXCEPT ![taken[w]] = FALSE]
  /\ taken' = [taken EXCEPT ![w] = NoResponder]
  /\ UNCHANGED <<type, next, prev, first, last, pendSV, active>>

-----------------------------------------------------------------------------
Use == \E r \in Responder :
         \/ TriggerEvent(r) \/ ClearEvent(r)
         \/ \E t \in Type : Attach(r, t)
PendSV == PendableSrvReq \/ RunFromInterrupt \/ Call("Interrupt")
Yield == RunFromYield \/ Call("Yield")
Next == Use \/ PendSV \/ Yield

Spec == Init /\ [][Next]_vars

\* PendSV is served, and the main program goes on when it is not interrupted
\* for ever.
FairSpec == Spec /\ WF_vars(PendSV) /\ SF_vars(Yield)

-----------------------------------------------------------------------------
\* The sequences of responders that a list without repetition may hold, and
\* what is at place k of one of them.
Walks == UNION {[1..n -> Responder] : n \in 0..Cardinality(Responder)}
Nth(q, k) == IF k \in 1..Len(q) THEN q[k] ELSE NoResponder

\* Walked along next list w is q, walked along prev it is q backwards.
Forward(w, q) ==
  first[w] = Nth(q, 1) /\ \A k \in 1..Len(q) : next[q[k]] = Nth(q, k + 1)
Backward(w, q) ==
  last[w] = Nth(q, Len(q)) /\ \A k \in 1..Len(q) : prev[q[k]] = Nth(q, k - 1)

\* q has no responder twice, and those of the set S.
Lists(q, S) ==
  /\ \A j, k \in 1..Len(q) : q[j] = q[k] => j = k
  /\ {q[k] : k \in 1..Len(q)} = S

\* The responders whose function way w has still to take.
Waiting(w) == {r \in Responder : type[r] = w /\ triggered[r] /\ taken[w] # r}

\* Both lists can be walked in both directions and hold each of their members
\* once, and a responder is in a list exactly if it is attached that way,
\* triggered and not taken by the runner: what triggerEventNotImmediate,
\* clearEvent and detachNoInterrupts conclude from _triggered alone.
ListsSound ==
  \A w \in Way : \E q \in Walks :
    Forward(w, q) /\ Backward(w, q) /\ Lists(q, Waiting(w))

\* List w as a sequence, empty if it cannot be walked to an end.
List(w) ==
  IF \E q \in Walks : Forward(w, q) THEN CHOOSE q \in Walks : Forward(w, q)
  ELSE <<>>

\* The lists, the flags and the runners implement EventQueue: each trigger is
\* answered by one call, in order, whatever comes between the taking of a
\* responder and its call.
Queue == INSTANCE EventQueue WITH
           triggered <- {r \in Responder : triggered[r]},
           queue <- [w \in Way |-> List(w)]
ImplementsQueue == Queue!Spec

\* A trigger of an attached responder is answered by a call unless it is
\* cleared or the responder detached: no list is left behind without PendSV.
\* For a function called from yield() PendSV has to come to an end again and
\* again, which runFromInterrupt does not if functions keep being triggered.
Served ==
  \A r \in Responder :
    /\ (triggered[r] /\ type[r] = "Interrupt") ~> (~triggered[r] \/ type[r] # "Interrupt")
    /\ []<>(~active) =>
         ((triggered[r] /\ type[r] = "Yield") ~> (~triggered[r] \/ type[r] # "Yield"))
=============================================================================
