--------------------------- MODULE Console_proofs ---------------------------
(***************************************************************************)
(* No wake-up of the console's main thread is lost, for every number of    *)
(* answers of the robot.  The argument is about the mutex: the TCP thread  *)
(* notifies with mu locked, and main keeps mu from the moment it looks at  *)
(* connected to the moment it waits.                                       *)
(***************************************************************************)
EXTENDS Console, TLAPS

MainHolds == {"test", "wait", "loop", "stop", "giveUp", "joinTcp", "joinOnlyTcp",
              "joinInp"}

Types ==
  /\ pc \in MainHolds \cup {"lock", "waiting", "done"}
  /\ tcp \in {"start", "connect", "read", "lock", "notify", "unlock", "ended"}
  /\ mu \in {"free", "main", "tcp"}
  /\ connected \in BOOLEAN
  /\ notified \in BOOLEAN

\* Who holds the mutex can be told from where the threads are.
Mutex ==
  /\ mu = "main" <=> pc \in MainHolds
  /\ mu = "tcp" <=> tcp \in {"notify", "unlock"}

\* What main saw when it looked at connected is still true when it waits,
\* unless the TCP thread is on its way to tell it.
Waits == pc = "wait" /\ connected => tcp = "lock"

IInv == Types /\ Mutex /\ Waits /\ NoLostWakeup

LEMMA InitHolds == Init => IInv
BY DEF Init, IInv, Types, Mutex, Waits, NoLostWakeup, MainHolds

\* The steps of main.
LEMMA MainStep == IInv /\ Main => IInv'
<1> SUFFICES ASSUME IInv, Main PROVE IInv'
  OBVIOUS
<1> USE DEF IInv, Types, Mutex, Waits, NoLostWakeup, MainHolds, flags
<1>1. CASE Lock
  BY <1>1 DEF Lock
<1>2. CASE Test
  BY <1>2 DEF Test
<1>3. CASE Wait
  BY <1>3 DEF Wait
<1>4. CASE Notified \/ Timeout
  BY <1>4 DEF Notified, Timeout
<1>5. CASE LeaveLoop \/ StopClient
  BY <1>5 DEF LeaveLoop, StopClient
<1>6. CASE Join
  BY <1>6 DEF Join
<1> QED  BY <1>1, <1>2, <1>3, <1>4, <1>5, <1>6 DEF Main

\* The steps of the TCP thread.
LEMMA TcpStep == IInv /\ Tcp => IInv'
<1> SUFFICES ASSUME IInv, Tcp PROVE IInv'
  OBVIOUS
<1> USE DEF IInv, Types, Mutex, Waits, NoLostWakeup, MainHolds, flags
<1>1. CASE StartClient
  BY <1>1 DEF StartClient
<1>2. CASE Connected
  BY <1>2 DEF Connected
<1>3. CASE RunEnds
  BY <1>3 DEF RunEnds
<1>4. CASE Eof
  <2>1. CASE connected' = FALSE
    BY <1>4, <2>1 DEF Eof
  <2>2. CASE connected' = connected
    BY <1>4, <2>2 DEF Eof
  <2> QED BY <1>4, <2>1, <2>2 DEF Eof
<1>5. CASE Stopped
  BY <1>5 DEF Stopped
<1>6. CASE Tee
  BY <1>6 DEF Tee
<1>7. CASE TeeLock
  BY <1>7 DEF TeeLock
<1>8. CASE Notify
  BY <1>8 DEF Notify
<1>9. CASE Unlock
  BY <1>9 DEF Unlock
<1> QED  BY <1>1, <1>2, <1>3, <1>4, <1>5, <1>6, <1>7, <1>8, <1>9
         DEF Tcp

\* The input thread touches neither the mutex nor what main waits for.
LEMMA InputStep == IInv /\ Input => IInv'
BY DEF Input, Line, F12, AnyKey, InputEnds, IInv, Types, Mutex, Waits,
       NoLostWakeup, MainHolds, flags

\* While main waits, a connection it has not been told of is about to be told
\* by the TCP thread (console.cpp:46, eth_client.cpp:189-192).
THEOREM WakeupKept == Spec => []NoLostWakeup
<1>1. IInv /\ [Next]_vars => IInv'
  <2> SUFFICES ASSUME IInv, [Next]_vars PROVE IInv'
    OBVIOUS
  <2>1. CASE UNCHANGED vars
    BY <2>1 DEF vars, flags, IInv, Types, Mutex, Waits, NoLostWakeup
  <2> QED  BY <2>1, MainStep, TcpStep, InputStep DEF Next
<1>2. IInv => NoLostWakeup
  BY DEF IInv
<1> QED  BY InitHolds, <1>1, <1>2, PTL DEF Spec
=============================================================================
