------------------------------ MODULE Console ------------------------------
(***************************************************************************)
(* The threads of the console program, src/console: main (console.cpp),    *)
(* the TCP thread (EthClient, eth_client.cpp) and the input thread         *)
(* (inproc.cpp), from the hand-over of the connection to the shutdown.     *)
(*                                                                         *)
(* main keeps the lock of mu from its start to its end; only while it      *)
(* waits for the robot's answer "tee" is mu free.  The TCP thread locks mu *)
(* each time a "tee" comes.                                                *)
(*                                                                         *)
(* The handlers of the TCP thread are steps, the one for "tee" is several. *)
(* The robot may be silent or lose the connection at any time, so main may *)
(* find the ping too old in any turn of its loop.  What a file transfer    *)
(* does is in FileTransfer.                                                *)
(***************************************************************************)
EXTENDS Integers

CONSTANT MaxTee  \* bound: lines "console" sent to the robot

ASSUME TeeAssumption == MaxTee \in Nat \ {0}

VARIABLES
  pc,              \* main: where it is
  timedOut,        \* main: the 1800 ms of wait_for are over
  mu,              \* who holds the mutex: "free", "main" or "tcp"
  notified,        \* main was notified while it waited
  connected, pleaseStop,
  closing,         \* socket.close was posted to the TCP thread
  inpExitRequest,
  tcp,             \* the TCP thread: where it is
  inp,             \* the input thread: where it is
  sent, tees       \* lines "console" sent, answers on the way

flags == <<connected, pleaseStop, closing, inpExitRequest>>
vars == <<pc, timedOut, mu, notified, flags, tcp, inp, sent, tees>>

Init ==
  /\ pc = "lock"
  /\ timedOut = FALSE
  /\ mu = "free"
  /\ notified = FALSE
  /\ connected = FALSE
  /\ pleaseStop = FALSE
  /\ closing = FALSE
  /\ inpExitRequest = FALSE
  /\ tcp = "start"
  /\ inp = "none"
  /\ sent = 0
  /\ tees = 0

-----------------------------------------------------------------------------
(* main *)

\* unique_lock lk(mu); also the lock taken again when a wait is over.
Lock ==
  /\ pc = "lock"
  /\ mu = "free"
  /\ mu' = "main"
  /\ pc' = "test"
  /\ UNCHANGED <<timedOut, notified, flags, tcp, inp, sent, tees>>

\* wait_for looks at cli.connected: go on and start the input thread, give up,
\* or wait ...
Test ==
  /\ pc = "test"
  /\ \/ /\ connected
        /\ pc' = "loop"
        /\ inp' = "read"
     \/ /\ ~connected
        /\ pc' = IF timedOut THEN "giveUp" ELSE "wait"
        /\ UNCHANGED inp
  /\ UNCHANGED <<timedOut, mu, notified, flags, tcp, sent, tees>>

\* ... which lets go of the lock.
Wait ==
  /\ pc = "wait"
  /\ pc' = "waiting"
  /\ mu' = "free"
  /\ notified' = FALSE
  /\ UNCHANGED <<timedOut, flags, tcp, inp, sent, tees>>

\* A wait ends with a notification, ...
Notified ==
  /\ pc = "waiting"
  /\ notified
  /\ pc' = "lock"
  /\ UNCHANGED <<timedOut, mu, notified, flags, tcp, inp, sent, tees>>

\* ... or with the timeout.
Timeout ==
  /\ pc = "waiting"
  /\ pc' = "lock"
  /\ timedOut' = TRUE
  /\ UNCHANGED <<mu, notified, flags, tcp, inp, sent, tees>>

\* The loop of main ends: at the operator's wish, for an old ping or a lost
\* connection.
LeaveLoop ==
  /\ pc = "loop"
  /\ pc' = "stop"
  /\ inpExitRequest' = TRUE
  /\ UNCHANGED <<timedOut, mu, notified, connected, pleaseStop, closing, tcp,
                 inp, sent, tees>>

\* Mutant of StopClient: the socket is not closed.
MutStopClient ==
  /\ pc \in {"stop", "giveUp"}
  /\ pc' = IF pc = "stop" THEN "joinTcp" ELSE "joinOnlyTcp"
  /\ pleaseStop' = TRUE
  /\ connected' = FALSE
  /\ UNCHANGED <<timedOut, mu, notified, closing, inpExitRequest, tcp, inp, sent, tees>>

StopClient ==
  /\ pc \in {"stop", "giveUp"}
  /\ pc' = IF pc = "stop" THEN "joinTcp" ELSE "joinOnlyTcp"
  /\ pleaseStop' = TRUE
  /\ connected' = FALSE
  /\ closing' = TRUE
  /\ UNCHANGED <<timedOut, mu, notified, inpExitRequest, tcp, inp, sent, tees>>

\* tcp.join(), and inp.join() if the input thread was started.
Join ==
  /\ \/ pc = "joinTcp" /\ tcp = "ended" /\ pc' = "joinInp"
     \/ pc = "joinInp" /\ inp = "ended" /\ pc' = "done"
     \/ pc = "joinOnlyTcp" /\ tcp = "ended" /\ pc' = "done"
  /\ mu' = IF pc' = "done" THEN "free" ELSE mu
  /\ UNCHANGED <<timedOut, notified, flags, tcp, inp, sent, tees>>

-----------------------------------------------------------------------------
(* The TCP thread *)

StartClient ==
  /\ tcp = "start"
  /\ tcp' = "connect"
  /\ pleaseStop' = FALSE
  /\ connected' = FALSE
  /\ UNCHANGED <<pc, timedOut, mu, notified, closing, inpExitRequest, inp, sent, tees>>

\* The connection is there: do_write("console") and the first do_read.
Connected ==
  /\ tcp = "connect"
  /\ tcp' = "read"
  /\ sent' = sent + 1
  /\ tees' = tees + 1
  /\ UNCHANGED <<pc, timedOut, mu, notified, flags, inp>>

\* There is no connection, or the posted close takes it away, also from under
\* an outstanding connect or read: io_context.run has nothing more to do.
RunEnds ==
  /\ \/ tcp = "connect"
     \/ tcp = "read" /\ closing
  /\ tcp' = "ended"
  /\ UNCHANGED <<pc, timedOut, mu, notified, flags, inp, sent, tees>>

\* process: the end of the connection, or another error or an empty read, after
\* which nothing is read either but connected keeps its value.
Eof ==
  /\ tcp = "read"
  /\ tcp' = "ended"
  /\ connected' \in {FALSE, connected}
  /\ UNCHANGED <<pc, timedOut, mu, notified, pleaseStop, closing,
                 inpExitRequest, inp, sent, tees>>

\* process: an answer "tee".
Tee ==
  /\ tcp = "read"
  /\ tees > 0
  /\ tees' = tees - 1
  /\ IF pleaseStop
     THEN tcp' = "ended" /\ UNCHANGED connected
     ELSE tcp' = "lock" /\ connected' = TRUE
  /\ UNCHANGED <<pc, timedOut, mu, notified, pleaseStop, closing,
                 inpExitRequest, inp, sent>>

\* process: anything else that comes when the client is to stop.
Stopped ==
  /\ tcp = "read"
  /\ pleaseStop
  /\ tcp' = "ended"
  /\ UNCHANGED <<pc, timedOut, mu, notified, flags, inp, sent, tees>>

\* Mutant of TeeLock: the mutex is not locked.
MutTeeLock ==
  /\ tcp = "lock"
  /\ tcp' = "notify"
  /\ UNCHANGED <<pc, timedOut, mu, notified, flags, inp, sent, tees>>

\* lock_guard lk(mu)
TeeLock ==
  /\ tcp = "lock"
  /\ mu = "free"
  /\ mu' = "tcp"
  /\ tcp' = "notify"
  /\ UNCHANGED <<pc, timedOut, notified, flags, inp, sent, tees>>

\* cv.notify_all()
Notify ==
  /\ tcp = "notify"
  /\ notified' = (notified \/ pc = "waiting")
  /\ tcp' = "unlock"
  /\ UNCHANGED <<pc, timedOut, mu, flags, inp, sent, tees>>

\* The lock is released; do_read.
Unlock ==
  /\ tcp = "unlock"
  /\ mu' = IF mu = "tcp" THEN "free" ELSE mu
  /\ tcp' = "read"
  /\ UNCHANGED <<pc, timedOut, notified, flags, inp, sent, tees>>

-----------------------------------------------------------------------------
(* The input thread *)

\* The operator sends a line "console", which the robot answers once more.
Line ==
  /\ inp = "read"
  /\ sent < MaxTee
  /\ tcp # "ended"
  /\ sent' = sent + 1
  /\ tees' = tees + 1
  /\ UNCHANGED <<pc, timedOut, mu, notified, flags, tcp, inp>>

\* F12: the thread then waits for one more key, without a timeout.
F12 ==
  /\ inp = "read"
  /\ inp' = "key"
  /\ inpExitRequest' = TRUE
  /\ UNCHANGED <<pc, timedOut, mu, notified, connected, pleaseStop, closing, tcp,
                 sent, tees>>
AnyKey ==
  /\ inp = "key"
  /\ inp' = "ended"
  /\ UNCHANGED <<pc, timedOut, mu, notified, flags, tcp, sent, tees>>

\* getch returns after 200 ms at the latest and the thread looks at the request.
InputEnds ==
  /\ inp = "read"
  /\ inpExitRequest
  /\ inp' = "ended"
  /\ UNCHANGED <<pc, timedOut, mu, notified, flags, tcp, sent, tees>>

-----------------------------------------------------------------------------
Main == Lock \/ Test \/ Wait \/ Notified \/ Timeout \/ LeaveLoop \/ StopClient \/ Join
Tcp == \/ StartClient \/ Connected \/ RunEnds \/ Eof \/ Tee \/ Stopped
       \/ TeeLock \/ Notify \/ Unlock
Input == Line \/ F12 \/ AnyKey \/ InputEnds
Next == Main \/ Tcp \/ Input

Spec == Init /\ [][Next]_vars

\* The TCP thread waits for the lock that main keeps.
Starved == tcp = "lock" /\ mu = "main"

\* The threads run.  Nothing is assumed of the network, of the operator, or of
\* main leaving its loop without a reason; a TCP
\* thread that waits for ever makes the ping old.
Forced == inpExitRequest \/ ~connected \/ Starved
FairSpec ==
  /\ Spec
  /\ WF_vars(Lock \/ Test \/ Wait \/ Notified \/ Timeout \/ StopClient \/ Join)
  /\ WF_vars(Forced /\ LeaveLoop)
  /\ WF_vars(StartClient \/ RunEnds \/ Notify \/ Unlock)
  /\ SF_vars(TeeLock)
  /\ WF_vars(InputEnds)

-----------------------------------------------------------------------------
\* No wake-up is lost: while main waits, a connection that is there and that
\* main has not been told of is about to be told by the TCP thread
\* (lock_guard before notify_all).
NoLostWakeup ==
  pc = "waiting" /\ connected /\ ~notified => tcp \in {"lock", "notify"}

\* Once a key, a lost connection, an old ping or the first timeout asks for it
\* the program ends, except in two ways: a "tee" that comes when main no longer
\* waits leaves the TCP thread at the lock and main at tcp.join(); and after F12
\* the input thread ends only with the next key.
Stops ==
  (inpExitRequest \/ pc \in {"giveUp", "stop"})
    ~> (pc = "done" \/ []Starved \/ [](inp = "key"))
=============================================================================
