------------------------------ MODULE MainLoop ------------------------------
(***************************************************************************)
(* The main loop of the robot, src/test/blink/blink.cpp, with its nested   *)
(* 10, 4 and 1 Hz events, and the USB command line that the 4 Hz event     *)
(* reads, src/src/cmdhandler.cpp.                                          *)
(*                                                                         *)
(* millis() is a counter of 32 bits; here it counts modulo ClockMod.       *)
(* A turn of the loop reads it once, and between two turns it moves by at  *)
(* most MaxTurn, the time the calls of one turn take.  The loop is one     *)
(* step up to h_usb_serial, which reads what has arrived in chunks, while  *)
(* more arrives, and hands it to onIncomingInfo character by character.    *)
(*                                                                         *)
(* What the other calls of a turn do is in the modules Memsic, ImuAlg,     *)
(* FileTransfer and LogFile.  irProces, the whole of the 10 Hz event, is   *)
(* left out: it reads decodedIRData of a receiver that never decodes       *)
(* anything (ir.cpp:58 asks IrReceiver, ir.cpp:52 irrecv).  So is the       *)
(* voltage of the battery, which event1s starts to measure and event250ms  *)
(* hands to batteryUpdate: it is only computed with (power.cpp:63).        *)
(***************************************************************************)
EXTENDS Integers, Sequences

CONSTANTS
  ClockMod,   \* 2^32
  Period,     \* <<100, 250, 1000>>, the periods of the three events
  MaxTurn,    \* the longest turn of the loop
  InfoSize,   \* infoSize, the line buffer (88)
  ChunkSize,  \* incomingUsbSerialInfoSize (32)
  MaxLine,    \* bound: characters the host types in a line
  MaxLines,   \* bound: lines the host types
  MaxQueue,   \* bound: characters waiting in the USB driver
  MaxAge      \* bound: the ages in since are cut off here

Events == 1..3

ASSUME ClockAssumption ==
  /\ ClockMod \in Nat /\ MaxTurn \in Nat \ {0}
  /\ Period \in [Events -> Nat \ {0}]
  /\ Period[1] <= Period[2] /\ Period[2] <= Period[3]
  /\ Period[3] + Period[2] + Period[1] + 3 * MaxTurn < ClockMod
  /\ MaxAge \in Nat
ASSUME LineAssumption ==
  /\ ChunkSize \in Nat \ {0}
  /\ InfoSize \in Nat /\ InfoSize > ChunkSize + 1
  /\ {MaxLine, MaxLines, MaxQueue} \subseteq Nat

VARIABLES
  pc,        \* "loop", "usb" (h_usb_serial), "char" (onIncomingInfo)
  msNow,     \* the time of this turn
  pingTime,  \* [Events -> time]: fast100msPingTime, fast250msPingTime, ...
  since,     \* history: the true time since each event, cut off at MaxAge
  held,      \* history: events held up at the wrap since they were last run
  usb,       \* characters waiting in the USB driver
  chunk, i,  \* incomingUsbSerialInfo, and the index in it
  info,      \* the line so far: info[0..infoIndex-1]
  command,   \* history: the line executed last and the line it was typed in
  typed      \* the host: number of the line and characters typed of it

clockVars == <<msNow, pingTime, since, held>>
lineVars == <<usb, chunk, i, info, command, typed>>
vars == <<pc, clockVars, lineVars>>

\* Character p of line l; the one that ends a line comes after its last.
Char == [l : Nat, p : Nat \ {0}, end : BOOLEAN]
NoCommand == [text |-> <<>>, l |-> 0, len |-> 0]

Init ==
  /\ pc = "loop"
  /\ msNow \in 0..ClockMod - 1
  /\ pingTime = [e \in Events |-> msNow]
  /\ since = [e \in Events |-> 0]
  /\ held = {}
  /\ usb = <<>>
  /\ chunk = <<>>
  /\ i = 0
  /\ info = <<>>
  /\ command = NoCommand
  /\ typed = [l |-> 1, p |-> 0]

-----------------------------------------------------------------------------
(* The clock and the events *)

Older(x, d) == IF x + d > MaxAge THEN MaxAge ELSE x + d

\* The largest time between two turns in which event e can be run.
Gap(e) == IF e = 1 THEN MaxTurn
          ELSE IF e = 2 THEN Period[1] + MaxTurn
          ELSE Period[1] + Period[2] + MaxTurn

\* The event was last run so that its next time falls into the last moments
\* before the clock wraps: the loop may have no turn between the two.
AtWrap(e) == pingTime[e] + Period[e] \in ClockMod - Gap(e)..ClockMod - 1

\* The events held up because they, or one around them, were not run in time
\* before the clock wrapped to now.
Missed(now) == {e \in Events : now < msNow /\ \E x \in 1..e : AtWrap(x)}

\* Mutant of Due: the sum is computed with more than 32 bits.
MutDueWide(e, now) == now > pingTime[e] + Period[e]

\* msNow > (pingTime + period), in unsigned arithmetic.
Due(e, now) == now > (pingTime[e] + Period[e]) % ClockMod

\* Mutant of Fired: the time of the event is moved on by one period only.
MutFired(S, now, d) ==
  /\ msNow' = now
  /\ pingTime' = [e \in Events |-> IF e \in S THEN (pingTime[e] + Period[e]) % ClockMod
                                   ELSE pingTime[e]]
  /\ since' = [e \in Events |-> IF e \in S THEN 0 ELSE Older(since[e], d)]
  /\ held' = (held \cup Missed(now)) \ S

\* The clock has moved by d to now and the events S are run.
Fired(S, now, d) ==
  /\ msNow' = now
  /\ pingTime' = [e \in Events |-> IF e \in S THEN now ELSE pingTime[e]]
  /\ since' = [e \in Events |-> IF e \in S THEN 0 ELSE Older(since[e], d)]
  /\ held' = (held \cup Missed(now)) \ S

\* A turn of the loop, up to h_usb_serial of event250ms if that is due.
Turn(d) ==
  LET now == (msNow + d) % ClockMod
      run1 == Due(1, now)
      run2 == run1 /\ Due(2, now)
  IN  /\ pc = "loop"
      /\ Fired({e \in {1, 2} : IF e = 1 THEN run1 ELSE run2}, now, d)
      /\ pc' = IF run2 THEN "usb" ELSE "loop"
      /\ UNCHANGED lineVars

\* h_usb_serial has read everything: the end of event250ms, and event1s.
Rest ==
  /\ pc = "usb"
  /\ usb = <<>>
  /\ Fired({e \in {3} : Due(3, msNow)}, msNow, 0)
  /\ pc' = "loop"
  /\ UNCHANGED lineVars

-----------------------------------------------------------------------------
(* The command line *)

\* The host types the next character of a line, or ends the line.
Type ==
  /\ Len(usb) < MaxQueue
  /\ typed.l <= MaxLines
  /\ \E end \in {b \in BOOLEAN : typed.p = MaxLine => b} :
       /\ usb' = Append(usb, [l |-> typed.l, p |-> typed.p + 1, end |-> end])
       /\ typed' = IF end THEN [l |-> typed.l + 1, p |-> 0]
                   ELSE [typed EXCEPT !.p = @ + 1]
  /\ UNCHANGED <<pc, clockVars, chunk, i, info, command>>

\* Mutant of UsbRead: all that has arrived is read, whatever the buffer holds.
MutUsbRead ==
  /\ pc = "usb"
  /\ usb # <<>>
  /\ chunk' = usb
  /\ usb' = <<>>
  /\ i' = 0
  /\ pc' = "char"
  /\ UNCHANGED <<clockVars, info, command, typed>>

\* h_usb_serial: the next chunk.
UsbRead ==
  /\ pc = "usb"
  /\ usb # <<>>
  /\ LET n == IF Len(usb) <= ChunkSize THEN Len(usb) ELSE ChunkSize
     IN  /\ chunk' = SubSeq(usb, 1, n)
         /\ usb' = SubSeq(usb, n + 1, Len(usb))
  /\ i' = 0
  /\ pc' = "char"
  /\ UNCHANGED <<clockVars, info, command, typed>>

\* Mutant of Room: the test for overflow comes two characters late.
MutRoomLate == IF i + Len(info) > InfoSize THEN <<>> ELSE info

\* What is left of the line after the test for overflow.
Room == IF i + Len(info) >= InfoSize - 1 THEN <<>> ELSE info

\* Mutant of OnChar: the index is not reset after a command.
MutOnChar ==
  LET c == chunk[i + 1]
  IN  /\ pc = "char"
      /\ i < Len(chunk)
      /\ IF c.end
         THEN /\ command' = [text |-> Room, l |-> c.l, len |-> c.p - 1]
              /\ info' = Room
         ELSE /\ info' = Append(Room, c)
              /\ UNCHANGED command
      /\ i' = i + 1
      /\ UNCHANGED <<pc, clockVars, usb, chunk, typed>>

\* onIncomingInfo: one character; the end of a line calls processTheCommand.
OnChar ==
  LET c == chunk[i + 1]
  IN  /\ pc = "char"
      /\ i < Len(chunk)
      /\ IF c.end
         THEN /\ command' = [text |-> Room, l |-> c.l, len |-> c.p - 1]
              /\ info' = <<>>
         ELSE /\ info' = Append(Room, c)
              /\ UNCHANGED command
      /\ i' = i + 1
      /\ UNCHANGED <<pc, clockVars, usb, chunk, typed>>

ChunkDone ==
  /\ pc = "char"
  /\ i = Len(chunk)
  /\ pc' = "usb"
  /\ chunk' = <<>>
  /\ i' = 0
  /\ UNCHANGED <<clockVars, usb, info, command, typed>>

-----------------------------------------------------------------------------
Next ==
  \/ \E d \in 0..MaxTurn : Turn(d)
  \/ Rest \/ Type \/ UsbRead \/ OnChar \/ ChunkDone

Spec == Init /\ [][Next]_vars

\* The loop turns for ever while time passes, and ends what it has begun.
FairSpec == /\ Spec
            /\ WF_vars(\E d \in 1..MaxTurn : Turn(d))
            /\ WF_vars(Rest \/ UsbRead \/ OnChar \/ ChunkDone)

-----------------------------------------------------------------------------
\* The types; a chunk of h_usb_serial never exceeds its buffer and the index of
\* onIncomingInfo stays within the chunk.
TypeOK ==
  /\ pc \in {"loop", "usb", "char"}
  /\ msNow \in 0..ClockMod - 1
  /\ pingTime \in [Events -> 0..ClockMod - 1]
  /\ since \in [Events -> 0..MaxAge]
  /\ held \subseteq Events
  /\ usb \in Seq(Char)
  /\ chunk \in Seq(Char) /\ Len(chunk) <= ChunkSize
  /\ i \in 0..Len(chunk)
  /\ info \in Seq(Char)
  /\ command \in [text : Seq(Char), l : Nat, len : Nat]
  /\ typed \in [l : Nat, p : Nat]

\* "call this 10 Hz", "4 Hz", "1 Hz", over the wrap of the 32-bit clock: an
\* event is never later than its period and the longest time between two tests
\* of it, unless it or an event around it was last run so that its next time
\* fell into the last moments before a wrap (the nested tests
\* msNow > pingTime + period of main).
OnTime == \A e \in Events \ held : since[e] <= Period[e] + Gap(e)

\* The same without the exception: what the comments on event100ms,
\* event250ms and event1s say.
EventsKeepRate == \A e \in Events : since[e] <= Period[e] + Gap(e)

\* An event is run again before its period is over, be it on the very next turn,
\* only in the last period before the wrap, where the sum is small and every
\* turn runs it (the tests msNow > pingTime + period of main).
EarlyStep ==
  \A e \in Events :
    pingTime'[e] # pingTime[e]
      /\ Older(since[e], (msNow' - msNow) % ClockMod) <= Period[e]
      => pingTime[e] + Period[e] >= ClockMod
NotEarly == [][EarlyStep]_vars

\* The line buffer is never written outside and always has room for the zero
\* that ends it (the test for overflow of onIncomingInfo, whose two indices
\* belong to different buffers).
LineFits == Len(info) <= InfoSize - 1

\* What is executed is the end of one line as it was typed, never characters of
\* two lines, and the whole line if that is short enough, wherever the chunks
\* are cut (h_usb_serial, onIncomingInfo).
SafeLen == InfoSize - ChunkSize - 1
CommandIsLine ==
  LET t == command.text
  IN  /\ \A k \in 1..Len(t) : /\ t[k].l = command.l
                              /\ t[k].p = command.len - Len(t) + k
      /\ command.len <= SafeLen => Len(t) = command.len

\* What the host types is read, unless the 4 Hz event was held up at a wrap of
\* the clock (h_usb_serial).
LinesRead == (usb # <<>>) ~> (usb = <<>> \/ 2 \in held)
=============================================================================
