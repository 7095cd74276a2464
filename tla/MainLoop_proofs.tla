-------------------------- MODULE MainLoop_proofs --------------------------
(***************************************************************************)
(* The main loop keeps its types, and the line buffer of the command line  *)
(* is never written outside, for every size of buffer and chunk, every     *)
(* length of line and every cut of what is typed into chunks.              *)
(***************************************************************************)
EXTENDS MainLoop, SequenceTheorems, TLAPS

LEMMA ClockPositive == ClockMod \in Nat \ {0}
<1>1. Period[1] \in Nat /\ Period[2] \in Nat /\ Period[3] \in Nat
  BY ClockAssumption DEF Events
<1> QED  BY <1>1, ClockAssumption

LEMMA InitHolds == Init => TypeOK /\ LineFits
<1> SUFFICES ASSUME Init PROVE TypeOK /\ LineFits
  OBVIOUS
<1>1. <<>> \in Seq(Char) /\ Len(<<>>) = 0
  OBVIOUS
<1>2. command \in [text : Seq(Char), l : Nat, len : Nat]
  BY <1>1 DEF Init, NoCommand
<1> QED  BY <1>1, <1>2, ClockAssumption, LineAssumption
         DEF Init, TypeOK, LineFits

\* The clock moves on and some events are run: the times stay below ClockMod.
LEMMA FiredTypes ==
  ASSUME TypeOK, NEW S, NEW now \in 0..ClockMod - 1, NEW d \in Nat, Fired(S, now, d)
  PROVE  /\ msNow' \in 0..ClockMod - 1
         /\ pingTime' \in [Events -> 0..ClockMod - 1]
         /\ since' \in [Events -> 0..MaxAge]
         /\ held' \subseteq Events
<1>1. ASSUME NEW e \in Events PROVE Older(since[e], d) \in 0..MaxAge
  <2>1. since[e] \in 0..MaxAge /\ MaxAge \in Nat
    BY ClockAssumption DEF TypeOK
  <2> QED  BY <2>1 DEF Older
<1>2. Missed(now) \subseteq Events
  BY DEF Missed
<1>3. held' \subseteq Events
  BY <1>2 DEF TypeOK, Fired
<1>4. pingTime' \in [Events -> 0..ClockMod - 1]
  BY DEF TypeOK, Fired
<1>5. since' \in [Events -> 0..MaxAge]
  <2>1. since' = [e \in Events |-> IF e \in S THEN 0 ELSE Older(since[e], d)]
    BY DEF Fired
  <2>2. 0 \in 0..MaxAge
    BY ClockAssumption
  <2> QED  BY <1>1, <2>1, <2>2
<1> QED  BY <1>3, <1>4, <1>5 DEF Fired

LEMMA TurnStep == ASSUME TypeOK, LineFits, NEW d \in 0..MaxTurn, Turn(d)
                  PROVE  TypeOK' /\ LineFits'
<1>1. d \in Nat /\ msNow + d \in Nat
  BY ClockAssumption, ClockPositive DEF TypeOK
<1>2. (msNow + d) % ClockMod \in 0..ClockMod - 1
  BY ONLY <1>1, ClockPositive
<1>3. PICK S : Fired(S, (msNow + d) % ClockMod, d)
  BY DEF Turn
<1>4. pc' \in {"loop", "usb", "char"} /\ UNCHANGED lineVars
  BY DEF Turn
<1> QED  BY <1>1, <1>2, <1>3, <1>4, FiredTypes DEF TypeOK, LineFits, lineVars

LEMMA RestStep == ASSUME TypeOK, LineFits, Rest PROVE TypeOK' /\ LineFits'
<1>1. PICK S : Fired(S, msNow, 0)
  BY DEF Rest
<1>2. msNow \in 0..ClockMod - 1
  BY DEF TypeOK
<1> QED  BY <1>1, <1>2, FiredTypes DEF Rest, TypeOK, LineFits, lineVars

LEMMA TypeStep == ASSUME TypeOK, LineFits, Type PROVE TypeOK' /\ LineFits'
<1>1. PICK end \in BOOLEAN :
        /\ usb' = Append(usb, [l |-> typed.l, p |-> typed.p + 1, end |-> end])
        /\ typed' = IF end THEN [l |-> typed.l + 1, p |-> 0]
                    ELSE [typed EXCEPT !.p = @ + 1]
  BY DEF Type
<1>2. typed.l \in Nat /\ typed.p \in Nat
  BY DEF TypeOK
<1>3. [l |-> typed.l, p |-> typed.p + 1, end |-> end] \in Char
  BY <1>2 DEF Char
<1>4. usb' \in Seq(Char)
  BY <1>1, <1>3, AppendProperties DEF TypeOK
<1>5. typed' \in [l : Nat, p : Nat]
  <2>1. CASE end
    BY <1>1, <1>2, <2>1
  <2>2. CASE ~end
    <3>1. typed \in [l : Nat, p : Nat] /\ typed' = [typed EXCEPT !.p = typed.p + 1]
      BY <1>1, <2>2 DEF TypeOK
    <3> QED  BY ONLY <1>2, <3>1
  <2> QED  BY <2>1, <2>2
<1> QED  BY <1>4, <1>5 DEF Type, TypeOK, LineFits, clockVars

\* A chunk is a prefix of what waits in the driver, no longer than the buffer.
LEMMA UsbReadStep == ASSUME TypeOK, LineFits, UsbRead PROVE TypeOK' /\ LineFits'
<1> DEFINE n == IF Len(usb) <= ChunkSize THEN Len(usb) ELSE ChunkSize
<1>1. n \in 0..Len(usb) /\ n <= ChunkSize /\ Len(usb) \in Nat
  BY LenProperties, LineAssumption DEF TypeOK
<1>2. chunk' = SubSeq(usb, 1, n) /\ usb' = SubSeq(usb, n + 1, Len(usb))
  BY DEF UsbRead
<1> HIDE DEF n
<1>3. chunk' \in Seq(Char) /\ Len(chunk') = n
  BY <1>1, <1>2, SubSeqProperties DEF TypeOK
<1>4. usb' \in Seq(Char)
  BY <1>1, <1>2, SubSeqProperties DEF TypeOK
<1>5. i' = 0 /\ pc' = "char" /\ UNCHANGED <<clockVars, info, command, typed>>
  BY DEF UsbRead
<1>6. Len(chunk') <= ChunkSize /\ i' \in 0..Len(chunk')
  BY <1>1, <1>3, <1>5
<1> QED  BY <1>3, <1>4, <1>5, <1>6 DEF TypeOK, LineFits, clockVars

\* The two indices of the test for overflow belong to different buffers; the
\* test still leaves room for one more character, because i is not negative.
LEMMA OnCharStep == ASSUME TypeOK, LineFits, OnChar PROVE TypeOK' /\ LineFits'
<1>1. i \in Nat /\ Len(chunk) \in Nat /\ i + 1 \in 1..Len(chunk)
  BY LenProperties DEF TypeOK, OnChar
<1>2. chunk[i + 1] \in Char
  BY <1>1, ElementOfSeq DEF TypeOK
<1>3. Room \in Seq(Char) /\ Len(Room) \in Nat /\ Len(Room) <= InfoSize - 2
  <2>1. <<>> \in Seq(Char) /\ Len(<<>>) = 0
    OBVIOUS
  <2>2. info \in Seq(Char) /\ Len(info) \in Nat
    BY LenProperties DEF TypeOK
  <2> QED  BY <1>1, <2>1, <2>2, LineAssumption DEF Room
<1>4. /\ Append(Room, chunk[i + 1]) \in Seq(Char)
      /\ Len(Append(Room, chunk[i + 1])) = Len(Room) + 1
  BY <1>2, <1>3, AppendProperties
<1>5. info' \in Seq(Char) /\ Len(info') <= InfoSize - 1
  <2>1. <<>> \in Seq(Char) /\ Len(<<>>) = 0
    OBVIOUS
  <2>2. CASE chunk[i + 1].end
    BY <2>1, <2>2, LineAssumption DEF OnChar
  <2>3. CASE ~chunk[i + 1].end
    <3>1. info' = Append(Room, chunk[i + 1])
      BY <2>3 DEF OnChar
    <3> QED  BY <1>3, <1>4, <3>1, LineAssumption
  <2> QED  BY <2>2, <2>3
<1>6. command' \in [text : Seq(Char), l : Nat, len : Nat]
  <2>1. chunk[i + 1].l \in Nat /\ chunk[i + 1].p - 1 \in Nat
    BY <1>2 DEF Char
  <2> QED  BY <1>3, <2>1 DEF OnChar, TypeOK
<1>7. i' \in 0..Len(chunk') /\ UNCHANGED <<pc, clockVars, usb, chunk, typed>>
  BY <1>1 DEF OnChar
<1> QED  BY <1>5, <1>6, <1>7 DEF TypeOK, LineFits, clockVars

LEMMA ChunkDoneStep ==
  ASSUME TypeOK, LineFits, ChunkDone PROVE TypeOK' /\ LineFits'
<1>1. <<>> \in Seq(Char) /\ Len(<<>>) = 0
  OBVIOUS
<1> QED  BY <1>1, LineAssumption DEF ChunkDone, TypeOK, LineFits, clockVars

LEMMA BufferStep == TypeOK /\ LineFits /\ [Next]_vars => TypeOK' /\ LineFits'
<1> SUFFICES ASSUME TypeOK, LineFits, [Next]_vars PROVE TypeOK' /\ LineFits'
  OBVIOUS
<1>1. CASE UNCHANGED vars
  BY <1>1 DEF vars, clockVars, lineVars, TypeOK, LineFits
<1> QED  BY <1>1, TurnStep, RestStep, TypeStep, UsbReadStep, OnCharStep,
            ChunkDoneStep DEF Next

LEMMA BufferHolds == Spec => [](TypeOK /\ LineFits)
  BY InitHolds, BufferStep, PTL DEF Spec

\* The line buffer is never written outside: an index of onIncomingInfo never
\* passes infoSize - 1 (cmdhandler.cpp:35-54).
THEOREM LineBufferSafe == Spec => []LineFits
<1>1. TypeOK /\ LineFits => LineFits
  OBVIOUS
<1> QED BY <1>1, BufferHolds, PTL

\* The index of onIncomingInfo stays within the chunk and the chunk within its
\* buffer, whatever is typed.
THEOREM LoopTypes == Spec => []TypeOK
<1>1. TypeOK /\ LineFits => TypeOK
  OBVIOUS
<1> QED BY <1>1, BufferHolds, PTL
-----------------------------------------------------------------------------
(* The commands are the lines that were typed *)

\* The place of a character, the one after it, and the one typed next.
Pos(c) == [l |-> c.l, p |-> c.p]
After(c) == IF c.end THEN [l |-> c.l + 1, p |-> 1] ELSE [l |-> c.l, p |-> c.p + 1]
TypedNext == [l |-> typed.l, p |-> typed.p + 1]

\* The characters of s were typed one after the other.
Linked(s) == \A k \in 1..Len(s) - 1 : After(s[k]) = Pos(s[k + 1])

\* The place of the first character that waits in the driver, or will, and of
\* the next one that onIncomingInfo gets.
UsbNext == IF usb = <<>> THEN TypedNext ELSE Pos(usb[1])
CharNext == IF i < Len(chunk) THEN Pos(chunk[i + 1]) ELSE UsbNext

\* No character is lost, doubled or moved between the host and onIncomingInfo.
StreamInv ==
  /\ Linked(usb) /\ Linked(chunk)
  /\ usb # <<>> => After(usb[Len(usb)]) = TypedNext
  /\ chunk # <<>> => After(chunk[Len(chunk)]) = UsbNext
  /\ pc # "char" => chunk = <<>> /\ i = 0

\* The line buffer holds the last characters of the line before CharNext, and
\* all of them as long as they are not more than SafeLen.
InfoInv ==
  /\ \A k \in 1..Len(info) : /\ info[k].l = CharNext.l
                             /\ info[k].p = CharNext.p - 1 - Len(info) + k
  /\ Len(info) <= CharNext.p - 1
  /\ CharNext.p - 1 <= SafeLen => Len(info) = CharNext.p - 1

LineInv == TypeOK /\ LineFits /\ StreamInv /\ InfoInv /\ CommandIsLine

Place == [l : Nat, p : Nat \ {0}]

LEMMA PlaceTypes ==
  ASSUME TypeOK
  PROVE  /\ TypedNext \in Place /\ UsbNext \in Place /\ CharNext \in Place
         /\ \A c \in Char : Pos(c) \in Place /\ After(c) \in Place
<1>1. TypedNext \in Place
  BY DEF TypeOK, TypedNext, Place
<1>2. ASSUME NEW c \in Char PROVE Pos(c) \in Place /\ After(c) \in Place
  <2>1. c.l \in Nat /\ c.p \in Nat \ {0} /\ c.l + 1 \in Nat /\ c.p + 1 \in Nat \ {0}
    BY DEF Char
  <2>2. CASE c.end
    BY <2>1, <2>2 DEF Pos, After, Place
  <2>3. CASE ~c.end
    BY <2>1, <2>3 DEF Pos, After, Place
  <2> QED BY <2>2, <2>3
<1>3. UsbNext \in Place
  <2>1. CASE usb = <<>>
    BY <1>1, <2>1 DEF UsbNext
  <2>2. CASE usb # <<>>
    <3>1. usb[1] \in Char
      BY <2>2, ElementOfSeq, EmptySeq, LenProperties DEF TypeOK
    <3> QED BY <1>2, <2>2, <3>1 DEF UsbNext
  <2> QED BY <2>1, <2>2
<1>4. CharNext \in Place
  <2>1. CASE i < Len(chunk)
    <3>1. i + 1 \in 1..Len(chunk)
      BY <2>1, LenProperties DEF TypeOK
    <3>2. chunk[i + 1] \in Char
      BY <3>1, ElementOfSeq DEF TypeOK
    <3> QED BY <1>2, <2>1, <3>2 DEF CharNext
  <2>2. CASE ~(i < Len(chunk))
    BY <1>3, <2>2 DEF CharNext
  <2> QED BY <2>1, <2>2
<1> QED BY <1>1, <1>2, <1>3, <1>4

LEMMA LineInit == Init => LineInv
<1> SUFFICES ASSUME Init PROVE LineInv
  OBVIOUS
<1>1. TypeOK /\ LineFits
  BY InitHolds
<1>2. Len(<<>>) = 0 /\ \A k \in 1..0 : FALSE
  OBVIOUS
<1>3. StreamInv
  BY <1>2 DEF Init, StreamInv, Linked
<1>4. CharNext = [l |-> 1, p |-> 1]
  BY <1>2 DEF Init, CharNext, UsbNext, TypedNext
<1>5. InfoInv
  BY <1>2, <1>4 DEF Init, InfoInv
<1>6. CommandIsLine
  BY <1>2 DEF Init, NoCommand, CommandIsLine
<1> QED BY <1>1, <1>3, <1>5, <1>6 DEF LineInv

\* A step of the clock leaves the command line alone.
LEMMA LineClock ==
  ASSUME LineInv, UNCHANGED lineVars, pc' = "char" => pc = "char",
         pc = "char" => pc' = "char"
  PROVE  StreamInv' /\ InfoInv' /\ CommandIsLine'
<1>1. UNCHANGED <<usb, chunk, i, info, command, typed>>
  BY DEF lineVars
<1>2. TypedNext' = TypedNext /\ UsbNext' = UsbNext /\ CharNext' = CharNext
  BY <1>1 DEF TypedNext, UsbNext, CharNext
<1> QED BY <1>1, <1>2 DEF LineInv, StreamInv, InfoInv, CommandIsLine, Linked

\* What is typed goes behind what waits, and does not change what comes next.
LEMMA LineType == ASSUME LineInv, Type PROVE StreamInv' /\ InfoInv' /\ CommandIsLine'
<1>1. PICK end \in BOOLEAN :
        /\ usb' = Append(usb, [l |-> typed.l, p |-> typed.p + 1, end |-> end])
        /\ typed' = IF end THEN [l |-> typed.l + 1, p |-> 0]
                    ELSE [typed EXCEPT !.p = @ + 1]
  BY DEF Type
<1> DEFINE c == [l |-> typed.l, p |-> typed.p + 1, end |-> end]
<1>2. typed \in [l : Nat, p : Nat] /\ usb \in Seq(Char)
  BY DEF LineInv, TypeOK
<1>3. Pos(c) = TypedNext
  BY DEF Pos, TypedNext
<1>4. After(c) = TypedNext'
  <2>1. CASE end
    BY <1>1, <1>2, <2>1 DEF After, TypedNext
  <2>2. CASE ~end
    <3>1. typed'.l = typed.l /\ typed'.p = typed.p + 1
      BY <1>1, <1>2, <2>2
    <3> QED BY <2>2, <3>1 DEF After, TypedNext
  <2> QED BY <2>1, <2>2
<1>5. c \in Char
  BY <1>2 DEF Char
<1>6. usb' = Append(usb, c)
  BY <1>1
<1> HIDE DEF c
<1>7. /\ Len(usb) \in Nat /\ Len(usb') = Len(usb) + 1 /\ usb' # <<>>
      /\ \A k \in 1..Len(usb) : usb'[k] = usb[k]
      /\ usb'[Len(usb) + 1] = c
  BY <1>2, <1>5, <1>6, AppendProperties, LenProperties
<1>8. UsbNext' = UsbNext
  <2>1. CASE usb = <<>>
    <3>1. Len(usb) = 0
      BY <2>1
    <3> QED BY <1>3, <1>7, <2>1, <3>1 DEF UsbNext
  <2>2. CASE usb # <<>>
    <3>1. 1 \in 1..Len(usb)
      BY <1>2, <1>7, <2>2, EmptySeq
    <3> QED BY <1>7, <2>2, <3>1 DEF UsbNext
  <2> QED BY <2>1, <2>2
<1>9. UNCHANGED <<pc, chunk, i, info, command>>
  BY DEF Type
<1>10. Linked(usb')
  <2> SUFFICES ASSUME NEW k \in 1..Len(usb') - 1 PROVE After(usb'[k]) = Pos(usb'[k + 1])
    BY DEF Linked
  <2>1. CASE k \in 1..Len(usb) - 1
    <3>1. k \in 1..Len(usb) /\ k + 1 \in 1..Len(usb)
      BY <1>7, <2>1
    <3> QED BY <1>7, <2>1, <3>1 DEF LineInv, StreamInv, Linked
  <2>2. CASE k = Len(usb)
    <3>1. k \in 1..Len(usb) /\ usb # <<>>
      BY <1>7, <2>2
    <3> QED BY <1>3, <1>7, <2>2, <3>1 DEF LineInv, StreamInv
  <2> QED BY <1>7, <2>1, <2>2
<1>11. StreamInv'
  BY <1>4, <1>7, <1>8, <1>9, <1>10 DEF LineInv, StreamInv, Linked
<1>12. CharNext' = CharNext
  BY <1>8, <1>9 DEF CharNext
<1> QED BY <1>9, <1>11, <1>12 DEF LineInv, InfoInv, CommandIsLine

\* A chunk is cut from the front of what waits.
LEMMA LineUsbRead ==
  ASSUME LineInv, UsbRead PROVE StreamInv' /\ InfoInv' /\ CommandIsLine'
<1> DEFINE n == IF Len(usb) <= ChunkSize THEN Len(usb) ELSE ChunkSize
<1>1. /\ usb \in Seq(Char) /\ usb # <<>> /\ Len(usb) \in Nat
      /\ chunk = <<>> /\ i = 0
  BY LenProperties DEF LineInv, TypeOK, StreamInv, UsbRead
<1>2. Len(usb) >= 1
  BY <1>1, EmptySeq
<1>3. n \in 1..Len(usb)
  BY <1>1, <1>2, LineAssumption
<1>4. /\ chunk' = SubSeq(usb, 1, n) /\ usb' = SubSeq(usb, n + 1, Len(usb))
      /\ i' = 0 /\ pc' = "char" /\ UNCHANGED <<info, command, typed>>
  BY DEF UsbRead
<1> HIDE DEF n
<1>5. /\ chunk' \in Seq(Char) /\ Len(chunk') = n
      /\ \A k \in 1..n : chunk'[k] = usb[k]
  <2>1. \A k \in 1..n : usb[k] \in Char
    BY <1>1, <1>3, ElementOfSeq
  <2>2. n \in Nat /\ 1 \in 1..Len(usb) + 1 /\ n <= Len(usb)
    BY <1>1, <1>2, <1>3
  <2> QED BY <1>1, <1>3, <1>4, <2>1, <2>2, SubSeqProperties
<1>6. /\ usb' \in Seq(Char) /\ Len(usb') = Len(usb) - n
      /\ \A k \in 1..Len(usb) - n : usb'[k] = usb[n + k]
  <2> DEFINE s == SubSeq(usb, n + 1, Len(usb))
  <2>1. n \in Nat /\ n + 1 \in Int /\ Len(usb) \in Int /\ n <= Len(usb)
    BY <1>1, <1>3
  <2>2. \A k \in n + 1..Len(usb) : usb[k] \in Char
    BY <1>1, <1>3, ElementOfSeq
  <2>3. /\ s \in Seq(Char)
        /\ Len(s) = IF n + 1 <= Len(usb) THEN Len(usb) - (n + 1) + 1 ELSE 0
        /\ \A k \in 1..Len(usb) - (n + 1) + 1 : s[k] = usb[(n + 1) + k - 1]
    BY <2>1, <2>2, SubSeqProperties
  <2>4. Len(usb) - (n + 1) + 1 = Len(usb) - n /\ \A k \in Int : (n + 1) + k - 1 = n + k
    BY <2>1
  <2>5. Len(s) = Len(usb) - n
    BY <2>1, <2>3
  <2>6. \A k \in 1..Len(usb) - n : s[k] = usb[n + k]
    BY ONLY <2>1, <2>3, <2>4
  <2> QED BY <1>4, <2>3, <2>5, <2>6
<1>7. TypedNext' = TypedNext
  BY <1>4 DEF TypedNext
<1>8. Linked(chunk')
  <2> SUFFICES ASSUME NEW k \in 1..Len(chunk') - 1 PROVE After(chunk'[k]) = Pos(chunk'[k + 1])
    BY DEF Linked
  <2>1. k \in 1..n /\ k + 1 \in 1..n /\ k \in 1..Len(usb) - 1
    BY <1>1, <1>3, <1>5
  <2> QED BY <1>5, <2>1 DEF LineInv, StreamInv, Linked
<1>9. Linked(usb')
  <2> SUFFICES ASSUME NEW k \in 1..Len(usb') - 1 PROVE After(usb'[k]) = Pos(usb'[k + 1])
    BY DEF Linked
  <2>1. /\ k \in 1..Len(usb) - n /\ k + 1 \in 1..Len(usb) - n
        /\ n + k \in 1..Len(usb) - 1 /\ n + (k + 1) = (n + k) + 1
    BY <1>1, <1>3, <1>6
  <2>2. usb'[k] = usb[n + k] /\ usb'[k + 1] = usb[(n + k) + 1]
    BY <1>6, <2>1
  <2> QED BY <2>1, <2>2 DEF LineInv, StreamInv, Linked
<1>10. InfoInv' /\ CommandIsLine'
  <2>1. 1 \in 1..n /\ 0 + 1 = 1 /\ 0 < n
    BY <1>3
  <2>2. CharNext' = Pos(usb[1])
    BY <1>4, <1>5, <2>1 DEF CharNext
  <2>3. CharNext = Pos(usb[1])
    <3>1. ~(0 < Len(<<>>))
      OBVIOUS
    <3> QED BY <1>1, <3>1 DEF CharNext, UsbNext
  <2> QED BY <1>4, <2>2, <2>3 DEF LineInv, InfoInv, CommandIsLine
<1>11. CASE n = Len(usb)
  <2>1. usb' = <<>>
    BY <1>1, <1>6, <1>11, EmptySeq
  <2>2. UsbNext' = TypedNext
    BY <1>7, <2>1 DEF UsbNext
  <2>3. After(chunk'[Len(chunk')]) = UsbNext'
    BY <1>1, <1>3, <1>5, <1>11, <2>2 DEF LineInv, StreamInv
  <2> QED BY <1>4, <1>7, <1>8, <1>9, <2>1, <2>3, <1>10 DEF StreamInv
<1>12. CASE n < Len(usb)
  <2>1. 1 \in 1..Len(usb) - n /\ Len(usb) - n \in 1..Len(usb) - n /\ n \in 1..Len(usb) - 1
    BY <1>1, <1>3, <1>12
  <2>2. usb' # <<>>
    BY <1>6, <2>1
  <2>3. usb'[1] = usb[n + 1] /\ usb'[Len(usb')] = usb[Len(usb)]
    <3>1. n + (Len(usb) - n) = Len(usb)
      BY <1>1, <1>3
    <3> QED BY <1>6, <2>1, <3>1
  <2>4. UsbNext' = Pos(usb[n + 1])
    BY <2>2, <2>3 DEF UsbNext
  <2>5. After(chunk'[Len(chunk')]) = UsbNext'
    <3>1. chunk'[Len(chunk')] = usb[n]
      BY <1>3, <1>5
    <3> QED BY <2>1, <2>4, <3>1 DEF LineInv, StreamInv, Linked
  <2>6. After(usb'[Len(usb')]) = TypedNext'
    BY <1>1, <1>7, <2>3 DEF LineInv, StreamInv
  <2> QED BY <1>4, <1>8, <1>9, <2>5, <2>6, <1>10 DEF StreamInv
<1> QED BY <1>1, <1>3, <1>11, <1>12

\* One character: the line goes on, ends, or is cut off at its front when it is
\* longer than SafeLen.
LEMMA LineOnChar ==
  ASSUME LineInv, OnChar PROVE StreamInv' /\ InfoInv' /\ CommandIsLine'
<1> DEFINE c == chunk[i + 1]
<1>1. /\ i \in Nat /\ Len(chunk) \in Nat /\ i < Len(chunk) /\ i + 1 \in 1..Len(chunk)
      /\ Len(chunk) <= ChunkSize /\ pc = "char"
  BY LenProperties DEF LineInv, TypeOK, OnChar
<1>2. c \in Char
  BY <1>1, ElementOfSeq DEF LineInv, TypeOK
<1>3. UNCHANGED <<pc, usb, chunk, typed>> /\ i' = i + 1
  BY DEF OnChar
<1>4. /\ c.end => command' = [text |-> Room, l |-> c.l, len |-> c.p - 1] /\ info' = <<>>
      /\ ~c.end => info' = Append(Room, c) /\ command' = command
  BY DEF OnChar
<1>5. CharNext = Pos(c)
  BY <1>1 DEF CharNext
<1>6. CharNext' = After(c)
  <2>1. UsbNext' = UsbNext
    BY <1>3 DEF UsbNext, TypedNext
  <2>2. CASE i + 1 < Len(chunk)
    <3>1. i + 1 \in 1..Len(chunk) - 1
      BY <1>1, <2>2
    <3> QED BY <1>3, <2>2, <3>1 DEF CharNext, LineInv, StreamInv, Linked
  <2>3. CASE i + 1 = Len(chunk)
    <3>1. chunk # <<>>
      BY <1>1
    <3> QED BY <1>3, <2>1, <2>3, <3>1 DEF CharNext, LineInv, StreamInv
  <2> QED BY <1>1, <2>2, <2>3
<1>7. StreamInv'
  BY <1>1, <1>3 DEF LineInv, StreamInv, Linked, UsbNext, TypedNext
<1> HIDE DEF c
<1>8. c.l \in Nat /\ c.p \in Nat \ {0} /\ CharNext.l = c.l /\ CharNext.p = c.p
  BY <1>2, <1>5 DEF Char, Pos
<1>9. info \in Seq(Char) /\ Len(info) \in Nat
  BY LenProperties DEF LineInv, TypeOK
<1>10. SafeLen \in Nat /\ SafeLen = InfoSize - ChunkSize - 1
  BY LineAssumption DEF SafeLen
<1>11. /\ Room \in Seq(Char) /\ Len(Room) \in Nat
       /\ \A k \in 1..Len(Room) : Room[k].l = c.l /\ Room[k].p = c.p - 1 - Len(Room) + k
       /\ Len(Room) <= c.p - 1
       /\ c.p - 1 <= SafeLen => Len(Room) = c.p - 1
  <2>1. CASE i + Len(info) >= InfoSize - 1
    <3>1. Room = <<>>
      BY <2>1 DEF Room
    <3>2. Len(info) > SafeLen
      BY <1>1, <1>9, <1>10, <2>1, LineAssumption
    <3>3. c.p - 1 > SafeLen
      BY <1>8, <1>9, <1>10, <3>2 DEF LineInv, InfoInv
    <3>4. <<>> \in Seq(Char) /\ Len(<<>>) = 0
      OBVIOUS
    <3> QED BY <1>8, <1>10, <3>1, <3>3, <3>4
  <2>2. CASE ~(i + Len(info) >= InfoSize - 1)
    <3>1. Room = info
      BY <2>2 DEF Room
    <3> QED BY <1>8, <1>9, <3>1 DEF LineInv, InfoInv
  <2> QED BY <2>1, <2>2
<1>12. CASE c.end
  <2>1. CharNext' = [l |-> c.l + 1, p |-> 1] /\ info' = <<>> /\ Len(info') = 0
    BY <1>4, <1>6, <1>12 DEF After
  <2>2. InfoInv'
    BY <1>10, <2>1 DEF InfoInv, SafeLen
  <2>3. command'.text = Room /\ command'.l = c.l /\ command'.len = c.p - 1
    BY <1>4, <1>12
  <2>4. CommandIsLine'
    BY <1>8, <1>11, <2>3 DEF CommandIsLine, SafeLen
  <2> QED BY <1>7, <2>2, <2>4
<1>13. CASE ~c.end
  <2>1. CharNext'.l = c.l /\ CharNext'.p = c.p + 1
    BY <1>6, <1>13 DEF After
  <2>2. /\ info' = Append(Room, c) /\ command' = command
        /\ Len(info') = Len(Room) + 1
        /\ \A k \in 1..Len(Room) : info'[k] = Room[k]
        /\ info'[Len(Room) + 1] = c
    BY <1>2, <1>4, <1>11, <1>13, AppendProperties
  <2>3. ASSUME NEW k \in 1..Len(info')
        PROVE  info'[k].l = CharNext'.l /\ info'[k].p = CharNext'.p - 1 - Len(info') + k
    <3>1. CASE k \in 1..Len(Room)
      BY <1>8, <1>11, <2>1, <2>2, <3>1
    <3>2. CASE k = Len(Room) + 1
      BY <1>8, <1>11, <2>1, <2>2, <3>2
    <3> QED BY <1>11, <2>2, <3>1, <3>2
  <2>4. /\ Len(info') <= CharNext'.p - 1
        /\ CharNext'.p - 1 <= SafeLen => Len(info') = CharNext'.p - 1
    BY <1>8, <1>10, <1>11, <2>1, <2>2
  <2>5. InfoInv'
    BY <2>3, <2>4 DEF InfoInv, SafeLen
  <2>6. CommandIsLine'
    BY <2>2 DEF LineInv, CommandIsLine, SafeLen
  <2> QED BY <1>7, <2>5, <2>6
<1> QED BY <1>12, <1>13

LEMMA LineChunkDone ==
  ASSUME LineInv, ChunkDone PROVE StreamInv' /\ InfoInv' /\ CommandIsLine'
<1>1. /\ UNCHANGED <<usb, info, command, typed>> /\ chunk' = <<>> /\ i' = 0
      /\ i = Len(chunk) /\ pc' = "usb"
  BY DEF ChunkDone
<1>2. UsbNext' = UsbNext /\ TypedNext' = TypedNext
  BY <1>1 DEF UsbNext, TypedNext
<1>3. Len(<<>>) = 0 /\ Len(chunk) \in Nat
  BY LenProperties DEF LineInv, TypeOK
<1>4. CharNext' = CharNext
  BY <1>1, <1>2, <1>3 DEF CharNext
<1>5. StreamInv'
  BY <1>1, <1>2, <1>3 DEF LineInv, StreamInv, Linked
<1> QED BY <1>1, <1>4, <1>5 DEF LineInv, InfoInv, CommandIsLine

LEMMA LineNext == LineInv /\ [Next]_vars => LineInv'
<1> SUFFICES ASSUME LineInv, [Next]_vars PROVE LineInv'
  OBVIOUS
<1>1. TypeOK' /\ LineFits'
  BY BufferStep DEF LineInv
<1>2. StreamInv' /\ InfoInv' /\ CommandIsLine'
  <2>1. CASE UNCHANGED vars
    <3>1. UNCHANGED lineVars /\ pc' = pc
      BY <2>1 DEF vars, lineVars
    <3> QED BY <3>1, LineClock
  <2>2. ASSUME NEW d \in 0..MaxTurn, Turn(d) PROVE StreamInv' /\ InfoInv' /\ CommandIsLine'
    <3>1. UNCHANGED lineVars /\ pc = "loop" /\ pc' # "char"
      BY <2>2 DEF Turn
    <3> QED BY <3>1, LineClock
  <2>3. CASE Rest
    <3>1. UNCHANGED lineVars /\ pc = "usb" /\ pc' # "char"
      BY <2>3 DEF Rest
    <3> QED BY <3>1, LineClock
  <2> QED BY <2>1, <2>2, <2>3, LineType, LineUsbRead, LineOnChar, LineChunkDone DEF Next
<1> QED BY <1>1, <1>2 DEF LineInv

\* What onIncomingInfo executes is the end of one line as it was typed, and the
\* whole line if it is no longer than SafeLen, for every length of the lines
\* and every cut of them into chunks.
THEOREM CommandsAreLines == Spec => []CommandIsLine
<1>1. LineInv => CommandIsLine
  BY DEF LineInv
<1> QED BY <1>1, LineInit, LineNext, PTL DEF Spec

-----------------------------------------------------------------------------
(* The events keep their rate, over the wrap of the clock *)

\* What a remainder is when the clock wraps at most once.
LEMMA ModSmall == ASSUME NEW m \in Nat \ {0}, NEW a \in 0..m - 1 PROVE a % m = a
  OBVIOUS

LEMMA ModOnce == ASSUME NEW m \in Nat \ {0}, NEW a \in m..m + m - 1 PROVE a % m = a - m
  OBVIOUS

LEMMA ModNegative == ASSUME NEW m \in Nat \ {0}, NEW a \in (-m)..(-1) PROVE a % m = a + m
  OBVIOUS

LEMMA ModSum ==
  ASSUME NEW m \in Nat \ {0}, NEW a \in 0..m - 1, NEW d \in 0..m - 1
  PROVE  /\ a + d < m => (a + d) % m = a + d
         /\ a + d >= m => (a + d) % m = a + d - m
<1>1. CASE a + d < m
  <2>1. a + d \in 0..m - 1
    BY <1>1
  <2>2. (a + d) % m = a + d
    BY ONLY <2>1, ModSmall, m \in Nat \ {0}
  <2> QED BY <1>1, <2>2
<1>2. CASE a + d >= m
  <2>1. a + d \in m..m + m - 1
    BY <1>2
  <2>2. (a + d) % m = a + d - m
    BY ONLY <2>1, ModOnce, m \in Nat \ {0}
  <2> QED BY <1>2, <2>2
<1> QED BY <1>1, <1>2

\* The time since event e as the clock tells it at t.
AgeAt(e, t) == IF t >= pingTime[e] THEN t - pingTime[e] ELSE t - pingTime[e] + ClockMod
Age(e) == AgeAt(e, msNow)

\* An event that was not held up at the wrap has been found not yet due, or was
\* run, when the event around it was run last; the clock tells its true age;
\* and the clock has not wrapped since it ran if the sum did not.
ClockInv ==
  /\ 1 \in held => 2 \in held
  /\ 2 \in held => 3 \in held
  /\ pc # "loop" => 2 \notin held /\ pingTime[1] = msNow /\ pingTime[2] = msNow
  /\ 1 \notin held => Age(1) <= Period[1]
  /\ 2 \notin held => Age(2) <= Period[2] + Age(1)
  /\ 3 \notin held /\ pc = "loop" => Age(3) <= Period[3] + Age(2)
  /\ 3 \notin held => Age(3) <= Period[3] + Gap(3)
  /\ \A e \in Events \ held : since[e] <= Age(e)
  /\ \A e \in Events \ held : pingTime[e] + Period[e] < ClockMod => pingTime[e] <= msNow

\* The clock never tells more than the true age, as far as that is kept.
AgeInv == \A e \in Events : since[e] = MaxAge \/ since[e] >= Age(e)

LEMMA ClockConstants ==
  /\ ClockMod \in Nat \ {0} /\ MaxTurn \in Nat \ {0} /\ MaxAge \in Nat
  /\ Period[1] \in Nat \ {0} /\ Period[2] \in Nat \ {0} /\ Period[3] \in Nat \ {0}
  /\ Period[3] + Period[2] + Period[1] + 3 * MaxTurn < ClockMod
  /\ Gap(1) = MaxTurn /\ Gap(2) = Period[1] + MaxTurn
  /\ Gap(3) = Period[1] + Period[2] + MaxTurn
  /\ \A e \in Events : e = 1 \/ e = 2 \/ e = 3
<1>1. 1 \in Events /\ 2 \in Events /\ 3 \in Events /\ \A e \in Events : e = 1 \/ e = 2 \/ e = 3
  BY DEF Events
<1> QED BY <1>1, ClockPositive, ClockAssumption DEF Gap

\* What moving the clock by d does to the age of an event.
LEMMA AgeMoves ==
  ASSUME TypeOK, NEW e \in Events, NEW d \in 0..MaxTurn,
         NEW t, t = (msNow + d) % ClockMod
  PROVE  /\ t \in 0..ClockMod - 1
         /\ t < msNow => msNow + d >= ClockMod
         /\ Age(e) \in Nat /\ AgeAt(e, t) \in Nat
         /\ AgeAt(e, t) <= Age(e) + d
         /\ Age(e) + d < ClockMod => AgeAt(e, t) = Age(e) + d
         /\ pingTime[e] <= msNow => Age(e) = msNow - pingTime[e]
<1>1. /\ msNow \in 0..ClockMod - 1 /\ pingTime[e] \in 0..ClockMod - 1
      /\ ClockMod \in Nat \ {0} /\ d \in 0..ClockMod - 1
  <2>1. MaxTurn \in Nat /\ ClockMod \in Nat \ {0} /\ MaxTurn < ClockMod
    BY ClockConstants
  <2>2. msNow \in 0..ClockMod - 1 /\ pingTime[e] \in 0..ClockMod - 1
    BY DEF TypeOK
  <2> QED BY <2>1, <2>2
<1>2. /\ msNow + d < ClockMod => t = msNow + d
      /\ msNow + d >= ClockMod => t = msNow + d - ClockMod
  <2>1. /\ msNow + d < ClockMod => (msNow + d) % ClockMod = msNow + d
        /\ msNow + d >= ClockMod => (msNow + d) % ClockMod = msNow + d - ClockMod
    BY ONLY <1>1, ModSum
  <2> QED BY <2>1
<1>3. CASE msNow + d < ClockMod
  BY ONLY <1>1, <1>2, <1>3 DEF Age, AgeAt
<1>4. CASE msNow + d >= ClockMod
  BY ONLY <1>1, <1>2, <1>4 DEF Age, AgeAt
<1> QED BY <1>1, <1>3, <1>4

\* msNow > pingTime + period in 32 bits: when it is false the period is not
\* over, or the clock has wrapped and the sum has not.
LEMMA NotDue ==
  ASSUME TypeOK, NEW e \in Events, NEW t \in 0..ClockMod - 1, ~Due(e, t),
         pingTime[e] + Period[e] < ClockMod => pingTime[e] <= t
  PROVE  AgeAt(e, t) <= Period[e]
<1>1. /\ pingTime[e] \in 0..ClockMod - 1 /\ ClockMod \in Nat \ {0}
      /\ Period[e] \in 0..ClockMod - 1
  <2>1. e = 1 \/ e = 2 \/ e = 3
    BY ClockConstants
  <2>2. Period[e] \in 0..ClockMod - 1
    BY <2>1, ClockConstants
  <2> QED BY <2>2, ClockConstants DEF TypeOK
<1>2. /\ pingTime[e] + Period[e] < ClockMod =>
           (pingTime[e] + Period[e]) % ClockMod = pingTime[e] + Period[e]
      /\ pingTime[e] + Period[e] >= ClockMod =>
           (pingTime[e] + Period[e]) % ClockMod = pingTime[e] + Period[e] - ClockMod
  BY ONLY <1>1, ModSum
<1> DEFINE s == (pingTime[e] + Period[e]) % ClockMod
<1>3. ~(t > s)
  BY DEF Due
<1>4. /\ pingTime[e] + Period[e] < ClockMod => s = pingTime[e] + Period[e]
      /\ pingTime[e] + Period[e] >= ClockMod => s = pingTime[e] + Period[e] - ClockMod
  BY <1>2
<1> HIDE DEF s
<1>5. CASE pingTime[e] + Period[e] < ClockMod
  BY <1>1, <1>3, <1>4, <1>5 DEF AgeAt
<1>6. CASE pingTime[e] + Period[e] >= ClockMod
  BY <1>1, <1>3, <1>4, <1>6 DEF AgeAt
<1> QED BY <1>1, <1>5, <1>6

LEMMA FiredAge ==
  ASSUME TypeOK, NEW S, NEW t \in 0..ClockMod - 1, NEW d \in Nat, Fired(S, t, d)
  PROVE  \A e \in Events :
           /\ e \in S => Age(e)' = 0 /\ since'[e] = 0 /\ pingTime'[e] = t
           /\ e \notin S => /\ Age(e)' = AgeAt(e, t) /\ pingTime'[e] = pingTime[e]
                            /\ since'[e] = Older(since[e], d)
<1> SUFFICES ASSUME NEW e \in Events
             PROVE  /\ e \in S => Age(e)' = 0 /\ since'[e] = 0 /\ pingTime'[e] = t
                    /\ e \notin S => /\ Age(e)' = AgeAt(e, t) /\ pingTime'[e] = pingTime[e]
                                     /\ since'[e] = Older(since[e], d)
  OBVIOUS
<1>1. /\ pingTime'[e] = IF e \in S THEN t ELSE pingTime[e]
      /\ since'[e] = IF e \in S THEN 0 ELSE Older(since[e], d)
      /\ msNow' = t
  BY DEF Fired
<1>2. t >= t /\ t - t = 0
  BY ClockConstants
<1> QED BY <1>1, <1>2 DEF Age, AgeAt

LEMMA ClockInit == Init => ClockInv /\ AgeInv
<1> SUFFICES ASSUME Init PROVE ClockInv /\ AgeInv
  OBVIOUS
<1>1. msNow \in Nat /\ \A e \in Events : pingTime[e] = msNow /\ since[e] = 0
  BY ClockConstants DEF Init
<1>2. \A e \in Events : Age(e) = 0
  BY <1>1 DEF Age, AgeAt
<1>3. 1 \in Events /\ 2 \in Events /\ 3 \in Events
  BY DEF Events
<1>4. held = {} /\ pc = "loop"
  BY DEF Init
<1>5. /\ 0 <= Period[1] /\ 0 <= Period[2] + 0 /\ 0 <= Period[3] + 0
      /\ 0 <= Period[3] + Gap(3)
  BY ONLY ClockConstants
<1>6. msNow <= msNow
  BY <1>1
<1>7. ClockInv
  BY <1>1, <1>2, <1>3, <1>4, <1>5, <1>6 DEF ClockInv
<1>8. AgeInv
  BY <1>1, <1>2 DEF AgeInv
<1> QED BY <1>7, <1>8

\* The ages when the loop looks at the clock, before an event is run.
LEMMA AgesAtTurn ==
  ASSUME TypeOK, ClockInv, pc = "loop", NEW d \in 0..MaxTurn,
         NEW t, t = (msNow + d) % ClockMod
  PROVE  /\ 1 \notin held => AgeAt(1, t) = Age(1) + d /\ AgeAt(1, t) <= Period[1] + Gap(1)
         /\ 2 \notin held => /\ AgeAt(2, t) = Age(2) + d /\ AgeAt(2, t) <= Period[2] + AgeAt(1, t)
                             /\ AgeAt(2, t) <= Period[2] + Gap(2)
         /\ 3 \notin held => /\ AgeAt(3, t) = Age(3) + d /\ AgeAt(3, t) <= Period[3] + AgeAt(2, t)
                             /\ AgeAt(3, t) <= Period[3] + Gap(3)
<1>1. 1 \in Events /\ 2 \in Events /\ 3 \in Events
  BY DEF Events
<1>2. /\ Age(1) \in Nat /\ (Age(1) + d < ClockMod => AgeAt(1, t) = Age(1) + d)
      /\ Age(2) \in Nat /\ (Age(2) + d < ClockMod => AgeAt(2, t) = Age(2) + d)
      /\ Age(3) \in Nat /\ (Age(3) + d < ClockMod => AgeAt(3, t) = Age(3) + d)
  BY <1>1, AgeMoves
<1>3. /\ 1 \notin held => Age(1) <= Period[1]
      /\ 2 \notin held => 1 \notin held /\ Age(2) <= Period[2] + Age(1)
      /\ 3 \notin held => 2 \notin held /\ Age(3) <= Period[3] + Age(2)
  BY DEF ClockInv
<1> HIDE DEF Age, AgeAt
<1> QED BY ONLY <1>2, <1>3, ClockConstants, d \in 0..MaxTurn

\* An event that is not held up now: the clock has passed its last time.
LEMMA NoWrap ==
  ASSUME TypeOK, ClockInv, pc = "loop", NEW d \in 0..MaxTurn,
         NEW t, t = (msNow + d) % ClockMod,
         NEW e \in Events, e \notin held, e \notin Missed(t),
         pingTime[e] + Period[e] < ClockMod
  PROVE  pingTime[e] <= t
<1>1. /\ t \in 0..ClockMod - 1 /\ msNow \in 0..ClockMod - 1 /\ pingTime[e] \in 0..ClockMod - 1
      /\ ClockMod \in Nat
  BY AgeMoves, ClockConstants DEF TypeOK
<1>2. pingTime[e] <= msNow
  BY DEF ClockInv
<1>3. CASE t >= msNow
  BY <1>1, <1>2, <1>3
<1>4. CASE t < msNow
  <2>1. msNow + d >= ClockMod /\ Age(e) = msNow - pingTime[e]
    BY <1>2, <1>4, AgeMoves
  <2>2. Age(e) + d <= Period[e] + Gap(e)
    <3>1. e = 1 \/ e = 2 \/ e = 3
      BY ClockConstants
    <3>2. CASE e = 1
      BY <3>2, AgesAtTurn
    <3>3. CASE e = 2
      BY <3>3, AgesAtTurn
    <3>4. CASE e = 3
      BY <3>4, AgesAtTurn
    <3> QED BY <3>1, <3>2, <3>3, <3>4
  <2>3. Period[e] \in Nat /\ Gap(e) \in Nat /\ e \in 1..e /\ 1..e \subseteq Events
    <3>1. e = 1 \/ e = 2 \/ e = 3
      BY ClockConstants
    <3>2. Period[e] \in Nat /\ Gap(e) \in Nat
      BY <3>1, ClockConstants
    <3> QED BY <3>2 DEF Events
  <2>4. pingTime[e] + Period[e] \in ClockMod - Gap(e)..ClockMod - 1
    <3> HIDE DEF Age, Gap
    <3>1. d \in Int
      BY ClockConstants
    <3> QED BY ONLY <1>1, <2>1, <2>2, <2>3, <3>1, pingTime[e] + Period[e] < ClockMod
  <2>5. AtWrap(e)
    BY <2>4 DEF AtWrap
  <2> QED BY <1>4, <2>3, <2>5 DEF Missed
<1> QED BY <1>1, <1>3, <1>4

\* Moving the clock keeps what is said of the true ages.
LEMMA OlderBounds ==
  ASSUME TypeOK, NEW e \in Events, NEW d \in Nat
  PROVE  /\ Older(since[e], d) <= since[e] + d
         /\ Older(since[e], d) = MaxAge \/ Older(since[e], d) = since[e] + d
         /\ since[e] = MaxAge => Older(since[e], d) = MaxAge
<1>1. since[e] \in 0..MaxAge /\ MaxAge \in Nat
  BY ClockConstants DEF TypeOK
<1> QED BY <1>1 DEF Older

LEMMA TurnClock ==
  ASSUME TypeOK, ClockInv, NEW d \in 0..MaxTurn, Turn(d) PROVE ClockInv'
<1> DEFINE t == (msNow + d) % ClockMod
           run1 == Due(1, t)
           run2 == run1 /\ Due(2, t)
           S == {e \in {1, 2} : IF e = 1 THEN run1 ELSE run2}
<1>1. /\ pc = "loop" /\ Fired(S, t, d)
      /\ pc' = IF run2 THEN "usb" ELSE "loop"
  BY DEF Turn
<1>2. /\ 1 \in Events /\ 2 \in Events /\ 3 \in Events /\ \A e \in Events : e = 1 \/ e = 2 \/ e = 3
      /\ d \in Nat /\ msNow' = t /\ held' = (held \cup Missed(t)) \ S
  BY <1>1, ClockConstants DEF Events, Fired
<1>3. /\ 1 \in S <=> run1
      /\ 2 \in S <=> run2
      /\ 3 \notin S
  OBVIOUS
<1>4. t \in 0..ClockMod - 1 /\ t = (msNow + d) % ClockMod
  BY <1>2, AgeMoves
<1> HIDE DEF t, run1, run2, S
<1>5. \A e \in Events :
        /\ e \in S => Age(e)' = 0 /\ since'[e] = 0 /\ pingTime'[e] = t
        /\ e \notin S => /\ Age(e)' = AgeAt(e, t) /\ pingTime'[e] = pingTime[e]
                         /\ since'[e] = Older(since[e], d)
  BY <1>1, <1>2, <1>4, FiredAge
<1>6. /\ 1 \notin held => AgeAt(1, t) = Age(1) + d /\ AgeAt(1, t) <= Period[1] + Gap(1)
      /\ 2 \notin held => /\ AgeAt(2, t) = Age(2) + d /\ AgeAt(2, t) <= Period[2] + AgeAt(1, t)
                          /\ AgeAt(2, t) <= Period[2] + Gap(2)
      /\ 3 \notin held => /\ AgeAt(3, t) = Age(3) + d /\ AgeAt(3, t) <= Period[3] + AgeAt(2, t)
                          /\ AgeAt(3, t) <= Period[3] + Gap(3)
  BY <1>1, <1>4, AgesAtTurn
<1>7. \A e \in Events : AgeAt(e, t) \in Nat /\ Age(e) \in Nat
  BY <1>4, AgeMoves
<1>8. \A e \in Events \ held : e \notin Missed(t) /\ ~Due(e, t) => AgeAt(e, t) <= Period[e]
  <2> SUFFICES ASSUME NEW e \in Events \ held, e \notin Missed(t), ~Due(e, t)
               PROVE  AgeAt(e, t) <= Period[e]
    OBVIOUS
  <2>1. pingTime[e] + Period[e] < ClockMod => pingTime[e] <= t
    BY <1>1, <1>4, NoWrap
  <2> QED BY <1>4, <2>1, NotDue
<1>9. /\ 1 \in Missed(t) => 2 \in Missed(t)
      /\ 2 \in Missed(t) => 3 \in Missed(t)
  <2>1. \A x \in 1..1 : x \in 1..2
    OBVIOUS
  <2>2. \A x \in 1..2 : x \in 1..3
    OBVIOUS
  <2> QED BY <1>2, <2>1, <2>2 DEF Missed
<1>10. /\ 1 \in held => 2 \in held
       /\ 2 \in held => 3 \in held
  BY DEF ClockInv
<1>11. t <= t /\ ClockMod \in Nat
  BY <1>4, ClockConstants
<1>12. /\ 1 \in held' => 2 \in held'
       /\ 2 \in held' => 3 \in held'
  <2>1. run2 => run1
    BY DEF run1, run2
  <2> QED BY <1>2, <1>3, <1>9, <1>10, <2>1
<1>13. pc' # "loop" => 2 \notin held' /\ pingTime'[1] = msNow' /\ pingTime'[2] = msNow'
  <2>1. pc' # "loop" => run1 /\ run2
    BY <1>1 DEF run1, run2
  <2> QED BY <1>2, <1>3, <1>5, <2>1
<1>14. 1 \notin held' => Age(1)' <= Period[1]
  <2>1. CASE run1
    BY <1>2, <1>3, <1>5, <2>1, ClockConstants
  <2>2. CASE ~run1
    BY <1>2, <1>3, <1>5, <1>8, <2>2 DEF run1
  <2> QED BY <2>1, <2>2
<1>15. 2 \notin held' => Age(2)' <= Period[2] + Age(1)'
  <2>1. CASE run2
    <3>1. Age(1)' = 0 /\ Age(2)' = 0
      BY <1>2, <1>3, <1>5, <2>1 DEF run2
    <3> QED BY <3>1, ClockConstants
  <2>2. CASE run1 /\ ~run2
    <3>1. Age(1)' = 0 /\ Age(2)' = AgeAt(2, t) /\ ~Due(2, t)
      BY <1>2, <1>3, <1>5, <2>2 DEF run2
    <3>2. 2 \notin held' => AgeAt(2, t) <= Period[2]
      BY <1>2, <1>3, <1>8, <2>2, <3>1
    <3> QED BY <1>2, <1>7, <3>1, <3>2, ClockConstants
  <2>3. CASE ~run1
    BY <1>2, <1>3, <1>5, <1>6, <2>3 DEF run2
  <2> QED BY <2>1, <2>2, <2>3 DEF run2
<1>16. 3 \notin held' /\ pc' = "loop" => Age(3)' <= Period[3] + Age(2)'
  BY <1>1, <1>2, <1>3, <1>5, <1>6
<1>17. 3 \notin held' => Age(3)' <= Period[3] + Gap(3)
  BY <1>2, <1>3, <1>5, <1>6
<1>18. \A e \in Events \ held' : since'[e] <= Age(e)'
  <2> SUFFICES ASSUME NEW e \in Events \ held' PROVE since'[e] <= Age(e)'
    OBVIOUS
  <2>1. CASE e \in S
    BY <1>5, <2>1
  <2>2. CASE e \notin S
    <3>1. e \notin held /\ since'[e] = Older(since[e], d) /\ Age(e)' = AgeAt(e, t)
      BY <1>2, <1>5, <2>2
    <3>2. AgeAt(e, t) = Age(e) + d
      BY <1>2, <1>6, <3>1
    <3>3. since[e] <= Age(e) /\ since[e] \in Nat /\ Age(e) \in Nat
      BY <1>7, <3>1, ClockConstants DEF ClockInv, TypeOK
    <3>4. Older(since[e], d) <= since[e] + d /\ Older(since[e], d) \in Nat
      <4>1. Older(since[e], d) = MaxAge \/ Older(since[e], d) = since[e] + d
        BY <1>2, OlderBounds
      <4> QED BY <1>2, <3>3, <4>1, OlderBounds, ClockConstants
    <3> QED BY <1>2, <3>1, <3>2, <3>3, <3>4
  <2> QED BY <2>1, <2>2
<1>19. \A e \in Events \ held' : pingTime'[e] + Period[e] < ClockMod => pingTime'[e] <= msNow'
  <2> SUFFICES ASSUME NEW e \in Events \ held', pingTime'[e] + Period[e] < ClockMod
               PROVE  pingTime'[e] <= msNow'
    OBVIOUS
  <2>1. CASE e \in S
    BY <1>2, <1>5, <1>11, <2>1
  <2>2. CASE e \notin S
    <3>1. e \notin held /\ e \notin Missed(t) /\ pingTime'[e] = pingTime[e]
      BY <1>2, <1>5, <2>2
    <3> QED BY <1>1, <1>2, <1>4, <3>1, NoWrap
  <2> QED BY <2>1, <2>2
<1> QED BY <1>12, <1>13, <1>14, <1>15, <1>16, <1>17, <1>18, <1>19 DEF ClockInv

\* event1s is tested when the other two have just been run.
LEMMA RestClock == ASSUME TypeOK, ClockInv, Rest PROVE ClockInv'
<1> DEFINE S == {e \in {3} : Due(3, msNow)}
<1>1. pc = "usb" /\ pc' = "loop" /\ Fired(S, msNow, 0)
  BY DEF Rest
<1>2. 1 \notin S /\ 2 \notin S /\ (3 \in S <=> Due(3, msNow))
  OBVIOUS
<1> HIDE DEF S
<1>3. /\ 1 \in Events /\ 2 \in Events /\ 3 \in Events /\ \A e \in Events : e = 1 \/ e = 2 \/ e = 3
      /\ msNow \in 0..ClockMod - 1 /\ 0 \in Nat /\ ~(msNow < msNow) /\ msNow <= msNow
  BY ClockConstants DEF Events, TypeOK
<1>4. msNow' = msNow /\ held' = held \ S
  <2>1. Missed(msNow) = {}
    BY <1>3 DEF Missed
  <2> QED BY <1>1, <2>1 DEF Fired
<1>5. \A e \in Events :
        /\ e \in S => Age(e)' = 0 /\ since'[e] = 0 /\ pingTime'[e] = msNow
        /\ e \notin S => /\ Age(e)' = Age(e) /\ pingTime'[e] = pingTime[e]
                         /\ since'[e] = Older(since[e], 0)
  BY <1>1, <1>3, FiredAge DEF Age
<1>6. \A e \in Events \ held : since[e] <= Age(e) /\ Older(since[e], 0) <= Age(e)
  <2> SUFFICES ASSUME NEW e \in Events \ held
               PROVE  since[e] <= Age(e) /\ Older(since[e], 0) <= Age(e)
    OBVIOUS
  <2>1. since[e] \in 0..MaxAge /\ MaxAge \in Nat /\ since[e] <= Age(e)
    BY ClockConstants DEF TypeOK, ClockInv
  <2>2. Older(since[e], 0) = since[e]
    BY <2>1 DEF Older
  <2> QED BY <2>1, <2>2
<1>7. 2 \notin held /\ 1 \notin held /\ Age(1) = 0 /\ Age(2) = 0
  BY <1>1, <1>3 DEF ClockInv, Age, AgeAt
<1>8. 3 \notin held /\ ~Due(3, msNow) => Age(3) <= Period[3]
  BY <1>3, NotDue DEF ClockInv, Age
<1>9. Age(3)' <= Period[3] \/ 3 \in held'
  <2>1. CASE 3 \in S
    BY <1>3, <1>5, <2>1, ClockConstants
  <2>2. CASE 3 \notin S
    BY <1>2, <1>3, <1>4, <1>5, <1>8, <2>2
  <2> QED BY <2>1, <2>2
<1>10. Age(1)' = 0 /\ Age(2)' = 0 /\ 0 <= Period[1] /\ 0 <= Period[2] + 0
  BY <1>2, <1>3, <1>5, <1>7, ClockConstants
<1>11. /\ 3 \notin held' => Age(3)' <= Period[3] + Age(2)' /\ Age(3)' <= Period[3] + Gap(3)
  <2>1. CASE 3 \in S
    BY <1>3, <1>5, <1>10, <2>1, ClockConstants
  <2>2. CASE 3 \notin S
    <3>1. Age(3)' = Age(3) /\ (3 \notin held' => 3 \notin held)
      BY <1>3, <1>4, <1>5, <2>2
    <3>2. Period[3] + 0 = Period[3]
      BY ClockConstants
    <3> QED BY <1>9, <1>10, <3>1, <3>2 DEF ClockInv
  <2> QED BY <2>1, <2>2
<1>12. \A e \in Events \ held' : since'[e] <= Age(e)'
  <2> SUFFICES ASSUME NEW e \in Events \ held' PROVE since'[e] <= Age(e)'
    OBVIOUS
  <2>1. CASE e \in S
    BY <1>5, <2>1
  <2>2. CASE e \notin S
    BY <1>4, <1>5, <1>6, <2>2
  <2> QED BY <2>1, <2>2
<1>13. \A e \in Events \ held' : pingTime'[e] + Period[e] < ClockMod => pingTime'[e] <= msNow'
  <2> SUFFICES ASSUME NEW e \in Events \ held', pingTime'[e] + Period[e] < ClockMod
               PROVE  pingTime'[e] <= msNow'
    OBVIOUS
  <2>1. CASE e \in S
    BY <1>3, <1>4, <1>5, <2>1
  <2>2. CASE e \notin S
    BY <1>4, <1>5, <2>2 DEF ClockInv
  <2> QED BY <2>1, <2>2
<1> QED BY <1>1, <1>4, <1>7, <1>10, <1>11, <1>12, <1>13 DEF ClockInv

\* The events S are run only when they are due; the clock never tells more than
\* the true age of an event.
LEMMA AgeStep ==
  ASSUME TypeOK, AgeInv, NEW S, NEW d \in 0..MaxTurn, NEW t,
         t = (msNow + d) % ClockMod, Fired(S, t, d)
  PROVE  AgeInv'
<1> SUFFICES ASSUME NEW e \in Events PROVE since'[e] = MaxAge \/ since'[e] >= Age(e)'
  BY DEF AgeInv
<1>1. /\ t \in 0..ClockMod - 1 /\ Age(e) \in Nat /\ AgeAt(e, t) \in Nat
      /\ AgeAt(e, t) <= Age(e) + d /\ d \in Nat
  BY AgeMoves, ClockConstants
<1>2. /\ e \in S => Age(e)' = 0 /\ since'[e] = 0
      /\ e \notin S => Age(e)' = AgeAt(e, t) /\ since'[e] = Older(since[e], d)
  BY <1>1, FiredAge
<1>3. since[e] \in Nat /\ MaxAge \in Nat
  BY ClockConstants DEF TypeOK
<1>4. since[e] = MaxAge \/ since[e] >= Age(e)
  BY DEF AgeInv
<1>5. /\ Older(since[e], d) = MaxAge \/ Older(since[e], d) = since[e] + d
      /\ since[e] = MaxAge => Older(since[e], d) = MaxAge
  BY <1>1, OlderBounds
<1> HIDE DEF Age, AgeAt, Older
<1> QED BY <1>1, <1>2, <1>3, <1>4, <1>5

\* A turn that ends with the clock at the same place.
LEMMA ModZero == ASSUME TypeOK PROVE msNow = (msNow + 0) % ClockMod /\ 0 \in 0..MaxTurn
<1>1. msNow \in 0..ClockMod - 1 /\ ClockMod \in Nat \ {0} /\ msNow + 0 = msNow /\ 0 \in 0..MaxTurn
  BY ClockConstants DEF TypeOK
<1>2. msNow % ClockMod = msNow
  BY ONLY <1>1, ModSmall
<1> QED BY <1>1, <1>2

LEMMA ClockFrame ==
  ASSUME ClockInv, AgeInv, UNCHANGED clockVars,
         pc = "loop" <=> pc' = "loop"
  PROVE  ClockInv' /\ AgeInv'
<1>1. UNCHANGED <<msNow, pingTime, since, held>>
  BY DEF clockVars
<1>2. \A e \in Events : Age(e)' = Age(e)
  BY <1>1 DEF Age, AgeAt
<1>3. 1 \in Events /\ 2 \in Events /\ 3 \in Events
  BY DEF Events
<1> QED BY <1>1, <1>2, <1>3 DEF ClockInv, AgeInv

LEMMA ClockNext == TypeOK /\ ClockInv /\ AgeInv /\ [Next]_vars => ClockInv' /\ AgeInv'
<1> SUFFICES ASSUME TypeOK, ClockInv, AgeInv, [Next]_vars PROVE ClockInv' /\ AgeInv'
  OBVIOUS
<1>1. CASE UNCHANGED vars
  <2>1. UNCHANGED clockVars /\ pc' = pc
    BY <1>1 DEF vars, clockVars
  <2> QED BY <2>1, ClockFrame
<1>2. ASSUME NEW d \in 0..MaxTurn, Turn(d) PROVE ClockInv' /\ AgeInv'
  <2>1. PICK S : Fired(S, (msNow + d) % ClockMod, d)
    BY <1>2 DEF Turn
  <2>2. AgeInv'
    BY <2>1, AgeStep
  <2> QED BY <1>2, <2>2, TurnClock
<1>3. CASE Rest
  <2>1. PICK S : Fired(S, msNow, 0)
    BY <1>3 DEF Rest
  <2>2. AgeInv'
    BY <2>1, AgeStep, ModZero
  <2> QED BY <1>3, <2>2, RestClock
<1>4. CASE Type \/ UsbRead \/ OnChar \/ ChunkDone
  <2>1. UNCHANGED clockVars /\ (pc = "loop" <=> pc' = "loop")
    BY <1>4 DEF Type, UsbRead, OnChar, ChunkDone
  <2> QED BY <2>1, ClockFrame
<1> QED BY <1>1, <1>2, <1>3, <1>4 DEF Next

LEMMA ClockAlways == Spec => [](TypeOK /\ ClockInv /\ AgeInv)
  BY LoopTypes, ClockInit, ClockNext, PTL DEF Spec

LEMMA AgesInTime == TypeOK /\ ClockInv => OnTime
<1> SUFFICES ASSUME TypeOK, ClockInv, NEW e \in Events \ held
             PROVE  since[e] <= Period[e] + Gap(e)
  BY DEF OnTime
<1>1. since[e] <= Age(e) /\ since[e] \in Nat
  BY ClockConstants DEF ClockInv, TypeOK
<1>2. /\ Age(1) \in Nat /\ Age(2) \in Nat /\ Age(3) \in Nat
  BY ModZero, AgeMoves DEF Events
<1>3. Age(e) <= Period[e] + Gap(e)
  <2>1. e = 1 \/ e = 2 \/ e = 3
    BY ClockConstants
  <2>2. CASE e = 1
    BY <1>2, <2>2, ClockConstants DEF ClockInv
  <2>3. CASE e = 2
    BY <1>2, <2>3, ClockConstants DEF ClockInv
  <2>4. CASE e = 3
    BY <1>2, <2>4, ClockConstants DEF ClockInv
  <2> QED BY <2>1, <2>2, <2>3, <2>4
<1>4. Period[e] \in Nat /\ Gap(e) \in Nat /\ Age(e) \in Nat
  BY <1>2, ClockConstants
<1> QED BY <1>1, <1>3, <1>4

\* For every width of the clock, every period and every longest turn: an event
\* of the main loop that is not held up at a wrap is never later than its
\* period and the longest time between two tests of it.
THEOREM EventsOnTime == Spec => []OnTime
  BY ClockAlways, AgesInTime, PTL

LEMMA ModDifference ==
  ASSUME TypeOK, NEW d \in 0..MaxTurn, NEW t, t = (msNow + d) % ClockMod
  PROVE  (t - msNow) % ClockMod = d
<1>1. /\ msNow \in 0..ClockMod - 1 /\ ClockMod \in Nat \ {0} /\ d \in 0..ClockMod - 1
  <2>1. MaxTurn \in Nat /\ ClockMod \in Nat \ {0} /\ MaxTurn < ClockMod
    BY ClockConstants
  <2> QED BY <2>1 DEF TypeOK
<1>2. /\ msNow + d < ClockMod => (msNow + d) % ClockMod = msNow + d
      /\ msNow + d >= ClockMod => (msNow + d) % ClockMod = msNow + d - ClockMod
  BY ONLY <1>1, ModSum
<1>3. CASE msNow + d < ClockMod
  <2>1. t - msNow = d
    BY <1>1, <1>2, <1>3
  <2>2. d % ClockMod = d
    BY ONLY <1>1, ModSmall
  <2> QED BY <2>1, <2>2
<1>4. CASE msNow + d >= ClockMod
  <2>1. t = msNow + d - ClockMod
    BY <1>2, <1>4
  <2>2. t - msNow = d - ClockMod /\ d - ClockMod \in (-ClockMod)..(-1)
    BY ONLY <1>1, <2>1
  <2>3. (d - ClockMod) % ClockMod = (d - ClockMod) + ClockMod
    BY ONLY <1>1, <2>2, ModNegative
  <2>4. (d - ClockMod) + ClockMod = d
    BY ONLY <1>1
  <2> QED BY <2>2, <2>3, <2>4
<1> QED BY <1>1, <1>3, <1>4

\* An event is run when msNow > pingTime + period; if the sum did not wrap, the
\* period is over.
LEMMA NotEarlyFired ==
  ASSUME MaxAge > Period[3], TypeOK, AgeInv, NEW S, NEW d \in 0..MaxTurn, NEW t,
         t = (msNow + d) % ClockMod, Fired(S, t, d), \A e \in Events \cap S : Due(e, t)
  PROVE  EarlyStep
<1> SUFFICES ASSUME NEW e \in Events, pingTime'[e] # pingTime[e],
                    Older(since[e], (msNow' - msNow) % ClockMod) <= Period[e],
                    pingTime[e] + Period[e] < ClockMod
             PROVE  FALSE
  <2>1. \A e \in Events : pingTime[e] + Period[e] \in Nat /\ ClockMod \in Nat
    <3> SUFFICES ASSUME NEW e \in Events PROVE pingTime[e] + Period[e] \in Nat /\ ClockMod \in Nat
      OBVIOUS
    <3>1. Period[e] \in Nat /\ ClockMod \in Nat
      BY ClockConstants
    <3>2. pingTime[e] \in 0..ClockMod - 1
      BY DEF TypeOK
    <3> QED BY <3>1, <3>2
  <2> QED BY <2>1 DEF EarlyStep
<1>1. /\ t \in 0..ClockMod - 1 /\ Age(e) \in Nat /\ AgeAt(e, t) <= Age(e) + d /\ d \in Nat
  BY AgeMoves, ClockConstants
<1>2. e \in S /\ msNow' = t
  BY <1>1 DEF Fired
<1>3. Period[e] \in Nat /\ Period[e] \in 0..ClockMod - 1 /\ Period[e] <= Period[3]
  <2>1. e = 1 \/ e = 2 \/ e = 3
    BY ClockConstants
  <2>2. Period[1] <= Period[2] /\ Period[2] <= Period[3]
    BY ClockAssumption
  <2> QED BY <2>1, <2>2, ClockConstants
<1>4. pingTime[e] \in 0..ClockMod - 1 /\ ClockMod \in Nat \ {0}
  BY ClockConstants DEF TypeOK
<1>5. (pingTime[e] + Period[e]) % ClockMod = pingTime[e] + Period[e]
  <2>1. pingTime[e] + Period[e] < ClockMod =>
           (pingTime[e] + Period[e]) % ClockMod = pingTime[e] + Period[e]
    BY ONLY <1>3, <1>4, ModSum
  <2> QED BY <2>1
<1>6. t > pingTime[e] + Period[e]
  BY <1>2, <1>5 DEF Due
<1>7. AgeAt(e, t) > Period[e] /\ AgeAt(e, t) \in Nat
  BY ONLY <1>1, <1>3, <1>4, <1>6 DEF AgeAt
<1>8. (msNow' - msNow) % ClockMod = d
  BY <1>2, ModDifference
<1>9. since[e] \in Nat /\ MaxAge \in Nat /\ Period[3] \in Nat
  <2>1. since[e] \in 0..MaxAge
    BY DEF TypeOK
  <2> QED BY <2>1, ClockConstants
<1>10. since[e] = MaxAge \/ since[e] >= Age(e)
  BY DEF AgeInv
<1>11. /\ Older(since[e], d) = MaxAge \/ Older(since[e], d) = since[e] + d
       /\ since[e] = MaxAge => Older(since[e], d) = MaxAge
  BY <1>1, OlderBounds
<1>12. Older(since[e], d) <= Period[e]
  BY <1>8
<1> HIDE DEF Age, AgeAt, Older
<1> QED BY ONLY <1>1, <1>3, <1>7, <1>9, <1>10, <1>11, <1>12, MaxAge > Period[3]

LEMMA NotEarlyStep ==
  ASSUME MaxAge > Period[3]
  PROVE  TypeOK /\ AgeInv /\ [Next]_vars => [EarlyStep]_vars
<1> SUFFICES ASSUME TypeOK, AgeInv, Next PROVE EarlyStep
  OBVIOUS
<1>1. ASSUME NEW d \in 0..MaxTurn, Turn(d) PROVE EarlyStep
  <2> DEFINE t == (msNow + d) % ClockMod
             S == {e \in {1, 2} : IF e = 1 THEN Due(1, t) ELSE Due(1, t) /\ Due(2, t)}
  <2>1. Fired(S, t, d)
    BY <1>1 DEF Turn
  <2>2. \A e \in Events \cap S : Due(e, t)
    OBVIOUS
  <2> QED BY <2>1, <2>2, NotEarlyFired
<1>2. CASE Rest
  <2> DEFINE S == {e \in {3} : Due(3, msNow)}
  <2>1. Fired(S, msNow, 0) /\ \A e \in Events \cap S : Due(e, msNow)
    BY <1>2 DEF Rest
  <2> QED BY <2>1, ModZero, NotEarlyFired
<1>3. CASE Type \/ UsbRead \/ OnChar \/ ChunkDone
  <2>1. pingTime' = pingTime
    BY <1>3 DEF Type, UsbRead, OnChar, ChunkDone, clockVars
  <2> QED BY <2>1 DEF EarlyStep
<1> QED BY <1>1, <1>2, <1>3 DEF Next

\* An event of the main loop is run before its period is over only if the sum
\* pingTime + period has wrapped and the clock has not. MaxAge, where the true
\* ages are cut off, must let a whole period be seen.
THEOREM EventsNotEarly == ASSUME MaxAge > Period[3] PROVE Spec => NotEarly
<1>1. TypeOK /\ AgeInv /\ [Next]_vars => [EarlyStep]_vars
  BY NotEarlyStep
<1> QED BY <1>1, ClockAlways, PTL DEF Spec, NotEarly
=============================================================================
