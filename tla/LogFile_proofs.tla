--------------------------- MODULE LogFile_proofs ---------------------------
(***************************************************************************)
(* Proofs about the logger: for every ring, block and file size, every     *)
(* set of interrupt levels and every card fault, the log consists of whole *)
(* frames, no write outgrows the preallocated file, and a stopped log      *)
(* holds everything that was accepted.  At the end, about the numbers of   *)
(* the log files: for any cards, any bound and any faults.                 *)
(***************************************************************************)
EXTENDS LogFile, LogNumber, SequenceTheorems, TLAPS

\* Concatenating two sequences of whole frames gives whole frames.
LEMMA WholeFramesConcat ==
    ASSUME NEW s \in Seq(Byte), NEW t \in Seq(Byte),
           WholeFrames(s), WholeFrames(t)
    PROVE  WholeFrames(s \o t)
<1>1. CASE s = <<>>
  BY <1>1, ConcatEmptySeq
<1>2. CASE t = <<>>
  BY <1>2, ConcatEmptySeq
<1>3. CASE s # <<>> /\ t # <<>>
  <2> DEFINE u == s \o t
  <2>1. /\ Len(s) \in Nat \ {0} /\ Len(t) \in Nat \ {0}
        /\ Len(u) = Len(s) + Len(t)
        /\ \A i \in 1..Len(s) : u[i] = s[i]
        /\ \A i \in 1..Len(t) : u[Len(s) + i] = t[i]
    BY <1>3, ConcatProperties, EmptySeq, LenProperties
  <2>2. u[1][2] = 1 /\ u[Len(u)][2] = u[Len(u)][3]
    <3>1. u[1] = s[1] /\ u[Len(u)] = t[Len(t)]
      BY <2>1
    <3> QED  BY <3>1, <1>3 DEF WholeFrames
  <2>3. ASSUME NEW p \in 1..Len(u) - 1
        PROVE  IF u[p][2] = u[p][3]
               THEN u[p + 1][2] = 1
               ELSE u[p + 1] = <<u[p][1], u[p][2] + 1, u[p][3]>>
    <3>1. CASE p < Len(s)
      <4>1. p \in 1..Len(s) - 1 /\ u[p] = s[p] /\ u[p + 1] = s[p + 1]
        BY <3>1, <2>1
      <4> QED  BY <4>1 DEF WholeFrames
    <3>2. CASE p = Len(s)
      <4>1. u[p] = s[Len(s)] /\ u[p + 1] = t[1]
        BY <3>2, <2>1
      <4>2. s[Len(s)][2] = s[Len(s)][3] /\ t[1][2] = 1
        BY <1>3 DEF WholeFrames
      <4> QED  BY <4>1, <4>2
    <3>3. CASE p > Len(s)
      <4> DEFINE q == p - Len(s)
      <4>1. /\ q \in 1..Len(t) - 1
            /\ p = Len(s) + q
            /\ q \in 1..Len(t) /\ q + 1 \in 1..Len(t)
            /\ p + 1 = Len(s) + (q + 1)
        BY <3>3, <2>1
      <4>2. u[p] = t[q] /\ u[p + 1] = t[q + 1]
        BY <4>1, <2>1
      <4> QED  BY <4>1, <4>2 DEF WholeFrames
    <3> QED  BY <3>1, <3>2, <3>3, <2>1
  <2> QED  BY <2>2, <2>3 DEF WholeFrames
<1> QED  BY <1>1, <1>2, <1>3

\* Concatenation of three parts of the stream of bytes.
LEMMA StreamConcat ==
    ASSUME NEW s \in Seq(Byte), NEW t \in Seq(Byte), NEW u \in Seq(Byte)
    PROVE  (s \o t) \o u = s \o (t \o u)
BY ConcatAssociative

\* What lfSendMessage puts into the ring is one whole frame.
LEMMA FrameIsWhole ==
    ASSUME NEW c \in 0..CounterMod - 1, NEW size \in MsgSizes
    PROVE  /\ Frame(c, size) \in Seq(Byte)
           /\ Len(Frame(c, size)) = size
           /\ WholeFrames(Frame(c, size))
<1>1. size \in Nat \ {0}
  BY SizeAssumption
<1>2. \A i \in 1..size : <<c, i, size>> \in Byte
  BY <1>1 DEF Byte
<1>3. Frame(c, size) \in Seq(Byte) /\ Len(Frame(c, size)) = size
  BY <1>1, <1>2 DEF Frame
<1>4. \A i \in 1..size : Frame(c, size)[i] = <<c, i, size>>
  BY DEF Frame
<1> QED  BY <1>1, <1>3, <1>4 DEF WholeFrames

\* get_rb_s splits the ring into the block taken and the rest.
LEMMA TakeSplits ==
    ASSUME NEW s \in Seq(Byte), NEW k \in 0..Len(s)
    PROVE  /\ SubSeq(s, 1, k) \in Seq(Byte)
           /\ Len(SubSeq(s, 1, k)) = k
           /\ SubSeq(s, k + 1, Len(s)) \in Seq(Byte)
           /\ Len(SubSeq(s, k + 1, Len(s))) = Len(s) - k
           /\ SubSeq(s, 1, k) \o SubSeq(s, k + 1, Len(s)) = s
<1>1. Len(s) \in Nat /\ \A i \in 1..Len(s) : s[i] \in Byte
  BY LenProperties, ElementOfSeq
<1>2. SubSeq(s, 1, k) \in Seq(Byte) /\ Len(SubSeq(s, 1, k)) = k
  BY <1>1, SubSeqProperties
<1>3. /\ SubSeq(s, k + 1, Len(s)) \in Seq(Byte)
      /\ Len(SubSeq(s, k + 1, Len(s))) = Len(s) - k
  BY <1>1, SubSeqProperties
<1>4. SubSeq(s, 1, k) \o SubSeq(s, k + 1, Len(s)) = SubSeq(s, 1, Len(s))
  <2>1. 1 \in 1..Len(s) + 1 /\ k \in 1 - 1..Len(s) /\ Len(s) \in k..Len(s)
    BY <1>1
  <2> QED  BY <2>1, ConcatAdjacentSubSeq, Zenon
<1> QED  BY <1>2, <1>3, <1>4, SubSeqFull


-----------------------------------------------------------------------------
(* Type correctness.                                                       *)

\* Writing the block: the card grows by the block, or the loss is recorded.
LEMMA WriteTmpFacts ==
    ASSUME TypeOK, WriteTmp
    PROVE  /\ disk' \in Seq(Byte)
           /\ Len(disk') - Len(disk) \in 0..Len(tmpBuf)
           /\ writeLost' \in BOOLEAN
           /\ tmpBuf' = <<>>
           /\ ~writeLost' => ~writeLost /\ disk' = disk \o tmpBuf
<1>1. PICK ok \in Outcome("write") :
         /\ disk' = IF ok /\ fileOpen THEN disk \o tmpBuf ELSE disk
         /\ writeLost' = IF ok /\ fileOpen THEN writeLost ELSE TRUE
         /\ tmpBuf' = <<>>
  BY DEF WriteTmp
<1>2. /\ disk \in Seq(Byte) /\ tmpBuf \in Seq(Byte)
      /\ Len(disk) \in Nat /\ Len(tmpBuf) \in Nat
  BY LenProperties DEF TypeOK
<1>3. /\ disk \o tmpBuf \in Seq(Byte)
      /\ Len(disk \o tmpBuf) = Len(disk) + Len(tmpBuf)
  BY <1>2, ConcatProperties
<1>4. disk' = disk \/ disk' = disk \o tmpBuf
  BY <1>1
<1>5. disk' \in Seq(Byte) /\ Len(disk') - Len(disk) \in 0..Len(tmpBuf)
  <2>1. CASE disk' = disk
    BY <1>2, <2>1
  <2>2. CASE disk' = disk \o tmpBuf
    <3>1. Len(disk') = Len(disk) + Len(tmpBuf)
      BY <1>3, <2>2, Zenon
    <3> QED  BY <1>2, <1>3, <2>2, <3>1
  <2> QED  BY <1>4, <2>1, <2>2
<1>6. ok \in BOOLEAN /\ fileOpen \in BOOLEAN /\ writeLost \in BOOLEAN
  BY DEF Outcome, TypeOK
<1>7. writeLost' \in BOOLEAN
  BY <1>1, <1>6
<1>8. ~writeLost' => ~writeLost /\ ok /\ fileOpen
  BY <1>1, <1>6
<1> QED  BY <1>1, <1>5, <1>7, <1>8

\* Taking k bytes out of the ring.
LEMMA TakeFacts ==
    ASSUME TypeOK, NEW k \in 0..Len(rb), TakeFromRing(k)
    PROVE  /\ tmpBuf' \in Seq(Byte) /\ Len(tmpBuf') = k
           /\ rb' \in Seq(Byte) /\ Len(rb') = Len(rb) - k
           /\ tmpBuf' \o rb' = rb
           /\ n' = Len(rb')
<1>1. rb \in Seq(Byte)
  BY DEF TypeOK
<1> QED  BY <1>1, TakeSplits DEF TakeFromRing

\* The control state after the main loop goes on.
LEMMA MainGotoFacts ==
    ASSUME TypeOK, NEW where \in MainPc, MainGoto(where)
    PROVE  /\ pc' \in [Levels -> MainPc]
           /\ pc'[0] = where
           /\ \A l \in Levels \ {0} : pc'[l] = pc[l]
BY LevelAssumption DEF TypeOK, MainGoto

\* While the main loop runs, no other level is inside lfSendMessage.
LEMMA MainAlone ==
    ASSUME TypeOK, NEW where, MainAt(where)
    PROVE  pc[0] = where /\ \A l \in Levels \ {0} : pc[l] = "idle"
BY LevelAssumption DEF TypeOK, MainAt, CanRun

\* The parts of the inductive invariant.
Stopping == pc[0] \in {"stopLoop", "stopWrite"}
Processing == pc[0] \in {"procLoop", "procWrite"}

\* Which steps are under way, and what the ring and tmpBuf hold then.
ControlInv ==
    /\ \A l \in Levels : pc[l] = "send" => lfWriting
    /\ Processing => lfWriting /\ n <= Len(rb)
    /\ Stopping => ~lfWriting /\ n = Len(rb)
    /\ (~lfWriting /\ ~Stopping) => rb = <<>>
    /\ lfWriting => lfState # "lfSInit"
    /\ pc[0] = "procWrite" => Len(tmpBuf) = TmpSize
    /\ pc[0] \notin {"procWrite", "stopWrite"} => tmpBuf = <<>>

\* How full the ring and the file are.
SpaceInv ==
    /\ Len(rb) <= RbSize
    /\ fileLen <= fileBytesCounter
    /\ fileBytesCounter <= FileSize
    /\ lfWriting => fileBytesCounter <= FileSize2
    /\ Stopping => fileBytesCounter + Len(tmpBuf) + Len(rb) <= FileSize

\* What the stream of bytes from the card to the ring is.
StreamInv ==
    ~writeLost =>
        /\ WholeFrames(disk \o tmpBuf \o rb)
        /\ Len(disk) + Len(tmpBuf) + Len(rb) = accepted

LogInv == TypeOK /\ ControlInv /\ SpaceInv /\ StreamInv

\* Every step keeps the types.
LEMMA TypeStep == LogInv /\ [Next]_vars => TypeOK'
<1> SUFFICES ASSUME LogInv, [Next]_vars PROVE TypeOK'
  OBVIOUS
<1>t. TypeOK /\ ControlInv
  BY DEF LogInv
<1> USE <1>t, LevelAssumption, SizeAssumption
<1>0. <<>> \in Seq(Byte)
  BY EmptySeq
<1>1. CASE LfInit
  <2>1. PICK ok \in Outcome("begin") :
           /\ sdStarted' = ok
           /\ lfState' = IF ok THEN "lfSGood" ELSE "lfSError"
    BY <1>1 DEF LfInit
  <2>2. sdStarted' \in BOOLEAN
    BY <2>1, Zenon DEF Outcome
  <2>3. lfState' \in {"lfSInit", "lfSGood", "lfSError"}
    BY <2>1
  <2> QED  BY <1>0, <1>1, <2>2, <2>3 DEF LfInit, TypeOK, card
<1>2. CASE LfStart
  <2>1. CASE LfStartNoCard
    BY <1>0, <2>1 DEF LfStartNoCard, StartCalled, TypeOK, card
  <2>2. CASE LfStartNoNumber
    BY <1>0, <2>2 DEF LfStartNoNumber, StartCalled, TypeOK
  <2>3. CASE LfStartFile
    BY <1>0, <2>3 DEF LfStartFile, StartCalled, TypeOK, Outcome
  <2> QED  BY <1>2, <2>1, <2>2, <2>3 DEF LfStart
<1>3. CASE LfStopBegin
  <2>1. pc' \in [Levels -> MainPc] /\ pc'[0] = "stopLoop"
        /\ \A l \in Levels \ {0} : pc'[l] = pc[l]
    BY <1>3, MainGotoFacts DEF LfStopBegin, MainPc
  <2>2. Len(rb) \in Nat
    BY LenProperties DEF TypeOK
  <2> QED  BY <1>3, <2>1, <2>2 DEF LfStopBegin, TypeOK, card
<1>4. CASE LfStopEnd
  <2>1. pc' \in [Levels -> MainPc] /\ pc'[0] = "idle"
        /\ \A l \in Levels \ {0} : pc'[l] = pc[l]
    BY <1>4, MainGotoFacts DEF LfStopEnd, MainPc
  <2> QED  BY <1>4, <2>1 DEF LfStopEnd, TypeOK
<1>5. CASE LfProcessBegin
  <2>1. pc' \in [Levels -> MainPc] /\ pc'[0] = "procLoop"
        /\ \A l \in Levels \ {0} : pc'[l] = pc[l]
    BY <1>5, MainGotoFacts DEF LfProcessBegin, MainPc
  <2>2. Len(rb) \in Nat
    BY LenProperties DEF TypeOK
  <2> QED  BY <1>5, <2>1, <2>2 DEF LfProcessBegin, TypeOK, card
<1>6. CASE LfProcessEnd
  <2>1. pc' \in [Levels -> MainPc] /\ pc'[0] = "idle"
        /\ \A l \in Levels \ {0} : pc'[l] = pc[l]
    BY <1>6, MainGotoFacts DEF LfProcessEnd, MainPc
  <2> QED  BY <1>6, <2>1 DEF LfProcessEnd, TypeOK, card
<1>7. CASE LfStopGet
  <2> DEFINE k == IF n > TmpSize THEN TmpSize ELSE n
  <2>1. Len(rb) \in Nat /\ n = Len(rb)
    BY <1>7, LenProperties DEF LfStopGet, MainAt, ControlInv, Stopping, TypeOK
  <2>2. k \in 0..Len(rb) /\ TakeFromRing(k)
    BY <1>7, <2>1 DEF LfStopGet
  <2>3. tmpBuf' \in Seq(Byte) /\ rb' \in Seq(Byte) /\ n' = Len(rb')
    BY <2>2, TakeFacts
  <2>4. n' \in Nat
    BY <2>3, LenProperties
  <2>5. pc' \in [Levels -> MainPc] /\ pc'[0] = "stopWrite"
        /\ \A l \in Levels \ {0} : pc'[l] = pc[l]
    BY <1>7, MainGotoFacts DEF LfStopGet, MainPc
  <2> QED  BY <1>7, <2>3, <2>4, <2>5 DEF LfStopGet, TypeOK, card
<1>8. CASE LfProcessGet
  <2>1. Len(rb) \in Nat /\ n <= Len(rb)
    BY <1>8, LenProperties DEF LfProcessGet, MainAt, ControlInv, Processing, TypeOK
  <2>2. TmpSize \in 0..Len(rb) /\ TakeFromRing(TmpSize)
    BY <1>8, <2>1 DEF LfProcessGet, TypeOK
  <2>3. tmpBuf' \in Seq(Byte) /\ rb' \in Seq(Byte) /\ n' = Len(rb')
    BY <2>2, TakeFacts
  <2>4. n' \in Nat
    BY <2>3, LenProperties
  <2>5. pc' \in [Levels -> MainPc] /\ pc'[0] = "procWrite"
        /\ \A l \in Levels \ {0} : pc'[l] = pc[l]
    BY <1>8, MainGotoFacts DEF LfProcessGet, MainPc
  <2> QED  BY <1>8, <2>3, <2>4, <2>5 DEF LfProcessGet, TypeOK, card
<1>9. CASE LfStopWrite
  <2>1. /\ disk' \in Seq(Byte) /\ Len(disk') - Len(disk) \in 0..Len(tmpBuf)
        /\ writeLost' \in BOOLEAN /\ tmpBuf' = <<>>
    BY <1>9, WriteTmpFacts DEF LfStopWrite
  <2>2. Len(tmpBuf) \in Nat
    BY LenProperties DEF TypeOK
  <2>3. fileLen' \in Nat /\ fileBytesCounter' \in Nat
    BY <1>9, <2>1, <2>2 DEF LfStopWrite, TypeOK
  <2>4. pc' \in [Levels -> MainPc] /\ pc'[0] = "stopLoop"
        /\ \A l \in Levels \ {0} : pc'[l] = pc[l]
    BY <1>9, MainGotoFacts DEF LfStopWrite, MainPc
  <2> QED  BY <1>9, <1>0, <2>1, <2>3, <2>4 DEF LfStopWrite, TypeOK
<1>10. CASE LfProcessWrite
  <2>1. /\ disk' \in Seq(Byte) /\ Len(disk') - Len(disk) \in 0..Len(tmpBuf)
        /\ writeLost' \in BOOLEAN /\ tmpBuf' = <<>>
    BY <1>10, WriteTmpFacts DEF LfProcessWrite
  <2>2. Len(tmpBuf) \in Nat
    BY LenProperties DEF TypeOK
  <2>3. fileLen' \in Nat /\ fileBytesCounter' \in Nat
    BY <1>10, <2>1, <2>2 DEF LfProcessWrite, TypeOK
  <2>4. pc' \in [Levels -> MainPc] /\ pc'[0] = "procLoop"
        /\ \A l \in Levels \ {0} : pc'[l] = pc[l]
    BY <1>10, MainGotoFacts DEF LfProcessWrite, MainPc
  <2> QED  BY <1>10, <1>0, <2>1, <2>3, <2>4 DEF LfProcessWrite, TypeOK
<1>11. CASE LfProcessRotate
  <2>1. /\ disk' \in Seq(Byte) /\ writeLost' \in BOOLEAN /\ tmpBuf' = <<>>
    BY <1>11, WriteTmpFacts DEF LfProcessRotate
  <2>2. PICK truncated \in Outcome("truncate"), opened \in Outcome("open"),
             allocated \in Outcome("preAllocate") :
           /\ fileOpen' = opened
           /\ lfState' = IF truncated /\ opened /\ allocated
                         THEN lfState ELSE "lfSError"
           /\ MainGoto(IF opened /\ allocated THEN "procLoop" ELSE "idle")
    BY <1>11 DEF LfProcessRotate
  <2>3. fileOpen' \in BOOLEAN
    BY <2>2, Zenon DEF Outcome
  <2>4. lfState' \in {"lfSInit", "lfSGood", "lfSError"}
    BY <2>2 DEF TypeOK
  <2>5. MainGoto("procLoop") \/ MainGoto("idle")
    BY <2>2
  <2>6. pc' \in [Levels -> MainPc] /\ pc'[0] \in {"procLoop", "idle"}
        /\ \A l \in Levels \ {0} : pc'[l] = pc[l]
    BY <2>5, MainGotoFacts DEF MainPc
  <2> QED
    BY <1>11, <1>0, <2>1, <2>3, <2>4, <2>6 DEF LfProcessRotate, TypeOK
<1>12. ASSUME NEW l \in Levels, NEW size \in MsgSizes, SendBegin(l, size)
       PROVE  TypeOK'
  <2>1. pc' \in [Levels -> MainPc] /\ pc'[l] = "send"
        /\ \A h \in Levels \ {l} : pc'[h] = pc[h]
    BY <1>12 DEF SendBegin, TypeOK, MainPc
  <2>2. /\ msg' \in [Levels -> [count : 0..CounterMod - 1, size : Nat]]
        /\ msg'[l].size = size
        /\ \A h \in Levels \ {l} : msg'[h] = msg[h]
    BY <1>12 DEF SendBegin, TypeOK
  <2>3. sends' \in 0..MaxSends
    BY <1>12 DEF SendBegin, TypeOK
  <2> QED  BY <1>12, <2>1, <2>2, <2>3 DEF SendBegin, TypeOK, card
<1>13. ASSUME NEW l \in Levels, SendEnd(l)
       PROVE  TypeOK'
  <2>1. pc' \in [Levels -> MainPc] /\ pc'[l] = "idle"
        /\ \A h \in Levels \ {l} : pc'[h] = pc[h]
    BY <1>13 DEF SendEnd, TypeOK, MainPc
  <2>2. msg[l].size \in MsgSizes /\ msg[l].count \in 0..CounterMod - 1
    BY <1>13 DEF SendEnd, TypeOK
  <2>3. rb \o Frame(msg[l].count, msg[l].size) \in Seq(Byte)
    BY <2>2, FrameIsWhole, ConcatProperties DEF TypeOK
  <2>4. (counter + 1) % CounterMod \in 0..CounterMod - 1
    <3>1. counter + 1 \in Int /\ CounterMod \in Int /\ CounterMod > 0
      BY DEF TypeOK
    <3>2. \A x \in Int, m \in Int : m > 0 => x % m \in 0..m - 1
      OBVIOUS
    <3> QED  BY <3>1, <3>2, Zenon
  <2>5. /\ rb' \in Seq(Byte) /\ counter' \in 0..CounterMod - 1
        /\ ffOverflowCounter' \in Nat /\ accepted' \in Nat
    <3>1. /\ rb \in Seq(Byte) /\ counter \in 0..CounterMod - 1
          /\ ffOverflowCounter \in Nat /\ accepted \in Nat
      BY DEF TypeOK
    <3>2. msg[l].size \in Nat
      BY <2>2
    <3>3. CASE /\ ffOverflowCounter' = ffOverflowCounter + 1
               /\ UNCHANGED <<rb, counter, accepted>>
      BY <3>1, <3>3
    <3>4. CASE /\ rb' = rb \o Frame(msg[l].count, msg[l].size)
               /\ counter' = (counter + 1) % CounterMod
               /\ accepted' = accepted + msg[l].size
               /\ UNCHANGED ffOverflowCounter
      BY <2>3, <2>4, <3>1, <3>2, <3>4
    <3> QED  BY <1>13, <3>3, <3>4 DEF SendEnd, RefuseFrame, AcceptFrame
  <2> QED  BY <1>13, <2>1, <2>5 DEF SendEnd, TypeOK, card
<1>14. CASE UNCHANGED vars
  BY <1>14 DEF vars, card, TypeOK
<1> QED
  BY <1>1, <1>2, <1>3, <1>4, <1>5, <1>6, <1>7, <1>8, <1>9, <1>10, <1>11,
     <1>12, <1>13, <1>14 DEF Next, LfStop, LfProcess, Send

-----------------------------------------------------------------------------
(* The inductive invariant.                                                *)

\* What the second half of lfSendMessage does: the frame is refused, or it
\* fits and goes in as one piece.
LEMMA SendEndFacts ==
    ASSUME LogInv, NEW l \in Levels, SendEnd(l)
    PROVE  /\ lfWriting
           /\ pc' = [pc EXCEPT ![l] = "idle"]
           /\ \/ UNCHANGED <<rb, accepted>>
              \/ \E f \in Seq(Byte) :
                    /\ WholeFrames(f)
                    /\ rb' = rb \o f
                    /\ rb' \in Seq(Byte)
                    /\ Len(rb') = Len(rb) + Len(f)
                    /\ Len(rb') <= RbSize
                    /\ accepted' = accepted + Len(f)
<1>1. /\ lfWriting /\ pc' = [pc EXCEPT ![l] = "idle"]
      /\ msg[l].size \in MsgSizes /\ msg[l].count \in 0..CounterMod - 1
  BY DEF LogInv, ControlInv, TypeOK, SendEnd
<1>2. CASE UNCHANGED <<rb, accepted>>
  BY <1>1, <1>2
<1>3. CASE /\ RbSize - Len(rb) >= msg[l].size
           /\ rb' = rb \o Frame(msg[l].count, msg[l].size)
           /\ accepted' = accepted + msg[l].size
  <2> DEFINE f == Frame(msg[l].count, msg[l].size)
  <2>1. f \in Seq(Byte) /\ Len(f) = msg[l].size /\ WholeFrames(f)
    BY <1>1, FrameIsWhole
  <2>2. rb \in Seq(Byte) /\ Len(rb) \in Nat /\ Len(f) \in Nat
    BY <2>1, LenProperties DEF LogInv, TypeOK
  <2>3. rb \o f \in Seq(Byte) /\ Len(rb \o f) = Len(rb) + Len(f)
    BY <2>1, <2>2, ConcatProperties
  <2> HIDE DEF f
  <2>4. rb' = rb \o f /\ rb' \in Seq(Byte) /\ Len(rb') = Len(rb) + Len(f)
    BY <1>3, <2>3, Zenon DEF f
  <2>5. Len(rb') <= RbSize
    BY <1>3, <2>1, <2>2, <2>4, SizeAssumption
  <2>6. accepted' = accepted + Len(f)
    BY <1>3, <2>1
  <2> QED  BY <1>1, <2>1, <2>4, <2>5, <2>6
<1> QED  BY <1>2, <1>3 DEF SendEnd, RefuseFrame, AcceptFrame

\* Every step keeps the facts about control.
LEMMA ControlStep == LogInv /\ [Next]_vars => ControlInv'
<1> SUFFICES ASSUME LogInv, [Next]_vars PROVE ControlInv'
  OBVIOUS
<1>t. TypeOK /\ ControlInv /\ TypeOK'
  BY TypeStep DEF LogInv
<1>l. /\ rb \in Seq(Byte) /\ Len(rb) \in Nat /\ Len(<<>>) = 0
      /\ tmpBuf \in Seq(Byte) /\ Len(tmpBuf) \in Nat
      /\ rb' \in Seq(Byte) /\ Len(rb') \in Nat
      /\ \A s \in Seq(Byte) : Len(s) = 0 => s = <<>>
  BY <1>t, LenProperties, EmptySeq DEF TypeOK
<1> USE LevelAssumption, SizeAssumption
<1>a. ASSUME NEW where, MainAt(where), where # "send"
      PROVE  pc[0] = where /\ \A l \in Levels : pc[l] # "send"
  BY <1>a, <1>t, MainAlone
<1>1. CASE LfInit
  BY <1>1, <1>t, <1>a DEF LfInit, ControlInv, Stopping, Processing
<1>2. CASE LfStart
  <2>1. CASE LfStartNoCard
    BY <2>1, <1>t, <1>a
       DEF LfStartNoCard, StartCalled, ControlInv, Stopping, Processing
  <2>2. CASE LfStartNoNumber
    BY <2>2, <1>t, <1>a
       DEF LfStartNoNumber, StartCalled, ControlInv, Stopping, Processing
  <2>3. CASE LfStartFile
    BY <2>3, <1>t, <1>a
       DEF LfStartFile, StartCalled, ControlInv, Stopping, Processing
  <2> QED  BY <1>2, <2>1, <2>2, <2>3 DEF LfStart
<1>3. ASSUME NEW where \in MainPc, MainGoto(where), where # "send",
             \A l \in Levels : pc[l] # "send"
      PROVE  pc'[0] = where /\ \A l \in Levels : pc'[l] # "send"
  BY <1>3, <1>t, MainGotoFacts
<1>4. CASE LfStopBegin
  <2>1. pc[0] = "idle" /\ pc'[0] = "stopLoop" /\ \A l \in Levels : pc'[l] # "send"
    BY <1>4, <1>a, <1>3 DEF LfStopBegin, MainPc
  <2> QED  BY <1>4, <2>1, <1>t DEF LfStopBegin, ControlInv, Stopping, Processing
<1>5. CASE LfStopGet
  <2>1. pc[0] = "stopLoop" /\ pc'[0] = "stopWrite" /\ \A l \in Levels : pc'[l] # "send"
    BY <1>5, <1>a, <1>3 DEF LfStopGet, MainPc
  <2>2. n' = Len(rb')
    <3>1. n = Len(rb)
      BY <2>1, <1>t DEF ControlInv, Stopping
    <3> DEFINE k == IF n > TmpSize THEN TmpSize ELSE n
    <3>2. k \in 0..Len(rb) /\ TakeFromRing(k)
      BY <1>5, <1>l, <3>1 DEF LfStopGet
    <3> QED  BY <3>2, <1>t, TakeFacts
  <2> QED
    BY <1>5, <2>1, <2>2, <1>t DEF LfStopGet, ControlInv, Stopping, Processing
<1>6. CASE LfStopWrite
  <2>1. pc[0] = "stopWrite" /\ pc'[0] = "stopLoop" /\ \A l \in Levels : pc'[l] # "send"
    BY <1>6, <1>a, <1>3 DEF LfStopWrite, MainPc
  <2>2. tmpBuf' = <<>>
    BY <1>6 DEF LfStopWrite, WriteTmp
  <2> QED
    BY <1>6, <2>1, <2>2, <1>t DEF LfStopWrite, ControlInv, Stopping, Processing
<1>7. CASE LfStopEnd
  <2>1. pc[0] = "stopLoop" /\ pc'[0] = "idle" /\ \A l \in Levels : pc'[l] # "send"
    BY <1>7, <1>a, <1>3 DEF LfStopEnd, MainPc
  <2>2. rb = <<>>
    BY <1>7, <1>l, <2>1, <1>t DEF LfStopEnd, ControlInv, Stopping
  <2> QED
    BY <1>7, <2>1, <2>2, <1>t DEF LfStopEnd, ControlInv, Stopping, Processing
<1>8. CASE LfProcessBegin
  <2>1. pc[0] = "idle" /\ pc'[0] = "procLoop" /\ \A l \in Levels : pc'[l] # "send"
    BY <1>8, <1>a, <1>3 DEF LfProcessBegin, MainPc
  <2> QED
    BY <1>8, <2>1, <1>t, <1>l DEF LfProcessBegin, ControlInv, Stopping, Processing
<1>9. CASE LfProcessGet
  <2>1. pc[0] = "procLoop" /\ pc'[0] = "procWrite" /\ \A l \in Levels : pc'[l] # "send"
    BY <1>9, <1>a, <1>3 DEF LfProcessGet, MainPc
  <2>2. n' = Len(rb') /\ Len(tmpBuf') = TmpSize
    <3>1. n <= Len(rb) /\ n \in Nat
      BY <2>1, <1>t DEF ControlInv, Processing, TypeOK
    <3>2. TmpSize \in 0..Len(rb) /\ TakeFromRing(TmpSize)
      BY <1>9, <1>l, <3>1 DEF LfProcessGet
    <3> QED  BY <3>2, <1>t, TakeFacts
  <2> QED
    BY <1>9, <2>1, <2>2, <1>t, <1>l
       DEF LfProcessGet, ControlInv, Stopping, Processing
<1>10. CASE LfProcessWrite
  <2>1. pc[0] = "procWrite" /\ pc'[0] = "procLoop" /\ \A l \in Levels : pc'[l] # "send"
    BY <1>10, <1>a, <1>3 DEF LfProcessWrite, MainPc
  <2>2. tmpBuf' = <<>>
    BY <1>10 DEF LfProcessWrite, WriteTmp
  <2> QED
    BY <1>10, <2>1, <2>2, <1>t
       DEF LfProcessWrite, ControlInv, Stopping, Processing
<1>11. CASE LfProcessRotate
  <2>1. MainGoto("procLoop") \/ MainGoto("idle")
    BY <1>11 DEF LfProcessRotate
  <2>2. /\ pc[0] = "procWrite" /\ pc'[0] \in {"procLoop", "idle"}
        /\ \A l \in Levels : pc'[l] # "send"
    BY <1>11, <2>1, <1>a, <1>3 DEF LfProcessRotate, MainPc
  <2>3. tmpBuf' = <<>>
    BY <1>11 DEF LfProcessRotate, WriteTmp
  <2> QED
    BY <1>11, <2>2, <2>3, <1>t
       DEF LfProcessRotate, ControlInv, Stopping, Processing
<1>12. CASE LfProcessEnd
  <2>1. pc[0] = "procLoop" /\ pc'[0] = "idle" /\ \A l \in Levels : pc'[l] # "send"
    BY <1>12, <1>a, <1>3 DEF LfProcessEnd, MainPc
  <2> QED
    BY <1>12, <2>1, <1>t DEF LfProcessEnd, ControlInv, Stopping, Processing
<1>13. ASSUME NEW l \in Levels, NEW size \in MsgSizes, SendBegin(l, size)
       PROVE  ControlInv'
  <2>1. /\ lfWriting /\ lfWriting' = lfWriting
        /\ pc'[l] = "send" /\ pc[l] = "idle"
        /\ \A h \in Levels \ {l} : pc'[h] = pc[h]
    BY <1>13, <1>t DEF SendBegin, TypeOK
  <2> QED
    BY <1>13, <2>1, <1>t DEF SendBegin, ControlInv, Stopping, Processing
<1>14. ASSUME NEW l \in Levels, SendEnd(l)
       PROVE  ControlInv'
  <2>1. /\ lfWriting /\ lfWriting' = lfWriting
        /\ pc'[l] = "idle" /\ pc[l] = "send"
        /\ \A h \in Levels \ {l} : pc'[h] = pc[h]
        /\ UNCHANGED <<n, tmpBuf, lfState>>
    BY <1>14, <1>t, SendEndFacts DEF SendEnd, TypeOK
  <2>2. Len(rb') >= Len(rb)
    BY <1>14, <1>l, SendEndFacts, LenProperties
  <2>3. n \in Nat
    BY <1>t DEF TypeOK
  <2> QED
    BY <2>1, <2>2, <2>3, <1>t, <1>l DEF ControlInv, Stopping, Processing
<1>15. CASE UNCHANGED vars
  BY <1>15, <1>t DEF vars, ControlInv, Stopping, Processing
<1> QED
  BY <1>1, <1>2, <1>4, <1>5, <1>6, <1>7, <1>8, <1>9, <1>10, <1>11, <1>12,
     <1>13, <1>14, <1>15 DEF Next, LfStop, LfProcess, Send

\* Every step keeps the bounds on the ring and on the file.
LEMMA SpaceStep == LogInv /\ [Next]_vars => SpaceInv'
<1> SUFFICES ASSUME LogInv, [Next]_vars PROVE SpaceInv'
  OBVIOUS
<1>t. TypeOK /\ ControlInv /\ SpaceInv /\ TypeOK' /\ ControlInv'
  BY TypeStep, ControlStep DEF LogInv
<1>l. /\ Len(rb) \in Nat /\ Len(<<>>) = 0 /\ Len(tmpBuf) \in Nat
      /\ Len(rb') \in Nat /\ Len(tmpBuf') \in Nat
      /\ fileLen \in Nat /\ fileBytesCounter \in Nat /\ n \in Nat
  BY <1>t, LenProperties, EmptySeq DEF TypeOK
<1>z. FileSize2 \in Nat /\ FileSize2 + RbSize <= FileSize /\ FileSize2 <= FileSize
  BY SizeAssumption, MarginAssumption DEF FileSize2
<1> USE <1>l, <1>z, SizeAssumption
<1>p. 0 \in Levels /\ pc \in [Levels -> MainPc]
  BY <1>t, LevelAssumption DEF TypeOK
<1>1. CASE LfInit
  <2>1. pc[0] = "idle" /\ pc' = pc
    BY <1>1 DEF LfInit, MainAt
  <2> QED  BY <1>1, <2>1, <1>t DEF LfInit, SpaceInv, Stopping, card
<1>2. CASE LfStart
  <2>1. pc[0] = "idle" /\ pc' = pc /\ ~lfWriting
    BY <1>2 DEF LfStart, LfStartNoCard, LfStartNoNumber, LfStartFile,
                StartCalled, MainAt
  <2>2. CASE LfStartNoCard
    BY <2>1, <2>2, <1>t DEF LfStartNoCard, SpaceInv, Stopping, card
  <2>3. CASE LfStartNoNumber
    <3>1. rb' = rb \/ rb' = <<>>
      BY <2>3 DEF LfStartNoNumber
    <3>2. Len(rb') <= RbSize
      BY <3>1, <1>t DEF SpaceInv
    <3>3. UNCHANGED <<fileLen, fileBytesCounter, lfWriting>>
      BY <2>3 DEF LfStartNoNumber
    <3> QED  BY <2>1, <3>2, <3>3, <1>t DEF SpaceInv, Stopping
  <2>4. CASE LfStartFile
    BY <2>1, <2>4, <1>t DEF LfStartFile, SpaceInv, Stopping
  <2> QED  BY <1>2, <2>2, <2>3, <2>4 DEF LfStart
<1>3. CASE LfStopBegin
  <2>1. pc[0] = "idle" /\ tmpBuf = <<>>
    BY <1>3, <1>t DEF LfStopBegin, MainAt, ControlInv
  <2>2. fileBytesCounter + Len(rb) <= FileSize
    BY <2>1, <1>t DEF ControlInv, SpaceInv, Stopping
  <2> QED  BY <1>3, <2>1, <2>2, <1>t DEF LfStopBegin, SpaceInv, card
<1>4. CASE LfStopGet
  <2>1. pc[0] = "stopLoop" /\ tmpBuf = <<>> /\ n = Len(rb) /\ ~lfWriting
    BY <1>4, <1>t DEF LfStopGet, MainAt, ControlInv, Stopping
  <2> DEFINE k == IF n > TmpSize THEN TmpSize ELSE n
  <2>2. k \in 0..Len(rb) /\ TakeFromRing(k)
    BY <1>4, <2>1 DEF LfStopGet
  <2>3. Len(tmpBuf') = k /\ Len(rb') = Len(rb) - k
    BY <2>2, <1>t, TakeFacts
  <2>4. fileBytesCounter + Len(tmpBuf) + Len(rb) <= FileSize
    BY <2>1, <1>t DEF SpaceInv, Stopping
  <2>5. UNCHANGED <<fileLen, fileBytesCounter, lfWriting>>
    BY <1>4 DEF LfStopGet, card
  <2> HIDE DEF k
  <2> QED  BY <2>1, <2>2, <2>3, <2>4, <2>5, <1>t DEF SpaceInv
<1>5. CASE LfStopWrite
  <2>1. pc[0] = "stopWrite" /\ ~lfWriting
    BY <1>5, <1>t DEF LfStopWrite, MainAt, ControlInv, Stopping
  <2>2. Len(disk') - Len(disk) \in 0..Len(tmpBuf) /\ tmpBuf' = <<>>
    BY <1>5, <1>t, WriteTmpFacts DEF LfStopWrite
  <2>3. fileBytesCounter + Len(tmpBuf) + Len(rb) <= FileSize
    BY <2>1, <1>t DEF SpaceInv, Stopping
  <2>4. /\ fileLen' = fileLen + (Len(disk') - Len(disk))
        /\ fileBytesCounter' = fileBytesCounter + Len(tmpBuf)
        /\ UNCHANGED <<rb, lfWriting>>
    BY <1>5 DEF LfStopWrite
  <2> QED  BY <2>1, <2>2, <2>3, <2>4, <1>t DEF SpaceInv
<1>6. CASE LfStopEnd
  BY <1>6, <1>t, <1>p DEF LfStopEnd, SpaceInv, Stopping, MainAt, MainGoto
<1>7. CASE LfProcessBegin
  BY <1>7, <1>t, <1>p DEF LfProcessBegin, SpaceInv, Stopping, MainGoto, card
<1>8. CASE LfProcessGet
  <2>1. pc[0] = "procLoop" /\ n <= Len(rb) /\ pc'[0] = "procWrite"
    BY <1>8, <1>t, <1>p DEF LfProcessGet, MainAt, ControlInv, Processing, MainGoto
  <2>2. TmpSize \in 0..Len(rb) /\ TakeFromRing(TmpSize)
    BY <1>8, <2>1 DEF LfProcessGet
  <2>3. Len(rb') = Len(rb) - TmpSize
    BY <2>2, <1>t, TakeFacts
  <2> QED  BY <1>8, <2>1, <2>3, <1>t DEF LfProcessGet, SpaceInv, Stopping, card
<1>9. CASE LfProcessWrite
  <2>1. /\ pc[0] = "procWrite" /\ Len(tmpBuf) = TmpSize /\ pc'[0] = "procLoop"
    BY <1>9, <1>t, <1>p DEF LfProcessWrite, MainAt, ControlInv, MainGoto
  <2>2. Len(disk') - Len(disk) \in 0..Len(tmpBuf)
    BY <1>9, <1>t, WriteTmpFacts DEF LfProcessWrite
  <2> QED  BY <1>9, <2>1, <2>2, <1>t DEF LfProcessWrite, SpaceInv, Stopping
<1>10. CASE LfProcessRotate
  <2>1. pc'[0] \in {"procLoop", "idle"}
    BY <1>10, <1>p DEF LfProcessRotate, MainGoto
  <2> QED  BY <1>10, <2>1, <1>t DEF LfProcessRotate, SpaceInv, Stopping
<1>11. CASE LfProcessEnd
  BY <1>11, <1>t, <1>p DEF LfProcessEnd, SpaceInv, Stopping, MainGoto, card
<1>12. ASSUME NEW l \in Levels, NEW size \in MsgSizes, SendBegin(l, size)
       PROVE  SpaceInv'
  <2>1. Stopping' => Stopping
    BY <1>12, <1>p DEF SendBegin, Stopping
  <2> QED  BY <1>12, <2>1, <1>t DEF SendBegin, SpaceInv, card
<1>13. ASSUME NEW l \in Levels, SendEnd(l)
       PROVE  SpaceInv'
  <2>1. /\ lfWriting /\ ~Stopping'
        /\ UNCHANGED <<lfWriting, fileLen, fileBytesCounter, tmpBuf>>
    BY <1>13, <1>t, SendEndFacts DEF SendEnd, card, ControlInv
  <2>2. Len(rb') <= RbSize
    BY <1>13, <1>t, SendEndFacts DEF SpaceInv
  <2> QED  BY <2>1, <2>2, <1>t DEF SpaceInv
<1>14. CASE UNCHANGED vars
  BY <1>14, <1>t DEF vars, card, SpaceInv, Stopping
<1> QED
  BY <1>1, <1>2, <1>3, <1>4, <1>5, <1>6, <1>7, <1>8, <1>9, <1>10, <1>11,
     <1>12, <1>13, <1>14 DEF Next, LfStop, LfProcess, Send

\* Every step keeps the stream of bytes whole and complete.
LEMMA StreamStep == LogInv /\ [Next]_vars => StreamInv'
<1> SUFFICES ASSUME LogInv, [Next]_vars, ~writeLost'
             PROVE  /\ WholeFrames(disk \o tmpBuf \o rb)'
                    /\ Len(disk') + Len(tmpBuf') + Len(rb') = accepted'
  BY DEF StreamInv
<1>t. TypeOK /\ ControlInv /\ StreamInv /\ TypeOK'
  BY TypeStep DEF LogInv
<1>q. /\ disk \in Seq(Byte) /\ tmpBuf \in Seq(Byte) /\ rb \in Seq(Byte)
      /\ disk' \in Seq(Byte) /\ tmpBuf' \in Seq(Byte) /\ rb' \in Seq(Byte)
      /\ Len(disk) \in Nat /\ Len(tmpBuf) \in Nat /\ Len(rb) \in Nat
      /\ <<>> \in Seq(Byte) /\ Len(<<>>) = 0
  BY <1>t, LenProperties, EmptySeq DEF TypeOK
<1>e. WholeFrames(<<>>)
  BY <1>q DEF WholeFrames
<1>1. ASSUME UNCHANGED <<disk, tmpBuf, rb, accepted, writeLost>>
      PROVE  /\ WholeFrames(disk \o tmpBuf \o rb)'
             /\ Len(disk') + Len(tmpBuf') + Len(rb') = accepted'
  BY <1>1, <1>t DEF StreamInv
<1>2. ASSUME ~writeLost, disk' = disk \o tmpBuf, tmpBuf' = <<>>,
             UNCHANGED <<rb, accepted>>
      PROVE  /\ WholeFrames(disk \o tmpBuf \o rb)'
             /\ Len(disk') + Len(tmpBuf') + Len(rb') = accepted'
  <2>1. disk' \o tmpBuf' = disk \o tmpBuf
    BY <1>2, <1>q, ConcatEmptySeq
  <2>2. Len(disk') = Len(disk) + Len(tmpBuf)
    BY <1>2, <1>q, ConcatProperties
  <2>3. WholeFrames(disk \o tmpBuf \o rb)'
    BY <2>1, <1>2, <1>t DEF StreamInv
  <2> QED  BY <1>2, <1>q, <1>t, <2>2, <2>3 DEF StreamInv
<1>3. ASSUME NEW k \in 0..Len(rb), TakeFromRing(k), tmpBuf = <<>>,
             UNCHANGED <<disk, accepted, writeLost>>
      PROVE  /\ WholeFrames(disk \o tmpBuf \o rb)'
             /\ Len(disk') + Len(tmpBuf') + Len(rb') = accepted'
  <2>1. /\ Len(tmpBuf') = k /\ Len(rb') = Len(rb) - k /\ tmpBuf' \o rb' = rb
    BY <1>3, <1>t, TakeFacts
  <2>2. disk' \o tmpBuf' \o rb' = disk \o (tmpBuf' \o rb')
    <3>1. (disk' \o tmpBuf') \o rb' = disk' \o (tmpBuf' \o rb')
      <4>1. disk' \in Seq(Byte) /\ tmpBuf' \in Seq(Byte) /\ rb' \in Seq(Byte)
        BY <1>q
      <4> QED  BY ONLY <4>1, StreamConcat
    <3>2. disk' = disk
      BY <1>3
    <3> QED  BY <3>1, <3>2
  <2>3. disk' \o tmpBuf' \o rb' = disk \o tmpBuf \o rb
    <3>1. disk \o tmpBuf = disk
      BY <1>3, <1>q, ConcatEmptySeq
    <3> QED  BY <2>1, <2>2, <3>1
  <2> QED  BY <1>3, <1>q, <1>t, <2>1, <2>3 DEF StreamInv
<1>4. CASE LfInit \/ LfStartNoCard \/ LfStartNoNumber
  <2>1. rb = <<>>
    <3>1. pc[0] = "idle" /\ ~lfWriting
      BY <1>4, <1>t DEF LfInit, LfStartNoCard, LfStartNoNumber, StartCalled,
                        MainAt, ControlInv
    <3> QED  BY <3>1, <1>t DEF ControlInv, Stopping
  <2>2. UNCHANGED <<disk, tmpBuf, rb, accepted, writeLost>>
    BY <1>4, <2>1 DEF LfInit, LfStartNoCard, LfStartNoNumber, card
  <2> QED  BY <2>2, <1>1
<1>5. CASE LfStartFile
  <2>1. pc[0] = "idle"
    BY <1>5 DEF LfStartFile, StartCalled, MainAt
  <2>2. /\ disk' = <<>> /\ tmpBuf' = <<>> /\ rb' = <<>> /\ accepted' = 0
    BY <1>5, <2>1, <1>t DEF LfStartFile, ControlInv
  <2>3. disk' \o tmpBuf' \o rb' = <<>>
    BY <2>2, <1>q, ConcatEmptySeq
  <2>4. WholeFrames(disk \o tmpBuf \o rb)'
    BY <2>3, <1>e
  <2> QED  BY <2>2, <2>4, <1>q
<1>6. CASE LfStopGet
  <2> DEFINE k == IF n > TmpSize THEN TmpSize ELSE n
  <2>1. pc[0] = "stopLoop" /\ tmpBuf = <<>> /\ n = Len(rb)
    BY <1>6, <1>t DEF LfStopGet, MainAt, ControlInv, Stopping
  <2>2. k \in 0..Len(rb) /\ TakeFromRing(k)
    BY <1>6, <2>1, <1>q, SizeAssumption DEF LfStopGet
  <2>3. UNCHANGED <<disk, accepted, writeLost>>
    BY <1>6 DEF LfStopGet, card
  <2> HIDE DEF k
  <2> QED  BY <2>1, <2>2, <2>3, <1>3
<1>7. CASE LfProcessGet
  <2>1. pc[0] = "procLoop" /\ tmpBuf = <<>> /\ n <= Len(rb) /\ n \in Nat
    BY <1>7, <1>t DEF LfProcessGet, MainAt, ControlInv, Processing, TypeOK
  <2>2. TmpSize \in 0..Len(rb) /\ TakeFromRing(TmpSize)
    BY <1>7, <2>1, <1>q, SizeAssumption DEF LfProcessGet
  <2>3. UNCHANGED <<disk, accepted, writeLost>>
    BY <1>7 DEF LfProcessGet, card
  <2> QED  BY <2>1, <2>2, <2>3, <1>3
<1>8. CASE LfStopWrite \/ LfProcessWrite \/ LfProcessRotate
  <2>1. WriteTmp /\ UNCHANGED <<rb, accepted>>
    BY <1>8 DEF LfStopWrite, LfProcessWrite, LfProcessRotate
  <2>2. ~writeLost /\ disk' = disk \o tmpBuf /\ tmpBuf' = <<>>
    BY <2>1, <1>t, WriteTmpFacts
  <2> QED  BY <2>1, <2>2, <1>2
<1>9. CASE LfStopBegin \/ LfStopEnd \/ LfProcessBegin \/ LfProcessEnd
  BY <1>9, <1>1 DEF LfStopBegin, LfStopEnd, LfProcessBegin, LfProcessEnd, card
<1>10. ASSUME NEW l \in Levels, NEW size \in MsgSizes, SendBegin(l, size)
       PROVE  UNCHANGED <<disk, tmpBuf, rb, accepted, writeLost>>
  BY <1>10 DEF SendBegin, card
<1>11. ASSUME NEW l \in Levels, SendEnd(l)
       PROVE  /\ WholeFrames(disk \o tmpBuf \o rb)'
              /\ Len(disk') + Len(tmpBuf') + Len(rb') = accepted'
  <2>1. UNCHANGED <<disk, tmpBuf, writeLost>>
    BY <1>11 DEF SendEnd, card
  <2>2. CASE UNCHANGED <<rb, accepted>>
    BY <2>1, <2>2, <1>1
  <2>3. ASSUME NEW f \in Seq(Byte), WholeFrames(f), rb' = rb \o f,
               Len(rb') = Len(rb) + Len(f), accepted' = accepted + Len(f)
        PROVE  /\ WholeFrames(disk \o tmpBuf \o rb)'
               /\ Len(disk') + Len(tmpBuf') + Len(rb') = accepted'
    <3>1. disk \o tmpBuf \in Seq(Byte) /\ disk \o tmpBuf \o rb \in Seq(Byte)
      BY <1>q, ConcatProperties
    <3>2. disk' \o tmpBuf' \o rb' = (disk \o tmpBuf \o rb) \o f
      <4>1. rb \in Seq(Byte)
        BY <1>q
      <4>2. ((disk \o tmpBuf) \o rb) \o f = (disk \o tmpBuf) \o (rb \o f)
        BY <3>1, <4>1, StreamConcat, Zenon
      <4> QED  BY <2>1, <2>3, <4>2, Zenon
    <3>3. ~writeLost
      BY <2>1
    <3>4. WholeFrames(disk \o tmpBuf \o rb)'
      BY <2>3, <3>1, <3>2, <3>3, <1>t, WholeFramesConcat DEF StreamInv
    <3>5. Len(f) \in Nat /\ accepted \in Nat
      BY <2>3, <1>t, LenProperties DEF TypeOK
    <3>6. Len(disk) + Len(tmpBuf) + Len(rb) = accepted
      BY <3>3, <1>t DEF StreamInv
    <3>7. Len(disk') = Len(disk) /\ Len(tmpBuf') = Len(tmpBuf)
      BY <2>1
    <3>8. Len(disk') + Len(tmpBuf') + Len(rb') = accepted'
      <4>1. Len(disk) \in Nat /\ Len(tmpBuf) \in Nat /\ Len(rb) \in Nat
        BY <1>q
      <4>2. Len(disk) + Len(tmpBuf) + (Len(rb) + Len(f)) = accepted + Len(f)
        BY <3>5, <3>6, <4>1
      <4> QED  BY <2>3, <3>7, <4>2, Zenon
    <3> QED  BY <3>4, <3>8
  <2> QED  BY <1>11, <2>2, <2>3, SendEndFacts
<1>12. CASE UNCHANGED vars
  BY <1>12, <1>1 DEF vars, card
<1> QED
  BY <1>1, <1>4, <1>5, <1>6, <1>7, <1>8, <1>9, <1>10, <1>11, <1>12
     DEF Next, LfStart, LfStop, LfProcess, Send

\* LogInv holds in every reachable state.
LEMMA LogInvariant == Spec => []LogInv
<1>1. Init => LogInv
  <2> SUFFICES ASSUME Init PROVE LogInv
    OBVIOUS
  <2>1. <<>> \in Seq(Byte) /\ Len(<<>>) = 0 /\ <<>> \o <<>> = <<>>
    BY EmptySeq, ConcatEmptySeq
  <2>2. TypeOK
    <3>1. 0 \in 0..CounterMod - 1 /\ 0 \in 0..MaxSends
      BY SizeAssumption
    <3>2. pc \in [Levels -> MainPc] /\ \A l \in Levels : pc[l] = "idle"
      BY DEF Init, MainPc
    <3>3. msg \in [Levels -> [count : 0..CounterMod - 1, size : Nat]]
      BY <3>1 DEF Init
    <3> QED  BY <2>1, <3>1, <3>2, <3>3 DEF Init, TypeOK
  <2>3. ControlInv
    BY <2>1, LevelAssumption DEF Init, ControlInv, Stopping, Processing
  <2>4. SpaceInv
    BY <2>1, SizeAssumption, LevelAssumption
       DEF Init, SpaceInv, Stopping, FileSize2
  <2>5. StreamInv
    BY <2>1 DEF Init, StreamInv, WholeFrames
  <2> QED  BY <2>2, <2>3, <2>4, <2>5 DEF LogInv
<1>2. LogInv /\ [Next]_vars => LogInv'
  BY TypeStep, ControlStep, SpaceStep, StreamStep DEF LogInv
<1> QED  BY <1>1, <1>2, PTL DEF Spec

-----------------------------------------------------------------------------

\* The variables of the logger keep their types: the message counter wraps at
\* 2^8 and the ring, tmpBuf and the files only ever hold bytes of frames.
THEOREM LogTypeCorrect == Spec => []TypeOK
<1>1. LogInv => TypeOK
  BY DEF LogInv
<1> QED  BY <1>1, LogInvariant, PTL

\* No write of lfProcess or lfStop goes past the preallocated file size, for
\* every ring, block and file size with a margin of a full ring and a block.
THEOREM LogWritesFit == Spec => []WritesFit
<1>1. LogInv => WritesFit
  <2> SUFFICES ASSUME LogInv PROVE WritesFit
    OBVIOUS
  <2>1. /\ Len(rb) \in Nat /\ Len(tmpBuf) \in Nat
        /\ fileLen \in Nat /\ fileBytesCounter \in Nat
    BY LenProperties DEF LogInv, TypeOK
  <2>2. pc[0] = "procWrite" => fileBytesCounter + Len(tmpBuf) <= FileSize
    BY <2>1, SizeAssumption, MarginAssumption
       DEF LogInv, ControlInv, SpaceInv, Processing, FileSize2
  <2> QED
    BY <2>1, <2>2, SizeAssumption DEF LogInv, SpaceInv, Stopping, WritesFit
<1> QED  BY <1>1, LogInvariant, PTL

\* However the levels interrupt each other in lfSendMessage and lfProcess, the
\* card, tmpBuf and the ring hold whole frames in order (no write lost).
THEOREM LogFramesIntact == Spec => []FramesIntact
<1>1. LogInv => FramesIntact
  BY DEF LogInv, StreamInv, FramesIntact
<1> QED  BY <1>1, LogInvariant, PTL

\* A log that lfStop has closed holds every byte that lfSendMessage accepted.
THEOREM LogStoppedComplete == Spec => []StoppedLogComplete
<1>1. LogInv => StoppedLogComplete
  <2> SUFFICES ASSUME LogInv, pc[0] = "idle", ~lfWriting, ~writeLost
               PROVE  Len(disk) = accepted /\ WholeFrames(disk)
    BY DEF StoppedLogComplete
  <2>1. rb = <<>> /\ tmpBuf = <<>>
    BY DEF LogInv, ControlInv, Stopping
  <2>2. disk \in Seq(Byte) /\ Len(disk) \in Nat /\ Len(<<>>) = 0
    BY LenProperties, EmptySeq DEF LogInv, TypeOK
  <2>3. disk \o tmpBuf \o rb = disk
    BY <2>1, <2>2, ConcatEmptySeq
  <2> QED  BY <2>1, <2>2, <2>3 DEF LogInv, StreamInv
<1> QED  BY <1>1, LogInvariant, PTL


-----------------------------------------------------------------------------
(* The numbers of the log files: module LogNumber *)

\* What lfStart knows at each of its lines, on a card that lost no number.
NumberSound ==
  slot \notin torn =>
    /\ startPc \in {"numbered", "truncated", "named"} => \A i \in logs[slot] : i < fileNumber
    /\ startPc = "truncated" /\ fn[slot] # NoNumber => \A i \in logs[slot] : i <= fn[slot]
    /\ startPc = "named" => fn[slot] = fileNumber

NoFaults == Faults = {} => torn = {}

\* The inductive invariant.
NumberInv == NumberTypeOK /\ NumberNotBehind /\ NumberSound /\ NoFaults

\* The initial states satisfy the invariant.
LEMMA NumberInitInv == NumberInit => NumberInv
  BY NumberAssumption DEF NumberInit, NumberInv, NumberTypeOK, NumberNotBehind, NumberSound, NoFaults, NoNumber

\* ReadNumber keeps the invariant: the number read is not behind the logs, or
\* it was not heard.
LEMMA ReadNumberInv == NumberInv /\ ReadNumber => NumberInv'
<1> SUFFICES ASSUME NumberInv, ReadNumber PROVE NumberInv'
  OBVIOUS
<1>1. fn[slot] \in {NoNumber} \cup 0..MaxLogs /\ logs[slot] \in SUBSET (0..MaxLogs)
  BY DEF NumberInv, NumberTypeOK
<1>2. NumberTypeOK'
  BY <1>1, NumberAssumption DEF NumberInv, NumberTypeOK, ReadNumber, NoNumber
<1>3. NumberNotBehind' /\ NoFaults'
  BY DEF NumberInv, NumberTypeOK, NumberNotBehind, NoFaults, ReadNumber
<1>4. slot \notin torn => \A i \in logs[slot] : i <= fn[slot]
  BY DEF NumberInv, NumberTypeOK, NumberNotBehind, ReadNumber
<1>5. slot \notin torn' => \A i \in logs[slot] : i < fileNumber'
  BY <1>1, <1>4, NumberAssumption DEF ReadNumber, NoNumber
<1>6. NumberSound'
  BY <1>5 DEF NumberSound, ReadNumber
<1> QED BY <1>2, <1>3, <1>6 DEF NumberInv

\* OpenFails keeps the invariant: the card has lost its number.
LEMMA OpenFailsInv == NumberInv /\ OpenFails => NumberInv'
<1> SUFFICES ASSUME NumberInv, OpenFails PROVE NumberInv'
  OBVIOUS
<1>1. CASE UNCHANGED <<startPc, fn, torn>>
  BY <1>1 DEF NumberInv, NumberTypeOK, NumberNotBehind, NumberSound, NoFaults, OpenFails
<1>2. CASE /\ startPc' = "numbered"
           /\ fn' = [fn EXCEPT ![slot] = NoNumber]
           /\ torn' = torn \cup {slot}
  <2>1. NumberTypeOK'
    BY <1>2 DEF NumberInv, NumberTypeOK, OpenFails
  <2>2. NumberNotBehind'
    BY <1>2 DEF NumberInv, NumberTypeOK, NumberNotBehind, OpenFails
  <2>3. NumberSound' /\ NoFaults'
    BY <1>2 DEF NumberInv, NumberSound, NoFaults, OpenFails
  <2> QED BY <2>1, <2>2, <2>3 DEF NumberInv
<1> QED BY <1>1, <1>2 DEF OpenFails

\* Truncate keeps the invariant: the number is only in RAM now, unless the card
\* refused and fn.txt still has the old one.
LEMMA TruncateInv == NumberInv /\ Truncate => NumberInv'
<1> SUFFICES ASSUME NumberInv, Truncate PROVE NumberInv'
  OBVIOUS
<1>1. NumberTypeOK'
  BY DEF NumberInv, NumberTypeOK, Truncate
<1>2. NumberNotBehind'
  BY DEF NumberInv, NumberTypeOK, NumberNotBehind, Truncate
<1>3. slot \notin torn => \A i \in logs[slot] : i <= fn[slot]
  BY DEF NumberInv, NumberTypeOK, NumberNotBehind, Truncate
<1>4. fn'[slot] = NoNumber \/ fn'[slot] = fn[slot]
  BY DEF NumberInv, NumberTypeOK, Truncate
<1>5. NumberSound' /\ NoFaults'
  BY <1>3, <1>4 DEF NumberInv, NumberSound, NoFaults, Truncate
<1> QED BY <1>1, <1>2, <1>5 DEF NumberInv

\* WriteNumber keeps the invariant: the number is saved, or lost with the card.
LEMMA WriteNumberInv == NumberInv /\ WriteNumber => NumberInv'
<1> SUFFICES ASSUME NumberInv, WriteNumber PROVE NumberInv'
  OBVIOUS
<1>1. CASE fn' = [fn EXCEPT ![slot] = fileNumber] /\ torn' = torn
  <2>1. NumberTypeOK'
    BY <1>1 DEF NumberInv, NumberTypeOK, WriteNumber
  <2>2. fn'[slot] = fileNumber /\ \A c \in Cards \ {slot} : fn'[c] = fn[c]
    BY <1>1 DEF NumberInv, NumberTypeOK
  <2>3. slot \notin torn => \A i \in logs[slot] : i < fileNumber
    BY DEF NumberInv, NumberSound, WriteNumber
  <2>4. slot \notin torn => \A i \in logs[slot] : i <= fileNumber
    BY <2>3 DEF NumberInv, NumberTypeOK
  <2>5. NumberNotBehind'
    BY <1>1, <2>2, <2>4 DEF NumberInv, NumberTypeOK, NumberNotBehind, WriteNumber
  <2>6. NumberSound' /\ NoFaults'
    BY <1>1, <2>2, <2>3 DEF NumberInv, NumberSound, NoFaults, WriteNumber
  <2> QED BY <2>1, <2>5, <2>6 DEF NumberInv
<1>2. CASE /\ "write" \in Faults
           /\ torn' = torn \cup {slot}
           /\ fn' \in {fn, [fn EXCEPT ![slot] = NoNumber]}
  <2>1. NumberTypeOK'
    BY <1>2 DEF NumberInv, NumberTypeOK, WriteNumber
  <2>2. NumberNotBehind' /\ NumberSound' /\ NoFaults'
    BY <1>2 DEF NumberInv, NumberTypeOK, NumberNotBehind, NumberSound, NoFaults, WriteNumber
  <2> QED BY <2>1, <2>2 DEF NumberInv
<1> QED BY <1>1, <1>2 DEF WriteNumber

\* OpenLog keeps the invariant: the new log has the number in fn.txt.
LEMMA OpenLogInv == NumberInv /\ OpenLog => NumberInv'
<1> SUFFICES ASSUME NumberInv, OpenLog PROVE NumberInv'
  OBVIOUS
<1>1. NumberTypeOK'
  BY DEF NumberInv, NumberTypeOK, OpenLog
<1>2. \A c \in Cards \ {slot} : logs'[c] = logs[c]
  BY DEF NumberInv, NumberTypeOK, OpenLog
<1>3. slot \in Cards /\ logs'[slot] \subseteq logs[slot] \cup {fileNumber}
  BY DEF NumberInv, NumberTypeOK, OpenLog
<1>4. slot \notin torn => fn[slot] = fileNumber /\ \A i \in logs[slot] : i <= fn[slot]
  BY DEF NumberInv, NumberTypeOK, NumberSound, NumberNotBehind, OpenLog
<1>5. fileNumber <= fileNumber
  BY NumberAssumption DEF NumberInv, NumberTypeOK
<1>6. NumberNotBehind'
  <2>1. slot \notin torn => \A i \in logs'[slot] : i <= fn[slot]
    BY <1>3, <1>4, <1>5
  <2>2. \A c \in Cards \ torn : \A i \in logs'[c] : i <= fn[c]
    BY <1>2, <2>1 DEF NumberInv, NumberNotBehind, OpenLog
  <2> QED BY <2>2 DEF NumberNotBehind, OpenLog
<1>7. NumberSound' /\ NoFaults'
  BY DEF NumberInv, NumberSound, NoFaults, OpenLog
<1> QED BY <1>1, <1>6, <1>7 DEF NumberInv

\* PowerCycle keeps the invariant: a number that was only in RAM is lost.
LEMMA PowerCycleInv == NumberInv /\ PowerCycle => NumberInv'
<1> SUFFICES ASSUME NumberInv, PowerCycle PROVE NumberInv'
  OBVIOUS
<1>1. NumberTypeOK'
  BY NumberAssumption DEF NumberInv, NumberTypeOK, PowerCycle
<1>2. NumberNotBehind'
  BY DEF NumberInv, NumberTypeOK, NumberNotBehind, NumberSound, PowerCycle
<1>3. NumberSound' /\ NoFaults'
  BY DEF NumberInv, NumberSound, NoFaults, PowerCycle
<1> QED BY <1>1, <1>2, <1>3 DEF NumberInv

\* Every step keeps the invariant.
LEMMA NumberNextInv == NumberInv /\ [NumberNext]_numberVars => NumberInv'
<1> SUFFICES ASSUME NumberInv, [NumberNext]_numberVars PROVE NumberInv'
  OBVIOUS
<1>1. CASE UNCHANGED numberVars
  BY <1>1 DEF numberVars, NumberInv, NumberTypeOK, NumberNotBehind, NumberSound, NoFaults
<1> QED BY <1>1, ReadNumberInv, OpenFailsInv, TruncateInv, WriteNumberInv, OpenLogInv,
           PowerCycleInv DEF NumberNext

\* The invariant excludes that a sound card's log is overwritten.
LEMMA InvFresh == NumberInv => FreshUnlessTorn
<1> SUFFICES ASSUME NumberInv, startPc # "idle", slot \notin torn PROVE fileNumber \notin logs[slot]
  BY DEF FreshUnlessTorn, Fresh
<1>1. \A i \in logs[slot] : i < fileNumber
  BY DEF NumberInv, NumberTypeOK, NumberSound
<1>2. ~(fileNumber < fileNumber)
  BY NumberAssumption DEF NumberInv, NumberTypeOK
<1> QED BY <1>1, <1>2

\* With any cards and any faults, a failing fgets or truncate included, a log is
\* overwritten only on a card whose number was lost or not heard (lfStart).
THEOREM LogsSurvive == NumberSpec => []FreshUnlessTorn
  BY InvFresh, NumberInitInv, NumberNextInv, PTL DEF NumberSpec

\* If nothing goes wrong within lfStart the comment at line 145 is true: the
\* number chosen is that of no existing log.
THEOREM NumberCorrect == ASSUME Faults = {} PROVE NumberSpec => []NumberIsFresh
<1>1. NumberInv => NumberIsFresh
  BY InvFresh DEF NumberInv, NoFaults, NumberIsFresh, FreshUnlessTorn
<1> QED BY <1>1, NumberInitInv, NumberNextInv, PTL DEF NumberSpec

\* A card that kept its number, and whose number was heard each time, has no log
\* numbered above it, whatever goes wrong within lfStart and whichever card is
\* in the slot.
THEOREM NumberKept == NumberSpec => []NumberNotBehind
<1>1. NumberInv => NumberNotBehind
  BY DEF NumberInv
<1> QED BY <1>1, NumberInitInv, NumberNextInv, PTL DEF NumberSpec
=============================================================================
