------------------------------ MODULE LogFile ------------------------------
(***************************************************************************)
(* The binary logger of the robot (src/src/logfile.cpp): frames are put    *)
(* into the byte ring rb by lfSendMessage and moved to the card by         *)
(* lfProcess, which the main loop calls in every turn, and by lfStop.      *)
(*                                                                         *)
(* lfSendMessage is written to be called from several interrupt levels     *)
(* (comment at logfile.cpp:256; the callers at the levels of mdProcess and *)
(* onCurrent are commented out in motordriver.cpp:455-472 and 503-509).    *)
(* Levels are nested: level l runs only while every higher level is idle,  *)
(* and what lies between disableInterrupts and enableInterrupts is one     *)
(* step.  Level 0 is the main loop, which alone starts, stops and drains   *)
(* the log.                                                                *)
(*                                                                         *)
(* A byte of a frame is <<count, index, size>>: the message count stamped  *)
(* into the header, the place of the byte in the frame, and the length of  *)
(* the frame.  Payload and CRC are abstracted away.                        *)
(***************************************************************************)
EXTENDS Integers, Sequences, FiniteSets

CONSTANTS
    RbSize,      \* rbSize: capacity of the ring in bytes
    TmpSize,     \* tmpSize: the block lfProcess moves to the card
    FileSize,    \* fileSize: bytes preallocated for each file
    Margin,      \* 16*512: what fileSize2 keeps free at the end of a file
    CounterMod,  \* 2^8: the message counter is an unsigned char
    MsgSizes,    \* lengths of whole frames (size + headerSize + 2)
    Levels,      \* interrupt levels that send messages; 0 is the main loop
    SdFaults,    \* card operations that may fail
    MaxSends     \* bound: calls of lfSendMessage that pass its first test

ASSUME SizeAssumption ==
    /\ RbSize \in Nat /\ TmpSize \in Nat \ {0}
    /\ FileSize \in Nat /\ Margin \in Nat /\ Margin <= FileSize
    /\ CounterMod \in Nat \ {0}
    /\ MsgSizes \subseteq Nat \ {0}
    /\ MaxSends \in Nat

\* What logfile.cpp:8-18 and logfile.h:46 give: the free space fileSize2
\* keeps holds a full ring and one block.
ASSUME MarginAssumption == RbSize <= Margin /\ TmpSize <= Margin

ASSUME LevelAssumption == Levels \subseteq Nat /\ 0 \in Levels

ASSUME FaultAssumption ==
    SdFaults \subseteq {"begin", "open", "preAllocate", "truncate", "write"}

VARIABLES
    sdStarted,        \* sd.begin() succeeded
    lfState,          \* lfSInit, lfSGood or lfSError
    lfWriting,        \* "true if writing the log file right now"
    rb,               \* bytes in the ring, oldest first; rb.num = Len(rb)
    counter,          \* message counter
    ffOverflowCounter,\* frames refused because the ring was full
    fileCounter,      \* files rotated since lfStart
    fileBytesCounter, \* bytes counted into the current file
    tmpBuf,           \* block taken from the ring, not written yet
    n,                \* local copy of rb.num in lfProcess and lfStop
    pc,               \* where each level is
    msg,              \* header built by lfSendMessage at each level
    fileOpen,         \* the card: file is open
    fileLen,          \* the card: bytes in the current file
    disk,             \* the card: bytes of this log, all its files in order
    writeLost,        \* history: a write of this log failed
    accepted,         \* history: bytes lfSendMessage accepted for this log
    sends             \* calls of lfSendMessage that passed the first test

card == <<fileOpen, fileLen, disk, writeLost>>
vars == <<sdStarted, lfState, lfWriting, rb, counter, ffOverflowCounter,
          fileCounter, fileBytesCounter, tmpBuf, n, pc, msg, card, accepted,
          sends>>

\* Mutant: files are filled to their preallocated end.
MutFileSize2 == FileSize

FileSize2 == FileSize - Margin

Frame(c, size) == [i \in 1..size |-> <<c, i, size>>]

Byte == (0..CounterMod - 1) \X (Nat \ {0}) \X MsgSizes

MainPc == {"idle", "send", "procLoop", "procWrite", "stopLoop", "stopWrite"}

TypeOK ==
    /\ sdStarted \in BOOLEAN
    /\ lfState \in {"lfSInit", "lfSGood", "lfSError"}
    /\ lfWriting \in BOOLEAN
    /\ rb \in Seq(Byte)
    /\ counter \in 0..CounterMod - 1
    /\ ffOverflowCounter \in Nat
    /\ fileCounter \in Nat
    /\ fileBytesCounter \in Nat
    /\ tmpBuf \in Seq(Byte)
    /\ n \in Nat
    /\ pc \in [Levels -> MainPc]
    /\ \A l \in Levels \ {0} : pc[l] \in {"idle", "send"}
    /\ msg \in [Levels -> [count : 0..CounterMod - 1, size : Nat]]
    /\ \A l \in Levels : pc[l] = "send" => msg[l].size \in MsgSizes
    /\ fileOpen \in BOOLEAN
    /\ fileLen \in Nat
    /\ disk \in Seq(Byte)
    /\ writeLost \in BOOLEAN
    /\ accepted \in Nat
    /\ sends \in 0..MaxSends

Init ==
    /\ sdStarted = FALSE
    /\ lfState = "lfSInit"
    /\ lfWriting = FALSE
    /\ rb = <<>>
    /\ counter = 0
    /\ ffOverflowCounter = 0
    /\ fileCounter = 0
    /\ fileBytesCounter = 0
    /\ tmpBuf = <<>>
    /\ n = 0
    /\ pc = [l \in Levels |-> "idle"]
    /\ msg = [l \in Levels |-> [count |-> 0, size |-> 0]]
    /\ fileOpen = FALSE
    /\ fileLen = 0
    /\ disk = <<>>
    /\ writeLost = FALSE
    /\ accepted = 0
    /\ sends = 0

\* Level l has the processor: no higher level is inside a handler.
CanRun(l) == \A h \in Levels : h > l => pc[h] = "idle"

MainAt(where) == CanRun(0) /\ pc[0] = where
MainGoto(where) == pc' = [pc EXCEPT ![0] = where]

\* The results a card operation may have.
Outcome(op) == IF op \in SdFaults THEN BOOLEAN ELSE {TRUE}

-----------------------------------------------------------------------------
(* lfInit: also called again by lfStart while the card has not started.    *)

LfInit ==
    /\ MainAt("idle")
    /\ lfState = "lfSInit"
    /\ rb' = <<>>
    /\ ffOverflowCounter' = 0
    /\ lfWriting' = FALSE
    /\ \E ok \in Outcome("begin") :
          /\ sdStarted' = ok
          /\ lfState' = IF ok THEN "lfSGood" ELSE "lfSError"
    /\ UNCHANGED <<counter, fileCounter, fileBytesCounter, tmpBuf, n, pc, msg,
                   card, accepted, sends>>

-----------------------------------------------------------------------------
(* lfStart.  No message is accepted before lfWriting is set, so interrupts *)
(* cannot be seen inside it and each of its exits is one step.             *)

StartCalled == MainAt("idle") /\ lfState # "lfSInit" /\ ~lfWriting

\* Lines 110-116: the card still does not start.
LfStartNoCard ==
    /\ StartCalled
    /\ ~sdStarted
    /\ FALSE \in Outcome("begin")
    /\ lfState' = "lfSError"
    /\ rb' = <<>>
    /\ ffOverflowCounter' = 0
    /\ UNCHANGED <<sdStarted, lfWriting, counter, fileCounter,
                   fileBytesCounter, tmpBuf, n, pc, msg, card, accepted, sends>>

\* Lines 122-126: fn.txt can be neither opened nor created.
LfStartNoNumber ==
    /\ StartCalled
    /\ FALSE \in Outcome("open")
    /\ sdStarted' = TRUE
    /\ lfState' = "lfSError"
    /\ rb' = IF sdStarted THEN rb ELSE <<>>
    /\ ffOverflowCounter' = IF sdStarted THEN ffOverflowCounter ELSE 0
    /\ fileOpen' = FALSE
    /\ UNCHANGED <<lfWriting, counter, fileCounter, fileBytesCounter, tmpBuf,
                   n, pc, msg, fileLen, disk, writeLost, accepted, sends>>

\* Lines 159-186: the log file is opened and preallocated, or not.
LfStartFile ==
    /\ StartCalled
    /\ sdStarted' = TRUE
    /\ fileCounter' = 0
    /\ fileBytesCounter' = 0
    /\ rb' = <<>>
    /\ ffOverflowCounter' = 0
    /\ disk' = <<>>
    /\ writeLost' = FALSE
    /\ fileLen' = 0
    /\ accepted' = 0
    /\ \E opened \in Outcome("open"), allocated \in Outcome("preAllocate") :
          /\ fileOpen' = opened
          /\ lfWriting' = (opened /\ allocated)
          /\ lfState' = IF opened /\ allocated THEN "lfSGood" ELSE "lfSError"
    /\ UNCHANGED <<counter, tmpBuf, n, pc, msg, sends>>

LfStart == LfStartNoCard \/ LfStartNoNumber \/ LfStartFile

-----------------------------------------------------------------------------
(* Writing tmpBuf: the result of file.write is ignored by the code, and a  *)
(* write to a closed file stores nothing.                                  *)

WriteTmp ==
    \E ok \in Outcome("write") :
       LET stored == ok /\ fileOpen IN
       /\ disk' = IF stored THEN disk \o tmpBuf ELSE disk
       /\ writeLost' = IF stored THEN writeLost ELSE TRUE
       /\ tmpBuf' = <<>>

(* get_rb_s inside the disabled interrupts: take k bytes and read rb.num.  *)
TakeFromRing(k) ==
    /\ tmpBuf' = SubSeq(rb, 1, k)
    /\ rb' = SubSeq(rb, k + 1, Len(rb))
    /\ n' = Len(rb) - k

-----------------------------------------------------------------------------
(* lfStop.  It goes on when the log is not being written (line 189 prints  *)
(* and falls through).                                                     *)

LfStopBegin ==
    /\ MainAt("idle")
    /\ sdStarted
    /\ lfState = "lfSGood"
    /\ lfWriting' = FALSE
    /\ n' = Len(rb)
    /\ MainGoto("stopLoop")
    /\ UNCHANGED <<sdStarted, lfState, rb, counter, ffOverflowCounter,
                   fileCounter, fileBytesCounter, tmpBuf, msg, card, accepted, sends>>

LfStopGet ==
    /\ MainAt("stopLoop")
    /\ n > 0
    /\ TakeFromRing(IF n > TmpSize THEN TmpSize ELSE n)
    /\ MainGoto("stopWrite")
    /\ UNCHANGED <<sdStarted, lfState, lfWriting, counter, ffOverflowCounter,
                   fileCounter, fileBytesCounter, msg, card, accepted, sends>>

LfStopWrite ==
    /\ MainAt("stopWrite")
    /\ WriteTmp
    /\ fileLen' = fileLen + (Len(disk') - Len(disk))
    /\ fileBytesCounter' = fileBytesCounter + Len(tmpBuf)
    /\ MainGoto("stopLoop")
    /\ UNCHANGED <<sdStarted, lfState, lfWriting, rb, counter,
                   ffOverflowCounter, fileCounter, n, msg, fileOpen, accepted, sends>>

\* Mutant: what is left below one block stays in the ring.
MutLfStopEnd ==
    /\ MainAt("stopLoop")
    /\ n < TmpSize
    /\ lfState' = lfState
    /\ fileOpen' = FALSE
    /\ MainGoto("idle")
    /\ UNCHANGED <<sdStarted, lfWriting, rb, counter, ffOverflowCounter,
                   fileCounter, fileBytesCounter, tmpBuf, n, msg, fileLen,
                   disk, writeLost, accepted, sends>>

LfStopEnd ==
    /\ MainAt("stopLoop")
    /\ n = 0
    /\ \E truncated \in Outcome("truncate") :
          lfState' = IF truncated /\ fileOpen THEN lfState ELSE "lfSError"
    /\ fileOpen' = FALSE
    /\ MainGoto("idle")
    /\ UNCHANGED <<sdStarted, lfWriting, rb, counter, ffOverflowCounter,
                   fileCounter, fileBytesCounter, tmpBuf, n, msg, fileLen,
                   disk, writeLost, accepted, sends>>

LfStop == LfStopBegin \/ LfStopGet \/ LfStopWrite \/ LfStopEnd

-----------------------------------------------------------------------------
(* lfProcess.                                                              *)

LfProcessBegin ==
    /\ MainAt("idle")
    /\ lfState = "lfSGood"
    /\ lfWriting
    /\ n' = Len(rb)
    /\ MainGoto("procLoop")
    /\ UNCHANGED <<sdStarted, lfState, lfWriting, rb, counter,
                   ffOverflowCounter, fileCounter, fileBytesCounter, tmpBuf,
                   msg, card, accepted, sends>>

\* Mutant: a single full block is left to itself.
MutLfProcessGet ==
    /\ MainAt("procLoop")
    /\ n > TmpSize
    /\ TakeFromRing(TmpSize)
    /\ MainGoto("procWrite")
    /\ UNCHANGED <<sdStarted, lfState, lfWriting, counter, ffOverflowCounter,
                   fileCounter, fileBytesCounter, msg, card, accepted, sends>>

LfProcessGet ==
    /\ MainAt("procLoop")
    /\ n >= TmpSize
    /\ TakeFromRing(TmpSize)
    /\ MainGoto("procWrite")
    /\ UNCHANGED <<sdStarted, lfState, lfWriting, counter, ffOverflowCounter,
                   fileCounter, fileBytesCounter, msg, card, accepted, sends>>

\* The file has room for another block.
LfProcessWrite ==
    /\ MainAt("procWrite")
    /\ fileBytesCounter + TmpSize <= FileSize2
    /\ WriteTmp
    /\ fileLen' = fileLen + (Len(disk') - Len(disk))
    /\ fileBytesCounter' = fileBytesCounter + TmpSize
    /\ MainGoto("procLoop")
    /\ UNCHANGED <<sdStarted, lfState, lfWriting, rb, counter,
                   ffOverflowCounter, fileCounter, n, msg, fileOpen, accepted, sends>>

\* Lines 322-347: the block filled the file, go on in another one.  A failed
\* truncate only sets lfState; a failed open or preAllocate also returns.
LfProcessRotate ==
    /\ MainAt("procWrite")
    /\ fileBytesCounter + TmpSize > FileSize2
    /\ WriteTmp
    /\ fileCounter' = fileCounter + 1
    /\ fileBytesCounter' = 0
    /\ fileLen' = 0
    /\ \E truncated \in Outcome("truncate"), opened \in Outcome("open"),
          allocated \in Outcome("preAllocate") :
          /\ fileOpen' = opened
          /\ lfState' = IF truncated /\ opened /\ allocated
                        THEN lfState ELSE "lfSError"
          /\ MainGoto(IF opened /\ allocated THEN "procLoop" ELSE "idle")
    /\ UNCHANGED <<sdStarted, lfWriting, rb, counter, ffOverflowCounter, n,
                   msg, accepted, sends>>

LfProcessEnd ==
    /\ MainAt("procLoop")
    /\ n < TmpSize
    /\ MainGoto("idle")
    /\ UNCHANGED <<sdStarted, lfState, lfWriting, rb, counter,
                   ffOverflowCounter, fileCounter, fileBytesCounter, tmpBuf,
                   n, msg, card, accepted, sends>>

LfProcess == LfProcessBegin \/ LfProcessGet \/ LfProcessWrite
                \/ LfProcessRotate \/ LfProcessEnd

-----------------------------------------------------------------------------
(* lfSendMessage at level l: the header is built from a copy of counter    *)
(* with the interrupts enabled, then the frame goes in with them disabled. *)

SendBegin(l, size) ==
    /\ CanRun(l)
    /\ pc[l] = "idle"
    /\ sends < MaxSends
    /\ sdStarted /\ lfState = "lfSGood" /\ lfWriting
    /\ sends' = sends + 1
    /\ msg' = [msg EXCEPT ![l] = [count |-> counter, size |-> size]]
    /\ pc' = [pc EXCEPT ![l] = "send"]
    /\ UNCHANGED <<sdStarted, lfState, lfWriting, rb, counter,
                   ffOverflowCounter, fileCounter, fileBytesCounter, tmpBuf,
                   n, card, accepted>>

\* Mutant: a frame that does not fit is cut at the end of the ring.
MutRefuseFrameCut(l) ==
    /\ RbSize - Len(rb) < msg[l].size
    /\ rb' = rb \o SubSeq(Frame(msg[l].count, msg[l].size), 1, RbSize - Len(rb))
    /\ UNCHANGED <<ffOverflowCounter, counter, accepted>>

RefuseFrame(l) ==
    /\ RbSize - Len(rb) < msg[l].size
    /\ ffOverflowCounter' = ffOverflowCounter + 1
    /\ UNCHANGED <<rb, counter, accepted>>

\* Mutant: the counter does not wrap.
MutAcceptFrameNoWrap(l) ==
    /\ RbSize - Len(rb) >= msg[l].size
    /\ rb' = rb \o Frame(msg[l].count, msg[l].size)
    /\ counter' = counter + 1
    /\ accepted' = accepted + msg[l].size
    /\ UNCHANGED ffOverflowCounter

AcceptFrame(l) ==
    /\ RbSize - Len(rb) >= msg[l].size
    /\ rb' = rb \o Frame(msg[l].count, msg[l].size)
    /\ counter' = (counter + 1) % CounterMod
    /\ accepted' = accepted + msg[l].size
    /\ UNCHANGED ffOverflowCounter

SendEnd(l) ==
    /\ CanRun(l)
    /\ pc[l] = "send"
    /\ pc' = [pc EXCEPT ![l] = "idle"]
    /\ RefuseFrame(l) \/ AcceptFrame(l)
    /\ UNCHANGED <<sdStarted, lfState, lfWriting, fileCounter,
                   fileBytesCounter, tmpBuf, n, msg, card, sends>>

Send(l) == SendEnd(l) \/ \E size \in MsgSizes : SendBegin(l, size)

-----------------------------------------------------------------------------

Next == LfInit \/ LfStart \/ LfStop \/ LfProcess \/ \E l \in Levels : Send(l)

Spec == Init /\ [][Next]_vars

(* Every turn of the main loop (blink.cpp:130-171) calls lfProcess, a      *)
(* handler that was entered runs on, and interrupts return.                *)
Fairness ==
    /\ SF_vars(LfProcessBegin)
    /\ WF_vars(LfProcessGet \/ LfProcessWrite \/ LfProcessRotate \/ LfProcessEnd)
    /\ WF_vars(LfStopGet \/ LfStopWrite \/ LfStopEnd)
    /\ \A l \in Levels : WF_vars(SendEnd(l))

LiveSpec == Spec /\ Fairness

-----------------------------------------------------------------------------
(* Properties.                                                             *)

\* s is a sequence of whole frames, each with its bytes in order.
WholeFrames(s) ==
    /\ s # <<>> => s[1][2] = 1 /\ s[Len(s)][2] = s[Len(s)][3]
    /\ \A p \in 1..Len(s) - 1 :
          IF s[p][2] = s[p][3]
          THEN s[p + 1][2] = 1
          ELSE s[p + 1] = <<s[p][1], s[p][2] + 1, s[p][3]>>

\* Safety. No write goes past the space preallocated for the file: lfProcess
\* rotates early enough (fileSize2) for lfStop to add all the ring still holds.
WritesFit ==
    /\ fileLen <= FileSize
    /\ pc[0] \in {"procWrite", "stopWrite"} => fileLen + Len(tmpBuf) <= FileSize

\* Safety. Whatever levels interrupt each other inside lfSendMessage and
\* lfProcess, the bytes on the card, in tmpBuf and in the ring are whole
\* frames in order: a frame is never torn, interleaved or half dropped.
FramesIntact == ~writeLost => WholeFrames(disk \o tmpBuf \o rb)

\* Safety. When logging has been stopped and the state is good, every byte
\* lfSendMessage accepted for this log is in its files.
StoppedLogComplete ==
    (pc[0] = "idle" /\ ~lfWriting /\ lfState = "lfSGood" /\ ~writeLost)
        => Len(disk) = accepted /\ WholeFrames(disk)

\* Liveness. A block that is in the ring while the log is written goes to the
\* card, unless the card fails: lfProcess does not get stuck in its loop.
RingDrained ==
    (lfWriting /\ lfState = "lfSGood" /\ Len(rb) >= TmpSize)
        ~> (Len(rb) < TmpSize \/ lfState = "lfSError")

\* What logfile.h:7 says of lfWriting: "true if writing the log file right
\* now".  A rotation that fails leaves it set with nothing being written.
WritingMeansRecording ==
    (pc[0] = "idle" /\ lfWriting) => lfState = "lfSGood" /\ fileOpen
=============================================================================
