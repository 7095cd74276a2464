------------------------ MODULE FileTransfer_proofs ------------------------
(***************************************************************************)
(* The transfer of a log file, for every set of files, every number of     *)
(* blocks, every bound on repeats, pings, split reads, lost connections    *)
(* and pulled cables: types, the counters of the two sides, and the copy   *)
(* on the console's disk.                                                  *)
(***************************************************************************)
EXTENDS FileTransfer, SequenceTheorems, TLAPS

-----------------------------------------------------------------------------
(* The inductive invariants *)

Kinds == {"tee", "ping", "text", "ack", "nak", "TEEE", "head", "tail", "short",
          "junk"}
PacketKinds == {"head", "tail", "short"}
Block == (Files \cup {NoFile, "log"}) \X Nat

\* What is in the stream to the console, and in the stream to the robot.
Units == [k : Kinds, n : Nat, b : Block, s : 0..2]
Requests == {r \in [k : {"console", "get", "TBWF", "TBWN", "TEEE"}, n : Nat,
                    f : Files \cup {NoFile}] : r.k = "get" => r.f \in Files}

StreamType ==
  /\ toServer \in Seq(Requests)
  /\ toClient \in Seq(Units)
  /\ out \in Seq(Units) /\ Fits(out)

RobotType ==
  /\ link \in BOOLEAN /\ clientConnected \in BOOLEAN
  /\ infoHandler \in BOOLEAN /\ lfWriting \in BOOLEAN
  /\ phase \in {"top", "read"}
  /\ ethFile \in [name : Files \cup {NoFile}, pos : Nat]
  /\ ethFile.name \in Files => ethFile.pos <= Blocks[ethFile.name]
  /\ spc \in Nat /\ repeats \in Nat
  /\ rbBuf \in [b : Block, s : -1..2]
  /\ lfState \in {"lfSGood", "lfSError"}

ConsoleType ==
  /\ tcp \in {"none", "pending", "up", "gone"}
  /\ connected \in BOOLEAN
  /\ reading \in 0..2
  /\ currentFileName \in Files \cup {NoFile}
  /\ reading # 0 => currentFileName \in Files
  /\ fileSize \in Nat /\ bytes \in Nat /\ packetsCounter \in Nat
  /\ copy \in [Files -> Seq(Block)]
  /\ finished \subseteq Files

TypeInv == StreamType /\ RobotType /\ ConsoleType

\* The console waits for an answer or receives only on a connection that
\* stands; the robot reads and sends only on a connection it has accepted.
SessionInv ==
  /\ reading # 0 => connected
  /\ connected => tcp \in {"pending", "up"}
  /\ phase = "read" => clientConnected /\ tcp \in {"up", "gone"}
  /\ phase = "top" => out = <<>>

\* Requests inside a transfer, which the robot hears only while its handler is
\* set; "get" it hears only while the handler is not set.
Asking == {"TBWF", "TBWN", "TEEE"}

\* A "get" that comes late, in front of requests inside a transfer or while the
\* console receives, was typed before the answer to an earlier one was read: the
\* robot has just opened the file and will ignore it.
Late(i) ==
  /\ toServer[i].k = "get"
  /\ reading = 2 \/ \E j \in 1..Len(toServer) : i < j /\ toServer[j].k \in Asking
LateIsIgnored ==
  \A i \in 1..Len(toServer) : Late(i) =>
    /\ infoHandler /\ spc = 0
    /\ \A h \in 1..Len(toServer) : h < i => toServer[h].k \notin Asking

Asked == {r \in Requests : r.k = "get" => r.f = currentFileName}

\* The robot has opened the file and has heard nothing since, nor will it hear
\* a request of an earlier transfer: so it is while its answer is under way.
Opened ==
  /\ reading # 2 /\ infoHandler /\ spc = 0 /\ currentFileName \in Files
  /\ ethFile = [name |-> currentFileName, pos |-> 0]
  /\ \A i \in 1..Len(toServer) : toServer[i].k \notin Asking
Answers ==
  {u \in Units : u.k = "ack" => Opened /\ u.n = SizeOf(currentFileName) /\ u.n > 0}
Plain == {u \in Units : u.k # "ack"}

\* No packet follows the answer before the answer is read.
HasAck(q) == \E i \in 1..Len(q) : q[i].k = "ack"
AckLast(q) ==
  \A i, j \in 1..Len(q) : i < j /\ q[i].k = "ack" => q[j].k \in {"tee", "ping"}

AskInv ==
  tcp \in {"pending", "up"} =>
    /\ toServer \in Seq(Asked) /\ LateIsIgnored
    /\ out \in Seq(Answers) /\ AckLast(out)
    /\ toClient \in Seq(Answers) /\ AckLast(toClient)
    /\ HasAck(toClient) => out = <<>>

\* The last read of the file failed, or there is no open file.
ReadFailed == spc > 0 /\ rbBuf.s < 0

\* What may stand in the place of block i of the file being transferred.
BlockOrLog(b, i) ==
  b = <<currentFileName, i>> \/ (currentFileName \in logged /\ b = LogBytes)

\* A packet under way is no newer than the last one sent and holds its block.
PacketsSent ==
  {u \in Units :
     u.k \in PacketKinds =>
       /\ u.n <= spc
       /\ ReadFailed => u.n < spc
       /\ u.n > 0 => u.s = BlockSize(currentFileName, u.n) /\ BlockOrLog(u.b, u.n)}
RequestsSent == {r \in Requests : r.k = "TBWF" => r.n < packetsCounter}

\* The robot's buffer holds the last packet sent, up to which the file is read.
BufferHolds ==
  /\ ethFile.pos = spc
  /\ spc > 0 => /\ rbBuf.s = BlockSize(currentFileName, spc)
                /\ BlockOrLog(rbBuf.b, spc)

\* The robot sends the file the console receives; after a failing read the
\* console waits for the packet that was not sent.
RobotAgrees ==
  infoHandler => /\ ethFile.name = currentFileName
                 /\ ReadFailed => packetsCounter = spc
                 /\ ~ReadFailed => BufferHolds

\* While the console receives, the two sides count the same packets.
ReceiveInv ==
  reading = 2 =>
    /\ packetsCounter > 0 /\ packetsCounter <= Blocks[currentFileName]
    /\ packetsCounter = spc \/ packetsCounter = spc + 1
    /\ fileSize = SizeOf(currentFileName)
    /\ bytes = 2 * (packetsCounter - 1)
    /\ Len(copy[currentFileName]) = packetsCounter - 1
    /\ RobotAgrees
    /\ out \in Seq(PacketsSent)
    /\ toClient \in Seq(PacketsSent)
    /\ toServer \in Seq(RequestsSent)

\* A log that runs during a transfer was started during it: lfGetFile refuses
\* while a log is being written.
LoggedInv == infoHandler /\ lfWriting => ethFile.name \in logged

TransferInv ==
  /\ SessionInv /\ AskInv /\ ReceiveInv /\ LoggedInv
  /\ CopyIsPrefix /\ FinishedIsWhole

\* Requests for two files never cross: the operator waits until a transfer is
\* over before he asks again, or asks for the same file, as often as he likes.
OneAtATime == Patient \/ \E f \in Files : Files = {f}

-----------------------------------------------------------------------------
(* Streams and what is put into them *)

LEMMA SeqMono ==
  ASSUME NEW S, NEW T, S \subseteq T, NEW q \in Seq(S) PROVE q \in Seq(T)
<1>1. Len(q) \in Nat /\ q \in [1..Len(q) -> S]
  BY LenProperties
<1>2. q \in [1..Len(q) -> T]
  BY <1>1
<1> QED BY <1>1, <1>2, IsASeq

LEMMA DropSeq ==
  ASSUME NEW S, NEW q \in Seq(S), NEW k \in 0..Len(q) PROVE Drop(q, k) \in Seq(S)
<1>1. Len(q) \in Nat /\ k + 1 \in Int
  BY LenProperties
<1>2. \A j \in k + 1..Len(q) : q[j] \in S
  BY <1>1, ElementOfSeq
<1> QED BY <1>1, <1>2, SubSeqProperties DEF Drop

LEMMA SuffixSeq ==
  ASSUME NEW S, NEW q \in Seq(S), NEW x \in Suffixes(q) PROVE x \in Seq(S)
  BY DropSeq DEF Suffixes

LEMMA PrefixSeq ==
  ASSUME NEW S, NEW q \in Seq(S), NEW k \in 1..Len(q)
  PROVE  /\ SubSeq(q, 1, k) \in Seq(S) /\ Len(SubSeq(q, 1, k)) = k
         /\ \A j \in 1..k : SubSeq(q, 1, k)[j] = q[j] /\ q[j] \in S
<1>1. Len(q) \in Nat /\ k \in Int /\ 1 \in Int /\ 1 <= k
  BY LenProperties
<1>2. \A j \in 1..k : q[j] \in S
  BY <1>1, ElementOfSeq
<1>3. /\ SubSeq(q, 1, k) \in Seq(S)
      /\ Len(SubSeq(q, 1, k)) = IF 1 <= k THEN k - 1 + 1 ELSE 0
      /\ \A j \in 1..k - 1 + 1 : SubSeq(q, 1, k)[j] = q[1 + j - 1]
  BY ONLY <1>1, <1>2, SubSeqProperties
<1>4. k - 1 + 1 = k /\ \A j \in 1..k : 1 + j - 1 = j
  BY <1>1
<1> QED BY <1>1, <1>2, <1>3, <1>4

LEMMA OneSeq == ASSUME NEW S, NEW x \in S PROVE <<x>> \in Seq(S)
  OBVIOUS

LEMMA TwoSeq == ASSUME NEW S, NEW x \in S, NEW y \in S PROVE <<x, y>> \in Seq(S)
  OBVIOUS

\* ethFeed keeps the ring within its size and puts nothing else into it.
LEMMA EthFeedSeq ==
  ASSUME NEW S, out \in Seq(S), Fits(out), NEW q \in Seq(S), EthFeed(q)
  PROVE  out' \in Seq(S) /\ Fits(out')
<1> DEFINE t == out \o q
<1>1. t \in Seq(S)
  BY ConcatProperties
<1>2. CASE out' = out
  BY <1>2
<1>3. CASE out' = t /\ Fits(t)
  BY <1>1, <1>3
<1>4. CASE out' \in {x \in Suffixes(t) : Fits(x)}
  BY <1>1, <1>4, SuffixSeq
<1>5. \/ out' = out
      \/ out' = t /\ Fits(t)
      \/ out' \in {x \in Suffixes(t) : Fits(x)}
  BY DEF EthFeed
<1> QED BY <1>2, <1>3, <1>4, <1>5

LEMMA PacketSeq ==
  ASSUME NEW S, NEW n, NEW b, NEW s,
         \A k \in PacketKinds : [k |-> k, n |-> n, b |-> b, s |-> s] \in S
  PROVE  Packet(n, b, s) \in Seq(S)
<1> DEFINE u(k) == [k |-> k, n |-> n, b |-> b, s |-> s]
<1>1. u("head") \in S /\ u("tail") \in S /\ u("short") \in S
  BY DEF PacketKinds
<1>2. CASE s = 2
  <2>1. Packet(n, b, s) = <<u("head"), u("tail")>>
    BY <1>2 DEF Packet
  <2> QED BY <1>1, <2>1, TwoSeq
<1>3. CASE s # 2
  <2>1. Packet(n, b, s) = <<u("short")>>
    BY <1>3 DEF Packet
  <2> QED BY <1>1, <2>1, OneSeq
<1> QED BY <1>2, <1>3

\* The units that are not packets.
LEMMA PlainUnit ==
  ASSUME NEW k \in Kinds
  PROVE  Unit(k) \in Units /\ Unit(k).k = k
<1>1. <<NoFile, 0>> \in Block
  BY DEF Block
<1> QED BY <1>1 DEF Unit, Units

LEMMA AckUnit ==
  ASSUME NEW z \in Nat
  PROVE  Ack(z) \in Units /\ Ack(z).k = "ack" /\ Ack(z).n = z
<1>1. Unit("ack") \in Units /\ Unit("ack").k = "ack"
  BY PlainUnit DEF Kinds
<1> QED BY <1>1 DEF Ack, Units

LEMMA SizeNat == ASSUME NEW f \in Files PROVE SizeOf(f) \in Nat /\ Blocks[f] \in Nat
<1>1. Blocks[f] \in Nat
  BY FilesAssumption
<1>2. BlockSize(f, Blocks[f]) \in 1..2
  BY DEF BlockSize
<1> QED BY <1>1, <1>2 DEF SizeOf

LEMMA NakSeq ==
  ASSUME NEW S, Unit("nak") \in S, Unit("text") \in S PROVE Nak \in Seq(S)
<1>1. <<Unit("nak")>> \in Seq(S) /\ <<Unit("nak"), Unit("text")>> \in Seq(S)
  BY OneSeq, TwoSeq
<1> QED BY <1>1 DEF Nak

LEMMA JunkSeq == ASSUME NEW S, Unit("junk") \in S PROVE Junk \in Seq(S)
  BY OneSeq DEF Junk

\* What checkThePacket leaves in the socket, and which chunks are good packets.
LEMMA CheckRest ==
  ASSUME NEW S, NEW c, NEW r \in Seq(S), NEW o \in CheckThePacket(c, r)
  PROVE  /\ o.rest \in Seq(S)
         /\ o.ok => c[1].k \in {"head", "short"}
<1>1. CASE c[1].k = "head"
  <2>1. \/ o.rest = r
        \/ r # <<>> /\ o.rest = Tail(r)
    BY <1>1 DEF CheckThePacket
  <2>2. r # <<>> => Tail(r) \in Seq(S)
    BY HeadTailProperties
  <2> QED BY <1>1, <2>1, <2>2
<1>2. CASE c[1].k = "short"
  <2>1. o.rest = r \/ o.rest \in Suffixes(r)
    BY <1>2 DEF CheckThePacket
  <2> QED BY <1>2, <2>1, SuffixSeq
<1>3. CASE c[1].k \notin {"head", "short"}
  <2>1. /\ o.ok = FALSE
        /\ \/ o.rest = r
           \/ \E j \in 1..Len(r) : o.rest = Drop(r, j)
    BY <1>3 DEF CheckThePacket
  <2>2. \A j \in 1..Len(r) : Drop(r, j) \in Seq(S)
    <3>1. Len(r) \in Nat
      BY LenProperties
    <3> QED BY <3>1, DropSeq
  <2> QED BY <2>1, <2>2
<1> QED BY <1>1, <1>2, <1>3

-----------------------------------------------------------------------------
(* Types *)

LEMMA TypeInit == Init => TypeInv
<1> SUFFICES ASSUME Init PROVE TypeInv
  OBVIOUS
<1>1. LogBytes \in Block
  BY DEF LogBytes, Block
<1>2. StreamType
  BY DEF Init, StreamType, Fits
<1>3. RobotType
  <2>1. /\ link = TRUE /\ clientConnected = FALSE
        /\ infoHandler = FALSE /\ lfWriting = FALSE
    BY Zenon DEF Init
  <2>2. /\ phase \in {"top", "read"}
        /\ ethFile = [name |-> NoFile, pos |-> 0]
        /\ spc \in Nat /\ repeats \in Nat
        /\ rbBuf = [b |-> LogBytes, s |-> 0]
        /\ lfState \in {"lfSGood", "lfSError"}
    BY DEF Init, Closed
  <2>3. /\ ethFile \in [name : Files \cup {NoFile}, pos : Nat]
        /\ ethFile.name \notin Files
        /\ rbBuf \in [b : Block, s : -1..2]
    BY <1>1, <2>2, FilesAssumption
  <2> QED BY <2>1, <2>2, <2>3, Zenon DEF RobotType
<1>4. ConsoleType
  <2>1. connected \in BOOLEAN
    BY Zenon DEF Init
  <2>2. /\ tcp = "none" /\ reading = 0 /\ currentFileName = NoFile
        /\ fileSize = 0 /\ bytes = 0 /\ packetsCounter = 0 /\ finished = {}
        /\ copy \in [Files -> Seq(Block)]
    BY DEF Init
  <2> QED BY <2>1, <2>2 DEF ConsoleType
<1> QED BY <1>2, <1>3, <1>4 DEF TypeInv

\* The file the robot has open after sendFileViaEthComplete and lfGetFile.
LEMMA CompleteType ==
  ASSUME StreamType, SendFileViaEthComplete
  PROVE  /\ infoHandler' = FALSE /\ ethFile' = [name |-> NoFile, pos |-> 0]
         /\ out' \in Seq(Units) /\ Fits(out')
<1>1. <<Unit("TEEE"), Unit("text")>> \in Seq(Units)
  BY PlainUnit, TwoSeq DEF Kinds
<1>2. EthFeed(<<Unit("TEEE"), Unit("text")>>)
  BY DEF SendFileViaEthComplete
<1> QED BY <1>1, <1>2, EthFeedSeq DEF SendFileViaEthComplete, StreamType, Closed

FileType(f) ==
  /\ f \in [name : Files \cup {NoFile}, pos : Nat]
  /\ f.name \in Files => f.pos <= Blocks[f.name]

LEMMA GetType ==
  ASSUME TypeInv, NEW f \in Files, NEW bad \in BOOLEAN, LfGetFile(f, bad)
  PROVE  /\ infoHandler' \in BOOLEAN /\ FileType(ethFile')
         /\ spc' \in Nat /\ out' \in Seq(Units) /\ Fits(out')
<1>1. Nak \in Seq(Units) /\ <<Ack(SizeOf(f))>> \in Seq(Units)
  BY PlainUnit, AckUnit, SizeNat, NakSeq, OneSeq DEF Kinds
<1>2. out' \in Seq(Units) /\ Fits(out')
  BY <1>1, EthFeedSeq DEF LfGetFile, TypeInv, StreamType
<1>3. spc' \in Nat /\ infoHandler' \in BOOLEAN
  <2>1. spc \in Nat /\ infoHandler \in BOOLEAN
    BY DEF TypeInv, RobotType
  <2>2. spc' = spc \/ spc' = 0
    BY DEF LfGetFile
  <2>3. infoHandler' = infoHandler \/ infoHandler' = TRUE
    BY Zenon DEF LfGetFile
  <2>4. infoHandler' \in BOOLEAN
    BY <2>1, <2>3, Zenon
  <2> QED BY <2>1, <2>2, <2>4
<1>4. FileType(ethFile')
  <2>1. FileType(ethFile)
    BY DEF TypeInv, RobotType, FileType
  <2>2. FileType([name |-> f, pos |-> 0])
    BY SizeNat DEF FileType
  <2>3. CASE ethFile' = [name |-> NoFile, pos |-> 0]
    BY <2>3, FilesAssumption DEF FileType
  <2>4. CASE ethFile' = [name |-> f, pos |-> 0]
    BY <2>2, <2>4
  <2>5. CASE ethFile' = ethFile
    BY <2>1, <2>5
  <2> QED BY <2>3, <2>4, <2>5 DEF LfGetFile, Closed
<1> QED BY <1>2, <1>3, <1>4

LEMMA NextBlockType ==
  ASSUME TypeInv, NEW pn \in Nat, PleaseSendNext(pn)
  PROVE  /\ infoHandler' \in BOOLEAN /\ FileType(ethFile')
         /\ spc' \in Nat /\ repeats' \in Nat /\ rbBuf' \in [b : Block, s : -1..2]
         /\ out' \in Seq(Units) /\ Fits(out')
<1> DEFINE f == ethFile.name
           i == ethFile.pos + 1
           blk == [b |-> <<f, i>>, s |-> BlockSize(f, i)]
<1>0. /\ f \in Files \cup {NoFile} /\ i \in Nat /\ spc \in Nat
      /\ f \in Files => Blocks[f] \in Nat
      /\ FileType(ethFile) /\ rbBuf \in [b : Block, s : -1..2]
      /\ infoHandler \in BOOLEAN /\ out \in Seq(Units) /\ Fits(out)
  BY SizeNat DEF TypeInv, RobotType, StreamType, FileType
<1>1. repeats' \in Nat
  BY DEF PleaseSendNext
<1>2. CASE UNCHANGED <<infoHandler, ethFile, spc, rbBuf, out>>
  BY <1>0, <1>1, <1>2
<1>5. CASE /\ rbBuf' = [rbBuf EXCEPT !.s = -1]
           /\ spc' = spc + 1
           /\ EthFeed(Junk)
           /\ UNCHANGED <<infoHandler, ethFile>>
  <2>1. Junk \in Seq(Units)
    BY PlainUnit, JunkSeq DEF Kinds
  <2>2. out' \in Seq(Units) /\ Fits(out')
    BY <1>0, <1>5, <2>1, EthFeedSeq
  <2>3. rbBuf' \in [b : Block, s : -1..2] /\ spc' \in Nat
    BY <1>0, <1>5
  <2> QED BY <1>0, <1>1, <1>5, <2>2, <2>3
<1>3. CASE /\ f # NoFile /\ ethFile.pos < Blocks[f]
           /\ ethFile' = [ethFile EXCEPT !.pos = i]
           /\ rbBuf' = blk
           /\ spc' = spc + 1
           /\ EthFeed(Packet(spc + 1, blk.b, blk.s))
           /\ UNCHANGED infoHandler
  <2>1. <<f, i>> \in Block /\ BlockSize(f, i) \in 0..2
    BY <1>0 DEF Block, BlockSize
  <2>2. \A k \in PacketKinds : [k |-> k, n |-> spc + 1, b |-> <<f, i>>, s |-> BlockSize(f, i)] \in Units
    BY <1>0, <2>1 DEF PacketKinds, Kinds, Units
  <2>3. Packet(spc + 1, blk.b, blk.s) \in Seq(Units)
    BY <2>2, PacketSeq
  <2>4. out' \in Seq(Units) /\ Fits(out')
    BY <1>0, <1>3, <2>3, EthFeedSeq
  <2>5. FileType(ethFile')
    BY <1>0, <1>3 DEF FileType
  <2>6. rbBuf' \in [b : Block, s : -1..2] /\ spc' \in Nat
    BY <1>0, <1>3, <2>1
  <2>7. infoHandler' \in BOOLEAN
    BY <1>0, <1>3
  <2> QED BY <1>1, <2>4, <2>5, <2>6, <2>7
<1>4. CASE /\ spc' = spc + 1
           /\ rbBuf' = [rbBuf EXCEPT !.s = 0]
           /\ SendFileViaEthComplete
  <2>1. /\ infoHandler' = FALSE /\ ethFile' = [name |-> NoFile, pos |-> 0]
        /\ out' \in Seq(Units) /\ Fits(out')
    BY <1>4, CompleteType DEF TypeInv
  <2>2. FileType(ethFile')
    BY <2>1, FilesAssumption DEF FileType
  <2>3. rbBuf' \in [b : Block, s : -1..2] /\ spc' \in Nat
    BY <1>0, <1>4
  <2>4. infoHandler' \in BOOLEAN
    BY <2>1
  <2> QED BY <1>1, <2>1, <2>2, <2>3, <2>4
<1> QED BY <1>2, <1>3, <1>4, <1>5 DEF PleaseSendNext

LEMMA RepeatType ==
  ASSUME TypeInv, PleaseRepeat
  PROVE  /\ infoHandler' \in BOOLEAN /\ FileType(ethFile')
         /\ spc' \in Nat /\ repeats' \in Nat /\ rbBuf' \in [b : Block, s : -1..2]
         /\ out' \in Seq(Units) /\ Fits(out')
<1>0. /\ spc \in Nat /\ repeats \in Nat /\ rbBuf \in [b : Block, s : -1..2]
      /\ FileType(ethFile) /\ infoHandler \in BOOLEAN
      /\ out \in Seq(Units) /\ Fits(out)
  BY DEF TypeInv, RobotType, StreamType, FileType
<1>1. spc' \in Nat /\ repeats' \in Nat /\ rbBuf' \in [b : Block, s : -1..2]
  BY <1>0 DEF PleaseRepeat
<1>2. CASE SendFileViaEthComplete
  <2>1. /\ infoHandler' = FALSE /\ ethFile' = [name |-> NoFile, pos |-> 0]
        /\ out' \in Seq(Units) /\ Fits(out')
    BY <1>2, CompleteType DEF TypeInv
  <2>2. FileType(ethFile')
    BY <2>1, FilesAssumption DEF FileType
  <2> QED BY <1>1, <2>1, <2>2
<1>3. ASSUME NEW b \in {rbBuf.b} \cup (IF lfWriting THEN {LogBytes} ELSE {}),
             EthFeed(IF rbBuf.s < 0 THEN Junk ELSE Packet(spc, b, rbBuf.s)),
             UNCHANGED <<infoHandler, ethFile>>
      PROVE  /\ infoHandler' \in BOOLEAN /\ FileType(ethFile')
             /\ out' \in Seq(Units) /\ Fits(out')
  <2>1. b \in Block
    BY <1>0 DEF LogBytes, Block
  <2>2. ASSUME rbBuf.s >= 0 PROVE Packet(spc, b, rbBuf.s) \in Seq(Units)
    <3>1. \A k \in PacketKinds : [k |-> k, n |-> spc, b |-> b, s |-> rbBuf.s] \in Units
      BY <1>0, <2>1, <2>2 DEF PacketKinds, Kinds, Units
    <3> QED BY <3>1, PacketSeq
  <2>3. (IF rbBuf.s < 0 THEN Junk ELSE Packet(spc, b, rbBuf.s)) \in Seq(Units)
    <3>1. Junk \in Seq(Units)
      BY PlainUnit, JunkSeq DEF Kinds
    <3> QED BY <1>0, <2>2, <3>1
  <2>4. out' \in Seq(Units) /\ Fits(out')
    BY <1>0, <1>3, <2>3, EthFeedSeq
  <2> QED BY <1>0, <1>3, <2>4
<1> QED BY <1>1, <1>2, <1>3 DEF PleaseRepeat

\* What the robot's steps other than its reads do to the types.
LEMMA RobotTypeStep ==
  ASSUME TypeInv, EthTop \/ EthFlush \/ UsbGet \/ UsbLog \/ UsbLstop \/ Unplug \/ Plug
  PROVE  TypeInv'
<1> USE DEF TypeInv
<1>0. ConsoleType'
  <2>1. UNCHANGED consoleVars
    BY DEF EthTop, EthFlush, UsbGet, UsbLog, UsbLstop, Unplug, Plug
  <2>2. tcp' \in {"none", "pending", "up", "gone"}
    BY DEF EthTop, EthFlush, UsbGet, UsbLog, UsbLstop, Unplug, Plug, ConsoleType
  <2> QED BY <2>1, <2>2 DEF ConsoleType, consoleVars
<1>1. CASE EthTop
  <2>1. out' = out \/ out' = <<>>
    BY <1>1 DEF EthTop
  <2>2. toServer' = toServer \/ toServer' = <<>>
    BY <1>1 DEF EthTop
  <2>3. StreamType'
    <3>1. Fits(<<>>) /\ <<>> \in Seq(Units) /\ <<>> \in Seq(Requests)
      BY DEF Fits
    <3>2. toClient' = toClient
      BY <1>1 DEF EthTop
    <3> QED BY <2>1, <2>2, <3>1, <3>2 DEF StreamType
  <2>4. clientConnected' \in BOOLEAN /\ infoHandler' \in BOOLEAN
    BY <1>1, Zenon DEF EthTop, RobotType
  <2>5. phase' \in {"top", "read"}
    BY <1>1 DEF EthTop
  <2>6. FileType(ethFile')
    <3>1. CASE infoHandler' = infoHandler /\ ethFile' = ethFile
      BY <3>1 DEF RobotType, FileType
    <3>2. CASE /\ infoHandler' = FALSE
               /\ ethFile' = IF infoHandler THEN [name |-> NoFile, pos |-> 0] ELSE ethFile
      <4>1. CASE infoHandler
        BY <3>2, <4>1, FilesAssumption DEF FileType
      <4>2. CASE ~infoHandler
        BY <3>2, <4>2 DEF FileType, RobotType
      <4> QED BY <4>1, <4>2
    <3> QED BY <1>1, <3>1, <3>2 DEF EthTop, Closed
  <2>7. UNCHANGED <<link, spc, repeats, rbBuf, lfWriting, lfState>>
    BY <1>1 DEF EthTop
  <2>8. RobotType'
    BY <2>4, <2>5, <2>6, <2>7 DEF RobotType, FileType
  <2> QED BY <1>0, <2>3, <2>8
<1>2. CASE EthFlush
  <2>1. /\ out' = <<>> /\ toServer' = toServer /\ phase' = "top"
        /\ UNCHANGED <<link, clientConnected, infoHandler, ethFile, spc, repeats,
                       rbBuf, lfWriting, lfState>>
    BY <1>2 DEF EthFlush
  <2>2. PICK ping \in BOOLEAN :
          toClient' = IF tcp = "gone" THEN <<>>
                      ELSE toClient \o out \o (IF ping THEN <<Unit("ping")>> ELSE <<>>)
    BY <1>2 DEF EthFlush
  <2>3. (IF ping THEN <<Unit("ping")>> ELSE <<>>) \in Seq(Units)
    BY PlainUnit, OneSeq DEF Kinds
  <2>4. toClient' \in Seq(Units)
    BY <2>2, <2>3, ConcatProperties DEF StreamType
  <2>5. StreamType'
    BY <2>1, <2>4 DEF StreamType, Fits
  <2> QED BY <1>0, <2>1, <2>5 DEF RobotType
<1>3. CASE UsbGet
  <2>1. PICK f \in Files, bad \in BOOLEAN : LfGetFile(f, bad)
    BY <1>3 DEF UsbGet
  <2>2. /\ infoHandler' \in BOOLEAN /\ FileType(ethFile')
        /\ spc' \in Nat /\ out' \in Seq(Units) /\ Fits(out')
    BY <2>1, GetType
  <2>3. UNCHANGED <<link, phase, clientConnected, repeats, rbBuf, lfWriting, lfState,
                    toServer, toClient>>
    BY <1>3 DEF UsbGet
  <2> QED BY <1>0, <2>2, <2>3 DEF StreamType, RobotType, FileType
<1>4. CASE UsbLog \/ Unplug \/ Plug
  <2>1. UNCHANGED <<phase, clientConnected, infoHandler, ethFile, spc, repeats, rbBuf, out,
                    toServer, toClient>>
    BY <1>4 DEF UsbLog, Unplug, Plug
  <2>2. link' \in BOOLEAN /\ lfWriting' \in BOOLEAN
    BY <1>4, Zenon DEF UsbLog, Unplug, Plug, RobotType
  <2>3. lfState' \in {"lfSGood", "lfSError"}
    BY <1>4 DEF UsbLog, Unplug, Plug, RobotType
  <2> QED BY <1>0, <2>1, <2>2, <2>3 DEF StreamType, RobotType
<1>5. CASE UsbLstop
  <2>1. UNCHANGED <<link, phase, clientConnected, infoHandler, ethFile, spc, repeats, out,
                    toServer, toClient>>
    BY <1>5 DEF UsbLstop
  <2>2. lfWriting' = FALSE
    BY <1>5, Zenon DEF UsbLstop
  <2>3. lfState' \in {"lfSGood", "lfSError"}
    BY <1>5 DEF UsbLstop
  <2>4. PICK b \in {rbBuf.b} \cup (IF lfWriting THEN {LogBytes} ELSE {}) :
          rbBuf' = [rbBuf EXCEPT !.b = b]
    BY <1>5 DEF UsbLstop
  <2>5. b \in Block
    BY DEF RobotType, LogBytes, Block
  <2>6. rbBuf' \in [b : Block, s : -1..2]
    BY <2>4, <2>5 DEF RobotType
  <2> QED BY <1>0, <2>1, <2>2, <2>3, <2>6 DEF StreamType, RobotType
<1> QED BY <1>1, <1>2, <1>3, <1>4, <1>5

\* A robot that starts again is as at the beginning.
LEMMA FaultType == ASSUME TypeInv, Fault PROVE TypeInv'
<1> USE DEF TypeInv
<1>1. /\ link' \in BOOLEAN /\ clientConnected' = FALSE
      /\ infoHandler' = FALSE /\ lfWriting' = FALSE /\ connected' = FALSE
  BY Zenon DEF Fault, RobotType
<1>2. /\ phase' = "top" /\ ethFile' = [name |-> NoFile, pos |-> 0]
      /\ spc' = 0 /\ repeats' = 0 /\ rbBuf' = [b |-> LogBytes, s |-> 0]
      /\ lfState' \in {"lfSGood", "lfSError"}
      /\ tcp' = "none" /\ reading' = 0
      /\ toServer' = <<>> /\ toClient' = <<>> /\ out' = <<>>
      /\ UNCHANGED <<currentFileName, fileSize, bytes, packetsCounter, copy, finished>>
  BY DEF Fault, Closed
<1>3. StreamType'
  BY <1>2 DEF StreamType, Fits
<1>4. LogBytes \in Block
  BY DEF LogBytes, Block
<1>5. /\ ethFile' \in [name : Files \cup {NoFile}, pos : Nat]
      /\ ethFile'.name \notin Files
      /\ rbBuf' \in [b : Block, s : -1..2]
      /\ phase' \in {"top", "read"} /\ spc' \in Nat /\ repeats' \in Nat
  BY <1>2, <1>4, FilesAssumption
<1>6. RobotType'
  BY <1>1, <1>2, <1>5 DEF RobotType
<1>7. ConsoleType'
  <2>1. connected' \in BOOLEAN
    BY <1>1
  <2>2. tcp' \in {"none", "pending", "up", "gone"} /\ reading' \in 0..2
    BY <1>2
  <2> QED BY <1>2, <2>1, <2>2 DEF ConsoleType
<1> QED BY <1>3, <1>6, <1>7

LEMMA EthReadType == ASSUME TypeInv, EthRead PROVE TypeInv'
<1> USE DEF TypeInv
<1>0. PICK k \in IF Coalesce THEN 1..Len(toServer) ELSE {1} :
        LET r == Head(toServer)
        IN  /\ toServer' = Drop(toServer, k)
            /\ \/ /\ r.k = "console"
                  /\ toClient' = Append(toClient, Unit("tee"))
                  /\ UNCHANGED <<infoHandler, ethFile, spc, repeats, rbBuf, out>>
               \/ /\ r.k # "console"
                  /\ infoHandler
                  /\ \/ r.k = "TBWF" /\ PleaseSendNext(r.n)
                     \/ r.k = "TBWN" /\ PleaseRepeat
                     \/ /\ r.k = "TEEE"
                        /\ SendFileViaEthComplete
                        /\ UNCHANGED <<spc, repeats, rbBuf>>
                     \/ /\ r.k = "get"
                        /\ UNCHANGED <<infoHandler, ethFile, spc, repeats, rbBuf, out>>
                  /\ UNCHANGED toClient
               \/ /\ r.k # "console"
                  /\ ~infoHandler
                  /\ IF r.k = "get"
                     THEN \E bad \in BOOLEAN : LfGetFile(r.f, bad)
                     ELSE UNCHANGED <<infoHandler, ethFile, spc, out>>
                  /\ UNCHANGED <<toClient, repeats, rbBuf>>
  BY Zenon DEF EthRead
<1> DEFINE r == Head(toServer)
<1>1. r \in Requests /\ toServer' \in Seq(Requests)
  <2>1. toServer \in Seq(Requests) /\ toServer # <<>> /\ Len(toServer) \in Nat
    BY LenProperties DEF StreamType, EthRead
  <2>2. r \in Requests /\ Len(toServer) # 0
    BY <2>1, HeadTailProperties, EmptySeq
  <2>3. k \in 0..Len(toServer)
    BY <2>1, <2>2
  <2> QED BY <1>0, <2>1, <2>2, <2>3, DropSeq
<1>2. ConsoleType'
  BY DEF EthRead, ConsoleType, consoleVars
<1>3. UNCHANGED <<link, phase, clientConnected, lfWriting, lfState>>
  BY DEF EthRead
<1>4. toClient' \in Seq(Units)
  <2>1. toClient' = toClient \/ toClient' = Append(toClient, Unit("tee"))
    BY <1>0
  <2> QED BY <2>1, PlainUnit, AppendProperties DEF StreamType, Kinds
<1>5. /\ infoHandler' \in BOOLEAN /\ FileType(ethFile')
      /\ spc' \in Nat /\ repeats' \in Nat /\ rbBuf' \in [b : Block, s : -1..2]
      /\ out' \in Seq(Units) /\ Fits(out')
  <2>0. /\ infoHandler \in BOOLEAN /\ FileType(ethFile)
        /\ spc \in Nat /\ repeats \in Nat /\ rbBuf \in [b : Block, s : -1..2]
        /\ out \in Seq(Units) /\ Fits(out)
    BY DEF RobotType, StreamType, FileType
  <2>1. CASE UNCHANGED <<infoHandler, ethFile, spc, repeats, rbBuf, out>>
    BY <2>0, <2>1
  <2>2. CASE PleaseSendNext(r.n)
    BY <1>1, <2>2, NextBlockType DEF Requests
  <2>3. CASE PleaseRepeat
    BY <2>3, RepeatType
  <2>4. CASE SendFileViaEthComplete /\ UNCHANGED <<spc, repeats, rbBuf>>
    <3>1. /\ infoHandler' = FALSE /\ ethFile' = [name |-> NoFile, pos |-> 0]
          /\ out' \in Seq(Units) /\ Fits(out')
      BY <2>4, CompleteType
    <3>2. FileType(ethFile')
      BY <3>1, FilesAssumption DEF FileType
    <3>3. infoHandler' \in BOOLEAN
      BY <3>1
    <3> QED BY <2>0, <2>4, <3>1, <3>2, <3>3
  <2>5. ASSUME r.k = "get", NEW bad \in BOOLEAN, LfGetFile(r.f, bad),
               UNCHANGED <<repeats, rbBuf>>
        PROVE  /\ infoHandler' \in BOOLEAN /\ FileType(ethFile')
               /\ spc' \in Nat /\ repeats' \in Nat /\ rbBuf' \in [b : Block, s : -1..2]
               /\ out' \in Seq(Units) /\ Fits(out')
    <3>1. r.f \in Files
      BY <1>1, <2>5 DEF Requests
    <3> HIDE DEF r
    <3>2. /\ infoHandler' \in BOOLEAN /\ FileType(ethFile')
          /\ spc' \in Nat /\ out' \in Seq(Units) /\ Fits(out')
      BY <2>5, <3>1, GetType
    <3> QED BY <2>0, <2>5, <3>2
  <2> QED BY <1>0, <2>1, <2>2, <2>3, <2>4, <2>5
<1>6. StreamType' /\ RobotType'
  BY <1>1, <1>3, <1>4, <1>5 DEF StreamType, RobotType, FileType
<1> QED BY <1>2, <1>6

\* The acknowledgement that strstr finds is in the chunk.
LEMMA AckFound ==
  ASSUME NEW c, AnswerSeen(c, "ack")
  PROVE  FirstAck(c) \in 1..Len(c) /\ c[FirstAck(c)].k = "ack"
<1>1. PICK i \in 1..Len(c) : c[i].k = "ack" /\ \A j \in 1..i - 1 : c[j].k \in {"text", "nak"} \ {"ack"}
  BY DEF AnswerSeen
<1>2. c[i].k = "ack" /\ \A j \in 1..i - 1 : c[j].k # "ack"
  BY <1>1
<1> QED BY <1>2 DEF FirstAck

\* One read of the client, with everything in the stream of one kind.
LEMMA ProcessStep ==
  ASSUME NEW S, toClient \in Seq(S), Process
  PROVE  /\ toClient' \in Seq(S)
         /\ tcp \in {"pending", "up"}
         /\ UNCHANGED <<robotVars, tcp, currentFileName>>
         /\ connected' = connected \/ connected' = TRUE
         /\ \E c \in Seq(S) :
              /\ \A j \in 1..Len(c) : c[j] \in S
              /\ c[1] \in S
              /\ \/ UNCHANGED <<reading, fileSize, bytes, packetsCounter, copy, finished,
                                toServer>>
                 \/ reading = 1 /\ (WaitForAck(c) \/ FopenFails(c))
                 \/ /\ reading = 2 /\ UNCHANGED fileSize
                    /\ c[1].k \in {"head", "short"} /\ AcceptPacket(c[1])
                 \/ /\ reading = 2 /\ UNCHANGED fileSize
                    /\ \E eot : RejectPacket(eot)
<1>0. PICK k \in 1..Len(toClient) :
        LET c == SubSeq(toClient, 1, k)
            r == Drop(toClient, k)
        IN  \/ /\ c[1].k = "tee"
               /\ connected' = TRUE
               /\ toClient' = r
               /\ UNCHANGED <<reading, fileSize, bytes, packetsCounter, copy,
                              finished, toServer>>
            \/ /\ toClient' = r
               /\ UNCHANGED <<connected, reading, fileSize, bytes, packetsCounter,
                              copy, finished, toServer>>
            \/ /\ reading = 1
               /\ WaitForAck(c) \/ FopenFails(c)
               /\ toClient' = r
               /\ UNCHANGED connected
            \/ /\ reading = 2
               /\ \E o \in CheckThePacket(c, r) :
                    IF o.ok
                    THEN /\ toClient' = o.rest
                         /\ AcceptPacket(c[1])
                    ELSE /\ toClient' \in Suffixes(o.rest)
                         /\ RejectPacket(o.eot)
               /\ UNCHANGED <<connected, fileSize>>
  BY Zenon DEF Process
<1> DEFINE c == SubSeq(toClient, 1, k)
           r == Drop(toClient, k)
<1>1. tcp \in {"pending", "up"} /\ UNCHANGED <<robotVars, tcp, currentFileName>>
  BY DEF Process
<1>2. /\ c \in Seq(S) /\ c[1] \in S
      /\ \A j \in 1..Len(c) : c[j] \in S
  BY PrefixSeq
<1>3. r \in Seq(S)
  <2>1. Len(toClient) \in Nat
    BY LenProperties
  <2>2. k \in 0..Len(toClient)
    BY <2>1
  <2> QED BY <2>2, DropSeq
<1> HIDE DEF c, r
<1>4. ASSUME reading = 2, NEW o \in CheckThePacket(c, r), UNCHANGED <<connected, fileSize>>,
             IF o.ok
             THEN /\ toClient' = o.rest
                  /\ AcceptPacket(c[1])
             ELSE /\ toClient' \in Suffixes(o.rest)
                  /\ RejectPacket(o.eot)
      PROVE  /\ toClient' \in Seq(S)
             /\ \/ c[1].k \in {"head", "short"} /\ AcceptPacket(c[1])
                \/ \E eot : RejectPacket(eot)
  <2>1. o.rest \in Seq(S) /\ (o.ok => c[1].k \in {"head", "short"})
    BY <1>3, CheckRest
  <2>3. CASE o.ok
    BY <1>4, <2>1, <2>3
  <2>4. CASE ~o.ok
    <3>1. toClient' \in Seq(S)
      BY <1>4, <2>1, <2>4, SuffixSeq
    <3> QED BY <1>4, <2>4, <3>1
  <2> QED BY <2>3, <2>4
<1>5. CASE /\ toClient' = r
           /\ connected' = TRUE \/ connected' = connected
           /\ UNCHANGED <<reading, fileSize, bytes, packetsCounter, copy, finished, toServer>>
  BY <1>1, <1>2, <1>3, <1>5, Zenon
<1>6. CASE /\ reading = 1
           /\ WaitForAck(c) \/ FopenFails(c)
           /\ toClient' = r
           /\ UNCHANGED connected
  BY <1>1, <1>2, <1>3, <1>6, Zenon
<1>7. CASE /\ reading = 2
           /\ \E o \in CheckThePacket(c, r) :
                IF o.ok
                THEN /\ toClient' = o.rest
                     /\ AcceptPacket(c[1])
                ELSE /\ toClient' \in Suffixes(o.rest)
                     /\ RejectPacket(o.eot)
           /\ UNCHANGED <<connected, fileSize>>
  <2>1. /\ toClient' \in Seq(S)
        /\ \/ c[1].k \in {"head", "short"} /\ AcceptPacket(c[1])
           \/ \E eot : RejectPacket(eot)
    BY <1>4, <1>7
  <2> QED BY <1>1, <1>2, <1>7, <2>1, Zenon
<1> QED BY <1>0, <1>5, <1>6, <1>7, Zenon DEF c, r

LEMMA RequestSeq ==
  ASSUME NEW S, toServer \in Seq(S), NEW q \in Seq(S), Send(q) PROVE toServer' \in Seq(S)
  BY ConcatProperties DEF Send

\* The requests of the console.
LEMMA RequestTypes ==
  /\ \A n \in Nat : \A k \in {"console", "TBWF", "TBWN", "TEEE"} : Request(k, n) \in Requests
  /\ \A f \in Files : Get(f) \in Requests
  BY DEF Request, Get, Requests

LEMMA RequestFields == ASSUME NEW k, NEW n PROVE Request(k, n).k = k /\ Request(k, n).n = n
  BY DEF Request

LEMMA ConsoleTypeStep == ASSUME TypeInv, StartClient \/ DoWrite \/ Lose \/ Process PROVE TypeInv'
<1> USE DEF TypeInv
<1>0. RobotType' /\ Fits(out') /\ out' \in Seq(Units)
  <2>1. UNCHANGED robotVars
    <3>1. CASE StartClient \/ DoWrite \/ Lose
      BY <3>1 DEF StartClient, DoWrite, Lose
    <3>2. CASE Process
      BY <3>2, Zenon DEF Process
    <3> QED BY <3>1, <3>2
  <2>2. UNCHANGED <<link, phase, clientConnected, infoHandler, ethFile, spc, repeats, rbBuf,
                    lfWriting, lfState, out>>
    BY <2>1 DEF robotVars
  <2>3. RobotType'
    BY <2>2 DEF RobotType
  <2> QED BY <2>2, <2>3 DEF StreamType
<1>1. CASE StartClient
  <2>1. <<Request("console", 0)>> \in Seq(Requests)
    BY RequestTypes, OneSeq
  <2>2. connected' \in BOOLEAN
    BY <1>1, Zenon DEF StartClient
  <2> QED BY <1>0, <1>1, <2>1, <2>2 DEF StartClient, StreamType, ConsoleType
<1>2. CASE DoWrite
  <2>1. PICK f \in Files : currentFileName' = f /\ Send(<<Get(f)>>)
    BY <1>2 DEF DoWrite
  <2>2. toServer' \in Seq(Requests)
    BY <2>1, RequestTypes, OneSeq, RequestSeq DEF StreamType
  <2> QED BY <1>0, <1>2, <2>1, <2>2 DEF DoWrite, StreamType, ConsoleType
<1>3. CASE Lose
  <2>1. toServer' = toServer \/ toServer' = <<>>
    BY <1>3 DEF Lose
  <2>2. connected' \in BOOLEAN
    BY <1>3, Zenon DEF Lose
  <2> QED BY <1>0, <1>3, <2>1, <2>2 DEF Lose, StreamType, ConsoleType
<1>4. CASE Process
  <2>1. /\ toClient' \in Seq(Units)
        /\ UNCHANGED <<robotVars, tcp, currentFileName>>
        /\ connected' = connected \/ connected' = TRUE
        /\ \E c \in Seq(Units) :
             /\ \A j \in 1..Len(c) : c[j] \in Units
             /\ c[1] \in Units
             /\ \/ UNCHANGED <<reading, fileSize, bytes, packetsCounter, copy, finished,
                               toServer>>
                \/ reading = 1 /\ (WaitForAck(c) \/ FopenFails(c))
                \/ /\ reading = 2 /\ UNCHANGED fileSize
                   /\ c[1].k \in {"head", "short"} /\ AcceptPacket(c[1])
                \/ /\ reading = 2 /\ UNCHANGED fileSize
                   /\ \E eot : RejectPacket(eot)
    BY <1>4, ProcessStep DEF StreamType
  <2>2. connected' \in BOOLEAN
    BY <2>1, Zenon DEF ConsoleType
  <2>3. PICK c \in Seq(Units) :
             /\ \A j \in 1..Len(c) : c[j] \in Units
             /\ c[1] \in Units
             /\ \/ UNCHANGED <<reading, fileSize, bytes, packetsCounter, copy, finished,
                               toServer>>
                \/ reading = 1 /\ (WaitForAck(c) \/ FopenFails(c))
                \/ /\ reading = 2 /\ UNCHANGED fileSize
                   /\ c[1].k \in {"head", "short"} /\ AcceptPacket(c[1])
                \/ /\ reading = 2 /\ UNCHANGED fileSize
                   /\ \E eot : RejectPacket(eot)
    BY <2>1
  <2> DEFINE Good == /\ reading' \in 0..2 /\ (reading' # 0 => currentFileName \in Files)
                     /\ fileSize' \in Nat /\ bytes' \in Nat /\ packetsCounter' \in Nat
                     /\ copy' \in [Files -> Seq(Block)] /\ finished' \subseteq Files
                     /\ toServer' \in Seq(Requests)
  <2>4. ASSUME UNCHANGED <<reading, fileSize, bytes, packetsCounter, copy, finished, toServer>> PROVE Good
    BY <2>4 DEF ConsoleType, StreamType
  <2>5. ASSUME reading = 1, WaitForAck(c), AnswerSeen(c, "ack") PROVE Good
    <3>1. c[FirstAck(c)].n \in Nat
      BY <2>3, <2>5, AckFound DEF Units
    <3>2. toServer' \in Seq(Requests)
      BY <2>5, RequestTypes, OneSeq, RequestSeq DEF StreamType, WaitForAck
    <3>3. copy' \in [Files -> Seq(Block)]
      <4>1. <<>> \in Seq(Block) /\ copy' = [copy EXCEPT ![currentFileName] = <<>>]
        BY <2>5 DEF WaitForAck
      <4> QED BY <4>1 DEF ConsoleType
    <3> QED BY <2>5, <3>1, <3>2, <3>3 DEF WaitForAck, ConsoleType
  <2>6. ASSUME reading = 1, WaitForAck(c), ~AnswerSeen(c, "ack") PROVE Good
    <3>1. /\ reading' \in {0, 1}
          /\ UNCHANGED <<fileSize, bytes, packetsCounter, copy, finished, toServer>>
      BY <2>6 DEF WaitForAck
    <3> QED BY <2>6, <3>1 DEF ConsoleType, StreamType
  <2>7. ASSUME reading = 1, FopenFails(c) PROVE Good
    <3>1. c[FirstAck(c)].n \in Nat
      BY <2>3, <2>7, AckFound DEF Units, FopenFails
    <3> QED BY <2>7, <3>1 DEF FopenFails, ConsoleType, StreamType
  <2>8. ASSUME reading = 2, UNCHANGED fileSize, AcceptPacket(c[1]) PROVE Good
    <3>0. /\ c[1].n \in Nat /\ c[1].s \in Nat /\ c[1].b \in Block
          /\ currentFileName \in Files /\ packetsCounter \in Nat /\ bytes \in Nat
      BY <2>3, <2>8 DEF Units, ConsoleType
    <3> DEFINE e == IF packetsCounter < c[1].n THEN c[1].n ELSE packetsCounter
    <3>1. e \in Nat
      BY <3>0
    <3>2. copy' = copy \/ copy' = [copy EXCEPT ![currentFileName] = Append(@, c[1].b)]
      BY <2>8 DEF AcceptPacket
    <3>3. copy' \in [Files -> Seq(Block)]
      <4>1. Append(copy[currentFileName], c[1].b) \in Seq(Block)
        BY <3>0, AppendProperties DEF ConsoleType
      <4> QED BY <3>0, <3>2, <4>1 DEF ConsoleType
    <3>4. toServer' \in Seq(Requests)
      <4>1. /\ <<Request("TEEE", 0), Request("TEEE", 0)>> \in Seq(Requests)
            /\ <<Request("TBWF", e)>> \in Seq(Requests)
        BY <3>1, RequestTypes, OneSeq, TwoSeq
      <4>2. \/ toServer' = toServer
            \/ Send(<<Request("TEEE", 0), Request("TEEE", 0)>>)
            \/ Send(<<Request("TBWF", e)>>)
        BY <2>8 DEF AcceptPacket
      <4> HIDE DEF e
      <4> QED BY <4>1, <4>2, RequestSeq DEF StreamType
    <3>5. bytes' \in Nat /\ packetsCounter' \in Nat /\ reading' \in 0..2 /\ finished' \subseteq Files
      <4>1. bytes' = bytes \/ bytes' = bytes + c[1].s
        BY <2>8 DEF AcceptPacket
      <4>2. packetsCounter' \in {packetsCounter, e, e + 1}
        BY <2>8 DEF AcceptPacket
      <4>3. reading' \in {0, reading}
        BY <2>8 DEF AcceptPacket
      <4>4. finished' \subseteq finished \cup {currentFileName}
        BY <2>8 DEF AcceptPacket
      <4> HIDE DEF e
      <4>5. bytes' \in Nat /\ packetsCounter' \in Nat
        BY <3>0, <3>1, <4>1, <4>2
      <4> QED BY <2>8, <3>0, <4>3, <4>4, <4>5 DEF ConsoleType
    <3> QED BY <2>8, <3>0, <3>3, <3>4, <3>5 DEF ConsoleType
  <2>9. ASSUME reading = 2, UNCHANGED fileSize, NEW eot, RejectPacket(eot)
        PROVE  Good
    <3>1. toServer' \in Seq(Requests)
      BY <2>9, RequestTypes, OneSeq, RequestSeq DEF StreamType, RejectPacket, ConsoleType
    <3> QED BY <2>9, <3>1 DEF RejectPacket, ConsoleType
  <2>10. Good
    BY <2>3, <2>4, <2>5, <2>6, <2>7, <2>8, <2>9
  <2> QED BY <1>0, <2>1, <2>2, <2>10 DEF StreamType, ConsoleType
<1> QED BY <1>1, <1>2, <1>3, <1>4

LEMMA TypeStep == ASSUME TypeInv, [Next]_vars PROVE TypeInv'
<1>1. CASE Next
  BY <1>1, RobotTypeStep, EthReadType, FaultType, ConsoleTypeStep DEF Next
<1>2. CASE UNCHANGED vars
  BY <1>2 DEF vars, robotVars, consoleVars, TypeInv, StreamType, RobotType, ConsoleType, Fits
<1> QED BY <1>1, <1>2

\* The state has its type whatever the operator types and over whichever line
\* and whatever of the card fails (ethLoop, lfGetFile, sendFileViaEthHandler,
\* readingTheFile): the ring of outgoing bytes holds 1024 bytes at most, the
\* position of the open file never passes its end and fileReadInfoSize is the size
\* of a block or -1, also when "get" over USB takes the file from under a transfer.
THEOREM TransferTypes == Spec => []TypeOK
<1>1. Init => TypeInv
  BY TypeInit
<1>2. TypeInv /\ [Next]_vars => TypeInv'
  BY TypeStep
<1>3. TypeInv => TypeOK
  <2> SUFFICES ASSUME TypeInv PROVE TypeOK
    OBVIOUS
  <2>1. {link, clientConnected, infoHandler, lfWriting, connected} \subseteq BOOLEAN
    BY Zenon DEF TypeInv, RobotType, ConsoleType
  <2>2. ethFile.name \in Files => ethFile.pos \in 0..Blocks[ethFile.name]
    BY SizeNat DEF TypeInv, RobotType
  <2> QED BY <2>1, <2>2 DEF TypeInv, StreamType, RobotType, ConsoleType, TypeOK
<1> QED BY <1>1, <1>2, <1>3, PTL DEF Spec

-----------------------------------------------------------------------------
(* The answer to "get" and the order of what is under way *)

LEMMA DropParts ==
  ASSUME NEW S, NEW q \in Seq(S), NEW k \in 0..Len(q)
  PROVE  /\ Len(q) \in Nat /\ Len(Drop(q, k)) = Len(q) - k
         /\ \A i \in 1..Len(q) - k : Drop(q, k)[i] = q[k + i] /\ k + i \in 1..Len(q)
<1>1. Len(q) \in Nat /\ k \in Nat /\ k + 1 \in Int
  BY LenProperties
<1>2. \A j \in k + 1..Len(q) : q[j] \in S
  BY <1>1, ElementOfSeq
<1>3. /\ Len(SubSeq(q, k + 1, Len(q))) =
           IF k + 1 <= Len(q) THEN Len(q) - (k + 1) + 1 ELSE 0
      /\ \A i \in 1..Len(q) - (k + 1) + 1 : SubSeq(q, k + 1, Len(q))[i] = q[k + 1 + i - 1]
  BY ONLY <1>1, <1>2, SubSeqProperties
<1>4. Len(q) - (k + 1) + 1 = Len(q) - k
  BY <1>1
<1>5. \A i \in 1..Len(q) - k : k + 1 + i - 1 = k + i /\ k + i \in 1..Len(q)
  BY <1>1
<1>6. Drop(q, k) = SubSeq(q, k + 1, Len(q))
  BY DEF Drop
<1>7. Len(Drop(q, k)) = Len(q) - k
  <2>1. CASE k = Len(q)
    BY <1>1, <1>3, <1>6, <2>1
  <2>2. CASE k < Len(q)
    <3>1. k + 1 <= Len(q)
      BY <1>1, <2>2
    <3> QED BY <1>3, <1>4, <1>6, <3>1
  <2> QED BY <1>1, <2>1, <2>2
<1>8. \A i \in 1..Len(q) - k : Drop(q, k)[i] = q[k + i]
  BY ONLY <1>3, <1>4, <1>5, <1>6
<1> QED BY <1>1, <1>5, <1>7, <1>8

LEMMA AckLastDrop ==
  ASSUME NEW q \in Seq(Units), NEW k \in 0..Len(q), AckLast(q) PROVE AckLast(Drop(q, k))
<1> DEFINE d == Drop(q, k)
<1>1. /\ Len(q) \in Nat /\ Len(d) = Len(q) - k
      /\ \A i \in 1..Len(q) - k : d[i] = q[k + i] /\ k + i \in 1..Len(q)
  BY DropParts
<1> HIDE DEF d
<1>2. ASSUME NEW i \in 1..Len(d), NEW j \in 1..Len(d), i < j, d[i].k = "ack"
      PROVE  d[j].k \in {"tee", "ping"}
  <2>0. i \in 1..Len(q) - k /\ j \in 1..Len(q) - k
    BY <1>1
  <2>1. /\ d[i] = q[k + i] /\ d[j] = q[k + j]
        /\ k + i \in 1..Len(q) /\ k + j \in 1..Len(q)
    BY <1>1, <2>0
  <2>2. k + i < k + j
    BY <1>2
  <2> QED BY <1>2, <2>1, <2>2 DEF AckLast
<1> QED BY <1>2 DEF AckLast, d

LEMMA PlainAckLast == ASSUME NEW q \in Seq(Plain) PROVE AckLast(q) /\ ~HasAck(q)
<1>1. \A i \in 1..Len(q) : q[i] \in Plain
  BY ElementOfSeq
<1> QED BY <1>1 DEF AckLast, HasAck, Plain

LEMMA NoAckPlain ==
  ASSUME NEW q \in Seq(Units), ~HasAck(q) PROVE q \in Seq(Plain)
<1>1. Len(q) \in Nat /\ q \in [1..Len(q) -> Units]
  BY LenProperties
<1>2. q \in [1..Len(q) -> Plain]
  BY <1>1 DEF HasAck, Plain
<1> QED BY <1>1, <1>2, IsASeq

LEMMA AckLastConcat ==
  ASSUME NEW p \in Seq(Plain), NEW q \in Seq(Units), AckLast(q) PROVE AckLast(p \o q)
<1> DEFINE t == p \o q
<1>1. p \in Seq(Units) /\ Len(p) \in Nat /\ Len(q) \in Nat
  BY SeqMono, LenProperties DEF Plain
<1>2. /\ Len(t) = Len(p) + Len(q)
      /\ \A i \in 1..Len(t) : t[i] = IF i <= Len(p) THEN p[i] ELSE q[i - Len(p)]
  BY <1>1, ConcatProperties
<1> HIDE DEF t
<1>3. ASSUME NEW i \in 1..Len(t), NEW j \in 1..Len(t), i < j, t[i].k = "ack"
      PROVE  t[j].k \in {"tee", "ping"}
  <2>1. CASE i <= Len(p)
    <3>1. t[i] = p[i] /\ i \in 1..Len(p)
      BY <1>1, <1>2, <2>1
    <3>2. p[i] \in Plain
      BY <3>1, ElementOfSeq
    <3> QED BY <1>3, <3>1, <3>2 DEF Plain
  <2>2. CASE ~(i <= Len(p))
    <3>1. /\ t[i] = q[i - Len(p)] /\ t[j] = q[j - Len(p)]
          /\ i - Len(p) \in 1..Len(q) /\ j - Len(p) \in 1..Len(q)
          /\ i - Len(p) < j - Len(p)
      BY <1>1, <1>2, <1>3, <2>2
    <3> QED BY <1>3, <3>1 DEF AckLast
  <2> QED BY <2>1, <2>2
<1> QED BY <1>3 DEF AckLast, t

LEMMA AckLastMore ==
  ASSUME NEW q \in Seq(Units), AckLast(q), NEW u \in Units, u.k \in {"tee", "ping"}
  PROVE  AckLast(q \o <<u>>)
<1> DEFINE t == q \o <<u>>
<1>1. Len(q) \in Nat /\ <<u>> \in Seq(Units) /\ Len(<<u>>) = 1 /\ <<u>>[1] = u
  BY LenProperties, OneSeq
<1>2. /\ Len(t) = Len(q) + 1
      /\ \A i \in 1..Len(t) : t[i] = IF i <= Len(q) THEN q[i] ELSE <<u>>[i - Len(q)]
  BY <1>1, ConcatProperties
<1> HIDE DEF t
<1>3. ASSUME NEW i \in 1..Len(t), NEW j \in 1..Len(t), i < j, t[i].k = "ack"
      PROVE  t[j].k \in {"tee", "ping"}
  <2>1. i \in 1..Len(q) /\ t[i] = q[i]
    BY <1>1, <1>2, <1>3
  <2>2. CASE j <= Len(q)
    <3>1. j \in 1..Len(q) /\ t[j] = q[j]
      BY <1>1, <1>2, <2>2
    <3> QED BY <1>3, <2>1, <3>1 DEF AckLast
  <2>3. CASE ~(j <= Len(q))
    <3>1. j - Len(q) = 1 /\ t[j] = <<u>>[j - Len(q)]
      BY <1>1, <1>2, <2>3
    <3>2. t[j] = u
      BY <1>1, <3>1
    <3> QED BY <3>2
  <2> QED BY <2>2, <2>3
<1> QED BY <1>3 DEF AckLast, t

\* ethFeed puts the answer behind everything else, or loses some of it.
LEMMA AckFed ==
  ASSUME out \in Seq(Plain), NEW u \in Units, EthFeed(<<u>>) PROVE AckLast(out')
<1> DEFINE t == out \o <<u>>
<1>1. out \in Seq(Units) /\ <<u>> \in Seq(Units) /\ t \in Seq(Units) /\ Len(t) \in Nat
  BY SeqMono, OneSeq, ConcatProperties, LenProperties DEF Plain
<1>2. AckLast(t)
  <2>1. AckLast(<<u>>)
    BY DEF AckLast
  <2> QED BY <1>1, <2>1, AckLastConcat
<1>3. CASE out' = out
  BY <1>3, PlainAckLast
<1>4. CASE out' = t
  BY <1>2, <1>4
<1>5. CASE out' \in {x \in Suffixes(t) : Fits(x)}
  <2>1. PICK k \in 0..Len(t) : out' = Drop(t, k)
    BY <1>5 DEF Suffixes
  <2> HIDE DEF t
  <2> QED BY <1>1, <1>2, <2>1, AckLastDrop
<1>6. \/ out' = out
      \/ out' = t
      \/ out' \in {x \in Suffixes(t) : Fits(x)}
  BY DEF EthFeed
<1> QED BY <1>3, <1>4, <1>5, <1>6

LEMMA PlainIsAnswer ==
  /\ Plain \subseteq Answers /\ Plain \subseteq Answers' /\ Plain \subseteq Units
  /\ ~Opened => Answers \subseteq Plain
  BY DEF Plain, Answers

LEMMA AnswersKept ==
  ASSUME Opened => Opened', currentFileName' = currentFileName
  PROVE  Answers \subseteq Answers'
  BY DEF Answers

\* Requests read: what is left of the stream keeps its order.
LEMMA LateRead ==
  ASSUME toServer \in Seq(Requests), NEW k \in 1..Len(toServer),
         toServer' = Drop(toServer, k), reading' = reading, LateIsIgnored,
         UNCHANGED <<infoHandler, spc>> \/ \A i \in 1..Len(toServer) : ~Late(i)
  PROVE  LateIsIgnored'
<1>1. /\ Len(toServer) \in Nat /\ k \in 0..Len(toServer) /\ Len(toServer') = Len(toServer) - k
      /\ \A i \in 1..Len(toServer) - k :
           toServer'[i] = toServer[k + i] /\ k + i \in 1..Len(toServer)
  <2>1. Len(toServer) \in Nat
    BY LenProperties
  <2>2. k \in 0..Len(toServer)
    BY <2>1
  <2> QED BY <2>1, <2>2, DropParts
<1>2. SUFFICES ASSUME NEW i \in 1..Len(toServer'), Late(i)'
               PROVE  /\ infoHandler' /\ spc' = 0
                      /\ \A h \in 1..Len(toServer') : h < i => toServer'[h].k \notin Asking
  BY DEF LateIsIgnored
<1>3. i \in 1..Len(toServer) - k /\ k + i \in 1..Len(toServer) /\ toServer'[i] = toServer[k + i]
  BY <1>1
<1>4. Late(k + i)
  <2>1. toServer[k + i].k = "get"
    BY <1>2, <1>3 DEF Late
  <2>2. CASE reading' = 2
    BY <2>1, <2>2 DEF Late
  <2>3. ASSUME NEW j \in 1..Len(toServer'), i < j, toServer'[j].k \in Asking
        PROVE  Late(k + i)
    <3>1. j \in 1..Len(toServer) - k
      BY <1>1
    <3>2. k + j \in 1..Len(toServer) /\ toServer'[j] = toServer[k + j]
      BY <1>1, <3>1
    <3>3. k + i < k + j
      BY <2>3
    <3> QED BY <2>1, <2>3, <3>2, <3>3 DEF Late
  <2> QED BY <1>2, <2>2, <2>3 DEF Late
<1>5. /\ infoHandler /\ spc = 0 /\ UNCHANGED <<infoHandler, spc>>
      /\ \A h \in 1..Len(toServer) : h < k + i => toServer[h].k \notin Asking
  BY <1>3, <1>4 DEF LateIsIgnored
<1>6. ASSUME NEW h \in 1..Len(toServer'), h < i PROVE toServer'[h].k \notin Asking
  <2>1. h \in 1..Len(toServer) - k
    BY <1>1
  <2>2. k + h \in 1..Len(toServer) /\ toServer'[h] = toServer[k + h]
    BY <1>1, <2>1
  <2>3. k + h < k + i
    BY <1>6
  <2> QED BY <1>5, <2>2, <2>3
<1> QED BY <1>5, <1>6

\* Requests sent by a console that receives, or that has just read the answer.
LEMMA LateAsked ==
  ASSUME toServer \in Seq(Requests), NEW q \in Seq(Requests),
         \A i \in 1..Len(q) : q[i].k # "get", Send(q),
         UNCHANGED <<infoHandler, spc>>, LateIsIgnored, reading = 2 \/ Opened
  PROVE  LateIsIgnored'
<1>1. /\ Len(toServer) \in Nat /\ Len(q) \in Nat
      /\ Len(toServer') = Len(toServer) + Len(q)
      /\ \A i \in 1..Len(toServer') :
           toServer'[i] = IF i <= Len(toServer) THEN toServer[i] ELSE q[i - Len(toServer)]
  BY ConcatProperties, LenProperties DEF Send
<1>2. SUFFICES ASSUME NEW i \in 1..Len(toServer'), toServer'[i].k = "get"
               PROVE  /\ infoHandler /\ spc = 0
                      /\ \A h \in 1..Len(toServer') : h < i => toServer'[h].k \notin Asking
  BY DEF LateIsIgnored, Late
<1>3. i \in 1..Len(toServer) /\ toServer[i].k = "get"
  <2>1. CASE i <= Len(toServer)
    BY <1>1, <1>2, <2>1
  <2>2. CASE ~(i <= Len(toServer))
    <3>1. i - Len(toServer) \in 1..Len(q) /\ toServer'[i] = q[i - Len(toServer)]
      BY <1>1, <2>2
    <3> QED BY <1>2, <3>1
  <2> QED BY <2>1, <2>2
<1>4. /\ infoHandler /\ spc = 0
      /\ \A h \in 1..Len(toServer) : h < i => toServer[h].k \notin Asking
  BY <1>3 DEF LateIsIgnored, Late, Opened
<1>5. ASSUME NEW h \in 1..Len(toServer'), h < i PROVE toServer'[h].k \notin Asking
  <2>1. h \in 1..Len(toServer) /\ toServer'[h] = toServer[h]
    BY <1>1, <1>3, <1>5
  <2> QED BY <1>4, <1>5, <2>1
<1> QED BY <1>4, <1>5

\* A "get" typed at any time stands behind everything else.
LEMMA LateTyped ==
  ASSUME toServer \in Seq(Requests), NEW r \in Requests, r.k = "get", Send(<<r>>),
         UNCHANGED <<infoHandler, spc>>, LateIsIgnored, reading' # 2
  PROVE  LateIsIgnored'
<1>1. /\ Len(toServer) \in Nat /\ Len(toServer') = Len(toServer) + 1
      /\ \A i \in 1..Len(toServer) : toServer'[i] = toServer[i]
      /\ toServer'[Len(toServer) + 1] = r
  <2>1. <<r>> \in Seq(Requests) /\ Len(<<r>>) = 1 /\ <<r>>[1] = r
    BY OneSeq
  <2>2. /\ Len(toServer') = Len(toServer) + Len(<<r>>)
        /\ \A i \in 1..Len(toServer') :
             toServer'[i] = IF i <= Len(toServer) THEN toServer[i]
                                                  ELSE <<r>>[i - Len(toServer)]
    BY <2>1, ConcatProperties DEF Send
  <2>3. Len(toServer) \in Nat
    BY LenProperties
  <2>4. Len(toServer') = Len(toServer) + 1
    BY <2>1, <2>2
  <2>5. toServer'[Len(toServer) + 1] = <<r>>[Len(toServer) + 1 - Len(toServer)]
    BY <2>2, <2>3, <2>4
  <2>6. Len(toServer) + 1 - Len(toServer) = 1
    BY <2>3
  <2>7. \A i \in 1..Len(toServer) : toServer'[i] = toServer[i]
    BY <2>2, <2>3, <2>4
  <2> QED BY <2>1, <2>3, <2>4, <2>5, <2>6, <2>7
<1>2. SUFFICES ASSUME NEW i \in 1..Len(toServer'), Late(i)'
               PROVE  /\ infoHandler /\ spc = 0
                      /\ \A h \in 1..Len(toServer') : h < i => toServer'[h].k \notin Asking
  BY DEF LateIsIgnored
<1>3. PICK j \in 1..Len(toServer') : i < j /\ toServer'[j].k \in Asking
  BY <1>2 DEF Late
<1>4. j \in 1..Len(toServer)
  BY <1>1, <1>3 DEF Asking
<1>5. i \in 1..Len(toServer)
  BY <1>1, <1>3, <1>4
<1>6. Late(i)
  BY <1>1, <1>2, <1>3, <1>4, <1>5 DEF Late
<1>7. /\ infoHandler /\ spc = 0
      /\ \A h \in 1..Len(toServer) : h < i => toServer[h].k \notin Asking
  BY <1>5, <1>6 DEF LateIsIgnored
<1>8. ASSUME NEW h \in 1..Len(toServer'), h < i PROVE toServer'[h].k \notin Asking
  <2>1. h \in 1..Len(toServer)
    BY <1>1, <1>5, <1>8
  <2> QED BY <1>1, <1>7, <1>8, <2>1
<1> QED BY <1>7, <1>8

LEMMA SessionStep ==
  ASSUME TypeInv, SessionInv, Next, ~UsbGet PROVE SessionInv'
<1>1. CASE EthTop
  <2>1. reading' = reading /\ connected' = connected
    BY <1>1 DEF EthTop, consoleVars
  <2>2. connected => tcp' \in {"pending", "up"}
    BY <1>1 DEF EthTop, SessionInv
  <2>3. phase' = "read" => clientConnected' /\ tcp' \in {"up", "gone"}
    BY <1>1 DEF EthTop
  <2>4. phase' = "top" => out' = <<>>
    BY <1>1 DEF EthTop, SessionInv
  <2> QED BY <2>1, <2>2, <2>3, <2>4 DEF SessionInv
<1>2. CASE EthRead
  <2>1. UNCHANGED <<phase, clientConnected, tcp, reading, connected>> /\ phase = "read"
    BY <1>2 DEF EthRead, consoleVars
  <2> QED BY <2>1 DEF SessionInv
<1>3. CASE EthFlush
  <2>1. UNCHANGED <<clientConnected, tcp, reading, connected>> /\ phase' = "top" /\ out' = <<>>
    BY <1>3 DEF EthFlush, consoleVars
  <2> QED BY <2>1 DEF SessionInv
<1>4. CASE UsbLog \/ UsbLstop \/ Unplug \/ Plug
  <2>1. UNCHANGED <<phase, clientConnected, tcp, out, reading, connected>>
    BY <1>4 DEF UsbLog, UsbLstop, Unplug, Plug, consoleVars
  <2> QED BY <2>1 DEF SessionInv
<1>5. CASE StartClient \/ Lose
  <2>1. UNCHANGED <<phase, clientConnected, out>> /\ reading' = 0
    BY <1>5 DEF StartClient, Lose, robotVars
  <2>2. ~connected'
    BY <1>5, Zenon DEF StartClient, Lose
  <2>3. phase' = "read" => tcp' \in {"up", "gone"}
    <3>1. CASE StartClient
      BY <2>1, <3>1 DEF StartClient, SessionInv
    <3>2. CASE Lose
      BY <2>1, <3>2 DEF Lose, SessionInv
    <3> QED BY <1>5, <3>1, <3>2
  <2> QED BY <2>1, <2>2, <2>3 DEF SessionInv
<1>6. CASE DoWrite
  <2>1. UNCHANGED <<phase, clientConnected, out, tcp, connected>> /\ connected
    BY <1>6 DEF DoWrite, robotVars
  <2> QED BY <2>1 DEF SessionInv
<1>7. CASE Process
  <2>1. UNCHANGED <<phase, clientConnected, out, tcp>> /\ tcp \in {"pending", "up"}
    BY <1>7 DEF Process, robotVars
  <2>2. connected' = connected \/ connected' = TRUE
    BY <1>7, ProcessStep DEF TypeInv, StreamType
  <2>3. reading' # 0 => reading # 0
    <3>1. PICK c \in Seq(Units) :
             \/ UNCHANGED <<reading, fileSize, bytes, packetsCounter, copy, finished,
                            toServer>>
             \/ reading = 1 /\ (WaitForAck(c) \/ FopenFails(c))
             \/ reading = 2
      BY <1>7, ProcessStep DEF TypeInv, StreamType
    <3> QED BY <3>1
  <2>4. reading' # 0 => connected'
    BY <2>2, <2>3 DEF SessionInv
  <2> QED BY <2>1, <2>4 DEF SessionInv
<1>8. CASE Fault
  <2>1. phase' = "top" /\ out' = <<>> /\ reading' = 0
    BY <1>8 DEF Fault
  <2>2. ~connected'
    BY <1>8, Zenon DEF Fault
  <2> QED BY <2>1, <2>2 DEF SessionInv
<1> QED BY <1>1, <1>2, <1>3, <1>4, <1>5, <1>6, <1>7, <1>8 DEF Next

-----------------------------------------------------------------------------
(* The protocol, when requests for two files never cross and nobody asks for *)
(* a file over USB.                                                          *)

LEMMA PacketsMono ==
  ASSUME spc \in Nat, spc' \in Nat, spc <= spc', currentFileName' = currentFileName,
         logged \subseteq logged', ReadFailed' => ReadFailed \/ spc < spc'
  PROVE  PacketsSent \subseteq PacketsSent'
<1> SUFFICES ASSUME NEW u \in PacketsSent, u.k \in PacketKinds
             PROVE  /\ u.n <= spc'
                    /\ ReadFailed' => u.n < spc'
                    /\ u.n > 0 => /\ u.s = BlockSize(currentFileName, u.n)
                                  /\ BlockOrLog(u.b, u.n)'
  BY DEF PacketsSent
<1>1. /\ u.n \in Nat /\ u.n <= spc
      /\ ReadFailed => u.n < spc
      /\ u.n > 0 => u.s = BlockSize(currentFileName, u.n) /\ BlockOrLog(u.b, u.n)
  BY DEF PacketsSent, Units
<1> QED BY <1>1 DEF BlockOrLog

LEMMA PacketIsSent ==
  ASSUME NEW v \in Units, v.n <= spc', ReadFailed' => v.n < spc',
         v.n > 0 => v.s = BlockSize(currentFileName', v.n),
         v.n > 0 => \/ v.b = <<currentFileName', v.n>>
                    \/ currentFileName' \in logged' /\ v.b = LogBytes
  PROVE  v \in PacketsSent'
  BY DEF PacketsSent, BlockOrLog

\* A step of the robot changes nothing on the console's disk.
LEMMA DiskKept ==
  ASSUME CopyIsPrefix, FinishedIsWhole, UNCHANGED <<copy, finished>>,
         logged \subseteq logged'
  PROVE  CopyIsPrefix' /\ FinishedIsWhole'
<1>1. FinishedIsWhole'
  BY DEF FinishedIsWhole
<1>2. CopyIsPrefix'
  BY DEF CopyIsPrefix
<1> QED BY <1>1, <1>2

\* Steps that move nothing in the streams.
LEMMA AskStill ==
  ASSUME AskInv, tcp' \in {"pending", "up"} => tcp \in {"pending", "up"},
         tcp' \in {"pending", "up"} => UNCHANGED <<toServer, infoHandler, ethFile, spc>>,
         UNCHANGED <<toClient, reading, currentFileName>>,
         out' = out \/ out' = <<>>
  PROVE  AskInv'
<1> SUFFICES ASSUME tcp' \in {"pending", "up"} PROVE AskInv'
  BY DEF AskInv
<1>1. Answers' = Answers /\ Asked' = Asked
  BY DEF Answers, Opened, Asked
<1>2. LateIsIgnored'
  BY DEF AskInv, LateIsIgnored, Late
<1>3. out' \in Seq(Answers') /\ AckLast(out')
  <2>1. <<>> \in Seq(Answers') /\ AckLast(<<>>)
    BY DEF AckLast
  <2> QED BY <1>1, <2>1 DEF AskInv
<1> QED BY <1>1, <1>2, <1>3 DEF AskInv

LEMMA AskQuietRobot ==
  ASSUME SessionInv, AskInv, EthTop \/ UsbLog \/ UsbLstop \/ Unplug \/ Plug PROVE AskInv'
<1>1. UNCHANGED <<toClient, reading, currentFileName, spc>>
  BY DEF EthTop, UsbLog, UsbLstop, Unplug, Plug, consoleVars
<1>2. /\ out' = out \/ out' = <<>>
      /\ tcp' \in {"pending", "up"} =>
           tcp \in {"pending", "up"} /\ UNCHANGED <<toServer, infoHandler, ethFile>>
  <2>1. CASE EthTop
    BY <2>1 DEF EthTop
  <2>2. CASE UsbLog \/ UsbLstop \/ Unplug \/ Plug
    BY <2>2 DEF UsbLog, UsbLstop, Unplug, Plug
  <2> QED BY <2>1, <2>2
<1> QED BY <1>1, <1>2, AskStill

\* The ring goes to TCP: what it holds stands behind what was sent before.
LEMMA AskFlush ==
  ASSUME TypeInv, AskInv, EthFlush PROVE AskInv'
<1>1. UNCHANGED <<tcp, toServer, reading, currentFileName, infoHandler, ethFile, spc>>
  BY DEF EthFlush, consoleVars
<1>2. SUFFICES ASSUME tcp \in {"pending", "up"} PROVE AskInv'
  BY <1>1 DEF AskInv
<1>3. /\ toServer \in Seq(Asked) /\ LateIsIgnored
      /\ out \in Seq(Answers) /\ AckLast(out)
      /\ toClient \in Seq(Answers) /\ AckLast(toClient)
      /\ HasAck(toClient) => out = <<>>
      /\ toClient \in Seq(Units) /\ out \in Seq(Units)
  BY <1>2 DEF AskInv, TypeInv, StreamType
<1>4. Answers' = Answers /\ Asked' = Asked /\ LateIsIgnored'
  BY <1>1, <1>3 DEF Answers, Opened, Asked, LateIsIgnored, Late
<1>5. out' = <<>> /\ <<>> \in Seq(Answers) /\ AckLast(<<>>)
  BY DEF EthFlush, AckLast
<1>6. PICK ping \in BOOLEAN :
        toClient' = toClient \o out \o (IF ping THEN <<Unit("ping")>> ELSE <<>>)
  BY <1>2 DEF EthFlush
<1>7. Unit("ping") \in Answers /\ Unit("ping") \in Units /\ Unit("ping").k = "ping"
  BY PlainUnit DEF Kinds, Answers
<1> DEFINE t == toClient \o out
<1>8. t \in Seq(Answers) /\ t \in Seq(Units) /\ AckLast(t)
  <2>1. t \in Seq(Answers) /\ t \in Seq(Units)
    BY <1>3, ConcatProperties
  <2>2. CASE HasAck(toClient)
    <3>1. t = toClient
      BY <1>3, <2>2, ConcatEmptySeq
    <3> QED BY <1>3, <2>1, <3>1
  <2>3. CASE ~HasAck(toClient)
    BY <1>3, <2>1, <2>3, NoAckPlain, AckLastConcat
  <2> QED BY <2>1, <2>2, <2>3
<1> HIDE DEF t
<1>9. toClient' \in Seq(Answers) /\ AckLast(toClient')
  <2>1. CASE ping
    <3>1. toClient' = t \o <<Unit("ping")>>
      BY <1>6, <2>1 DEF t
    <3>2. AckLast(t \o <<Unit("ping")>>)
      BY <1>7, <1>8, AckLastMore
    <3>3. t \o <<Unit("ping")>> \in Seq(Answers)
      BY <1>7, <1>8, OneSeq, ConcatProperties
    <3> QED BY <3>1, <3>2, <3>3
  <2>2. CASE ~ping
    <3>1. toClient' = t
      BY <1>6, <1>8, <2>2, ConcatEmptySeq DEF t
    <3> QED BY <1>8, <3>1
  <2> QED BY <2>1, <2>2
<1> QED BY <1>1, <1>3, <1>4, <1>5, <1>9 DEF AskInv

\* The robot's answers other than the acknowledgement.
LEMMA PlainFed ==
  ASSUME TypeInv, out \in Seq(Plain), EthRead, infoHandler, Head(toServer).k \in Asking
  PROVE  out' \in Seq(Plain) /\ toClient' = toClient
<1> DEFINE r == Head(toServer)
<1>1. /\ toClient' = toClient
      /\ \/ out' = out
         \/ PleaseSendNext(r.n)
         \/ PleaseRepeat
         \/ SendFileViaEthComplete
  BY DEF EthRead, Asking
<1>2. ASSUME NEW q \in Seq(Plain), EthFeed(q) PROVE out' \in Seq(Plain)
  BY <1>2, EthFeedSeq DEF TypeInv, StreamType
<1>3. ASSUME SendFileViaEthComplete PROVE out' \in Seq(Plain)
  <2>1. Unit("TEEE") \in Plain /\ Unit("text") \in Plain
    BY PlainUnit DEF Kinds, Plain
  <2>2. <<Unit("TEEE"), Unit("text")>> \in Seq(Plain)
    BY <2>1, TwoSeq
  <2> QED BY <1>2, <1>3, <2>2 DEF SendFileViaEthComplete
<1>4. ASSUME NEW n \in Nat, NEW b \in Block, NEW s \in 0..2, EthFeed(Packet(n, b, s))
      PROVE  out' \in Seq(Plain)
  <2>1. \A j \in PacketKinds : [k |-> j, n |-> n, b |-> b, s |-> s] \in Plain
    BY DEF Plain, Units, PacketKinds, Kinds
  <2> QED BY <1>2, <1>4, <2>1, PacketSeq
<1>5. /\ spc \in Nat /\ rbBuf.b \in Block /\ rbBuf.s \in -1..2 /\ LogBytes \in Block
      /\ ethFile.name \in Files \cup {NoFile} /\ ethFile.pos \in Nat
  BY DEF TypeInv, RobotType, Block, LogBytes
<1>8. ASSUME EthFeed(Junk) PROVE out' \in Seq(Plain)
  <2>1. Unit("junk") \in Plain
    BY PlainUnit DEF Kinds, Plain
  <2> QED BY <1>2, <1>8, <2>1, JunkSeq
<1>6. ASSUME PleaseSendNext(r.n) PROVE out' \in Seq(Plain)
  <2> DEFINE i == ethFile.pos + 1
             s == BlockSize(ethFile.name, i)
  <2>1. \/ out' = out
        \/ EthFeed(Packet(spc + 1, <<ethFile.name, i>>, s))
        \/ EthFeed(Junk)
        \/ SendFileViaEthComplete
    BY <1>6 DEF PleaseSendNext
  <2>2. spc + 1 \in Nat /\ <<ethFile.name, i>> \in Block /\ s \in 0..2
    BY <1>5 DEF Block, BlockSize
  <2> HIDE DEF i, s
  <2> QED BY <1>3, <1>4, <1>8, <2>1, <2>2
<1>7. ASSUME PleaseRepeat PROVE out' \in Seq(Plain)
  <2>1. \/ SendFileViaEthComplete
        \/ \E b \in {rbBuf.b} \cup (IF lfWriting THEN {LogBytes} ELSE {}) :
             EthFeed(IF rbBuf.s < 0 THEN Junk ELSE Packet(spc, b, rbBuf.s))
    BY <1>7 DEF PleaseRepeat
  <2>2. ASSUME NEW b \in {rbBuf.b} \cup (IF lfWriting THEN {LogBytes} ELSE {}),
               EthFeed(IF rbBuf.s < 0 THEN Junk ELSE Packet(spc, b, rbBuf.s))
        PROVE  out' \in Seq(Plain)
    <3>1. b \in Block
      BY <1>5
    <3>2. CASE rbBuf.s < 0
      BY <1>8, <2>2, <3>2
    <3>3. CASE ~(rbBuf.s < 0)
      <4>1. rbBuf.s \in 0..2 /\ EthFeed(Packet(spc, b, rbBuf.s))
        BY <1>5, <2>2, <3>3
      <4> QED BY <1>4, <1>5, <3>1, <4>1
    <3> QED BY <3>2, <3>3
  <2> QED BY <1>3, <2>1, <2>2
<1> QED BY <1>1, <1>3, <1>6, <1>7

\* A read of the robot.  Only a request for a file that is heard is answered
\* with an acknowledgement; nothing else is then under way.
LEMMA AskRead ==
  ASSUME TypeInv, SessionInv, AskInv, EthRead PROVE AskInv'
<1> DEFINE r == Head(toServer)
           f == currentFileName
<1>1. UNCHANGED <<tcp, reading, currentFileName>> /\ toServer # <<>>
  BY DEF EthRead, consoleVars
<1>2. SUFFICES ASSUME tcp \in {"pending", "up"} PROVE AskInv'
  BY <1>1 DEF AskInv
<1>3. /\ toServer \in Seq(Asked) /\ toServer \in Seq(Requests) /\ LateIsIgnored
      /\ out \in Seq(Answers) /\ AckLast(out)
      /\ toClient \in Seq(Answers) /\ AckLast(toClient)
      /\ HasAck(toClient) => out = <<>>
      /\ toClient \in Seq(Units) /\ out \in Seq(Units)
  BY <1>2 DEF AskInv, TypeInv, StreamType
<1>4. /\ Len(toServer) \in Nat /\ 1 \in 1..Len(toServer) /\ toServer[1] = r
      /\ r \in Asked /\ r \in Requests
  <2>1. Len(toServer) \in Nat /\ Len(toServer) # 0
    BY <1>1, <1>3, EmptySeq, LenProperties
  <2>2. 1 \in 1..Len(toServer)
    BY <2>1
  <2>3. toServer[1] \in Asked /\ toServer[1] \in Requests
    BY <1>3, <2>2, ElementOfSeq
  <2>4. toServer[1] = r
    OBVIOUS
  <2> QED BY <2>1, <2>2, <2>3, <2>4
<1>5. PICK k \in 1..Len(toServer) :
        /\ toServer' = Drop(toServer, k)
        /\ \/ /\ r.k = "console"
              /\ toClient' = Append(toClient, Unit("tee"))
              /\ UNCHANGED <<infoHandler, ethFile, spc, out>>
           \/ /\ r.k = "get" /\ ~infoHandler /\ toClient' = toClient
              /\ \E bad \in BOOLEAN : LfGetFile(r.f, bad)
           \/ /\ r.k = "get" /\ infoHandler
              /\ UNCHANGED <<infoHandler, ethFile, spc, out, toClient>>
           \/ /\ r.k \in Asking /\ ~infoHandler
              /\ UNCHANGED <<infoHandler, ethFile, spc, out, toClient>>
           \/ r.k \in Asking /\ infoHandler
  <2>1. r.k \in {"console", "get"} \cup Asking
    BY <1>4 DEF Requests, Asking
  <2>2. (IF Coalesce THEN 1..Len(toServer) ELSE {1}) \subseteq 1..Len(toServer)
    BY <1>4
  <2> QED BY <2>1, <2>2 DEF EthRead, Asking
<1>6. toServer' \in Seq(Asked')
  <2>1. k \in 0..Len(toServer)
    BY <1>4
  <2>2. Asked' = Asked
    BY <1>1 DEF Asked
  <2> QED BY <1>3, <1>5, <2>1, <2>2, DropSeq
<1>7. \A i \in 1..Len(toServer') : \E j \in 1..Len(toServer) : k < j /\ toServer'[i] = toServer[j]
  <2>1. /\ Len(toServer') = Len(toServer) - k
        /\ \A i \in 1..Len(toServer) - k :
             toServer'[i] = toServer[k + i] /\ k + i \in 1..Len(toServer)
    <3>1. k \in 0..Len(toServer)
      BY <1>4
    <3> QED BY <1>3, <1>5, <3>1, DropParts
  <2>2. TAKE i \in 1..Len(toServer')
  <2>3. i \in 1..Len(toServer) - k
    BY <2>1
  <2>4. k < k + i
    BY <1>4, <2>3
  <2> QED BY <2>1, <2>3, <2>4
<1>8. ASSUME UNCHANGED <<infoHandler, ethFile, spc, out>>,
             toClient' = toClient \/ toClient' = Append(toClient, Unit("tee"))
      PROVE  AskInv'
  <2>1. LateIsIgnored'
    BY <1>1, <1>3, <1>5, <1>8, LateRead
  <2>2. Opened => Opened'
    BY <1>1, <1>7, <1>8 DEF Opened
  <2>3. Answers \subseteq Answers'
    BY <1>1, <2>2, AnswersKept
  <2>4. Unit("tee") \in Answers /\ Unit("tee") \in Units /\ Unit("tee").k = "tee"
    BY PlainUnit DEF Kinds, Answers
  <2>5. toClient' \in Seq(Answers) /\ AckLast(toClient')
    <3>1. CASE toClient' = Append(toClient, Unit("tee"))
      <4>1. toClient' = toClient \o <<Unit("tee")>>
        BY <1>3, <2>4, <3>1, AppendIsConcat
      <4>2. AckLast(toClient')
        BY <1>3, <2>4, <4>1, AckLastMore
      <4> QED BY <1>3, <2>4, <3>1, <4>2, AppendProperties
    <3> QED BY <1>3, <1>8, <3>1
  <2>6. HasAck(toClient') => out' = <<>>
    <3>1. CASE toClient' = Append(toClient, Unit("tee"))
      <4>1. ASSUME HasAck(toClient') PROVE HasAck(toClient)
        <5>1. PICK i \in 1..Len(toClient') : toClient'[i].k = "ack"
          BY <4>1 DEF HasAck
        <5>2. /\ Len(toClient) \in Nat /\ Len(toClient') = Len(toClient) + 1
              /\ \A j \in 1..Len(toClient) : toClient'[j] = toClient[j]
              /\ toClient'[Len(toClient) + 1] = Unit("tee")
          BY <1>3, <2>4, <3>1, AppendProperties, LenProperties
        <5>3. i # Len(toClient) + 1
          BY <2>4, <5>1, <5>2
        <5>4. i \in 1..Len(toClient)
          BY <5>2, <5>3
        <5> QED BY <5>1, <5>2, <5>4 DEF HasAck
      <4> QED BY <1>3, <1>8, <4>1
    <3> QED BY <1>3, <1>8, <3>1
  <2>7. out' \in Seq(Answers') /\ toClient' \in Seq(Answers')
    BY <1>3, <1>8, <2>3, <2>5, SeqMono
  <2> QED BY <1>3, <1>6, <1>8, <2>1, <2>5, <2>6, <2>7 DEF AskInv
<1>9. ASSUME ~Opened, LateIsIgnored', toClient' = toClient,
             out' \in Seq(Plain) \/ (out' \in Seq(Answers') /\ AckLast(out'))
      PROVE  AskInv'
  <2>1. toClient' \in Seq(Plain)
    BY <1>3, <1>9, PlainIsAnswer, SeqMono
  <2>2. toClient' \in Seq(Answers') /\ AckLast(toClient') /\ ~HasAck(toClient')
    BY <2>1, PlainIsAnswer, SeqMono, PlainAckLast
  <2>3. out' \in Seq(Answers') /\ AckLast(out')
    BY <1>9, PlainIsAnswer, SeqMono, PlainAckLast
  <2> QED BY <1>6, <1>9, <2>2, <2>3 DEF AskInv
<1>10. CASE r.k \in Asking /\ infoHandler
  <2>1. ~Opened
    BY <1>4, <1>10 DEF Opened
  <2>2. out \in Seq(Plain)
    BY <1>3, <2>1, PlainIsAnswer, SeqMono
  <2>3. out' \in Seq(Plain) /\ toClient' = toClient
    BY <1>10, <2>2, PlainFed
  <2>4. ASSUME NEW i \in 1..Len(toServer) PROVE ~Late(i)
    <3> SUFFICES ASSUME Late(i) PROVE FALSE
      OBVIOUS
    <3>1. i # 1
      BY <1>4, <1>10 DEF Late, Asking
    <3>2. 1 < i
      BY <3>1
    <3> QED BY <1>3, <1>4, <1>10, <3>2 DEF LateIsIgnored
  <2>5. LateIsIgnored'
    BY <1>1, <1>3, <1>5, <2>4, LateRead
  <2> QED BY <1>9, <2>1, <2>3, <2>5
<1>11. ASSUME r.k = "get", ~infoHandler, toClient' = toClient,
              NEW bad \in BOOLEAN, LfGetFile(r.f, bad)
       PROVE  AskInv'
  <2>1. ~Opened /\ \A i \in 1..Len(toServer) : ~Late(i)
    BY <1>3, <1>11 DEF Opened, LateIsIgnored
  <2>2. LateIsIgnored'
    BY <1>1, <1>3, <1>5, <2>1, LateRead
  <2>3. out \in Seq(Plain)
    BY <1>3, <2>1, PlainIsAnswer, SeqMono
  <2>4. r.f = f /\ f \in Files
    BY <1>4, <1>11 DEF Asked, Requests
  <2>5. CASE EthFeed(Nak)
    <3>1. Unit("nak") \in Plain /\ Unit("text") \in Plain
      BY PlainUnit DEF Kinds, Plain
    <3>2. Nak \in Seq(Plain)
      BY <3>1, NakSeq
    <3>3. out' \in Seq(Plain)
      BY <2>3, <2>5, <3>2, EthFeedSeq DEF TypeInv, StreamType
    <3> QED BY <1>9, <1>11, <2>1, <2>2, <3>3
  <2>6. CASE /\ SizeOf(f) > 0
             /\ ethFile' = [name |-> f, pos |-> 0]
             /\ spc' = 0
             /\ infoHandler' = TRUE
             /\ EthFeed(<<Ack(SizeOf(f))>>)
    <3>1. Ack(SizeOf(f)) \in Units /\ Ack(SizeOf(f)).k = "ack" /\ Ack(SizeOf(f)).n = SizeOf(f)
      BY <2>4, AckUnit, SizeNat
    <3>2. reading' # 2 /\ \A i \in 1..Len(toServer') : toServer'[i].k \notin Asking
      <4>1. \A j \in 1..Len(toServer) : 1 < j => toServer[j].k \notin Asking
        BY <1>4, <1>11, <2>1 DEF Late
      <4>2. reading # 2
        BY <1>4, <1>11, <2>1 DEF Late
      <4>3. \A i \in 1..Len(toServer') :
               \E j \in 1..Len(toServer) : 1 < j /\ toServer'[i] = toServer[j]
        <5>1. \A j \in 1..Len(toServer) : k < j => 1 < j
          OBVIOUS
        <5> QED BY <1>7, <5>1
      <4> QED BY <1>1, <4>1, <4>2, <4>3
    <3>3. Opened'
      BY <1>1, <2>4, <2>6, <3>2 DEF Opened
    <3>4. SizeOf(f)' = SizeOf(f)
      BY <1>1
    <3>5. Ack(SizeOf(f)) \in Answers'
      BY <2>6, <3>1, <3>3, <3>4 DEF Answers
    <3>6. out \in Seq(Answers')
      BY <2>3, PlainIsAnswer, SeqMono
    <3>7. out' \in Seq(Answers')
      BY <2>6, <3>5, <3>6, OneSeq, EthFeedSeq DEF TypeInv, StreamType
    <3>8. AckLast(out')
      BY <2>3, <2>6, <3>1, AckFed
    <3> QED BY <1>9, <1>11, <2>1, <2>2, <3>7, <3>8
  <2> QED BY <1>11, <2>4, <2>5, <2>6 DEF LfGetFile
<1>12. CASE UNCHANGED <<infoHandler, ethFile, spc, out, toClient>>
  BY <1>8, <1>12
<1>13. CASE /\ toClient' = Append(toClient, Unit("tee"))
            /\ UNCHANGED <<infoHandler, ethFile, spc, out>>
  BY <1>8, <1>13
<1> QED BY <1>5, <1>10, <1>11, <1>12, <1>13

\* Steps of the robot that only move what is in the streams, or that start or
\* stop a log.
LEMMA ReceiveQuietRobot ==
  ASSUME TypeInv, TransferInv, EthTop \/ EthFlush \/ UsbLog \/ UsbLstop \/ Unplug \/ Plug
  PROVE  ReceiveInv' /\ CopyIsPrefix' /\ FinishedIsWhole'
<1>1. /\ UNCHANGED <<reading, currentFileName, fileSize, bytes, packetsCounter, copy, finished>>
      /\ spc' = spc
  BY DEF EthTop, EthFlush, UsbLog, UsbLstop, Unplug, Plug, consoleVars
<1>2. logged \subseteq logged'
  BY DEF EthTop, EthFlush, UsbLog, UsbLstop, Unplug, Plug, histVars
<1>3. CopyIsPrefix' /\ FinishedIsWhole'
  BY <1>1, <1>2, DiskKept DEF TransferInv
<1>4. ASSUME reading # 0 PROVE UNCHANGED <<toServer, infoHandler, ethFile>>
  <2>1. tcp # "gone"
    BY <1>4 DEF TransferInv, SessionInv
  <2> QED BY <2>1 DEF EthTop, EthFlush, UsbLog, UsbLstop, Unplug, Plug
<1>8. /\ rbBuf'.s = rbBuf.s
      /\ rbBuf'.b = rbBuf.b \/ (lfWriting /\ rbBuf'.b = LogBytes)
  <2>1. CASE UsbLstop
    <3>1. PICK b \in {rbBuf.b} \cup (IF lfWriting THEN {LogBytes} ELSE {}) :
            rbBuf' = [rbBuf EXCEPT !.b = b]
      BY <2>1 DEF UsbLstop
    <3> QED BY <3>1 DEF TypeInv, RobotType
  <2>2. CASE ~UsbLstop
    BY <2>2 DEF EthTop, EthFlush, UsbLog, Unplug, Plug
  <2> QED BY <2>1, <2>2
<1>5. ASSUME NEW S, out \in Seq(S), toClient \in Seq(S), Unit("ping") \in S
      PROVE  out' \in Seq(S) /\ toClient' \in Seq(S)
  <2>1. CASE EthTop
    <3>1. toClient' = toClient /\ (out' = out \/ out' = <<>>)
      BY <2>1 DEF EthTop
    <3>2. <<>> \in Seq(S)
      OBVIOUS
    <3> QED BY <1>5, <3>1, <3>2
  <2>2. CASE EthFlush
    <3>1. out' = <<>>
      BY <2>2 DEF EthFlush
    <3>2. PICK ping \in BOOLEAN :
            toClient' = IF tcp = "gone" THEN <<>>
                        ELSE toClient \o out \o (IF ping THEN <<Unit("ping")>> ELSE <<>>)
      BY <2>2 DEF EthFlush
    <3>3. (IF ping THEN <<Unit("ping")>> ELSE <<>>) \in Seq(S)
      BY <1>5, OneSeq
    <3> QED BY <1>5, <3>1, <3>2, <3>3, ConcatProperties
  <2>3. CASE UsbLog \/ UsbLstop \/ Unplug \/ Plug
    BY <1>5, <2>3 DEF UsbLog, UsbLstop, Unplug, Plug
  <2> QED BY <2>1, <2>2, <2>3
<1>6. Unit("ping") \in PacketsSent
  BY PlainUnit DEF Kinds, PacketKinds, PacketsSent
<1>7. ReceiveInv'
  <2> SUFFICES ASSUME reading = 2 PROVE ReceiveInv'
    BY <1>1 DEF ReceiveInv
  <2>1. out' \in Seq(PacketsSent) /\ toClient' \in Seq(PacketsSent)
    BY <1>5, <1>6 DEF TransferInv, ReceiveInv
  <2>2. PacketsSent \subseteq PacketsSent'
    BY <1>1, <1>2, <1>8, PacketsMono DEF TypeInv, RobotType, ReadFailed
  <2>3. out' \in Seq(PacketsSent') /\ toClient' \in Seq(PacketsSent')
    BY <2>1, <2>2, SeqMono
  <2>4. RequestsSent' = RequestsSent
    BY <1>1 DEF RequestsSent
  <2>5. RobotAgrees'
    <3>0. UNCHANGED <<infoHandler, ethFile>>
      BY <1>4
    <3> SUFFICES ASSUME infoHandler PROVE RobotAgrees'
      BY <3>0, Zenon DEF RobotAgrees
    <3>1. RobotAgrees /\ (lfWriting => currentFileName \in logged)
      BY DEF TransferInv, ReceiveInv, LoggedInv, RobotAgrees
    <3>2. ReadFailed' = ReadFailed
      BY <1>1, <1>8 DEF ReadFailed
    <3>3. BufferHolds => BufferHolds'
      BY <1>1, <1>2, <1>8, <3>0, <3>1 DEF BufferHolds, BlockOrLog
    <3> QED BY <1>1, <3>0, <3>1, <3>2, <3>3 DEF RobotAgrees
  <2> QED BY <1>1, <1>4, <2>3, <2>4, <2>5 DEF TransferInv, ReceiveInv
<1> QED BY <1>3, <1>7

\* The name of the open file during a request, and after it.
LEMMA LoggedRead ==
  ASSUME TypeInv, LoggedInv, EthRead PROVE LoggedInv'
<1>1. UNCHANGED <<lfWriting, logged>>
  BY DEF EthRead
<1>2. SUFFICES ASSUME infoHandler', lfWriting
               PROVE  infoHandler /\ ethFile'.name = ethFile.name
  BY <1>1 DEF LoggedInv
<1> DEFINE same == infoHandler /\ ethFile'.name = ethFile.name
<1>3. ASSUME SendFileViaEthComplete PROVE FALSE
  BY <1>2, <1>3, Zenon DEF SendFileViaEthComplete
<1>4. ASSUME NEW f, NEW bad, ~infoHandler, LfGetFile(f, bad) PROVE FALSE
  BY <1>2, <1>4, Zenon DEF LfGetFile
<1>5. ASSUME NEW n, infoHandler, PleaseSendNext(n) PROVE same
  <2>1. ethFile' = ethFile \/ ethFile' = [ethFile EXCEPT !.pos = ethFile.pos + 1]
    BY <1>3, <1>5 DEF PleaseSendNext
  <2> QED BY <1>5, <2>1 DEF TypeInv, RobotType
<1>6. ASSUME infoHandler, PleaseRepeat PROVE same
  BY <1>3, <1>6 DEF PleaseRepeat
<1>7. ASSUME UNCHANGED <<infoHandler, ethFile>> PROVE same
  BY <1>2, <1>7
<1> HIDE DEF same
<1>8. same
  BY <1>3, <1>4, <1>5, <1>6, <1>7 DEF EthRead
<1> QED BY <1>8 DEF same

LEMMA LoggedStep ==
  ASSUME TypeInv, LoggedInv, Next, ~UsbGet PROVE LoggedInv'
<1>1. CASE EthRead
  BY <1>1, LoggedRead
<1>2. CASE EthTop
  <2>1. UNCHANGED <<lfWriting, logged>>
    BY <1>2 DEF EthTop, histVars
  <2>2. infoHandler' => infoHandler /\ ethFile' = ethFile
    <3>1. CASE UNCHANGED <<infoHandler, ethFile>>
      BY <3>1
    <3>2. CASE infoHandler' = FALSE
      BY <3>2
    <3> QED BY <1>2, <3>1, <3>2 DEF EthTop
  <2> QED BY <2>1, <2>2 DEF LoggedInv
<1>3. CASE EthFlush \/ Unplug \/ Plug
  <2>1. UNCHANGED <<lfWriting, logged, infoHandler, ethFile>>
    BY <1>3 DEF EthFlush, Unplug, Plug, histVars
  <2> QED BY <2>1 DEF LoggedInv
<1>4. CASE UsbLog
  <2>1. UNCHANGED <<infoHandler, ethFile>>
    BY <1>4 DEF UsbLog
  <2>2. CASE logged' = IF infoHandler THEN logged \cup {ethFile.name} ELSE logged
    BY <2>1, <2>2 DEF LoggedInv
  <2>3. CASE UNCHANGED <<lfWriting, logged>>
    BY <2>1, <2>3 DEF LoggedInv
  <2> QED BY <1>4, <2>2, <2>3 DEF UsbLog
<1>5. CASE UsbLstop \/ Fault
  <2>1. ~lfWriting'
    BY <1>5, Zenon DEF UsbLstop, Fault
  <2> QED BY <2>1 DEF LoggedInv
<1>6. CASE StartClient \/ DoWrite \/ Lose \/ Process
  <2>1. UNCHANGED <<robotVars, logged>>
    <3>1. CASE StartClient \/ DoWrite \/ Lose
      BY <3>1 DEF StartClient, DoWrite, Lose, histVars
    <3>2. CASE Process
      BY <3>2, Zenon DEF Process
    <3> QED BY <1>6, <3>1, <3>2
  <2>2. UNCHANGED <<lfWriting, logged, infoHandler, ethFile>>
    BY <2>1 DEF robotVars
  <2> QED BY <2>2 DEF LoggedInv
<1> QED BY <1>1, <1>2, <1>3, <1>4, <1>5, <1>6 DEF Next

\* The answers to a request for the next packet inside a file.
LEMMA SendNextCases ==
  ASSUME NEW pn \in Nat, spc \in Nat, PleaseSendNext(pn)
  PROVE  /\ spc > pn => UNCHANGED <<infoHandler, ethFile, spc, rbBuf, out>>
         /\ \A f, p : spc <= pn /\ ethFile.name = f /\ ethFile.pos = p
                        /\ p \in Nat /\ Blocks[f] \in Nat /\ p < Blocks[f] =>
              /\ spc' = spc + 1 /\ infoHandler' = infoHandler
              /\ \/ /\ ethFile' = [ethFile EXCEPT !.pos = p + 1]
                    /\ rbBuf' = [b |-> <<f, p + 1>>, s |-> BlockSize(f, p + 1)]
                    /\ EthFeed(Packet(spc + 1, <<f, p + 1>>, BlockSize(f, p + 1)))
                 \/ /\ ethFile' = ethFile
                    /\ rbBuf' = [rbBuf EXCEPT !.s = -1]
                    /\ EthFeed(Junk)
<1>1. ASSUME spc > pn PROVE UNCHANGED <<infoHandler, ethFile, spc, rbBuf, out>>
  <2>1. ~(spc <= pn)
    BY <1>1
  <2> QED BY <2>1 DEF PleaseSendNext
<1>2. ASSUME NEW f, NEW p \in Nat, spc <= pn, ethFile.name = f, ethFile.pos = p,
             Blocks[f] \in Nat, p < Blocks[f]
      PROVE  /\ spc' = spc + 1 /\ infoHandler' = infoHandler
             /\ \/ /\ ethFile' = [ethFile EXCEPT !.pos = p + 1]
                   /\ rbBuf' = [b |-> <<f, p + 1>>, s |-> BlockSize(f, p + 1)]
                   /\ EthFeed(Packet(spc + 1, <<f, p + 1>>, BlockSize(f, p + 1)))
                \/ /\ ethFile' = ethFile
                   /\ rbBuf' = [rbBuf EXCEPT !.s = -1]
                   /\ EthFeed(Junk)
  <2>1. ~(spc > pn) /\ ~(p >= Blocks[f])
    BY <1>2
  <2> QED BY <1>2, <2>1 DEF PleaseSendNext
<1> QED BY <1>1, <1>2


\* A read of the robot while the console receives: the next packet is sent
\* only when the console waits for it, and a packet that is sent again is the
\* last one sent.
LEMMA ReadWhileReceiving ==
  ASSUME TypeInv, TransferInv, EthRead, reading = 2 PROVE ReceiveInv'
<1> DEFINE f == currentFileName
           r == Head(toServer)
           Sent == \/ UNCHANGED <<infoHandler, ethFile, spc, rbBuf, out>>
                   \/ infoHandler /\ r.k = "TBWF" /\ PleaseSendNext(r.n)
                   \/ infoHandler /\ PleaseRepeat
                   \/ SendFileViaEthComplete /\ UNCHANGED <<spc, rbBuf>>
<1>0. /\ UNCHANGED <<reading, currentFileName, fileSize, bytes, packetsCounter, copy>>
      /\ UNCHANGED <<lfWriting, logged>> /\ toServer # <<>>
  BY DEF EthRead, consoleVars
<1>1. /\ f \in Files /\ spc \in Nat /\ packetsCounter \in Nat /\ Blocks[f] \in Nat
      /\ out \in Seq(Units) /\ Fits(out)
  BY SizeNat DEF TypeInv, ConsoleType, RobotType, StreamType
<1>2. /\ packetsCounter > 0 /\ packetsCounter <= Blocks[f]
      /\ packetsCounter = spc \/ packetsCounter = spc + 1
      /\ fileSize = SizeOf(f)
      /\ bytes = 2 * (packetsCounter - 1)
      /\ Len(copy[f]) = packetsCounter - 1
      /\ RobotAgrees /\ (infoHandler /\ lfWriting => f \in logged)
      /\ out \in Seq(PacketsSent)
      /\ toClient \in Seq(PacketsSent)
      /\ toServer \in Seq(RequestsSent)
  BY DEF TransferInv, ReceiveInv, LoggedInv, RobotAgrees
<1>3. /\ r \in RequestsSent /\ Len(toServer) \in Nat /\ Len(toServer) # 0
  BY <1>0, <1>2, HeadTailProperties, EmptySeq, LenProperties
<1>4. PICK k \in IF Coalesce THEN 1..Len(toServer) ELSE {1} :
        /\ toServer' = Drop(toServer, k)
        /\ toClient' = toClient \/ toClient' = Append(toClient, Unit("tee"))
        /\ Sent
  <2>1. r.k = "get" => infoHandler
    <3>1. tcp \in {"pending", "up"}
      BY DEF TransferInv, SessionInv
    <3>2. LateIsIgnored
      BY <3>1 DEF TransferInv, AskInv
    <3>3. 1 \in 1..Len(toServer) /\ toServer[1] = r
      BY <1>3
    <3> QED BY <3>2, <3>3 DEF LateIsIgnored, Late
  <2> QED BY <2>1 DEF EthRead
<1>5. RequestsSent' = RequestsSent /\ toServer' \in Seq(RequestsSent)
  <2>1. k \in 0..Len(toServer)
    BY <1>3
  <2> QED BY <1>0, <1>2, <1>4, <2>1, DropSeq DEF RequestsSent
<1>6. ASSUME NEW S, PacketsSent \subseteq S PROVE toClient' \in Seq(S)
  <2>1. Unit("tee") \in PacketsSent
    BY PlainUnit DEF Kinds, PacketKinds, PacketsSent
  <2>2. toClient' = toClient \/ toClient' = Append(toClient, Unit("tee"))
    BY <1>4
  <2>3. toClient \in Seq(PacketsSent)
    BY <1>2
  <2>4. toClient' \in Seq(PacketsSent)
    BY <2>1, <2>2, <2>3, AppendProperties
  <2> QED BY <1>6, <2>4, SeqMono
<1> DEFINE Agree ==
      /\ packetsCounter = spc' \/ packetsCounter = spc' + 1
      /\ RobotAgrees'
      /\ out' \in Seq(PacketsSent')
      /\ toClient' \in Seq(PacketsSent')
<1>7. ASSUME SendFileViaEthComplete, UNCHANGED <<spc, rbBuf>> PROVE Agree
  <2>1. PacketsSent \subseteq PacketsSent'
    BY <1>0, <1>1, <1>7, PacketsMono DEF ReadFailed
  <2>2. Unit("TEEE") \in PacketsSent' /\ Unit("text") \in PacketsSent'
    BY PlainUnit DEF Kinds, PacketKinds, PacketsSent
  <2>3. <<Unit("TEEE"), Unit("text")>> \in Seq(PacketsSent')
    BY <2>2, TwoSeq
  <2>4. out \in Seq(PacketsSent')
    BY <1>2, <2>1, SeqMono
  <2>5. out' \in Seq(PacketsSent')
    BY <1>1, <1>7, <2>3, <2>4, EthFeedSeq DEF SendFileViaEthComplete
  <2>6. ~infoHandler'
    BY <1>7, Zenon DEF SendFileViaEthComplete
  <2> QED BY <1>2, <1>6, <1>7, <2>1, <2>5, <2>6 DEF RobotAgrees
<1>8. ASSUME UNCHANGED <<infoHandler, ethFile, spc, rbBuf, out>> PROVE Agree
  <2>1. PacketsSent \subseteq PacketsSent'
    BY <1>0, <1>1, <1>8, PacketsMono DEF ReadFailed
  <2>2. out' \in Seq(PacketsSent') /\ toClient' \in Seq(PacketsSent')
    BY <1>2, <1>6, <1>8, <2>1, SeqMono
  <2>3. RobotAgrees'
    BY <1>0, <1>2, <1>8 DEF RobotAgrees, ReadFailed, BufferHolds, BlockOrLog
  <2> QED BY <1>2, <1>8, <2>2, <2>3
<1>9. ASSUME infoHandler, r.k = "TBWF", PleaseSendNext(r.n) PROVE Agree
  <2>1. r.n \in Nat /\ r.n < packetsCounter
    BY <1>3, <1>9 DEF RequestsSent, Requests
  <2>2. CASE spc > r.n
    <3>1. UNCHANGED <<infoHandler, ethFile, spc, rbBuf, out>>
      BY <1>1, <1>9, <2>1, <2>2, SendNextCases
    <3> QED BY <1>8, <3>1
  <2>3. CASE spc <= r.n
    <3>1. /\ packetsCounter = spc + 1 /\ spc < Blocks[f]
          /\ ethFile.name = f /\ ethFile.pos = spc
      <4>0. packetsCounter <= Blocks[f] /\ packetsCounter \in {spc, spc + 1}
        BY <1>2
      <4>1. packetsCounter = spc + 1 /\ spc < Blocks[f]
        BY <1>1, <2>1, <2>3, <4>0
      <4>2. ~ReadFailed
        BY <1>1, <1>2, <1>9, <4>1 DEF RobotAgrees
      <4> QED BY <1>2, <1>9, <4>1, <4>2 DEF RobotAgrees, BufferHolds
    <3>2. spc' = spc + 1 /\ infoHandler' = infoHandler
      BY <1>1, <1>9, <2>1, <2>3, <3>1, SendNextCases
    <3>3. PacketsSent \subseteq PacketsSent'
      BY <1>0, <1>1, <3>2, PacketsMono
    <3>4. out \in Seq(PacketsSent')
      BY <1>2, <3>3, SeqMono
    <3>9. CASE /\ ethFile' = ethFile
               /\ rbBuf' = [rbBuf EXCEPT !.s = -1]
               /\ EthFeed(Junk)
      <4>1. Unit("junk") \in PacketsSent'
        BY PlainUnit DEF Kinds, PacketKinds, PacketsSent
      <4>2. out' \in Seq(PacketsSent')
        BY <1>1, <3>4, <3>9, <4>1, JunkSeq, EthFeedSeq
      <4>3. rbBuf'.s = -1 /\ ReadFailed'
        BY <1>1, <3>2, <3>9 DEF ReadFailed, TypeInv, RobotType
      <4>4. RobotAgrees'
        BY <1>0, <3>1, <3>2, <3>9, <4>3 DEF RobotAgrees
      <4> QED BY <1>6, <3>1, <3>2, <3>3, <4>2, <4>4
    <3>10. CASE /\ ethFile' = [ethFile EXCEPT !.pos = spc + 1]
                /\ rbBuf' = [b |-> <<f, spc + 1>>, s |-> BlockSize(f, spc + 1)]
                /\ EthFeed(Packet(spc + 1, <<f, spc + 1>>, BlockSize(f, spc + 1)))
      <4>1. <<f, spc + 1>> \in Block /\ BlockSize(f, spc + 1) \in 1..2
        BY <1>1 DEF Block, BlockSize
      <4>2. ~ReadFailed'
        BY <3>10, <4>1 DEF ReadFailed
      <4>3. \A j \in PacketKinds :
              [k |-> j, n |-> spc + 1, b |-> <<f, spc + 1>>, s |-> BlockSize(f, spc + 1)]
                \in PacketsSent'
        <5> TAKE j \in PacketKinds
        <5> DEFINE u == [k |-> j, n |-> spc + 1, b |-> <<f, spc + 1>>,
                         s |-> BlockSize(f, spc + 1)]
        <5>1. u \in Units
          BY <1>1, <4>1 DEF PacketKinds, Kinds, Units
        <5>2. /\ u.n <= spc' /\ u.s = BlockSize(currentFileName', u.n)
              /\ u.b = <<currentFileName', u.n>>
          BY <1>0, <1>1, <3>2
        <5> HIDE DEF u
        <5>3. u \in PacketsSent'
          BY <4>2, <5>1, <5>2, PacketIsSent
        <5> QED BY <5>3 DEF u
      <4>4. Packet(spc + 1, <<f, spc + 1>>, BlockSize(f, spc + 1)) \in Seq(PacketsSent')
        BY <4>3, PacketSeq
      <4>5. out' \in Seq(PacketsSent')
        BY <1>1, <3>4, <3>10, <4>4, EthFeedSeq
      <4>6. ethFile'.name = f /\ ethFile'.pos = spc'
        BY <3>1, <3>2, <3>10 DEF TypeInv, RobotType
      <4>7. RobotAgrees'
        BY <1>0, <3>2, <3>10, <4>2, <4>6 DEF RobotAgrees, BufferHolds, BlockOrLog
      <4> QED BY <1>6, <3>1, <3>2, <3>3, <4>5, <4>7
    <3>11. \/ /\ ethFile' = [ethFile EXCEPT !.pos = spc + 1]
              /\ rbBuf' = [b |-> <<f, spc + 1>>, s |-> BlockSize(f, spc + 1)]
              /\ EthFeed(Packet(spc + 1, <<f, spc + 1>>, BlockSize(f, spc + 1)))
           \/ /\ ethFile' = ethFile
              /\ rbBuf' = [rbBuf EXCEPT !.s = -1]
              /\ EthFeed(Junk)
      <4>1. PleaseSendNext(r.n) /\ r.n \in Nat /\ spc \in Nat /\ spc <= r.n
        BY <1>1, <1>9, <2>1, <2>3
      <4>2. /\ ethFile.name = f /\ ethFile.pos = spc /\ Blocks[f] \in Nat
            /\ spc < Blocks[f]
        BY <1>1, <3>1
      <4> HIDE DEF f, r
      <4> QED BY ONLY <4>1, <4>2, SendNextCases
    <3> QED BY <3>9, <3>10, <3>11
  <2> QED BY <1>1, <2>1, <2>2, <2>3
<1>10. ASSUME infoHandler, PleaseRepeat PROVE Agree
  <2>1. UNCHANGED <<spc, rbBuf>>
    BY <1>10 DEF PleaseRepeat
  <2>2. CASE SendFileViaEthComplete
    BY <1>7, <2>1, <2>2
  <2>3. ASSUME NEW b \in {rbBuf.b} \cup (IF lfWriting THEN {LogBytes} ELSE {}),
               EthFeed(IF rbBuf.s < 0 THEN Junk ELSE Packet(spc, b, rbBuf.s)),
               UNCHANGED <<infoHandler, ethFile>>
        PROVE  Agree
    <3>1. b \in Block /\ rbBuf.s \in -1..2
      BY DEF LogBytes, Block, TypeInv, RobotType
    <3>2. PacketsSent \subseteq PacketsSent' /\ ReadFailed' = ReadFailed
      BY <1>0, <1>1, <2>1, PacketsMono DEF ReadFailed
    <3>3. out \in Seq(PacketsSent')
      BY <1>2, <3>2, SeqMono
    <3>4. RobotAgrees'
      BY <1>0, <1>2, <2>1, <2>3 DEF RobotAgrees, ReadFailed, BufferHolds, BlockOrLog
    <3>5. CASE rbBuf.s < 0
      <4>1. Unit("junk") \in PacketsSent'
        BY PlainUnit DEF Kinds, PacketKinds, PacketsSent
      <4>2. out' \in Seq(PacketsSent')
        BY <1>1, <2>3, <3>3, <3>5, <4>1, JunkSeq, EthFeedSeq
      <4> QED BY <1>2, <1>6, <2>1, <3>2, <3>4, <4>2
    <3>6. CASE ~(rbBuf.s < 0)
      <4>1. ~ReadFailed /\ BufferHolds
        BY <1>2, <1>10, <3>6 DEF ReadFailed, RobotAgrees
      <4>2. spc > 0 => rbBuf.s = BlockSize(f, spc) /\ BlockOrLog(b, spc)
        BY <1>2, <1>10, <4>1 DEF BufferHolds, BlockOrLog
      <4>3. \A j \in PacketKinds :
              [k |-> j, n |-> spc, b |-> b, s |-> rbBuf.s] \in PacketsSent'
        <5> TAKE j \in PacketKinds
        <5> DEFINE u == [k |-> j, n |-> spc, b |-> b, s |-> rbBuf.s]
        <5>1. u \in Units
          BY <1>1, <3>1, <3>6 DEF PacketKinds, Kinds, Units
        <5>2. /\ u.n <= spc' /\ ~ReadFailed'
              /\ u.n > 0 => u.s = BlockSize(currentFileName', u.n)
              /\ u.n > 0 => \/ u.b = <<currentFileName', u.n>>
                            \/ currentFileName' \in logged' /\ u.b = LogBytes
          BY <1>0, <1>1, <2>1, <3>2, <4>1, <4>2 DEF BlockOrLog
        <5> HIDE DEF u
        <5>3. u \in PacketsSent'
          BY <5>1, <5>2, PacketIsSent
        <5> QED BY <5>3 DEF u
      <4>4. Packet(spc, b, rbBuf.s) \in Seq(PacketsSent')
        BY <4>3, PacketSeq
      <4>5. out' \in Seq(PacketsSent')
        BY <1>1, <2>3, <3>3, <3>6, <4>4, EthFeedSeq
      <4> QED BY <1>2, <1>6, <2>1, <3>2, <3>4, <4>5
    <3> QED BY <3>5, <3>6
  <2> QED BY <1>10, <2>2, <2>3 DEF PleaseRepeat
<1>11. Agree
  BY <1>4, <1>7, <1>8, <1>9, <1>10
<1> QED BY <1>0, <1>2, <1>5, <1>11 DEF ReceiveInv


\* The counter of bytes reaches the size of the file with the last block and
\* not before.
LEMMA SizeReached ==
  ASSUME NEW f \in Files, NEW p \in Nat, p > 0, p <= Blocks[f]
  PROVE  /\ BlockSize(f, p) \in 1..2
         /\ p < Blocks[f] => BlockSize(f, p) = 2
         /\ 2 * (p - 1) + BlockSize(f, p) >= SizeOf(f) <=> p = Blocks[f]
<1>1. Blocks[f] \in Nat /\ Blocks[f] # 0
  BY SizeNat
<1>2. BlockSize(f, p) \in 1..2 /\ (p < Blocks[f] => BlockSize(f, p) = 2)
  BY <1>1 DEF BlockSize
<1>3. BlockSize(f, Blocks[f]) \in 1..2
  BY DEF BlockSize
<1>4. SizeOf(f) = 2 * (Blocks[f] - 1) + BlockSize(f, Blocks[f])
  BY <1>1 DEF SizeOf
<1>5. CASE p = Blocks[f]
  BY <1>1, <1>2, <1>3, <1>4, <1>5
<1>6. CASE p < Blocks[f]
  BY <1>1, <1>2, <1>3, <1>4, <1>6
<1> QED BY <1>1, <1>5, <1>6

\* A good packet is one received before, or the next block of the file; the
\* last block ends the transfer.
LEMMA GoodPacket ==
  ASSUME TypeInv, TransferInv, reading = 2,
         NEW p \in PacketsSent, p.k \in {"head", "short"}, AcceptPacket(p)
  PROVE  \/ UNCHANGED <<reading, bytes, packetsCounter, copy, finished, toServer>>
         \/ /\ packetsCounter = spc /\ ~ReadFailed
            /\ BlockOrLog(p.b, packetsCounter)
            /\ p.b \in Block /\ bytes' = bytes + p.s
            /\ packetsCounter < Blocks[currentFileName] => p.s = 2
            /\ copy' = [copy EXCEPT ![currentFileName] = Append(@, p.b)]
            /\ IF packetsCounter = Blocks[currentFileName]
               THEN /\ reading' = 0
                    /\ finished' = finished \cup {currentFileName}
               ELSE /\ packetsCounter' = packetsCounter + 1
                    /\ Send(<<Request("TBWF", packetsCounter)>>)
                    /\ UNCHANGED <<reading, finished>>
<1> DEFINE f == currentFileName
<1>0. /\ f \in Files /\ Blocks[f] \in Nat /\ packetsCounter \in Nat /\ spc \in Nat
      /\ packetsCounter > 0 /\ packetsCounter <= Blocks[f]
      /\ packetsCounter = spc \/ packetsCounter = spc + 1
      /\ fileSize = SizeOf(f)
      /\ bytes = 2 * (packetsCounter - 1)
  BY SizeNat DEF TypeInv, ConsoleType, RobotType, TransferInv, ReceiveInv
<1>1. /\ p.n \in Nat /\ p.n <= spc /\ (ReadFailed => p.n < spc)
      /\ p.n > 0 => p.s = BlockSize(f, p.n) /\ BlockOrLog(p.b, p.n)
      /\ p.b \in Block
  BY DEF PacketsSent, PacketKinds, Units
<1>2. ~(packetsCounter < p.n)
  BY <1>0, <1>1
<1>3. CASE p.n < packetsCounter
  <2>1. ~(p.n >= packetsCounter)
    BY <1>0, <1>1, <1>3
  <2> QED BY <1>2, <2>1 DEF AcceptPacket
<1>4. CASE p.n >= packetsCounter
  <2>1. p.n = packetsCounter /\ packetsCounter = spc /\ ~ReadFailed
    BY <1>0, <1>1, <1>4
  <2>2. /\ copy' = [copy EXCEPT ![f] = Append(@, p.b)]
        /\ bytes' = bytes + p.s
        /\ IF bytes + p.s >= fileSize
           THEN /\ reading' = 0
                /\ finished' = finished \cup {f}
           ELSE /\ packetsCounter' = packetsCounter + 1
                /\ Send(<<Request("TBWF", packetsCounter)>>)
                /\ UNCHANGED <<reading, finished>>
    <3>1. ~(p.n < packetsCounter)
      BY <1>0, <1>1, <1>4
    <3> QED BY <1>2, <3>1 DEF AcceptPacket
  <2>3. /\ packetsCounter < Blocks[f] => p.s = 2
        /\ bytes + p.s >= fileSize <=> packetsCounter = Blocks[f]
    BY <1>0, <1>1, <2>1, SizeReached
  <2>4. BlockOrLog(p.b, packetsCounter)
    BY <1>0, <1>1, <2>1
  <2> QED BY <1>1, <2>1, <2>2, <2>3, <2>4
<1> QED BY <1>0, <1>1, <1>3, <1>4


\* A read of the console that receives: a packet is accepted only when it is
\* the next one, and the last one ends the transfer.
LEMMA PacketRead ==
  ASSUME TypeInv, TransferInv, Process, reading = 2
  PROVE  ReceiveInv' /\ CopyIsPrefix' /\ FinishedIsWhole'
<1> DEFINE f == currentFileName
<1>0. /\ f \in Files /\ Blocks[f] \in Nat /\ packetsCounter \in Nat /\ spc \in Nat
      /\ CopyIsPrefix /\ FinishedIsWhole /\ copy \in [Files -> Seq(Block)]
      /\ finished \subseteq Files
  BY SizeNat DEF TypeInv, ConsoleType, RobotType, TransferInv
<1>1. /\ packetsCounter > 0 /\ packetsCounter <= Blocks[f]
      /\ packetsCounter = spc \/ packetsCounter = spc + 1
      /\ fileSize = SizeOf(f)
      /\ bytes = 2 * (packetsCounter - 1)
      /\ Len(copy[f]) = packetsCounter - 1
      /\ RobotAgrees
      /\ out \in Seq(PacketsSent)
      /\ toClient \in Seq(PacketsSent)
      /\ toServer \in Seq(RequestsSent)
  BY DEF TransferInv, ReceiveInv
<1>2. /\ toClient' \in Seq(PacketsSent)
      /\ UNCHANGED <<robotVars, tcp, currentFileName>>
      /\ \E c \in Seq(PacketsSent) :
           /\ c[1] \in PacketsSent
           /\ \/ UNCHANGED <<reading, fileSize, bytes, packetsCounter, copy, finished, toServer>>
              \/ /\ UNCHANGED fileSize
                 /\ c[1].k \in {"head", "short"} /\ AcceptPacket(c[1])
              \/ UNCHANGED fileSize /\ \E eot : RejectPacket(eot)
  <2>1. /\ toClient' \in Seq(PacketsSent)
        /\ UNCHANGED <<robotVars, tcp, currentFileName>>
        /\ \E c \in Seq(PacketsSent) :
             /\ \A j \in 1..Len(c) : c[j] \in PacketsSent
             /\ c[1] \in PacketsSent
             /\ \/ UNCHANGED <<reading, fileSize, bytes, packetsCounter, copy, finished,
                               toServer>>
                \/ reading = 1 /\ (WaitForAck(c) \/ FopenFails(c))
                \/ /\ reading = 2 /\ UNCHANGED fileSize
                   /\ c[1].k \in {"head", "short"} /\ AcceptPacket(c[1])
                \/ /\ reading = 2 /\ UNCHANGED fileSize
                   /\ \E eot : RejectPacket(eot)
    BY <1>1, ProcessStep
  <2>2. reading # 1
    OBVIOUS
  <2> QED BY <2>1, <2>2, Zenon
<1>3. UNCHANGED <<infoHandler, ethFile, spc, rbBuf, out, currentFileName, logged>>
  <2>1. logged' = logged
    BY Zenon DEF Process
  <2> QED BY <1>2, <2>1 DEF robotVars
<1>10. ReadFailed' = ReadFailed /\ BufferHolds' = BufferHolds
  BY <1>3 DEF ReadFailed, BufferHolds, BlockOrLog
<1>4. out' \in Seq(PacketsSent') /\ toClient' \in Seq(PacketsSent')
  <2>1. PacketsSent \subseteq PacketsSent'
    BY <1>0, <1>3, <1>10, PacketsMono
  <2> QED BY <1>1, <1>2, <1>3, <2>1, SeqMono
<1>5. PICK c \in Seq(PacketsSent) :
        /\ c[1] \in PacketsSent
        /\ \/ UNCHANGED <<reading, fileSize, bytes, packetsCounter, copy, finished, toServer>>
           \/ /\ UNCHANGED fileSize
              /\ c[1].k \in {"head", "short"} /\ AcceptPacket(c[1])
           \/ UNCHANGED fileSize /\ \E eot : RejectPacket(eot)
  BY <1>2
<1>6. ASSUME UNCHANGED <<fileSize, bytes, packetsCounter, copy, finished>>, reading' \in {0, 2},
             toServer' \in Seq(RequestsSent)
      PROVE  ReceiveInv' /\ CopyIsPrefix' /\ FinishedIsWhole'
  <2>1. CopyIsPrefix' /\ FinishedIsWhole'
    BY <1>0, <1>3, <1>6, DiskKept
  <2>2. RequestsSent' = RequestsSent
    BY <1>6 DEF RequestsSent
  <2>3. RobotAgrees'
    BY <1>1, <1>3, <1>6, <1>10 DEF RobotAgrees
  <2>4. ReceiveInv'
    BY <1>1, <1>3, <1>4, <1>6, <2>2, <2>3 DEF ReceiveInv
  <2> QED BY <2>1, <2>4
<1>7. CASE UNCHANGED <<reading, fileSize, bytes, packetsCounter, copy, finished, toServer>>
  BY <1>1, <1>6, <1>7
<1>8. CASE UNCHANGED fileSize /\ \E eot : RejectPacket(eot)
  <2>1. Request("TBWN", packetsCounter) \in RequestsSent
    BY <1>0, RequestTypes DEF RequestsSent, Request
  <2>2. Send(<<Request("TBWN", packetsCounter)>>)
    BY <1>8 DEF RejectPacket
  <2>3. toServer' \in Seq(RequestsSent)
    BY <1>1, <2>1, <2>2, OneSeq, RequestSeq
  <2> QED BY <1>6, <1>8, <2>3 DEF RejectPacket
<1>9. CASE /\ UNCHANGED fileSize
           /\ c[1].k \in {"head", "short"} /\ AcceptPacket(c[1])
  <2> DEFINE p == c[1]
  <2>1. \/ UNCHANGED <<reading, bytes, packetsCounter, copy, finished, toServer>>
        \/ /\ packetsCounter = spc /\ ~ReadFailed
           /\ BlockOrLog(p.b, packetsCounter)
           /\ p.b \in Block /\ bytes' = bytes + p.s
           /\ packetsCounter < Blocks[f] => p.s = 2
           /\ copy' = [copy EXCEPT ![f] = Append(@, p.b)]
           /\ IF packetsCounter = Blocks[f]
              THEN /\ reading' = 0
                   /\ finished' = finished \cup {f}
              ELSE /\ packetsCounter' = packetsCounter + 1
                   /\ Send(<<Request("TBWF", packetsCounter)>>)
                   /\ UNCHANGED <<reading, finished>>
    BY <1>5, <1>9, GoodPacket
  <2>2. CASE UNCHANGED <<reading, bytes, packetsCounter, copy, finished, toServer>>
    BY <1>1, <1>6, <1>9, <2>2
  <2>3. CASE /\ packetsCounter = spc /\ ~ReadFailed
             /\ BlockOrLog(p.b, packetsCounter)
             /\ p.b \in Block /\ bytes' = bytes + p.s
             /\ packetsCounter < Blocks[f] => p.s = 2
             /\ copy' = [copy EXCEPT ![f] = Append(@, p.b)]
             /\ IF packetsCounter = Blocks[f]
                THEN /\ reading' = 0
                     /\ finished' = finished \cup {f}
                ELSE /\ packetsCounter' = packetsCounter + 1
                     /\ Send(<<Request("TBWF", packetsCounter)>>)
                     /\ UNCHANGED <<reading, finished>>
    <3>1. /\ \A g \in Files : g # f => copy'[g] = copy[g]
          /\ copy'[f] = Append(copy[f], p.b)
      BY <1>0, <2>3
    <3>2. /\ Len(copy'[f]) = packetsCounter
          /\ \A i \in 1..packetsCounter - 1 : copy'[f][i] = copy[f][i]
          /\ copy'[f][packetsCounter] = p.b
      <4>1. /\ Len(Append(copy[f], p.b)) = Len(copy[f]) + 1
            /\ \A i \in 1..Len(copy[f]) : Append(copy[f], p.b)[i] = copy[f][i]
            /\ Append(copy[f], p.b)[Len(copy[f]) + 1] = p.b
        BY <1>0, <2>3, AppendProperties
      <4>2. Len(copy[f]) + 1 = packetsCounter
        BY <1>0, <1>1
      <4> QED BY <1>1, <3>1, <4>1, <4>2
    <3>3. CopyIsPrefix'
      <4> SUFFICES ASSUME NEW g \in Files
                   PROVE  /\ Len(copy'[g]) <= Blocks[g]
                          /\ \A i \in 1..Len(copy'[g]) :
                               copy'[g][i] = <<g, i>> \/ (g \in logged' /\ copy'[g][i] = LogBytes)
        BY DEF CopyIsPrefix
      <4>1. CASE g # f
        BY <1>0, <1>3, <3>1, <4>1 DEF CopyIsPrefix
      <4>2. CASE g = f
        <5>1. Len(copy'[g]) <= Blocks[g]
          BY <1>1, <3>2, <4>2
        <5>2. ASSUME NEW i \in 1..Len(copy'[g])
              PROVE  copy'[g][i] = <<g, i>> \/ (g \in logged' /\ copy'[g][i] = LogBytes)
          <6>1. CASE i = packetsCounter
            BY <1>1, <1>3, <2>3, <3>2, <4>2, <6>1 DEF BlockOrLog
          <6>2. CASE i # packetsCounter
            <7>1. i \in 1..packetsCounter - 1 /\ i \in 1..Len(copy[f])
              <8>1. i \in 1..packetsCounter
                BY <3>2, <4>2
              <8>2. Len(copy[f]) = packetsCounter - 1
                BY <1>1
              <8> HIDE DEF p, f
              <8> QED BY <1>0, <6>2, <8>1, <8>2
            <7> QED BY <1>0, <1>3, <3>2, <4>2, <7>1 DEF CopyIsPrefix
          <6> QED BY <6>1, <6>2
        <5> QED BY <5>1, <5>2
      <4> QED BY <4>1, <4>2
    <3>4. CASE packetsCounter = Blocks[f]
      <4>1. reading' = 0 /\ finished' = finished \cup {f}
        BY <2>3, <3>4
      <4>2. FinishedIsWhole'
        BY <1>0, <3>1, <3>2, <3>4, <4>1 DEF FinishedIsWhole
      <4> QED BY <3>3, <4>1, <4>2 DEF ReceiveInv
    <3>5. CASE packetsCounter # Blocks[f]
      <4>1. /\ packetsCounter' = packetsCounter + 1 /\ reading' = 2 /\ finished' = finished
            /\ Send(<<Request("TBWF", packetsCounter)>>)
        BY <2>3, <3>5
      <4>2. packetsCounter < Blocks[f] /\ p.s = 2
        <5>1. packetsCounter < Blocks[f]
          BY <1>0, <1>1, <3>5
        <5> QED BY <2>3, <5>1
      <4>3. toServer' \in Seq(RequestsSent')
        <5>1. Request("TBWF", packetsCounter) \in RequestsSent'
          BY <1>0, <4>1, RequestTypes, RequestFields DEF RequestsSent
        <5>2. RequestsSent \subseteq RequestsSent'
          BY <1>0, <4>1 DEF RequestsSent, Requests
        <5>3. toServer \in Seq(RequestsSent')
          BY <1>1, <5>2, SeqMono
        <5> QED BY <4>1, <5>1, <5>3, OneSeq, RequestSeq
      <4>4. FinishedIsWhole'
        <5>1. f \notin finished
          BY <1>0, <1>1, <4>2 DEF FinishedIsWhole
        <5> QED BY <1>0, <3>1, <4>1, <5>1 DEF FinishedIsWhole
      <4>5. bytes' = 2 * (packetsCounter' - 1)
        <5>1. bytes' = bytes + 2 /\ bytes = 2 * (packetsCounter - 1)
          BY <1>1, <2>3, <4>2
        <5> HIDE DEF p
        <5> QED BY <1>0, <4>1, <5>1
      <4>6. ReceiveInv'
        <5>1. /\ packetsCounter' > 0 /\ packetsCounter' <= Blocks[f]
              /\ packetsCounter' = spc' + 1
              /\ Len(copy'[f]) = packetsCounter' - 1
          BY <1>0, <1>3, <2>3, <3>2, <4>1, <4>2
        <5>2. fileSize' = SizeOf(f)
          BY <1>1, <1>9
        <5>3. RobotAgrees'
          BY <1>1, <1>3, <1>10, <2>3 DEF RobotAgrees
        <5> QED BY <1>3, <1>4, <4>3, <4>5, <5>1, <5>2, <5>3 DEF ReceiveInv
      <4> QED BY <3>3, <4>4, <4>6
    <3> QED BY <3>4, <3>5
  <2> QED BY <2>1, <2>2, <2>3
<1> QED BY <1>5, <1>7, <1>8, <1>9


\* One read of a console that does not receive: it takes the chunk and no more.
LEMMA ChunkRead ==
  ASSUME Process, reading # 2, toClient \in Seq(Units)
  PROVE  \E k \in 1..Len(toClient) :
           /\ toClient' = Drop(toClient, k)
           /\ \/ UNCHANGED <<reading, fileSize, bytes, packetsCounter, copy, finished, toServer>>
              \/ /\ reading = 1
                 /\ \/ WaitForAck(SubSeq(toClient, 1, k))
                    \/ FopenFails(SubSeq(toClient, 1, k))
  BY Zenon DEF Process

\* The console has asked: every request is for the file it waits for.
LEMMA AskDoWrite ==
  ASSUME TypeInv, SessionInv, AskInv, OneAtATime, DoWrite PROVE AskInv'
<1>1. /\ connected /\ UNCHANGED <<tcp, toClient, out, infoHandler, ethFile, spc>>
      /\ reading' = 1
  BY DEF DoWrite, robotVars
<1>2. PICK f \in Files : currentFileName' = f /\ Send(<<Get(f)>>)
  BY DEF DoWrite
<1>3. /\ toServer \in Seq(Asked) /\ toServer \in Seq(Requests) /\ LateIsIgnored
      /\ out \in Seq(Answers) /\ AckLast(out)
      /\ toClient \in Seq(Answers) /\ AckLast(toClient)
      /\ HasAck(toClient) => out = <<>>
  BY <1>1 DEF SessionInv, AskInv, TypeInv, StreamType
<1>4. /\ Get(f) \in Requests /\ Get(f).k = "get" /\ Get(f).f = f
  BY RequestTypes DEF Get
<1>5. Get(f) \in Asked'
  BY <1>2, <1>4 DEF Asked
<1>6. LateIsIgnored'
  BY <1>1, <1>2, <1>3, <1>4, LateTyped
<1>7. CASE Patient
  <2>1. toServer = <<>> /\ out = <<>> /\ toClient = <<>>
    BY <1>7 DEF DoWrite
  <2>2. toServer' = <<Get(f)>>
    BY <1>2, <2>1 DEF Send
  <2>3. toServer' \in Seq(Asked')
    BY <1>5, <2>2, OneSeq
  <2>4. <<>> \in Seq(Answers')
    OBVIOUS
  <2> QED BY <1>1, <1>3, <1>6, <2>1, <2>3, <2>4 DEF AskInv
<1>8. CASE \E g \in Files : Files = {g}
  <2>1. Files = {f}
    BY <1>8
  <2>2. Requests \subseteq Asked'
    BY <1>2, <2>1 DEF Asked, Requests
  <2>3. toServer' \in Seq(Asked')
    <3>1. toServer \in Seq(Asked')
      BY <1>3, <2>2, SeqMono
    <3>2. <<Get(f)>> \in Seq(Asked')
      BY <1>5, OneSeq
    <3> QED BY <1>2, <3>1, <3>2, ConcatProperties DEF Send
  <2>4. ASSUME Opened PROVE Opened' /\ currentFileName' = currentFileName
    <3>1. currentFileName = f
      <4>1. currentFileName \in Files
        BY <2>4 DEF Opened
      <4> QED BY <2>1, <4>1
    <3>2. \A i \in 1..Len(toServer') : toServer'[i].k \notin Asking
      <4>1. /\ Len(toServer) \in Nat /\ Len(toServer') = Len(toServer) + Len(<<Get(f)>>)
            /\ Len(<<Get(f)>>) = 1 /\ <<Get(f)>>[1] = Get(f)
            /\ \A i \in 1..Len(toServer') :
                 toServer'[i] = IF i <= Len(toServer) THEN toServer[i]
                                                      ELSE <<Get(f)>>[i - Len(toServer)]
        <5>1. <<Get(f)>> \in Seq(Requests)
          BY <1>4, OneSeq
        <5> QED BY <1>2, <1>3, <5>1, ConcatProperties, LenProperties DEF Send
      <4>2. ASSUME NEW i \in 1..Len(toServer') PROVE toServer'[i].k \notin Asking
        <5>1. CASE i <= Len(toServer)
          <6>1. i \in 1..Len(toServer) /\ toServer'[i] = toServer[i]
            BY <4>1, <5>1
          <6> QED BY <2>4, <6>1 DEF Opened
        <5>2. CASE ~(i <= Len(toServer))
          <6>1. i - Len(toServer) = 1
            BY <4>1, <5>2
          <6>2. toServer'[i] = Get(f)
            BY <4>1, <5>2, <6>1
          <6> QED BY <1>4, <6>2 DEF Asking
        <5> QED BY <5>1, <5>2
      <4> QED BY <4>2
    <3> QED BY <1>1, <1>2, <2>4, <3>1, <3>2 DEF Opened
  <2>5. Answers \subseteq Answers'
    BY <2>4 DEF Answers
  <2>6. out' \in Seq(Answers') /\ toClient' \in Seq(Answers')
    BY <1>1, <1>3, <2>5, SeqMono
  <2> QED BY <1>1, <1>3, <1>6, <2>3, <2>6 DEF AskInv
<1> QED BY <1>7, <1>8 DEF OneAtATime

\* A new connection is empty, and nobody reads what is left of a lost one.
LEMMA AskConnection ==
  ASSUME TypeInv, SessionInv, StartClient \/ Lose PROVE AskInv'
<1>1. CASE Lose
  BY <1>1 DEF Lose, AskInv
<1>2. CASE StartClient
  <2>1. toServer' = <<Request("console", 0)>> /\ toClient' = <<>> /\ reading' = 0
    BY <1>2 DEF StartClient
  <2>2. out' = <<>>
    <3>1. tcp = "none" /\ out' = out
      BY <1>2 DEF StartClient, robotVars
    <3>2. phase # "read"
      BY <3>1 DEF SessionInv
    <3> QED BY <3>1, <3>2 DEF SessionInv, TypeInv, RobotType
  <2>3. toServer' \in Seq(Asked')
    <3>1. Request("console", 0) \in Asked'
      BY RequestTypes, RequestFields DEF Asked
    <3> QED BY <2>1, <3>1, OneSeq
  <2>4. LateIsIgnored'
    <3>1. Len(toServer') = 1 /\ toServer'[1].k = "console"
      BY <2>1, RequestFields
    <3> QED BY <3>1 DEF LateIsIgnored, Late
  <2>5. <<>> \in Seq(Answers') /\ AckLast(<<>>) /\ ~HasAck(<<>>)
    BY DEF AckLast, HasAck
  <2> QED BY <2>1, <2>2, <2>3, <2>4, <2>5 DEF AskInv
<1> QED BY <1>1, <1>2

\* A chunk taken by a console that goes on waiting, or idle, or gives up.
LEMMA AskTaken ==
  ASSUME TypeInv, AskInv, tcp \in {"pending", "up"}, UNCHANGED <<robotVars, tcp, currentFileName>>,
         UNCHANGED toServer, reading # 2, reading' # 2,
         NEW k \in 1..Len(toClient), toClient' = Drop(toClient, k)
  PROVE  AskInv'
<1>1. /\ toServer \in Seq(Asked) /\ LateIsIgnored
      /\ out \in Seq(Answers) /\ AckLast(out)
      /\ toClient \in Seq(Answers) /\ AckLast(toClient)
      /\ HasAck(toClient) => out = <<>>
      /\ toClient \in Seq(Units)
  BY DEF AskInv, TypeInv, StreamType
<1>2. UNCHANGED <<infoHandler, ethFile, spc, out>>
  BY DEF robotVars
<1>3. Asked' = Asked /\ Answers' = Answers
  BY <1>2 DEF Asked, Answers, Opened
<1>4. LateIsIgnored'
  BY <1>1, <1>2 DEF LateIsIgnored, Late
<1>5. Len(toClient) \in Nat /\ k \in 0..Len(toClient)
  <2>1. Len(toClient) \in Nat
    BY <1>1, LenProperties
  <2> QED BY <2>1
<1>6. toClient' \in Seq(Answers) /\ AckLast(toClient')
  BY <1>1, <1>5, DropSeq, AckLastDrop
<1>7. HasAck(toClient') => HasAck(toClient)
  <2>1. /\ Len(toClient') = Len(toClient) - k
        /\ \A i \in 1..Len(toClient) - k :
             toClient'[i] = toClient[k + i] /\ k + i \in 1..Len(toClient)
    BY <1>1, <1>5, DropParts
  <2> QED BY <2>1 DEF HasAck
<1> QED BY <1>1, <1>2, <1>3, <1>4, <1>6, <1>7 DEF AskInv

\* A read of the console that waits: the answer opens a transfer at its first
\* packet, with nothing but pings behind it and no request in front of it.
LEMMA AnswerRead ==
  ASSUME TypeInv, TransferInv, Process, reading = 1
  PROVE  AskInv' /\ ReceiveInv' /\ CopyIsPrefix' /\ FinishedIsWhole'
<1> DEFINE f == currentFileName
<1>0. /\ f \in Files /\ CopyIsPrefix /\ FinishedIsWhole /\ copy \in [Files -> Seq(Block)]
      /\ tcp \in {"pending", "up"}
  BY DEF TypeInv, ConsoleType, TransferInv, Process
<1>1. /\ toServer \in Seq(Asked) /\ LateIsIgnored
      /\ out \in Seq(Answers) /\ AckLast(out)
      /\ toClient \in Seq(Answers) /\ AckLast(toClient)
      /\ HasAck(toClient) => out = <<>>
      /\ toClient \in Seq(Units) /\ toServer \in Seq(Requests)
  BY <1>0 DEF TransferInv, AskInv, TypeInv, StreamType
<1>2. UNCHANGED <<robotVars, tcp, currentFileName>>
  BY DEF Process
<1>3. UNCHANGED <<infoHandler, ethFile, spc, rbBuf, out, logged>>
  <2>1. logged' = logged
    BY Zenon DEF Process
  <2> QED BY <1>2, <2>1 DEF robotVars
<1>4. PICK k \in 1..Len(toClient) :
        /\ toClient' = Drop(toClient, k)
        /\ \/ UNCHANGED <<reading, fileSize, bytes, packetsCounter, copy, finished, toServer>>
           \/ WaitForAck(SubSeq(toClient, 1, k))
           \/ FopenFails(SubSeq(toClient, 1, k))
  BY <1>1, ChunkRead
<1> DEFINE c == SubSeq(toClient, 1, k)
<1>5. CASE reading' \in {0, 1} /\ UNCHANGED <<copy, finished, toServer>>
  <2>1. CopyIsPrefix' /\ FinishedIsWhole'
    BY <1>0, <1>3, <1>5, DiskKept
  <2>2. AskInv'
    BY <1>0, <1>2, <1>4, <1>5, AskTaken DEF TransferInv
  <2> QED BY <1>5, <2>1, <2>2 DEF ReceiveInv
<1>6. CASE AnswerSeen(c, "ack") /\ WaitForAck(c)
  <2>1. /\ Len(c) = k /\ k \in Nat /\ Len(toClient) \in Nat
        /\ \A j \in 1..k : c[j] = toClient[j] /\ toClient[j] \in Answers
    BY <1>1, PrefixSeq, LenProperties
  <2>2. PICK i \in 1..k : /\ i = FirstAck(c) /\ c[i].k = "ack"
                          /\ c[i] = toClient[i] /\ c[i] \in Answers
    BY <1>6, <2>1, AckFound
  <2>3. /\ Opened /\ c[i].n = SizeOf(f) /\ SizeOf(f) > 0
    BY <2>2 DEF Answers
  <2>4. out = <<>> /\ i \in 1..Len(toClient)
    BY <1>1, <2>1, <2>2 DEF HasAck
  <2>5. /\ infoHandler /\ spc = 0 /\ ethFile = [name |-> f, pos |-> 0]
        /\ Blocks[f] \in Nat /\ Blocks[f] > 0
    BY <1>0, <2>3, SizeNat DEF Opened, SizeOf
  <2>6. /\ reading' = 2 /\ fileSize' = SizeOf(f) /\ bytes' = 0 /\ packetsCounter' = 1
        /\ copy' = [copy EXCEPT ![f] = <<>>] /\ finished' = finished \ {f}
        /\ Send(<<Request("TBWF", 0)>>)
    BY <1>6, <2>2, <2>3 DEF WaitForAck
  <2> DEFINE After == {u \in Units : u.k \in {"tee", "ping"}}
  <2>7. toClient' \in Seq(After)
    <3>1. /\ Len(toClient') = Len(toClient) - k
          /\ \A j \in 1..Len(toClient) - k :
               toClient'[j] = toClient[k + j] /\ k + j \in 1..Len(toClient)
      <4>1. k \in 0..Len(toClient)
        BY <2>1
      <4> QED BY <1>1, <1>4, <4>1, DropParts
    <3>2. toClient' \in Seq(Units)
      <4>1. k \in 0..Len(toClient)
        BY <2>1
      <4> QED BY <1>1, <1>4, <4>1, DropSeq
    <3>3. ASSUME NEW j \in 1..Len(toClient') PROVE toClient'[j] \in After
      <4>1. j \in 1..Len(toClient) - k
        BY <3>1
      <4>2. toClient'[j] = toClient[k + j] /\ k + j \in 1..Len(toClient)
        BY <3>1, <4>1
      <4>3. i < k + j
        BY <2>1, <4>1
      <4>4. toClient[k + j].k \in {"tee", "ping"}
        BY <1>1, <2>2, <2>4, <4>2, <4>3 DEF AckLast
      <4>5. toClient'[j] \in Units
        BY <3>2, ElementOfSeq
      <4> QED BY <4>2, <4>4, <4>5
    <3>4. Len(toClient') \in Nat /\ toClient' \in [1..Len(toClient') -> Units]
      BY <3>2, LenProperties
    <3>5. toClient' \in [1..Len(toClient') -> After]
      BY <3>3, <3>4
    <3> QED BY <3>4, <3>5, IsASeq
  <2>8. /\ After \subseteq Plain /\ After \subseteq PacketsSent'
    BY DEF Plain, PacketsSent, PacketKinds
  <2>9. toServer' \in Seq(RequestsSent')
    <3>1. toServer \in Seq(RequestsSent')
      <4>1. Len(toServer) \in Nat /\ toServer \in [1..Len(toServer) -> Requests]
        BY <1>1, LenProperties
      <4>2. toServer \in [1..Len(toServer) -> RequestsSent']
        BY <2>3, <4>1 DEF Opened, Asking, RequestsSent
      <4> QED BY <4>1, <4>2, IsASeq
    <3>2. Request("TBWF", 0) \in RequestsSent'
      BY <2>6, RequestTypes, RequestFields DEF RequestsSent
    <3>3. <<Request("TBWF", 0)>> \in Seq(RequestsSent')
      BY <3>2, OneSeq
    <3> QED BY <2>6, <3>1, <3>3, ConcatProperties DEF Send
  <2>10. out' \in Seq(PacketsSent') /\ toClient' \in Seq(PacketsSent')
    <3>1. <<>> \in Seq(PacketsSent')
      OBVIOUS
    <3>2. toClient' \in Seq(PacketsSent')
      BY <2>7, <2>8, SeqMono
    <3> QED BY <1>3, <2>4, <3>1, <3>2
  <2>11. copy'[f] = <<>> /\ \A g \in Files : g # f => copy'[g] = copy[g]
    BY <1>0, <2>6
  <2>12. FinishedIsWhole'
    BY <1>0, <2>6, <2>11 DEF FinishedIsWhole, TypeInv, ConsoleType
  <2>13. CopyIsPrefix'
    <3> SUFFICES ASSUME NEW g \in Files
                 PROVE  /\ Len(copy'[g]) <= Blocks[g]
                        /\ \A j \in 1..Len(copy'[g]) :
                             copy'[g][j] = <<g, j>> \/ (g \in logged' /\ copy'[g][j] = LogBytes)
      BY DEF CopyIsPrefix
    <3>1. CASE g = f
      BY <2>5, <2>11, <3>1
    <3>2. CASE g # f
      BY <1>0, <1>3, <2>11, <3>2 DEF CopyIsPrefix
    <3> QED BY <3>1, <3>2
  <2>14. ReceiveInv'
    <3>1. RobotAgrees'
      BY <1>2, <1>3, <2>5 DEF RobotAgrees, ReadFailed, BufferHolds
    <3> QED BY <1>2, <1>3, <2>5, <2>6, <2>9, <2>10, <2>11, <3>1 DEF ReceiveInv
  <2>15. AskInv'
    <3>1. toClient' \in Seq(Plain) /\ <<>> \in Seq(Plain)
      BY <2>7, <2>8, SeqMono
    <3>2. toClient' \in Seq(Answers') /\ <<>> \in Seq(Answers')
      BY <3>1, PlainIsAnswer, SeqMono
    <3>3. AckLast(toClient') /\ ~HasAck(toClient') /\ AckLast(<<>>)
      BY <3>1, PlainAckLast
    <3>4. Request("TBWF", 0) \in Requests /\ Request("TBWF", 0).k = "TBWF"
      BY RequestTypes, RequestFields
    <3>5. LateIsIgnored'
      <4>1. <<Request("TBWF", 0)>> \in Seq(Requests)
        BY <3>4, OneSeq
      <4>2. \A j \in 1..Len(<<Request("TBWF", 0)>>) : <<Request("TBWF", 0)>>[j].k # "get"
        BY <3>4
      <4> QED BY <1>1, <1>3, <2>3, <2>6, <4>1, <4>2, LateAsked
    <3>6. toServer' \in Seq(Asked')
      <4>1. Request("TBWF", 0) \in Asked' /\ Asked' = Asked
        BY <1>2, <3>4 DEF Asked
      <4>2. <<Request("TBWF", 0)>> \in Seq(Asked')
        BY <4>1, OneSeq
      <4> QED BY <1>1, <2>6, <4>1, <4>2, ConcatProperties DEF Send
    <3> QED BY <1>3, <2>4, <3>2, <3>3, <3>5, <3>6 DEF AskInv
  <2> QED BY <2>12, <2>13, <2>14, <2>15
<1> QED BY <1>4, <1>5, <1>6 DEF WaitForAck, FopenFails

\* A read of the console that receives: no answer is under way, and what it
\* asks for next the robot hears after every "get".
LEMMA AskWhileReceiving ==
  ASSUME TypeInv, TransferInv, Process, reading = 2 PROVE AskInv'
<1>0. /\ tcp \in {"pending", "up"} /\ UNCHANGED <<robotVars, tcp, currentFileName>>
      /\ packetsCounter \in Nat
  BY DEF Process, TypeInv, ConsoleType
<1>1. /\ toServer \in Seq(Asked) /\ LateIsIgnored
      /\ out \in Seq(Answers) /\ toClient \in Seq(Answers)
      /\ toServer \in Seq(Requests)
  BY <1>0 DEF TransferInv, AskInv, TypeInv, StreamType
<1>2. Answers \subseteq Plain /\ UNCHANGED <<infoHandler, spc, out>> /\ Asked' = Asked
  BY <1>0, PlainIsAnswer DEF Opened, robotVars, Asked
<1>3. out' \in Seq(Plain) /\ toClient \in Seq(Plain)
  BY <1>1, <1>2, SeqMono
<1>4. /\ toClient' \in Seq(Plain)
      /\ \/ UNCHANGED <<reading, toServer>>
         \/ \E p \in Plain : AcceptPacket(p)
         \/ \E eot : RejectPacket(eot)
  <2>1. /\ toClient' \in Seq(Plain)
        /\ \E c \in Seq(Plain) :
             /\ \A j \in 1..Len(c) : c[j] \in Plain
             /\ c[1] \in Plain
             /\ \/ UNCHANGED <<reading, fileSize, bytes, packetsCounter, copy, finished,
                               toServer>>
                \/ reading = 1 /\ (WaitForAck(c) \/ FopenFails(c))
                \/ /\ reading = 2 /\ UNCHANGED fileSize
                   /\ c[1].k \in {"head", "short"} /\ AcceptPacket(c[1])
                \/ /\ reading = 2 /\ UNCHANGED fileSize
                   /\ \E eot : RejectPacket(eot)
    BY <1>3, ProcessStep
  <2>2. reading # 1
    OBVIOUS
  <2> QED BY <2>1, <2>2, Zenon
<1>5. /\ out' \in Seq(Answers') /\ toClient' \in Seq(Answers')
      /\ AckLast(out') /\ AckLast(toClient') /\ ~HasAck(toClient')
  BY <1>3, <1>4, PlainIsAnswer, SeqMono, PlainAckLast
<1> DEFINE S == {r \in Requests : r.k \in Asking}
<1>6. ASSUME NEW q \in Seq(S), Send(q) PROVE LateIsIgnored' /\ toServer' \in Seq(Asked')
  <2>1. S \subseteq Requests /\ S \subseteq Asked'
    BY <1>2 DEF Asked, Asking
  <2>2. q \in Seq(Requests) /\ q \in Seq(Asked')
    BY <2>1, SeqMono
  <2>3. \A i \in 1..Len(q) : q[i].k # "get"
    <3>1. \A i \in 1..Len(q) : q[i] \in S
      BY ElementOfSeq
    <3> QED BY <3>1 DEF Asking
  <2>4. LateIsIgnored'
    BY <1>1, <1>2, <1>6, <2>2, <2>3, LateAsked
  <2>5. toServer' \in Seq(Asked')
    BY <1>1, <1>2, <1>6, <2>2, ConcatProperties DEF Send
  <2> QED BY <2>4, <2>5
<1>7. \A n \in Nat : \A j \in Asking : Request(j, n) \in S
  BY RequestTypes, RequestFields DEF Asking
<1>8. LateIsIgnored' /\ toServer' \in Seq(Asked')
  <2>1. CASE UNCHANGED toServer /\ reading' \in {0, 2}
    BY <1>1, <1>2, <2>1 DEF LateIsIgnored, Late
  <2>2. CASE UNCHANGED <<reading, toServer>>
    BY <2>1, <2>2
  <2>3. CASE \E eot : RejectPacket(eot)
    <3>1. Send(<<Request("TBWN", packetsCounter)>>)
      BY <2>3 DEF RejectPacket
    <3>2. <<Request("TBWN", packetsCounter)>> \in Seq(S)
      BY <1>0, <1>7, OneSeq DEF Asking
    <3> QED BY <1>6, <3>1, <3>2
  <2>4. ASSUME NEW p \in Plain, AcceptPacket(p) PROVE LateIsIgnored' /\ toServer' \in Seq(Asked')
    <3> DEFINE e == IF packetsCounter < p.n THEN p.n ELSE packetsCounter
    <3>1. e \in Nat
      BY <1>0 DEF Plain, Units
    <3>2. \/ UNCHANGED <<reading, toServer>>
          \/ Send(<<Request("TEEE", 0), Request("TEEE", 0)>>)
          \/ Send(<<Request("TBWF", e)>>)
      BY <2>4 DEF AcceptPacket
    <3>3. <<Request("TEEE", 0), Request("TEEE", 0)>> \in Seq(S)
      BY <1>7, TwoSeq DEF Asking
    <3>4. <<Request("TBWF", e)>> \in Seq(S)
      BY <1>7, <3>1, OneSeq DEF Asking
    <3> HIDE DEF e
    <3> QED BY <1>6, <2>2, <3>2, <3>3, <3>4
  <2> QED BY <1>4, <2>2, <2>3, <2>4
<1> QED BY <1>5, <1>8 DEF AskInv

LEMMA TransferInit == Init => TransferInv
<1> SUFFICES ASSUME Init PROVE TransferInv
  OBVIOUS
<1>1. ~connected /\ reading = 0 /\ phase = "top" /\ out = <<>> /\ finished = {}
  BY DEF Init
<1>2. SessionInv /\ AskInv /\ ReceiveInv /\ FinishedIsWhole
  <2>1. tcp = "none"
    BY DEF Init
  <2> QED BY <1>1, <2>1 DEF SessionInv, AskInv, ReceiveInv, FinishedIsWhole
<1>3. CopyIsPrefix
  BY SizeNat DEF Init, CopyIsPrefix
<1>4. LoggedInv
  BY DEF Init, LoggedInv
<1> QED BY <1>2, <1>3, <1>4 DEF TransferInv

LEMMA TransferStep ==
  ASSUME OneAtATime, ~UsbGet, TypeInv, TransferInv, [Next]_vars
  PROVE  TransferInv'
<1>1. CASE UNCHANGED vars
  <2>1. UNCHANGED <<link, phase, clientConnected, infoHandler, ethFile, spc, repeats, rbBuf,
                    lfWriting, out, tcp, toServer, toClient, connected, reading,
                    currentFileName, fileSize, bytes, packetsCounter, copy, finished,
                    logged>>
    BY <1>1 DEF vars, robotVars, consoleVars, histVars
  <2>0. ReadFailed' = ReadFailed /\ BufferHolds' = BufferHolds
    BY <2>1 DEF ReadFailed, BufferHolds, BlockOrLog
  <2>2. /\ PacketsSent' = PacketsSent /\ RequestsSent' = RequestsSent
        /\ RobotAgrees' = RobotAgrees
    BY <2>0, <2>1 DEF PacketsSent, RequestsSent, BlockOrLog, RobotAgrees
  <2>3. CopyIsPrefix' /\ FinishedIsWhole'
    BY <2>1, DiskKept DEF TransferInv
  <2>4. SessionInv'
    BY <2>1 DEF TransferInv, SessionInv
  <2>5. AskInv'
    BY <2>1, AskStill DEF TransferInv
  <2>6. ReceiveInv'
    BY <2>1, <2>2 DEF TransferInv, ReceiveInv
  <2>7. LoggedInv'
    BY <2>1 DEF TransferInv, LoggedInv
  <2> QED BY <2>3, <2>4, <2>5, <2>6, <2>7 DEF TransferInv
<1>2. CASE Next
  <2>1. SessionInv'
    BY <1>2, SessionStep DEF TransferInv
  <2>7. LoggedInv'
    BY <1>2, LoggedStep DEF TransferInv
  <2>2. CASE EthTop \/ EthFlush \/ UsbLog \/ UsbLstop \/ Unplug \/ Plug
    <3>1. AskInv'
      BY <2>2, AskQuietRobot, AskFlush DEF TransferInv
    <3> QED BY <2>1, <2>2, <2>7, <3>1, ReceiveQuietRobot DEF TransferInv
  <2>6. CASE Fault
    <3>1. /\ tcp' = "none" /\ reading' = 0
          /\ UNCHANGED <<copy, finished, logged>>
      BY <2>6, Zenon DEF Fault, histVars
    <3>2. CopyIsPrefix' /\ FinishedIsWhole'
      BY <3>1, DiskKept DEF TransferInv
    <3> QED BY <2>1, <2>7, <3>1, <3>2 DEF TransferInv, AskInv, ReceiveInv
  <2>3. CASE StartClient \/ DoWrite \/ Lose
    <3>1. AskInv'
      BY <2>3, AskConnection, AskDoWrite DEF TransferInv
    <3>2. UNCHANGED <<copy, finished, logged>> /\ reading' \in {0, 1}
      BY <2>3 DEF StartClient, DoWrite, Lose, histVars
    <3>3. CopyIsPrefix' /\ FinishedIsWhole'
      BY <3>2, DiskKept DEF TransferInv
    <3> QED BY <2>1, <2>7, <3>1, <3>2, <3>3 DEF TransferInv, ReceiveInv
  <2>4. CASE EthRead
    <3>1. UNCHANGED <<reading, copy, finished, logged>>
      BY <2>4 DEF EthRead, consoleVars
    <3>2. CopyIsPrefix' /\ FinishedIsWhole'
      BY <3>1, DiskKept DEF TransferInv
    <3>3. AskInv'
      BY <2>4, AskRead DEF TransferInv
    <3>4. ReceiveInv'
      BY <2>4, <3>1, ReadWhileReceiving DEF ReceiveInv
    <3> QED BY <2>1, <2>7, <3>2, <3>3, <3>4 DEF TransferInv
  <2>5. CASE Process
    <3>1. CASE reading = 1
      BY <2>1, <2>5, <2>7, <3>1, AnswerRead DEF TransferInv
    <3>2. CASE reading = 2
      BY <2>1, <2>5, <2>7, <3>2, PacketRead, AskWhileReceiving DEF TransferInv
    <3>3. CASE reading = 0
      <4>1. PICK k \in 1..Len(toClient) :
              /\ toClient' = Drop(toClient, k)
              /\ \/ UNCHANGED <<reading, fileSize, bytes, packetsCounter, copy, finished, toServer>>
                 \/ reading = 1
        BY <2>5, <3>3, ChunkRead DEF TypeInv, StreamType
      <4>2. reading' = 0 /\ UNCHANGED <<copy, finished, toServer>>
        BY <3>3, <4>1
      <4>3. UNCHANGED <<robotVars, tcp, currentFileName>> /\ tcp \in {"pending", "up"}
        BY <2>5 DEF Process
      <4>6. logged' = logged
        BY <2>5, Zenon DEF Process
      <4>4. CopyIsPrefix' /\ FinishedIsWhole'
        BY <4>2, <4>6, DiskKept DEF TransferInv
      <4>5. AskInv'
        BY <3>3, <4>1, <4>2, <4>3, AskTaken DEF TransferInv
      <4> QED BY <2>1, <2>7, <4>2, <4>4, <4>5 DEF TransferInv, ReceiveInv
    <3> QED BY <3>1, <3>2, <3>3 DEF TypeInv, ConsoleType
  <2> QED BY <1>2, <2>2, <2>3, <2>4, <2>5, <2>6 DEF Next
<1> QED BY <1>1, <1>2

LEMMA TransferHolds ==
  ASSUME OneAtATime, "get" \notin UsbCommands PROVE Spec => [](TypeInv /\ TransferInv)
<1>1. Init => TypeInv /\ TransferInv
  BY TypeInit, TransferInit
<1>2. TypeInv /\ TransferInv /\ [Next]_vars => (TypeInv /\ TransferInv)'
  BY TypeStep, TransferStep DEF UsbGet
<1> QED BY <1>1, <1>2, PTL DEF Spec

\* Whatever is split, coalesced, asked for again, lost or cut short, when a log
\* is started, and stopped, in the middle, when reads of the card fail, and also
\* when the operator repeats "get" at any moment for the one file there is, each
\* file on the console's disk is a prefix of the robot's file, but for the frames
\* of a log that was started during its transfer (readingTheFile, checkThePacket,
\* sendFileViaEthHandler, lfStart, lfStop).
THEOREM CopiesArePrefixes ==
  ASSUME OneAtATime, "get" \notin UsbCommands PROVE Spec => []CopyIsPrefix
<1>1. TransferInv => CopyIsPrefix
  BY DEF TransferInv
<1> QED BY <1>1, TransferHolds, PTL

\* A transfer that ended because fileBytesCounter reached fileSize has every
\* block of the file (readingTheFile).
THEOREM FinishedAreWhole ==
  ASSUME OneAtATime, "get" \notin UsbCommands PROVE Spec => []FinishedIsWhole
<1>1. TransferInv => FinishedIsWhole
  BY DEF TransferInv
<1> QED BY <1>1, TransferHolds, PTL

\* The robot is at the packet the console waits for or at the one before it
\* (sendFilePacketsCounter and packetsCounter), so that no packet is jumped
\* over and the file never ends early.
THEOREM CountersAgreeAlways ==
  ASSUME OneAtATime, "get" \notin UsbCommands PROVE Spec => []CountersAgree
<1>1. TypeInv /\ TransferInv => CountersAgree
  BY DEF TransferInv, ReceiveInv, CountersAgree
<1> QED BY <1>1, TransferHolds, PTL

-----------------------------------------------------------------------------
(* The protocol implements the plain copy *)

\* A step that leaves the disk alone is nothing to a reader of the disk, or
\* the end of a transfer.
LEMMA DiskAlone ==
  ASSUME budget.usb = MaxUsb, budget'.usb = budget.usb, UNCHANGED <<copy, finished>>,
         reading' # 2 \/ (reading' = reading /\ currentFileName' = currentFileName),
         TypeInv
  PROVE  [Copy!Next]_(Copy!copyVars)
<1>1. CASE reading = 2 /\ reading' # 2
  <2>1. currentFileName # NoFile
    BY <1>1, FilesAssumption DEF TypeInv, ConsoleType
  <2>2. Copy!GiveUp
    BY <1>1, <2>1 DEF Copy!GiveUp
  <2> QED BY <2>2 DEF Copy!Next
<1>2. CASE reading # 2 /\ reading' # 2
  BY <1>2 DEF Copy!copyVars
<1>3. CASE reading' = reading /\ currentFileName' = currentFileName
  BY <1>3 DEF Copy!copyVars
<1> QED BY <1>1, <1>2, <1>3

\* What is left for the environment to do is only used up, the commands over
\* USB by these commands.
BudgetInv ==
  /\ budget \in [{"get", "ping", "loss", "flap", "usb", "split", "disk"} -> Int]
  /\ budget.usb <= MaxUsb

LEMMA BudgetInit == Init => BudgetInv
<1> SUFFICES ASSUME Init PROVE BudgetInv
  OBVIOUS
<1>1. budget = [get |-> MaxGets, ping |-> MaxPings, loss |-> MaxLosses, flap |-> MaxFlaps,
                usb |-> MaxUsb, split |-> MaxSplits, disk |-> MaxDiskFails]
  BY DEF Init
<1>2. {MaxGets, MaxPings, MaxLosses, MaxFlaps, MaxUsb, MaxSplits, MaxDiskFails} \subseteq Int
  BY BoundAssumption
<1> QED BY <1>1, <1>2 DEF BudgetInv

LEMMA BudgetStep ==
  ASSUME BudgetInv, [Next]_vars
  PROVE  /\ BudgetInv'
         /\ IF UsbGet \/ UsbLog \/ UsbLstop THEN budget'.usb = budget.usb - 1
                                            ELSE budget'.usb = budget.usb
<1> DEFINE Kept == BudgetInv' /\ budget'.usb = budget.usb
<1>0. MaxUsb \in Int
  BY BoundAssumption
<1>1. ASSUME NEW w \in {"get", "ping", "loss", "flap", "split", "disk"},
             budget' = [budget EXCEPT ![w] = @ - 1]
      PROVE  Kept
  BY <1>1 DEF BudgetInv
<1>2. ASSUME budget' = budget PROVE Kept
  BY <1>2 DEF BudgetInv
<1>3. CASE UsbGet \/ UsbLog \/ UsbLstop
  <2>1. budget' = [budget EXCEPT !["usb"] = @ - 1]
    BY <1>3 DEF UsbGet, UsbLog, UsbLstop, Spend
  <2>2. BudgetInv' /\ budget'.usb = budget.usb - 1
    BY <1>0, <2>1 DEF BudgetInv
  <2> QED BY <1>3, <2>2
<1>4. ASSUME EthTop \/ EthRead \/ Fault \/ StartClient \/ Plug \/ UNCHANGED vars PROVE Kept
  <2>1. budget' = budget
    BY <1>4, Zenon DEF EthTop, EthRead, Fault, StartClient, Plug, vars
  <2> QED BY <1>2, <2>1
<1>5. ASSUME EthFlush PROVE Kept
  <2>1. budget' = budget \/ budget' = [budget EXCEPT !["ping"] = @ - 1]
    BY <1>5 DEF EthFlush, Spend
  <2> QED BY <1>1, <1>2, <2>1
<1>6. ASSUME DoWrite \/ Lose \/ Unplug PROVE Kept
  <2>1. \E w \in {"get", "loss", "flap"} : budget' = [budget EXCEPT ![w] = @ - 1]
    BY <1>6 DEF DoWrite, Lose, Unplug, Spend
  <2> QED BY <1>1, <2>1
<1>7. ASSUME Process PROVE Kept
  <2>1. PICK split \in BOOLEAN :
          LET left == [budget EXCEPT !.split = IF split THEN @ - 1 ELSE @]
          IN  budget' = left \/ budget' = [left EXCEPT !.disk = @ - 1]
    BY <1>7, Zenon DEF Process
  <2> DEFINE left == [budget EXCEPT !.split = IF split THEN @ - 1 ELSE @]
  <2>2. /\ left \in [{"get", "ping", "loss", "flap", "usb", "split", "disk"} -> Int]
        /\ left.usb = budget.usb
    BY DEF BudgetInv
  <2> HIDE DEF left
  <2>3. CASE budget' = left
    BY <2>2, <2>3 DEF BudgetInv
  <2>4. CASE budget' = [left EXCEPT !.disk = @ - 1]
    BY <2>2, <2>4 DEF BudgetInv
  <2> QED BY <2>1, <2>3, <2>4 DEF left
<1>8. CASE ~(UsbGet \/ UsbLog \/ UsbLstop)
  BY <1>4, <1>5, <1>6, <1>7, <1>8 DEF Next
<1> QED BY <1>3, <1>8

LEMMA CopyStep ==
  ASSUME TypeInv, TransferInv, logged = {}, ~UsbGet, ~UsbLog, ~UsbLstop, [Next]_vars,
         budget.usb = MaxUsb, budget'.usb = budget.usb
  PROVE  [Copy!Next]_(Copy!copyVars)
<1> DEFINE f == currentFileName
<1>1. CASE UNCHANGED vars \/ EthTop \/ EthRead \/ EthFlush \/ Unplug \/ Plug
  <2>1. UNCHANGED consoleVars
    BY <1>1 DEF vars, EthTop, EthRead, EthFlush, Unplug, Plug
  <2> QED BY <2>1, DiskAlone DEF consoleVars
<1>2. CASE Fault \/ StartClient \/ DoWrite \/ Lose
  <2>1. UNCHANGED <<copy, finished>> /\ reading' \in {0, 1}
    BY <1>2 DEF Fault, StartClient, DoWrite, Lose
  <2> QED BY <2>1, DiskAlone
<1>3. CASE Process /\ reading = 1
  <2>1. f \in Files /\ f' = f
    BY <1>3 DEF TypeInv, ConsoleType, Process
  <2>2. PICK c \in Seq(Units) :
          \/ UNCHANGED <<reading, fileSize, bytes, packetsCounter, copy, finished, toServer>>
          \/ WaitForAck(c) \/ FopenFails(c)
          \/ reading = 2
    BY <1>3, ProcessStep DEF TypeInv, StreamType
  <2>3. CASE reading' # 2 /\ UNCHANGED <<copy, finished>>
    BY <2>3, DiskAlone
  <2>4. CASE /\ reading' = 2
             /\ copy' = [copy EXCEPT ![f] = <<>>]
             /\ finished' = finished \ {f}
    <3>1. Copy!Begin(f)
      BY <2>1, <2>4 DEF Copy!Begin
    <3> QED BY <2>1, <3>1 DEF Copy!Next
  <2> QED BY <1>3, <2>2, <2>3, <2>4 DEF WaitForAck, FopenFails
<1>4. CASE Process /\ reading = 2
  <2>0. /\ f \in Files /\ f' = f /\ packetsCounter \in Nat /\ Blocks[f] \in Nat
        /\ toClient \in Seq(PacketsSent)
        /\ packetsCounter <= Blocks[f] /\ Len(copy[f]) + 1 = packetsCounter
    <3>1. f \in Files /\ packetsCounter \in Nat
      BY <1>4 DEF TypeInv, ConsoleType
    <3>2. f' = f
      BY <1>4 DEF Process
    <3>3. /\ toClient \in Seq(PacketsSent) /\ packetsCounter <= Blocks[f]
          /\ Len(copy[f]) = packetsCounter - 1
      BY <1>4 DEF TransferInv, ReceiveInv
    <3> QED BY <3>1, <3>2, <3>3, SizeNat
  <2>1. PICK c \in Seq(PacketsSent) :
          /\ c[1] \in PacketsSent
          /\ \/ UNCHANGED <<reading, fileSize, bytes, packetsCounter, copy, finished, toServer>>
             \/ reading = 1
             \/ c[1].k \in {"head", "short"} /\ AcceptPacket(c[1])
             \/ \E eot : RejectPacket(eot)
    BY <1>4, <2>0, ProcessStep
  <2>2. CASE UNCHANGED <<reading, copy, finished>>
    BY <2>0, <2>2, DiskAlone
  <2>3. CASE \E eot : RejectPacket(eot)
    <3>1. UNCHANGED <<copy, finished>> /\ (reading' = 0 \/ reading' = 2)
      BY <2>3 DEF RejectPacket
    <3> QED BY <1>4, <2>0, <3>1, DiskAlone
  <2>4. CASE c[1].k \in {"head", "short"} /\ AcceptPacket(c[1])
    <3> DEFINE p == c[1]
    <3>1. \/ UNCHANGED <<reading, bytes, packetsCounter, copy, finished, toServer>>
          \/ /\ p.b = <<f, packetsCounter>>
             /\ copy' = [copy EXCEPT ![f] = Append(@, p.b)]
             /\ IF packetsCounter = Blocks[f]
                THEN /\ reading' = 0
                     /\ finished' = finished \cup {f}
                ELSE UNCHANGED <<reading, finished>>
      <4>1. BlockOrLog(p.b, packetsCounter) => p.b = <<f, packetsCounter>>
        BY DEF BlockOrLog
      <4> QED BY <1>4, <2>1, <2>4, <4>1, GoodPacket
    <3>2. CASE /\ p.b = <<f, packetsCounter>>
               /\ copy' = [copy EXCEPT ![f] = Append(@, p.b)]
               /\ IF packetsCounter = Blocks[f]
                  THEN /\ reading' = 0
                       /\ finished' = finished \cup {f}
                  ELSE UNCHANGED <<reading, finished>>
      <4>1. copy' = [copy EXCEPT ![f] = Append(@, <<f, Len(copy[f]) + 1>>)]
        BY <2>0, <3>2
      <4>2. packetsCounter < Blocks[f] <=> packetsCounter # Blocks[f]
        BY <2>0
      <4>3. Copy!Grow(f)
        <5>1. CASE packetsCounter = Blocks[f]
          <6>1. reading' = 0 /\ finished' = finished \cup {f}
            BY <3>2, <5>1
          <6>2. ~(Len(copy[f]) + 1 < Blocks[f]) /\ Len(copy[f]) + 1 <= Blocks[f]
            BY <2>0, <5>1
          <6> QED BY <1>4, <4>1, <6>1, <6>2 DEF Copy!Grow
        <5>2. CASE packetsCounter # Blocks[f]
          BY <1>4, <2>0, <3>2, <4>1, <4>2, <5>2 DEF Copy!Grow
        <5> QED BY <5>1, <5>2
      <4> QED BY <2>0, <4>3 DEF Copy!Next
    <3> QED BY <2>2, <3>1, <3>2
  <2> QED BY <1>4, <2>1, <2>2, <2>3, <2>4
<1>5. CASE Process /\ reading = 0
  <2>1. PICK c \in Seq(Units) :
          \/ UNCHANGED <<reading, fileSize, bytes, packetsCounter, copy, finished, toServer>>
          \/ reading = 1
          \/ reading = 2
    BY <1>5, ProcessStep DEF TypeInv, StreamType
  <2>2. reading' = 0 /\ UNCHANGED <<copy, finished>>
    BY <1>5, <2>1
  <2> QED BY <2>2, DiskAlone
<1>6. reading \in 0..2
  BY DEF TypeInv, ConsoleType
<1> QED BY <1>1, <1>2, <1>3, <1>4, <1>5, <1>6 DEF Next

\* Until the first command over USB all the above holds; afterwards FileCopy
\* promises nothing.
AloneInv == budget.usb = MaxUsb => TransferInv /\ logged = {}

LEMMA AloneStep ==
  ASSUME OneAtATime, TypeInv, BudgetInv, AloneInv, [Next]_vars
  PROVE  AloneInv' /\ [Copy!Next]_(Copy!copyVars)
<1>1. budget.usb \in Int /\ MaxUsb \in Int /\ budget.usb <= MaxUsb
  BY BoundAssumption DEF BudgetInv
<1>2. IF UsbGet \/ UsbLog \/ UsbLstop THEN budget'.usb = budget.usb - 1
                                     ELSE budget'.usb = budget.usb
  BY BudgetStep
<1>3. CASE budget.usb # MaxUsb
  <2>1. budget'.usb # MaxUsb
    BY <1>1, <1>2, <1>3
  <2>2. Copy!Unpromised
    BY <1>3, <2>1 DEF Copy!Unpromised
  <2> QED BY <2>1, <2>2 DEF AloneInv, Copy!Next
<1>4. CASE budget.usb = MaxUsb /\ (UsbGet \/ UsbLog \/ UsbLstop)
  <2>1. budget'.usb # MaxUsb
    BY <1>1, <1>2, <1>4
  <2>2. UNCHANGED consoleVars
    BY <1>4 DEF UsbGet, UsbLog, UsbLstop
  <2>3. Copy!Intrude
    BY <2>1, <2>2 DEF Copy!Intrude, consoleVars
  <2> QED BY <2>1, <2>3 DEF AloneInv, Copy!Next
<1>5. CASE budget.usb = MaxUsb /\ ~(UsbGet \/ UsbLog \/ UsbLstop)
  <2>1. TransferInv /\ logged = {}
    BY <1>5 DEF AloneInv
  <2>2. TransferInv'
    BY <1>5, <2>1, TransferStep
  <2>3. logged' = logged
    BY <1>5, Zenon DEF Next, vars, histVars, EthTop, EthRead, EthFlush, Fault,
           StartClient, DoWrite, Process, Lose, Unplug, Plug
  <2>4. [Copy!Next]_(Copy!copyVars)
    BY <1>2, <1>5, <2>1, CopyStep
  <2> QED BY <2>1, <2>2, <2>3, <2>4 DEF AloneInv
<1> QED BY <1>3, <1>4, <1>5

\* As long as nothing comes over USB, and when requests for two files never
\* cross, the protocol with its streams, packets and counters does to the
\* console's disk what a plain copy does: the file being received grows by its
\* next block, is started again, given up or finished (readingTheFile, do_write,
\* process, sendFileViaEthHandler).
THEOREM CopyImplemented ==
  ASSUME OneAtATime PROVE Spec => ImplementsCopy
<1>1. Init => TypeInv /\ BudgetInv /\ AloneInv /\ Copy!Init
  <2> SUFFICES ASSUME Init PROVE TypeInv /\ BudgetInv /\ AloneInv /\ Copy!Init
    OBVIOUS
  <2>1. TypeInv /\ BudgetInv /\ TransferInv
    BY TypeInit, BudgetInit, TransferInit
  <2>2. logged = {}
    BY DEF Init
  <2>3. reading = 0 /\ copy = [g \in Files |-> <<>>] /\ finished = {} /\ budget.usb = MaxUsb
    BY DEF Init
  <2> QED BY <2>1, <2>2, <2>3 DEF AloneInv, Copy!Init
<1>2. TypeInv /\ BudgetInv /\ AloneInv /\ [Next]_vars
        => (TypeInv /\ BudgetInv /\ AloneInv)' /\ [Copy!Next]_(Copy!copyVars)
  BY TypeStep, BudgetStep, AloneStep
<1> QED BY <1>1, <1>2, PTL DEF Spec, ImplementsCopy, Copy!Spec
=============================================================================
