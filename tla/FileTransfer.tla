---------------------------- MODULE FileTransfer ----------------------------
(***************************************************************************)
(* The transfer of a log file from the robot to the console over TCP:      *)
(* the robot's Ethernet loop and file sender (src/src/eth.cpp,             *)
(* src/src/logsend.cpp) and the console's client                           *)
(* (src/console/eth_client.cpp).                                           *)
(*                                                                         *)
(* The console asks for a file ("get"), the robot answers with the size    *)
(* and then sends one packet for each request, TBWF for the next packet or *)
(* TBWN for the same packet again.  TCP is a byte stream: what one read of *)
(* the client returns (1024 bytes at most) need not be a packet, and a     *)
(* "ping" of the robot may stand in front of a packet.  There is no        *)
(* timeout on either side.                                                 *)
(*                                                                         *)
(* A byte stream to the console is a sequence of units.  A packet of 1024  *)
(* bytes is a head and a tail, so that a read may end inside it; the last  *)
(* packet of a file may be short and is then one unit.  A block of a file  *)
(* is the pair of the file's name and the block's index; a full block      *)
(* counts for two units of size, a short one for one.                      *)
(***************************************************************************)
EXTENDS Integers, Sequences, FiniteSets

CONSTANTS
  Files,          \* names of the files on the robot's card
  Blocks,         \* [Files -> Nat]: the number of blocks, 0 for an empty file
  ShortLast,      \* the last packet of a file is shorter than 1024 bytes
  MaximumRepeats, \* maximumRepeats of logsend.cpp (5)
  Coalesce,       \* one read of the robot may return several requests
  Patient,        \* the operator types "get" only when all is quiet
  CardFails,      \* the robot's card may fail to open or to read a file
  UsbCommands,    \* commands that may come over USB: of "get", "log", "lstop"
  \* bounds on what the environment does: requests, pings, lost connections,
  \* pulled cables, USB commands, reads that end inside a packet, failing fopen
  MaxGets, MaxPings, MaxLosses, MaxFlaps, MaxUsb, MaxSplits, MaxDiskFails

VARIABLES
  \* the robot
  link,        \* the cable is plugged in
  phase,       \* "top": before the tests of ethLoop; "read": its read loop
  clientConnected, \* clientConnected of eth.cpp
  infoHandler, \* infoHandler is set
  ethFile,     \* the open file and its position: [name, pos]; name NoFile if closed
  spc,         \* sendFilePacketsCounter
  repeats,     \* repeatSendCounter
  rbBuf,       \* the block in rbBuf and its size fileReadInfoSize
  lfWriting,   \* a log is being written (into the ring that rbBuf belongs to)
  lfState,     \* lfState of logfile.cpp
  out,         \* the outgoing ring rb of eth.cpp
  \* the connection
  tcp,         \* "none", "pending" (not yet accepted), "up", "gone" (lost)
  toServer, toClient,
  \* the console
  connected,   \* EthClient::connected, set by the robot's greeting
  reading,     \* readingTheLogFile: 0, 1 (waiting for ack), 2 (receiving)
  currentFileName,
  fileSize, bytes, \* fileSize and fileBytesCounter
  packetsCounter,
  copy,        \* [Files -> Seq(Block)]: the files on the console's disk
  finished,    \* files whose transfer ended with fileBytesCounter >= fileSize
  budget,      \* what the environment may still do
  logged,      \* history: files during whose transfer a log was started
  lost,        \* history: what was thrown away unread on this connection
  overrun      \* history: the ring could not take what was fed to it

robotVars == <<link, phase, clientConnected, infoHandler, ethFile, spc, repeats,
               rbBuf, lfWriting, lfState, out>>
consoleVars == <<connected, reading, currentFileName, fileSize, bytes,
                 packetsCounter, copy, finished>>
histVars == <<logged, lost, overrun>>
vars == <<robotVars, tcp, toServer, toClient, consoleVars, budget, histVars>>

NoFile == "none"
LogBytes == <<"log", 0>>      \* what a running log leaves in rbBuf

ASSUME FilesAssumption ==
  /\ NoFile \notin Files
  /\ Blocks \in [Files -> Nat]
ASSUME BoundAssumption ==
  /\ MaximumRepeats \in Nat \ {0}
  /\ {MaxGets, MaxPings, MaxLosses, MaxFlaps, MaxUsb, MaxSplits, MaxDiskFails}
       \subseteq Nat
  /\ UsbCommands \subseteq {"get", "log", "lstop"}

-----------------------------------------------------------------------------
(* Files, packets and the streams *)

BlockSize(f, i) == IF ShortLast /\ i = Blocks[f] THEN 1 ELSE 2
SizeOf(f) == IF Blocks[f] = 0 THEN 0
             ELSE 2 * (Blocks[f] - 1) + BlockSize(f, Blocks[f])
Contents(f) == [i \in 1..Blocks[f] |-> <<f, i>>]

Unit(k) == [k |-> k, n |-> 0, b |-> <<NoFile, 0>>, s |-> 0]
Ack(size) == [Unit("ack") EXCEPT !.n = size]

\* What sendEthPacket makes of the result -1 of a read: size + ethHeaderSize is
\* 15 bytes, less than a header.
Junk == <<Unit("junk")>>

\* A packet: number, block and size of the block.
Packet(n, b, s) ==
  LET u(k) == [k |-> k, n |-> n, b |-> b, s |-> s]
  IN  IF s = 2 THEN <<u("head"), u("tail")>> ELSE <<u("short")>>

Request(k, n) == [k |-> k, n |-> n, f |-> NoFile]
Get(f) == [k |-> "get", n |-> 0, f |-> f]

Drop(q, k) == SubSeq(q, k + 1, Len(q))
Suffixes(q) == {Drop(q, k) : k \in 0..Len(q)}

\* 1024 bytes hold a whole full packet and nothing beside it.
Fits(q) == \A i \in 1..Len(q) - 1 : q[i].k = "head" => Len(q) = 2

-----------------------------------------------------------------------------
Closed == [name |-> NoFile, pos |-> 0]

\* lfInit finds the card, or not.
Init ==
  /\ link = TRUE
  /\ phase = "top"
  /\ clientConnected = FALSE
  /\ infoHandler = FALSE
  /\ ethFile = Closed
  /\ spc = 0
  /\ repeats = 0
  /\ rbBuf = [b |-> LogBytes, s |-> 0]
  /\ lfWriting = FALSE
  /\ lfState \in {"lfSGood", "lfSError"}
  /\ out = <<>>
  /\ tcp = "none"
  /\ toServer = <<>>
  /\ toClient = <<>>
  /\ connected = FALSE
  /\ reading = 0
  /\ currentFileName = NoFile
  /\ fileSize = 0
  /\ bytes = 0
  /\ packetsCounter = 0
  /\ copy = [f \in Files |-> <<>>]
  /\ finished = {}
  /\ budget = [get |-> MaxGets, ping |-> MaxPings, loss |-> MaxLosses,
               flap |-> MaxFlaps, usb |-> MaxUsb, split |-> MaxSplits,
               disk |-> MaxDiskFails]
  /\ logged = {}
  /\ lost = {}
  /\ overrun = FALSE

Spend(what) == /\ budget[what] > 0
               /\ budget' = [budget EXCEPT ![what] = @ - 1]

-----------------------------------------------------------------------------
(* The robot: eth.cpp and logsend.cpp *)

\* Mutant of EthFeed: the ring has no limit.
MutEthFeed(q) == /\ out' = IF clientConnected THEN out \o q ELSE out
                 /\ UNCHANGED overrun

\* ethFeed: nothing without a client.  What put_rb_s does with a full ring is
\* not in this repository: the new bytes are refused or the oldest overwritten.
EthFeed(q) ==
  LET t == out \o q
      cut == {x \in Suffixes(t) : Fits(x)}
  IN  \/ /\ ~clientConnected
         /\ UNCHANGED <<out, overrun>>
      \/ /\ clientConnected
         /\ Fits(t)
         /\ out' = t
         /\ UNCHANGED overrun
      \/ /\ clientConnected
         /\ ~Fits(t)
         /\ out' \in {out} \cup {x \in cut : \A y \in cut : Len(y) <= Len(x)}
         /\ overrun' = TRUE

\* sendFileViaEthComplete: handler, file, TEEE and the two lines printed.
SendFileViaEthComplete ==
  /\ infoHandler' = FALSE
  /\ ethFile' = Closed
  /\ EthFeed(<<Unit("TEEE"), Unit("text")>>)

\* ethACK(false, 0) and the line that says why, printed to Ethernet only
\* outside a transfer (printfToEth).
Nak == IF infoHandler THEN <<Unit("nak")>> ELSE <<Unit("nak"), Unit("text")>>

\* lfGetFile.  bad: the file cannot be opened; what was open is closed then, and
\* a handler that is set stays set.
LfGetFile(f, bad) ==
  LET free == ~lfWriting /\ lfState = "lfSGood"
  IN  \/ /\ ~free
         /\ EthFeed(Nak)
         /\ UNCHANGED <<infoHandler, ethFile, spc>>
      \/ /\ free
         /\ bad \/ SizeOf(f) = 0
         /\ EthFeed(Nak)
         /\ ethFile' = IF bad THEN Closed ELSE [name |-> f, pos |-> 0]
         /\ UNCHANGED <<infoHandler, spc>>
      \/ /\ free
         /\ ~bad
         /\ SizeOf(f) > 0
         /\ ethFile' = [name |-> f, pos |-> 0]
         /\ spc' = 0
         /\ infoHandler' = TRUE
         /\ EthFeed(<<Ack(SizeOf(f))>>)

\* Mutant of PleaseSendNext: a request for the packet after the last one sent
\* is taken for an old one.
MutPleaseSendNext(pn) ==
  /\ repeats' = 0
  /\ IF spc >= pn /\ spc > 0
     THEN UNCHANGED <<infoHandler, ethFile, spc, rbBuf, out, overrun>>
     ELSE LET b == [b |-> <<ethFile.name, 1>>, s |-> BlockSize(ethFile.name, 1)]
          IN  /\ ethFile' = [ethFile EXCEPT !.pos = 1]
              /\ rbBuf' = b
              /\ spc' = spc + 1
              /\ EthFeed(Packet(spc + 1, b.b, b.s))
              /\ UNCHANGED infoHandler

\* gfPleaseSendNext: the next block, or the end of the transfer at the end of
\* the file; a request for a packet sent already is ignored.  The read of a
\* closed file, or of a failing card, returns -1, which passes the test
\* fileReadInfoSize > 0 of an unsigned number.
PleaseSendNext(pn) ==
  /\ repeats' = 0
  /\ \/ /\ spc > pn
        /\ UNCHANGED <<infoHandler, ethFile, spc, rbBuf, out, overrun>>
     \/ /\ spc <= pn
        /\ ethFile.name = NoFile \/ CardFails
        /\ rbBuf' = [rbBuf EXCEPT !.s = -1]
        /\ spc' = spc + 1
        /\ EthFeed(Junk)
        /\ UNCHANGED <<infoHandler, ethFile>>
     \/ /\ spc <= pn
        /\ ethFile.name # NoFile
        /\ ethFile.pos < Blocks[ethFile.name]
        /\ LET i == ethFile.pos + 1
               b == [b |-> <<ethFile.name, i>>, s |-> BlockSize(ethFile.name, i)]
           IN  /\ ethFile' = [ethFile EXCEPT !.pos = i]
               /\ rbBuf' = b
               /\ spc' = spc + 1
               /\ EthFeed(Packet(spc + 1, b.b, b.s))
        /\ UNCHANGED infoHandler
     \/ /\ spc <= pn
        /\ ethFile.name # NoFile
        /\ ethFile.pos >= Blocks[ethFile.name]
        /\ spc' = spc + 1
        /\ rbBuf' = [rbBuf EXCEPT !.s = 0]
        /\ SendFileViaEthComplete

\* Mutant of PleaseRepeat: the packet is numbered anew when it is sent again.
MutPleaseRepeat ==
  /\ repeats' = repeats + 1
  /\ IF repeats + 1 >= MaximumRepeats
     THEN SendFileViaEthComplete /\ UNCHANGED spc
     ELSE /\ spc' = spc + 1
          /\ EthFeed(Packet(spc + 1, rbBuf.b, rbBuf.s))
          /\ UNCHANGED <<infoHandler, ethFile>>
  /\ UNCHANGED rbBuf

\* gfPleaseRepeat: the packet again, from rbBuf, at most MaximumRepeats - 1
\* times.  rbBuf is the memory of the log's ring, so that frames of a log that
\* is being written may have taken the block's place.
PleaseRepeat ==
  /\ repeats' = repeats + 1
  /\ \/ /\ repeats + 1 >= MaximumRepeats
        /\ SendFileViaEthComplete
     \/ /\ repeats + 1 < MaximumRepeats
        /\ \E b \in {rbBuf.b} \cup (IF lfWriting THEN {LogBytes} ELSE {}) :
             EthFeed(IF rbBuf.s < 0 THEN Junk ELSE Packet(spc, b, rbBuf.s))
        /\ UNCHANGED <<infoHandler, ethFile>>
  /\ UNCHANGED <<spc, rbBuf>>

\* Mutant of EthTop: a disconnect does not call infoHandler(gfFinish).
MutEthTop ==
  /\ phase = "top"
  /\ \/ /\ ~link \/ tcp = "none"
        /\ clientConnected' = FALSE
        /\ UNCHANGED <<phase, out, tcp, toServer>>
     \/ /\ link
        /\ tcp \in {"pending", "up"}
        /\ tcp' = "up"
        /\ clientConnected' = TRUE
        /\ out' = IF clientConnected THEN out ELSE <<>>
        /\ phase' = "read"
        /\ UNCHANGED toServer
     \/ /\ link
        /\ tcp = "gone"
        /\ clientConnected
        /\ clientConnected' = FALSE
        /\ tcp' = "none"
        /\ toServer' = <<>>
        /\ UNCHANGED <<phase, out>>
  /\ UNCHANGED <<link, infoHandler, ethFile, spc, repeats, rbBuf, lfWriting, lfState,
                 toClient, consoleVars, budget, histVars>>

\* ethLoop up to the read loop: link, accept, connect and disconnect.
EthTop ==
  /\ phase = "top"
  /\ \/ /\ ~link \/ tcp = "none"
        /\ clientConnected' = FALSE
        /\ UNCHANGED <<phase, infoHandler, ethFile, out, tcp, toServer>>
     \/ /\ link
        /\ tcp \in {"pending", "up"}
        /\ tcp' = "up"
        /\ clientConnected' = TRUE
        /\ out' = IF clientConnected THEN out ELSE <<>>
        /\ phase' = "read"
        /\ UNCHANGED <<infoHandler, ethFile, toServer>>
     \/ /\ link
        /\ tcp = "gone"
        /\ clientConnected
        /\ clientConnected' = FALSE
        /\ tcp' = "none"
        /\ toServer' = <<>>
        /\ infoHandler' = FALSE
        /\ ethFile' = IF infoHandler THEN Closed ELSE ethFile
        /\ UNCHANGED <<phase, out>>
  /\ UNCHANGED <<link, spc, repeats, rbBuf, lfWriting, lfState, toClient, consoleVars,
                 budget, histVars>>

\* One read of ethLoop: only the first request of what was read is looked at; a
\* "get" with another request behind the name names no file.
EthRead ==
  /\ phase = "read"
  /\ toServer # <<>>
  /\ \E k \in IF Coalesce THEN 1..Len(toServer) ELSE {1} :
       LET r == Head(toServer)
       IN  /\ toServer' = Drop(toServer, k)
           /\ lost' = IF k > 1 /\ \E i \in 1..k : toServer[i].k # "TEEE"
                      THEN lost \cup {"request"} ELSE lost
           /\ \/ /\ r.k = "console"
                 /\ toClient' = Append(toClient, Unit("tee"))
                 /\ UNCHANGED <<infoHandler, ethFile, spc, repeats, rbBuf, out, overrun>>
              \/ /\ r.k # "console"
                 /\ infoHandler
                 /\ \/ r.k = "TBWF" /\ PleaseSendNext(r.n)
                    \/ r.k = "TBWN" /\ PleaseRepeat
                    \/ /\ r.k = "TEEE"
                       /\ SendFileViaEthComplete
                       /\ UNCHANGED <<spc, repeats, rbBuf>>
                    \/ /\ r.k = "get"
                       /\ UNCHANGED <<infoHandler, ethFile, spc, repeats, rbBuf, out,
                                      overrun>>
                 /\ UNCHANGED toClient
              \/ /\ r.k # "console"
                 /\ ~infoHandler
                 /\ IF r.k = "get"
                    THEN \E bad \in BOOLEAN : /\ k > 1 => bad
                                              /\ bad => k > 1 \/ CardFails
                                              /\ LfGetFile(r.f, bad)
                    ELSE UNCHANGED <<infoHandler, ethFile, spc, out, overrun>>
                 /\ UNCHANGED <<toClient, repeats, rbBuf>>
  /\ UNCHANGED <<link, phase, clientConnected, lfWriting, lfState, tcp, consoleVars,
                 budget, logged>>

\* The end of ethLoop: the ring goes to TCP, then perhaps a ping.
EthFlush ==
  /\ phase = "read"
  /\ toServer = <<>>
  /\ phase' = "top"
  /\ out' = <<>>
  /\ \E ping \in BOOLEAN :
       /\ IF ping THEN Spend("ping") ELSE UNCHANGED budget
       /\ toClient' = IF tcp = "gone" THEN <<>>
                      ELSE toClient \o out \o (IF ping THEN <<Unit("ping")>> ELSE <<>>)
  /\ UNCHANGED <<link, clientConnected, infoHandler, ethFile, spc, repeats, rbBuf,
                 lfWriting, lfState, tcp, toServer, consoleVars, histVars>>

\* crc16 over the 2^32 - 1 bytes of such a packet (the function is not in this
\* repository): either it takes the size for negative and the packet is sent, or
\* it runs out of the memory and the fault handler starts the robot again, with
\* all that was in the ring.  The console's next write is refused then.
Fault ==
  /\ phase = "read"
  /\ \E i \in 1..Len(out) : out[i].k = "junk"
  /\ phase' = "top"
  /\ clientConnected' = FALSE
  /\ infoHandler' = FALSE
  /\ ethFile' = Closed
  /\ spc' = 0
  /\ repeats' = 0
  /\ rbBuf' = [b |-> LogBytes, s |-> 0]
  /\ lfWriting' = FALSE
  /\ lfState' \in {"lfSGood", "lfSError"}
  /\ out' = <<>>
  /\ tcp' = "none"
  /\ toServer' = <<>>
  /\ toClient' = <<>>
  /\ connected' = FALSE
  /\ reading' = 0
  /\ UNCHANGED <<link, currentFileName, fileSize, bytes, packetsCounter, copy,
                 finished, budget, histVars>>

\* "get" on the USB line, which is read between two calls of ethLoop, with the
\* name of a file or a name that cannot be opened.
UsbGet ==
  /\ phase = "top"
  /\ "get" \in UsbCommands
  /\ Spend("usb")
  /\ \E f \in Files, bad \in BOOLEAN : LfGetFile(f, bad)
  /\ UNCHANGED <<link, phase, clientConnected, repeats, rbBuf, lfWriting, lfState, tcp,
                 toServer, toClient, consoleVars, logged, lost>>

\* "log" on the USB line: from now on frames go through the ring in rbBuf; or
\* the log cannot be opened.
UsbLog ==
  /\ phase = "top"
  /\ "log" \in UsbCommands
  /\ ~lfWriting
  /\ Spend("usb")
  /\ \/ /\ lfWriting' = TRUE
        /\ lfState' = "lfSGood"
        /\ logged' = IF infoHandler THEN logged \cup {ethFile.name} ELSE logged
     \/ /\ lfState' = "lfSError"
        /\ UNCHANGED <<lfWriting, logged>>
  /\ UNCHANGED <<link, phase, clientConnected, infoHandler, ethFile, spc, repeats,
                 rbBuf, out, tcp, toServer, toClient, consoleVars, lost, overrun>>

\* "lstop" on the USB line: what the log has left in rbBuf stays there.  Without
\* a log the truncate of a closed file fails.
UsbLstop ==
  /\ phase = "top"
  /\ "lstop" \in UsbCommands
  /\ lfState = "lfSGood"
  /\ Spend("usb")
  /\ lfWriting' = FALSE
  /\ lfState' \in {"lfSError"} \cup (IF lfWriting THEN {"lfSGood"} ELSE {})
  /\ \E b \in {rbBuf.b} \cup (IF lfWriting THEN {LogBytes} ELSE {}) :
       rbBuf' = [rbBuf EXCEPT !.b = b]
  /\ UNCHANGED <<link, phase, clientConnected, infoHandler, ethFile, spc, repeats,
                 out, tcp, toServer, toClient, consoleVars, histVars>>

Robot == EthTop \/ EthRead \/ EthFlush

-----------------------------------------------------------------------------
(* The console: eth_client.cpp *)

Send(q) == toServer' = toServer \o q

\* startClient and its connect callback; the console program starts afresh.
StartClient ==
  /\ tcp = "none"
  /\ link
  /\ tcp' = "pending"
  /\ toServer' = <<Request("console", 0)>>
  /\ toClient' = <<>>
  /\ connected' = FALSE
  /\ reading' = 0
  /\ lost' = {}
  /\ overrun' = FALSE
  /\ UNCHANGED <<robotVars, currentFileName, fileSize, bytes, packetsCounter, copy,
                 finished, budget, logged>>

\* do_write of "get f".
DoWrite ==
  /\ connected
  /\ link
  /\ Patient => reading = 0 /\ <<toServer, out, toClient>> = <<<<>>, <<>>, <<>>>>
  /\ Spend("get")
  /\ \E f \in Files :
       /\ currentFileName' = f
       /\ Send(<<Get(f)>>)
  /\ reading' = 1
  /\ UNCHANGED <<robotVars, tcp, toClient, connected, fileSize, bytes,
                 packetsCounter, copy, finished, histVars>>

\* What strstr finds in a chunk: no unit before the answer holds a zero byte.
AnswerSeen(c, k) ==
  \E i \in 1..Len(c) :
     /\ c[i].k = k
     /\ \A j \in 1..i - 1 : c[j].k \in {"text", "nak"} \ {k}
FirstAck(c) == CHOOSE i \in 1..Len(c) :
                 c[i].k = "ack" /\ \A j \in 1..i - 1 : c[j].k # "ack"

\* readingTheFile, case 1.
WaitForAck(c) ==
  /\ \/ /\ AnswerSeen(c, "ack")
        /\ fileSize' = c[FirstAck(c)].n
        /\ reading' = 2
        /\ bytes' = 0
        /\ packetsCounter' = 1
        /\ copy' = [copy EXCEPT ![currentFileName] = <<>>]
        /\ finished' = finished \ {currentFileName}
        /\ Send(<<Request("TBWF", 0)>>)
     \/ /\ ~AnswerSeen(c, "ack")
        /\ reading' = IF AnswerSeen(c, "nak") THEN 0 ELSE 1
        /\ UNCHANGED <<fileSize, bytes, packetsCounter, copy, finished, toServer>>

\* readingTheFile, case 1, when fopen fails: the robot is not told.
FopenFails(c) ==
  /\ AnswerSeen(c, "ack")
  /\ fileSize' = c[FirstAck(c)].n
  /\ reading' = 0
  /\ UNCHANGED <<bytes, packetsCounter, copy, finished, toServer>>

\* checkThePacket on chunk c with r still in the socket: whether the packet is
\* good, what is left in the socket, and whether buf then begins with TEEE.
\* The number of bytes that arrive while it sleeps is not determined.
CheckThePacket(c, r) ==
  IF c[1].k = "junk" THEN {[ok |-> FALSE, rest |-> r, eot |-> FALSE]}
  ELSE IF c[1].k = "head"
  THEN IF Len(c) = 2 THEN {[ok |-> TRUE, rest |-> r, eot |-> FALSE]}
       ELSE {[ok |-> FALSE, rest |-> r, eot |-> FALSE]} \cup
            {[ok |-> TRUE, rest |-> Tail(r), eot |-> FALSE] :
               x \in {y \in {1} : r # <<>> /\ Head(r).k = "tail"}}
  ELSE IF c[1].k = "short"
  THEN {[ok |-> TRUE, rest |-> x, eot |-> FALSE] :
          x \in IF Len(c) = 1 THEN {r} ELSE Suffixes(r)}
  ELSE {[ok |-> FALSE, rest |-> r, eot |-> c[1].k = "TEEE"]} \cup
       {[ok |-> FALSE, rest |-> Drop(r, ij[1]), eot |-> r[ij[2]].k = "TEEE"] :
          ij \in {p \in (1..Len(r)) \X (1..Len(r)) : p[2] <= p[1]}}

\* Mutants of AcceptPacket: a packet received before is written again; the
\* counter is not advanced; the end is tested against one unit too few.
MutAcceptPacketAgain(p) ==
  /\ copy' = [copy EXCEPT ![currentFileName] = Append(@, p.b)]
  /\ bytes' = bytes + p.s
  /\ IF bytes + p.s >= fileSize
     THEN /\ reading' = 0
          /\ finished' = finished \cup {currentFileName}
          /\ Send(<<Request("TEEE", 0), Request("TEEE", 0)>>)
          /\ UNCHANGED packetsCounter
     ELSE /\ packetsCounter' = packetsCounter + 1
          /\ Send(<<Request("TBWF", packetsCounter)>>)
          /\ UNCHANGED <<reading, finished>>
MutAcceptPacketStill(p) ==
  IF p.n < packetsCounter
  THEN UNCHANGED <<reading, bytes, packetsCounter, copy, finished, toServer>>
  ELSE /\ copy' = [copy EXCEPT ![currentFileName] = Append(@, p.b)]
       /\ bytes' = bytes + p.s
       /\ packetsCounter' = p.n
       /\ IF bytes + p.s >= fileSize
          THEN /\ reading' = 0
               /\ finished' = finished \cup {currentFileName}
               /\ Send(<<Request("TEEE", 0), Request("TEEE", 0)>>)
          ELSE /\ Send(<<Request("TBWF", p.n)>>)
               /\ UNCHANGED <<reading, finished>>
MutAcceptPacketEarly(p) ==
  IF p.n < packetsCounter
  THEN UNCHANGED <<reading, bytes, packetsCounter, copy, finished, toServer>>
  ELSE /\ copy' = [copy EXCEPT ![currentFileName] = Append(@, p.b)]
       /\ bytes' = bytes + p.s
       /\ IF bytes + p.s >= fileSize - 1
          THEN /\ reading' = 0
               /\ finished' = finished \cup {currentFileName}
               /\ Send(<<Request("TEEE", 0), Request("TEEE", 0)>>)
               /\ packetsCounter' = p.n
          ELSE /\ Send(<<Request("TBWF", p.n)>>)
               /\ packetsCounter' = p.n + 1
               /\ UNCHANGED <<reading, finished>>

\* readingTheFile, case 2, a good packet p: skipped, the last one, or one more.
AcceptPacket(p) ==
  LET expected == IF packetsCounter < p.n THEN p.n ELSE packetsCounter
  IN  \/ /\ p.n < expected
         /\ UNCHANGED <<reading, bytes, packetsCounter, copy, finished, toServer>>
      \/ /\ p.n >= expected
         /\ copy' = [copy EXCEPT ![currentFileName] = Append(@, p.b)]
         /\ bytes' = bytes + p.s
         /\ IF bytes + p.s >= fileSize
            THEN /\ reading' = 0
                 /\ packetsCounter' = expected
                 /\ finished' = finished \cup {currentFileName}
                 /\ Send(<<Request("TEEE", 0), Request("TEEE", 0)>>)
            ELSE /\ packetsCounter' = expected + 1
                 /\ Send(<<Request("TBWF", expected)>>)
                 /\ UNCHANGED <<reading, finished>>

\* readingTheFile, case 2, no packet: end of transmission or not, what has
\* arrived is thrown away and the packet asked for again.
RejectPacket(eot) ==
  /\ reading' = IF eot THEN 0 ELSE 2
  /\ Send(<<Request("TBWN", packetsCounter)>>)
  /\ UNCHANGED <<bytes, packetsCounter, copy, finished>>

\* process: one completed read of the socket.  What was in flight when the cable
\* was pulled arrives when it is plugged in again.
Process ==
  /\ tcp \in {"pending", "up"}
  /\ link
  /\ \E k \in 1..Len(toClient) :
       LET c == SubSeq(toClient, 1, k)
           r == Drop(toClient, k)
           split == c[k].k = "head"
           left == [budget EXCEPT !.split = IF split THEN @ - 1 ELSE @]
       IN  /\ Fits(c)
           /\ split => budget.split > 0
           /\ \/ /\ c[1].k = "tee"
                 /\ connected' = TRUE
                 /\ toClient' = r
                 /\ budget' = left
                 /\ UNCHANGED <<reading, fileSize, bytes, packetsCounter, copy,
                                finished, toServer, lost>>
              \/ /\ c[1].k # "tee"
                 /\ c[1].k = "ping" \/ reading = 0
                 /\ toClient' = r
                 /\ budget' = left
                 /\ lost' = IF reading # 0 /\ \E i \in 2..k : c[i].k # "ping"
                            THEN lost \cup {"answer"} ELSE lost
                 /\ UNCHANGED <<connected, reading, fileSize, bytes, packetsCounter,
                                copy, finished, toServer>>
              \/ /\ c[1].k \notin {"tee", "ping"}
                 /\ reading = 1
                 /\ \/ WaitForAck(c) /\ budget' = left /\ UNCHANGED lost
                    \/ /\ budget.disk > 0
                       /\ budget' = [left EXCEPT !.disk = @ - 1]
                       /\ FopenFails(c)
                       /\ lost' = lost \cup {"file"}
                 /\ toClient' = r
                 /\ UNCHANGED connected
              \/ /\ c[1].k \notin {"tee", "ping"}
                 /\ reading = 2
                 /\ \E o \in CheckThePacket(c, r) :
                      IF o.ok
                      THEN /\ toClient' = o.rest
                           /\ AcceptPacket(c[1])
                      ELSE /\ toClient' \in Suffixes(o.rest)
                           /\ RejectPacket(o.eot)
                 /\ budget' = left
                 /\ lost' = IF /\ reading' = 2
                               /\ \E i \in 1..Len(toClient) - Len(toClient') :
                                    toClient[i].k = "TEEE"
                            THEN lost \cup {"end"} ELSE lost
                 /\ UNCHANGED <<connected, fileSize>>
  /\ UNCHANGED <<robotVars, tcp, currentFileName, logged, overrun>>

-----------------------------------------------------------------------------
(* The environment *)

\* The connection is lost or the console exits; the robot can see it from now on.
Lose ==
  /\ tcp \in {"pending", "up"}
  /\ Spend("loss")
  /\ tcp' = IF tcp = "up" THEN "gone" ELSE "none"
  /\ toClient' = <<>>
  /\ toServer' = IF tcp = "up" THEN toServer ELSE <<>>
  /\ connected' = FALSE
  /\ reading' = 0
  /\ UNCHANGED <<robotVars, currentFileName, fileSize, bytes, packetsCounter, copy,
                 finished, histVars>>

Unplug ==
  /\ link
  /\ Spend("flap")
  /\ link' = FALSE
  /\ UNCHANGED <<phase, clientConnected, infoHandler, ethFile, spc, repeats, rbBuf,
                 lfWriting, lfState, out, tcp, toServer, toClient, consoleVars, histVars>>

Plug ==
  /\ ~link
  /\ link' = TRUE
  /\ UNCHANGED <<phase, clientConnected, infoHandler, ethFile, spc, repeats, rbBuf,
                 lfWriting, lfState, out, tcp, toServer, toClient, consoleVars, budget,
                 histVars>>

Next ==
  \/ EthTop \/ EthRead \/ EthFlush \/ Fault \/ UsbGet \/ UsbLog \/ UsbLstop
  \/ StartClient \/ DoWrite \/ Process
  \/ Lose \/ Unplug \/ Plug

Spec == Init /\ [][Next]_vars

\* main calls ethLoop for ever; the console's io_context runs every completed
\* read; a cable that was pulled is plugged in again.
FairSpec == Spec /\ WF_vars(Robot) /\ WF_vars(Process) /\ WF_vars(Plug)

-----------------------------------------------------------------------------
\* The type of the state.  The ring never holds more than its 1024 bytes and
\* the file position never passes the end, whatever is opened and fails to open
\* over USB during a transfer; fileReadInfoSize is the size of a block or -1.
TypeOK ==
  /\ {link, clientConnected, infoHandler, lfWriting, connected} \subseteq BOOLEAN
  /\ phase \in {"top", "read"}
  /\ ethFile.name \in Files \cup {NoFile}
  /\ ethFile.name \in Files => ethFile.pos \in 0..Blocks[ethFile.name]
  /\ rbBuf.s \in -1..2
  /\ lfState \in {"lfSGood", "lfSError"}
  /\ {spc, repeats, fileSize, bytes, packetsCounter} \subseteq Nat
  /\ tcp \in {"none", "pending", "up", "gone"}
  /\ reading \in 0..2
  /\ Fits(out)

\* Whatever is split, coalesced, repeated, lost or cut short, a file on the
\* console's disk is a prefix of the robot's file: no block missing, doubled or
\* foreign (readingTheFile, checkThePacket, sendFileViaEthHandler).  One thing
\* can take the place of a block: frames of a log that was started during a
\* transfer of this file, be it stopped again or not, which share the buffer with
\* a packet that is sent again.
CopyIsPrefix ==
  \A f \in Files :
    /\ Len(copy[f]) <= Blocks[f]
    /\ \A i \in 1..Len(copy[f]) :
         copy[f][i] = <<f, i>> \/ (f \in logged /\ copy[f][i] = LogBytes)

\* A transfer that ended because fileBytesCounter reached fileSize has every
\* block of the file (readingTheFile).
FinishedIsWhole == \A f \in finished : Len(copy[f]) = Blocks[f]

\* During a transfer the robot is at the packet the console waits for or at
\* the one before it, whatever was asked for again, so that checkThePacket
\* never jumps over a packet and sendFileViaEthHandler never meets the end of
\* the file early.
CountersAgree ==
  reading = 2 /\ infoHandler => packetsCounter \in {spc, spc + 1}

\* What this module promises to a reader of the console's disk.
Copy == INSTANCE FileCopy WITH
          alone <- budget.usb = MaxUsb,
          current <- IF reading = 2 THEN currentFileName ELSE NoFile

\* The protocol implements a plain copy as long as nothing comes over USB: the
\* file being received grows by its next block, is started again, given up or
\* finished, and no other file is touched (readingTheFile, do_write, process,
\* sendFileViaEthHandler).
ImplementsCopy == Copy!Spec

\* A request for a file is answered and a transfer that has begun ends, also when
\* pings come between, reads end inside a packet, a log is started and stopped,
\* the cable is pulled or the connection is lost, unless one of five things was
\* thrown away unread on this connection (process, ethLoop, readingTheFile,
\* sendFileViaEthHandler, ethFeed): a request behind another one in a read of the
\* robot, an answer or packet behind a ping, the end of transmission behind
\* something else, the file, by a failing fopen, or what the ring could not take.
TransferEnds == (reading # 0) ~> (reading = 0 \/ lost # {} \/ overrun)

\* A connection that is lost ends the transfer and frees the socket for the
\* next client, unless the cable is pulled before ethLoop sees the loss: the
\* branch for the missing link clears clientConnected, and the loss is then
\* never noticed (ethLoop).
LossNoticed ==
  (tcp = "gone" /\ link /\ clientConnected)
    ~> ((tcp = "none" /\ ~infoHandler) \/ ~link)
=============================================================================
