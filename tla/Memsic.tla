------------------------------- MODULE Memsic -------------------------------
(***************************************************************************)
(* The driver of the IMU, src/src/memsic.cpp, with what it uses of the SPI *)
(* library (transfer with DMA, SPI.cpp) and of EventResponder: its set-up, *)
(* and the way of a sample from the data-ready interrupt through a burst   *)
(* read and an event to the ring that the main loop empties.               *)
(*                                                                         *)
(* Three levels share the processor.  The interrupts of the data-ready pin *)
(* and of the DMA channel cannot interrupt each other, so each handler is  *)
(* one step.  They interrupt the event (PendSV, the lowest of the          *)
(* interrupts), which goes step by step, and both interrupt the main loop, *)
(* which stands still while the event runs.                                *)
(*                                                                         *)
(* The sensor has 10 ms for a sample and a burst read takes 0.6 ms; Late   *)
(* says what may nevertheless still be going on when the next sample is    *)
(* ready.  Samples are numbered, and the number of a sample is also the    *)
(* time at which it was ready.                                             *)
(***************************************************************************)
EXTENDS Integers, Sequences, FiniteSets

CONSTANTS
  RingSize,    \* capacity of hInfoRB1 (30)
  Late,        \* subset of {"dma", "event", "handler"}
  MaxSamples   \* bound: samples of the sensor

ASSUME MemsicAssumption ==
  /\ RingSize \in Nat \ {0}
  /\ MaxSamples \in Nat
  /\ Late \subseteq {"dma", "event", "handler"}

VARIABLES
  pc,                \* where the main program is in setupMemsic_3 or the loop
  selfTest,          \* how memsicTest ended
  oldMemsicStatus,   \* local variable of memsicTest
  rate,              \* sensor: data output is on
  n,                 \* sensor: number of the last sample
  memsicStatus,      \* -1, 0, 1 or 2
  memsicDataready,   \* 0, 1 or 2
  memsicDataReadTime,
  selected,          \* memsicSPISelectPin is LOW
  dma,               \* "idle", "first" or "second" half under way, "end"
  bInfoOut,          \* the burst: its two halves, and its byte order
  triggered,         \* _triggered of memsicResponder
  pending,           \* memsicResponder is in the list of PendSV
  er,                \* where the event is: "idle", "popped", "parse", "put", "ready"
  memsicInfo,        \* the sample to be put into the ring
  ring,              \* hInfoRB1
  count,             \* memsicIntCounter, memsicInt1Counter, ...
  last,              \* history: the sample given to the main loop last
  lost               \* history: samples overwritten or not put into the ring

sensorVars == <<rate, n>>
mainVars == <<pc, selfTest, oldMemsicStatus>>
spiVars == <<selected, dma, bInfoOut>>
eventVars == <<triggered, pending, er, memsicInfo>>
vars == <<mainVars, sensorVars, memsicStatus, memsicDataready,
          memsicDataReadTime, spiVars, eventVars, ring, count, last, lost>>

NoBurst == [first |-> 0, second |-> 0, swapped |-> FALSE]
NoInfo == [burst |-> NoBurst, time |-> 0]
NoCount == [int |-> 0, int1 |-> 0, read |-> 0, overflow |-> 0]

\* setupMemsic_3 has just attached the interrupt; the sensor, if it works,
\* begins to send by itself.
Init ==
  /\ pc = "wait"
  /\ selfTest = "none"
  /\ oldMemsicStatus = -1
  /\ rate \in BOOLEAN
  /\ n = 0
  /\ memsicStatus = 0
  /\ memsicDataready = 0
  /\ memsicDataReadTime = 0
  /\ selected = FALSE
  /\ dma = "idle"
  /\ bInfoOut = NoBurst
  /\ triggered = FALSE
  /\ pending = FALSE
  /\ er = "idle"
  /\ memsicInfo = NoInfo
  /\ ring = <<>>
  /\ count = NoCount
  /\ last = NoInfo
  /\ lost = {}

-----------------------------------------------------------------------------
(* The interrupts *)

\* What may be under way when the next sample is ready.
InTime == /\ dma = "idle" \/ "dma" \in Late
          /\ ~pending \/ "event" \in Late
          /\ er = "idle" \/ "handler" \in Late

\* memsicSPI.transfer: refused while a transfer is active, otherwise the event
\* is cleared if it is still waiting, and the DMA is started.
Transfer ==
  IF dma # "idle"
  THEN lost' = lost \cup {n'} /\ UNCHANGED <<dma, triggered, pending>>
  ELSE /\ dma' = "first"
       /\ triggered' = FALSE
       /\ pending' = FALSE
       /\ lost' = IF pending THEN lost \cup {bInfoOut.first} ELSE lost

\* dataR, the interrupt of the data-ready pin.
DataR ==
  /\ rate
  /\ n < MaxSamples
  /\ InTime
  /\ n' = n + 1
  /\ \/ /\ memsicStatus = 0
        /\ memsicStatus' = 1
        /\ count' = [count EXCEPT !.int = 0, !.int1 = 0]
        /\ UNCHANGED <<memsicDataready, memsicDataReadTime, spiVars, eventVars, lost>>
     \/ /\ memsicStatus = 2
        /\ memsicDataReadTime' = n'
        /\ memsicDataready' = 1
        /\ count' = [count EXCEPT !.int = @ + 1]
        /\ selected' = TRUE
        /\ Transfer
        /\ UNCHANGED <<memsicStatus, bInfoOut, er, memsicInfo>>
     \/ /\ memsicStatus \notin {0, 2}
        /\ UNCHANGED <<memsicStatus, memsicDataready, memsicDataReadTime,
                       count, spiVars, eventVars, lost>>
  /\ UNCHANGED <<mainVars, rate, ring, last>>

\* The DMA channel fills bInfoOut while the sensor is selected.
Dma ==
  /\ dma \in {"first", "second"}
  /\ LET value == IF selected THEN n ELSE 0
     IN  IF dma = "first"
         THEN bInfoOut' = [bInfoOut EXCEPT !.first = value, !.swapped = FALSE] /\ dma' = "second"
         ELSE bInfoOut' = [bInfoOut EXCEPT !.second = value] /\ dma' = "end"
  /\ UNCHANGED <<mainVars, sensorVars, memsicStatus, memsicDataready,
                 memsicDataReadTime, selected, eventVars, ring, count, last, lost>>

\* Mutant of DmaRxIsr: the event is marked but not queued.
MutDmaRxIsr ==
  /\ dma = "end"
  /\ dma' = "idle"
  /\ triggered' = TRUE
  /\ UNCHANGED <<mainVars, sensorVars, memsicStatus, memsicDataready,
                 memsicDataReadTime, selected, bInfoOut, pending, er, memsicInfo,
                 ring, count, last, lost>>

\* dma_rxisr: the transfer is over, the event is triggered.
DmaRxIsr ==
  /\ dma = "end"
  /\ dma' = "idle"
  /\ triggered' = TRUE
  /\ pending' = (pending \/ ~triggered)
  /\ UNCHANGED <<mainVars, sensorVars, memsicStatus, memsicDataready,
                 memsicDataReadTime, selected, bInfoOut, er, memsicInfo, ring,
                 count, last, lost>>

-----------------------------------------------------------------------------
(* The event *)

\* Mutant of ErPop: the responder stays in the list.
MutErPop ==
  /\ er = "idle"
  /\ pending
  /\ er' = "popped"
  /\ UNCHANGED <<mainVars, sensorVars, memsicStatus, memsicDataready,
                 memsicDataReadTime, spiVars, triggered, pending, memsicInfo,
                 ring, count, last, lost>>

\* runFromInterrupt takes the responder out of the list.
ErPop ==
  /\ er = "idle"
  /\ pending
  /\ pending' = FALSE
  /\ er' = "popped"
  /\ UNCHANGED <<mainVars, sensorVars, memsicStatus, memsicDataready,
                 memsicDataReadTime, spiVars, triggered, memsicInfo, ring,
                 count, last, lost>>

\* _triggered = false, and erFunction up to parceMemsicInt.
ErFunction ==
  /\ er = "popped"
  /\ triggered' = FALSE
  /\ selected' = FALSE
  /\ count' = [count EXCEPT !.int1 = @ + 1]
  /\ er' = "parse"
  /\ UNCHANGED <<mainVars, sensorVars, memsicStatus, memsicDataready,
                 memsicDataReadTime, dma, bInfoOut, pending, memsicInfo, ring,
                 last, lost>>

\* Mutant of Parse: the bytes of the burst are not swapped.
MutParse ==
  /\ memsicInfo' = [burst |-> bInfoOut, time |-> memsicDataReadTime]
  /\ count' = [count EXCEPT !.read = @ + 1]
  /\ er' = "put"
  /\ UNCHANGED <<bInfoOut, lost>>

\* parceMemsicInt with room in the ring: the burst is swapped where it is.
Parse ==
  /\ bInfoOut' = [bInfoOut EXCEPT !.swapped = ~@]
  /\ memsicInfo' = [burst |-> bInfoOut', time |-> memsicDataReadTime]
  /\ count' = [count EXCEPT !.read = @ + 1]
  /\ er' = "put"
  /\ UNCHANGED lost

\* Mutant of Full: one sample too many is put into the ring.
MutFull == Len(ring) > RingSize

Full == Len(ring) = RingSize

\* Mutant of ParceMemsicInt: with a full ring the sample is not counted.
MutParceMemsicInt ==
  /\ er = "parse"
  /\ \/ /\ Full
        /\ lost' = lost \cup {bInfoOut.first}
        /\ er' = "ready"
        /\ UNCHANGED <<bInfoOut, memsicInfo, count>>
     \/ ~Full /\ Parse
  /\ UNCHANGED <<mainVars, sensorVars, memsicStatus, memsicDataready,
                 memsicDataReadTime, selected, dma, triggered, pending, ring, last>>

\* parceMemsicInt up to the put.
ParceMemsicInt ==
  /\ er = "parse"
  /\ \/ /\ Full
        /\ count' = [count EXCEPT !.overflow = @ + 1]
        /\ lost' = lost \cup {bInfoOut.first}
        /\ er' = "ready"
        /\ UNCHANGED <<bInfoOut, memsicInfo>>
     \/ ~Full /\ Parse
  /\ UNCHANGED <<mainVars, sensorVars, memsicStatus, memsicDataready,
                 memsicDataReadTime, selected, dma, triggered, pending, ring, last>>

\* hInfoRB1.put
ErPut ==
  /\ er = "put"
  /\ ring' = Append(ring, memsicInfo)
  /\ er' = "ready"
  /\ UNCHANGED <<mainVars, sensorVars, memsicStatus, memsicDataready,
                 memsicDataReadTime, spiVars, triggered, pending, memsicInfo,
                 count, last, lost>>

\* The end of erFunction.
ErReady ==
  /\ er = "ready"
  /\ memsicDataready' = 2
  /\ er' = "idle"
  /\ UNCHANGED <<mainVars, sensorVars, memsicStatus, memsicDataReadTime,
                 spiVars, triggered, pending, memsicInfo, ring, count, last, lost>>

-----------------------------------------------------------------------------
(* The main program *)

\* A step of the main program from one place to another; it stands still while
\* an event waits or runs.
Main(from, to) ==
  /\ pc = from
  /\ er = "idle" /\ ~pending
  /\ pc' = to
  /\ UNCHANGED <<n, memsicDataready, memsicDataReadTime, spiVars, eventVars,
                 count, lost>>

\* setupMemsic_3 waits up to 1850 ms for the first sample, ...
WaitEnds ==
  /\ memsicStatus # 0
  /\ Main("wait", "config")
  /\ UNCHANGED <<selfTest, oldMemsicStatus, rate, memsicStatus, ring, last>>

\* ... which may also come after the wait and before the status is looked at.
WaitTimeout ==
  /\ memsicStatus = 0
  /\ Main("wait", "late")
  /\ UNCHANGED <<selfTest, oldMemsicStatus, rate, memsicStatus, ring, last>>
WaitResult ==
  /\ Main("late", IF memsicStatus = 0 THEN "loop" ELSE "config")
  /\ UNCHANGED <<selfTest, oldMemsicStatus, rate, memsicStatus, ring, last>>

\* Mutant of Config: the normal work mode begins before the self-test.
MutConfig ==
  /\ Main("config", "test")
  /\ rate' = TRUE
  /\ memsicStatus' = 2
  /\ UNCHANGED <<selfTest, oldMemsicStatus, ring, last>>

\* The commands that configure the sensor, the data rate first.
Config ==
  /\ Main("config", "test")
  /\ rate' = TRUE
  /\ UNCHANGED <<selfTest, oldMemsicStatus, memsicStatus, ring, last>>

\* memsicTest puts the status aside (memsicDataready is 0, there is no transfer
\* to wait for) ...
TestBegin ==
  /\ Main("test", "off")
  /\ oldMemsicStatus' = memsicStatus
  /\ memsicStatus' = -1
  /\ UNCHANGED <<selfTest, rate, ring, last>>

\* ... and switches the data output off.
TestOff ==
  /\ Main("off", "high")
  /\ rate' = FALSE
  /\ UNCHANGED <<selfTest, oldMemsicStatus, memsicStatus, ring, last>>

\* The self-test bit does not go high within 250 ms: memsicTest returns.
HighTimeout ==
  /\ Main("high", "clear")
  /\ selfTest' = "timeout"
  /\ UNCHANGED <<oldMemsicStatus, rate, memsicStatus, ring, last>>

\* It goes high, and then low within 500 ms or not.
TestEnds ==
  /\ Main("high", "on")
  /\ selfTest' \in {"complete", "slow"}
  /\ memsicStatus' = oldMemsicStatus
  /\ UNCHANGED <<oldMemsicStatus, rate, ring, last>>

\* Mutant of TestOn: the data output stays off.
MutTestOn ==
  /\ Main("on", "clear")
  /\ UNCHANGED <<selfTest, oldMemsicStatus, rate, memsicStatus, ring, last>>

TestOn ==
  /\ Main("on", "clear")
  /\ rate' = TRUE
  /\ UNCHANGED <<selfTest, oldMemsicStatus, memsicStatus, ring, last>>

\* The end of setupMemsic_3.
Clear ==
  /\ Main("clear", "work")
  /\ ring' = <<>>
  /\ UNCHANGED <<selfTest, oldMemsicStatus, rate, memsicStatus, last>>
Work ==
  /\ Main("work", "loop")
  /\ memsicStatus' = 2
  /\ UNCHANGED <<selfTest, oldMemsicStatus, rate, ring, last>>

\* processMemsicData: one get, with the interrupts disabled, and its callback.
ProcessMemsicData ==
  /\ ring # <<>>
  /\ Main("loop", "loop")
  /\ last' = Head(ring)
  /\ ring' = Tail(ring)
  /\ UNCHANGED <<selfTest, oldMemsicStatus, rate, memsicStatus>>

-----------------------------------------------------------------------------
Event == ErPop \/ ErFunction \/ ParceMemsicInt \/ ErPut \/ ErReady
Setup == \/ WaitEnds \/ WaitTimeout \/ WaitResult \/ Config \/ TestBegin \/ TestOff
         \/ HighTimeout \/ TestEnds \/ TestOn \/ Clear \/ Work
Next == DataR \/ Dma \/ DmaRxIsr \/ Event \/ Setup \/ ProcessMemsicData

Spec == Init /\ [][Next]_vars

\* A transfer ends, its interrupt and the event are served, and the main
\* program goes on.
FairSpec == /\ Spec
            /\ WF_vars(Dma \/ DmaRxIsr)
            /\ WF_vars(Event)
            /\ WF_vars(Setup \/ ProcessMemsicData)

-----------------------------------------------------------------------------
Burst == [first : 0..MaxSamples, second : 0..MaxSamples, swapped : BOOLEAN]
Info == [burst : Burst, time : 0..MaxSamples]

\* The types; the ring of samples never holds more than its size.
TypeOK ==
  /\ pc \in {"wait", "late", "config", "test", "off", "high", "on", "clear",
            "work", "loop"}
  /\ selfTest \in {"none", "timeout", "slow", "complete"}
  /\ {oldMemsicStatus, memsicStatus} \subseteq {-1, 0, 1, 2}
  /\ {rate, selected, triggered, pending} \subseteq BOOLEAN
  /\ n \in 0..MaxSamples
  /\ memsicDataready \in {0, 1, 2}
  /\ memsicDataReadTime \in 0..MaxSamples
  /\ dma \in {"idle", "first", "second", "end"}
  /\ bInfoOut \in Burst
  /\ er \in {"idle", "popped", "parse", "put", "ready"}
  /\ {memsicInfo, last} \subseteq Info
  /\ ring \in Seq(Info) /\ Len(ring) <= RingSize
  /\ count \in [{"int", "int1", "read", "overflow"} -> 0..MaxSamples]
  /\ lost \subseteq 1..MaxSamples

\* The samples the main loop has or will get.
Given == IF last = NoInfo THEN ring ELSE <<last>> \o ring

\* A sample is made of the bytes of one burst, in the order of this processor,
\* and has the time at which it was ready, though bInfoOut and
\* memsicDataReadTime are shared by three levels (dataR, parceMemsicInt).
SamplesWhole ==
  \A k \in 1..Len(Given) :
    LET b == Given[k].burst
    IN  b.first = b.second /\ b.first = Given[k].time /\ b.first > 0 /\ b.swapped

\* Samples are given to the main loop in order, and none twice.
InOrder ==
  \A j, k \in 1..Len(Given) : j < k => Given[j].burst.first < Given[k].burst.first

\* The counters that memsicPrint shows account for every sample: the interrupts
\* without an event are under way or were overwritten, the events without a
\* sample in the ring found it full.
Accounted ==
  /\ count.int - count.int1 =
       Cardinality(lost) - count.overflow
         + IF dma # "idle" \/ pending \/ er = "popped" THEN 1 ELSE 0
  /\ count.int1 = count.read + count.overflow + IF er = "parse" THEN 1 ELSE 0
  /\ Cardinality(lost) >= count.overflow

\* The commands of the set-up have the bus for themselves: no burst is read and
\* no event runs before the loop begins (memsicStatus keeps dataR from it).
SetupAlone == pc # "loop" => dma = "idle" /\ ~pending /\ er = "idle" /\ ring = <<>>

\* In "normal work mode" the sensor sends, unless the self-test bit did not go
\* high: memsicTest then returns with the data output switched off.
NormalWorkMode == memsicStatus = 2 => rate \/ selfTest = "timeout"

\* Every sample that dataR has noted is given to the main loop, or is lost
\* because the ring was full or the next sample was early.
SampleArrives ==
  \A k \in 1..MaxSamples :
    (memsicDataReadTime = k) ~> (k \in lost \/ last.time >= k)
=============================================================================
