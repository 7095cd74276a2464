--------------------------- MODULE Memsic_proofs ---------------------------
(***************************************************************************)
(* The driver of the IMU, for every ring size and number of samples: the   *)
(* set-up has the bus for itself, a sample is made of one burst, samples   *)
(* stay in order and the counters account for each of them.                *)
(***************************************************************************)
EXTENDS Memsic, FiniteSetTheorems, SequenceTheorems, TLAPS

-----------------------------------------------------------------------------
(* The inductive invariants *)

\* A burst is being read, or its event waits or runs.
Busy == dma # "idle" \/ pending \/ er # "idle"

\* What the set-up keeps: before the normal work mode nothing is read and
\* nothing counted, and the status never goes back to 2 through memsicTest.
SetupInv ==
  /\ pc \in {"wait", "late", "config", "test", "off", "high", "on", "clear",
             "work", "loop"}
  /\ oldMemsicStatus \in {-1, 0, 1}
  /\ memsicStatus \in {-1, 0, 1, 2}
  /\ memsicStatus = 2 => pc = "loop"
  /\ memsicStatus # 2 => ~Busy /\ ring = <<>> /\ count = NoCount /\ lost = {}
  /\ pc \in {"clear", "work"} => rate \/ selfTest = "timeout"
  /\ NormalWorkMode

\* The types of what dataR, the DMA channel and the event share.
DriverType ==
  /\ n \in 0..MaxSamples
  /\ rate \in BOOLEAN /\ selected \in BOOLEAN /\ triggered \in BOOLEAN /\ pending \in BOOLEAN
  /\ selfTest \in {"none", "timeout", "slow", "complete"}
  /\ memsicDataready \in {0, 1, 2}
  /\ memsicDataReadTime \in 0..MaxSamples
  /\ dma \in {"idle", "first", "second", "end"}
  /\ er \in {"idle", "popped", "parse", "put", "ready"}
  /\ bInfoOut \in Burst
  /\ memsicInfo \in Info
  /\ last \in Info
  /\ ring \in Seq(Info) /\ Len(ring) <= RingSize

\* One burst at a time is on its way, and which half of it has been read.
BurstInv ==
  /\ dma # "idle" => ~pending /\ er = "idle" /\ ~triggered
  /\ pending => er = "idle"
  /\ dma \in {"first", "second"} => selected
  /\ Busy => n > 0 /\ memsicDataReadTime = n
  /\ dma \in {"second", "end"} \/ pending \/ er \in {"popped", "parse"}
       => bInfoOut.first = n /\ ~bInfoOut.swapped
  /\ dma = "end" \/ pending \/ er \in {"popped", "parse"} => bInfoOut.second = n

\* A sample of one burst, with the time at which it was ready.
Whole(x) ==
  /\ x.burst.first = x.time
  /\ x.burst.second = x.time
  /\ x.burst.swapped
  /\ x.time > 0

\* The sample under way is newer than every sample in the ring; the ring has
\* room for it when it is put, and the samples in it are whole and in order.
RingInv ==
  /\ er = "put" => Whole(memsicInfo) /\ memsicInfo.time = n /\ Len(ring) < RingSize
  /\ last = NoInfo \/ Whole(last)
  /\ \A k \in 1..Len(ring) : Whole(ring[k]) /\ last.time < ring[k].time /\ ring[k].time <= n
  /\ \A j, k \in 1..Len(ring) : j < k => ring[j].time < ring[k].time
  /\ last.time <= n
  /\ Busy /\ er # "ready" =>
       last.time < n /\ \A k \in 1..Len(ring) : ring[k].time < n

\* The samples lost are samples of the past, and the counters add up.
CountInv ==
  /\ count \in [{"int", "int1", "read", "overflow"} -> Nat]
  /\ count.int <= n
  /\ lost \subseteq 1..n
  /\ Busy /\ er # "ready" => n \notin lost
  /\ Accounted

DriverInv == DriverType /\ BurstInv /\ RingInv /\ CountInv
-----------------------------------------------------------------------------
(* The set-up, with whatever is late *)

LEMMA SetupInit == Init => SetupInv
  BY DEF Init, SetupInv, Busy, NormalWorkMode

LEMMA SetupDataR == SetupInv /\ DataR => SetupInv'
<1> SUFFICES ASSUME SetupInv, DataR PROVE SetupInv'
  OBVIOUS
<1>1. UNCHANGED <<pc, selfTest, oldMemsicStatus, rate, ring>>
  BY DEF DataR, mainVars
<1>2. CASE memsicStatus = 0
  <2>1. memsicStatus' = 1 /\ UNCHANGED <<dma, pending, er, lost>>
    BY <1>2 DEF DataR, spiVars, eventVars
  <2>2. count = NoCount /\ count' = [count EXCEPT !.int = 0, !.int1 = 0]
    BY <1>2 DEF DataR, SetupInv
  <2>3. count' = NoCount
    BY ONLY <2>2 DEF NoCount
  <2> QED BY <1>1, <1>2, <2>1, <2>3 DEF SetupInv, Busy, NormalWorkMode
<1>3. CASE memsicStatus = 2
  BY <1>1, <1>3 DEF DataR, SetupInv, Busy, NormalWorkMode
<1>4. CASE memsicStatus \notin {0, 2}
  BY <1>1, <1>4 DEF DataR, spiVars, eventVars, SetupInv, Busy, NormalWorkMode
<1> QED BY <1>2, <1>3, <1>4

LEMMA SetupEvent ==
  ASSUME SetupInv, Dma \/ DmaRxIsr \/ Event PROVE SetupInv'
<1>1. memsicStatus = 2
  BY DEF SetupInv, Busy, Dma, DmaRxIsr, Event, ErPop, ErFunction, ParceMemsicInt,
         ErPut, ErReady
<1>2. UNCHANGED <<pc, selfTest, oldMemsicStatus, rate, memsicStatus>>
  BY DEF Dma, DmaRxIsr, Event, ErPop, ErFunction, ParceMemsicInt, ErPut, ErReady,
         mainVars, sensorVars
<1> QED BY <1>1, <1>2 DEF SetupInv, NormalWorkMode

\* A step of the main program leaves the bus, the event and the counters alone.
LEMMA SetupMain == ASSUME SetupInv, Setup \/ ProcessMemsicData PROVE SetupInv'
<1>1. UNCHANGED <<dma, pending, er, count, lost>>
  BY DEF Setup, WaitEnds, WaitTimeout, WaitResult, Config, TestBegin, TestOff,
         HighTimeout, TestEnds, TestOn, Clear, Work, ProcessMemsicData, Main,
         spiVars, eventVars
<1>2. Busy' = Busy
  BY <1>1 DEF Busy
<1>3. CASE WaitEnds \/ WaitTimeout \/ WaitResult \/ Config
  BY <1>1, <1>2, <1>3 DEF WaitEnds, WaitTimeout, WaitResult, Config, Main, SetupInv,
     NormalWorkMode
<1>4. CASE TestBegin \/ TestOff \/ HighTimeout \/ TestEnds \/ TestOn
  BY <1>1, <1>2, <1>4 DEF TestBegin, TestOff, HighTimeout, TestEnds, TestOn, Main,
     SetupInv, NormalWorkMode
<1>5. CASE Clear \/ Work
  BY <1>1, <1>2, <1>5 DEF Clear, Work, Main, SetupInv, NormalWorkMode
<1>6. CASE ProcessMemsicData
  BY <1>1, <1>2, <1>6 DEF ProcessMemsicData, Main, SetupInv, NormalWorkMode
<1> QED BY <1>3, <1>4, <1>5, <1>6 DEF Setup

LEMMA SetupNext == SetupInv /\ [Next]_vars => SetupInv'
<1> SUFFICES ASSUME SetupInv, [Next]_vars PROVE SetupInv'
  OBVIOUS
<1>1. CASE UNCHANGED vars
  BY <1>1 DEF vars, mainVars, sensorVars, spiVars, eventVars, SetupInv, Busy,
     NormalWorkMode
<1> QED BY <1>1, SetupDataR, SetupEvent, SetupMain DEF Next

LEMMA SetupAlways == Spec => []SetupInv
  BY SetupInit, SetupNext, PTL DEF Spec

\* The commands of setupMemsic_3 and memsicTest have the bus for themselves,
\* however late a burst, its event or its handler may be.
THEOREM SetupHasBus == Spec => []SetupAlone
<1>1. SetupInv => SetupAlone
  BY DEF SetupInv, SetupAlone, Busy
<1> QED BY <1>1, SetupAlways, PTL

\* In the normal work mode the sensor sends, unless the self-test timed out.
THEOREM WorkModeSends == Spec => []NormalWorkMode
<1>1. SetupInv => NormalWorkMode
  BY DEF SetupInv
<1> QED BY <1>1, SetupAlways, PTL
-----------------------------------------------------------------------------
(* The way of a sample: at most an event is late                            *)

LEMMA CountType ==
  ASSUME NEW x \in [{"int", "int1", "read", "overflow"} -> Nat]
  PROVE  x.int \in Nat /\ x.int1 \in Nat /\ x.read \in Nat /\ x.overflow \in Nat
  OBVIOUS

LEMMA LostFinite ==
  ASSUME NEW m \in Nat, NEW S \in SUBSET (1..m)
  PROVE  IsFiniteSet(S) /\ Cardinality(S) \in Nat
<1>1. IsFiniteSet(1..m)
  BY FS_Interval
<1>2. IsFiniteSet(S)
  BY <1>1, FS_Subset
<1> QED BY <1>2, FS_CardinalityType

\* One more sample is lost.
LEMMA LostAdd ==
  ASSUME NEW m \in Nat, NEW S \in SUBSET (1..m), NEW x \in (1..m) \ S
  PROVE  /\ S \cup {x} \in SUBSET (1..m)
         /\ Cardinality(S \cup {x}) = Cardinality(S) + 1
  BY LostFinite, FS_AddElement

LEMMA DriverInit == Init => DriverInv
<1> SUFFICES ASSUME Init PROVE DriverInv
  OBVIOUS
<1>1. MaxSamples \in Nat /\ RingSize \in Nat
  BY MemsicAssumption
<1>2. NoBurst \in Burst
  BY <1>1 DEF NoBurst, Burst
<1>3. NoInfo \in Info
  BY <1>1, <1>2 DEF NoInfo, Info
<1>4. <<>> \in Seq(Info) /\ Len(<<>>) = 0
  OBVIOUS
<1>5. DriverType
  <2>1. Len(ring) <= RingSize
    BY <1>1, <1>4 DEF Init
  <2>2. /\ rate \in BOOLEAN /\ selected \in BOOLEAN
        /\ triggered \in BOOLEAN /\ pending \in BOOLEAN
    BY DEF Init
  <2>3. n \in 0..MaxSamples /\ memsicDataReadTime \in 0..MaxSamples
    BY <1>1 DEF Init
  <2>4. bInfoOut \in Burst /\ memsicInfo \in Info /\ last \in Info /\ ring \in Seq(Info)
    BY <1>2, <1>3, <1>4 DEF Init
  <2> QED BY <2>1, <2>2, <2>3, <2>4 DEF Init, DriverType
<1>6. BurstInv
  BY DEF Init, BurstInv, Busy
<1>7. RingInv
  <2>1. last.time = 0
    BY DEF Init, NoInfo
  <2> QED BY <1>4, <2>1 DEF Init, RingInv, Busy
<1>8. CountInv
  <2>1. count \in [{"int", "int1", "read", "overflow"} -> Nat]
    BY DEF Init, NoCount
  <2>2. count.int = 0 /\ count.int1 = 0 /\ count.read = 0 /\ count.overflow = 0
    BY DEF Init, NoCount
  <2>3. Cardinality(lost) = 0
    BY FS_EmptySet DEF Init
  <2> QED BY <2>1, <2>2, <2>3 DEF Init, CountInv, Accounted, Busy
<1> QED BY <1>5, <1>6, <1>7, <1>8 DEF DriverInv

\* The set-up changes nothing of a sample's way: the ring that it clears is
\* empty.
LEMMA DriverSetup == ASSUME SetupInv, DriverInv, Setup PROVE DriverInv'
<1>1. /\ UNCHANGED <<n, memsicDataready, memsicDataReadTime, selected, dma, bInfoOut,
                     triggered, pending, er, memsicInfo, ring, count, last, lost>>
      /\ rate' \in BOOLEAN
      /\ selfTest' \in {"none", "timeout", "slow", "complete"}
  <2>1. CASE WaitEnds \/ WaitTimeout \/ WaitResult \/ Config
    BY <2>1 DEF WaitEnds, WaitTimeout, WaitResult, Config, Main, spiVars, eventVars,
       DriverInv, DriverType
  <2>2. CASE TestBegin \/ TestOff \/ HighTimeout \/ TestEnds \/ TestOn
    BY <2>2 DEF TestBegin, TestOff, HighTimeout, TestEnds, TestOn, Main, spiVars,
       eventVars, DriverInv, DriverType
  <2>3. CASE Clear \/ Work
    BY <2>3 DEF Clear, Work, Main, spiVars, eventVars, DriverInv, DriverType, SetupInv
  <2> QED BY <2>1, <2>2, <2>3 DEF Setup
<1> QED BY <1>1 DEF DriverInv, DriverType, BurstInv, RingInv, CountInv, Accounted, Busy

\* The oldest sample goes to the main loop.
LEMMA DriverProcess == ASSUME DriverInv, ProcessMemsicData PROVE DriverInv'
<1>1. /\ UNCHANGED <<n, memsicDataready, memsicDataReadTime, selected, dma, bInfoOut,
                     triggered, pending, er, memsicInfo, count, lost, rate, selfTest>>
      /\ ring # <<>> /\ last' = Head(ring) /\ ring' = Tail(ring)
      /\ er = "idle"
  BY DEF ProcessMemsicData, Main, spiVars, eventVars
<1>2. ring \in Seq(Info) /\ Len(ring) <= RingSize
  BY DEF DriverInv, DriverType
<1>3. /\ Head(ring) \in Info /\ Tail(ring) \in Seq(Info)
      /\ Head(ring) = ring[1]
      /\ Len(ring) \in Nat \ {0} /\ Len(Tail(ring)) = Len(ring) - 1
      /\ \A k \in 1..Len(Tail(ring)) : Tail(ring)[k] = ring[k + 1]
  BY <1>1, <1>2, HeadTailProperties, EmptySeq, LenProperties
<1>4. DriverType'
  BY <1>1, <1>2, <1>3, MemsicAssumption DEF DriverInv, DriverType
<1>5. BurstInv' /\ CountInv'
  BY <1>1 DEF DriverInv, BurstInv, CountInv, Accounted, Busy
<1>6. RingInv'
  <2>1. \A k \in 1..Len(ring') : k + 1 \in 1..Len(ring) /\ ring'[k] = ring[k + 1] /\ 1 < k + 1
    BY <1>1, <1>3
  <2>2. 1 \in 1..Len(ring)
    BY <1>3
  <2>3. Whole(last') /\ last'.time <= n /\ (Busy => last'.time < n)
    BY <1>1, <1>3, <2>2 DEF DriverInv, RingInv
  <2>4. \A k \in 1..Len(ring') :
          /\ Whole(ring'[k]) /\ last'.time < ring'[k].time /\ ring'[k].time <= n
          /\ Busy => ring'[k].time < n
    BY <1>1, <1>3, <2>1, <2>2 DEF DriverInv, RingInv
  <2>5. \A j, k \in 1..Len(ring') : j < k => ring'[j].time < ring'[k].time
    <3> SUFFICES ASSUME NEW j \in 1..Len(ring'), NEW k \in 1..Len(ring'), j < k
                 PROVE  ring'[j].time < ring'[k].time
      OBVIOUS
    <3>1. j + 1 < k + 1 /\ j + 1 \in 1..Len(ring) /\ k + 1 \in 1..Len(ring)
      BY <2>1
    <3>2. ring[j + 1].time < ring[k + 1].time
      BY <3>1 DEF DriverInv, RingInv
    <3> QED BY <2>1, <3>2
  <2> QED BY <1>1, <2>3, <2>4, <2>5 DEF RingInv, Busy
<1> QED BY <1>4, <1>5, <1>6 DEF DriverInv
\* A sample outside the normal work mode is not read: nothing is under way.
LEMMA DriverDataRSetup ==
  ASSUME SetupInv, DriverInv, DataR, memsicStatus # 2 PROVE DriverInv'
<1>1. /\ UNCHANGED <<memsicDataready, memsicDataReadTime, selected, dma, bInfoOut,
                     triggered, pending, er, memsicInfo, ring, last, lost, rate, selfTest>>
      /\ n' = n + 1 /\ n < MaxSamples
  BY DEF DataR, mainVars, spiVars, eventVars
<1>2. ~Busy /\ ring = <<>> /\ lost = {} /\ count = NoCount
  BY DEF SetupInv
<1>3. count' = count
  <2>1. CASE memsicStatus = 0
    <3>1. count' = [NoCount EXCEPT !.int = 0, !.int1 = 0]
      BY <1>2, <2>1 DEF DataR
    <3>2. count' = NoCount
      BY ONLY <3>1 DEF NoCount
    <3> QED BY <1>2, <3>2
  <2>2. CASE memsicStatus # 0
    BY <2>2 DEF DataR
  <2> QED BY <2>1, <2>2
<1>4. n \in Nat /\ n' \in 0..MaxSamples /\ n <= n'
  BY <1>1, MemsicAssumption DEF DriverInv, DriverType
<1>5. ~Busy'
  BY <1>1, <1>2 DEF Busy
<1>6. DriverType'
  BY <1>1, <1>4 DEF DriverInv, DriverType
<1>7. BurstInv'
  BY <1>1, <1>5 DEF BurstInv, Busy
<1>8. RingInv'
  <2>1. last.time \in Nat /\ last.time <= n /\ (last = NoInfo \/ Whole(last))
    BY MemsicAssumption DEF DriverInv, DriverType, RingInv, Info
  <2>2. Len(ring') = 0 /\ er' # "put"
    BY <1>1, <1>2, <1>5 DEF Busy
  <2> QED BY <1>1, <1>4, <1>5, <2>1, <2>2 DEF RingInv
<1>9. CountInv'
  <2>1. count.int \in Nat /\ count.int <= n
    BY CountType DEF DriverInv, CountInv
  <2>2. lost' \subseteq 1..n' /\ n' \notin lost'
    BY <1>1, <1>2
  <2>3. Accounted'
    BY <1>1, <1>3 DEF DriverInv, CountInv, Accounted
  <2> QED BY <1>3, <1>4, <2>1, <2>2, <2>3 DEF DriverInv, CountInv
<1> QED BY <1>6, <1>7, <1>8, <1>9 DEF DriverInv

\* A sample of the normal work mode starts a burst; an event that still waits
\* is cleared and its sample is lost.
LEMMA DriverDataRWork ==
  ASSUME Late \subseteq {"event"}, DriverInv, DataR, memsicStatus = 2
  PROVE  DriverInv'
<1>1. /\ UNCHANGED <<bInfoOut, er, memsicInfo, ring, last, rate, selfTest>>
      /\ n' = n + 1 /\ n < MaxSamples
      /\ memsicDataReadTime' = n' /\ memsicDataready' = 1
      /\ count' = [count EXCEPT !.int = count.int + 1]
      /\ selected' = TRUE
  BY DEF DataR, mainVars
<1>2. dma = "idle" /\ er = "idle"
  BY DEF DataR, InTime
<1>3. /\ dma' = "first" /\ triggered' = FALSE /\ pending' = FALSE
      /\ lost' = IF pending THEN lost \cup {bInfoOut.first} ELSE lost
  BY <1>2 DEF DataR, Transfer
<1>4. n \in Nat /\ n' \in 0..MaxSamples /\ n' > 0 /\ n < n'
  BY <1>1, MemsicAssumption DEF DriverInv, DriverType
<1>5. DriverType'
  BY <1>1, <1>3, <1>4 DEF DriverInv, DriverType
<1>6. BurstInv'
  BY <1>1, <1>2, <1>3, <1>4 DEF BurstInv, Busy
<1>7. RingInv'
  <2>1. last.time \in Nat /\ last.time <= n /\ (last = NoInfo \/ Whole(last))
    BY MemsicAssumption DEF DriverInv, DriverType, RingInv, Info
  <2>2. \A k \in 1..Len(ring) : ring[k].time \in Nat /\ ring[k].time <= n
    <3> SUFFICES ASSUME NEW k \in 1..Len(ring) PROVE ring[k].time \in Nat /\ ring[k].time <= n
      OBVIOUS
    <3>1. ring[k] \in Info
      BY ElementOfSeq DEF DriverInv, DriverType
    <3> QED BY <3>1, MemsicAssumption DEF DriverInv, RingInv, Info
  <2>3. \A k \in 1..Len(ring) : Whole(ring[k]) /\ last.time < ring[k].time
    BY DEF DriverInv, RingInv
  <2>4. \A k \in 1..Len(ring) : ring[k].time <= n' /\ ring[k].time < n'
    BY <1>4, <2>2
  <2>5. last.time <= n' /\ last.time < n'
    BY <1>4, <2>1
  <2>6. \A j, k \in 1..Len(ring) : j < k => ring[j].time < ring[k].time
    BY DEF DriverInv, RingInv
  <2> QED BY <1>1, <1>2, <2>1, <2>3, <2>4, <2>5, <2>6 DEF RingInv
<1>8. CountInv'
  <2>1. /\ count \in [{"int", "int1", "read", "overflow"} -> Nat]
        /\ count.int \in Nat /\ count.int1 \in Nat /\ count.read \in Nat /\ count.overflow \in Nat
        /\ count.int <= n
    BY CountType DEF DriverInv, CountInv
  <2>2. /\ count' \in [{"int", "int1", "read", "overflow"} -> Nat]
        /\ count'.int = count.int + 1 /\ count'.int1 = count.int1
        /\ count'.read = count.read /\ count'.overflow = count.overflow
    BY ONLY <1>1, <2>1
  <2>3. lost \in SUBSET (1..n) /\ Cardinality(lost) \in Nat
    BY <1>4, LostFinite DEF DriverInv, CountInv
  <2>4. lost' \in SUBSET (1..n) /\ Cardinality(lost') = Cardinality(lost) + (IF pending THEN 1 ELSE 0)
    <3>1. CASE pending
      <4>1. bInfoOut.first = n /\ n > 0 /\ n \notin lost
        BY <1>2, <3>1 DEF DriverInv, BurstInv, CountInv, Busy
      <4>2. n \in (1..n) \ lost
        BY <1>4, <4>1
      <4> QED BY <1>3, <1>4, <2>3, <3>1, <4>1, <4>2, LostAdd
    <3>2. CASE ~pending
      BY <1>3, <2>3, <3>2
    <3> QED BY <3>1, <3>2
  <2>5. lost' \subseteq 1..n' /\ n' \notin lost' /\ count'.int <= n'
    BY <1>1, <1>4, <2>1, <2>2, <2>4
  <2>6. Accounted'
    <3>1. /\ count.int - count.int1 =
               Cardinality(lost) - count.overflow + (IF pending THEN 1 ELSE 0)
          /\ count.int1 = count.read + count.overflow
          /\ Cardinality(lost) >= count.overflow
      BY <1>2 DEF DriverInv, CountInv, Accounted
    <3>2. /\ count'.int - count'.int1 = Cardinality(lost') - count'.overflow + 1
          /\ Cardinality(lost') >= count'.overflow
      BY <2>1, <2>2, <2>3, <2>4, <3>1
    <3> QED BY <1>1, <1>2, <1>3, <2>2, <3>1, <3>2 DEF Accounted
  <2> QED BY <2>2, <2>5, <2>6 DEF CountInv
<1> QED BY <1>5, <1>6, <1>7, <1>8 DEF DriverInv
\* The DMA channel reads a half of the burst while the sensor is selected.
LEMMA DriverDma == ASSUME DriverInv, Dma PROVE DriverInv'
<1>1. /\ UNCHANGED <<n, rate, selfTest, memsicDataready, memsicDataReadTime, selected,
                     triggered, pending, er, memsicInfo, ring, last, count, lost>>
      /\ dma \in {"first", "second"}
  BY DEF Dma, mainVars, sensorVars, eventVars
<1>2. selected /\ ~pending /\ er = "idle" /\ ~triggered /\ n > 0 /\ memsicDataReadTime = n
  BY <1>1 DEF DriverInv, BurstInv, Busy
<1>3. /\ dma = "first" => /\ bInfoOut' = [bInfoOut EXCEPT !.first = n, !.swapped = FALSE]
                          /\ dma' = "second"
      /\ dma = "second" => /\ bInfoOut' = [bInfoOut EXCEPT !.second = n]
                           /\ dma' = "end"
  BY <1>2 DEF Dma
<1>4. bInfoOut \in Burst /\ n \in 0..MaxSamples
  BY DEF DriverInv, DriverType
<1>5. CASE dma = "first"
  <2>1. /\ bInfoOut' \in Burst
        /\ bInfoOut'.first = n /\ bInfoOut'.swapped = FALSE
    BY <1>3, <1>4, <1>5 DEF Burst
  <2>2. dma' = "second"
    BY <1>3, <1>5
  <2>3. DriverType'
    BY <1>1, <2>1, <2>2 DEF DriverInv, DriverType
  <2>4. BurstInv'
    BY <1>1, <1>2, <2>1, <2>2 DEF BurstInv, Busy
  <2>5. RingInv' /\ CountInv'
    BY <1>1, <1>2, <2>2 DEF DriverInv, RingInv, CountInv, Accounted, Busy
  <2> QED BY <2>3, <2>4, <2>5 DEF DriverInv
<1>6. CASE dma = "second"
  <2>1. bInfoOut.first = n /\ ~bInfoOut.swapped
    BY <1>6 DEF DriverInv, BurstInv
  <2>2. /\ bInfoOut' \in Burst
        /\ bInfoOut'.first = bInfoOut.first /\ bInfoOut'.second = n
        /\ bInfoOut'.swapped = bInfoOut.swapped
    BY <1>3, <1>4, <1>6 DEF Burst
  <2>3. dma' = "end"
    BY <1>3, <1>6
  <2>4. DriverType'
    BY <1>1, <2>2, <2>3 DEF DriverInv, DriverType
  <2>5. BurstInv'
    BY <1>1, <1>2, <2>1, <2>2, <2>3 DEF BurstInv, Busy
  <2>6. RingInv' /\ CountInv'
    BY <1>1, <1>2, <2>3 DEF DriverInv, RingInv, CountInv, Accounted, Busy
  <2> QED BY <2>4, <2>5, <2>6 DEF DriverInv
<1> QED BY <1>1, <1>5, <1>6

\* The interrupt of the DMA channel queues the event, which does not wait yet.
LEMMA DriverDmaRxIsr == ASSUME DriverInv, DmaRxIsr PROVE DriverInv'
<1>1. /\ UNCHANGED <<n, rate, selfTest, memsicDataready, memsicDataReadTime, selected,
                     bInfoOut, er, memsicInfo, ring, last, count, lost>>
      /\ dma = "end" /\ dma' = "idle" /\ triggered' = TRUE
      /\ pending' = (pending \/ ~triggered)
  BY DEF DmaRxIsr, mainVars, sensorVars
<1>2. er = "idle" /\ ~triggered /\ ~pending
  BY <1>1 DEF DriverInv, BurstInv
<1>3. pending' = TRUE
  BY <1>1, <1>2
<1>4. DriverType'
  BY <1>1, <1>3 DEF DriverInv, DriverType
<1>5. BurstInv'
  BY <1>1, <1>2, <1>3 DEF DriverInv, BurstInv, Busy
<1>6. RingInv' /\ CountInv'
  BY <1>1, <1>2, <1>3 DEF DriverInv, RingInv, CountInv, Accounted, Busy
<1> QED BY <1>4, <1>5, <1>6 DEF DriverInv

LEMMA DriverErPop == ASSUME DriverInv, ErPop PROVE DriverInv'
<1>1. /\ UNCHANGED <<n, rate, selfTest, memsicDataready, memsicDataReadTime, selected, dma,
                     bInfoOut, triggered, memsicInfo, ring, last, count, lost>>
      /\ er = "idle" /\ pending /\ pending' = FALSE /\ er' = "popped"
  BY DEF ErPop, mainVars, sensorVars, spiVars
<1>2. dma = "idle"
  BY <1>1 DEF DriverInv, BurstInv, DriverType
<1>3. DriverType'
  BY <1>1 DEF DriverInv, DriverType
<1>4. BurstInv'
  BY <1>1, <1>2 DEF DriverInv, BurstInv, Busy
<1>5. RingInv' /\ CountInv'
  BY <1>1, <1>2 DEF DriverInv, RingInv, CountInv, Accounted, Busy
<1> QED BY <1>3, <1>4, <1>5 DEF DriverInv

\* Nothing is read while the handler runs.
LEMMA HandlerAlone == ASSUME DriverInv, er # "idle" PROVE dma = "idle" /\ ~pending
  BY DEF DriverInv, BurstInv, DriverType

LEMMA LostCard ==
  ASSUME DriverInv
  PROVE  n \in Nat /\ lost \in SUBSET (1..n) /\ Cardinality(lost) \in Nat
<1>1. n \in Nat
  BY MemsicAssumption DEF DriverInv, DriverType
<1>2. lost \in SUBSET (1..n)
  BY DEF DriverInv, CountInv
<1> QED BY <1>1, <1>2, LostFinite

LEMMA DriverErFunction == ASSUME DriverInv, ErFunction PROVE DriverInv'
<1>1. /\ UNCHANGED <<n, rate, selfTest, memsicDataready, memsicDataReadTime, dma,
                     bInfoOut, pending, memsicInfo, ring, last, lost>>
      /\ er = "popped" /\ er' = "parse" /\ triggered' = FALSE /\ selected' = FALSE
      /\ count' = [count EXCEPT !.int1 = count.int1 + 1]
  BY DEF ErFunction, mainVars, sensorVars
<1>2. dma = "idle" /\ ~pending
  BY <1>1, HandlerAlone
<1>3. DriverType'
  BY <1>1 DEF DriverInv, DriverType
<1>4. BurstInv'
  BY <1>1, <1>2 DEF DriverInv, BurstInv, Busy
<1>5. RingInv'
  BY <1>1, <1>2 DEF DriverInv, RingInv, Busy
<1>6. CountInv'
  <2>1. /\ count \in [{"int", "int1", "read", "overflow"} -> Nat]
        /\ count.int \in Nat /\ count.int1 \in Nat /\ count.read \in Nat /\ count.overflow \in Nat
    BY CountType DEF DriverInv, CountInv
  <2>2. /\ count' \in [{"int", "int1", "read", "overflow"} -> Nat]
        /\ count'.int = count.int /\ count'.int1 = count.int1 + 1
        /\ count'.read = count.read /\ count'.overflow = count.overflow
    BY ONLY <1>1, <2>1
  <2>3. Cardinality(lost) \in Nat
    BY LostCard
  <2>4. /\ count.int - count.int1 = Cardinality(lost) - count.overflow + 1
        /\ count.int1 = count.read + count.overflow
        /\ Cardinality(lost) >= count.overflow
    BY <1>1, <2>1, <2>3 DEF DriverInv, CountInv, Accounted
  <2>5. Accounted'
    BY <1>1, <1>2, <2>1, <2>2, <2>3, <2>4 DEF Accounted
  <2> QED BY <1>1, <2>2, <2>5 DEF DriverInv, CountInv, Busy
<1> QED BY <1>3, <1>4, <1>5, <1>6 DEF DriverInv
\* parceMemsicInt with a full ring: the sample is lost and counted.
LEMMA DriverOverflow ==
  ASSUME DriverInv, ParceMemsicInt, Full PROVE DriverInv'
<1>1. /\ UNCHANGED <<n, rate, selfTest, memsicDataready, memsicDataReadTime, selected, dma,
                     bInfoOut, triggered, pending, memsicInfo, ring, last>>
      /\ er = "parse" /\ er' = "ready"
      /\ count' = [count EXCEPT !.overflow = count.overflow + 1]
      /\ lost' = lost \cup {bInfoOut.first}
  BY DEF ParceMemsicInt, mainVars, sensorVars
<1>2. dma = "idle" /\ ~pending
  BY <1>1, HandlerAlone
<1>3. bInfoOut.first = n /\ n > 0 /\ n \notin lost
  BY <1>1 DEF DriverInv, BurstInv, CountInv, Busy
<1>4. DriverType'
  BY <1>1 DEF DriverInv, DriverType
<1>5. BurstInv'
  BY <1>1, <1>2 DEF DriverInv, BurstInv, Busy
<1>6. RingInv'
  BY <1>1, <1>2 DEF DriverInv, RingInv, Busy
<1>7. CountInv'
  <2>1. /\ count \in [{"int", "int1", "read", "overflow"} -> Nat]
        /\ count.int \in Nat /\ count.int1 \in Nat /\ count.read \in Nat /\ count.overflow \in Nat
    BY CountType DEF DriverInv, CountInv
  <2>2. /\ count' \in [{"int", "int1", "read", "overflow"} -> Nat]
        /\ count'.int = count.int /\ count'.int1 = count.int1
        /\ count'.read = count.read /\ count'.overflow = count.overflow + 1
    BY ONLY <1>1, <2>1
  <2>3. n \in Nat /\ lost \in SUBSET (1..n) /\ Cardinality(lost) \in Nat
    BY LostCard
  <2>4. n \in (1..n) \ lost
    BY <1>3, <2>3
  <2>5. lost' \subseteq 1..n /\ Cardinality(lost') = Cardinality(lost) + 1
    BY <1>1, <1>3, <2>3, <2>4, LostAdd
  <2>6. /\ count.int - count.int1 = Cardinality(lost) - count.overflow
        /\ count.int1 = count.read + count.overflow + 1
        /\ Cardinality(lost) >= count.overflow
    BY <1>1, <1>2, <2>1, <2>3 DEF DriverInv, CountInv, Accounted
  <2>7. Accounted'
    BY <1>1, <1>2, <2>1, <2>2, <2>3, <2>5, <2>6 DEF Accounted
  <2>8. count'.int <= n
    BY <2>2 DEF DriverInv, CountInv
  <2> QED BY <1>1, <1>2, <2>2, <2>5, <2>7, <2>8 DEF CountInv, Busy
<1> QED BY <1>4, <1>5, <1>6, <1>7 DEF DriverInv

\* parceMemsicInt with room: the burst is swapped once and copied whole.
LEMMA DriverParse ==
  ASSUME DriverInv, ParceMemsicInt, ~Full PROVE DriverInv'
<1>1. /\ UNCHANGED <<n, rate, selfTest, memsicDataready, memsicDataReadTime, selected, dma,
                     triggered, pending, ring, last, lost>>
      /\ er = "parse" /\ er' = "put"
      /\ bInfoOut' = [bInfoOut EXCEPT !.swapped = ~bInfoOut.swapped]
      /\ memsicInfo' = [burst |-> bInfoOut', time |-> memsicDataReadTime]
      /\ count' = [count EXCEPT !.read = count.read + 1]
  BY DEF ParceMemsicInt, Parse, mainVars, sensorVars
<1>2. dma = "idle" /\ ~pending
  BY <1>1, HandlerAlone
<1>3. /\ bInfoOut.first = n /\ bInfoOut.second = n /\ ~bInfoOut.swapped
      /\ n > 0 /\ memsicDataReadTime = n
  BY <1>1 DEF DriverInv, BurstInv, Busy
<1>4. bInfoOut \in Burst /\ n \in 0..MaxSamples
  BY DEF DriverInv, DriverType
<1>5. /\ bInfoOut' \in Burst
      /\ bInfoOut'.first = bInfoOut.first /\ bInfoOut'.second = bInfoOut.second
      /\ bInfoOut'.swapped = ~bInfoOut.swapped
  BY <1>1, <1>4 DEF Burst
<1>6. memsicInfo' \in Info /\ Whole(memsicInfo') /\ memsicInfo'.time = n
  BY <1>1, <1>3, <1>4, <1>5 DEF Info, Whole
<1>7. DriverType'
  BY <1>1, <1>5, <1>6 DEF DriverInv, DriverType
<1>8. BurstInv'
  BY <1>1, <1>2, <1>3 DEF BurstInv, Busy
<1>9. RingInv'
  <2>1. Len(ring) < RingSize
    <3>1. ring \in Seq(Info) /\ Len(ring) <= RingSize
      BY DEF DriverInv, DriverType
    <3>2. Len(ring) \in Nat /\ RingSize \in Nat
      BY <3>1, LenProperties, MemsicAssumption
    <3> QED BY <3>1, <3>2 DEF Full
  <2>2. Busy /\ er # "ready"
    BY <1>1 DEF Busy
  <2> QED BY <1>1, <1>6, <2>1, <2>2 DEF DriverInv, RingInv
<1>10. CountInv'
  <2>1. /\ count \in [{"int", "int1", "read", "overflow"} -> Nat]
        /\ count.int \in Nat /\ count.int1 \in Nat /\ count.read \in Nat /\ count.overflow \in Nat
    BY CountType DEF DriverInv, CountInv
  <2>2. /\ count' \in [{"int", "int1", "read", "overflow"} -> Nat]
        /\ count'.int = count.int /\ count'.int1 = count.int1
        /\ count'.read = count.read + 1 /\ count'.overflow = count.overflow
    BY ONLY <1>1, <2>1
  <2>3. Cardinality(lost) \in Nat
    BY LostCard
  <2>4. /\ count.int - count.int1 = Cardinality(lost) - count.overflow
        /\ count.int1 = count.read + count.overflow + 1
        /\ Cardinality(lost) >= count.overflow
    BY <1>1, <1>2, <2>1, <2>3 DEF DriverInv, CountInv, Accounted
  <2>5. Accounted'
    <3>1. /\ count'.int - count'.int1 = Cardinality(lost') - count'.overflow
          /\ count'.int1 = count'.read + count'.overflow
          /\ Cardinality(lost') >= count'.overflow
      BY <1>1, <2>1, <2>2, <2>3, <2>4
    <3>2. /\ Cardinality(lost') - count'.overflow \in Int
          /\ count'.read + count'.overflow \in Int
      BY <1>1, <2>1, <2>2, <2>3
    <3> QED BY <1>1, <1>2, <3>1, <3>2 DEF Accounted
  <2> QED BY <1>1, <2>2, <2>5 DEF DriverInv, CountInv, Busy
<1> QED BY <1>7, <1>8, <1>9, <1>10 DEF DriverInv

\* The sample put into the ring is newer than those in it.
LEMMA DriverErPut == ASSUME DriverInv, ErPut PROVE DriverInv'
<1>1. /\ UNCHANGED <<n, rate, selfTest, memsicDataready, memsicDataReadTime, selected, dma,
                     bInfoOut, triggered, pending, memsicInfo, count, last, lost>>
      /\ er = "put" /\ er' = "ready" /\ ring' = Append(ring, memsicInfo)
  BY DEF ErPut, mainVars, sensorVars, spiVars
<1>2. dma = "idle" /\ ~pending
  BY <1>1, HandlerAlone
<1>3. /\ Whole(memsicInfo) /\ memsicInfo.time = n /\ Len(ring) < RingSize
      /\ last.time < n /\ \A k \in 1..Len(ring) : ring[k].time < n
  BY <1>1 DEF DriverInv, RingInv, Busy
<1>4. ring \in Seq(Info) /\ memsicInfo \in Info
  BY DEF DriverInv, DriverType
<1>5. /\ ring' \in Seq(Info) /\ Len(ring) \in Nat /\ Len(ring') = Len(ring) + 1
      /\ \A k \in 1..Len(ring) : ring'[k] = ring[k]
      /\ ring'[Len(ring) + 1] = memsicInfo
  BY <1>1, <1>4, AppendProperties, LenProperties
<1>6. DriverType'
  BY <1>1, <1>3, <1>5, MemsicAssumption DEF DriverInv, DriverType
<1>7. BurstInv'
  BY <1>1, <1>2 DEF DriverInv, BurstInv, Busy
<1>8. RingInv'
  <2>1. n \in Nat /\ n <= n
    BY MemsicAssumption DEF DriverInv, DriverType
  <2>2. \A k \in 1..Len(ring') : k \in 1..Len(ring) \/ k = Len(ring) + 1
    BY <1>5
  <2>3. \A k \in 1..Len(ring') :
          Whole(ring'[k]) /\ last.time < ring'[k].time /\ ring'[k].time <= n
    BY <1>3, <1>5, <2>1, <2>2 DEF DriverInv, RingInv
  <2>4. ASSUME NEW j \in 1..Len(ring'), NEW k \in 1..Len(ring'), j < k
        PROVE  ring'[j].time < ring'[k].time
    <3>1. j \in 1..Len(ring)
      BY <1>5, <2>4
    <3>2. CASE k \in 1..Len(ring)
      BY <1>5, <2>4, <3>1, <3>2 DEF DriverInv, RingInv
    <3>3. CASE k = Len(ring) + 1
      BY <1>3, <1>5, <3>1, <3>3
    <3> QED BY <2>2, <3>2, <3>3
  <2> QED BY <1>1, <1>2, <2>3, <2>4 DEF DriverInv, RingInv, Busy
<1>9. CountInv'
  BY <1>1, <1>2 DEF DriverInv, CountInv, Accounted, Busy
<1> QED BY <1>6, <1>7, <1>8, <1>9 DEF DriverInv

LEMMA DriverErReady == ASSUME DriverInv, ErReady PROVE DriverInv'
<1>1. /\ UNCHANGED <<n, rate, selfTest, memsicDataReadTime, selected, dma, bInfoOut,
                     triggered, pending, memsicInfo, ring, count, last, lost>>
      /\ er = "ready" /\ er' = "idle" /\ memsicDataready' = 2
  BY DEF ErReady, mainVars, sensorVars, spiVars
<1>2. dma = "idle" /\ ~pending
  BY <1>1, HandlerAlone
<1>3. DriverType'
  BY <1>1 DEF DriverInv, DriverType
<1>4. BurstInv' /\ RingInv' /\ CountInv'
  BY <1>1, <1>2 DEF DriverInv, BurstInv, RingInv, CountInv, Accounted, Busy
<1> QED BY <1>3, <1>4 DEF DriverInv
LEMMA DriverNext ==
  ASSUME Late \subseteq {"event"}
  PROVE  SetupInv /\ DriverInv /\ [Next]_vars => DriverInv'
<1> SUFFICES ASSUME SetupInv, DriverInv, [Next]_vars PROVE DriverInv'
  OBVIOUS
<1>1. CASE UNCHANGED vars
  BY <1>1 DEF vars, mainVars, sensorVars, spiVars, eventVars, DriverInv, DriverType,
     BurstInv, RingInv, CountInv, Accounted, Busy
<1>2. CASE DataR
  BY <1>2, DriverDataRSetup, DriverDataRWork
<1>3. CASE ParceMemsicInt
  BY <1>3, DriverOverflow, DriverParse
<1>4. CASE ErPop \/ ErFunction \/ ErPut \/ ErReady
  BY <1>4, DriverErPop, DriverErFunction, DriverErPut, DriverErReady
<1>5. CASE Dma \/ DmaRxIsr
  BY <1>5, DriverDma, DriverDmaRxIsr
<1>6. CASE Setup \/ ProcessMemsicData
  BY <1>6, DriverSetup, DriverProcess
<1> QED BY <1>1, <1>2, <1>3, <1>4, <1>5, <1>6 DEF Next, Event

LEMMA DriverAlways ==
  ASSUME Late \subseteq {"event"} PROVE Spec => [](SetupInv /\ DriverInv)
<1>1. SetupInv /\ DriverInv /\ [Next]_vars => DriverInv'
  BY DriverNext
<1> QED BY <1>1, SetupInit, SetupNext, DriverInit, PTL DEF Spec

-----------------------------------------------------------------------------
(* What the invariant says of the samples the main loop gets *)

\* The k-th sample given is the last one of the main loop or one of the ring.
LEMMA GivenElement ==
  ASSUME DriverInv, NEW k \in 1..Len(Given)
  PROVE  \/ k = 1 /\ last # NoInfo /\ Given[k] = last
         \/ last = NoInfo /\ k \in 1..Len(ring) /\ Given[k] = ring[k]
         \/ last # NoInfo /\ k - 1 \in 1..Len(ring) /\ Given[k] = ring[k - 1]
<1>1. ring \in Seq(Info) /\ last \in Info /\ Len(ring) \in Nat
  BY LenProperties DEF DriverInv, DriverType
<1>2. CASE last = NoInfo
  BY <1>2 DEF Given
<1>3. CASE last # NoInfo
  <2>1. Given = <<last>> \o ring
    BY <1>3 DEF Given
  <2>2. <<last>> \in Seq(Info) /\ Len(<<last>>) = 1 /\ <<last>>[1] = last
    BY <1>1
  <2>3. Len(Given) = 1 + Len(ring)
    BY <1>1, <2>1, <2>2, ConcatProperties
  <2>4. CASE k = 1
    BY <1>1, <1>3, <2>1, <2>2, <2>4, ConcatProperties
  <2>5. CASE k # 1
    <3>1. k - 1 \in 1..Len(ring) /\ ~(k <= 1)
      BY <1>1, <2>3, <2>5
    <3>2. Given[k] = ring[k - 1]
      BY <1>1, <2>1, <2>2, <2>3, <3>1, ConcatProperties
    <3> QED BY <1>3, <3>1, <3>2
  <2> QED BY <2>4, <2>5
<1> QED BY <1>2, <1>3

LEMMA GivenWhole == DriverInv => SamplesWhole
<1> SUFFICES ASSUME DriverInv, NEW k \in 1..Len(Given)
             PROVE  /\ Given[k].burst.first = Given[k].burst.second
                    /\ Given[k].burst.first = Given[k].time
                    /\ Given[k].burst.first > 0 /\ Given[k].burst.swapped
  BY DEF SamplesWhole
<1>1. Whole(Given[k])
  BY GivenElement DEF DriverInv, RingInv
<1> QED BY <1>1 DEF Whole

LEMMA GivenOrdered == DriverInv => InOrder
<1> SUFFICES ASSUME DriverInv, NEW j \in 1..Len(Given), NEW k \in 1..Len(Given), j < k
             PROVE  Given[j].burst.first < Given[k].burst.first
  BY DEF InOrder
<1>1. Whole(Given[j]) /\ Whole(Given[k])
  BY GivenElement DEF DriverInv, RingInv
<1>2. Given[j].time < Given[k].time
  <2>1. Len(ring) \in Nat /\ j \in Int /\ k \in Int
    BY LenProperties DEF DriverInv, DriverType
  <2>2. CASE last = NoInfo
    <3>1. /\ j \in 1..Len(ring) /\ Given[j] = ring[j]
          /\ k \in 1..Len(ring) /\ Given[k] = ring[k]
      BY <2>2, GivenElement
    <3> QED BY <3>1 DEF DriverInv, RingInv
  <2>3. CASE last # NoInfo
    <3>1. k - 1 \in 1..Len(ring) /\ Given[k] = ring[k - 1]
      BY <2>1, <2>3, GivenElement
    <3>2. CASE j = 1 /\ Given[j] = last
      BY <3>1, <3>2 DEF DriverInv, RingInv
    <3>3. CASE j - 1 \in 1..Len(ring) /\ Given[j] = ring[j - 1]
      <4>1. j - 1 < k - 1
        BY <2>1
      <4> QED BY <3>1, <3>3, <4>1 DEF DriverInv, RingInv
    <3> QED BY <2>3, <3>2, <3>3, GivenElement
  <2> QED BY <2>2, <2>3
<1> QED BY <1>1, <1>2 DEF Whole

LEMMA DriverTypes == SetupInv /\ DriverInv => TypeOK
<1> SUFFICES ASSUME SetupInv, DriverInv PROVE TypeOK
  OBVIOUS
<1>1. n \in Nat /\ n <= MaxSamples /\ MaxSamples \in Nat
  BY MemsicAssumption DEF DriverInv, DriverType
<1>2. /\ count \in [{"int", "int1", "read", "overflow"} -> Nat]
      /\ count.int \in Nat /\ count.int1 \in Nat /\ count.read \in Nat /\ count.overflow \in Nat
      /\ count.int <= n
  BY CountType DEF DriverInv, CountInv
<1>3. Cardinality(lost) \in Nat /\ lost \subseteq 1..n
  BY LostCard
<1>4. count.int1 <= count.int /\ count.read <= count.int1 /\ count.overflow <= count.int1
  <2>1. /\ count.int - count.int1 >= Cardinality(lost) - count.overflow
        /\ count.int1 >= count.read + count.overflow
        /\ Cardinality(lost) >= count.overflow
    BY <1>2, <1>3 DEF DriverInv, CountInv, Accounted
  <2> QED BY <1>2, <1>3, <2>1
<1>5. \A f \in {"int", "int1", "read", "overflow"} : count[f] \in 0..MaxSamples
  BY <1>1, <1>2, <1>4
<1>6. count \in [{"int", "int1", "read", "overflow"} -> 0..MaxSamples]
  BY <1>2, <1>5
<1>7. lost \subseteq 1..MaxSamples
  BY <1>1, <1>3
<1>8. /\ {rate, selected, triggered, pending} \subseteq BOOLEAN
      /\ {oldMemsicStatus, memsicStatus} \subseteq {-1, 0, 1, 2}
      /\ {memsicInfo, last} \subseteq Info
  BY DEF DriverInv, DriverType, SetupInv
<1> QED BY <1>6, <1>7, <1>8 DEF DriverInv, DriverType, SetupInv, TypeOK

\* The variables of the driver keep their types and hInfoRB1 its capacity, when
\* a burst and its handler end before the next sample (0.6 ms of 10 ms).
THEOREM DriverTypeCorrect ==
  ASSUME Late \subseteq {"event"} PROVE Spec => []TypeOK
  BY DriverAlways, DriverTypes, PTL

\* Whatever the interleaving of dataR, the DMA channel, the event and the main
\* loop, a sample the main loop gets is of one burst, swapped once, and has the
\* time of its own data-ready interrupt, although bInfoOut and
\* memsicDataReadTime are shared.
THEOREM SamplesNotTorn ==
  ASSUME Late \subseteq {"event"} PROVE Spec => []SamplesWhole
  BY DriverAlways, GivenWhole, PTL

\* The main loop gets the samples in order and none twice, also when an event
\* is cleared by the next burst.
THEOREM SamplesOrdered ==
  ASSUME Late \subseteq {"event"} PROVE Spec => []InOrder
  BY DriverAlways, GivenOrdered, PTL

\* The counters of memsicPrint account for every sample, those overwritten
\* while their event waited included.
THEOREM SamplesAccounted ==
  ASSUME Late \subseteq {"event"} PROVE Spec => []Accounted
<1>1. DriverInv => Accounted
  BY DEF DriverInv, CountInv
<1> QED BY <1>1, DriverAlways, PTL
=============================================================================
