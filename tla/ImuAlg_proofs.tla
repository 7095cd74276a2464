--------------------------- MODULE ImuAlg_proofs ---------------------------
(***************************************************************************)
(* Proofs about ImuAlg for every number of samples, sessions and power     *)
(* failures: the calibration in use and the saved one come from whole      *)
(* phases of one session, and a stopped robot stays stopped.               *)
(***************************************************************************)
EXTENDS ImuAlg, TLAPS

\* What an accumulator holds after imuCounter samples of a phase.
Holds(acc, stage) ==
  /\ acc.of = IF imuCounter = 0 THEN {} ELSE {<<session, stage>>}
  /\ acc.n = imuCounter

\* The stages after the static test belong to the session whose bias is w0.
SessionBias == icState # "icInit" => iaState = "iaGood" /\ w0 = session

\* A running phase holds exactly its own samples.
PhaseHolds ==
  /\ iaState = "iaStaticTest" => imuCounter <= StaticCount
  /\ icState = "icRotation" => imuCounter <= PhaseCount /\ Holds(wm, "rotation")
  /\ icState = "icStatic" => imuCounter <= PhaseCount /\ Holds(am, "static")

\* The rotation average waits for the static phase of the same session.
RateReady == icState \in {"icWaitStatic", "icStatic"} => PureRate(wc, session)

\* The inductive invariant.
IInv ==
  /\ TypeOK
  /\ SessionBias
  /\ PhaseHolds
  /\ RateReady
  /\ CalibrationPure
  /\ StopHolds
  /\ held => rState # "rsPlay"

\* Averages and calibrations that are empty, or pure, are well typed.
LEMMA EmptyTypes ==
  /\ Empty \in Accumulators
  /\ NoAverage \in Averages
  /\ NoCalibration \in Calibrations
  /\ Empty.of = {} /\ Empty.n = 0
<1>1. Empty \in Accumulators /\ Empty.of = {} /\ Empty.n = 0
  BY DEF Empty, Accumulators
<1>2. NoAverage \in Averages
  BY DEF NoAverage, Average, Empty, Averages
<1> QED BY <1>1, <1>2 DEF NoCalibration, Calibrations

\* Adding a sample of the current session keeps the type of an accumulator.
LEMMA AddType ==
  ASSUME NEW acc \in Accumulators, NEW stage \in Stages, session \in Sessions
  PROVE  /\ Add(acc, stage) \in Accumulators
         /\ Add(acc, stage).of = acc.of \cup {<<session, stage>>}
         /\ Add(acc, stage).n = acc.n + 1
<1>1. Tag(stage) = <<session, stage>> /\ Tag(stage) \in Sessions \X Stages
  BY DEF Tag
<1>2. acc.of \cup {Tag(stage)} \in SUBSET (Sessions \X Stages) /\ acc.n + 1 \in Nat
  BY <1>1 DEF Accumulators
<1> QED BY <1>1, <1>2 DEF Add, Accumulators

\* An average has the samples of its accumulator.
LEMMA AverageType ==
  ASSUME NEW acc \in Accumulators, NEW bias \in Sessions \cup {NoBias}
  PROVE  /\ Average(acc, bias) \in Averages
         /\ Average(acc, bias) = [of |-> acc.of, n |-> acc.n, bias |-> bias]
  BY DEF Average, Averages, Accumulators

\* The state after power-on satisfies the invariant if the file is pure.
LEMMA PowerOnInv ==
  ASSUME IInv, NEW card \in {"lfSGood", "lfSError"}, NEW file \in Calibrations,
         file # NoCalibration => PureCalibration(file),
         PowerOn(card, file), session' = session, crashes' \in 0..MaxCrashes
  PROVE  IInv'
<1>1. TypeOK'
  <2>1. ac' \in Averages /\ wc' \in Averages /\ calibration' \in Calibrations
    BY EmptyTypes DEF PowerOn, Calibrations
  <2>2. 0 \in 0..(MaxCount + 1)
    BY CountAssumption DEF MaxCount
  <2> QED BY <2>1, <2>2, EmptyTypes DEF IInv, TypeOK, PowerOn, ICStates
<1>2. calibration' = NoCalibration \/ calibration' = file
  BY DEF PowerOn
<1>3. CalibrationPure'
  BY <1>2 DEF PowerOn, CalibrationPure, PureCalibration, PureRate, PureGravity
<1> QED BY <1>1, <1>3 DEF IInv, PowerOn, SessionBias, PhaseHolds, RateReady, StopHolds

\* The initial states satisfy the invariant.
LEMMA InitInv == Init => IInv
<1> SUFFICES ASSUME Init PROVE IInv
  OBVIOUS
<1>1. 0 \in 0..(MaxCount + 1) /\ 0 \in Sessions /\ 0 \in 0..MaxCrashes
  BY CountAssumption DEF MaxCount, Sessions
<1>2. TypeOK
  BY <1>1, EmptyTypes DEF Init, TypeOK, ICStates
<1> QED BY <1>2 DEF Init, IInv, SessionBias, PhaseHolds, RateReady, CalibrationPure,
                    StopHolds

\* StartImuCalibration keeps the invariant.
LEMMA StartImuCalibrationInv == IInv /\ StartImuCalibration => IInv'
<1> SUFFICES ASSUME IInv, StartImuCalibration PROVE IInv'
  OBVIOUS
<1>1. TypeOK'
  BY CountAssumption, EmptyTypes DEF IInv, TypeOK, StartImuCalibration, logVars, driveVars,
     ICStates, Sessions, MaxCount
<1>2. SessionBias' /\ PhaseHolds' /\ RateReady'
  BY CountAssumption, EmptyTypes DEF IInv, TypeOK, StartImuCalibration, SessionBias,
     PhaseHolds, RateReady, PureRate, Holds, logVars, driveVars
<1>3. CalibrationPure'
  BY DEF IInv, StartImuCalibration, CalibrationPure, PureCalibration, PureRate, PureGravity,
     logVars, driveVars
<1>4. StopHolds' /\ (held => rState # "rsPlay")'
  BY DEF IInv, StartImuCalibration, StopHolds, logVars, driveVars
<1> QED BY <1>1, <1>2, <1>3, <1>4 DEF IInv

\* NextImuCalibration keeps the invariant.
LEMMA NextImuCalibrationInv == IInv /\ NextImuCalibration => IInv'
<1> SUFFICES ASSUME IInv, NextImuCalibration PROVE IInv'
  OBVIOUS
<1>1. TypeOK'
  BY CountAssumption, EmptyTypes DEF IInv, TypeOK, NextImuCalibration, logVars, driveVars,
     ICStates, Sessions, MaxCount
<1>2. SessionBias' /\ PhaseHolds' /\ RateReady'
  BY CountAssumption, EmptyTypes DEF IInv, TypeOK, NextImuCalibration, SessionBias,
     PhaseHolds, RateReady, PureRate, Holds, logVars, driveVars
<1>3. CalibrationPure'
  BY DEF IInv, NextImuCalibration, CalibrationPure, PureCalibration, PureRate, PureGravity,
     logVars, driveVars
<1>4. StopHolds' /\ (held => rState # "rsPlay")'
  BY DEF IInv, NextImuCalibration, StopHolds, logVars, driveVars
<1> QED BY <1>1, <1>2, <1>3, <1>4 DEF IInv

\* RStay keeps the invariant.
LEMMA RStayInv == IInv /\ RStay => IInv'
<1> SUFFICES ASSUME IInv, RStay PROVE IInv'
  OBVIOUS
<1>1. TypeOK'
  BY CountAssumption, EmptyTypes DEF IInv, TypeOK, RStay, logVars, driveVars,
     ICStates, Sessions, MaxCount
<1>2. SessionBias' /\ PhaseHolds' /\ RateReady'
  BY CountAssumption, EmptyTypes DEF IInv, TypeOK, RStay, SessionBias,
     PhaseHolds, RateReady, PureRate, Holds, logVars, driveVars
<1>3. CalibrationPure'
  BY DEF IInv, RStay, CalibrationPure, PureCalibration, PureRate, PureGravity,
     logVars, driveVars
<1>4. StopHolds' /\ (held => rState # "rsPlay")'
  BY DEF IInv, RStay, StopHolds, logVars, driveVars
<1> QED BY <1>1, <1>2, <1>3, <1>4 DEF IInv

\* RStop keeps the invariant.
LEMMA RStopInv == IInv /\ RStop => IInv'
<1> SUFFICES ASSUME IInv, RStop PROVE IInv'
  OBVIOUS
<1>1. TypeOK'
  BY CountAssumption, EmptyTypes DEF IInv, TypeOK, RStop, logVars, driveVars,
     ICStates, Sessions, MaxCount
<1>2. SessionBias' /\ PhaseHolds' /\ RateReady'
  BY CountAssumption, EmptyTypes DEF IInv, TypeOK, RStop, SessionBias,
     PhaseHolds, RateReady, PureRate, Holds, logVars, driveVars
<1>3. CalibrationPure'
  BY DEF IInv, RStop, CalibrationPure, PureCalibration, PureRate, PureGravity,
     logVars, driveVars
<1>4. StopHolds' /\ (held => rState # "rsPlay")'
  BY DEF IInv, RStop, StopHolds, logVars, driveVars
<1> QED BY <1>1, <1>2, <1>3, <1>4 DEF IInv

\* IncSpeed keeps the invariant.
LEMMA IncSpeedInv == IInv /\ IncSpeed => IInv'
<1> SUFFICES ASSUME IInv, IncSpeed PROVE IInv'
  OBVIOUS
<1>1. TypeOK'
  BY CountAssumption, EmptyTypes DEF IInv, TypeOK, IncSpeed, logVars, driveVars,
     ICStates, Sessions, MaxCount
<1>2. SessionBias' /\ PhaseHolds' /\ RateReady'
  BY CountAssumption, EmptyTypes DEF IInv, TypeOK, IncSpeed, SessionBias,
     PhaseHolds, RateReady, PureRate, Holds, logVars, driveVars
<1>3. CalibrationPure'
  BY DEF IInv, IncSpeed, CalibrationPure, PureCalibration, PureRate, PureGravity,
     logVars, driveVars
<1>4. StopHolds' /\ (held => rState # "rsPlay")'
  BY DEF IInv, IncSpeed, StopHolds, logVars, driveVars
<1> QED BY <1>1, <1>2, <1>3, <1>4 DEF IInv

\* LogCommand keeps the invariant.
LEMMA LogCommandInv == IInv /\ LogCommand => IInv'
<1> SUFFICES ASSUME IInv, LogCommand PROVE IInv'
  OBVIOUS
<1>1. TypeOK'
  BY CountAssumption, EmptyTypes DEF IInv, TypeOK, LogCommand, LfStart, logVars,
     driveVars, ICStates, Sessions, MaxCount
<1>2. SessionBias' /\ PhaseHolds' /\ RateReady'
  BY CountAssumption, EmptyTypes DEF IInv, TypeOK, LogCommand, SessionBias,
     PhaseHolds, RateReady, PureRate, Holds, logVars, driveVars
<1>3. CalibrationPure'
  BY DEF IInv, LogCommand, CalibrationPure, PureCalibration, PureRate, PureGravity,
     logVars, driveVars
<1>4. StopHolds' /\ (held => rState # "rsPlay")'
  BY DEF IInv, LogCommand, StopHolds, logVars, driveVars
<1> QED BY <1>1, <1>2, <1>3, <1>4 DEF IInv

\* FeedPlay keeps the invariant.
LEMMA FeedPlayInv == IInv /\ FeedPlay => IInv'
<1> SUFFICES ASSUME IInv, FeedPlay PROVE IInv'
  OBVIOUS
<1>1. TypeOK'
  BY CountAssumption, EmptyTypes DEF IInv, TypeOK, FeedPlay, logVars, driveVars,
     ICStates, Sessions, MaxCount
<1>2. SessionBias' /\ PhaseHolds' /\ RateReady'
  BY CountAssumption, EmptyTypes DEF IInv, TypeOK, FeedPlay, SessionBias,
     PhaseHolds, RateReady, PureRate, Holds, logVars, driveVars
<1>3. CalibrationPure'
  BY DEF IInv, FeedPlay, CalibrationPure, PureCalibration, PureRate, PureGravity,
     logVars, driveVars
<1>4. StopHolds' /\ (held => rState # "rsPlay")'
  BY DEF IInv, FeedPlay, StopHolds, logVars, driveVars
<1> QED BY <1>1, <1>2, <1>3, <1>4 DEF IInv

\* FeedStaticTest keeps the invariant.
LEMMA FeedStaticTestInv == IInv /\ FeedStaticTest => IInv'
<1> SUFFICES ASSUME IInv, FeedStaticTest PROVE IInv'
  OBVIOUS
<1> DEFINE n == (IF iaState = "iaInit" THEN 0 ELSE imuCounter) + 1
<1>1. /\ n \in Nat /\ n <= StaticCount + 1
      /\ n \in 0..(MaxCount + 1)
      /\ imuCounter' = n
  <2>1. imuCounter' = n /\ iaState \in {"iaInit", "iaStaticTest"}
    BY DEF FeedStaticTest
  <2>2. imuCounter \in Nat /\ (iaState = "iaStaticTest" => imuCounter <= StaticCount)
    BY CountAssumption DEF IInv, TypeOK, PhaseHolds
  <2>3. n \in Nat /\ n <= StaticCount + 1
    BY <2>1, <2>2, CountAssumption
  <2> HIDE DEF n
  <2> QED BY <2>1, <2>3, CountAssumption DEF MaxCount
<1>2. wm' \in Accumulators /\ am' \in Accumulators
  <2> DEFINE w == IF iaState = "iaInit" THEN Empty ELSE wm
             a == IF iaState = "iaInit" THEN Empty ELSE am
  <2>1. "static test" \in Stages /\ session \in Sessions
    BY DEF Stages, IInv, TypeOK
  <2>2. w \in Accumulators /\ a \in Accumulators
    BY EmptyTypes DEF IInv, TypeOK
  <2>3. wm' = Add(w, "static test") /\ am' = Add(a, "static test")
    BY DEF FeedStaticTest
  <2> HIDE DEF w, a
  <2> QED BY <2>1, <2>2, <2>3, AddType
<1>3. /\ icState = "icInit"
      /\ icState' \in {"icInit", "icWaitRotation"}
      /\ icState' # "icInit" => iaState' = "iaGood" /\ w0' = session
      /\ iaState' \in {"iaStaticTest", "iaGood"}
      /\ iaState' = "iaStaticTest" => n <= StaticCount
      /\ w0' \in Sessions \cup {NoBias}
  <2>1. icState = "icInit" /\ session \in Sessions
    BY DEF IInv, TypeOK, SessionBias, FeedStaticTest
  <2>2. CASE n > StaticCount
    BY <2>1, <2>2 DEF FeedStaticTest
  <2>3. CASE ~(n > StaticCount)
    <3>1. iaState' = "iaStaticTest" /\ w0' = NoBias /\ icState' = icState
      BY <2>3 DEF FeedStaticTest
    <3>2. n <= StaticCount
      BY <1>1, <2>3, CountAssumption
    <3> QED BY <2>1, <3>1, <3>2
  <2> QED BY <2>2, <2>3
<1> HIDE DEF n
<1>4. /\ UNCHANGED <<rState, session, wc, ac, calibration, irc, lfState, lfWriting>>
      /\ UNCHANGED <<motors, held, crashes>>
  BY DEF FeedStaticTest, logVars, driveVars
<1>5. TypeOK'
  BY <1>1, <1>2, <1>3, <1>4 DEF IInv, TypeOK, ICStates
<1>6. SessionBias' /\ PhaseHolds' /\ RateReady'
  BY <1>1, <1>3, <1>4 DEF SessionBias, PhaseHolds, RateReady
<1>7. CalibrationPure' /\ StopHolds' /\ (held => rState # "rsPlay")'
  BY <1>4 DEF IInv, CalibrationPure, PureCalibration, PureRate, PureGravity, StopHolds
<1> QED BY <1>5, <1>6, <1>7 DEF IInv

\* What a phase holds after one more sample of it.
LEMMA HoldsAdd ==
  ASSUME NEW acc \in Accumulators, NEW stage \in Stages, session \in Sessions,
         imuCounter \in Nat, Holds(acc, stage)
  PROVE  /\ Add(acc, stage) \in Accumulators
         /\ Add(acc, stage).of = {<<session, stage>>}
         /\ Add(acc, stage).n = imuCounter + 1
  BY AddType DEF Holds

\* FeedRotation keeps the invariant.
LEMMA FeedRotationInv == IInv /\ FeedRotation => IInv'
<1> SUFFICES ASSUME IInv, FeedRotation PROVE IInv'
  OBVIOUS
<1>1. /\ imuCounter \in Nat /\ imuCounter <= PhaseCount
      /\ Holds(wm, "rotation")
      /\ session \in Sessions /\ w0 = session
  BY CountAssumption DEF IInv, TypeOK, PhaseHolds, SessionBias, FeedRotation
<1>2. /\ wm' \in Accumulators
      /\ wm'.of = {<<session, "rotation">>} /\ wm'.n = imuCounter + 1
  <2>1. "rotation" \in Stages /\ wm \in Accumulators /\ wm' = Add(wm, "rotation")
    BY DEF Stages, IInv, TypeOK, FeedRotation
  <2> QED BY <1>1, <2>1, HoldsAdd
<1>3. /\ imuCounter' = imuCounter + 1
      /\ UNCHANGED <<rState, iaState, session, w0, am, ac, calibration, irc>>
      /\ UNCHANGED <<lfState, lfWriting, motors, held, crashes>>
  BY DEF FeedRotation, logVars, driveVars
<1>4. imuCounter' \in 0..(MaxCount + 1)
  BY <1>1, <1>3, CountAssumption DEF MaxCount
<1>5. CASE imuCounter + 1 > PhaseCount
  <2>1. icState' = "icWaitStatic" /\ wc' = Average(wm', w0)
    BY <1>5 DEF FeedRotation
  <2>2. imuCounter + 1 = PhaseCount + 1
    BY <1>1, <1>5, CountAssumption
  <2>3. PureRate(wc', session) /\ wc' \in Averages
    BY <1>1, <1>2, <2>1, <2>2, AverageType DEF PureRate
  <2>4. TypeOK'
    BY <1>2, <1>3, <1>4, <2>1, <2>3 DEF IInv, TypeOK, ICStates
  <2>5. SessionBias' /\ PhaseHolds' /\ RateReady'
    BY <1>1, <1>3, <2>1, <2>3 DEF IInv, SessionBias, PhaseHolds, RateReady, PureRate,
                                  FeedRotation
  <2> QED BY <1>3, <2>4, <2>5 DEF IInv, CalibrationPure, PureCalibration, PureRate,
                                  PureGravity, StopHolds
<1>6. CASE ~(imuCounter + 1 > PhaseCount)
  <2>1. icState' = "icRotation" /\ wc' = wc
    BY <1>6 DEF FeedRotation
  <2>2. TypeOK'
    BY <1>2, <1>3, <1>4, <2>1 DEF IInv, TypeOK, ICStates
  <2>3. imuCounter' <= PhaseCount /\ imuCounter' # 0
    BY <1>1, <1>3, <1>6, CountAssumption
  <2>4. SessionBias' /\ PhaseHolds' /\ RateReady'
    BY <1>1, <1>2, <1>3, <2>1, <2>3 DEF IInv, SessionBias, PhaseHolds, RateReady, Holds,
                                        FeedRotation
  <2> QED BY <1>3, <2>2, <2>4 DEF IInv, CalibrationPure, PureCalibration, PureRate,
                                  PureGravity, StopHolds
<1> QED BY <1>5, <1>6

\* A sample of the static phase.
LEMMA StaticSample ==
  ASSUME IInv, StaticDue, am' = Add(am, "static")
  PROVE  /\ imuCounter \in Nat /\ imuCounter <= PhaseCount
         /\ session \in Sessions
         /\ am' \in Accumulators
         /\ am'.of = {<<session, "static">>} /\ am'.n = imuCounter + 1
         /\ imuCounter + 1 \in 0..(MaxCount + 1)
<1>1. imuCounter \in Nat /\ imuCounter <= PhaseCount /\ Holds(am, "static")
  BY CountAssumption DEF IInv, TypeOK, PhaseHolds, StaticDue
<1>2. "static" \in Stages /\ am \in Accumulators /\ session \in Sessions
  BY DEF Stages, IInv, TypeOK
<1>3. imuCounter + 1 \in 0..(MaxCount + 1)
  BY <1>1, CountAssumption DEF MaxCount
<1> QED BY <1>1, <1>2, <1>3, HoldsAdd

\* FeedStatic keeps the invariant.
LEMMA FeedStaticInv == IInv /\ FeedStatic => IInv'
<1> SUFFICES ASSUME IInv, FeedStatic PROVE IInv'
  OBVIOUS
<1>1. StaticDue /\ am' = Add(am, "static") /\ imuCounter' = imuCounter + 1
  BY DEF FeedStatic
<1>2. /\ UNCHANGED <<rState, icState, iaState, session, w0, wm, wc, ac>>
      /\ UNCHANGED <<calibration, irc, lfState, lfWriting, motors, held, crashes>>
  BY DEF FeedStatic, logVars, driveVars
<1>3. TypeOK'
  BY <1>1, <1>2, StaticSample DEF IInv, TypeOK
<1>4. imuCounter' <= PhaseCount /\ imuCounter' # 0
  BY <1>1, StaticSample, CountAssumption DEF FeedStatic
<1>5. icState = "icStatic" /\ iaState = "iaGood"
  BY <1>1 DEF StaticDue
<1>6. SessionBias' /\ PhaseHolds' /\ RateReady'
  BY <1>1, <1>2, <1>4, <1>5, StaticSample DEF IInv, SessionBias, PhaseHolds, RateReady,
                                              Holds, PureRate
<1> QED BY <1>2, <1>3, <1>6 DEF IInv, CalibrationPure, PureCalibration, PureRate,
                                PureGravity, StopHolds

\* FeedComplete keeps the invariant.
LEMMA FeedCompleteInv == IInv /\ FeedComplete => IInv'
<1> SUFFICES ASSUME IInv, FeedComplete PROVE IInv'
  OBVIOUS
<1>1. /\ StaticDue /\ am' = Add(am, "static") /\ imuCounter' = imuCounter + 1
      /\ icState' = "icComplete" /\ rState' = "rsStop"
      /\ ac' = Average(am', NoBias)
      /\ calibration' = [ac |-> ac', wc |-> wc]
      /\ irc' \in {irc, NoCalibration, calibration'}
  BY DEF FeedComplete
<1>2. /\ UNCHANGED <<iaState, session, w0, wm, wc, motors, held, crashes>>
      /\ lfState' \in {"lfSGood", "lfSError"} /\ lfWriting' \in BOOLEAN
  BY DEF IInv, TypeOK, FeedComplete, LfStart, logVars, driveVars
<1>3. imuCounter + 1 = PhaseCount + 1
  BY <1>1, StaticSample, CountAssumption DEF FeedComplete
<1>4. ac' \in Averages /\ PureGravity(ac', session)
  BY <1>1, <1>3, StaticSample, AverageType DEF PureGravity
<1>5. PureRate(wc, session) /\ wc \in Averages /\ session \in Sessions
  BY <1>1 DEF IInv, TypeOK, RateReady, StaticDue
<1>6. PureCalibration(calibration') /\ calibration' \in Calibrations
  BY <1>1, <1>4, <1>5 DEF PureCalibration, Calibrations
<1>7. TypeOK'
  <2>1. irc' \in Calibrations
    BY <1>1, <1>6, EmptyTypes DEF IInv, TypeOK
  <2> QED BY <1>1, <1>2, <1>4, <1>5, <1>6, <2>1, StaticSample DEF IInv, TypeOK, ICStates
<1>8. CalibrationPure'
  <2>1. irc' # NoCalibration => PureCalibration(irc')
    BY <1>1, <1>6 DEF IInv, CalibrationPure
  <2> QED BY <1>1, <1>6, <2>1 DEF CalibrationPure, PureCalibration, PureRate, PureGravity
<1>9. SessionBias' /\ PhaseHolds' /\ RateReady'
  BY <1>1, <1>2 DEF IInv, SessionBias, PhaseHolds, RateReady, StaticDue
<1> QED BY <1>1, <1>2, <1>7, <1>8, <1>9 DEF IInv, StopHolds

\* Crash keeps the invariant.
LEMMA CrashInv == IInv /\ Crash => IInv'
<1> SUFFICES ASSUME IInv, Crash PROVE IInv'
  OBVIOUS
<1>1. PICK card \in {"lfSGood", "lfSError"} : PowerOn(card, irc)
  BY DEF Crash
<1>2. session' = session /\ crashes' \in 0..MaxCrashes
  BY CountAssumption DEF Crash, IInv, TypeOK
<1>3. irc \in Calibrations /\ (irc # NoCalibration => PureCalibration(irc))
  BY DEF IInv, TypeOK, CalibrationPure
<1> QED BY <1>1, <1>2, <1>3, PowerOnInv

\* CrashInSave keeps the invariant.
LEMMA CrashInSaveInv == IInv /\ CrashInSave => IInv'
<1> SUFFICES ASSUME IInv, CrashInSave PROVE IInv'
  OBVIOUS
<1>1. PICK card \in {"lfSGood", "lfSError"} : PowerOn(card, NoCalibration)
  BY DEF CrashInSave
<1>2. session' = session /\ crashes' \in 0..MaxCrashes
  BY CountAssumption DEF CrashInSave, IInv, TypeOK
<1> QED BY <1>1, <1>2, EmptyTypes, PowerOnInv

\* A stuttering step keeps the invariant.
LEMMA StutterInv == IInv /\ UNCHANGED vars => IInv'
<1> SUFFICES ASSUME IInv, UNCHANGED vars PROVE IInv'
  OBVIOUS
<1>1. TypeOK'
  BY DEF vars, IInv, TypeOK
<1>2. SessionBias' /\ PhaseHolds' /\ RateReady'
  BY DEF vars, IInv, SessionBias, PhaseHolds, RateReady, PureRate, Holds
<1>3. CalibrationPure' /\ StopHolds' /\ (held => rState # "rsPlay")'
  BY DEF vars, IInv, CalibrationPure, PureCalibration, PureRate, PureGravity, StopHolds
<1> QED BY <1>1, <1>2, <1>3 DEF IInv

\* Every step keeps the invariant.
LEMMA NextInv == IInv /\ [Next]_vars => IInv'
<1> SUFFICES ASSUME IInv, [Next]_vars PROVE IInv'
  OBVIOUS
<1>1. CASE StartImuCalibration \/ NextImuCalibration \/ RStay \/ RStop
  BY <1>1, StartImuCalibrationInv, NextImuCalibrationInv, RStayInv, RStopInv
<1>2. CASE IncSpeed \/ LogCommand
  BY <1>2, IncSpeedInv, LogCommandInv
<1>3. CASE ImuAlgFeed
  BY <1>3, FeedStaticTestInv, FeedRotationInv, FeedStaticInv, FeedCompleteInv,
     FeedPlayInv DEF ImuAlgFeed
<1>4. CASE Crash \/ CrashInSave
  BY <1>4, CrashInv, CrashInSaveInv
<1>5. CASE UNCHANGED vars
  BY <1>5, StutterInv
<1> QED BY <1>1, <1>2, <1>3, <1>4, <1>5 DEF Next

\* The calibration in use and the one in irc.txt are whole averages of the two
\* phases of one session with that session's bias, for every number of samples,
\* sessions and power failures (imuAlgFeed, endImuCalibration, imuAlgInit).
THEOREM Purity == Spec => []CalibrationPure
<1>1. IInv => CalibrationPure
  BY DEF IInv
<1> QED BY <1>1, InitInv, NextInv, PTL DEF Spec

\* After "stop" or power-on the motors are asked for no speed until "play" or a
\* speed command (rStop).
THEOREM Stopped == Spec => []StopHolds
<1>1. IInv => StopHolds
  BY DEF IInv
<1> QED BY <1>1, InitInv, NextInv, PTL DEF Spec

\* Types, and a sample counter that stays within its stage (imuAlgFeed).
THEOREM Types == Spec => []TypeOK
<1>1. IInv => TypeOK
  BY DEF IInv
<1> QED BY <1>1, InitInv, NextInv, PTL DEF Spec
=============================================================================
