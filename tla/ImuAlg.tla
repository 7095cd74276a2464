------------------------------- MODULE ImuAlg -------------------------------
(***************************************************************************)
(* The robot's state and the calibration of the IMU against the robot's    *)
(* axes: src/nav/imu_alg.cpp with the commands that drive it               *)
(* (src/src/cmdhandler.cpp) and rState, icState of src/src/robot.cpp.      *)
(*                                                                         *)
(* The main loop executes commands and IMU samples one after the other;    *)
(* the operator may give any command at any time and power may fail.       *)
(*                                                                         *)
(* Numbers are left out.  What matters of a vector is which samples it was *)
(* averaged from and how many; a sample is tagged by session (counted by   *)
(* the "setup" commands) and stage, a rate also by the session whose       *)
(* static test gave the bias w0 taken off it.                              *)
(***************************************************************************)
EXTENDS Integers, FiniteSets

CONSTANTS
  StaticCount,   \* samples of the static test (200)
  PhaseCount,    \* samples of a calibration phase (100)
  MaxSessions,   \* bound: "setup" commands
  MaxCrashes     \* bound: power failures

ASSUME CountAssumption ==
  /\ StaticCount \in Nat
  /\ PhaseCount \in Nat
  /\ MaxSessions \in Nat
  /\ MaxCrashes \in Nat

VARIABLES
  rState, icState, iaState,
  imuCounter,
  session,       \* which "setup" (0: since power-on)
  w0,            \* the session whose static test gave the bias w0
  wm, am,        \* the accumulators: the tags and the number of the samples
  wc, ac,        \* the averages kept for the calibration
  calibration,   \* what Qir was computed from; NoCalibration if there is none
  irc,           \* irc.txt on the card; NoCalibration if absent or empty
  lfState, lfWriting,
  motors,        \* the speed asked for: "zero" or "driven"
  held,          \* no command since "stop", or power-on, may drive the motors
  crashes

vars == <<rState, icState, iaState, imuCounter, session, w0, wm, am, wc, ac,
          calibration, irc, lfState, lfWriting, motors, held, crashes>>
logVars == <<lfState, lfWriting>>
driveVars == <<motors, held>>

Sessions == 0..MaxSessions
Stages == {"static test", "rotation", "static"}
Tag(stage) == <<session, stage>>
NoBias == -1
Empty == [of |-> {}, n |-> 0]
Add(acc, stage) == [of |-> acc.of \cup {Tag(stage)}, n |-> acc.n + 1]
Average(acc, bias) == [of |-> acc.of, n |-> acc.n, bias |-> bias]
NoAverage == Average(Empty, NoBias)
NoCalibration == [ac |-> NoAverage, wc |-> NoAverage]
ICStates == {"icInit", "icWaitRotation", "icRotation", "icWaitStatic", "icStatic",
             "icComplete"}

\* The state after power-on, with the card as it is: imuAlgInit reads irc.txt
\* if the card works.
PowerOn(card, file) ==
  /\ rState' = "rsStop"
  /\ icState' = "icInit"
  /\ iaState' = "iaInit"
  /\ imuCounter' = 0
  /\ w0' = NoBias
  /\ wm' = Empty
  /\ am' = Empty
  /\ lfState' = card
  /\ lfWriting' = FALSE
  /\ motors' = "zero"
  /\ held' = TRUE
  /\ irc' = file
  /\ IF card = "lfSGood"
     THEN ac' = file.ac /\ wc' = file.wc /\ calibration' = file
     ELSE ac' = NoAverage /\ wc' = NoAverage /\ calibration' = NoCalibration

Init ==
  /\ rState = "rsStop"
  /\ icState = "icInit"
  /\ iaState = "iaInit"
  /\ imuCounter = 0
  /\ session = 0
  /\ w0 = NoBias
  /\ wm = Empty
  /\ am = Empty
  /\ wc = NoAverage
  /\ ac = NoAverage
  /\ calibration = NoCalibration
  /\ irc = NoCalibration
  /\ lfState \in {"lfSGood", "lfSError"}
  /\ lfWriting = FALSE
  /\ motors = "zero"
  /\ held = TRUE
  /\ crashes = 0

-----------------------------------------------------------------------------
(* Commands *)

\* "setup": startImuCalibration.  The motors go on as they are.
StartImuCalibration ==
  /\ session < MaxSessions
  /\ lfState = "lfSGood"
  /\ session' = session + 1
  /\ iaState' = "iaInit"
  /\ icState' = "icInit"
  /\ rState' = "rsImuCalibrate"
  /\ UNCHANGED <<imuCounter, w0, wm, am, wc, ac, calibration, irc, logVars, driveVars,
                 crashes>>

\* Mutant of NextImuCalibration: the sample counter is not reset.
MutNextImuCounter ==
  /\ rState = "rsImuCalibrate"
  /\ \/ icState = "icWaitRotation" /\ icState' = "icRotation"
     \/ icState = "icWaitStatic" /\ icState' = "icStatic"
  /\ wm' = Empty
  /\ am' = Empty
  /\ UNCHANGED <<rState, iaState, imuCounter, session, w0, wc, ac, calibration, irc,
                 logVars, driveVars, crashes>>

\* Mutant of NextImuCalibration: the accumulators are not reset.
MutNextImuCalibration ==
  /\ rState = "rsImuCalibrate"
  /\ icState \in {"icWaitRotation", "icWaitStatic"}
  /\ icState' = IF icState = "icWaitRotation" THEN "icRotation" ELSE "icStatic"
  /\ imuCounter' = 0
  /\ UNCHANGED <<rState, iaState, session, w0, wm, am, wc, ac, calibration, irc,
                 logVars, driveVars, crashes>>

\* "enter": nextImuCalibration.
NextImuCalibration ==
  /\ rState = "rsImuCalibrate"
  /\ \/ icState = "icWaitRotation" /\ icState' = "icRotation"
     \/ icState = "icWaitStatic" /\ icState' = "icStatic"
  /\ imuCounter' = 0
  /\ wm' = Empty
  /\ am' = Empty
  /\ UNCHANGED <<rState, iaState, session, w0, wc, ac, calibration, irc, logVars,
                 driveVars, crashes>>

\* "play": rStay, also in the middle of a calibration.
RStay ==
  /\ calibration # NoCalibration
  /\ rState' = "rsPlay"
  /\ held' = FALSE
  /\ UNCHANGED <<icState, iaState, imuCounter, session, w0, wm, am, wc, ac, calibration,
                 irc, logVars, motors, crashes>>

\* Mutant of RStop: the motors are left to themselves.
MutRStop ==
  /\ rState' = "rsStop"
  /\ held' = TRUE
  /\ UNCHANGED <<icState, iaState, imuCounter, session, w0, wm, am, wc, ac, calibration,
                 irc, logVars, motors, crashes>>

\* "stop": rStop.
RStop ==
  /\ rState' = "rsStop"
  /\ motors' = "zero"
  /\ held' = TRUE
  /\ UNCHANGED <<icState, iaState, imuCounter, session, w0, wm, am, wc, ac, calibration,
                 irc, logVars, crashes>>

\* "inc speed" and "dec speed", in every state.
IncSpeed ==
  /\ motors' \in {"zero", "driven"}
  /\ held' = FALSE
  /\ UNCHANGED <<rState, icState, iaState, imuCounter, session, w0, wm, am, wc, ac,
                 calibration, irc, logVars, crashes>>

\* lfStart when no log is running: it starts one or finds the card bad.
LfStart ==
  \/ lfState' = "lfSGood" /\ lfWriting' = TRUE
  \/ lfState' = "lfSError" /\ lfWriting' = FALSE

\* "log", "lstop" and lfProcess when a write or a new file fails.
LogCommand ==
  /\ \/ ~lfWriting /\ LfStart
     \/ /\ lfState = "lfSGood"
        /\ lfState' \in {"lfSGood", "lfSError"}
        /\ lfWriting' = FALSE
     \/ /\ lfState = "lfSGood"
        /\ lfWriting
        /\ lfState' = "lfSError"
        /\ UNCHANGED lfWriting
  /\ UNCHANGED <<rState, icState, iaState, imuCounter, session, w0, wm, am, wc, ac,
                 calibration, irc, driveVars, crashes>>

-----------------------------------------------------------------------------
(* imuAlgFeed: one IMU sample *)

\* Mutant of FeedStaticTest: the end of the test is not noticed while calibrating.
MutFeedStaticTest ==
  /\ iaState \in {"iaInit", "iaStaticTest"}
  /\ iaState' = "iaGood"
  /\ w0' = session
  /\ wm' = Add(Empty, "static test")
  /\ am' = Add(Empty, "static test")
  /\ imuCounter' = StaticCount + 1
  /\ UNCHANGED <<rState, icState, session, wc, ac, calibration, irc, logVars, driveVars,
                 crashes>>

\* iaInit falls through to iaStaticTest: the first sample is added as well.
FeedStaticTest ==
  LET first == iaState = "iaInit"
      n == (IF first THEN 0 ELSE imuCounter) + 1
  IN  /\ iaState \in {"iaInit", "iaStaticTest"}
      /\ wm' = Add(IF first THEN Empty ELSE wm, "static test")
      /\ am' = Add(IF first THEN Empty ELSE am, "static test")
      /\ imuCounter' = n
      /\ IF n > StaticCount
         THEN /\ iaState' = "iaGood"
              /\ w0' = session
              /\ icState' = IF rState = "rsImuCalibrate" THEN "icWaitRotation"
                            ELSE icState
         ELSE /\ iaState' = "iaStaticTest"
              /\ w0' = NoBias
              /\ UNCHANGED icState
      /\ UNCHANGED <<rState, session, wc, ac, calibration, irc, logVars, driveVars,
                     crashes>>

\* icRotation: slow samples are not used.
FeedRotation ==
  /\ iaState = "iaGood"
  /\ rState = "rsImuCalibrate"
  /\ icState = "icRotation"
  /\ wm' = Add(wm, "rotation")
  /\ imuCounter' = imuCounter + 1
  /\ IF imuCounter + 1 > PhaseCount
     THEN /\ wc' = Average(wm', w0)
          /\ icState' = "icWaitStatic"
     ELSE UNCHANGED <<wc, icState>>
  /\ UNCHANGED <<rState, iaState, session, w0, am, ac, calibration, irc, logVars,
                 driveVars, crashes>>

\* A sample of the static phase is due.
StaticDue ==
  /\ iaState = "iaGood"
  /\ rState = "rsImuCalibrate"
  /\ icState = "icStatic"

\* icStatic, a sample that is not the last.
FeedStatic ==
  /\ StaticDue
  /\ imuCounter + 1 <= PhaseCount
  /\ am' = Add(am, "static")
  /\ imuCounter' = imuCounter + 1
  /\ UNCHANGED <<rState, icState, iaState, session, w0, wm, wc, ac, calibration, irc,
                 logVars, driveVars, crashes>>

\* icStatic, the last sample, and endImuCalibration: the calibration is used at
\* once and saved if the card works (the file may stay, be empty or be new); a
\* log that was running is stopped and started again.
FeedComplete ==
  /\ StaticDue
  /\ imuCounter + 1 > PhaseCount
  /\ am' = Add(am, "static")
  /\ imuCounter' = imuCounter + 1
  /\ icState' = "icComplete"
  /\ ac' = Average(am', NoBias)
  /\ calibration' = [ac |-> ac', wc |-> wc]
  /\ rState' = "rsStop"
  /\ IF lfState = "lfSGood"
     THEN /\ irc' \in {irc, NoCalibration, calibration'}
          /\ IF lfWriting THEN LfStart ELSE UNCHANGED logVars
     ELSE UNCHANGED <<irc, logVars>>
  /\ UNCHANGED <<iaState, session, w0, wm, wc, driveVars, crashes>>

\* rsPlay: the balancing law sets the speed of both motors.
FeedPlay ==
  /\ iaState = "iaGood"
  /\ rState = "rsPlay"
  /\ motors' = "driven"
  /\ UNCHANGED <<rState, icState, iaState, imuCounter, session, w0, wm, am, wc, ac,
                 calibration, irc, logVars, held, crashes>>

ImuAlgFeed == FeedStaticTest \/ FeedRotation \/ FeedStatic \/ FeedComplete \/ FeedPlay

-----------------------------------------------------------------------------
\* Power fails and comes back, with the card working or not.
Crash ==
  /\ crashes < MaxCrashes
  /\ crashes' = crashes + 1
  /\ \E card \in {"lfSGood", "lfSError"} : PowerOn(card, irc)
  /\ UNCHANGED session

\* Power fails while endImuCalibration writes irc.txt, which it opened with
\* O_TRUNC and has not yet synced.
CrashInSave ==
  /\ crashes < MaxCrashes
  /\ StaticDue
  /\ imuCounter + 1 > PhaseCount
  /\ lfState = "lfSGood"
  /\ crashes' = crashes + 1
  /\ \E card \in {"lfSGood", "lfSError"} : PowerOn(card, NoCalibration)
  /\ UNCHANGED session

Next ==
  \/ StartImuCalibration \/ NextImuCalibration \/ RStay \/ RStop \/ IncSpeed
  \/ LogCommand \/ ImuAlgFeed \/ Crash \/ CrashInSave

Spec == Init /\ [][Next]_vars

\* Samples keep coming (memsicTest, processMemsicData); that they are fast
\* enough for the rotation phase depends on the operator's hand.
FairSpec == Spec /\ WF_vars(FeedStaticTest \/ FeedStatic \/ FeedComplete)

-----------------------------------------------------------------------------
(* Properties *)

Accumulators == [of : SUBSET (Sessions \X Stages), n : Nat]
Averages == [of : SUBSET (Sessions \X Stages), n : Nat, bias : Sessions \cup {NoBias}]
Calibrations == [ac : Averages, wc : Averages]

MaxCount == IF StaticCount > PhaseCount THEN StaticCount ELSE PhaseCount

\* The types, and that the sample counter stays within the stage it counts.
TypeOK ==
  /\ rState \in {"rsStop", "rsImuCalibrate", "rsPlay"}
  /\ icState \in ICStates
  /\ iaState \in {"iaInit", "iaStaticTest", "iaGood"}
  /\ imuCounter \in 0..(MaxCount + 1)
  /\ session \in Sessions
  /\ w0 \in Sessions \cup {NoBias}
  /\ wm \in Accumulators
  /\ am \in Accumulators
  /\ wc \in Averages
  /\ ac \in Averages
  /\ calibration \in Calibrations
  /\ irc \in Calibrations
  /\ lfState \in {"lfSGood", "lfSError"}
  /\ lfWriting \in BOOLEAN
  /\ motors \in {"zero", "driven"}
  /\ held \in BOOLEAN
  /\ crashes \in 0..MaxCrashes

\* A whole rotation average of session s, with the bias of session s.
PureRate(x, s) == x = [of |-> {<<s, "rotation">>}, n |-> PhaseCount + 1, bias |-> s]

\* A whole static average of session s.
PureGravity(x, s) == x = [of |-> {<<s, "static">>}, n |-> PhaseCount + 1, bias |-> NoBias]

PureCalibration(c) == \E s \in Sessions : PureRate(c.wc, s) /\ PureGravity(c.ac, s)

\* The matrix Qir in use and the one in irc.txt come from all samples of the
\* two phases of one and the same calibration session and from no others, with
\* the bias of that session's static test, whatever commands, restarts and card
\* failures came between; the balancing law always has such a matrix
\* (imuAlgFeed, endImuCalibration, imuAlgInit, rStay).
CalibrationPure ==
  /\ calibration # NoCalibration => PureCalibration(calibration)
  /\ irc # NoCalibration => PureCalibration(irc)
  /\ rState = "rsPlay" => PureCalibration(calibration)

\* After "stop" and after power-on the motors are asked for no speed until
\* "play" or a speed command, whatever samples and other commands come (rStop).
StopHolds == held => motors = "zero"

\* The stages that need nothing but samples come to an end (imuAlgFeed).
CalibrationProceeds ==
  (rState = "rsImuCalibrate" /\ icState \in {"icInit", "icStatic"})
    ~> ~(rState = "rsImuCalibrate" /\ icState \in {"icInit", "icStatic"})
=============================================================================
