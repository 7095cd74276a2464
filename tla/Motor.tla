------------------------------- MODULE Motor -------------------------------
(***************************************************************************)
(* The two drive motors, src/src/motordriver.cpp.  The main loop writes    *)
(* the wanted parameters mcp of each motor; the 1 kHz interrupt mdProcess  *)
(* moves the applied parameters mcpPrev towards them, at most fStep every  *)
(* second tick (mmode is mLinear throughout), and writes the pins.         *)
(*                                                                         *)
(* A float speed of -1..1 is an integer -Full..Full.  NaN stands for a     *)
(* float that is not a number.  A call of the main loop that touches both  *)
(* motors is several steps, with ticks between them; what mcUpdate writes  *)
(* with interrupts disabled is one step.                                   *)
(***************************************************************************)
EXTENDS Integers

CONSTANTS
  Full,            \* the float 1.0
  FStep,           \* fStep
  Inc,             \* 0.1, the step of "inc speed" and "dec speed"
  Pwm,             \* [0..Full -> Nat]: (int)(f * maxMotorPWM)
  CalibrationTime, \* calibrationTime, in ticks (100)
  Wanted,          \* speeds the balancing algorithm may ask for
  NaN,
  MaxCalls         \* bound: calls of the main loop

Motors == {1, 2}
MdProcessRate == 2

\* A product with maxMotorPWM, truncated: monotone and zero at zero.
ASSUME SpeedAssumption ==
  /\ Full \in Nat
  /\ FStep \in Nat \ {0}
  /\ Inc \in Nat
  /\ FStep <= Full
  /\ NaN \notin Int
  /\ Wanted \subseteq Int \cup {NaN}
  /\ Pwm \in [0..Full -> Nat]
  /\ Pwm[0] = 0
  /\ \A x, y \in 0..Full : x <= y => Pwm[x] <= Pwm[y]
ASSUME TimeAssumption ==
  /\ CalibrationTime \in Nat
  /\ MaxCalls \in Nat

VARIABLES
  mcp,            \* [Motors -> Params]: what the main loop wants
  mcpPrev,        \* [Motors -> Params]: what is applied
  pwm, dirPin,    \* [Motors -> _]: the pins
  mState,         \* "msCalibrate" or "msWork", the same for both motors
  processCounter, \* up to CalibrationTime, then modulo mdProcessRate
  call,           \* the main loop's call in progress: [at, v], v the two speeds
  calls           \* how many calls were made (bound)

vars == <<mcp, mcpPrev, pwm, dirPin, mState, processCounter, call, calls>>

LOW == 0
HIGH == 1
Params == [speed : Nat, dir : {LOW, HIGH}, fSpeed : -Full..Full]
Stopped == [speed |-> 0, dir |-> LOW, fSpeed |-> 0]

Abs(x) == IF x < 0 THEN -x ELSE x
InvDir(m) == m = 2                     \* invDir: the motor with the even id
PinOf(m, d) == IF InvDir(m) THEN HIGH - d ELSE d

\* mSetup: mcp.dir goes to the pin as it is, without invDir.
Init ==
  /\ mcp = [m \in Motors |-> Stopped]
  /\ mcpPrev = [m \in Motors |-> Stopped]
  /\ pwm = [m \in Motors |-> 0]
  /\ dirPin = [m \in Motors |-> LOW]
  /\ mState = "msCalibrate"
  /\ processCounter = 0
  /\ call = [at |-> "idle", v |-> <<0, 0>>]
  /\ calls = 0

-----------------------------------------------------------------------------
Clamp(x) == IF x < -Full THEN -Full ELSE IF x > Full THEN Full ELSE x

\* Mutant of McUpdate: fSpeed keeps what was asked for.
MutMcUpdateRaw(p, x) ==
  IF x = NaN THEN p
  ELSE [speed |-> Pwm[Abs(Clamp(x))],
        dir |-> IF x = 0 THEN p.dir ELSE IF x > 0 THEN LOW ELSE HIGH,
        fSpeed |-> x]

\* mcUpdate: zero keeps the direction, not-a-number changes nothing.
McUpdate(p, x) ==
  IF x = NaN THEN p
  ELSE LET c == Clamp(x)
       IN  [speed |-> Pwm[Abs(c)],
            dir |-> IF c = 0 THEN p.dir ELSE IF c > 0 THEN LOW ELSE HIGH,
            fSpeed |-> c]

\* The same speed and direction already: processOutput returns early.
Settled(m) == mcpPrev[m].speed = mcp[m].speed /\ mcpPrev[m].dir = mcp[m].dir

\* Mutants of Towards: the ramp overshoots; it is not limited.
MutTowardsOver(f, target) ==
  IF f < target THEN f + FStep ELSE f - FStep
MutTowardsJump(f, target) == target

\* One step of the ramp from f towards target.
Towards(f, target) ==
  IF f < target
  THEN IF f + FStep > target THEN target ELSE f + FStep
  ELSE IF f - FStep < target THEN target ELSE f - FStep

\* processOutput in mode mLinear: the applied parameters after it.
NewOutput(m) ==
  IF Settled(m) THEN mcpPrev[m]
  ELSE IF mcpPrev[m].fSpeed = mcp[m].fSpeed THEN mcp[m]
  ELSE McUpdate(mcpPrev[m], Towards(mcpPrev[m].fSpeed, mcp[m].fSpeed))

\* Mutant of ProcessOutput: the direction pin is written only with the speed up.
MutProcessOutput ==
  /\ mcpPrev' = [m \in Motors |-> NewOutput(m)]
  /\ pwm' = [m \in Motors |-> IF Settled(m) THEN pwm[m] ELSE NewOutput(m).speed]
  /\ dirPin' = [m \in Motors |->
                  IF Settled(m) \/ NewOutput(m).speed < pwm[m] THEN dirPin[m]
                  ELSE PinOf(m, NewOutput(m).dir)]

\* processOutput of both motors, the pins included.
ProcessOutput ==
  /\ mcpPrev' = [m \in Motors |-> NewOutput(m)]
  /\ pwm' = [m \in Motors |-> IF Settled(m) THEN pwm[m] ELSE NewOutput(m).speed]
  /\ dirPin' = [m \in Motors |-> IF Settled(m) THEN dirPin[m]
                                 ELSE PinOf(m, NewOutput(m).dir)]

NextCount == IF processCounter < CalibrationTime + MdProcessRate
             THEN processCounter + 1
             ELSE processCounter + 1 - MdProcessRate

\* mdProcess: mProcess of both motors, every millisecond.
MdProcess ==
  /\ processCounter' = NextCount
  /\ mState' = IF processCounter + 1 >= CalibrationTime THEN "msWork" ELSE mState
  /\ IF (processCounter + 1) % MdProcessRate = 0 /\ mState' = "msWork"
     THEN ProcessOutput
     ELSE UNCHANGED <<mcpPrev, pwm, dirPin>>
  /\ UNCHANGED <<mcp, call, calls>>

-----------------------------------------------------------------------------
(* The main loop *)

Call(v) ==
  /\ call.at = "idle"
  /\ calls < MaxCalls
  /\ calls' = calls + 1
  /\ call' = [at |-> "set1", v |-> v]

\* setMSpeed(u, u) of the balancing algorithm.
SetMSpeed ==
  /\ \E u \in Wanted : Call(<<u, u>>)
  /\ UNCHANGED <<mcp, mcpPrev, pwm, dirPin, mState, processCounter>>

\* mdStop.
MdStop ==
  /\ Call(<<0, 0>>)
  /\ UNCHANGED <<mcp, mcpPrev, pwm, dirPin, mState, processCounter>>

\* "inc speed" and "dec speed": getMSpeed reads the applied speed of one motor
\* and then of the other.
IncSpeedBegin ==
  /\ call.at = "idle"
  /\ calls < MaxCalls
  /\ calls' = calls + 1
  /\ \E d \in {Inc, -Inc} :
       call' = [at |-> "read2", v |-> <<mcpPrev[1].fSpeed + d, d>>]
  /\ UNCHANGED <<mcp, mcpPrev, pwm, dirPin, mState, processCounter>>

IncSpeedRead ==
  /\ call.at = "read2"
  /\ call' = [at |-> "set1", v |-> <<call.v[1], mcpPrev[2].fSpeed + call.v[2]>>]
  /\ UNCHANGED <<mcp, mcpPrev, pwm, dirPin, mState, processCounter, calls>>

\* setSpeed of the first motor, then of the second.
SetSpeed1 ==
  /\ call.at = "set1"
  /\ mcp' = [mcp EXCEPT ![1] = McUpdate(mcp[1], call.v[1])]
  /\ call' = [call EXCEPT !.at = "set2"]
  /\ UNCHANGED <<mcpPrev, pwm, dirPin, mState, processCounter, calls>>

SetSpeed2 ==
  /\ call.at = "set2"
  /\ mcp' = [mcp EXCEPT ![2] = McUpdate(mcp[2], call.v[2])]
  /\ call' = [at |-> "idle", v |-> <<0, 0>>]
  /\ UNCHANGED <<mcpPrev, pwm, dirPin, mState, processCounter, calls>>

MainStep == IncSpeedRead \/ SetSpeed1 \/ SetSpeed2

Next == \/ MdProcess
        \/ SetMSpeed \/ MdStop \/ IncSpeedBegin
        \/ IncSpeedRead \/ SetSpeed1 \/ SetSpeed2

Spec == Init /\ [][Next]_vars

\* The timer interrupt comes every millisecond; the main loop ends a call that
\* it has begun.
FairSpec == Spec /\ WF_vars(MdProcess) /\ WF_vars(MainStep)

-----------------------------------------------------------------------------
Speeds == Int \cup {NaN}

\* The type of the state: speeds stay in -1..1 whatever is asked for.
TypeOK ==
  /\ mcp \in [Motors -> Params]
  /\ mcpPrev \in [Motors -> Params]
  /\ pwm \in [Motors -> Nat]
  /\ dirPin \in [Motors -> {LOW, HIGH}]
  /\ mState \in {"msCalibrate", "msWork"}
  /\ processCounter \in 0..CalibrationTime + MdProcessRate
  /\ call \in [at : {"idle", "read2", "set1", "set2"}, v : Speeds \X Speeds]
  /\ call.at = "read2" => call.v \in Int \X Int
  /\ calls \in 0..MaxCalls

\* The parameters agree with each other: speed and direction are those of
\* fSpeed (mcUpdate and the copy in processOutput).
Coherent(p) ==
  /\ p.speed = Pwm[Abs(p.fSpeed)]
  /\ p.fSpeed > 0 => p.dir = LOW
  /\ p.fSpeed < 0 => p.dir = HIGH
ParamsCoherent == \A m \in Motors : Coherent(mcp[m]) /\ Coherent(mcpPrev[m])

\* The pins carry the applied parameters: the duty cycle always, the direction
\* whenever the applied speed is not zero (processOutput and its early return).
PinsFollow ==
  \A m \in Motors :
    /\ pwm[m] = mcpPrev[m].speed
    /\ mcpPrev[m].fSpeed # 0 => dirPin[m] = PinOf(m, mcpPrev[m].dir)

\* A motor is reversed only from and to a duty cycle within one step of the
\* ramp, and its duty cycle never changes by more than the ramp allows, however
\* often and when the wanted speed changes (processOutput).
GentleStep ==
  \A m \in Motors :
    /\ Abs(mcpPrev'[m].fSpeed - mcpPrev[m].fSpeed) <= FStep
    /\ dirPin'[m] # dirPin[m] => pwm[m] <= Pwm[FStep] /\ pwm'[m] <= Pwm[FStep]
Gentle == [][GentleStep]_vars

\* Whatever was asked for last is reached: in the end the pins show the wanted
\* speed and direction and stay so (the early return of processOutput never
\* stops the ramp short).
Reached(m) == /\ pwm[m] = mcp[m].speed
              /\ pwm[m] > 0 => dirPin[m] = PinOf(m, mcp[m].dir)
Reaches == <>[](\A m \in Motors : Reached(m))
=============================================================================
