---------------------------- MODULE Motor_proofs ----------------------------
(* Proofs about the motor driver for every ramp step, range and sequence of   *)
(* wanted speeds, with ticks at any place between the main loop's steps.      *)
EXTENDS Motor, TLAPS

Inv == TypeOK /\ ParamsCoherent /\ PinsFollow

\* What mcUpdate stores is well typed and coherent, whatever it is given.
LEMMA McUpdateCoherent ==
  ASSUME NEW p \in Params, Coherent(p), NEW x \in Speeds
  PROVE  McUpdate(p, x) \in Params /\ Coherent(McUpdate(p, x))
<1>1. CASE x = NaN
  BY <1>1 DEF McUpdate
<1>2. CASE x # NaN
  <2> DEFINE c == Clamp(x)
             q == [speed |-> Pwm[Abs(c)],
                   dir |-> IF c = 0 THEN p.dir ELSE IF c > 0 THEN LOW ELSE HIGH,
                   fSpeed |-> c]
  <2>1. x \in Int
    BY <1>2 DEF Speeds
  <2>2. c \in -Full..Full
    BY <2>1, SpeedAssumption DEF Clamp
  <2>3. Abs(c) \in 0..Full
    BY <2>2, SpeedAssumption DEF Abs
  <2>4. Pwm[Abs(c)] \in Nat
    BY <2>3, SpeedAssumption
  <2>5. McUpdate(p, x) = q
    BY <1>2 DEF McUpdate
  <2> HIDE DEF c
  <2>6. p.dir \in {LOW, HIGH}
    BY DEF Params
  <2>7. q \in Params
    BY <2>2, <2>4, <2>6 DEF Params
  <2>8. Coherent(q)
    BY <2>2 DEF Coherent
  <2> QED BY <2>5, <2>7, <2>8
<1> QED BY <1>1, <1>2

\* A step of the ramp stays between the applied and the wanted speed and is at
\* most FStep.
LEMMA TowardsBounded ==
  ASSUME NEW f \in -Full..Full, NEW t \in -Full..Full
  PROVE  /\ Towards(f, t) \in -Full..Full
         /\ Abs(Towards(f, t) - f) <= FStep
  BY SpeedAssumption DEF Towards, Abs

\* The applied parameters after processOutput.
LEMMA NewOutputCoherent ==
  ASSUME Inv, NEW m \in Motors
  PROVE  /\ NewOutput(m) \in Params
         /\ Coherent(NewOutput(m))
         /\ Abs(NewOutput(m).fSpeed - mcpPrev[m].fSpeed) <= FStep
<1>1. mcp[m] \in Params /\ mcpPrev[m] \in Params
  BY DEF Inv, TypeOK
<1>2. Coherent(mcp[m]) /\ Coherent(mcpPrev[m])
  BY DEF Inv, ParamsCoherent
<1>3. mcp[m].fSpeed \in -Full..Full /\ mcpPrev[m].fSpeed \in -Full..Full
  BY <1>1 DEF Params
<1>4. CASE Settled(m) \/ mcpPrev[m].fSpeed = mcp[m].fSpeed
  <2>1. NewOutput(m) = mcpPrev[m] \/ NewOutput(m) = mcp[m]
    BY <1>4 DEF NewOutput
  <2>2. NewOutput(m).fSpeed = mcpPrev[m].fSpeed
    BY <1>4 DEF NewOutput
  <2>3. Abs(NewOutput(m).fSpeed - mcpPrev[m].fSpeed) <= FStep
    BY <2>2, <1>3, SpeedAssumption DEF Abs
  <2> QED BY <2>1, <2>3, <1>1, <1>2
<1>5. CASE ~Settled(m) /\ mcpPrev[m].fSpeed # mcp[m].fSpeed
  <2> DEFINE t == Towards(mcpPrev[m].fSpeed, mcp[m].fSpeed)
  <2>1. NewOutput(m) = McUpdate(mcpPrev[m], t)
    BY <1>5 DEF NewOutput
  <2>2. t \in -Full..Full /\ Abs(t - mcpPrev[m].fSpeed) <= FStep
    BY <1>3, TowardsBounded
  <2> HIDE DEF t
  <2>3. t \in Speeds /\ t # NaN
    BY <2>2, SpeedAssumption DEF Speeds
  <2>4. McUpdate(mcpPrev[m], t) \in Params /\ Coherent(McUpdate(mcpPrev[m], t))
    BY <1>1, <1>2, <2>3, McUpdateCoherent
  <2>5. McUpdate(mcpPrev[m], t).fSpeed = t
    BY <2>2, <2>3, SpeedAssumption DEF McUpdate, Clamp
  <2> QED BY <2>1, <2>2, <2>4, <2>5
<1> QED BY <1>4, <1>5

\* The sign of the applied speed: if the direction changes, both the old and
\* the new speed are within one step of zero.
LEMMA ReverseSlow ==
  ASSUME Inv, NEW m \in Motors, mcpPrev[m].fSpeed # 0,
         NewOutput(m).dir # mcpPrev[m].dir
  PROVE  Abs(mcpPrev[m].fSpeed) <= FStep /\ Abs(NewOutput(m).fSpeed) <= FStep
<1> DEFINE n == NewOutput(m)
           p == mcpPrev[m]
<1>1. n \in Params /\ Coherent(n) /\ Abs(n.fSpeed - p.fSpeed) <= FStep
  BY NewOutputCoherent
<1>2. p \in Params /\ Coherent(p)
  BY DEF Inv, TypeOK, ParamsCoherent
<1> HIDE DEF n, p
<1>3. n.fSpeed \in Int /\ p.fSpeed \in Int
  BY <1>1, <1>2, SpeedAssumption DEF Params
<1>4. n.dir # p.dir /\ p.fSpeed # 0
  BY DEF n, p
<1>5. \/ p.fSpeed > 0 /\ n.fSpeed <= 0
      \/ p.fSpeed < 0 /\ n.fSpeed >= 0
  BY <1>1, <1>2, <1>3, <1>4 DEF Coherent
<1>6. Abs(p.fSpeed) <= FStep /\ Abs(n.fSpeed) <= FStep
  BY <1>1, <1>3, <1>5, SpeedAssumption DEF Abs
<1> QED BY <1>6 DEF n, p

\* The duty cycle of a speed within one step of zero.
LEMMA PwmSlow ==
  ASSUME NEW p \in Params, Coherent(p), Abs(p.fSpeed) <= FStep
  PROVE  p.speed <= Pwm[FStep]
<1>1. Abs(p.fSpeed) \in 0..Full /\ FStep \in 0..Full
  BY SpeedAssumption DEF Params, Abs
<1>2. Pwm[Abs(p.fSpeed)] <= Pwm[FStep]
  BY <1>1, SpeedAssumption
<1> QED BY <1>2 DEF Coherent

\* The initial state satisfies the invariant.
LEMMA InitInv == Init => Inv
<1> SUFFICES ASSUME Init PROVE Inv
  OBVIOUS
<1>1. Stopped \in Params
  BY SpeedAssumption DEF Stopped, Params, LOW, HIGH
<1>2. Coherent(Stopped)
  BY SpeedAssumption DEF Stopped, Coherent, Abs
<1>3. call \in [at : {"idle", "read2", "set1", "set2"}, v : Speeds \X Speeds]
  BY DEF Init, Speeds
<1>4. TypeOK
  BY <1>1, <1>3, TimeAssumption DEF Init, TypeOK, LOW, HIGH, MdProcessRate
<1>5. ParamsCoherent
  BY <1>2 DEF Init, ParamsCoherent
<1>6. PinsFollow
  BY DEF Init, PinsFollow, Stopped
<1> QED BY <1>4, <1>5, <1>6 DEF Inv

\* processOutput of both motors keeps the invariant and is gentle.
LEMMA OutputStep ==
  ASSUME Inv, ProcessOutput
  PROVE  /\ mcpPrev' \in [Motors -> Params]
         /\ pwm' \in [Motors -> Nat]
         /\ dirPin' \in [Motors -> {LOW, HIGH}]
         /\ \A m \in Motors : Coherent(mcpPrev'[m])
         /\ PinsFollow'
         /\ GentleStep
<1>1. \A m \in Motors : NewOutput(m) \in Params /\ Coherent(NewOutput(m))
  BY NewOutputCoherent
<1>2. /\ mcpPrev' = [m \in Motors |-> NewOutput(m)]
      /\ pwm' = [m \in Motors |-> IF Settled(m) THEN pwm[m] ELSE NewOutput(m).speed]
      /\ dirPin' = [m \in Motors |-> IF Settled(m) THEN dirPin[m]
                                     ELSE PinOf(m, NewOutput(m).dir)]
  BY DEF ProcessOutput
<1>3. /\ pwm \in [Motors -> Nat]
      /\ dirPin \in [Motors -> {LOW, HIGH}]
      /\ mcpPrev \in [Motors -> Params]
  BY DEF Inv, TypeOK
<1>4. mcpPrev' \in [Motors -> Params]
  BY <1>1, <1>2
<1>5. pwm' \in [Motors -> Nat]
  BY <1>1, <1>2, <1>3 DEF Params
<1>6. ASSUME NEW m \in Motors PROVE PinOf(m, NewOutput(m).dir) \in {LOW, HIGH}
  <2>1. NewOutput(m).dir \in {LOW, HIGH}
    BY <1>1 DEF Params
  <2> QED BY <2>1 DEF PinOf, LOW, HIGH
<1>7. dirPin' \in [Motors -> {LOW, HIGH}]
  BY <1>2, <1>3, <1>6
<1>8. \A m \in Motors : Coherent(mcpPrev'[m])
  BY <1>1, <1>2
<1>9. ASSUME NEW m \in Motors
      PROVE  /\ pwm'[m] = mcpPrev'[m].speed
             /\ mcpPrev'[m].fSpeed # 0 => dirPin'[m] = PinOf(m, mcpPrev'[m].dir)
  <2>1. CASE Settled(m)
    <3>1. NewOutput(m) = mcpPrev[m]
      BY <2>1 DEF NewOutput
    <3>2. pwm'[m] = pwm[m] /\ dirPin'[m] = dirPin[m] /\ mcpPrev'[m] = mcpPrev[m]
      BY <1>2, <2>1, <3>1
    <3> QED BY <3>2 DEF Inv, PinsFollow
  <2>2. CASE ~Settled(m)
    BY <1>2, <2>2
  <2> QED BY <2>1, <2>2
<1>10. ASSUME NEW m \in Motors, dirPin'[m] # dirPin[m]
       PROVE  pwm[m] <= Pwm[FStep] /\ pwm'[m] <= Pwm[FStep]
  <2>1. ~Settled(m)
    BY <1>2, <1>10
  <2>2. pwm'[m] = NewOutput(m).speed /\ dirPin'[m] = PinOf(m, NewOutput(m).dir)
    BY <1>2, <2>1
  <2>3. pwm[m] = mcpPrev[m].speed /\ mcpPrev[m] \in Params /\ Coherent(mcpPrev[m])
    BY DEF Inv, PinsFollow, ParamsCoherent, TypeOK
  <2>4. Abs(mcpPrev[m].fSpeed) <= FStep /\ Abs(NewOutput(m).fSpeed) <= FStep
    <3>1. CASE mcpPrev[m].fSpeed = 0
      <4>1. Abs(NewOutput(m).fSpeed - 0) <= FStep
        BY <3>1, NewOutputCoherent
      <4>2. NewOutput(m).fSpeed \in Int
        BY <1>1, SpeedAssumption DEF Params
      <4> QED BY <3>1, <4>1, <4>2, SpeedAssumption DEF Abs
    <3>2. CASE mcpPrev[m].fSpeed # 0
      <4>1. dirPin[m] = PinOf(m, mcpPrev[m].dir)
        BY <3>2 DEF Inv, PinsFollow
      <4>2. NewOutput(m).dir # mcpPrev[m].dir
        BY <4>1, <2>2, <1>10
      <4> QED BY <3>2, <4>2, ReverseSlow
    <3> QED BY <3>1, <3>2
  <2>5. mcpPrev[m].speed <= Pwm[FStep]
    BY <2>3, <2>4, PwmSlow
  <2>6. NewOutput(m).speed <= Pwm[FStep]
    BY <1>1, <2>4, PwmSlow
  <2> QED BY <2>2, <2>3, <2>5, <2>6
<1>11. \A m \in Motors : Abs(mcpPrev'[m].fSpeed - mcpPrev[m].fSpeed) <= FStep
  BY <1>2, NewOutputCoherent
<1> QED BY <1>4, <1>5, <1>7, <1>8, <1>9, <1>10, <1>11 DEF PinsFollow, GentleStep

\* What is not written does not move the pins.
LEMMA StillStep ==
  ASSUME Inv, UNCHANGED <<mcpPrev, pwm, dirPin>>
  PROVE  PinsFollow' /\ GentleStep /\ \A m \in Motors : Coherent(mcpPrev'[m])
<1>1. PinsFollow'
  BY DEF Inv, PinsFollow
<1>2. \A m \in Motors : mcpPrev[m].fSpeed \in Int
  BY SpeedAssumption DEF Inv, TypeOK, Params
<1>3. \A m \in Motors : Abs(mcpPrev'[m].fSpeed - mcpPrev[m].fSpeed) <= FStep
  BY <1>2, SpeedAssumption DEF Abs
<1>4. \A m \in Motors : dirPin'[m] = dirPin[m]
  OBVIOUS
<1>5. \A m \in Motors : Coherent(mcpPrev'[m])
  BY DEF Inv, ParamsCoherent
<1> QED BY <1>1, <1>3, <1>4, <1>5 DEF GentleStep

\* A tick of mdProcess.
LEMMA TickStep ==
  ASSUME Inv, MdProcess
  PROVE  Inv' /\ GentleStep
<1>1. /\ mcpPrev' \in [Motors -> Params]
      /\ pwm' \in [Motors -> Nat]
      /\ dirPin' \in [Motors -> {LOW, HIGH}]
      /\ \A m \in Motors : Coherent(mcpPrev'[m])
      /\ PinsFollow'
      /\ GentleStep
  <2>1. CASE ProcessOutput
    BY <2>1, OutputStep
  <2>2. CASE UNCHANGED <<mcpPrev, pwm, dirPin>>
    BY <2>2, StillStep DEF Inv, TypeOK
  <2> QED BY <2>1, <2>2 DEF MdProcess
<1>2. UNCHANGED <<mcp, call, calls>>
  BY DEF MdProcess
<1>3. processCounter' \in 0..CalibrationTime + MdProcessRate
  BY TimeAssumption DEF Inv, TypeOK, MdProcess, NextCount, MdProcessRate
<1>4. mState' \in {"msCalibrate", "msWork"}
  BY DEF Inv, TypeOK, MdProcess
<1>5. TypeOK'
  BY <1>1, <1>2, <1>3, <1>4 DEF Inv, TypeOK
<1>6. ParamsCoherent'
  BY <1>1, <1>2 DEF Inv, ParamsCoherent
<1> QED BY <1>1, <1>5, <1>6 DEF Inv

\* Beginning a call, or reading the second speed for it.
LEMMA CallStep ==
  ASSUME Inv,
         UNCHANGED <<mcp, mcpPrev, pwm, dirPin, mState, processCounter>>,
         calls' \in 0..MaxCalls,
         call' \in [at : {"read2", "set1"}, v : Speeds \X Speeds],
         call'.at = "read2" => call'.v \in Int \X Int
  PROVE  Inv' /\ GentleStep
<1>1. PinsFollow' /\ GentleStep
  BY StillStep
<1>2. TypeOK'
  BY DEF Inv, TypeOK
<1>3. ParamsCoherent'
  BY DEF Inv, ParamsCoherent
<1> QED BY <1>1, <1>2, <1>3 DEF Inv

\* Setting one motor.
LEMMA SetStep ==
  ASSUME Inv, NEW k \in Motors, NEW x \in Speeds,
         mcp' = [mcp EXCEPT ![k] = McUpdate(mcp[k], x)],
         UNCHANGED <<mcpPrev, pwm, dirPin, mState, processCounter, calls>>,
         call' \in [at : {"idle", "set2"}, v : Speeds \X Speeds]
  PROVE  Inv' /\ GentleStep
<1>1. PinsFollow' /\ GentleStep /\ \A m \in Motors : Coherent(mcpPrev'[m])
  BY StillStep
<1>2. mcp \in [Motors -> Params] /\ \A m \in Motors : Coherent(mcp[m])
  BY DEF Inv, TypeOK, ParamsCoherent
<1>3. McUpdate(mcp[k], x) \in Params /\ Coherent(McUpdate(mcp[k], x))
  BY <1>2, McUpdateCoherent
<1>4. mcp' \in [Motors -> Params] /\ \A m \in Motors : Coherent(mcp'[m])
  BY <1>2, <1>3
<1>5. TypeOK'
  BY <1>4 DEF Inv, TypeOK
<1>6. ParamsCoherent'
  BY <1>1, <1>4 DEF ParamsCoherent
<1> QED BY <1>1, <1>5, <1>6 DEF Inv

\* Every step keeps the invariant and is gentle.
LEMMA NextStep ==
  ASSUME Inv, [Next]_vars
  PROVE  Inv' /\ (GentleStep \/ UNCHANGED vars)
<1>1. CASE MdProcess
  BY <1>1, TickStep
<1>t. /\ call \in [at : {"idle", "read2", "set1", "set2"}, v : Speeds \X Speeds]
      /\ calls \in 0..MaxCalls
      /\ mcpPrev \in [Motors -> Params]
      /\ call.at = "read2" => call.v \in Int \X Int
  BY DEF Inv, TypeOK
<1>i. \A m \in Motors : mcpPrev[m].fSpeed \in Int
  BY <1>t, SpeedAssumption DEF Params
<1>2. CASE SetMSpeed
  <2>1. PICK u \in Wanted : Call(<<u, u>>)
    BY <1>2 DEF SetMSpeed
  <2>2. u \in Speeds
    BY SpeedAssumption DEF Speeds
  <2>3. calls' \in 0..MaxCalls
    BY <2>1, <1>t, TimeAssumption DEF Call
  <2>4. call' = [at |-> "set1", v |-> <<u, u>>]
    BY <2>1 DEF Call
  <2> QED BY <1>2, <2>2, <2>3, <2>4, CallStep DEF SetMSpeed
<1>3. CASE MdStop
  <2>1. calls' \in 0..MaxCalls
    BY <1>3, <1>t, TimeAssumption DEF Call, MdStop
  <2>2. call' = [at |-> "set1", v |-> <<0, 0>>]
    BY <1>3 DEF Call, MdStop
  <2>3. 0 \in Speeds
    BY DEF Speeds
  <2> QED BY <1>3, <2>1, <2>2, <2>3, CallStep DEF MdStop
<1>4. CASE IncSpeedBegin
  <2>1. PICK d \in {Inc, -Inc} :
          call' = [at |-> "read2", v |-> <<mcpPrev[1].fSpeed + d, d>>]
    BY <1>4 DEF IncSpeedBegin
  <2>2. d \in Int /\ mcpPrev[1].fSpeed + d \in Int
    BY <1>i, SpeedAssumption DEF Motors
  <2>3. calls' \in 0..MaxCalls
    BY <1>4, <1>t, TimeAssumption DEF IncSpeedBegin
  <2>4. call' \in [at : {"read2", "set1"}, v : Speeds \X Speeds] /\ call'.v \in Int \X Int
    BY <2>1, <2>2 DEF Speeds
  <2> QED BY <1>4, <2>3, <2>4, CallStep DEF IncSpeedBegin
<1>5. CASE IncSpeedRead
  <2>1. call' = [at |-> "set1", v |-> <<call.v[1], mcpPrev[2].fSpeed + call.v[2]>>]
    BY <1>5 DEF IncSpeedRead
  <2>2. call.v \in Int \X Int
    BY <1>5, <1>t DEF IncSpeedRead
  <2>3. call.v[1] \in Int /\ mcpPrev[2].fSpeed + call.v[2] \in Int
    BY <2>2, <1>i DEF Motors
  <2>4. call' \in [at : {"read2", "set1"}, v : Speeds \X Speeds] /\ call'.at # "read2"
    BY <2>1, <2>3 DEF Speeds
  <2>5. calls' \in 0..MaxCalls
    BY <1>5, <1>t DEF IncSpeedRead
  <2> QED BY <1>5, <2>4, <2>5, CallStep DEF IncSpeedRead
<1>6. CASE SetSpeed1
  <2>1. call.v[1] \in Speeds
    BY <1>t
  <2>2. call' \in [at : {"idle", "set2"}, v : Speeds \X Speeds]
    BY <1>6, <1>t DEF SetSpeed1
  <2>3. 1 \in Motors
    BY DEF Motors
  <2> QED BY <1>6, <2>1, <2>2, <2>3, SetStep DEF SetSpeed1
<1>7. CASE SetSpeed2
  <2>1. call.v[2] \in Speeds
    BY <1>t
  <2>2. call' \in [at : {"idle", "set2"}, v : Speeds \X Speeds]
    BY <1>7 DEF SetSpeed2, Speeds
  <2>3. 2 \in Motors
    BY DEF Motors
  <2> QED BY <1>7, <2>1, <2>2, <2>3, SetStep DEF SetSpeed2
<1>8. CASE UNCHANGED vars
  BY <1>8 DEF vars, Inv, TypeOK, ParamsCoherent, PinsFollow
<1> QED BY <1>1, <1>2, <1>3, <1>4, <1>5, <1>6, <1>7, <1>8 DEF Next

\* Coherent parameters, and pins that follow them also where processOutput
\* returns early because the duty cycle is the same.
THEOREM MotorInvariant == Spec => [](ParamsCoherent /\ PinsFollow)
<1>1. Init => Inv
  BY InitInv
<1>2. Inv /\ [Next]_vars => Inv'
  BY NextStep
<1>3. Inv => ParamsCoherent /\ PinsFollow
  BY DEF Inv
<1> QED BY <1>1, <1>2, <1>3, PTL DEF Spec

\* The applied speed moves by at most FStep at a time and a motor is reversed
\* only at low speed, for every sequence of wanted speeds and ticks.
THEOREM MotorGentle == Spec => Gentle
<1>1. Init => Inv
  BY InitInv
<1>2. Inv /\ [Next]_vars => Inv'
  BY NextStep
<1>3. Inv /\ [Next]_vars => [GentleStep]_vars
  BY NextStep
<1> QED BY <1>1, <1>2, <1>3, PTL DEF Spec, Gentle

\* Every speed stored by the motor driver stays in the range of the code, for
\* every wanted speed, not-a-number and out of range included.
THEOREM MotorTypes == Spec => []TypeOK
<1>1. Inv => TypeOK
  BY DEF Inv
<1> QED BY <1>1, InitInv, NextStep, PTL DEF Spec
=============================================================================
