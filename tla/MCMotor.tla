------------------------------ MODULE MCMotor ------------------------------
(* Instances of Motor for TLC: the truncated product with maxMotorPWM and the *)
(* speeds the balancing algorithm asks for, one beyond each end of the range. *)
EXTENDS Motor

MCMaxMotorPWM == 5
MCPwm == [f \in 0..Full |-> (f * MCMaxMotorPWM) \div Full]
MCWanted == {-9, -8, -1, 1, 3, 9, NaN}
=============================================================================
