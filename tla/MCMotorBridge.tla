--------------------------- MODULE MCMotorBridge ---------------------------
(* One channel that drives and one whose initialisation failed.  The       *)
(* periods keep the order of the code's: loop < pass < maximal age.        *)
EXTENDS MotorBridge

CONSTANTS m1, m2

MCMotors == {m1, m2}
MCSamples == { [m \in MCMotors |-> IF m = m1 THEN 50 ELSE NaN] }
\* The main run: all closed gates behave alike.
MCDisarm == { {}, {"armed"} }
MCArmStates == { {}, {"armed"}, {"armed", "kill"} }
=============================================================================
