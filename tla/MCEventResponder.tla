-------------------------- MODULE MCEventResponder --------------------------
EXTENDS EventResponder

CONSTANTS r1, r2, r3
MCResponder == {r1, r2, r3}
=============================================================================
