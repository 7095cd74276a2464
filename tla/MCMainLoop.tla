----------------------------- MODULE MCMainLoop -----------------------------
EXTENDS MainLoop

\* 100, 250 and 1000 ms, scaled.
MCPeriod == <<1, 2, 4>>
=============================================================================
