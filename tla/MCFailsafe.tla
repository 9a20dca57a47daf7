----------------------------- MODULE MCFailsafe -----------------------------
EXTENDS Failsafe
=============================================================================
