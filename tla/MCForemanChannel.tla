-------------------------- MODULE MCForemanChannel --------------------------
EXTENDS ForemanChannel
=============================================================================
