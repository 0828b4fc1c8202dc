------------------------ MODULE MC_ControlDispatcher ------------------------
EXTENDS ControlDispatcher
=============================================================================
