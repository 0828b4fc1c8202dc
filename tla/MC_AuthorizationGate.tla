------------------------ MODULE MC_AuthorizationGate ------------------------
EXTENDS AuthorizationGate
=============================================================================
