--------------------------- MODULE MC_NodeService ---------------------------
EXTENDS NodeService
=============================================================================
