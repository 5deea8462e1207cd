--------------------------- MODULE MCCommandPort ---------------------------
EXTENDS CommandPort
=============================================================================
