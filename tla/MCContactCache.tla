--------------------------- MODULE MCContactCache ---------------------------
EXTENDS ContactCache
=============================================================================
