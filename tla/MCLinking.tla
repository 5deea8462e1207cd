----------------------------- MODULE MCLinking -----------------------------
EXTENDS Linking
=============================================================================
