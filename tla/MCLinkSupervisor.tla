--------------------------- MODULE MCLinkSupervisor ---------------------------
EXTENDS LinkSupervisor
=============================================================================
