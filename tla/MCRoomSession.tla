--------------------------- MODULE MCRoomSession ---------------------------
EXTENDS RoomSession
=============================================================================
