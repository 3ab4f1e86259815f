--------------------------- MODULE MCLiveComponent ---------------------------
EXTENDS LiveComponent
=============================================================================
