--------------------------- MODULE MCSingleFlight ---------------------------
EXTENDS SingleFlight
=============================================================================
