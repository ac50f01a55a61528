---------------------------- MODULE MCServeAsync ----------------------------
EXTENDS ServeAsync
=============================================================================
