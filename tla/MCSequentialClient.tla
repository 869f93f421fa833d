------------------------- MODULE MCSequentialClient -------------------------
EXTENDS SequentialClient
=============================================================================
