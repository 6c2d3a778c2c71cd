-------------------------- MODULE MCBufferingFlow --------------------------
EXTENDS BufferingFlow
=============================================================================
