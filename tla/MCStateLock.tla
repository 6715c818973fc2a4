---------------------------- MODULE MCStateLock ----------------------------
EXTENDS StateLock
=============================================================================
