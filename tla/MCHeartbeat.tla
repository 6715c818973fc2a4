---------------------------- MODULE MCHeartbeat ----------------------------
EXTENDS Heartbeat
MCCards == <<"alpha", "beta">>
=============================================================================
