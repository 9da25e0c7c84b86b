------------------------------- MODULE MCUuid -------------------------------
EXTENDS Uuid, TLC

CONSTANTS u1, u2, u3, integer, double
=============================================================================
