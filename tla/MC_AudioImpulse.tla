--------------------------- MODULE MC_AudioImpulse ---------------------------
EXTENDS AudioImpulse
==============================================================================
