------------------------------ MODULE MC_Camera ------------------------------
EXTENDS Camera
==============================================================================
