----------------------------- MODULE MC_MicFrames -----------------------------
EXTENDS MicFrames
==============================================================================
