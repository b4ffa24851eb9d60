--------------------------- MODULE MC_DeviceConfig ---------------------------
EXTENDS DeviceConfig

\* Texts within and beyond their room in EiConfig.
MC_Labels == {5}
MC_Keys == {40}
MC_Hosts == {7, 130}
MC_ApiKeys == {9}
MC_Urls == {8}

\* A sixteenth of a millisecond is the microphones' interval.
MC_Intervals == {0, 1, -1, Junk}
MC_Lengths == {5000, 7000, -1, Junk}
==============================================================================
