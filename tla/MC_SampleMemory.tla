--------------------------- MODULE MC_SampleMemory ---------------------------
EXTENDS Recording

MC_Fitting == {0, 1, 3, 4}
MC_Longer  == {3, 5}

\* Inside the memory, over its end, and from its very end.
MC_Requests == {<<2, 5>>, <<46, 4>>, <<48, 1>>}

\* One microphone; the payload has room for more sensors.
MC_Sensors == <<"audio", "NULL", "NULL">>
MC_HeaderSize == Len(header)

\* The ends of the range, both signs, and both bytes.
MC_Samples == <<0 - 32768, 255, 0 - 1, 32767, 0 - 256, 0, 256>>
==============================================================================
