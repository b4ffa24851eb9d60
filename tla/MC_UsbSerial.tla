----------------------------- MODULE MC_UsbSerial -----------------------------
EXTENDS MainLoop

\* Two bytes of text, which the loop tells from each other, and the two bytes
\* that have a meaning of their own.
MC_Chars == {"b", "enter", "NUL", "FF"}
==============================================================================
