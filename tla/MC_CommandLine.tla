---------------------------- MODULE MC_CommandLine ----------------------------
EXTENDS CommandLine

MC_Typed == {"x", " "}

\* Cursor keys, HOME, END, DELETE, and one the server does not know.
MC_Keys == {<<"[", "A">>, <<"[", "B">>, <<"[", "C">>, <<"[", "D">>,
            <<"[", "F">>, <<"[", "H">>, <<"[", "3", "~">>, <<"[", "5", "~">>}
==============================================================================
