----------------------------- MODULE MC_AtServer -----------------------------
EXTENDS AtServer

MC_Names == {"HELP", "INFO", "CONFIG"}

MC_Words == MC_Names \cup {"NONE", "v", "w"}

MC_Kinds == {{"RUN"}, {"READ", "WRITE"}}

\* One and several arguments, empty ones at either end.
MC_Lists == { <<<<>>>>, <<<<"w">>>>, <<<<"w">>, <<>>>>, <<<<>>, <<"v">>, <<"w">>>> }

\* Every form of every command, and of one that nobody registers.
MC_Requests ==
  [type : {"RUN", "READ"}, command : MC_Names \cup {"NONE"}, arguments : {<<>>}]
    \cup [type : {"WRITE"}, command : {"CONFIG", "NONE"}, arguments : MC_Lists]

\* No AT+, no name, a blank before the name or behind it, a name run into a word.
MC_Junk == { <<"CONFIG">>, <<"SPACE", "w">>, <<"AT+">>, <<"AT+", "SPACE">>,
             <<"AT+", "?">>, <<"AT+", "SPACE", "CONFIG">>, <<"AT+", "CONFIG", "w">>,
             <<"AT+", "CONFIG", "SPACE", "?">> }
==============================================================================
