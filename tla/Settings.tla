------------------------------- MODULE Settings -------------------------------
(***************************************************************************)
(* What the AT commands promise about the device's settings: a command     *)
(* changes all of what it names or nothing of it, AT+CLEARCONFIG empties   *)
(* them, and a reset brings back the defaults.  A command with a malformed *)
(* number changes nothing but ends the firmware until the next reset.      *)
(***************************************************************************)
CONSTANTS Field, Default, Cleared,
  Updates               \* what one command may set: sets of <<field, value>>

VARIABLES settings, dead

SInit == settings = Default /\ dead = FALSE

Change ==
  /\ ~dead
  /\ \E u \in Updates :
       settings' = [f \in Field |->
         IF \E a \in u : a[1] = f THEN (CHOOSE a \in u : a[1] = f)[2] ELSE settings[f]]
  /\ UNCHANGED dead

Clear == ~dead /\ settings' = Cleared /\ UNCHANGED dead

Die == ~dead /\ dead' = TRUE /\ UNCHANGED settings

Restart == settings' = Default /\ dead' = FALSE

SNext == Change \/ Clear \/ Die \/ Restart

SSpec == SInit /\ [][SNext]_<<settings, dead>>
==============================================================================
