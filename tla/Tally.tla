-------------------------------- MODULE Tally --------------------------------
(***************************************************************************)
(* What the counter sample promises its user: a number and three buttons,  *)
(* each of which does to the number what stands on it, every time it is    *)
(* pressed, until the number would leave the range of integers.            *)
(***************************************************************************)
EXTENDS Integers

CONSTANTS Least, Greatest

VARIABLES
  shown,    \* the number on the label
  pressed,  \* the button that was pressed and has not had its effect, or "none"
  mode      \* off, on, or ended by an overflow

vars == <<shown, pressed, mode>>

Init == shown = 0 /\ pressed = "none" /\ mode = "off"

TurnOn ==
  /\ mode = "off"
  /\ mode' = "on"
  /\ UNCHANGED <<shown, pressed>>

Press(button) ==
  /\ mode = "on" /\ pressed = "none"
  /\ pressed' = button
  /\ UNCHANGED <<shown, mode>>

MadeBy(button) ==
  CASE button = "+1"    -> shown + 1
    [] button = "-1"    -> shown - 1
    [] button = "Reset" -> 0

Show(n) == shown' = n /\ pressed' = "none" /\ UNCHANGED mode
End     == mode' = "ended" /\ UNCHANGED <<shown, pressed>>

Effect ==
  /\ mode = "on" /\ pressed # "none"
  /\ IF MadeBy(pressed) \in Least .. Greatest THEN Show(MadeBy(pressed)) ELSE End

Next == TurnOn \/ Effect \/ \E button \in {"+1", "-1", "Reset"} : Press(button)

(* The next press waits for the effect of the last. *)
Spec == Init /\ [][Next]_vars /\ WF_vars(TurnOn)

=============================================================================
