-------------------------------- MODULE Tokens --------------------------------
(***************************************************************************)
(* The texts an alarm server receives are sequences of tokens: single      *)
(* characters, except words, and the five characters uXXXX of an escape,   *)
(* one token for every class of code points the parser tells apart.        *)
(***************************************************************************)
EXTENDS Naturals

Quote == "\""
Backslash == "\\"
Open == "{"
Close == "}"
Spaces == {" ", "nl"}                  \* nl stands for tab, CR and LF
Digits == {"0", "1"}                   \* 1 stands for every digit but 0
Unicode == {"uByte", "uTwo", "uThree", "uHigh", "uLow"}
Escapable == {Quote, Backslash, "n"}   \* n stands for / b f n r t
Literals == {"true"}                   \* stands for true, false and null
Words == {"Type", "Alarm"}
Others == {Open, Close, "[", "]", ":", ",", "-", "+", ".", "e", "x"}

Token == Spaces \cup Digits \cup Unicode \cup Escapable \cup Literals \cup Words \cup Others

(* The bytes of a token.                                                   *)
Width(t) ==
  CASE t \in Unicode \cup {"Alarm"} -> 5
    [] t \in Literals \cup {"Type"} -> 4
    [] OTHER -> 1

===============================================================================
