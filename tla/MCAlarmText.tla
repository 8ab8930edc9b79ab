------------------------------ MODULE MCAlarmText ------------------------------
(* Four kinds of text, each inside an object: a key, a number, nested      *)
(* values, and a message with what follows it.                             *)
EXTENDS JsonGrammar

MCContexts ==
  {[prefix   |-> <<Open, Quote>>,
    alphabet |-> {Quote, Backslash, "n", "x", "nl", Close, "uThree", "uHigh", "uLow"},
    suffix   |-> <<Quote, ":", "1", Close>>, max |-> 5],
   [prefix   |-> <<Open, Quote, "x", Quote, ":">>,
    alphabet |-> {"0", "1", "-", ".", "e", "+", " "},
    suffix   |-> <<Close>>, max |-> 5],
   [prefix   |-> <<Open, Quote, "x", Quote, ":">>,
    alphabet |-> {Open, Close, "[", "]", ",", "1", "true"},
    suffix   |-> <<Close>>, max |-> 5],
   [prefix   |-> <<Open, Quote, "Type", Quote, ":", Quote, "Alarm", Quote>>,
    alphabet |-> {Open, Close, Quote, ":", ",", "Type", "x"},
    suffix   |-> <<Quote, "x", Quote, Close>>, max |-> 5]}

=============================================================================
