------------------------------- MODULE AlarmText -------------------------------
(***************************************************************************)
(* The texts that Framing cuts out of a connection are parsed, and an      *)
(* event is filled in from the fields of the object (alarm_server.cpp:     *)
(* 119-186).  Here the two passes of the parser and the framing are        *)
(* compared on everything that is received; JsonGrammar has a reference.   *)
(***************************************************************************)
EXTENDS Framing, Json

(* A field of the event: the last string of that name in the object.       *)
Field(object, name) ==
  LET hits == {i \in DOMAIN object : /\ object[i].key = <<name>>
                                     /\ object[i].value.type = "string"}
  IN IF hits = {} THEN <<>> ELSE object[Max(hits)].value.of

(* What EventOf is for a text; x stands for the other fields that are      *)
(* strings.  A text that is not accepted has no event.  Channel, the field *)
(* that is a number, is left out, and with it the exception of stoi for a  *)
(* number that is out of range (alarm_server.cpp:139), which nobody        *)
(* catches.                                                                *)
ParsedEvent(text) ==
  LET object == Fill(text).value.of
  IN IF Accepts(text) THEN [type |-> Field(object, "Type"), x |-> Field(object, "x")]
     ELSE [type |-> <<>>, x |-> <<>>]

-----------------------------------------------------------------------------
(* The second pass stays in what the first pass has counted: it writes all *)
(* the nodes and no more characters, and reads the text to the same place  *)
(* (json.h:1507-2102; nothing is checked there).                           *)
FilledFitsSized ==
  Accepts(received) =>
    LET size == Size(received) fill == Fill(received)
    IN fill.at = size.at /\ fill.dom = size.dom /\ fill.data <= size.data

(* The text without the space around it.                                   *)
Trim(t) ==
  LET solid == {i \in DOMAIN t : t[i] \notin Spaces}
  IN IF solid = {} THEN <<>> ELSE SubSeq(t, Min(solid), Max(solid))

(* findJsonEnd counts braces and knows strings; on every object the parser *)
(* accepts it finds the very end, so that no message is cut short or glued *)
(* to the next.                                                            *)
FrameEndsWithObject ==
  received # <<>> /\ received[1] = Open /\ Accepts(received) =>
    FindJsonEnd(received) = Len(Trim(received))

=============================================================================
