------------------------------- MODULE Framing -------------------------------
(***************************************************************************)
(* A connection of the alarm server: what recv returns is appended to a    *)
(* buffer, processBuffer cuts the messages out of it and calls the         *)
(* callback for every alarm (alarm_server.cpp:82-117, 189-202).  What is   *)
(* made of a message is AlarmText's business.                              *)
(*                                                                         *)
(* The peer sends a text in pieces of its choice.  The text follows a      *)
(* context: it starts with its prefix, goes on with tokens of its alphabet *)
(* and may end with its suffix.                                            *)
(***************************************************************************)
EXTENDS Tokens, Integers, SequencesExt, FiniteSetsExt

CONSTANTS
  Contexts,     \* records with prefix, alphabet, suffix and max
  EventOf(_),   \* the event that is filled in from a message
  MaxBuffer,    \* MAX_BUF
  MaxPiece      \* bound: tokens in a piece

ASSUME TextAssumption ==
  /\ \A c \in Contexts :
       c.prefix \in Seq(Token) /\ c.suffix \in Seq(Token) /\ c.alphabet \subseteq Token
  /\ MaxBuffer \in Nat /\ MaxPiece \in Nat \ {0}

VARIABLES
  context,      \* the context of the text
  received,     \* history: everything received
  done,         \* the suffix has been sent
  buffer,       \* the local variable of runClient
  cut,          \* history: the texts cut out of it
  events        \* the events given to the callback

textVars == <<context, received, done, buffer, cut, events>>

-----------------------------------------------------------------------------
(* findJsonEnd: the braces outside strings are counted; a backslash in a   *)
(* string takes the next character with it.                                *)
ScanStart == [depth |-> 0, string |-> FALSE, escaped |-> FALSE, end |-> 0]

(* Mutant: a backslash is a character like others.                         *)
ScanToken_NoEscapes(r, t, i) ==
  IF r.end # 0 THEN r
  ELSE IF t = Quote THEN [r EXCEPT !.string = ~@]
  ELSE IF r.string \/ t \notin {Open, Close} THEN r
  ELSE IF t = Open THEN [r EXCEPT !.depth = @ + 1]
  ELSE [r EXCEPT !.depth = @ - 1, !.end = IF r.depth = 1 THEN i ELSE 0]

ScanToken(r, t, i) ==
  IF r.end # 0 THEN r
  ELSE IF r.escaped THEN [r EXCEPT !.escaped = FALSE]
  ELSE IF t = Backslash /\ r.string THEN [r EXCEPT !.escaped = TRUE]
  ELSE IF t = Quote THEN [r EXCEPT !.string = ~@]
  ELSE IF r.string \/ t \notin {Open, Close} THEN r
  ELSE IF t = Open THEN [r EXCEPT !.depth = @ + 1]
  ELSE [r EXCEPT !.depth = @ - 1, !.end = IF r.depth = 1 THEN i ELSE 0]

Scan(data) ==
  LET upto[n \in 0 .. Len(data)] ==
        IF n = 0 THEN ScanStart ELSE ScanToken(upto[n - 1], data[n], n)
  IN  upto[Len(data)]

FindJsonEnd(data) == Scan(data).end

Bytes(text) == FoldLeft(LAMBDA n, t : n + Width(t), 0, text)

(* One turn of the loop of processBuffer.  It ends when the buffer has no  *)
(* brace, and only then is limited, or no complete message.                *)
CutOne(w) ==
  LET braces == {i \in DOMAIN w.rest : w.rest[i] = Open}
      begun  == SubSeq(w.rest, Min(braces), Len(w.rest))
      end    == FindJsonEnd(begun)
  IN IF braces = {}
     THEN [w EXCEPT !.rest = IF Bytes(@) > MaxBuffer THEN <<>> ELSE @]
     ELSE IF end = 0 THEN [w EXCEPT !.rest = begun]
     ELSE [rest  |-> SubSeq(begun, end + 1, Len(begun)),
           texts |-> Append(w.texts, SubSeq(begun, 1, end))]

(* processBuffer: the texts that are complete and what stays.  Every turn  *)
(* but the last shortens the buffer, and nothing changes after the last.   *)
Cut(buf) ==
  LET after[n \in 0 .. Len(buf)] ==
        IF n = 0 THEN [rest |-> buf, texts |-> <<>>] ELSE CutOne(after[n - 1])
  IN  after[Len(buf)]

(* The events of the texts that are alarms.                                *)
Alarms(texts) ==
  LET upto[n \in 0 .. Len(texts)] ==
        IF n = 0 THEN <<>>
        ELSE IF EventOf(texts[n]).type = <<"Alarm">>
             THEN Append(upto[n - 1], EventOf(texts[n])) ELSE upto[n - 1]
  IN  upto[Len(texts)]

-----------------------------------------------------------------------------
(* Mutant: what is left in the buffer is not kept for the next piece.      *)
Receive_DropsRest(piece) ==
  LET result == Cut(buffer \o piece)
  IN /\ received' = received \o piece
     /\ buffer' = <<>>
     /\ cut' = cut \o result.texts
     /\ events' = events \o Alarms(result.texts)
     /\ UNCHANGED context

(* recv returns a piece of the text.                                       *)
Receive(piece) ==
  LET result == Cut(buffer \o piece)
  IN /\ received' = received \o piece
     /\ buffer' = result.rest
     /\ cut' = cut \o result.texts
     /\ events' = events \o Alarms(result.texts)
     /\ UNCHANGED context

TextInit ==
  /\ context \in Contexts
  /\ received = context.prefix /\ done = FALSE
  /\ buffer = Cut(context.prefix).rest
  /\ cut = Cut(context.prefix).texts
  /\ events = Alarms(cut)

ReceivePiece ==
  /\ ~done /\ UNCHANGED done
  /\ \E n \in 1 .. MaxPiece : \E piece \in [1 .. n -> context.alphabet] :
       /\ Len(received) + n <= Len(context.prefix) + context.max
       /\ Receive(piece)

ReceiveSuffix ==
  /\ ~done /\ done' = TRUE
  /\ Receive(context.suffix)

TextNext == ReceivePiece \/ ReceiveSuffix

TextSpec == TextInit /\ [][TextNext]_textVars

-----------------------------------------------------------------------------
(* What the text becomes when nothing depends on its pieces: one pass      *)
(* over all that was received, with the depth of the braces, the string it *)
(* is in and the text that has begun.                                      *)
Nothing == [text |-> <<>>, depth |-> 0, string |-> FALSE, escaped |-> FALSE, out |-> <<>>]

Pass(r, t) ==
  LET text == Append(r.text, t)
  IN IF r.text = <<>> THEN IF t = Open THEN [r EXCEPT !.text = <<t>>, !.depth = 1] ELSE r
     ELSE IF r.escaped THEN [r EXCEPT !.text = text, !.escaped = FALSE]
     ELSE IF t = Quote THEN [r EXCEPT !.text = text, !.string = ~@]
     ELSE IF r.string THEN [r EXCEPT !.text = text, !.escaped = (t = Backslash)]
     ELSE IF t = Open THEN [r EXCEPT !.text = text, !.depth = @ + 1]
     ELSE IF t # Close THEN [r EXCEPT !.text = text]
     ELSE IF r.depth > 1 THEN [r EXCEPT !.text = text, !.depth = @ - 1]
     ELSE [r EXCEPT !.text = <<>>, !.depth = 0, !.out = Append(@, text)]

Read(text) ==
  LET upto[n \in 0 .. Len(text)] ==
        IF n = 0 THEN Nothing ELSE Pass(upto[n - 1], text[n])
  IN  upto[Len(text)]

TextsIn(text) == Read(text).out

(* The messages that are cut out and the events that are reported do not   *)
(* depend on how the connection splits the text (alarm_server.cpp:88-89,   *)
(* 102-117): a message may come in many pieces and a piece may hold many   *)
(* messages and parts of them.                                             *)
PiecesDoNotMatter == cut = TextsIn(received) /\ events = Alarms(TextsIn(received))

=============================================================================
