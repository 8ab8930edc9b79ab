---------------------------- MODULE MCConfiguration ----------------------------
(* A number and a text are inherited; the text is not set by default, like *)
(* the scripts of config.h, and the number is.                             *)
EXTENDS Configuration

MCDefaults == [timeout |-> 2, script |-> Empty, listen_port |-> 2]

=============================================================================
