\* A number and a text that are inherited, two serials, files of up to six lines.
CONSTANTS
  Inherited = {"timeout", "script"}
  Numeric = {"timeout", "listen_port"}
  Defaults <- MCDefaults
  Numbers = {0, 1}
  Texts = {a}
  Serials = {A, B}
  Empty = Empty
  Bad = Bad
  MaxLines = 6

SPECIFICATION ConfigSpec

CHECK_DEADLOCK FALSE

INVARIANTS
  
  RepositoryAgrees
