\* Chunks of one to three ledgers in both layouts, each with every single
\* damage; lengths of three and more do not fit 16 bits.
SPECIFICATION Spec
CONSTANTS
  Chunks <- MCChunks
  Damages <- MCDamages
  U16 = 3
  U32 = 16
  FOOTER = 99
INVARIANTS
  RoundTrip
  AcceptedIsWritten
  ReadersAgree
CHECK_DEADLOCK FALSE
