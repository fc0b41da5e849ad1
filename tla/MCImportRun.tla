---------------------------- MODULE MCImportRun ----------------------------
(* Two chunk files of an export, of three ledgers and of two.               *)
EXTENDS ImportRun

MCChunks == << <<1, 2, 3>>, <<4, 5>> >>

=============================================================================
