--------------------------- MODULE MCDiagnostics ----------------------------
(***************************************************************************)
(* Instance of Diagnostics for TLC.                                        *)
(***************************************************************************)
EXTENDS Diagnostics

\* Output can scroll past what is read, and lines can follow one another in it.
ASSUME TailsAreShorter == CaptureTail < MaxLines /\ LogTail < MaxLog
=============================================================================
