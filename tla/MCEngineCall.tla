---------------------------- MODULE MCEngineCall ----------------------------
(***************************************************************************)
(* TLC instances of EngineCall: the engine and two descendants.  The       *)
(* response just fits the buffer, and one byte more can be written.        *)
(***************************************************************************)
EXTENDS EngineCall
=============================================================================
