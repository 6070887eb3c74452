-------------------------- MODULE MCEngineSession --------------------------
(* Four entries: each may fail at any await, close badly, or follow one that *)
(* did.                                                                     *)
EXTENDS EngineSession
=============================================================================
