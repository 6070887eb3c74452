------------------------------ MODULE MCTokens ------------------------------
(* Three provider calls, each field of whose usage is small or missing.     *)
EXTENDS Tokens
=============================================================================
