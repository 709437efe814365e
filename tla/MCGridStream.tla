---------------------------- MODULE MCGridStream ----------------------------
(* An instance of GridStream for TLC. *)
EXTENDS GridStream

\* Two blocks, so that a file can be cut short and its frames be told apart.
MCBlocks == <<7, 8>>
=============================================================================
