--------------------------- MODULE MCSecureChannel ---------------------------
(* An instance of SecureChannel for TLC. *)
EXTENDS SecureChannel

CONSTANTS c1, c2
MCCommand == {c1, c2}
MCCloser == {"event", "shutdown"}

\* Two commands race each other and a closing, or one command both closings.
MCScenario == {{c1, c2, "event"}, {c1, "event", "shutdown"}}
=============================================================================
