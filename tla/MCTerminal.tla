----------------------------- MODULE MCTerminal -----------------------------
(* An instance of the terminal for TLC. *)
EXTENDS Terminal

MCLines == {"", "/quit", "/help", "<<EOF", "END", "y", "text"}
=============================================================================
