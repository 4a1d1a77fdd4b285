-------------------------- MODULE MCTerminalLoop ---------------------------
(* Two sizes; versions 0 and 1 of the view have one structure, 2 another.     *)
EXTENDS TerminalLoop
============================================================================
