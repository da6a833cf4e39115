------------------------------ MODULE MCSubmit ------------------------------
(* Two keys and a watch-only account; the list of seen accounts overflows. *)
EXTENDS SubmitFlow

CONSTANTS a, b, c
=============================================================================
