------------------------------- MODULE MCServer -------------------------------
(* One call with two tries, and one webhook that comes and goes, for TLC. *)
EXTENDS Server

OneCall == {"c"}
OneHook == {"h"}
=============================================================================
