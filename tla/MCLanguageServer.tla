-------------------------- MODULE MCLanguageServer --------------------------
(* An edit that introduces errors and one that repairs them. *)
EXTENDS LanguageServer
=============================================================================
