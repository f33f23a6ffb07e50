-------------------------- MODULE MCProviderRunner --------------------------
(* Small instances of ProviderRunner; the constants are plain values. *)
EXTENDS ProviderRunner
=============================================================================
