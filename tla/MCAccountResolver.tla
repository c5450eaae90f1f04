-------------------------- MODULE MCAccountResolver --------------------------
(* An instance of AccountResolver for TLC; the constants are in the cfg. *)
EXTENDS AccountResolver

MCImpl == {"config_file_based", "config_file_based_with_cache", "bop", "bop_with_cache"}
=============================================================================
