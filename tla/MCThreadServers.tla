--------------------------- MODULE MCThreadServers ---------------------------
(* Model-checking instances of ThreadServers: see MCThreadServers*.cfg. *)
EXTENDS ThreadServers
==============================================================================
