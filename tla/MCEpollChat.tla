----------------------------- MODULE MCEpollChat -----------------------------
(* Model-checking instances of EpollChat: see MCEpollChat*.cfg. *)
EXTENDS EpollChat
==============================================================================
