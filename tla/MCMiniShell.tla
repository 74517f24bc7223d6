----------------------------- MODULE MCMiniShell -----------------------------
(***************************************************************************)
(* Model-checking instances of MiniShell for one question each: the lines  *)
(* that raise it.  MCShells checks it with lines of every kind.            *)
(***************************************************************************)
EXTENDS MiniShell

AndLines == { <<"ok", "|", "fail", "&&", "ok">> }

LongLines == { <<"long">>, <<"long", "&">> }
==============================================================================
