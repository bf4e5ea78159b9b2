----------------------------- MODULE MCCommandGate -----------------------------
(* CommandGate for TLC: a primary and a fallback provider, as _build_chain reads them. *)
EXTENDS CommandGate

ModelThenParser == <<"http", "disabled">>
=============================================================================
