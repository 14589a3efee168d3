------------------------------ MODULE MCReadSide ------------------------------
(* An instance of ReadSide for TLC: two runs of one card and one of another. *)
EXTENDS ReadSide

MCCardOf == <<"crash", "crash", "latency">>
=============================================================================
