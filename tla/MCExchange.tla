----------------------------- MODULE MCExchange ------------------------------
(* Small instances of Exchange.                                            *)
EXTENDS Exchange, TLC
=============================================================================
