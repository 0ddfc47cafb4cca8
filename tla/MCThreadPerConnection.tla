----------------------- MODULE MCThreadPerConnection -----------------------
(* Small instances of ThreadPerConnection.                                  *)
EXTENDS ThreadPerConnection, TLC
=============================================================================
