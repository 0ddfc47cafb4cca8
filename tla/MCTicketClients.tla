--------------------------- MODULE MCTicketClients ---------------------------
(* TLC instance of TicketClients.                                          *)
EXTENDS TicketClients, TLC
=============================================================================
