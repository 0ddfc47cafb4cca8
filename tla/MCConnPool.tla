----------------------------- MODULE MCConnPool ------------------------------
(* Small instances of ConnPool.                                            *)
EXTENDS ConnPool

QueuedItems == Fds \cup {BadFd}
=============================================================================
