--------------------------- MODULE MCDistributedLock ---------------------------
(* A small instance of DistributedLock for TLC.                            *)
EXTENDS DistributedLock, TLC

CONSTANTS c1, c2

TwoClients == {c1, c2}
================================================================================
