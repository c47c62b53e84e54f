----------------------------- MODULE MCStarter -----------------------------
(* Small instances of Starter: enough servers for every launch that the    *)
(* other bounds allow.                                                      *)
EXTENDS Starter

CONSTANTS c1, c2, MaxServers

Launches == 1..MaxServers
============================================================================
