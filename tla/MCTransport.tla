---------------------------- MODULE MCTransport ----------------------------
(* One account (accounts do not touch one another) and two readers, for    *)
(* longer than a cache entry lasts.                                        *)
EXTENDS Transport
=============================================================================
