----------------------------- MODULE MCHandshake -----------------------------
(* Handshake with one foreign key: the Handshake*.cfg files.                 *)
EXTENDS Handshake

CONSTANT vendor

MCVendorKeys == <<vendor>>
===============================================================================
