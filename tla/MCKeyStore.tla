----------------------------- MODULE MCKeyStore -----------------------------
(* KeyStore for TLC: one key in the file at first, and room for another. *)
EXTENDS KeyStore

CONSTANTS k1, k2

MCKeyId == {k1, k2}
MCStored == <<k1>>
=============================================================================
