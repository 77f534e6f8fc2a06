----------------------------- MODULE MCJwtCache -----------------------------
(* A small instance of JwtCache for TLC.                                   *)
EXTENDS JwtCache
=============================================================================
