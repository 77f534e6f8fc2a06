----------------------------- MODULE MCGeoStore -----------------------------
(* Small instances of GeoStore for TLC.                                    *)
EXTENDS GeoStore
=============================================================================
