-------------------------- MODULE HitPersistenceMC --------------------------
(***************************************************************************)
(* Two staging names, two names for the saved key, two files.              *)
(***************************************************************************)
EXTENDS HitPersistence

CONSTANTS s1, s2, k1, k2, i1, i2

MCSaved == <<k1, k2>>
=============================================================================
