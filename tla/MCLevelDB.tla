----------------------------- MODULE MCLevelDB -----------------------------
(***************************************************************************)
(* Instances of the store for TLC: the limits of LevelDB's dbformat.h and  *)
(* options.h scaled down so that every one of them is reached.             *)
(***************************************************************************)
EXTENDS LevelDBProps

CONSTANTS w1, w2

(* One thread reads a key, between its own writes and during those of the  *)
(* other.                                                                  *)
OneReader == {<<w1, Min(Key)>>}
=============================================================================
