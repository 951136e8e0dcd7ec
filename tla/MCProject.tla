----------------------------- MODULE MCProject ------------------------------
(***************************************************************************)
(* Instances of Project for TLC: an application `app` with one embedded    *)
(* payload `inner`, which the user may also have as a file of its own.     *)
(***************************************************************************)
EXTENDS Project

CONSTANTS app, inner,           \* contents
          appFile, splitFile,   \* files of the user
          appCache, innerCache  \* files of the extraction cache

MCEmbeds == [h \in Hashes |-> IF h = app THEN {inner} ELSE {}]
NoEmbeds == [h \in Hashes |-> {}]
MCCachePath == [h \in Hashes |-> IF h = app THEN appCache ELSE innerCache]
=============================================================================
