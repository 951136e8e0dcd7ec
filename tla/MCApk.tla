------------------------------- MODULE MCApk --------------------------------
(***************************************************************************)
(* Instances of ApkBuild for TLC: an APK with code and a v1 signature.     *)
(***************************************************************************)
EXTENDS ApkBuild

MCApks == {<<[name |-> "classes.dex", bytes |-> "old"],
             [name |-> "META-INF/MANIFEST.MF", bytes |-> "old"]>>}
=============================================================================
