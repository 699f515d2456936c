----------------------------- MODULE MCInstall -----------------------------
(* Small instances of Reconcile for TLC.                                   *)
EXTENDS Reconcile

CONSTANTS i1

OneInstaller == {i1}

FourKinds == <<"shared", "retire", "managed", "once">>
ThreeKinds == <<"shared", "migrate", "managed">>
FourDirs  == <<"root", "sub", "root", "sub">>
ThreeDirs == <<"root", "sub", "sub">>
=============================================================================
