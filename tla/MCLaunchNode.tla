---------------------------- MODULE MCLaunchNode ----------------------------
(* Two operators whose launches start in the same second, so that they ask *)
(* for one name of a key pair.                                             *)
EXTENDS LaunchNode

CONSTANTS a, b, k1

MCLaunches == {a, b}
MCOneLaunch == {a}
MCKeyNames == {k1}
=============================================================================
