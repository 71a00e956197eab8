----------------------------- MODULE MCRunControl -----------------------------
(* Instances of RunControl for TLC.                                        *)
EXTENDS RunControl

CONSTANTS a, b, m1, m2, off

TwoClients == {a, b}
OneSetter == {a}
TwoModels == {m1, m2}
OneLevel == {off}
SteerAll == {"steer"}
NoneAll == {}
=============================================================================
