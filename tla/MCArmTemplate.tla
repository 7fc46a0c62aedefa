---- MODULE MCArmTemplate ----
(* Two pools, the name of one a prefix of the name of the other, and every  *)
(* cluster definition of at most three features.                            *)
EXTENDS ArmTemplate

MCStartsWith == {<<"pool12", "pool1">>}
====
