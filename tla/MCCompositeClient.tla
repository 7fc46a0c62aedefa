------------------------- MODULE MCCompositeClient -------------------------
(* Two calls of any kinds: pausing and resuming a deployment, deleting a      *)
(* secret that was listed.                                                    *)
EXTENDS CompositeClient

MCCalls == {[kind |-> k, value |-> "v0"] : k \in Kinds} \union {[kind |-> "patch", value |-> "v1"]}
MCPrograms == {<<a, b>> : a \in MCCalls, b \in MCCalls}
=============================================================================
