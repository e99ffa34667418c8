---------------------------- MODULE MCProvisioning ----------------------------
(* Templates of Provisioning for TLC: a deployed one, and a misspelt one. *)
EXTENDS Provisioning

SomeTemplates == {[name |-> "golang", suffixed |-> TRUE],
                  [name |-> "golnag", suffixed |-> FALSE]}
BothPools == {"plain", "golang"}
==============================================================================
