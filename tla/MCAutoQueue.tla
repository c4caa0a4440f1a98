---------------------------- MODULE MCAutoQueue ----------------------------
(* AutoQueue for TLC, with the settings that differ in what they queue.    *)
EXTENDS AutoQueue

SomePolicies == {{}, {"queue"}, {"queue", "gate", "inspect_mel"},
                 {"queue", "inspect_mel", "inspect_simple"}}

=============================================================================
