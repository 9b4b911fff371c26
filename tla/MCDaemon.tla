------------------------------- MODULE MCDaemon -------------------------------
(* Small instances of Daemon: two puts, the loop and one reconcile client. *)
EXTENDS Daemon, TLC

CONSTANTS initial, good, refused, bad, cInitial, cGood, cRefused

MCRender == [d \in Docs |-> CASE d = initial -> cInitial
                            [] d = good -> cGood
                            [] d \in {refused, bad} -> cRefused]
MCConfigs == {cInitial, cGood, cRefused}
MCHashes == [path : {"staging", "runtime"},
             config : MCConfigs \cup {Absent, Partial, Foreign}]

Symmetry == Permutations(Requests)
===============================================================================
