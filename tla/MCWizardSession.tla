--------------------------- MODULE MCWizardSession ---------------------------
(* WizardSession with one VPS that has port 80 free and one that has not.   *)
EXTENDS WizardSession, TLC
CONSTANTS h1, h2

MCHosts == {h1, h2}
Good == [distro |-> [id |-> "ubuntu", major |-> 22, minor |-> 4],
         disk |-> "unparsed", sudo |-> TRUE, ports |-> {"unreadable"}]
MCVps == h1 :> {Good, [Good EXCEPT !.ports = {"443"}]} @@
         h2 :> {[Good EXCEPT !.ports = {"80"}],
                [Good EXCEPT !.distro.minor = 0, !.ports = {"80"}]}
================================================================================
