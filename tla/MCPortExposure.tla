---------------------------- MODULE MCPortExposure ----------------------------
(* PortExposure with two subdomains that have the same public host ("app" and *)
(* "app.example.com" in the zone example.com).                                *)
EXTENDS PortExposure
CONSTANTS s1, s2, h1, h2
SharedHost == [s \in {s1, s2} |-> h1]
\* The host does not depend on the subdomain, so subdomains are interchangeable.
Symmetry == Permutations(Subs)
================================================================================
