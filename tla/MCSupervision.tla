---------------------------- MODULE MCSupervision ----------------------------
(* One agent world with a check and a service that is probed, or an agent  *)
(* world beside a simulation; or two agents that race for memory.          *)
EXTENDS Supervision, TLC

CONSTANTS a1, a2, f1, s1, k1, h1

MCParent == (s1 :> a1) @@ (k1 :> a1) @@ (h1 :> s1)

MCMixes == {{a1, k1, s1, h1}, {a2, f1}}

MCRace == {{a1, a2}}

(* Two workloads fit beside each other and are the limit; only one fits and *)
(* nothing but memory says so.                                              *)
MCPolicies == {[max |-> 2, high |-> 1, concurrent |-> 2],
               [max |-> None, high |-> 3, concurrent |-> None]}
==============================================================================
