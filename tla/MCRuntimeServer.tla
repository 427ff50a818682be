---------------------------- MODULE MCRuntimeServer ----------------------------
EXTENDS RuntimeServer

MCClients == {"c1", "c2", "c3"}
MCRequests == {[c1 |-> "infer", c2 |-> "infer", c3 |-> "switch"],
               [c1 |-> "switch", c2 |-> "switch", c3 |-> "infer"],
               [c1 |-> "start", c2 |-> "stop", c3 |-> "infer"]}
=============================================================================
