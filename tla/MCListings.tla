---------------------------- MODULE MCListings ----------------------------
(* Model-checking instance of Listings: a variable with another's name in   *)
(* its value, a sensitive one with and without a search, a pair without an  *)
(* equals sign; arrays that are in sync, degraded and not started.          *)
EXTENDS Listings

MCEnvPairs == {<<"PATH", "bin">>, <<"OPTS", "TOKEN", "x">>,
               <<"TOKEN", "PATH", "y">>, <<"bare">>}

MCRunning == [name : {"md0", "md1"}, health : {"active"}, n : {2}, m : {2}] \cup
             [name : {"md0", "md1"}, health : {"degraded"}, n : {2}, m : {1}]

MCArrays == MCRunning \cup
            [name : {"md0", "md1"}, health : {"inactive"}, n : {0}, m : {0}]
=============================================================================
