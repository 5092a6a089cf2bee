--------------------------- MODULE MCMachineReads ---------------------------
(* Model-checking instance of the tools that read the machine.  Their calls *)
(* share no state, so each behaviour is one of the parts alone.             *)
EXTENDS ProcessTree, Collectors, ManPages, ProcessReads, DockerTools, MCListings

VARIABLE part   \* the part that this behaviour is of

Parts == {"tree", "collectors", "man", "reads", "docker", "listings"}

MachineInit ==
    part \in Parts /\ Init /\ CInit /\ MInit /\ RInit /\ DInit /\ LInit

MachineNext ==
    /\ UNCHANGED part
    /\ \/ part = "tree" /\ Next /\ UNCHANGED <<cvars, mvars, rvars, dvars, lvars>>
       \/ part = "collectors" /\ CNext /\ UNCHANGED <<vars, mvars, rvars, dvars, lvars>>
       \/ part = "man" /\ MNext /\ UNCHANGED <<vars, cvars, rvars, dvars, lvars>>
       \/ part = "reads" /\ RNext /\ UNCHANGED <<vars, cvars, mvars, dvars, lvars>>
       \/ part = "docker" /\ DNext /\ UNCHANGED <<vars, cvars, mvars, rvars, lvars>>
       \/ part = "listings" /\ LNext /\ UNCHANGED <<vars, cvars, mvars, rvars, dvars>>

MachineSpec ==
    MachineInit /\ [][MachineNext]_<<part, vars, cvars, mvars, rvars, dvars, lvars>>

MCDisks == <<"sda", "sdb">>

\* All sections, some, one that is none, and one of each.
MCSectionArgs == {{}, {"vmstat", "slabinfo"}, {"cpuinfo"}, {"version", "cpuinfo"}}

MCConnKinds == {[status |-> "LISTEN", type |-> "tcp"],
                [status |-> "NONE", type |-> "udp"]}

\* Below, at and above the limits; a type that is no filter.
MCConnArgs ==
    [status : {None, "LISTEN"}, type : {None, "udp"}, max : {-1, 1, 9},
     grouped : {TRUE}]
    \cup {[status |-> None, type |-> "any", max |-> 2, grouped |-> FALSE]}

MCRankArgs == [sort : {"cpu", "memory", "both"}, limit : {1, 2}]
=============================================================================
