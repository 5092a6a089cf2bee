--------------------------- MODULE MCDockerStats ---------------------------
(* Model-checking instance of DockerStats: three containers, a reference    *)
(* for each of two of them, a second reference for one of these, and a      *)
(* reference to nothing.                                                    *)
EXTENDS DockerStats

CONSTANTS web, db, job, webId, webName, dbId, typo, all

MCRefersTo == [r \in Refs |-> CASE r \in {webId, webName} -> {web}
                                [] r = dbId -> {db}
                                [] r \in {typo, all} -> {}]

\* "", "all", one id, an unknown id, two ids, two ids of which one is unknown
\* and an id given twice under different references.
MCRequests == {<<>>, <<all>>, <<webId>>, <<typo>>, <<webName, dbId>>,
               <<dbId, typo>>, <<webId, webName>>}
=============================================================================
