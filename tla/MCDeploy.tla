------------------------------ MODULE MCDeploy ------------------------------
(* A small instance: an application container that needs a database        *)
(* container, one stale container, one network, one volume, one image.     *)
EXTENDS Deploy

MCRank == [c \in {"old", "db", "app"} |->
             CASE c = "old" -> 0 [] c = "db" -> 1 [] c = "app" -> 2]
MCDependsOn == [c \in {"db", "app"} |-> IF c = "app" THEN {"db"} ELSE {}]
=============================================================================
