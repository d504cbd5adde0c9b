----------------------------- MODULE MCDestroy -----------------------------
(***************************************************************************)
(* Projects web and web-api: what web-api owns starts with "web-" too.     *)
(* "ext" is a network of a Docker Desktop extension called web-something.  *)
(***************************************************************************)
EXTENDS Destroy

MCPrefixed == [p \in Projects |->
  IF p = "web" THEN {"web-app", "web-api-srv", "web-net", "ext", "web-vol"}
               ELSE {"web-api-srv"}]
MCDesired == [p \in Projects |->
  IF p = "web" THEN {"web-app", "web-net", "web-vol"} ELSE {"web-api-srv"}]
MCAttached == [c \in Containers |->
  IF c = "web-app" THEN {"web-net", "web-vol"} ELSE {}]

=============================================================================
