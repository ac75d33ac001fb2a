--------------------------- MODULE MCRevisionStore ---------------------------
(***************************************************************************)
(* A project with two items and two owners, three threads of two processes *)
(* and proposals that succeed, conflict with one another, violate an       *)
(* ownership rule or fail half-way through their operations.               *)
(***************************************************************************)
EXTENDS RevisionStore

CONSTANTS t1, t2, t3, server, cli, materials, packaging

MCThreads == {t1, t2, t3}
MCProcesses == {server, cli}
MCHome == [t \in MCThreads |-> IF t = t3 THEN cli ELSE server]
MCFounders == {t3}
MCReaders == {t3}
MCTwoFounders == {t1, t3}

MCPaths == {"steel", "slot", "name"}
MCOwner == [p \in MCPaths |->
  CASE p = "steel" -> materials [] p = "slot" -> packaging [] p = "name" -> NoOwner]

MCValid == {c \in [MCPaths -> {1, 2, Absent}] :
  c["name"] = 1 /\ c["steel"] # Absent /\ c["slot"] \in {1, Absent}}

Op(k, p, e, v) == [kind |-> k, path |-> p, expected |-> e, value |-> v]
Change(who, s) == [actor |-> who, ops |-> s]

MCProposals ==
  { Change(materials, <<Op("replace", "steel", 1, 2)>>),
    Change(packaging, <<Op("add", "slot", Absent, 1)>>),
    \* the second operation touches a path of another owner
    Change(packaging, <<Op("replace", "slot", Absent, 2), Op("replace", "steel", Absent, 1)>>) }
=============================================================================
