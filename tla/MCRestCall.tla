------------------------------ MODULE MCRestCall ------------------------------
(****************************************************************************)
(* The five clients of the frontend against the servers they call. A        *)
(* scenario is also loaded from a sandbox and saved with the platform       *)
(* controller, as the execution page does.                                  *)
(****************************************************************************)
EXTENDS RestCall, WireTables

(* The documents of a table: every way to a field, every class of value.    *)
RECURSIVE DocsFrom(_, _)
DocsFrom(tables, of) ==
    UNION {LET f == tables[of][k]
           IN  {Doc(<<k>>, v) : v \in ValuesOf(f)}
               \union IF f.kind # "model" THEN {}
                      ELSE {Doc(<<k>> \o d.path, d.leaf) : d \in DocsFrom(tables, f.of)}
           : k \in DOMAIN tables[of]}

Docs(tables, body) ==
    IF body.of = "" THEN {None}
    ELSE DocsFrom(tables, body.of) \union (IF body.deep > 0 THEN {Doc(<<>>, "null")} ELSE {})

MCStarts ==
    [t \in MCTalks |->
       IF t.load # NoOp THEN Docs(MCServers[t.from].structs, MCServers[t.from].routes[t.load].gives)
       ELSE Docs(Properties(MCClients[t.into].models), MCClients[t.into].operations[t.save].takes)]
=============================================================================
