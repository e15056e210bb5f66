----------------------------- MODULE MCMcpServer -----------------------------
(* Two repositories.  The server of "a" has a job ja and a monitor ma and   *)
(* answers requests; the server of "b" has a job jb; ca and cb are          *)
(* commands on a and on b.                                                  *)
EXTENDS McpServer, TLC

MCRoots   == {"a", "b"}
MCWorkers == {"ja", "ma", "jb", "ca", "cb"}
MCHost    == "ja" :> "a" @@ "ma" :> "a" @@ "jb" :> "b" @@ "ca" :> "a" @@ "cb" :> "b"
MCKind    == "ja" :> "job" @@ "ma" :> "monitor" @@ "jb" :> "job"
             @@ "ca" :> "cli" @@ "cb" :> "cli"

To(op, r) == [op |-> op, target |-> r]
Only(calls) == [w \in MCWorkers |-> IF w \in DOMAIN calls THEN calls[w] ELSE {}]

(* Two servers add each other; a command adds and removes what a job wants *)
(* to refresh; requests beside a job; requests beside a command that       *)
(* indexes and beside the monitor; a source that is indexed while a job    *)
(* adds it.                                                                *)
Mutual   == Only("ja" :> {To("add", "b")} @@ "jb" :> {To("add", "a")})
Contend  == Only("ja" :> {To("refresh", "b")} @@ "ca" :> {To("add", "b"), To("remove", "b")})
Serving  == Only("ja" :> {To("add", "b")})
Indexing == Only("ca" :> {To("index", "a")})
Monitor  == Only("ma" :> {To("index", "a")})
Racing   == Only("ja" :> {To("add", "b")} @@ "cb" :> {To("index", "b")})

MCPlans == {Mutual, Contend, Serving, Indexing, Monitor, Racing}

MCInit ==
  /\ Init
  /\ left = CASE plan \in {Serving, Indexing} -> MaxRequests
             [] plan = Monitor -> 1
             [] OTHER -> 0

MCSpec == MCInit /\ [][Next]_vars /\ Fairness
=============================================================================
