-------------------------- MODULE AssistantVersions --------------------------
(***************************************************************************)
(* Assistants and their versions: assistant_service.py, and the default    *)
(* assistants that every server process ensures at start-up                *)
(* (langgraph_service.py).  A creation and an update are two transactions  *)
(* each, after reads of their own; requests of several clients interleave  *)
(* between them, and either may be cut off anywhere.                       *)
(*                                                                         *)
(* A body is what a version records.  Its graph stands for the fields an   *)
(* update keeps when the request has none (graph, name, description), its  *)
(* config for those it replaces (config, context, metadata).               *)
(***************************************************************************)
EXTENDS Naturals, FiniteSets, FiniteSetsExt

CONSTANTS
    Ids,        \* assistant ids
    Graphs,     \* graphs of the registry
    Configs,    \* configurations
    Default,    \* uuid5 of each graph id: the id of its default assistant
    Clients,    \* requests of the user in flight
    Procs,      \* server processes
    None,       \* no graph in a request
    NoConfig,   \* {}, the configuration of the defaults
    Unset,      \* NULL, which the versions of the defaults have for it
    Budget      \* model bounds on requests and crashes

ASSUME NamesAssumption ==
    /\ None \notin Graphs /\ Graphs # {} /\ NoConfig \in Configs /\ Unset \notin Configs
    /\ Default \in [Graphs -> Ids]
    /\ \A g, h \in Graphs : Default[g] = Default[h] => g = h
ASSUME BudgetAssumption == Budget \in [{"request", "crash"} -> Nat]

VARIABLES
    row,        \* table assistant: id -> [owner, version, body], those that exist
    vers,       \* table assistant_versions: set of [id, n, body]
    req,        \* request of each client: [step, id, n, body]
    proc,       \* server processes
    missing,    \* graphs without a default, as a starting process has read
    cut, skipped, pinned, overlapped, haunted,      \* history
    spent

tables   == <<row, vers>>
procVars == <<proc, missing>>
histVars == <<cut, skipped, pinned, overlapped, haunted>>
vars == <<tables, req, procVars, histVars, spent>>

Bodies == [graph : Graphs, config : Configs \cup {Unset}]
RequestedBodies == [graph : Graphs, config : Configs]
Rows == [owner : {"user", "system"}, version : Nat \ {0}, body : Bodies]
VersionRows == [id : Ids, n : Nat \ {0}, body : Bodies]
Steps == {"idle", "refused", "create", "record", "number", "insert", "apply", "pin"}

Alive == DOMAIN row

TypeOK ==
    /\ Alive \subseteq Ids
    /\ row = [a \in Alive |-> row[a]]
    /\ \A a \in Alive : row[a] \in Rows
    /\ vers \subseteq VersionRows
    /\ \A v \in vers : v.id \in Alive
    /\ req \in [Clients -> [step : Steps, id : Ids, n : Nat, body : Bodies]]
    /\ \A c \in Clients : req[c].step \in {"create", "record", "insert", "apply", "pin"} => req[c].n > 0
    /\ proc \in [Procs -> {"down", "starting", "up"}]
    /\ missing \in [Procs -> SUBSET Graphs]
    /\ cut \subseteq Ids
    /\ skipped \subseteq Ids \X Nat
    /\ pinned \subseteq Ids /\ overlapped \subseteq Ids /\ haunted \subseteq Ids
    /\ spent \in [{"request", "crash"} -> Nat]

DefaultBody(g) == [graph |-> g, config |-> NoConfig]

\* Its version is inserted without a config and a context.
DefaultVersion(g) == [id |-> Default[g], n |-> 1, body |-> [graph |-> g, config |-> Unset]]

NoRequest == [step |-> "idle", id |-> CHOOSE a \in Ids : TRUE, n |-> 0, body |-> CHOOSE b \in Bodies : TRUE]

Init ==
    /\ row = [a \in {} |-> None]
    /\ vers = {}
    /\ req = [c \in Clients |-> NoRequest]
    /\ proc = [p \in Procs |-> "down"]
    /\ missing = [p \in Procs |-> {}]
    /\ cut = {} /\ skipped = {} /\ pinned = {} /\ overlapped = {} /\ haunted = {}
    /\ spent = [k \in {"request", "crash"} |-> 0]

Spend(k) == spent[k] < Budget[k] /\ spent' = [spent EXCEPT ![k] = @ + 1]

-----------------------------------------------------------------------------
(* Start-up *)

Missing == {g \in Graphs : Default[g] \notin Alive}

\* `_ensure_default_assistants` looks for the default of every graph ...
SelectDefaults(p) ==
    /\ proc[p] = "down"
    /\ proc' = [proc EXCEPT ![p] = "starting"]
    /\ missing' = [missing EXCEPT ![p] = Missing]
    /\ UNCHANGED <<tables, req, histVars, spent>>

\* ... and inserts the missing ones with their first versions in one commit,
\* which another process that did so meanwhile makes fail: the start fails.
CommitDefaults(p) ==
    LET new == {Default[g] : g \in missing[p]}
        graphOf(a) == CHOOSE g \in Graphs : Default[g] = a
    IN
    /\ proc[p] = "starting"
    /\ \/ /\ new \cap Alive = {}
          /\ row' = [a \in Alive \cup new |->
                        IF a \in new
                        THEN [owner |-> "system", version |-> 1, body |-> DefaultBody(graphOf(a))]
                        ELSE row[a]]
          /\ vers' = vers \cup {DefaultVersion(g) : g \in missing[p]}
          /\ proc' = [proc EXCEPT ![p] = "up"]
       \/ /\ new \cap Alive # {}
          /\ proc' = [proc EXCEPT ![p] = "down"]
          /\ UNCHANGED tables
    /\ missing' = [missing EXCEPT ![p] = {}]
    /\ UNCHANGED <<req, histVars, spent>>

ProcessDies(p) ==
    /\ proc[p] # "down"
    /\ Spend("crash")
    /\ proc' = [proc EXCEPT ![p] = "down"]
    /\ missing' = [missing EXCEPT ![p] = {}]
    /\ UNCHANGED <<tables, req, histVars>>

-----------------------------------------------------------------------------
(* Requests *)

Request(c, step, a, n, b) ==
    /\ req[c].step \in {"idle", "refused"}
    /\ \E p \in Procs : proc[p] = "up"
    /\ Spend("request")
    /\ req' = [req EXCEPT ![c] = [step |-> step, id |-> a, n |-> n, body |-> b]]

Answer(c) == req' = [req EXCEPT ![c] = NoRequest]

\* Mutant of Owned: whoever may see an assistant may change it.
Visible(a) == a \in Alive

Owned(a) == a \in Alive /\ row[a].owner = "user"

\* idx_assistant_user_graph_config: the user has another assistant with body b.
Taken(a, b) == \E d \in Alive \ {a} : Owned(d) /\ row[d].body = b

\* `create_assistant` finds none with this id or body; if there is one, it
\* answers at once, with that one or 409 as if_exists has it.
CheckNew(c, a, b) ==
    /\ ~Owned(a) /\ ~Taken(a, b)
    /\ Request(c, "create", a, 1, b)
    /\ UNCHANGED <<tables, procVars, histVars>>

\* Requests on an assistant a, past their first read or write of it.
Working(a) == {c \in Clients : req[c].id = a /\ req[c].step \notin {"idle", "refused", "create"}}

\* The first commit, unless the primary key or the index refuses the row.
InsertRow(c) ==
    LET a == req[c].id
        b == req[c].body
    IN
    /\ req[c].step = "create"
    /\ \/ /\ a \notin Alive /\ ~Taken(a, b)
          /\ row' = [d \in Alive \cup {a} |->
                        IF d = a THEN [owner |-> "user", version |-> 1, body |-> b] ELSE row[d]]
          /\ req' = [req EXCEPT ![c].step = "record"]
          /\ haunted' = IF Working(a) = {} THEN haunted ELSE haunted \cup {a}
       \/ /\ a \in Alive \/ Taken(a, b)
          /\ req' = [req EXCEPT ![c] = [NoRequest EXCEPT !.step = "refused"]]
          /\ UNCHANGED <<row, haunted>>
    /\ UNCHANGED <<vers, procVars, cut, skipped, pinned, overlapped, spent>>

Numbered(a, n) == \E v \in vers : v.id = a /\ v.n = n

\* A version row is refused without its assistant, or when the number is taken.
Insertable(a, n) == a \in Alive /\ ~Numbered(a, n)

\* Mutant of AddVersion: the version is recorded with the wrong number.
AddNext(a, n, b) == vers' = vers \cup {[id |-> a, n |-> n + 1, body |-> b]}

AddVersion(a, n, b) == vers' = vers \cup {[id |-> a, n |-> n, body |-> b]}

\* The second commit of a creation records version 1.
RecordFirst(c) ==
    LET a == req[c].id IN
    /\ req[c].step = "record"
    /\ Answer(c)
    /\ IF Insertable(a, 1)
       THEN AddVersion(a, 1, req[c].body) /\ UNCHANGED cut
       ELSE cut' = cut \cup {a} /\ UNCHANGED vers
    /\ UNCHANGED <<row, procVars, skipped, pinned, overlapped, haunted, spent>>

\* `update_assistant` reads the assistant; the request may leave the graph out.
ReadRow(c, a, g, cfg) ==
    /\ Owned(a)
    /\ Request(c, "number", a, 0,
               [graph |-> IF g = None THEN row[a].body.graph ELSE g, config |-> cfg])
    /\ UNCHANGED <<tables, procVars, histVars>>

NextNumber(a) ==
    IF \E v \in vers : v.id = a THEN Max({v.n : v \in {w \in vers : w.id = a}}) + 1 ELSE 1

\* It reads the highest version number, which may be another's by now.
ReadNumber(c) ==
    /\ req[c].step = "number"
    /\ req' = [req EXCEPT ![c].step = "insert", ![c].n = NextNumber(req[c].id)]
    /\ UNCHANGED <<tables, procVars, histVars, spent>>

\* The first commit of an update: the new version.
InsertVersion(c) ==
    LET a == req[c].id IN
    /\ req[c].step = "insert"
    /\ IF Insertable(a, req[c].n)
       THEN /\ AddVersion(a, req[c].n, req[c].body)
            /\ req' = [req EXCEPT ![c].step = "apply"]
            /\ overlapped' = IF \E d \in Clients : req[d].step = "apply" /\ req[d].id = a
                             THEN overlapped \cup {a} ELSE overlapped
       ELSE Answer(c) /\ UNCHANGED <<vers, overlapped>>
    /\ UNCHANGED <<row, procVars, cut, skipped, pinned, haunted, spent>>

\* `set_assistant_latest` reads the assistant and the version.
ReadVersion(c, v) ==
    /\ Owned(v.id)
    /\ Request(c, "pin", v.id, v.n, v.body)
    /\ UNCHANGED <<tables, procVars, histVars>>

\* Mutants of Current: the new number with the old body, and the reverse.
OldBody(c) == [row[req[c].id] EXCEPT !.version = req[c].n]
OldNumber(c) == [row[req[c].id] EXCEPT !.body = req[c].body]

Current(c) == [owner |-> "user", version |-> req[c].n, body |-> req[c].body]

\* The commit that makes a version the current one: the last of an update, the
\* only one of set_assistant_latest.  The row may be gone, and the index may
\* refuse the body; the version row of the update stays all the same.
Apply(c) ==
    LET a == req[c].id IN
    /\ req[c].step \in {"apply", "pin"}
    /\ Answer(c)
    /\ IF Owned(a) /\ ~Taken(a, req[c].body)
       THEN /\ row' = [row EXCEPT ![a] = Current(c)]
            /\ cut' = cut \ {a}
            /\ pinned' = IF req[c].step = "pin" THEN pinned \cup {a} ELSE pinned
            /\ UNCHANGED skipped
       ELSE /\ skipped' = skipped \cup {<<a, req[c].n>>}
            /\ UNCHANGED <<row, cut, pinned>>
    /\ UNCHANGED <<vers, procVars, overlapped, haunted, spent>>

\* `delete_assistant`: its versions go with it (ON DELETE CASCADE).
Delete(a) ==
    /\ Owned(a)
    /\ Spend("request")
    /\ row' = [d \in Alive \ {a} |-> row[d]]
    /\ vers' = {v \in vers : v.id # a}
    /\ cut' = cut \ {a}
    /\ skipped' = {k \in skipped : k[1] # a}
    /\ pinned' = pinned \ {a} /\ overlapped' = overlapped \ {a}
    /\ haunted' = haunted
    /\ UNCHANGED <<req, procVars>>

\* The request is cut off: its process dies, the database refuses, the client
\* goes and the handler is cancelled.
Abort(c) ==
    /\ req[c].step \notin {"idle", "refused"}
    /\ Spend("crash")
    /\ Answer(c)
    /\ cut' = IF req[c].step = "record" THEN cut \cup {req[c].id} ELSE cut
    /\ skipped' = IF req[c].step = "apply" THEN skipped \cup {<<req[c].id, req[c].n>>} ELSE skipped
    /\ UNCHANGED <<tables, procVars, pinned, overlapped, haunted>>

-----------------------------------------------------------------------------
Process(p) == SelectDefaults(p) \/ CommitDefaults(p)

Client(c) ==
    \/ \E a \in Ids, b \in RequestedBodies : a \notin {Default[g] : g \in Graphs} /\ CheckNew(c, a, b)
    \/ InsertRow(c) \/ RecordFirst(c)
    \/ \E a \in Alive, g \in Graphs \cup {None}, cfg \in Configs : ReadRow(c, a, g, cfg)
    \/ ReadNumber(c) \/ InsertVersion(c)
    \/ \E v \in vers : ReadVersion(c, v)
    \/ Apply(c) \/ Abort(c)

Next ==
    \/ \E p \in Procs : Process(p) \/ ProcessDies(p)
    \/ \E c \in Clients : Client(c)
    \/ \E a \in Alive : Delete(a)

Spec == Init /\ [][Next]_vars

-----------------------------------------------------------------------------
(* Properties *)

\* Creations that have not come to their second commit.
Unrecorded == cut \cup {req[c].id : c \in {d \in Clients : req[d].step = "record"}}

\* What an assistant of a user runs with is what the version it names records,
\* so going back to that version gives the same again: unless the creation was
\* cut short before its version was written, or the id was reused under a
\* request.  (The version of a default has NULL for {}; nobody may go back to it.)
LatestIsRecorded ==
    \A a \in Alive \ (Unrecorded \cup haunted) :
        row[a].owner = "user" => [id |-> a, n |-> row[a].version, body |-> row[a].body] \in vers

\* Versions are numbered from 1 without a gap and without a duplicate, whatever
\* updates race for the next number and whatever requests are cut off.
VersionsAreNumbered ==
    \A a \in Ids \ haunted :
        LET V == {v \in vers : v.id = a}
        IN  {v.n : v \in V} = 1 .. Cardinality(V)

\* The current version is the newest, unless the user pinned another, updates
\* overlapped, or the newer ones never came to their second commit.
RowIsNewest ==
    \A a \in Alive \ (pinned \cup overlapped \cup haunted) :
        \A v \in vers :
            v.id = a /\ v.n > row[a].version =>
                \/ <<a, v.n>> \in skipped
                \/ \E c \in Clients : req[c].step = "apply" /\ req[c].id = a /\ req[c].n = v.n

\* A process that is up has a default assistant, as it was made and with its
\* version, to resolve every graph id to, whichever process inserted it and
\* whatever users do.
DefaultsStand ==
    (\E p \in Procs : proc[p] = "up") =>
        \A g \in Graphs :
            /\ Default[g] \in Alive
            /\ row[Default[g]] = [owner |-> "system", version |-> 1, body |-> DefaultBody(g)]
            /\ DefaultVersion(g) \in vers

\* "Set if_exists to do_nothing for idempotent creation": a creation that
\* passed the check is not refused.
CreationIsIdempotent == \A c \in Clients : req[c].step # "refused"
=============================================================================
