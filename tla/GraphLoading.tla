---------------------------- MODULE GraphLoading ----------------------------
(***************************************************************************)
(* How a request comes by its graph (langgraph_service.py) and what it is  *)
(* built with (graph_factory.py), for one graph id.                        *)
(*                                                                         *)
(* The file of the graph exports a graph, an async function of no argument *)
(* that makes one ("maker"), or a factory that takes the config and the    *)
(* runtime of a request, sync or async ("slow").  Everything runs on one   *)
(* event loop: only an async maker or factory gives way.  The file may be  *)
(* edited, and the caches invalidated for a hot reload.                    *)
(***************************************************************************)
EXTENDS Naturals

CONSTANTS
    Requests, Users,
    None,
    MaxVersion      \* model bound on the edits of the file


VARIABLES
    file,           \* what the file exports
    cache,          \* _base_graph_cache
    factories,      \* _graph_factories: the callable that was loaded
    hooks,          \* _FACTORY_KWARGS: the callable whose signature was inspected
    req,            \* requests: [step, why, user, code, graph, floor]
    floor,          \* version in the file at the last invalidation
    raced           \* requests that awaited a build when file or tables changed

vars == <<file, cache, factories, hooks, req, floor, raced>>
tables == <<cache, factories, hooks>>

Kinds == {"graph", "maker", "factory", "slow", "broken"}
IsFactory(code) == code.kind \in {"factory", "slow"}

Code == [version : Nat, kind : Kinds]

ASSUME ConstantsAssumption ==
    /\ None \notin Users \cup Requests \cup Code \cup {"all"} /\ "all" \notin Users
    /\ MaxVersion \in Nat

Graph == [version : Nat, for : Users \cup {"all", None}, by : Requests \cup {None}]
NoGraph == [version |-> 0, for |-> None, by |-> None]
Idle == [step |-> "idle", why |-> "run", user |-> None, code |-> None, graph |-> NoGraph, floor |-> 0]

\* Steps at which a request awaits a build.
Waiting == {"load", "make", "default", "invoke"}

Request == [step : Waiting \cup {"idle", "use", "failed", "over"}, why : {"run", "read"},
            user : Users \cup {None}, code : Code \cup {None}, graph : Graph, floor : Nat]

TypeOK ==
    /\ file \in Code
    /\ cache \in Graph
    /\ factories \in Code \cup {None} /\ hooks \in Code \cup {None}
    /\ req \in [Requests -> Request]
    /\ \A r \in Requests : req[r].step \in Waiting => req[r].code # None
    /\ floor \in Nat /\ raced \subseteq Requests

\* A graph of no user in particular, and one a factory built for u (None: with
\* the default arguments).
Static(code, r) == [version |-> code.version, for |-> "all", by |-> r]
Built(code, u, r) == [version |-> code.version, for |-> u, by |-> r]

\* Start-up has loaded every module (`_load_all_graph_modules`).
Init ==
    /\ file \in [version : {1}, kind : Kinds \ {"broken"}]
    /\ factories = IF IsFactory(file) THEN file ELSE None
    /\ hooks = factories
    /\ cache = IF IsFactory(file) THEN NoGraph ELSE Static(file, None)
    /\ req = [r \in Requests |-> Idle]
    /\ floor = 1 /\ raced = {}

-----------------------------------------------------------------------------
(* What a request does between two awaits *)

Cached == cache # NoGraph

\* Request q has its graph: to run it, or to read schemas off it.
Use(r, q, g) == req' = [req EXCEPT ![r] = [q EXCEPT !.step = "use", !.code = None, !.graph = g]]

Await(r, q, step, code) == req' = [req EXCEPT ![r] = [q EXCEPT !.step = step, !.code = code]]

Fail(r) == req' = [req EXCEPT ![r] = [Idle EXCEPT !.step = "failed"]]

\* Mutant of Invoke: the runtime carries no user.
InvokeAnonymous(r, q, code) ==
    IF code.kind = "slow" THEN Await(r, [q EXCEPT !.user = None], "invoke", code)
    ELSE Use(r, q, Built(code, None, r))

\* `invoke_factory` with the runtime of the request, then `generate_graph`.
Invoke(r, q, code) ==
    IF code.kind = "slow" THEN Await(r, q, "invoke", code) ELSE Use(r, q, Built(code, q.user, r))

\* `_call_factory_with_defaults`
CallWithDefaults(r, q, code) ==
    IF code.kind = "slow" THEN Await(r, q, "default", code) ELSE Use(r, q, Built(code, None, r))

\* `classify_factory` keeps a hook that is there; the callable is replaced.
Register(code) ==
    /\ hooks' = IF hooks = None THEN code ELSE hooks
    /\ factories' = code

\* Mutant of Cacheable: what factories built is cached as well.
CacheAll == TRUE

\* Only static graphs are cached: the test is that no factory is registered now.
Cacheable == factories = None

Keep(g) == cache' = IF Cacheable THEN g ELSE cache

\* `_get_base_graph` with nothing cached and no factory registered: load.
LoadBase(r, q) ==
    \/ /\ file.kind = "broken"
       /\ Fail(r) /\ UNCHANGED tables
    \/ /\ file.kind = "graph"
       /\ Keep(Static(file, r)) /\ Use(r, q, Static(file, r))
       /\ UNCHANGED <<factories, hooks>>
    \/ /\ file.kind = "maker"
       /\ Await(r, q, "make", file) /\ UNCHANGED tables
    \/ /\ IsFactory(file)
       /\ Register(file) /\ CallWithDefaults(r, q, file)
       /\ UNCHANGED cache

\* `_get_base_graph`
GetBaseGraph(r, q) ==
    IF Cached THEN Use(r, q, cache) /\ UNCHANGED tables
    ELSE IF factories # None THEN CallWithDefaults(r, q, factories) /\ UNCHANGED tables
    ELSE LoadBase(r, q)

-----------------------------------------------------------------------------
(* Requests *)

Begun(why, u) == [Idle EXCEPT !.why = why, !.user = u, !.floor = floor]

\* `get_graph`: a factory is invoked; a cached graph is used (a copy of it);
\* with neither, the file is loaded to find out, and a static graph is then
\* loaded once more.
GetGraph(r, u) ==
    LET q == Begun("run", u) IN
    /\ req[r].step = "idle"
    /\ IF factories # None THEN Invoke(r, q, factories) /\ UNCHANGED tables
       ELSE IF Cached \/ file.kind \in {"graph", "broken"} THEN GetBaseGraph(r, q)
       ELSE IF file.kind = "maker" THEN Await(r, q, "load", file) /\ UNCHANGED tables
       ELSE Register(file) /\ Invoke(r, q, file) /\ UNCHANGED cache
    /\ UNCHANGED <<file, floor, raced>>

\* The graph a maker has made is dropped; get_graph looks again.
Loaded(r) ==
    /\ req[r].step = "load"
    /\ IF factories # None THEN Invoke(r, req[r], factories) /\ UNCHANGED tables
       ELSE GetBaseGraph(r, req[r])
    /\ UNCHANGED <<file, floor, raced>>

\* `get_graph_for_validation`: the schemas of an assistant, or the check of one
\* that is created, which passes no user.
Validate(r, u) ==
    LET q == Begun("read", u) IN
    /\ req[r].step = "idle"
    /\ IF factories # None THEN Invoke(r, q, factories) /\ UNCHANGED tables
       ELSE GetBaseGraph(r, q)
    /\ UNCHANGED <<file, floor, raced>>

\* An async maker, or a factory called with defaults, returns to
\* `_get_base_graph`, which does not look whether a graph was cached meanwhile.
Made(r) ==
    LET code == req[r].code
        g == IF code.kind = "maker" THEN Static(code, r) ELSE Built(code, None, r)
    IN
    /\ req[r].step \in {"make", "default"}
    /\ Keep(g) /\ Use(r, req[r], g)
    /\ UNCHANGED <<file, factories, hooks, floor, raced>>

\* An async factory that was invoked for the request has returned.
Invoked(r) ==
    /\ req[r].step = "invoke"
    /\ Use(r, req[r], Built(req[r].code, req[r].user, r))
    /\ UNCHANGED <<file, tables, floor, raced>>

\* It raised.
BuildFails(r) ==
    /\ req[r].step \in Waiting
    /\ Fail(r)
    /\ UNCHANGED <<file, tables, floor, raced>>

Finish(r) ==
    /\ req[r].step \in {"use", "failed"}
    /\ req' = [req EXCEPT ![r] = [Idle EXCEPT !.step = "over"]]
    /\ UNCHANGED <<file, tables, floor, raced>>

-----------------------------------------------------------------------------
(* Hot reload *)

Race == raced' = raced \cup {r \in Requests : req[r].step \in Waiting}

Edit(kind) ==
    /\ file.version < MaxVersion
    /\ file' = [version |-> file.version + 1, kind |-> kind]
    /\ Race
    /\ UNCHANGED <<tables, req, floor>>

\* `clear_factory_registry`
ClearRegistry == hooks' = None

\* Mutant of Forget: the callables are kept.
ForgetGraphs == cache' = NoGraph /\ UNCHANGED factories

Forget == cache' = NoGraph /\ factories' = None

\* `invalidate_cache`
Invalidate ==
    /\ Forget
    /\ ClearRegistry
    /\ floor' = file.version
    /\ Race
    /\ UNCHANGED <<file, req>>

-----------------------------------------------------------------------------
Next ==
    \/ \E r \in Requests :
          \/ \E u \in Users : GetGraph(r, u)
          \/ \E u \in Users \cup {None} : Validate(r, u)
          \/ Loaded(r) \/ Made(r) \/ Invoked(r) \/ BuildFails(r) \/ Finish(r)
    \/ \E kind \in Kinds : Edit(kind)
    \/ Invalidate

Spec == Init /\ [][Next]_vars

-----------------------------------------------------------------------------
(* Properties *)

\* A factory is called by the signature that was inspected for it: the dispatch
\* table and the table of callables never disagree, across edits and reloads.
HooksMatch == hooks = factories

\* A graph that a factory built for one request is not cached for others,
\* unless the tables changed while that request awaited the build.
BuiltIsNotShared == Cached => cache.for = "all" \/ cache.by \in raced

\* A run gets a static graph or one that was built for its own user.
RunsOwnGraph ==
    \A r \in Requests :
        req[r].step = "use" /\ req[r].why = "run" =>
            req[r].graph.for \in {"all", req[r].user} \/ req[r].graph.by \in raced

\* A request that starts after an invalidation gets nothing older than the file
\* was then, unless a build went on across the change.
ReloadReaches ==
    \A r \in Requests :
        req[r].step = "use" => req[r].graph.version >= req[r].floor \/ req[r].graph.by \in raced

\* "Only cache static graphs - factory graphs must be re-invoked each time":
\* no built graph is ever cached.
OnlyStaticIsCached == Cached => cache.for = "all"
=============================================================================
