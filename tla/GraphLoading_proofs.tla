------------------------- MODULE GraphLoading_proofs -------------------------
(***************************************************************************)
(* That a request never gets what was built for another one, nor, after an *)
(* invalidation, what is older than the file was then, for any number of   *)
(* requests and users.                                                     *)
(***************************************************************************)
EXTENDS GraphLoading, TLAPS

\* What the tables promise whoever reads them.
TablesFresh ==
    /\ floor <= file.version
    /\ factories # None => factories.version >= floor
    /\ Cached => cache.version >= floor \/ cache.by \in raced

\* What is known of a request: how it came to await what it awaits, and that
\* what it has is its own and fresh, unless it raced with a change.
Sound(r) ==
    /\ req[r].floor <= floor
    /\ req[r].step = "load" => file.kind = "maker" \/ r \in raced
    /\ req[r].step = "make" => req[r].code.kind = "maker"
    /\ req[r].step = "default" => (factories # None /\ req[r].why = "read") \/ r \in raced
    /\ req[r].step \in {"make", "default", "invoke"} =>
          req[r].code.version >= floor \/ r \in raced
    /\ req[r].step = "use" =>
          \/ req[r].graph.by \in raced
          \/ /\ req[r].graph.version >= req[r].floor
             /\ req[r].why = "run" => req[r].graph.for \in {"all", req[r].user}

IInv ==
    /\ TypeOK
    /\ HooksMatch
    /\ BuiltIsNotShared
    /\ TablesFresh
    /\ \A r \in Requests : Sound(r)

USE ConstantsAssumption

LEMMA GraphTypes ==
    /\ NoGraph \in Graph
    /\ \A code \in Code, r \in Requests : Static(code, r) \in Graph
    /\ \A code \in Code, r \in Requests, u \in Users \cup {None} : Built(code, u, r) \in Graph
BY DEF NoGraph, Graph, Static, Built, Code

LEMMA InitInv == Init => IInv
<1> SUFFICES ASSUME Init PROVE IInv OBVIOUS
<1>1. file \in Code /\ file.version = 1 BY DEF Init, Code
<1>2. cache \in Graph BY <1>1 DEF Init, Graph, NoGraph, Static
<1>3. req \in [Requests -> Request] /\ \A r \in Requests : req[r] = Idle
  BY GraphTypes DEF Init, Idle, Request, Waiting
<1>4. TypeOK BY <1>1, <1>2, <1>3 DEF Init, TypeOK, Idle, Waiting
<1>5. BuiltIsNotShared /\ TablesFresh
  BY <1>1 DEF Init, BuiltIsNotShared, TablesFresh, Cached, Static, Code
<1>6. ASSUME NEW r \in Requests PROVE Sound(r)
  <2>1. req[r].step = "idle" /\ req[r].floor = 0 BY <1>3 DEF Idle
  <2> QED BY <2>1 DEF Init, Sound
<1> QED BY <1>4, <1>5, <1>6 DEF Init, IInv, HooksMatch

\* The files and the tables of races stand still while a request goes on.
Calm(r) ==
    /\ UNCHANGED <<file, floor, raced>>
    /\ factories # None => factories' # None
    /\ req' = [req EXCEPT ![r] = req'[r]]

\* What a step of request r has to show, for the others stay as sound.
LEMMA OneRequest ==
    ASSUME IInv, NEW r \in Requests, Calm(r), req'[r] \in Request,
           req'[r].step \in Waiting => req'[r].code # None,
           cache' \in Graph, factories' \in Code \cup {None}, hooks' = factories',
           BuiltIsNotShared', TablesFresh', Sound(r)'
    PROVE  IInv'
<1>1. TypeOK' BY DEF IInv, TypeOK, Calm
<1>2. ASSUME NEW s \in Requests, s # r PROVE Sound(s)'
  BY <1>2 DEF IInv, TypeOK, Calm, Sound
<1> QED BY <1>1, <1>2 DEF IInv, HooksMatch

\* A request that has just begun.
LEMMA BegunType ==
    ASSUME TypeOK, NEW why \in {"run", "read"}, NEW u \in Users \cup {None}
    PROVE  /\ Begun(why, u) \in Request
           /\ Begun(why, u).why = why /\ Begun(why, u).user = u /\ Begun(why, u).floor = floor
BY GraphTypes DEF TypeOK, Begun, Idle, Request, Waiting

\* A request that is given graph g, fails, or goes on to await code.
LEMMA UseEffect ==
    ASSUME TypeOK, NEW r \in Requests, NEW STATE q, q \in Request, NEW STATE g, g \in Graph, Use(r, q, g)
    PROVE  /\ req' = [req EXCEPT ![r] = req'[r]] /\ req'[r] \in Request
           /\ req'[r].step = "use" /\ req'[r].graph = g
           /\ req'[r].why = q.why /\ req'[r].user = q.user /\ req'[r].floor = q.floor
BY DEF TypeOK, Use, Request

LEMMA AwaitEffect ==
    ASSUME TypeOK, NEW r \in Requests, NEW STATE q, q \in Request, NEW STATE code, code \in Code,
           NEW step \in Waiting, Await(r, q, step, code)
    PROVE  /\ req' = [req EXCEPT ![r] = req'[r]] /\ req'[r] \in Request
           /\ req'[r].step = step /\ req'[r].code = code
           /\ req'[r].why = q.why /\ req'[r].user = q.user /\ req'[r].floor = q.floor
BY DEF TypeOK, Await, Request

LEMMA FailEffect ==
    ASSUME TypeOK, NEW r \in Requests, Fail(r)
    PROVE  /\ req' = [req EXCEPT ![r] = req'[r]] /\ req'[r] \in Request
           /\ req'[r].step = "failed" /\ req'[r].floor = 0
BY GraphTypes DEF TypeOK, Fail, Idle, Request, Waiting

\* The three ways a step of a request leaves the tables.
LEMMA FailStep ==
    ASSUME IInv, NEW r \in Requests, Fail(r), UNCHANGED <<file, floor, raced, tables>>
    PROVE  IInv'
<1>1. TypeOK BY DEF IInv
<1>2. Calm(r) /\ req'[r] \in Request /\ req'[r].step = "failed" /\ req'[r].floor = 0
  BY <1>1, FailEffect DEF Calm, tables
<1>3. Sound(r)' BY <1>1, <1>2 DEF Sound, TypeOK, Calm
<1>4. BuiltIsNotShared' /\ TablesFresh'
  BY <1>2 DEF IInv, BuiltIsNotShared, TablesFresh, Cached, tables, Calm
<1> QED BY <1>1, <1>2, <1>3, <1>4, OneRequest DEF IInv, TypeOK, HooksMatch, tables, Waiting

LEMMA UseStep ==
    ASSUME IInv, NEW r \in Requests, NEW STATE q, q \in Request, q.floor <= floor,
           NEW STATE g, g \in Graph, Use(r, q, g),
           g.by \in raced \/ (g.version >= q.floor /\ (q.why = "run" => g.for \in {"all", q.user})),
           UNCHANGED <<file, floor, raced>>, factories # None => factories' # None,
           cache' \in Graph, factories' \in Code \cup {None}, hooks' = factories',
           BuiltIsNotShared', TablesFresh'
    PROVE  IInv'
<1>1. TypeOK BY DEF IInv
<1>2. /\ Calm(r) /\ req'[r] \in Request
      /\ req'[r].step = "use" /\ req'[r].graph = g
      /\ req'[r].why = q.why /\ req'[r].user = q.user /\ req'[r].floor = q.floor
  BY <1>1, UseEffect DEF Calm
<1>3. Sound(r)' BY <1>2 DEF Sound, Calm
<1> QED BY <1>2, <1>3, OneRequest DEF Waiting

LEMMA AwaitStep ==
    ASSUME IInv, NEW r \in Requests, NEW STATE q, q \in Request, q.floor <= floor,
           NEW STATE code, code \in Code, NEW step \in Waiting, Await(r, q, step, code),
           step = "load" => file.kind = "maker" \/ r \in raced,
           step = "make" => code.kind = "maker",
           step = "default" => (factories' # None /\ q.why = "read") \/ r \in raced,
           code.version >= floor \/ r \in raced,
           UNCHANGED <<file, floor, raced>>, factories # None => factories' # None,
           cache' \in Graph, factories' \in Code \cup {None}, hooks' = factories',
           BuiltIsNotShared', TablesFresh'
    PROVE  IInv'
<1>1. TypeOK BY DEF IInv
<1>2. /\ Calm(r) /\ req'[r] \in Request
      /\ req'[r].step = step /\ req'[r].code = code
      /\ req'[r].why = q.why /\ req'[r].user = q.user /\ req'[r].floor = q.floor
  BY <1>1, AwaitEffect DEF Calm
<1>3. Sound(r)' BY <1>2 DEF Sound, Calm, Waiting
<1> QED BY <1>2, <1>3, OneRequest DEF Waiting

LEMMA TablesKept ==
    ASSUME IInv, UNCHANGED <<file, floor, raced, tables>>
    PROVE  /\ factories # None => factories' # None
           /\ cache' \in Graph /\ factories' \in Code \cup {None} /\ hooks' = factories'
           /\ BuiltIsNotShared' /\ TablesFresh'
BY DEF IInv, TypeOK, HooksMatch, BuiltIsNotShared, TablesFresh, Cached, tables

\* A factory that is registered, or about to be, is invoked for the request.
LEMMA InvokeStep ==
    ASSUME IInv, NEW r \in Requests, NEW STATE q, q \in Request, q.floor <= floor,
           NEW STATE code, code \in Code, code.version >= floor \/ r \in raced, Invoke(r, q, code),
           UNCHANGED <<file, floor, raced>>, factories # None => factories' # None,
           cache' \in Graph, factories' \in Code \cup {None}, hooks' = factories',
           BuiltIsNotShared', TablesFresh'
    PROVE  IInv'
<1>1. CASE code.kind = "slow"
  <2>1. Await(r, q, "invoke", code) BY <1>1 DEF Invoke
  <2> QED BY <2>1, AwaitStep DEF Waiting
<1>2. CASE code.kind # "slow"
  <2> DEFINE g == Built(code, q.user, r)
  <2>1. Use(r, q, g) BY <1>2 DEF Invoke
  <2>2. g \in Graph BY GraphTypes DEF Request
  <2>3. g.by = r /\ g.version = code.version /\ g.for = q.user BY DEF Built
  <2>4. code.version \in Nat /\ q.floor \in Nat /\ floor \in Nat BY DEF Code, Request, IInv, TypeOK
  <2>5. g.by \in raced \/ (g.version >= q.floor /\ (q.why = "run" => g.for \in {"all", q.user}))
    BY <2>3, <2>4
  <2> HIDE DEF g
  <2> QED BY <2>1, <2>2, <2>5, UseStep
<1> QED BY <1>1, <1>2

\* Only whoever reads, or has raced, gets a graph built with the defaults.
LEMMA DefaultsStep ==
    ASSUME IInv, NEW r \in Requests, NEW STATE q, q \in Request, q.floor <= floor,
           NEW STATE code, code \in Code, code.version >= floor \/ r \in raced,
           CallWithDefaults(r, q, code),
           (factories' # None /\ q.why = "read") \/ r \in raced,
           UNCHANGED <<file, floor, raced>>, factories # None => factories' # None,
           cache' \in Graph, factories' \in Code \cup {None}, hooks' = factories',
           BuiltIsNotShared', TablesFresh'
    PROVE  IInv'
<1>1. CASE code.kind = "slow"
  <2>1. Await(r, q, "default", code) BY <1>1 DEF CallWithDefaults
  <2> QED BY <2>1, AwaitStep DEF Waiting
<1>2. CASE code.kind # "slow"
  <2> DEFINE g == Built(code, None, r)
  <2>1. Use(r, q, g) BY <1>2 DEF CallWithDefaults
  <2>2. g \in Graph BY GraphTypes
  <2>3. g.by = r /\ g.version = code.version BY DEF Built
  <2>4. code.version \in Nat /\ q.floor \in Nat /\ floor \in Nat BY DEF Code, Request, IInv, TypeOK
  <2>5. g.by \in raced \/ (g.version >= q.floor /\ q.why # "run") BY <2>3, <2>4
  <2> HIDE DEF g
  <2> QED BY <2>1, <2>2, <2>5, UseStep
<1> QED BY <1>1, <1>2

\* Registering the code of the file keeps both tables alike and fresh.
LEMMA RegisterKeeps ==
    ASSUME IInv, factories = None, Register(file), UNCHANGED <<file, floor, raced, cache>>
    PROVE  /\ factories' # None
           /\ cache' \in Graph /\ factories' \in Code \cup {None} /\ hooks' = factories'
           /\ BuiltIsNotShared' /\ TablesFresh'
BY DEF IInv, TypeOK, HooksMatch, BuiltIsNotShared, TablesFresh, Cached, Register, Code

\* A graph that is cached is static, and as new as the file or raced.
LEMMA KeepKeeps ==
    ASSUME IInv, NEW STATE g, g \in Graph, Keep(g),
           factories = None => g.for = "all" \/ g.by \in raced,
           g.version >= floor \/ g.by \in raced,
           UNCHANGED <<file, floor, raced, factories, hooks>>
    PROVE  /\ cache' \in Graph /\ factories' \in Code \cup {None} /\ hooks' = factories'
           /\ BuiltIsNotShared' /\ TablesFresh'
BY DEF IInv, TypeOK, HooksMatch, BuiltIsNotShared, TablesFresh, Cached, Keep, Cacheable, Code, Graph

LEMMA BaseStep ==
    ASSUME IInv, NEW r \in Requests, NEW STATE q, q \in Request, q.floor <= floor,
           GetBaseGraph(r, q), UNCHANGED <<file, floor, raced>>,
           \/ q.why = "read" \/ r \in raced
           \/ factories = None /\ (Cached \/ ~IsFactory(file))
    PROVE  IInv'
<1>0. /\ q.floor \in Nat /\ floor \in Nat /\ floor <= file.version
      /\ file \in Code /\ file.version \in Nat
  BY DEF Request, IInv, TypeOK, Code, TablesFresh
<1>1. CASE Cached
  <2>1. Use(r, q, cache) /\ UNCHANGED tables BY <1>1 DEF GetBaseGraph
  <2>2. cache \in Graph /\ cache.version \in Nat BY DEF IInv, TypeOK, Graph
  <2>3. cache.by \in raced \/ (cache.version >= floor /\ cache.for = "all")
    BY <1>1 DEF IInv, BuiltIsNotShared, TablesFresh
  <2>4. cache.by \in raced \/ (cache.version >= q.floor /\ cache.for \in {"all", q.user})
    BY <2>2, <2>3, <1>0
  <2> QED BY <2>1, <2>2, <2>4, TablesKept, UseStep
<1>2. CASE ~Cached /\ factories # None
  <2>1. CallWithDefaults(r, q, factories) /\ UNCHANGED tables BY <1>2 DEF GetBaseGraph
  <2>2. factories \in Code /\ factories.version >= floor
    BY <1>2 DEF IInv, TypeOK, TablesFresh
  <2>3. (factories' # None /\ q.why = "read") \/ r \in raced BY <1>2, <2>1 DEF tables
  <2> QED BY <2>1, <2>2, <2>3, TablesKept, DefaultsStep
<1>3. CASE ~Cached /\ factories = None
  <2>0. LoadBase(r, q) BY <1>3 DEF GetBaseGraph
  <2>1. CASE file.kind = "broken" /\ Fail(r) /\ UNCHANGED tables BY <2>1, FailStep
  <2>2. CASE /\ file.kind = "graph" /\ Keep(Static(file, r)) /\ Use(r, q, Static(file, r))
             /\ UNCHANGED <<factories, hooks>>
    <3> DEFINE g == Static(file, r)
    <3>1. g \in Graph BY <1>0, GraphTypes
    <3>2. g.for = "all" /\ g.version = file.version BY DEF Static
    <3>3. g.version >= floor /\ g.version >= q.floor BY <3>2, <1>0
    <3> HIDE DEF g
    <3>4. Keep(g) /\ Use(r, q, g) BY <2>2 DEF g
    <3>5. /\ cache' \in Graph /\ factories' \in Code \cup {None} /\ hooks' = factories'
          /\ BuiltIsNotShared' /\ TablesFresh'
      BY <2>2, <3>1, <3>2, <3>3, <3>4, KeepKeeps
    <3> QED BY <2>2, <3>1, <3>2, <3>3, <3>4, <3>5, UseStep
  <2>3. CASE file.kind = "maker" /\ Await(r, q, "make", file) /\ UNCHANGED tables
    BY <2>3, <1>0, TablesKept, AwaitStep DEF Waiting
  <2>4. CASE IsFactory(file) /\ Register(file) /\ CallWithDefaults(r, q, file) /\ UNCHANGED cache
    <3>1. /\ factories' # None
          /\ cache' \in Graph /\ factories' \in Code \cup {None} /\ hooks' = factories'
          /\ BuiltIsNotShared' /\ TablesFresh'
      BY <2>4, <1>3, RegisterKeeps
    <3> QED BY <3>1, <2>4, <1>0, <1>3, DefaultsStep
  <2> QED BY <2>0, <2>1, <2>2, <2>3, <2>4 DEF LoadBase
<1> QED BY <1>1, <1>2, <1>3

LEMMA GetGraphInv == ASSUME IInv, NEW r \in Requests, NEW u \in Users, GetGraph(r, u) PROVE IInv'
<1> DEFINE q == Begun("run", u)
<1>0. q \in Request /\ q.floor = floor /\ floor \in Nat BY BegunType DEF IInv, TypeOK
<1>1. q.floor <= floor BY <1>0
<1>2. UNCHANGED <<file, floor, raced>> BY DEF GetGraph
<1>3. file \in Code /\ file.version >= floor BY DEF IInv, TypeOK, TablesFresh, Code
<1> HIDE DEF q
<1>4. CASE factories # None
  <2>1. Invoke(r, q, factories) /\ UNCHANGED tables BY <1>4 DEF GetGraph, q
  <2>2. factories \in Code /\ factories.version >= floor
    BY <1>4 DEF IInv, TypeOK, TablesFresh
  <2> QED BY <2>1, <2>2, <1>0, <1>1, <1>2, TablesKept, InvokeStep
<1>5. CASE factories = None /\ (Cached \/ file.kind \in {"graph", "broken"})
  <2>1. GetBaseGraph(r, q) BY <1>5 DEF GetGraph, q
  <2>2. Cached \/ ~IsFactory(file) BY <1>5 DEF IsFactory
  <2> QED BY <2>1, <2>2, <1>0, <1>1, <1>2, <1>5, BaseStep
<1>6. CASE factories = None /\ ~(Cached \/ file.kind \in {"graph", "broken"}) /\ file.kind = "maker"
  <2>1. Await(r, q, "load", file) /\ UNCHANGED tables BY <1>6 DEF GetGraph, q
  <2> QED BY <2>1, <1>0, <1>1, <1>2, <1>3, <1>6, TablesKept, AwaitStep DEF Waiting
<1>7. CASE factories = None /\ ~(Cached \/ file.kind \in {"graph", "broken"}) /\ file.kind # "maker"
  <2>1. Register(file) /\ Invoke(r, q, file) /\ UNCHANGED cache BY <1>7 DEF GetGraph, q
  <2>2. /\ factories' # None
        /\ cache' \in Graph /\ factories' \in Code \cup {None} /\ hooks' = factories'
        /\ BuiltIsNotShared' /\ TablesFresh'
    BY <2>1, <1>2, <1>7, RegisterKeeps
  <2> QED BY <2>1, <2>2, <1>0, <1>1, <1>2, <1>3, InvokeStep
<1> QED BY <1>4, <1>5, <1>6, <1>7

LEMMA LoadedInv == ASSUME IInv, NEW r \in Requests, Loaded(r) PROVE IInv'
<1>1. /\ req[r] \in Request /\ req[r].floor <= floor
      /\ file.kind = "maker" \/ r \in raced
      /\ UNCHANGED <<file, floor, raced>>
  BY DEF IInv, TypeOK, Sound, Loaded
<1>2. CASE factories # None
  <2>1. Invoke(r, req[r], factories) /\ UNCHANGED tables BY <1>2 DEF Loaded
  <2>2. factories \in Code /\ factories.version >= floor
    BY <1>2 DEF IInv, TypeOK, TablesFresh
  <2> QED BY <2>1, <2>2, <1>1, TablesKept, InvokeStep
<1>3. CASE factories = None
  <2>1. GetBaseGraph(r, req[r]) BY <1>3 DEF Loaded
  <2>2. ~IsFactory(file) \/ r \in raced BY <1>1 DEF IsFactory
  <2> QED BY <2>1, <2>2, <1>1, <1>3, BaseStep
<1> QED BY <1>2, <1>3

LEMMA ValidateInv ==
    ASSUME IInv, NEW r \in Requests, NEW u \in Users \cup {None}, Validate(r, u) PROVE IInv'
<1> DEFINE q == Begun("read", u)
<1>0. q \in Request /\ q.floor = floor /\ floor \in Nat /\ q.why = "read"
  BY BegunType DEF IInv, TypeOK
<1>1. q.floor <= floor BY <1>0
<1>2. UNCHANGED <<file, floor, raced>> BY DEF Validate
<1> HIDE DEF q
<1>3. CASE factories # None
  <2>1. Invoke(r, q, factories) /\ UNCHANGED tables BY <1>3 DEF Validate, q
  <2>2. factories \in Code /\ factories.version >= floor
    BY <1>3 DEF IInv, TypeOK, TablesFresh
  <2> QED BY <2>1, <2>2, <1>0, <1>1, <1>2, TablesKept, InvokeStep
<1>4. CASE factories = None
  <2>1. GetBaseGraph(r, q) BY <1>4 DEF Validate, q
  <2> QED BY <2>1, <1>0, <1>1, <1>2, BaseStep
<1> QED BY <1>3, <1>4

LEMMA MadeInv == ASSUME IInv, NEW r \in Requests, Made(r) PROVE IInv'
<1> DEFINE q == req[r]
           g == IF q.code.kind = "maker" THEN Static(q.code, r) ELSE Built(q.code, None, r)
<1>1. /\ q \in Request /\ q.floor <= floor /\ q.step \in {"make", "default"}
      /\ q.code \in Code /\ q.floor \in Nat /\ floor \in Nat
      /\ q.code.version \in Nat
      /\ q.code.version >= floor \/ r \in raced
      /\ UNCHANGED <<file, floor, raced, factories, hooks>>
      /\ Keep(g) /\ Use(r, q, g)
  BY DEF IInv, TypeOK, Sound, Made, Request, Waiting, Code
<1>2. q.code.kind = "maker" \/ (factories # None /\ q.why = "read") \/ r \in raced
  BY <1>1 DEF IInv, Sound
<1>3. g \in Graph /\ g.by = r /\ g.version = q.code.version
  BY <1>1, GraphTypes DEF Static, Built
<1>4. g.for = "all" \/ (factories # None /\ q.why = "read") \/ g.by \in raced
  BY <1>2, <1>3 DEF Static
<1>5. g.version >= floor \/ g.by \in raced BY <1>1, <1>3
<1>6. g.by \in raced \/ (g.version >= q.floor /\ (q.why = "run" => g.for \in {"all", q.user}))
  BY <1>1, <1>3, <1>4, <1>5
<1> HIDE DEF g
<1>7. /\ cache' \in Graph /\ factories' \in Code \cup {None} /\ hooks' = factories'
      /\ BuiltIsNotShared' /\ TablesFresh'
  BY <1>1, <1>3, <1>4, <1>5, KeepKeeps
<1> HIDE DEF q
<1> QED BY <1>1, <1>3, <1>6, <1>7, UseStep

LEMMA InvokedInv == ASSUME IInv, NEW r \in Requests, Invoked(r) PROVE IInv'
<1> DEFINE q == req[r]
           g == Built(q.code, q.user, r)
<1>1. /\ q \in Request /\ q.floor <= floor
      /\ q.code \in Code /\ q.floor \in Nat /\ floor \in Nat
      /\ q.code.version \in Nat /\ q.user \in Users \cup {None}
      /\ q.code.version >= floor \/ r \in raced
      /\ UNCHANGED <<file, floor, raced, tables>>
      /\ Use(r, q, g)
  BY DEF IInv, TypeOK, Sound, Invoked, Request, Waiting, Code
<1>2. g \in Graph BY <1>1, GraphTypes
<1>3. g.by = r /\ g.version = q.code.version /\ g.for = q.user BY DEF Built
<1>4. g.by \in raced \/ (g.version >= q.floor /\ (q.why = "run" => g.for \in {"all", q.user}))
  BY <1>1, <1>3
<1> HIDE DEF g, q
<1> QED BY <1>1, <1>2, <1>4, TablesKept, UseStep

\* A change of the file, or an invalidation, makes every request that awaits a
\* build one that has raced.
LEMMA RaceInv ==
    ASSUME IInv, Race, UNCHANGED req, TypeOK', HooksMatch', BuiltIsNotShared', TablesFresh',
           floor' >= floor
    PROVE  IInv'
<1>1. ASSUME NEW r \in Requests PROVE Sound(r)'
  <2>1. r \in raced' \/ req[r].step \notin Waiting BY DEF Race
  <2>2. raced \subseteq raced' BY DEF Race
  <2>3. req[r].floor \in Nat /\ floor \in Nat /\ floor' \in Nat /\ req[r].floor <= floor
    BY DEF IInv, TypeOK, Request, Sound
  <2> QED BY <2>1, <2>2, <2>3 DEF IInv, Sound, Waiting
<1> QED BY <1>1 DEF IInv

LEMMA EditInv == ASSUME IInv, NEW kind \in Kinds, Edit(kind) PROVE IInv'
<1>1. file' \in Code /\ file'.version = file.version + 1 BY DEF Edit, IInv, TypeOK, Code
<1>2. TypeOK' BY <1>1 DEF IInv, TypeOK, Edit, Race, tables
<1>3. HooksMatch' BY DEF IInv, HooksMatch, Edit, tables
<1>4. BuiltIsNotShared' BY DEF IInv, BuiltIsNotShared, Cached, Edit, Race, tables
<1>5. TablesFresh'
  BY <1>1 DEF IInv, TypeOK, Code, TablesFresh, Cached, Edit, Race, tables
<1> QED BY <1>2, <1>3, <1>4, <1>5, RaceInv DEF Edit, IInv, TypeOK

LEMMA InvalidateInv == ASSUME IInv, Invalidate PROVE IInv'
<1>1. /\ cache' = NoGraph /\ factories' = None /\ hooks' = None /\ floor' = file.version
      /\ UNCHANGED <<file, req>> /\ Race
  BY DEF Invalidate, Forget, ClearRegistry
<1>2. file.version \in Nat /\ floor' >= floor BY <1>1 DEF IInv, TypeOK, Code, TablesFresh
<1>3. TypeOK' BY <1>1, <1>2, GraphTypes DEF IInv, TypeOK, Race
<1>4. HooksMatch' /\ BuiltIsNotShared' /\ TablesFresh'
  BY <1>1, <1>2 DEF HooksMatch, BuiltIsNotShared, TablesFresh, Cached
<1> QED BY <1>1, <1>2, <1>3, <1>4, RaceInv

LEMMA FinishInv ==
    ASSUME IInv, NEW r \in Requests, NEW step \in {"failed", "over"},
           req' = [req EXCEPT ![r] = [Idle EXCEPT !.step = step]],
           UNCHANGED <<file, tables, floor, raced>>
    PROVE  IInv'
<1>1. TypeOK BY DEF IInv
<1>2. Calm(r) /\ req'[r] \in Request /\ req'[r].step = step /\ req'[r].floor = 0
  BY <1>1, GraphTypes DEF Calm, tables, TypeOK, Idle, Request, Waiting
<1>3. Sound(r)' BY <1>1, <1>2 DEF Sound, TypeOK, Calm
<1> QED BY <1>1, <1>2, <1>3, TablesKept, OneRequest DEF Waiting

LEMMA NextInv == IInv /\ [Next]_vars => IInv'
<1> SUFFICES ASSUME IInv, [Next]_vars PROVE IInv' OBVIOUS
<1>1. ASSUME NEW r \in Requests, BuildFails(r) PROVE IInv'
  BY <1>1, FailStep DEF BuildFails, tables
<1>2. ASSUME NEW r \in Requests, Finish(r) PROVE IInv' BY <1>2, FinishInv DEF Finish
<1>3. CASE UNCHANGED vars
  BY <1>3 DEF vars, IInv, TypeOK, HooksMatch, BuiltIsNotShared, TablesFresh, Cached, Sound
<1> QED BY <1>1, <1>2, <1>3, GetGraphInv, LoadedInv, ValidateInv, MadeInv, InvokedInv, EditInv,
           InvalidateInv DEF Next

LEMMA AlwaysInv == Spec => []IInv
BY InitInv, NextInv, PTL DEF Spec

\* Every variable keeps its type: a request that awaits a build knows the code
\* it awaits (`_get_base_graph`, `get_graph`).
THEOREM TypeCorrect == Spec => []TypeOK
<1>1. IInv => TypeOK BY DEF IInv
<1> QED BY <1>1, AlwaysInv, PTL

\* The table of inspected signatures and that of loaded callables always agree
\* (`classify_factory`, `clear_factory_registry`).
THEOREM HooksAlwaysMatch == Spec => []HooksMatch
<1>1. IInv => HooksMatch BY DEF IInv
<1> QED BY <1>1, AlwaysInv, PTL

\* The base-graph cache never holds what a factory built for one request,
\* unless that request raced with an edit or an invalidation.
THEOREM BuiltIsNeverShared == Spec => []BuiltIsNotShared
<1>1. IInv => BuiltIsNotShared BY DEF IInv
<1> QED BY <1>1, AlwaysInv, PTL

\* A run gets a static graph, or the one its factory built for its own user.
THEOREM RunsAlwaysGetTheirOwn == Spec => []RunsOwnGraph
<1>1. IInv => RunsOwnGraph BY DEF IInv, RunsOwnGraph, Sound
<1> QED BY <1>1, AlwaysInv, PTL

\* Nothing older than an invalidation is used after it.
THEOREM ReloadAlwaysReaches == Spec => []ReloadReaches
<1>1. IInv => ReloadReaches BY DEF IInv, ReloadReaches, Sound
<1> QED BY <1>1, AlwaysInv, PTL
=============================================================================
