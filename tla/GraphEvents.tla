----------------------------- MODULE GraphEvents -----------------------------
(***************************************************************************)
(* What a run makes of the chunks its graph streams: the events it puts    *)
(* to the broker and the output it keeps (run_executor.py `_stream_graph`, *)
(* graph_streaming.py).                                                    *)
(*                                                                         *)
(* A chunk is taken when the graph hands it over: one consumer, in order.  *)
(* LangGraph is external; it hands over chunks of the modes the run        *)
(* subscribes to, from the root graph or, when subgraphs are asked for,    *)
(* from a nested one.  A payload is the list of the positions of the       *)
(* chunks it was made from.                                                *)
(*                                                                         *)
(* The names a module usually calls Init, Next, Spec and vars say Stream   *)
(* here: the proofs stand beside those of RunWaits, which has its own.     *)
(***************************************************************************)
EXTENDS Naturals, Sequences, FiniteSets

CONSTANTS
    Root, Nested,   \* the empty namespace, and those of the subgraphs
    Messages,       \* message ids of the LLMs
    None,
    Requests,       \* model bound: stream_mode of the requests (None: not given)
    MaxChunks       \* model bound on the chunks of a run

ASSUME ChunksAssumption ==
    /\ Root \notin Nested /\ None \notin Messages
    /\ MaxChunks \in Nat

ASSUME RequestsAssumption ==
    Requests \subseteq {None} \cup SUBSET {"values", "updates", "messages", "messages-tuple",
                                          "debug", "custom", "events"}

VARIABLES
    asked,          \* the stream modes of the job, resolved
    subgraphs,      \* job.behavior.subgraphs
    graph,          \* LangGraph: "running", "pausing" (something has been interrupted), "over"
    given,          \* LangGraph: the chunks handed over so far
    messages,       \* `messages`: what has been accumulated, by message id
    put,            \* the events put to the broker
    result          \* _GraphResult: data, has_interrupt

streamVars == <<asked, subgraphs, graph, given, messages, put, result>>

Spaces == {Root} \cup Nested
Chunk == [mode : {"values", "updates", "messages", "debug", "custom", "raw"}, space : Spaces,
          what : {"state", "interrupt", "breakpoint", "piece", "whole", "hidden", "other"},
          id : Messages \cup {None}]
Types == {"values", "updates", "messages", "debug", "custom", "events", "metadata",
          "messages/metadata", "messages/partial", "messages/complete"}
Event == [type : Types, space : Spaces, data : Seq(1..MaxChunks)]

StreamTypeOK ==
    /\ asked \subseteq {"values", "updates", "messages", "messages-tuple", "debug", "custom", "events"}
    /\ subgraphs \in BOOLEAN
    /\ graph \in {"running", "pausing", "over"}
    /\ given \in Seq(Chunk) /\ Len(given) <= MaxChunks
    /\ messages \in [Messages -> Seq(1..MaxChunks)]
    /\ put \in Seq(Event)
    /\ result.data \in Seq(1..MaxChunks) /\ result.interrupt \in BOOLEAN

\* `_resolve_stream_modes`
Resolve(modes) == IF modes = None THEN {"values"} ELSE modes

StreamInit ==
    /\ \E modes \in Requests : asked = Resolve(modes)
    /\ subgraphs \in BOOLEAN
    /\ graph = "running"
    /\ given = <<>>
    /\ messages = [m \in Messages |-> <<>>]
    /\ put = << [type |-> "metadata", space |-> Root, data |-> <<>>] >>
    /\ result = [data |-> <<>>, interrupt |-> FALSE]

-----------------------------------------------------------------------------
(* LangGraph: the chunks it may hand over *)

\* What the graph is subscribed to: debug and updates always are.
Subscribed ==
    (asked \ {"events", "messages-tuple"}) \cup {"debug", "updates"}
       \cup (IF "messages-tuple" \in asked THEN {"messages"} ELSE {})

\* Chunks are handed over with their namespace only when subgraphs are asked
\* for; the tokens of a nested graph's LLM come either way.
Streamed == IF subgraphs THEN Spaces ELSE {Root}

Chunks(mode, whats, ids) == [mode : {mode}, space : Streamed, what : whats, id : ids]

Has(id, what) == \E i \in DOMAIN given : given[i].id = id /\ given[i].what = what

\* A graph that does not pause ends when the root's state is the last it reported.
StateReported ==
    "values" \in Subscribed =>
        \E i \in DOMAIN given :
           /\ given[i].mode = "values" /\ given[i].space = Root
           /\ \A j \in DOMAIN given : j > i => given[j].mode # "values"

-----------------------------------------------------------------------------
(* One chunk, from the graph to the broker *)

\* A type carries the namespace of the chunk ("values|ns") when there is one.
Ev(type, c, data) == << [type |-> type, space |-> c.space, data |-> data] >>

\* Mutant of Accumulated: a partial message carries its last piece only.
LastPiece(c, i) == <<i>>

\* `messages[msg_id] += msg`
Accumulated(c, i) == Append(messages[c.id], i)

\* Messages are passed on whole when messages-tuple is asked for, whether or not
\* messages is, and are accumulated by id otherwise.
OfMessage(c, i) ==
    IF "messages-tuple" \in asked THEN Ev("messages", c, <<i>>)
    ELSE LET first == messages[c.id] = <<>>
             type == IF c.what = "piece" THEN "messages/partial" ELSE "messages/complete"
             at(t, data) == Ev(t, [c EXCEPT !.space = Root], data)
         IN  (IF first THEN at("messages/metadata", <<i>>) ELSE <<>>)
                \o at(type, Accumulated(c, i))

\* Mutant of Remapped: an update nobody asked for is left out, whatever it says.
NotRemapped(c, i) == <<>>

\* An update nobody asked for is passed on only when it is an interrupt that says
\* something, as values: the empty one of a breakpoint is left out.
Remapped(c, i) == IF c.what = "interrupt" THEN Ev("values", c, <<i>>) ELSE <<>>

\* `_process_stream_event`
Processed(c, i) ==
    IF c.mode = "messages" THEN OfMessage(c, i)
    ELSE IF c.mode \in asked THEN Ev(c.mode, c, <<i>>)
    ELSE IF c.mode = "updates" THEN Remapped(c, i)
    ELSE <<>>

\* `stream_graph_events`: with events asked for, every event of the run is also
\* passed on raw, but for the hidden ones.
Events(c, i) ==
    IF c.mode = "raw" THEN IF c.what = "hidden" THEN <<>> ELSE Ev("events", c, <<i>>)
    ELSE Processed(c, i) \o (IF "events" \in asked THEN Ev("events", [c EXCEPT !.space = Root], <<i>>) ELSE <<>>)

\* The last event of type values is the output.
Kept(events) ==
    LET vals == {k \in DOMAIN events : events[k].type = "values"}
    IN  IF vals = {} THEN 0 ELSE CHOOSE k \in vals : \A l \in vals : l <= k

\* `"__interrupt__" in event_data`, be it empty: seen in the payload of an event
\* of the chunk's own, not in a raw one.
Interrupts(events, c) ==
    c.what \in {"interrupt", "breakpoint"} /\ \E k \in DOMAIN events : events[k].type # "events"

Take(c) ==
    LET i == Len(given) + 1
        events == Events(c, i)
    IN  /\ Len(given) < MaxChunks
        /\ given' = Append(given, c)
        /\ messages' = IF c.mode = "messages" /\ "messages-tuple" \notin asked
                       THEN [messages EXCEPT ![c.id] = Append(@, i)] ELSE messages
        /\ put' = put \o events
        /\ result' = [data |-> IF Kept(events) = 0 THEN result.data ELSE events[Kept(events)].data,
                      interrupt |-> result.interrupt \/ Interrupts(events, c)]
        /\ UNCHANGED <<asked, subgraphs>>

-----------------------------------------------------------------------------

\* A state, an update, a checkpoint or something of the author's.  What runs beside
\* a node that was interrupted goes on streaming.
TakeStep ==
    /\ graph # "over"
    /\ \E mode \in Subscribed \cap {"values", "updates", "debug", "custom"} :
         \E c \in Chunks(mode, {IF mode = "values" THEN "state" ELSE "other"}, {None}) : Take(c)
    /\ UNCHANGED graph

\* A token of a message, or a message nobody streamed; never both.
TakeMessage ==
    /\ graph # "over" /\ "messages" \in Subscribed
    /\ \E c \in Chunks("messages", {"piece", "whole"}, Messages) :
          /\ ~Has(c.id, "whole")
          /\ c.what = "whole" => ~Has(c.id, "piece")
          /\ Take(c)
    /\ UNCHANGED graph

\* A node asks for a human (`interrupt()`): the update says so, of the root graph
\* or of a nested one; the graphs around it say it again in theirs.
TakeInterrupt ==
    /\ graph # "over"
    /\ \E c \in Chunks("updates", {"interrupt"}, {None}) : Take(c)
    /\ graph' = "pausing"

\* From LangGraph 1.0, which pyproject.toml asks for, the same graph repeats the
\* interrupt in a state, for whoever subscribes to states.
TakeEcho ==
    /\ graph # "over" /\ "values" \in Subscribed
    /\ given # <<>>
    /\ LET last == given[Len(given)]
       IN  /\ last.mode = "updates" /\ last.what = "interrupt"
           /\ Take([mode |-> "values", space |-> last.space, what |-> "interrupt", id |-> None])
    /\ UNCHANGED graph

\* A static breakpoint (interrupt_before, interrupt_after): the root graph's
\* update holds an interrupt that is empty.
TakeBreakpoint ==
    /\ graph # "over"
    /\ Take([mode |-> "updates", space |-> Root, what |-> "breakpoint", id |-> None])
    /\ graph' = "pausing"

\* `astream_events`: an event that is not a chunk of the graph's own stream.
TakeRaw ==
    /\ graph # "over" /\ "events" \in asked
    /\ \E c \in [mode : {"raw"}, space : {Root}, what : {"other", "hidden"}, id : {None}] : Take(c)
    /\ UNCHANGED graph

Finish ==
    /\ \/ graph = "running" /\ StateReported
       \/ graph = "pausing"
    /\ graph' = "over"
    /\ UNCHANGED <<asked, subgraphs, given, messages, put, result>>

StreamNext ==
    \/ TakeStep \/ TakeMessage \/ TakeRaw
    \/ TakeInterrupt \/ TakeEcho \/ TakeBreakpoint
    \/ Finish

StreamSpec == StreamInit /\ [][StreamNext]_streamVars

-----------------------------------------------------------------------------
(* Properties *)

\* The events of type t made from chunk i.
From(i, t) == {k \in DOMAIN put : put[k].type = t /\ i \in {put[k].data[n] : n \in DOMAIN put[k].data}}

\* What a node asks a human reaches the clients whatever modes they asked for: each
\* update that says so makes one event, an update if updates were asked for and
\* values otherwise, and never both (a state that repeats it, from LangGraph 1.0, is
\* an event of its own).  The run is kept as interrupted, and its thread waits for a
\* resume, exactly when a node asked, or the graph stopped at a breakpoint and the
\* client asked for updates: without updates nobody is told of a breakpoint, and
\* the run ends as a success (`_process_stream_event`, `_stream_graph`).
InterruptReachesClient ==
    /\ \A i \in DOMAIN given : given[i].what = "interrupt" /\ given[i].mode = "updates" =>
          /\ Cardinality(From(i, IF "updates" \in asked THEN "updates" ELSE "values")) = 1
          /\ From(i, IF "updates" \in asked THEN "values" ELSE "updates") = {}
    /\ result.interrupt <=>
          \E i \in DOMAIN given :
             given[i].what \in {"interrupt"} \cup (IF "updates" \in asked THEN {"breakpoint"} ELSE {})

\* The run subscribes to more than was asked for; clients only get what was, and
\* the interrupts.
OnlyAsked ==
    \A k \in DOMAIN put : LET t == put[k].type IN
        \/ t = "metadata" \/ t \in asked
        \/ t = "messages" /\ "messages-tuple" \in asked
        \/ t \in {"messages/metadata", "messages/partial", "messages/complete"}
              /\ "messages" \in asked /\ "messages-tuple" \notin asked
        \/ t = "values" /\ \E i \in DOMAIN given : put[k].data = <<i>> /\ given[i].what = "interrupt"
                              /\ given[i].mode = "updates"

\* However the tokens of several messages are interleaved, a client that shows the
\* last partial of each message shows every token of it so far, once and in order,
\* and was given the message's metadata first, once.
MessagesBuildUp ==
    \A m \in Messages :
       LET pieces == {i \in DOMAIN given : given[i].id = m}
           parts == {k \in DOMAIN put : put[k].type \in {"messages/partial", "messages/complete"}
                                         /\ put[k].data # <<>> /\ given[put[k].data[1]].id = m}
           metas == {k \in DOMAIN put : put[k].type = "messages/metadata" /\ given[put[k].data[1]].id = m}
       IN  parts # {} =>
             LET last == CHOOSE k \in parts : \A l \in parts : l <= k
                 data == put[last].data
             IN  /\ {data[n] : n \in DOMAIN data} = pieces /\ Len(data) = Cardinality(pieces)
                 /\ \A n \in 1..(Len(data) - 1) : data[n] < data[n + 1]
                 /\ \E k \in metas : metas = {k} /\ \A l \in parts : k < l

\* When values are asked for, the output of a run that did not pause is the last
\* state the root graph reported, even when its subgraphs report theirs.
OutputIsTheLastState ==
    (/\ graph = "over" /\ "values" \in asked
     /\ \A i \in DOMAIN given : given[i].what \notin {"interrupt", "breakpoint"})
    => LET states == {i \in DOMAIN given : given[i].space = Root /\ given[i].mode = "values"}
       IN  \E i \in states : result.data = <<i>> /\ \A j \in states : j <= i

\* Where the code departs: a run whose graph paused ends as interrupted.  A run that
\* stopped at a breakpoint ends as a success unless updates were asked for.
PausedMeansInterrupted ==
    graph = "over" /\ (\E i \in DOMAIN given : given[i].what \in {"interrupt", "breakpoint"})
       => result.interrupt
=============================================================================
