---------------------------- MODULE ThreadStates ----------------------------
(***************************************************************************)
(* The row of one thread and the checkpoints of its graph, under the       *)
(* requests of its user (api/threads.py, run_preparation.py).              *)
(*                                                                         *)
(* The row holds metadata, read and written back whole: the keys clients   *)
(* patch in, here one of their own for each patch, and graph_id, which the *)
(* first run sets and without which no checkpoint is looked for.  The      *)
(* checkpoints are LangGraph's (external): numbered in the order they are  *)
(* put, each with its parent, the one it was made from; "since" is how     *)
(* many there were when its writer began.  The latest is the last put.     *)
(* They outlive the thread.  Requests run on any instance.                 *)
(***************************************************************************)
EXTENDS Naturals, Sequences

CONSTANTS
    Requests,
    None,
    MaxCheckpoints, \* model bound on the checkpoints
    Limits,         \* model bound: page sizes a client asks the history for
    Scenes          \* model bound: the operations requests do in one behaviour

Graph == "graph_id"

ASSUME ConstantsAssumption ==
    /\ None \notin Requests /\ Graph \notin Requests
    /\ MaxCheckpoints \in Nat
    /\ Limits \subseteq Nat \ {0}

VARIABLES
    row,            \* the thread: None, or the keys of its metadata
    checkpoints,    \* each [parent, by]; parent 0: the empty state
    op,             \* what each request does
    req,            \* where it stands: [step, seen, base, since, pages, got, blind]
    committed,      \* the metadata keys committed since the row was made
    hidden          \* those of them a write hid that had read the row before

vars == <<row, checkpoints, op, req, committed, hidden>>
ghosts == <<committed, hidden>>

Ops == {"create", "patch", "run", "rerun", "update", "fork", "state", "state_at", "history", "delete"}
ASSUME ScenesAssumption == Scenes \subseteq [Requests -> Ops]

Metadata == SUBSET (Requests \cup {Graph})
Steps == {"new", "insert", "commit", "load", "put", "read", "page", "fetch", "done", "error"}
Checkpoint == [parent : 0..MaxCheckpoints, by : Requests, since : 0..MaxCheckpoints]
Pages == Seq(1..MaxCheckpoints)
Request == [step : Steps, seen : Metadata, base : 0..MaxCheckpoints, since : 0..MaxCheckpoints,
            pages : Pages, got : {None, "empty", "state"}, blind : BOOLEAN]
Idle == [step |-> "new", seen |-> {}, base |-> 0, since |-> 0, pages |-> <<>>, got |-> None,
         blind |-> FALSE]

TypeOK ==
    /\ row \in Metadata \cup {None}
    /\ checkpoints \in Seq(Checkpoint)
    /\ Len(checkpoints) <= MaxCheckpoints
    /\ op \in [Requests -> Ops]
    /\ req \in [Requests -> Request]
    /\ committed \in Metadata /\ hidden \in Metadata

Init ==
    /\ row = None
    /\ checkpoints = <<>>
    /\ op \in Scenes
    /\ req = [r \in Requests |-> Idle]
    /\ committed = {} /\ hidden = {}

-----------------------------------------------------------------------------
(* Steps of a request *)

Latest == Len(checkpoints)

Go(r, step) == req' = [req EXCEPT ![r].step = step]
End(r, how) == req' = [req EXCEPT ![r] = [@ EXCEPT !.step = how, !.seen = {}, !.base = 0, !.since = 0]]

\* Mutant of Merged: a patch replaces the metadata.
Replaced(r, keys) == keys

\* `current_metadata.update(request.metadata)` over the metadata as it was read.
Merged(r, keys) == req[r].seen \cup keys

\* The whole metadata is written back over what the row holds by now.
WriteBack(r, keys) ==
    /\ row' = Merged(r, keys)
    /\ committed' = committed \cup keys
    /\ hidden' = hidden \cup (row \ req[r].seen)
    /\ UNCHANGED <<checkpoints, op>>

NewRow(keys) == row' = keys /\ committed' = keys /\ hidden' = {}

\* `create_thread`: with a thread_id of the client's, an existing thread is returned
\* or refused.
Create(r) ==
    /\ op[r] = "create" /\ req[r].step = "new"
    /\ Go(r, IF row = None THEN "insert" ELSE "done")
    /\ UNCHANGED <<row, checkpoints, op, ghosts>>

InsertThread(r) ==
    /\ op[r] = "create" /\ req[r].step = "insert"
    /\ IF row = None THEN NewRow({}) /\ Go(r, "done")
       ELSE Go(r, "error") /\ UNCHANGED <<row, ghosts>>
    /\ UNCHANGED <<checkpoints, op>>

\* `update_thread` reads the row ...
Patch(r) ==
    /\ op[r] = "patch" /\ req[r].step = "new"
    /\ IF row = None THEN End(r, "error")
       ELSE req' = [req EXCEPT ![r].step = "commit", ![r].seen = row]
    /\ UNCHANGED <<row, checkpoints, op, ghosts>>

\* ... and writes it back; a row deleted meanwhile is an error.
CommitPatch(r) ==
    /\ op[r] = "patch" /\ req[r].step = "commit"
    /\ IF row = None THEN End(r, "error") /\ UNCHANGED <<row, checkpoints, op, ghosts>>
       ELSE End(r, "done") /\ WriteBack(r, {r})

\* `_prepare_run`, `update_thread_metadata`: a thread that is not there is made,
\* with the graph, in the transaction that stores the run.
Prepare(r) ==
    /\ op[r] \in {"run", "rerun"} /\ req[r].step = "new"
    /\ op[r] = "rerun" => Latest > 0
    /\ req' = [req EXCEPT ![r].step = IF row = None THEN "insert" ELSE "commit",
                          ![r].seen = IF row = None THEN {} ELSE row]
    /\ UNCHANGED <<row, checkpoints, op, ghosts>>

InsertWithRun(r) ==
    /\ op[r] \in {"run", "rerun"} /\ req[r].step = "insert"
    /\ IF row = None THEN NewRow({Graph}) /\ Go(r, "load")
       ELSE End(r, "error") /\ UNCHANGED <<row, ghosts>>
    /\ UNCHANGED <<checkpoints, op>>

CommitRun(r) ==
    /\ op[r] \in {"run", "rerun"} /\ req[r].step = "commit"
    /\ IF row = None THEN End(r, "error") /\ UNCHANGED <<row, checkpoints, op, ghosts>>
       ELSE /\ req' = [req EXCEPT ![r].step = "load", ![r].seen = {}]
            /\ WriteBack(r, {Graph})

-----------------------------------------------------------------------------
(* Checkpoints *)

\* A request that needs the graph looks for graph_id in the row first.
FindGraph(r, next, without) ==
    IF row = None THEN End(r, "error")
    ELSE IF Graph \in row THEN Go(r, next) ELSE without

\* `update_thread_state`; with a checkpoint_id ("fork") from that checkpoint.
UpdateState(r) ==
    /\ op[r] \in {"update", "fork"} /\ req[r].step = "new"
    /\ op[r] = "fork" => Latest > 0
    /\ FindGraph(r, "load", End(r, "error"))
    /\ UNCHANGED <<row, checkpoints, op, ghosts>>

Asks(r) == op[r] \in {"rerun", "fork"}

\* Mutant of Bases: the config names no thread.
NoHistory(r) == {0}

\* What a run or an update starts from: a checkpoint the client was shown and asks
\* for, or the latest (`create_run_config`, `create_thread_config`).
Bases(r) == IF Asks(r) THEN 1..Latest ELSE {Latest}

Load(r) ==
    /\ req[r].step = "load"
    /\ \E base \in Bases(r) :
          req' = [req EXCEPT ![r].step = "put", ![r].base = base, ![r].since = Latest]
    /\ UNCHANGED <<row, checkpoints, op, ghosts>>

\* A run puts a checkpoint after each step, an update puts one.
Put(r) ==
    /\ req[r].step = "put" /\ Latest < MaxCheckpoints
    /\ checkpoints' = Append(checkpoints, [parent |-> req[r].base, by |-> r, since |-> req[r].since])
    /\ IF op[r] \in {"run", "rerun"} THEN req' = [req EXCEPT ![r].base = Latest + 1]
       ELSE End(r, "done")
    /\ UNCHANGED <<row, op, ghosts>>

\* The run ends, however it ends.
EndRun(r) ==
    /\ op[r] \in {"run", "rerun"} /\ req[r].step = "put"
    /\ End(r, "done")
    /\ UNCHANGED <<row, checkpoints, op, ghosts>>

\* `get_thread_state`: without a graph the state is empty.
GetState(r) ==
    /\ op[r] = "state" /\ req[r].step = "new"
    /\ FindGraph(r, "read", req' = [req EXCEPT ![r].step = "done", ![r].got = "empty"])
    /\ UNCHANGED <<row, checkpoints, op, ghosts>>

\* `get_thread_state_at_checkpoint`: without a graph there is nothing to find.
GetStateAt(r) ==
    /\ op[r] = "state_at" /\ req[r].step = "new"
    /\ Latest > 0
    /\ FindGraph(r, "read", End(r, "error"))
    /\ UNCHANGED <<row, checkpoints, op, ghosts>>

ReadState(r) ==
    /\ req[r].step = "read"
    /\ req' = [req EXCEPT ![r].step = "done", ![r].got = IF Latest = 0 THEN "empty" ELSE "state"]
    /\ UNCHANGED <<row, checkpoints, op, ghosts>>

\* A page is answered empty although nobody looked at the checkpoints: to the client
\* the history ends there.
Unseen(r) == req' = [req EXCEPT ![r].step = "done", ![r].blind = TRUE]

\* A client that reads the history page by page, each from before the last state of
\* the page it has, until a page is empty (`get_thread_history_post`).  Each page is
\* a request of its own, which reads the row again.
GetHistory(r) ==
    /\ op[r] = "history" /\ req[r].step \in {"new", "page"}
    /\ IF row = None THEN End(r, "error")
       ELSE IF Graph \notin row THEN Unseen(r)
       ELSE req' = [req EXCEPT ![r].step = "fetch",
                               ![r].since = IF req[r].step = "new" THEN Latest ELSE @]
    /\ UNCHANGED <<row, checkpoints, op, ghosts>>

\* Mutant of Before: the cursor's own checkpoint is passed over for the one before.
BeforeNext(r) == IF req[r].pages = <<>> THEN Latest
                 ELSE LET last == req[r].pages[Len(req[r].pages)] IN IF last < 2 THEN 0 ELSE last - 2

\* Checkpoints older than the cursor: 1..Before(r).
Before(r) == IF req[r].pages = <<>> THEN Latest ELSE req[r].pages[Len(req[r].pages)] - 1

GetPage(r) ==
    /\ req[r].step = "fetch"
    /\ \E limit \in Limits :
         LET from == Before(r)
             n == IF limit < from THEN limit ELSE from
             page == [i \in 1..n |-> from + 1 - i]
         IN  IF n = 0 THEN Go(r, "done")
             ELSE req' = [req EXCEPT ![r].step = "page", ![r].pages = @ \o page]
    /\ UNCHANGED <<row, checkpoints, op, ghosts>>

\* The graph or its checkpoints cannot be read: an error, but one that says "not found"
\* is answered as an empty page.
PageFails(r) ==
    /\ req[r].step = "fetch"
    /\ Unseen(r) \/ End(r, "error")
    /\ UNCHANGED <<row, checkpoints, op, ghosts>>

\* `delete_thread`: the row goes, with its runs; a run that executes is told to stop.
DeleteThread(r) ==
    /\ op[r] = "delete" /\ req[r].step = "new"
    /\ row' = None /\ committed' = {} /\ hidden' = {}
    /\ Go(r, IF row = None THEN "error" ELSE "done")
    /\ UNCHANGED <<checkpoints, op>>

Next == \E r \in Requests :
    \/ Create(r) \/ InsertThread(r) \/ Patch(r) \/ CommitPatch(r)
    \/ Prepare(r) \/ InsertWithRun(r) \/ CommitRun(r)
    \/ UpdateState(r) \/ Load(r) \/ Put(r) \/ EndRun(r)
    \/ GetState(r) \/ GetStateAt(r) \/ ReadState(r) \/ DeleteThread(r)
    \/ GetHistory(r) \/ GetPage(r) \/ PageFails(r)

Spec == Init /\ [][Next]_vars

-----------------------------------------------------------------------------
(* Properties *)

\* A key of the metadata that a client patched in, or the graph_id of a run, stays
\* as long as the thread, unless a write that had read the row before it came
\* after it (`update_thread`, `update_thread_metadata`: the row is not locked).
MetadataStays == row # None => committed \ hidden \subseteq row

Ancestors == [i \in DOMAIN checkpoints |->
    LET line[j \in 0..i] == IF j = 0 THEN {} ELSE {j} \cup line[checkpoints[j].parent] IN line[i]]

\* What a run or a state update put is part of every later state, unless a later
\* writer asked for another checkpoint or had begun before it was put: nothing
\* stops a run and an update, or two runs, from working on one thread.
StateSticks ==
    \A i \in DOMAIN checkpoints : \A u \in 1..(i - 1) :
       (\A j \in (u + 1)..i :
            \/ checkpoints[j].by = checkpoints[u].by
            \/ checkpoints[j].since >= u /\ ~Asks(checkpoints[j].by))
          => u \in Ancestors[i]

\* A client that pages through the history until a page is empty has seen, newest
\* first and once, every checkpoint there was when it began, however many are put
\* meanwhile and whatever the size of its pages: unless the page that ends it was
\* answered without a look at the checkpoints, as it is when the row has no graph_id
\* by then (a patch hid it, or the thread was made anew) and when reading them fails
\* with "not found".  What it has seen by then has no gaps.
PagesAreComplete ==
    \A r \in Requests : LET pages == req[r].pages IN
       /\ \A i \in 1..(Len(pages) - 1) : pages[i] = pages[i + 1] + 1
       /\ op[r] = "history" /\ req[r].step = "done" /\ req[r].since > 0 /\ ~req[r].blind =>
             pages # <<>> /\ pages[1] >= req[r].since /\ pages[Len(pages)] = 1

\* The state of a thread is answered empty only when no run has been executed on it
\* (`get_thread_state`: "If the thread has no associated graph yet (no runs
\* executed), returns an empty state").
EmptyMeansNoRuns ==
    [][\A r \in Requests : req'[r].got = "empty" /\ req[r].got = None =>
          ~(Graph \in committed /\ Latest > 0)]_vars
=============================================================================
