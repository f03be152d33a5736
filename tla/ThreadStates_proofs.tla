------------------------- MODULE ThreadStates_proofs -------------------------
(***************************************************************************)
(* That committed metadata stays, that paging through a history misses     *)
(* nothing and that what was put stays part of every later state, for any  *)
(* number of requests, checkpoints and page sizes.                         *)
(***************************************************************************)
EXTENDS ThreadStates, SequenceTheorems, WellFoundedInduction, TLAPS

USE ConstantsAssumption, ScenesAssumption

\* The steps of a client that is paging.
Paging == {"page", "fetch"}
USE DEF Paging

\* What a client has of the history so far: pages without gaps, from the
\* latest checkpoint there was, or a later one, down to the cursor.
Paged(r) == LET pages == req[r].pages IN
    IF op[r] # "history" THEN pages = <<>> /\ req[r].step \notin Paging
    ELSE /\ req[r].step \in {"new", "done", "error"} \cup Paging
         /\ \A i \in 1..(Len(pages) - 1) : pages[i] = pages[i + 1] + 1
         /\ req[r].step = "new" => pages = <<>>
         /\ req[r].step \in Paging =>
               req[r].since <= Latest /\ (pages = <<>> \/ pages[1] >= req[r].since)
         /\ req[r].step = "done" /\ req[r].since > 0 /\ ~req[r].blind =>
               pages # <<>> /\ pages[1] >= req[r].since /\ pages[Len(pages)] = 1

IInv == TypeOK /\ MetadataStays /\ \A r \in Requests : Paged(r)

LEMMA LatestType == TypeOK => Latest \in 0..MaxCheckpoints
BY DEF TypeOK, Latest

LEMMA InitInv == Init => IInv
<1> SUFFICES ASSUME Init PROVE IInv OBVIOUS
<1>1. Idle \in Request
  BY EmptySeq DEF Idle, Request, Pages, Steps, Metadata
<1>2. TypeOK BY <1>1, EmptySeq DEF Init, TypeOK, Metadata
<1>3. ASSUME NEW r \in Requests PROVE Paged(r)
  <2>1. req[r].pages = <<>> /\ req[r].step = "new" BY DEF Init, Idle
  <2> QED BY <2>1 DEF Paged
<1> QED BY <1>2, <1>3 DEF IInv, MetadataStays, Init

\* What a request that does not read the history has to show: that it keeps out
\* of the steps of those that do, and what it does to the metadata.
LEMMA OtherRequest ==
    ASSUME IInv, NEW r \in Requests, op[r] # "history", UNCHANGED op,
           NEW STATE q, q \in Request, req' = [req EXCEPT ![r] = q],
           q.pages = req[r].pages, q.step \notin Paging,
           checkpoints' \in Seq(Checkpoint), Latest' \in Latest..MaxCheckpoints,
           row' \in Metadata \cup {None}, committed' \in Metadata, hidden' \in Metadata,
           MetadataStays'
    PROVE  IInv'
<1>1. req' \in [Requests -> Request] BY DEF IInv, TypeOK
<1>2. req'[r] = q BY DEF IInv, TypeOK
<1>3. Paged(r)' BY <1>2 DEF IInv, TypeOK, Paged
<1>4. ASSUME NEW s \in Requests, s # r PROVE Paged(s)'
  <2>1. req'[s] = req[s] /\ op'[s] = op[s] BY <1>4 DEF IInv, TypeOK
  <2>2. Latest \in Nat /\ Latest' \in Nat /\ req[s].since \in Nat
    BY LatestType DEF IInv, TypeOK, Request, Latest
  <2>3. Paged(s) BY DEF IInv
  <2> QED BY <2>1, <2>2, <2>3 DEF Paged
<1>5. TypeOK' BY <1>1 DEF IInv, TypeOK, Latest
<1> QED BY <1>3, <1>4, <1>5 DEF IInv

LEMMA GoEffect ==
    ASSUME TypeOK, NEW r \in Requests, NEW step \in Steps, Go(r, step)
    PROVE  LET q == [req[r] EXCEPT !.step = step] IN
           req' = [req EXCEPT ![r] = q] /\ q \in Request /\ q.pages = req[r].pages /\ q.step = step
<1>1. req[r] \in Request BY DEF TypeOK
<1> QED BY <1>1 DEF Go, Request

LEMMA EndEffect ==
    ASSUME TypeOK, NEW r \in Requests, NEW step \in Steps, End(r, step)
    PROVE  LET q == [req[r] EXCEPT !.step = step, !.seen = {}, !.base = 0, !.since = 0] IN
           /\ req' = [req EXCEPT ![r] = q] /\ q \in Request
           /\ q.pages = req[r].pages /\ q.step = step /\ q.since = 0
<1>1. req[r] \in Request BY DEF TypeOK
<1>2. {} \in Metadata /\ 0 \in 0..MaxCheckpoints BY DEF Metadata
<1> QED BY <1>1, <1>2 DEF End, Request

\* The thread may change, and the request moves on or ends.
LEMMA Write ==
    ASSUME IInv, NEW r \in Requests, op[r] # "history", NEW step \in Steps, step \notin Paging,
           Go(r, step) \/ End(r, step), UNCHANGED <<checkpoints, op>>,
           row' \in Metadata \cup {None}, committed' \in Metadata, hidden' \in Metadata,
           MetadataStays'
    PROVE  IInv'
<1>1. TypeOK BY DEF IInv
<1>2. checkpoints' \in Seq(Checkpoint) /\ Latest' \in Latest..MaxCheckpoints
  BY <1>1, LatestType DEF TypeOK, Latest
<1>3. CASE Go(r, step)
  <2> DEFINE q == [req[r] EXCEPT !.step = step]
  <2>1. req' = [req EXCEPT ![r] = q] /\ q \in Request /\ q.pages = req[r].pages /\ q.step = step
    BY <1>1, <1>3, GoEffect
  <2> HIDE DEF q
  <2> QED BY <1>2, <2>1, OtherRequest
<1>4. CASE End(r, step)
  <2> DEFINE q == [req[r] EXCEPT !.step = step, !.seen = {}, !.base = 0, !.since = 0]
  <2>1. req' = [req EXCEPT ![r] = q] /\ q \in Request /\ q.pages = req[r].pages /\ q.step = step
    BY <1>1, <1>4, EndEffect
  <2> HIDE DEF q
  <2> QED BY <1>2, <2>1, OtherRequest
<1> QED BY <1>3, <1>4

\* A request that only moves on, or ends, and leaves the thread alone.
LEMMA Quiet ==
    ASSUME IInv, NEW r \in Requests, op[r] # "history", NEW step \in Steps, step \notin Paging,
           Go(r, step) \/ End(r, step), UNCHANGED <<row, checkpoints, op, ghosts>>
    PROVE  IInv'
BY Write DEF IInv, TypeOK, MetadataStays, ghosts

\* What the row holds, whoever had read before the others and writes it back.
LEMMA WriteBackEffect ==
    ASSUME IInv, NEW r \in Requests, NEW keys \in Metadata, row # None, WriteBack(r, keys)
    PROVE  /\ row' \in Metadata \cup {None} /\ committed' \in Metadata /\ hidden' \in Metadata
           /\ MetadataStays' /\ UNCHANGED <<checkpoints, op>>
<1>1. req[r].seen \in Metadata /\ row \in Metadata BY DEF IInv, TypeOK, Request
<1>2. row' \in Metadata /\ committed' \in Metadata /\ hidden' \in Metadata
  BY <1>1 DEF IInv, TypeOK, WriteBack, Merged, Metadata
<1>3. committed' \ hidden' \subseteq row'
  BY DEF IInv, MetadataStays, WriteBack, Merged
<1> QED BY <1>2, <1>3 DEF MetadataStays, WriteBack

LEMMA NewRowEffect ==
    ASSUME NEW keys \in Metadata, NewRow(keys)
    PROVE  row' \in Metadata \cup {None} /\ committed' \in Metadata /\ hidden' \in Metadata /\ MetadataStays'
BY DEF NewRow, MetadataStays, Metadata

\* A request that learns something of the thread, and leaves it alone.
LEMMA Learn ==
    ASSUME IInv, NEW r \in Requests, op[r] # "history",
           NEW STATE q, q \in Request, req' = [req EXCEPT ![r] = q],
           q.pages = req[r].pages, q.step \notin Paging, UNCHANGED <<row, checkpoints, op, ghosts>>
    PROVE  IInv'
<1>1. checkpoints' \in Seq(Checkpoint) /\ Latest' \in Latest..MaxCheckpoints
  BY LatestType DEF IInv, TypeOK, Latest
<1> QED BY <1>1, OtherRequest DEF IInv, TypeOK, MetadataStays, ghosts

-----------------------------------------------------------------------------
(* One lemma for each action *)

LEMMA CreateStep == ASSUME IInv, NEW r \in Requests, Create(r) PROVE IInv'
<1>1. CASE row = None
  <2>1. Go(r, "insert") BY <1>1 DEF Create
  <2> QED BY <2>1, Quiet DEF Create, Steps
<1>2. CASE row # None
  <2>1. Go(r, "done") BY <1>2 DEF Create
  <2> QED BY <2>1, Quiet DEF Create, Steps
<1> QED BY <1>1, <1>2

LEMMA InsertThreadStep == ASSUME IInv, NEW r \in Requests, InsertThread(r) PROVE IInv'
<1>1. CASE row = None
  <2>1. Go(r, "done") /\ NewRow({}) BY <1>1 DEF InsertThread
  <2>2. {} \in Metadata BY DEF Metadata
  <2> QED BY <2>1, <2>2, NewRowEffect, Write DEF InsertThread, Steps
<1>2. CASE row # None BY <1>2, Quiet DEF InsertThread, Steps
<1> QED BY <1>1, <1>2

LEMMA PatchStep == ASSUME IInv, NEW r \in Requests, Patch(r) PROVE IInv'
<1>1. CASE row = None BY <1>1, Quiet DEF Patch, Steps
<1>2. CASE row # None
  <2> DEFINE q == [req[r] EXCEPT !.step = "commit", !.seen = row]
  <2>1. req[r] \in Request /\ row \in Metadata BY <1>2 DEF IInv, TypeOK
  <2>2. q \in Request /\ q.pages = req[r].pages /\ q.step \notin Paging BY <2>1 DEF Request, Steps
  <2>3. req' = [req EXCEPT ![r] = q] BY <1>2 DEF Patch, IInv, TypeOK
  <2> HIDE DEF q
  <2> QED BY <2>2, <2>3, Learn DEF Patch
<1> QED BY <1>1, <1>2

LEMMA CommitPatchStep == ASSUME IInv, NEW r \in Requests, CommitPatch(r) PROVE IInv'
<1>1. CASE row = None BY <1>1, Quiet DEF CommitPatch, Steps
<1>2. CASE row # None
  <2>1. End(r, "done") /\ WriteBack(r, {r}) BY <1>2 DEF CommitPatch
  <2>2. {r} \in Metadata BY DEF Metadata
  <2> QED BY <1>2, <2>1, <2>2, WriteBackEffect, Write DEF CommitPatch, Steps
<1> QED BY <1>1, <1>2

LEMMA PrepareStep == ASSUME IInv, NEW r \in Requests, Prepare(r) PROVE IInv'
<1> DEFINE q == [req[r] EXCEPT !.step = IF row = None THEN "insert" ELSE "commit",
                               !.seen = IF row = None THEN {} ELSE row]
<1>1. req[r] \in Request /\ row \in Metadata \cup {None} /\ {} \in Metadata
  BY DEF IInv, TypeOK, Metadata
<1>2. q \in Request /\ q.pages = req[r].pages /\ q.step \notin Paging BY <1>1 DEF Request, Steps
<1>3. req' = [req EXCEPT ![r] = q] BY DEF Prepare, IInv, TypeOK
<1> HIDE DEF q
<1> QED BY <1>2, <1>3, Learn DEF Prepare

LEMMA InsertWithRunStep == ASSUME IInv, NEW r \in Requests, InsertWithRun(r) PROVE IInv'
<1>1. CASE row = None
  <2>1. Go(r, "load") /\ NewRow({Graph}) BY <1>1 DEF InsertWithRun
  <2>2. {Graph} \in Metadata BY DEF Metadata
  <2> QED BY <2>1, <2>2, NewRowEffect, Write DEF InsertWithRun, Steps
<1>2. CASE row # None BY <1>2, Quiet DEF InsertWithRun, Steps
<1> QED BY <1>1, <1>2

LEMMA CommitRunStep == ASSUME IInv, NEW r \in Requests, CommitRun(r) PROVE IInv'
<1>1. CASE row = None BY <1>1, Quiet DEF CommitRun, Steps
<1>2. CASE row # None
  <2> DEFINE q == [req[r] EXCEPT !.step = "load", !.seen = {}]
  <2>1. req[r] \in Request /\ {} \in Metadata BY DEF IInv, TypeOK, Metadata
  <2>2. q \in Request /\ q.pages = req[r].pages /\ q.step \notin Paging BY <2>1 DEF Request, Steps
  <2>3. req' = [req EXCEPT ![r] = q] BY <1>2 DEF CommitRun, IInv, TypeOK
  <2>4. WriteBack(r, {Graph}) /\ {Graph} \in Metadata BY <1>2 DEF CommitRun, Metadata
  <2>5. checkpoints' \in Seq(Checkpoint) /\ Latest' \in Latest..MaxCheckpoints
    BY <2>4, LatestType DEF IInv, TypeOK, Latest, WriteBack
  <2> HIDE DEF q
  <2> QED BY <1>2, <2>2, <2>3, <2>4, <2>5, WriteBackEffect, OtherRequest DEF CommitRun
<1> QED BY <1>1, <1>2

\* A request that needs the graph goes on, is answered without it, or fails.
LEMMA FindGraphStep ==
    ASSUME IInv, NEW r \in Requests, op[r] # "history", NEW next \in Steps, next \notin Paging,
           FindGraph(r, next, End(r, "error")), UNCHANGED <<row, checkpoints, op, ghosts>>
    PROVE  IInv'
<1>1. Go(r, next) \/ End(r, "error") BY DEF FindGraph
<1> QED BY <1>1, Quiet DEF Steps

LEMMA UpdateStateStep == ASSUME IInv, NEW r \in Requests, UpdateState(r) PROVE IInv'
BY FindGraphStep DEF UpdateState, Steps

LEMMA GetStateAtStep == ASSUME IInv, NEW r \in Requests, GetStateAt(r) PROVE IInv'
BY FindGraphStep DEF GetStateAt, Steps

LEMMA GetStateStep == ASSUME IInv, NEW r \in Requests, GetState(r) PROVE IInv'
<1>1. CASE row # None /\ Graph \notin row
  <2> DEFINE q == [req[r] EXCEPT !.step = "done", !.got = "empty"]
  <2>1. req[r] \in Request BY DEF IInv, TypeOK
  <2>2. q \in Request /\ q.pages = req[r].pages /\ q.step \notin Paging BY <2>1 DEF Request, Steps
  <2>3. req' = [req EXCEPT ![r] = q] BY <1>1 DEF GetState, FindGraph, IInv, TypeOK
  <2> HIDE DEF q
  <2> QED BY <2>2, <2>3, Learn DEF GetState
<1>2. CASE ~(row # None /\ Graph \notin row)
  <2>1. Go(r, "read") \/ End(r, "error") BY <1>2 DEF GetState, FindGraph
  <2> QED BY <2>1, Quiet DEF GetState, Steps
<1> QED BY <1>1, <1>2

LEMMA ReadStateStep == ASSUME IInv, NEW r \in Requests, ReadState(r) PROVE IInv'
<1> DEFINE q == [req[r] EXCEPT !.step = "done", !.got = IF Latest = 0 THEN "empty" ELSE "state"]
<1>1. req[r] \in Request BY DEF IInv, TypeOK
<1>2. q \in Request /\ q.pages = req[r].pages /\ q.step \notin Paging BY <1>1 DEF Request, Steps
<1>3. req' = [req EXCEPT ![r] = q] BY DEF ReadState, IInv, TypeOK
<1>4. op[r] # "history" BY DEF ReadState, IInv, Paged
<1> HIDE DEF q
<1> QED BY <1>2, <1>3, <1>4, Learn DEF ReadState

LEMMA LoadStep == ASSUME IInv, NEW r \in Requests, Load(r) PROVE IInv'
<1>1. PICK base \in Bases(r) :
         req' = [req EXCEPT ![r].step = "put", ![r].base = base, ![r].since = Latest]
  BY DEF Load
<1> DEFINE q == [req[r] EXCEPT !.step = "put", !.base = base, !.since = Latest]
<1>2. req[r] \in Request /\ base \in 0..MaxCheckpoints /\ Latest \in 0..MaxCheckpoints
  BY LatestType DEF IInv, TypeOK, Bases
<1>3. q \in Request /\ q.pages = req[r].pages /\ q.step \notin Paging BY <1>2 DEF Request, Steps
<1>4. req' = [req EXCEPT ![r] = q] BY <1>1 DEF IInv, TypeOK
<1>5. op[r] # "history" BY DEF Load, IInv, Paged
<1> HIDE DEF q
<1> QED BY <1>3, <1>4, <1>5, Learn DEF Load

LEMMA EndRunStep == ASSUME IInv, NEW r \in Requests, EndRun(r) PROVE IInv'
BY Quiet DEF EndRun, Steps

LEMMA DeleteThreadStep == ASSUME IInv, NEW r \in Requests, DeleteThread(r) PROVE IInv'
<1>1. Go(r, "error") \/ Go(r, "done") BY DEF DeleteThread
<1>2. row' = None /\ {} \in Metadata BY DEF DeleteThread, Metadata
<1> QED BY <1>1, <1>2, Write DEF DeleteThread, Steps, MetadataStays

LEMMA PutStep == ASSUME IInv, NEW r \in Requests, Put(r) PROVE IInv'
<1> DEFINE new == [parent |-> req[r].base, by |-> r, since |-> req[r].since]
<1>1. req[r] \in Request /\ checkpoints \in Seq(Checkpoint) /\ Latest \in 0..MaxCheckpoints
  BY LatestType DEF IInv, TypeOK
<1>2. new \in Checkpoint BY <1>1 DEF Request, Checkpoint
<1>3. checkpoints' = Append(checkpoints, new) BY DEF Put
<1> HIDE DEF new
<1>4. checkpoints' \in Seq(Checkpoint) /\ Latest' = Latest + 1
  BY <1>1, <1>2, <1>3, AppendProperties DEF Latest
<1>5. Latest' \in Latest..MaxCheckpoints /\ Latest + 1 \in 0..MaxCheckpoints
  BY <1>1, <1>4 DEF Put
<1>6. /\ op[r] # "history" /\ UNCHANGED op
      /\ row' \in Metadata \cup {None} /\ committed' \in Metadata /\ hidden' \in Metadata
      /\ MetadataStays'
  BY DEF Put, IInv, TypeOK, Paged, MetadataStays, ghosts
<1>7. CASE op[r] \in {"run", "rerun"}
  <2> DEFINE q == [req[r] EXCEPT !.base = Latest + 1]
  <2>1. q \in Request /\ q.pages = req[r].pages /\ q.step \notin Paging
    BY <1>1, <1>5 DEF Request, Put
  <2>2. req' = [req EXCEPT ![r] = q] BY <1>7 DEF Put, IInv, TypeOK
  <2> HIDE DEF q
  <2> QED BY <1>4, <1>5, <1>6, <2>1, <2>2, OtherRequest
<1>8. CASE op[r] \notin {"run", "rerun"}
  <2> DEFINE q == [req[r] EXCEPT !.step = "done", !.seen = {}, !.base = 0, !.since = 0]
  <2>1. End(r, "done") BY <1>8 DEF Put
  <2>2. req' = [req EXCEPT ![r] = q] /\ q \in Request /\ q.pages = req[r].pages /\ q.step = "done"
    BY <2>1, EndEffect DEF IInv, Steps
  <2> HIDE DEF q
  <2> QED BY <1>4, <1>5, <1>6, <2>2, OtherRequest
<1> QED BY <1>7, <1>8

-----------------------------------------------------------------------------
(* Reading the history *)

LEMMA Reader ==
    ASSUME IInv, NEW r \in Requests, NEW STATE q, q \in Request, req' = [req EXCEPT ![r] = q],
           UNCHANGED <<row, checkpoints, op, ghosts>>, Paged(r)'
    PROVE  IInv'
<1>1. TypeOK' BY DEF IInv, TypeOK, ghosts
<1>2. ASSUME NEW s \in Requests, s # r PROVE Paged(s)'
  BY <1>2 DEF IInv, TypeOK, Paged, Latest
<1> QED BY <1>1, <1>2 DEF IInv, MetadataStays, ghosts

\* The paging ends: with an error, or with a page nobody looked for.
LEMMA PagingEnds ==
    ASSUME IInv, NEW r \in Requests, op[r] = "history", Unseen(r) \/ End(r, "error"),
           UNCHANGED <<row, checkpoints, op, ghosts>>
    PROVE  IInv'
<1>1. req[r] \in Request /\ Paged(r) BY DEF IInv, TypeOK
<1>2. CASE Unseen(r)
  <2> DEFINE q == [req[r] EXCEPT !.step = "done", !.blind = TRUE]
  <2>1. q \in Request /\ q.pages = req[r].pages /\ q.step = "done" /\ q.blind
    BY <1>1 DEF Request, Steps
  <2>2. req' = [req EXCEPT ![r] = q] BY <1>2 DEF Unseen, IInv, TypeOK
  <2> HIDE DEF q
  <2>3. req'[r] = q BY <2>2 DEF IInv, TypeOK
  <2>4. Paged(r)' BY <1>1, <2>1, <2>3 DEF Paged
  <2> QED BY <2>1, <2>2, <2>4, Reader
<1>3. CASE End(r, "error")
  <2> DEFINE q == [req[r] EXCEPT !.step = "error", !.seen = {}, !.base = 0, !.since = 0]
  <2>1. req' = [req EXCEPT ![r] = q] /\ q \in Request /\ q.pages = req[r].pages /\ q.step = "error"
    BY <1>3, EndEffect DEF IInv, Steps
  <2> HIDE DEF q
  <2>2. req'[r] = q BY <2>1 DEF IInv, TypeOK
  <2>3. Paged(r)' BY <1>1, <2>1, <2>2 DEF Paged
  <2> QED BY <2>1, <2>3, Reader
<1> QED BY <1>2, <1>3

LEMMA PageFailsStep == ASSUME IInv, NEW r \in Requests, PageFails(r) PROVE IInv'
<1>1. op[r] = "history" BY DEF PageFails, IInv, Paged
<1> QED BY <1>1, PagingEnds DEF PageFails

LEMMA GetHistoryStep == ASSUME IInv, NEW r \in Requests, GetHistory(r) PROVE IInv'
<1>1. req[r] \in Request /\ Latest \in 0..MaxCheckpoints /\ Paged(r) /\ req[r].since \in Nat
  BY LatestType DEF IInv, TypeOK, Request
<1>2. CASE row = None \/ Graph \notin row
  <2>1. Unseen(r) \/ End(r, "error") BY <1>2 DEF GetHistory
  <2> QED BY <2>1, PagingEnds DEF GetHistory
<1>3. CASE row # None /\ Graph \in row
  <2> DEFINE q == [req[r] EXCEPT !.step = "fetch",
                                 !.since = IF req[r].step = "new" THEN Latest ELSE req[r].since]
  <2>1. /\ q \in Request /\ q.pages = req[r].pages /\ q.step = "fetch"
        /\ q.since = IF req[r].step = "new" THEN Latest ELSE req[r].since
    BY <1>1 DEF Request, Steps
  <2>2. req' = [req EXCEPT ![r] = q] BY <1>3 DEF GetHistory, IInv, TypeOK
  <2> HIDE DEF q
  <2>3. req'[r] = q /\ Latest' = Latest BY <2>2 DEF IInv, TypeOK, GetHistory, Latest
  <2>4. Paged(r)' BY <1>1, <2>1, <2>3 DEF Paged, GetHistory
  <2> QED BY <2>1, <2>2, <2>4, Reader DEF GetHistory
<1> QED BY <1>2, <1>3

\* Pages without gaps, and those that go on with n checkpoints from "from" down.
Falling(pages) == \A i \in 1..(Len(pages) - 1) : pages[i] = pages[i + 1] + 1
Below(pages, from) == pages = <<>> \/ from = pages[Len(pages)] - 1
GoOn(pages, from, n, more) ==
    /\ more \in Seq(1..MaxCheckpoints) /\ Len(more) = Len(pages) + n
    /\ \A i \in 1..(Len(pages) + n) :
          more[i] = IF i <= Len(pages) THEN pages[i] ELSE from + 1 - (i - Len(pages))
First(pages, from) == IF pages = <<>> THEN from ELSE pages[1]

\* A page that begins below the last of those before it continues them.
LEMMA Continued ==
    ASSUME NEW pages \in Seq(1..MaxCheckpoints), NEW from \in 0..MaxCheckpoints, NEW n \in 1..from,
           NEW more, Falling(pages), Below(pages, from), GoOn(pages, from, n, more)
    PROVE  more # <<>> /\ Falling(more) /\ more[1] = First(pages, from)
<1> DEFINE m == Len(pages)
<1>1. m \in Nat /\ n \in Nat \ {0} /\ from \in Nat /\ (pages = <<>> <=> m = 0) OBVIOUS
<1>2. /\ Len(more) = m + n
      /\ \A i \in 1..(m + n) : more[i] = IF i <= m THEN pages[i] ELSE from + 1 - (i - m)
  BY DEF GoOn
<1>3. m > 0 => from = pages[m] - 1 /\ pages[m] \in Nat BY <1>1 DEF Below
<1>4. \A i \in 1..(m - 1) : pages[i] = pages[i + 1] + 1 BY DEF Falling
<1> HIDE DEF m
<1>5. ASSUME NEW i \in 1..(m + n - 1) PROVE more[i] = more[i + 1] + 1
  <2>0. i \in 1..(m + n) /\ i + 1 \in 1..(m + n) BY <1>1
  <2>1. CASE i < m
    <3>1. more[i] = pages[i] /\ more[i + 1] = pages[i + 1] BY <1>1, <1>2, <2>0, <2>1
    <3>2. i \in 1..(m - 1) BY <1>1, <2>1
    <3>3. pages[i] = pages[i + 1] + 1 BY <1>4, <3>2
    <3> QED BY <3>1, <3>3
  <2>2. CASE i = m
    <3>1. more[i] = pages[m] /\ more[i + 1] = from BY <1>1, <1>2, <2>0, <2>2
    <3>2. m > 0 BY <1>1, <2>2
    <3>3. from = pages[m] - 1 /\ pages[m] \in Nat BY <1>3, <3>2
    <3>4. pages[m] = from + 1 BY <3>3
    <3> QED BY <3>1, <3>4, Zenon
  <2>3. CASE i > m
    <3>1. more[i] = from + 1 - (i - m) /\ more[i + 1] = from + 1 - (i + 1 - m)
      BY <1>1, <1>2, <2>0, <2>3
    <3> QED BY <1>1, <3>1
  <2> QED BY <1>1, <2>1, <2>2, <2>3
<1>6. more[1] = IF m = 0 THEN from ELSE pages[1]
  <2>1. 1 \in 1..(m + n) BY <1>1
  <2> QED BY <1>1, <1>2, <2>1
<1> QED BY <1>1, <1>2, <1>5, <1>6 DEF Falling, First

\* A page goes on where those before it end.
LEMMA GetPageStep == ASSUME IInv, NEW r \in Requests, GetPage(r) PROVE IInv'
<1> DEFINE pages == req[r].pages
<1>1. /\ req[r] \in Request /\ Latest \in 0..MaxCheckpoints
      /\ op[r] = "history" /\ req[r].step = "fetch" /\ Paged(r)
  BY LatestType DEF IInv, TypeOK, Paged, GetPage
<1>2. pages \in Seq(1..MaxCheckpoints) /\ Len(pages) \in Nat /\ req[r].since \in 0..MaxCheckpoints
  BY <1>1 DEF Request, Pages
<1>3. pages # <<>> => Len(pages) \in 1..Len(pages) /\ pages[Len(pages)] \in 1..MaxCheckpoints
  BY <1>2
<1>4. Before(r) \in 0..MaxCheckpoints BY <1>1, <1>3 DEF Before
<1>5. PICK limit \in Limits :
         LET from == Before(r)
             n == IF limit < from THEN limit ELSE from
             page == [i \in 1..n |-> from + 1 - i]
         IN  IF n = 0 THEN Go(r, "done")
             ELSE req' = [req EXCEPT ![r].step = "page", ![r].pages = @ \o page]
  BY DEF GetPage
<1> DEFINE from == Before(r)
           n == IF limit < from THEN limit ELSE from
           page == [i \in 1..n |-> from + 1 - i]
<1>6. limit \in Nat \ {0} OBVIOUS
<1>7. n \in 0..from /\ (n = 0 => from = 0) BY <1>4, <1>6
<1>8. CASE n = 0
  <2> DEFINE q == [req[r] EXCEPT !.step = "done"]
  <2>1. Go(r, "done") BY <1>5, <1>8
  <2>2. req' = [req EXCEPT ![r] = q] /\ q \in Request /\ q.pages = pages /\ q.step = "done"
    BY <2>1, GoEffect DEF IInv, Steps
  <2>3. q.since = req[r].since BY <1>1 DEF Request
  <2> HIDE DEF q
  <2>4. req'[r] = q /\ op' = op BY <2>2 DEF IInv, TypeOK, GetPage
  <2>5. req[r].since > 0 => pages # <<>> /\ pages[1] >= req[r].since /\ pages[Len(pages)] = 1
    BY <1>1, <1>2, <1>3, <1>7, <1>8 DEF Paged, Before
  <2>6. Paged(r)' BY <1>1, <2>2, <2>3, <2>4, <2>5 DEF Paged
  <2> QED BY <2>2, <2>6, Reader DEF GetPage
<1>9. CASE n # 0
  <2> DEFINE more == pages \o page
             q == [req[r] EXCEPT !.step = "page", !.pages = more]
  <2>1. Below(pages, from) BY DEF Before, Below
  <2>2. Falling(pages) BY <1>1 DEF Paged, Falling
  <2>3. more \in Seq(1..MaxCheckpoints) /\ more # <<>> /\ Falling(more) /\ more[1] = First(pages, from)
    <3> n \in 1..from BY <1>4, <1>7, <1>9
    <3> HIDE DEF n
    <3>1. pages \in Seq(1..MaxCheckpoints) /\ from \in 0..MaxCheckpoints BY <1>2, <1>4
    <3> HIDE DEF from, pages
    <3>2. /\ page \in Seq(1..MaxCheckpoints) /\ Len(page) = n
          /\ \A i \in 1..n : page[i] = from + 1 - i
      BY <3>1
    <3> HIDE DEF page
    <3>3. /\ more \in Seq(1..MaxCheckpoints) /\ Len(more) = Len(pages) + n
          /\ \A i \in 1..(Len(pages) + n) : more[i] = IF i <= Len(pages) THEN pages[i] ELSE page[i - Len(pages)]
      <4>1. more \in Seq(1..MaxCheckpoints) BY <3>1, <3>2, ConcatProperties, ZenonT(40)
      <4>2. Len(more) = Len(pages) + Len(page) BY <3>1, <3>2, ConcatProperties, ZenonT(40)
      <4>3. \A i \in 1..(Len(pages) + Len(page)) :
               more[i] = IF i <= Len(pages) THEN pages[i] ELSE page[i - Len(pages)]
        BY <3>1, <3>2, ConcatProperties, ZenonT(40)
      <4> QED BY <3>2, <4>1, <4>2, <4>3, Zenon
    <3>4. GoOn(pages, from, n, more)
      <4> SUFFICES ASSUME NEW i \in 1..(Len(pages) + n), ~(i <= Len(pages))
                   PROVE  more[i] = from + 1 - (i - Len(pages))
        BY <3>3 DEF GoOn
      <4>1. Len(pages) \in Nat /\ i - Len(pages) \in 1..n BY <3>1
      <4>2. more[i] = page[i - Len(pages)] BY <3>3
      <4> QED BY <3>2, <4>1, <4>2
    <3> HIDE DEF more
    <3>5. n \in 1..from OBVIOUS
    <3> QED BY <2>1, <2>2, <3>1, <3>3, <3>4, <3>5, Continued, Zenon
  <2> HIDE DEF more
  <2>4. q \in Request /\ q.pages = more /\ q.step = "page" /\ q.since = req[r].since
    BY <1>1, <2>3 DEF Request, Pages, Steps
  <2>5. req' = [req EXCEPT ![r] = q] BY <1>5, <1>9 DEF IInv, TypeOK, more
  <2> HIDE DEF q
  <2>6. req'[r] = q /\ op' = op /\ Latest' = Latest BY <2>5 DEF IInv, TypeOK, GetPage, Latest
  <2>7. more[1] >= req[r].since /\ req[r].since <= Latest
    BY <1>1, <1>2, <2>3 DEF Before, Paged, First
  <2>8. Paged(r)' BY <1>1, <2>3, <2>4, <2>6, <2>7 DEF Paged, Falling
  <2> QED BY <2>4, <2>5, <2>8, Reader DEF GetPage
<1> QED BY <1>8, <1>9

-----------------------------------------------------------------------------

LEMMA NextInv == IInv /\ [Next]_vars => IInv'
<1> SUFFICES ASSUME IInv, [Next]_vars PROVE IInv' OBVIOUS
<1>1. ASSUME NEW r \in Requests, Create(r) \/ InsertThread(r) \/ Patch(r) \/ CommitPatch(r) PROVE IInv'
  BY <1>1, CreateStep, InsertThreadStep, PatchStep, CommitPatchStep
<1>2. ASSUME NEW r \in Requests, Prepare(r) \/ InsertWithRun(r) \/ CommitRun(r) \/ UpdateState(r) PROVE IInv'
  BY <1>2, PrepareStep, InsertWithRunStep, CommitRunStep, UpdateStateStep
<1>3. ASSUME NEW r \in Requests, Load(r) \/ Put(r) \/ EndRun(r) \/ DeleteThread(r) PROVE IInv'
  BY <1>3, LoadStep, PutStep, EndRunStep, DeleteThreadStep
<1>4. ASSUME NEW r \in Requests, \/ GetState(r) \/ GetStateAt(r) \/ ReadState(r)
                                \/ GetHistory(r) \/ GetPage(r) \/ PageFails(r)
      PROVE IInv'
  BY <1>4, GetStateStep, GetStateAtStep, ReadStateStep, GetHistoryStep, GetPageStep, PageFailsStep
<1>5. CASE UNCHANGED vars
  BY <1>5 DEF IInv, TypeOK, MetadataStays, Paged, Latest, vars, ghosts
<1> QED BY <1>1, <1>2, <1>3, <1>4, <1>5 DEF Next

LEMMA Invariance == Spec => []IInv
BY InitInv, NextInv, PTL DEF Spec

-----------------------------------------------------------------------------
(* Where a checkpoint comes from *)

\* Every checkpoint was made from an earlier one: its writer's last or a later one
\* and, unless its writer asked for another, not one older than what there was when
\* its writer began.
Grown == \A i \in DOMAIN checkpoints : LET c == checkpoints[i] IN
    /\ c.parent < i
    /\ ~Asks(c.by) => c.since <= c.parent
    /\ \A u \in 1..(i - 1) : checkpoints[u].by = c.by => u <= c.parent

\* Until it has loaded the state a request has put nothing; then it goes on from the
\* last it has put.
Early == {"new", "insert", "commit", "load"}
GoesOn(r) ==
    /\ req[r].step \in Early => \A u \in DOMAIN checkpoints : checkpoints[u].by # r
    /\ req[r].step = "put" =>
          /\ req[r].base <= Latest
          /\ ~Asks(r) => req[r].since <= req[r].base
          /\ \A u \in DOMAIN checkpoints : checkpoints[u].by = r => u <= req[r].base

Lineage == Grown /\ \A r \in Requests : GoesOn(r)

\* The types of a checkpoint's parts.
LEMMA CheckpointType ==
    TypeOK => /\ Latest \in Nat /\ DOMAIN checkpoints = 1..Latest
              /\ \A i \in 1..Latest :
                    /\ checkpoints[i].parent \in Nat /\ checkpoints[i].since \in Nat
                    /\ checkpoints[i].by \in Requests
<1> SUFFICES ASSUME TypeOK PROVE
      /\ Latest \in Nat /\ DOMAIN checkpoints = 1..Latest
      /\ \A i \in 1..Latest :
            /\ checkpoints[i].parent \in Nat /\ checkpoints[i].since \in Nat
            /\ checkpoints[i].by \in Requests
  OBVIOUS
<1>1. checkpoints \in Seq(Checkpoint) BY DEF TypeOK
<1>2. Latest \in Nat /\ DOMAIN checkpoints = 1..Latest BY <1>1 DEF Latest
<1>3. ASSUME NEW i \in 1..Latest PROVE checkpoints[i] \in Checkpoint BY <1>1, <1>2 DEF Latest
<1>4. ASSUME NEW c \in Checkpoint PROVE c.parent \in Nat /\ c.since \in Nat /\ c.by \in Requests
  BY DEF Checkpoint
<1> QED BY <1>2, <1>3, <1>4

LEMMA ParentBefore ==
    ASSUME TypeOK, Grown, NEW i \in 1..Latest PROVE checkpoints[i].parent \in 0..(i - 1)
<1>1. checkpoints[i].parent < i BY CheckpointType DEF Grown
<1> QED BY <1>1, CheckpointType

LEMMA InitLineage == Init => Lineage
<1> SUFFICES ASSUME Init PROVE Lineage OBVIOUS
<1>1. DOMAIN checkpoints = {} BY DEF Init
<1>2. \A r \in Requests : req[r].step = "new" BY DEF Init, Idle
<1> QED BY <1>1, <1>2 DEF Lineage, Grown, GoesOn

\* Every step but Load and Put: the checkpoints stay, and the request that moves
\* does not come to put one.
Elsewhere(r) ==
    /\ UNCHANGED <<checkpoints, op>>
    /\ \A s \in Requests : s # r => req'[s] = req[s]
    /\ req'[r].step # "put" /\ (req'[r].step \in Early => req[r].step \in Early)

LEMMA ElsewhereLineage ==
    ASSUME Lineage, NEW r \in Requests, Elsewhere(r) PROVE Lineage'
<1>1. Grown' BY DEF Lineage, Grown, Elsewhere, Asks
<1>2. GoesOn(r)' BY DEF Lineage, GoesOn, Elsewhere
<1>3. ASSUME NEW s \in Requests, s # r PROVE GoesOn(s)'
  BY <1>3 DEF Lineage, GoesOn, Elsewhere, Latest, Asks
<1> QED BY <1>1, <1>2, <1>3 DEF Lineage

\* A request that goes to a step, or ends.
LEMMA Moves ==
    ASSUME TypeOK, NEW r \in Requests, NEW step \in Steps \ {"put"}, Go(r, step) \/ End(r, step),
           step \in Early => req[r].step \in Early, UNCHANGED <<checkpoints, op>>
    PROVE  Elsewhere(r)
<1>1. req[r] \in Request BY DEF TypeOK
<1>2. req'[r].step = step
  <2>1. CASE Go(r, step) BY <1>1, <2>1 DEF TypeOK, Go, Request
  <2>2. CASE End(r, step) BY <1>1, <2>2 DEF TypeOK, End, Request
  <2> QED BY <2>1, <2>2
<1>3. \A s \in Requests : s # r => req'[s] = req[s] BY DEF TypeOK, Go, End
<1> QED BY <1>2, <1>3 DEF Elsewhere

LEMMA ThreadMoves ==
    ASSUME TypeOK, NEW r \in Requests,
           Create(r) \/ InsertThread(r) \/ Patch(r) \/ CommitPatch(r) \/ DeleteThread(r)
    PROVE  Elsewhere(r)
<1>1. CASE Create(r)
  <2>1. Go(r, "insert") \/ Go(r, "done") BY <1>1 DEF Create
  <2> QED BY <1>1, <2>1, Moves DEF Create, Steps, Early
<1>2. CASE InsertThread(r)
  <2>1. Go(r, "done") \/ Go(r, "error") BY <1>2 DEF InsertThread
  <2> QED BY <1>2, <2>1, Moves DEF InsertThread, Steps, Early
<1>3. CASE Patch(r)
  <2>1. CASE row = None BY <1>3, <2>1, Moves DEF Patch, Steps, Early
  <2>2. CASE row # None BY <1>3, <2>2 DEF Patch, Elsewhere, TypeOK, Request, Early
  <2> QED BY <2>1, <2>2
<1>4. CASE CommitPatch(r)
  <2>1. End(r, "error") \/ End(r, "done") BY <1>4 DEF CommitPatch
  <2>2. UNCHANGED <<checkpoints, op>> BY <1>4 DEF CommitPatch, WriteBack
  <2> QED BY <2>1, <2>2, Moves DEF Steps, Early
<1>5. CASE DeleteThread(r)
  <2>1. Go(r, "error") \/ Go(r, "done") BY <1>5 DEF DeleteThread
  <2> QED BY <1>5, <2>1, Moves DEF DeleteThread, Steps, Early
<1> QED BY <1>1, <1>2, <1>3, <1>4, <1>5

LEMMA RunMoves ==
    ASSUME TypeOK, NEW r \in Requests,
           Prepare(r) \/ InsertWithRun(r) \/ CommitRun(r) \/ UpdateState(r) \/ EndRun(r)
    PROVE  Elsewhere(r)
<1>1. CASE Prepare(r) BY <1>1 DEF Prepare, Elsewhere, TypeOK, Request, Early
<1>2. CASE InsertWithRun(r)
  <2>1. Go(r, "load") \/ End(r, "error") BY <1>2 DEF InsertWithRun
  <2> QED BY <1>2, <2>1, Moves DEF InsertWithRun, Steps, Early
<1>3. CASE CommitRun(r)
  <2>1. CASE row = None BY <1>3, <2>1, Moves DEF CommitRun, Steps, Early
  <2>2. CASE row # None
    <3>1. UNCHANGED <<checkpoints, op>> BY <1>3, <2>2 DEF CommitRun, WriteBack
    <3>2. req' = [req EXCEPT ![r].step = "load", ![r].seen = {}] BY <1>3, <2>2 DEF CommitRun
    <3> QED BY <1>3, <3>1, <3>2 DEF CommitRun, Elsewhere, TypeOK, Request, Early
  <2> QED BY <2>1, <2>2
<1>4. CASE UpdateState(r)
  <2>1. Go(r, "load") \/ End(r, "error") BY <1>4 DEF UpdateState, FindGraph
  <2> QED BY <1>4, <2>1, Moves DEF UpdateState, Steps, Early
<1>5. CASE EndRun(r) BY <1>5, Moves DEF EndRun, Steps, Early
<1> QED BY <1>1, <1>2, <1>3, <1>4, <1>5

LEMMA ReadMoves ==
    ASSUME TypeOK, NEW r \in Requests,
           GetState(r) \/ GetStateAt(r) \/ ReadState(r) \/ GetHistory(r) \/ GetPage(r) \/ PageFails(r)
    PROVE  Elsewhere(r)
<1>1. CASE GetState(r)
  <2>1. CASE row # None /\ Graph \notin row
    BY <1>1, <2>1 DEF GetState, FindGraph, Elsewhere, TypeOK, Request, Early
  <2>2. CASE ~(row # None /\ Graph \notin row)
    <3>1. Go(r, "read") \/ End(r, "error") BY <1>1, <2>2 DEF GetState, FindGraph
    <3> QED BY <1>1, <3>1, Moves DEF GetState, Steps, Early
  <2> QED BY <2>1, <2>2
<1>2. CASE GetStateAt(r)
  <2>1. Go(r, "read") \/ End(r, "error") BY <1>2 DEF GetStateAt, FindGraph
  <2> QED BY <1>2, <2>1, Moves DEF GetStateAt, Steps, Early
<1>3. CASE ReadState(r) BY <1>3 DEF ReadState, Elsewhere, TypeOK, Request, Early
<1>4. CASE GetHistory(r)
  <2>1. CASE row = None BY <1>4, <2>1, Moves DEF GetHistory, Steps, Early
  <2>2. CASE row # None
    BY <1>4, <2>2 DEF GetHistory, Unseen, Elsewhere, TypeOK, Request, Early
  <2> QED BY <2>1, <2>2
<1>5. CASE GetPage(r)
  <2>1. CASE Go(r, "done") BY <1>5, <2>1, Moves DEF GetPage, Steps, Early
  <2>2. CASE ~Go(r, "done")
    <3>1. PICK more : req' = [req EXCEPT ![r].step = "page", ![r].pages = more] BY <1>5, <2>2 DEF GetPage
    <3> DEFINE q == [req[r] EXCEPT !.step = "page", !.pages = more]
    <3>2. req' = [req EXCEPT ![r] = q] BY <3>1 DEF TypeOK
    <3>3. q.step = "page" BY DEF TypeOK, Request
    <3> HIDE DEF q
    <3>4. /\ req'[r].step = "page"
          /\ \A t \in Requests : t # r => req'[t] = req[t]
      BY <3>2, <3>3 DEF TypeOK
    <3> QED BY <1>5, <3>4 DEF GetPage, Elsewhere, Early
  <2> QED BY <2>1, <2>2
<1>6. CASE PageFails(r)
  <2>1. CASE End(r, "error") BY <1>6, <2>1, Moves DEF PageFails, Steps, Early
  <2>2. CASE Unseen(r) BY <1>6, <2>2 DEF PageFails, Unseen, Elsewhere, TypeOK, Request, Early
  <2> QED BY <1>6, <2>1, <2>2 DEF PageFails
<1> QED BY <1>1, <1>2, <1>3, <1>4, <1>5, <1>6

LEMMA LoadLineage == ASSUME TypeOK, Lineage, NEW r \in Requests, Load(r) PROVE Lineage'
<1>1. PICK base \in Bases(r) :
         req' = [req EXCEPT ![r].step = "put", ![r].base = base, ![r].since = Latest]
  BY DEF Load
<1>2. Latest \in Nat BY LatestType
<1>3. /\ req'[r].step = "put" /\ req'[r].base = base /\ req'[r].since = Latest
      /\ \A s \in Requests : s # r => req'[s] = req[s]
  BY <1>1 DEF TypeOK, Request
<1>4. UNCHANGED <<checkpoints, op>> BY DEF Load
<1>5. Grown' BY <1>4 DEF Lineage, Grown, Asks
<1>6. \A u \in DOMAIN checkpoints : checkpoints[u].by # r BY DEF Lineage, GoesOn, Load, Early
<1>7. base <= Latest /\ (~Asks(r) => base = Latest) BY <1>2 DEF Bases
<1>8. GoesOn(r)' BY <1>2, <1>3, <1>4, <1>6, <1>7 DEF GoesOn, Latest, Asks, Early
<1>9. ASSUME NEW s \in Requests, s # r PROVE GoesOn(s)'
  BY <1>3, <1>4, <1>9 DEF Lineage, GoesOn, Latest, Asks
<1> QED BY <1>5, <1>8, <1>9 DEF Lineage

LEMMA PutLineage == ASSUME TypeOK, Lineage, NEW r \in Requests, Put(r) PROVE Lineage'
<1> DEFINE new == [parent |-> req[r].base, by |-> r, since |-> req[r].since]
<1>1. Latest \in Nat /\ req[r] \in Request /\ req[r].base \in Nat /\ req[r].since \in Nat
  BY LatestType DEF TypeOK, Request
<1>2. new.parent = req[r].base /\ new.by = r /\ new.since = req[r].since OBVIOUS
<1>3. checkpoints' = Append(checkpoints, new) BY DEF Put
<1> HIDE DEF new
<1>4. /\ DOMAIN checkpoints = 1..Latest /\ Latest' = Latest + 1 /\ DOMAIN checkpoints' = 1..(Latest + 1)
      /\ \A i \in 1..Latest : checkpoints'[i] = checkpoints[i]
      /\ checkpoints'[Latest + 1] = new
  BY <1>3 DEF TypeOK, Latest
<1>5. /\ req[r].step = "put" /\ req[r].base <= Latest
      /\ ~Asks(r) => req[r].since <= req[r].base
      /\ \A u \in 1..Latest : checkpoints[u].by = r => u <= req[r].base
  BY <1>4 DEF Lineage, GoesOn, Put
<1>6. op' = op BY DEF Put
<1>7. Grown'
  <2> DEFINE From(i) == LET c == checkpoints[i] IN
                /\ c.parent < i
                /\ ~Asks(c.by) => c.since <= c.parent
                /\ \A u \in 1..(i - 1) : checkpoints[u].by = c.by => u <= c.parent
  <2>1. ASSUME NEW i \in Nat, i = Latest + 1 PROVE From(i)'
    <3>1. /\ checkpoints'[i].parent = req[r].base /\ checkpoints'[i].by = r
          /\ checkpoints'[i].since = req[r].since
      BY <1>2, <1>4, <2>1
    <3>2. req[r].base < i /\ \A u \in 1..(i - 1) : u \in 1..Latest BY <1>1, <1>5, <2>1
    <3>3. \A u \in 1..(i - 1) : checkpoints'[u].by = r => u <= req[r].base
      BY <1>4, <1>5, <3>2
    <3>4. ~Asks(r) => req[r].since <= req[r].base BY <1>5
    <3> QED BY <1>6, <3>1, <3>2, <3>3, <3>4 DEF Asks
  <2>2. ASSUME NEW i \in 1..Latest PROVE From(i)'
    <3>1. \A u \in 1..(i - 1) : u \in 1..Latest BY <1>1
    <3>2. From(i) BY <1>4 DEF Lineage, Grown
    <3> QED BY <1>4, <1>6, <3>1, <3>2 DEF Asks
  <2>3. \A i \in DOMAIN checkpoints' : i \in 1..Latest \/ i = Latest + 1 BY <1>1, <1>4
  <2>4. ASSUME NEW i \in DOMAIN checkpoints' PROVE From(i)'
    <3>1. CASE i = Latest + 1 BY <1>1, <2>1, <3>1
    <3>2. CASE i \in 1..Latest BY <2>2, <3>2
    <3> QED BY <2>3, <3>1, <3>2
  <2> QED BY <2>4 DEF Grown
<1>10. ASSUME NEW s \in Requests, s # r, req'[s] = req[s] PROVE GoesOn(s)'
  <2>1. req[s].base \in Nat /\ GoesOn(s) BY DEF Lineage, TypeOK, Request
  <2>2. \A u \in DOMAIN checkpoints' : checkpoints'[u].by = s => u \in DOMAIN checkpoints /\ checkpoints[u].by = s
    BY <1>1, <1>2, <1>4, <1>10
  <2>3. req[s].base <= Latest => req[s].base <= Latest + 1 BY <1>1, <2>1
  <2> QED BY <1>4, <1>6, <1>10, <2>1, <2>2, <2>3 DEF GoesOn, Asks
<1>8. CASE op[r] \in {"run", "rerun"}
  <2>1. /\ req'[r].step = "put" /\ req'[r].base = Latest + 1 /\ req'[r].since = req[r].since
        /\ \A s \in Requests : s # r => req'[s] = req[s]
    BY <1>5, <1>8 DEF Put, TypeOK, Request
  <2>2. GoesOn(r)' BY <1>1, <1>4, <1>5, <1>6, <2>1 DEF GoesOn, Asks, Early
  <2>3. ASSUME NEW s \in Requests, s # r PROVE GoesOn(s)'
    BY <1>7, <2>1, <2>3, <1>10
  <2> QED BY <1>7, <2>2, <2>3 DEF Lineage
<1>9. CASE op[r] \notin {"run", "rerun"}
  <2>1. /\ req'[r].step = "done"
        /\ \A s \in Requests : s # r => req'[s] = req[s]
    <3>1. req' = [req EXCEPT ![r] = [@ EXCEPT !.step = "done", !.seen = {}, !.base = 0, !.since = 0]]
      BY <1>9 DEF Put, End
    <3> QED BY <1>1, <3>1 DEF TypeOK, Request
  <2>2. GoesOn(r)' BY <2>1 DEF GoesOn, Early
  <2>3. ASSUME NEW s \in Requests, s # r PROVE GoesOn(s)'
    BY <1>7, <2>1, <2>3, <1>10
  <2> QED BY <1>7, <2>2, <2>3 DEF Lineage
<1> QED BY <1>8, <1>9

LEMMA NextLineage == TypeOK /\ Lineage /\ [Next]_vars => Lineage'
<1> SUFFICES ASSUME TypeOK, Lineage, [Next]_vars PROVE Lineage' OBVIOUS
<1>1. CASE UNCHANGED vars
  BY <1>1 DEF vars, Lineage, Grown, GoesOn, Latest, Asks
<1>2. ASSUME NEW r \in Requests, Load(r) \/ Put(r) PROVE Lineage'
  BY <1>2, LoadLineage, PutLineage
<1>3. ASSUME NEW r \in Requests,
             \/ Create(r) \/ InsertThread(r) \/ Patch(r) \/ CommitPatch(r) \/ DeleteThread(r)
             \/ Prepare(r) \/ InsertWithRun(r) \/ CommitRun(r) \/ UpdateState(r) \/ EndRun(r)
             \/ GetState(r) \/ GetStateAt(r) \/ ReadState(r) \/ GetHistory(r) \/ GetPage(r) \/ PageFails(r)
      PROVE Lineage'
  <2>1. Elsewhere(r) BY <1>3, ThreadMoves, RunMoves, ReadMoves
  <2> QED BY <2>1, ElsewhereLineage
<1> QED BY <1>1, <1>2, <1>3 DEF Next

-----------------------------------------------------------------------------
(* What a checkpoint is made of *)

\* Induction over the numbers, without an operator as a parameter: a set of them has
\* a least one.
LEMMA Least == ASSUME NEW T \in SUBSET Nat, T # {} PROVE \E m \in T : \A n \in T : m <= n
<1> DEFINE R == OpToRel(<, Nat)
<1>1. \A m, n \in Nat : <<n, m>> \in R <=> n < m BY DEF OpToRel
<1>2. IsWellFoundedOn(R, Nat) BY NatLessThanWellFounded
<1> HIDE DEF R
<1>3. PICK m \in T : \A n \in T : <<n, m>> \notin R BY <1>2, WFMin
<1>4. ASSUME NEW n \in T PROVE m <= n
  <2>1. m \in Nat /\ n \in Nat OBVIOUS
  <2>2. ~(n < m) BY <1>1, <1>3, <2>1
  <2> QED BY <2>1, <2>2
<1> QED BY <1>4

\* The functions on 0..n that the definition of Ancestors describes.
Lines(f, n) == f = [j \in 0..n |-> IF j = 0 THEN {} ELSE {j} \cup f[checkpoints[j].parent]]

LEMMA LinesAgree ==
    ASSUME TypeOK, Grown, NEW n \in 0..Latest, NEW k \in 0..n, NEW f, NEW g, Lines(f, n), Lines(g, k)
    PROVE  \A j \in 0..k : f[j] = g[j]
<1> DEFINE T == {j \in 0..k : f[j] # g[j]}
<1>1. Latest \in Nat BY LatestType
<1>2. SUFFICES ASSUME T # {} PROVE FALSE OBVIOUS
<1>3. T \in SUBSET Nat BY <1>1
<1>4. PICK m \in T : \A j \in T : m <= j
  <2> HIDE DEF T
  <2> QED BY <1>2, <1>3, Least
<1>5. m # 0 /\ m \in 1..Latest /\ m \in 0..n /\ m \in 0..k BY <1>1 DEF Lines
<1>6. checkpoints[m].parent \in 0..(m - 1)
  BY <1>5, ParentBefore
<1>7. f[checkpoints[m].parent] = g[checkpoints[m].parent] BY <1>1, <1>4, <1>5, <1>6
<1>8. f[m] = g[m]
  <2>1. f[m] = {m} \cup f[checkpoints[m].parent] BY <1>5 DEF Lines
  <2>2. g[m] = {m} \cup g[checkpoints[m].parent] BY <1>5 DEF Lines
  <2> QED BY <1>7, <2>1, <2>2
<1> QED BY <1>8

LEMMA LinesExist ==
    ASSUME TypeOK, Grown, NEW n \in 0..Latest PROVE \E f : Lines(f, n)
<1> DEFINE T == {k \in 0..Latest : ~\E f : Lines(f, k)}
<1>1. Latest \in Nat BY LatestType
<1>2. SUFFICES ASSUME T # {} PROVE FALSE OBVIOUS
<1>3. T \in SUBSET Nat BY <1>1
<1>4. PICK m \in T : \A k \in T : m <= k
  <2> HIDE DEF T
  <2> QED BY <1>2, <1>3, Least
<1>5. CASE m = 0
  <2>1. Lines([j \in 0..0 |-> {}], 0) BY DEF Lines
  <2> QED BY <1>5, <2>1
<1>6. CASE m # 0
  <2>1. m \in 1..Latest /\ m - 1 \in 0..Latest BY <1>1, <1>6
  <2>2. m - 1 \notin T BY <1>1, <1>4, <2>1
  <2>3. PICK f : Lines(f, m - 1) BY <2>1, <2>2
  <2>4. checkpoints[m].parent \in 0..(m - 1)
    BY <2>1, ParentBefore
  <2> DEFINE g == [j \in 0..m |-> IF j = m THEN {m} \cup f[checkpoints[m].parent] ELSE f[j]]
  <2>5. ASSUME NEW j \in 0..m PROVE g[j] = IF j = 0 THEN {} ELSE {j} \cup g[checkpoints[j].parent]
    <3>1. CASE j = m BY <1>6, <2>1, <2>4, <3>1
    <3>2. CASE j # m
      <4>1. j \in 0..(m - 1) BY <2>1, <3>2
      <4>2. j # 0 => checkpoints[j].parent \in 0..(j - 1)
        <5>1. j # 0 => j \in 1..Latest BY <1>1, <2>1, <4>1
        <5> QED BY <5>1, ParentBefore
      <4>3. j # 0 => g[checkpoints[j].parent] = f[checkpoints[j].parent] BY <2>1, <4>1, <4>2
      <4> QED BY <2>3, <3>2, <4>1, <4>3 DEF Lines
    <3> QED BY <3>1, <3>2
  <2>6. Lines(g, m)
    <3>1. g = [j \in 0..m |-> g[j]] OBVIOUS
    <3> HIDE DEF g
    <3> QED BY <2>5, <3>1 DEF Lines
  <2> QED BY <2>6
<1> QED BY <1>5, <1>6

\* A checkpoint's ancestors are itself and those of its parent.
LEMMA AncestorsOfParent ==
    ASSUME TypeOK, Grown, NEW i \in DOMAIN checkpoints
    PROVE  /\ i \in Ancestors[i]
           /\ checkpoints[i].parent # 0 => Ancestors[checkpoints[i].parent] \subseteq Ancestors[i]
<1> DEFINE Line(k) == CHOOSE f : Lines(f, k)
<1>1. Latest \in Nat /\ DOMAIN checkpoints = 1..Latest BY CheckpointType
<1>2. ASSUME NEW k \in 1..Latest PROVE Lines(Line(k), k) BY <1>1, LinesExist
<1>3. ASSUME NEW k \in 1..Latest PROVE Ancestors[k] = Line(k)[k]
  BY <1>1 DEF Ancestors, Lines
<1> DEFINE p == checkpoints[i].parent
<1>4. p \in 0..(i - 1) BY <1>1, ParentBefore
<1> HIDE DEF Line
<1>5. Line(i)[i] = {i} \cup Line(i)[p] BY <1>1, <1>2 DEF Lines
<1>6. ASSUME p # 0 PROVE Ancestors[p] \subseteq Ancestors[i]
  <2> HIDE DEF p
  <2>1. p \in 1..Latest /\ p \in 0..i /\ i \in 0..Latest /\ p \in 0..p BY <1>1, <1>4, <1>6
  <2>2. Lines(Line(p), p) /\ Lines(Line(i), i) BY <1>1, <1>2, <2>1
  <2>3. Line(i)[p] = Line(p)[p] BY <2>1, <2>2, LinesAgree
  <2> QED BY <1>1, <1>3, <1>5, <2>1, <2>3
<1> QED BY <1>1, <1>3, <1>5, <1>6

LEMMA Sticks == TypeOK /\ Grown => StateSticks
<1> SUFFICES ASSUME TypeOK, Grown PROVE StateSticks OBVIOUS
<1> DEFINE Meant(u, i) == \A j \in (u + 1)..i :
             \/ checkpoints[j].by = checkpoints[u].by
             \/ checkpoints[j].since >= u /\ ~Asks(checkpoints[j].by)
<1>1. Latest \in Nat /\ DOMAIN checkpoints = 1..Latest BY CheckpointType
<1>2. SUFFICES ASSUME NEW u \in 1..Latest PROVE
        \A i \in (u + 1)..Latest : Meant(u, i) => u \in Ancestors[i]
  BY <1>1 DEF StateSticks
<1> DEFINE T == {i \in (u + 1)..Latest : Meant(u, i) /\ u \notin Ancestors[i]}
<1>3. SUFFICES ASSUME T # {} PROVE FALSE OBVIOUS
<1>4. T \in SUBSET Nat BY <1>1
<1>5. PICK m \in T : \A i \in T : m <= i
  <2> HIDE DEF T
  <2> QED BY <1>3, <1>4, Least
<1>6. m \in (u + 1)..Latest /\ m \in 1..Latest /\ Meant(u, m) /\ u \notin Ancestors[m] BY <1>1
<1> DEFINE p == checkpoints[m].parent
<1>7. p \in 0..(m - 1) /\ checkpoints[m].since \in Nat
  BY <1>6, CheckpointType, ParentBefore
<1>8. u <= p
  <2>1. \/ checkpoints[m].by = checkpoints[u].by
        \/ checkpoints[m].since >= u /\ ~Asks(checkpoints[m].by)
    BY <1>1, <1>6
  <2>2. u \in 1..(m - 1) BY <1>1, <1>6
  <2> QED BY <1>1, <1>6, <1>7, <2>1, <2>2 DEF Grown
<1>9. p \in 1..Latest /\ p # 0 BY <1>1, <1>6, <1>7, <1>8
<1>10. u \in Ancestors[p]
  <2>1. CASE p = u BY <1>1, <1>9, <2>1, AncestorsOfParent
  <2>2. CASE p # u
    <3>1. p \in (u + 1)..Latest BY <1>1, <1>8, <1>9, <2>2
    <3>2. Meant(u, p) BY <1>1, <1>6, <1>7
    <3>3. p \notin T BY <1>1, <1>5, <1>7, <1>9
    <3> QED BY <3>1, <3>2, <3>3
  <2> QED BY <2>1, <2>2
<1>11. Ancestors[p] \subseteq Ancestors[m] BY <1>1, <1>6, <1>9, AncestorsOfParent
<1> QED BY <1>6, <1>10, <1>11

-----------------------------------------------------------------------------

\* The row, the checkpoints and the requests keep their types, and the model's bounds
\* hold, whatever the requests do.
THEOREM TypeCorrect == Spec => []TypeOK
<1>1. IInv => TypeOK BY DEF IInv
<1> QED BY <1>1, Invariance, PTL

\* A metadata key or the graph_id of a thread stays with it, unless a write that had
\* read the row before it came after it (`update_thread`, `update_thread_metadata`).
THEOREM MetadataAlwaysStays == Spec => []MetadataStays
<1>1. IInv => MetadataStays BY DEF IInv
<1> QED BY <1>1, Invariance, PTL

\* Paging through the history of a thread shows every checkpoint there was when it
\* began, once and newest first, whatever is put meanwhile and whatever the page
\* sizes, unless the page that ends it was answered empty without a look at the
\* checkpoints: each page is a request, which reads the row again
\* (`get_thread_history_post`).
THEOREM PagesAreAlwaysComplete == Spec => []PagesAreComplete
<1>1. IInv => PagesAreComplete
  <2> SUFFICES ASSUME IInv, NEW r \in Requests PROVE
        LET pages == req[r].pages IN
        /\ \A i \in 1..(Len(pages) - 1) : pages[i] = pages[i + 1] + 1
        /\ op[r] = "history" /\ req[r].step = "done" /\ req[r].since > 0 /\ ~req[r].blind =>
              pages # <<>> /\ pages[1] >= req[r].since /\ pages[Len(pages)] = 1
    BY DEF PagesAreComplete
  <2>1. Paged(r) BY DEF IInv
  <2> QED BY <2>1 DEF Paged
<1> QED BY <1>1, Invariance, PTL

\* What a run or a state update put is part of every later state, unless a later
\* writer asked for another checkpoint or had begun before it was put (`update_thread_state`
\* and the runs of one thread, whose bases `create_run_config` and `create_thread_config` name).
THEOREM WritesAlwaysStick == Spec => []StateSticks
<1>1. Spec => [](TypeOK /\ Lineage)
  <2>1. Init => TypeOK /\ Lineage BY InitInv, InitLineage DEF IInv
  <2>2. IInv => TypeOK BY DEF IInv
  <2> QED BY <2>1, <2>2, Invariance, NextLineage, PTL DEF Spec
<1>2. TypeOK /\ Lineage => StateSticks BY Sticks DEF Lineage
<1> QED BY <1>1, <1>2, PTL
=============================================================================
