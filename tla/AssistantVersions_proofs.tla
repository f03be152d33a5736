----------------------- MODULE AssistantVersions_proofs -----------------------
(***************************************************************************)
(* That versions are numbered without a gap, that what an assistant runs   *)
(* with is recorded, that its version is the newest and that defaults      *)
(* stand, for any number of assistants, requests and server processes.     *)
(***************************************************************************)
EXTENDS AssistantVersions, FiniteSetTheorems, TLAPS

USE NamesAssumption

-----------------------------------------------------------------------------
(* Types *)

Histories ==
    /\ cut \subseteq Ids
    /\ skipped \subseteq Ids \X Nat
    /\ pinned \subseteq Ids /\ overlapped \subseteq Ids /\ haunted \subseteq Ids

Tables ==
    /\ Alive \subseteq Ids
    /\ row = [a \in Alive |-> row[a]]
    /\ \A a \in Alive : row[a] \in Rows
    /\ vers \subseteq VersionRows
    /\ \A v \in vers : v.id \in Alive

Requests ==
    /\ req \in [Clients -> [step : Steps, id : Ids, n : Nat, body : Bodies]]
    /\ \A c \in Clients : req[c].step \in {"create", "record", "insert", "apply", "pin"} => req[c].n > 0

Processes == proc \in [Procs -> {"down", "starting", "up"}] /\ missing \in [Procs -> SUBSET Graphs]

LEMMA TypeParts ==
    Tables' /\ Requests' /\ Processes' /\ Histories' /\ spent' \in [{"request", "crash"} -> Nat] => TypeOK'
BY DEF TypeOK, Tables, Requests, Processes, Histories, Alive

LEMMA SpendType ==
    ASSUME TypeOK, NEW k \in {"request", "crash"}, Spend(k)
    PROVE  spent' \in [{"request", "crash"} -> Nat]
<1>1. spent[k] \in Nat BY DEF TypeOK
<1> QED BY <1>1 DEF TypeOK, Spend

LEMMA NoRequestType ==
    /\ NoRequest \in [step : Steps, id : Ids, n : Nat, body : Bodies]
    /\ NoRequest.step = "idle"
    /\ [NoRequest EXCEPT !.step = "refused"] \in [step : Steps, id : Ids, n : Nat, body : Bodies]
    /\ [NoRequest EXCEPT !.step = "refused"].step = "refused"
<1>1. PICK g \in Graphs : TRUE BY DEF NoRequest
<1>2. Default[g] \in Ids BY <1>1
<1>3. (CHOOSE a \in Ids : TRUE) \in Ids BY <1>2
<1>4. [graph |-> g, config |-> NoConfig] \in Bodies BY <1>1 DEF Bodies
<1>5. (CHOOSE b \in Bodies : TRUE) \in Bodies BY <1>4
<1> QED BY <1>3, <1>5 DEF NoRequest, Steps

LEMMA DefaultBodyType ==
    \A g \in Graphs : DefaultBody(g) \in Bodies /\ DefaultVersion(g) \in VersionRows
BY DEF DefaultBody, DefaultVersion, Bodies, VersionRows

LEMMA DefaultVersionOf == \A g \in Graphs : DefaultVersion(g).id = Default[g] /\ DefaultVersion(g).n = 1
BY DEF DefaultVersion

\* The graph that an id is the default of.
LEMMA GraphOf == \A g \in Graphs : (CHOOSE h \in Graphs : Default[h] = Default[g]) = g
<1> SUFFICES ASSUME NEW g \in Graphs PROVE (CHOOSE h \in Graphs : Default[h] = Default[g]) = g OBVIOUS
<1>1. \E h \in Graphs : Default[h] = Default[g] OBVIOUS
<1> DEFINE x == CHOOSE h \in Graphs : Default[h] = Default[g]
<1>2. x \in Graphs /\ Default[x] = Default[g] BY <1>1
<1> QED BY <1>2

LEMMA RequestType ==
    ASSUME TypeOK, NEW c \in Clients, NEW step \in Steps, NEW a \in Ids, NEW n \in Nat, NEW STATE b, b \in Bodies,
           step \in {"create", "record", "insert", "apply", "pin"} => n > 0,
           Request(c, step, a, n, b)
    PROVE  Requests' /\ spent' \in [{"request", "crash"} -> Nat]
<1>1. spent' \in [{"request", "crash"} -> Nat] BY SpendType DEF Request
<1>2. [step |-> step, id |-> a, n |-> n, body |-> b] \in [step : Steps, id : Ids, n : Nat, body : Bodies]
  OBVIOUS
<1> QED BY <1>1, <1>2 DEF TypeOK, Request, Requests

LEMMA AnswerType ==
    ASSUME TypeOK, NEW c \in Clients, Answer(c)
    PROVE  Requests'
BY NoRequestType DEF TypeOK, Answer, Requests

LEMMA SameTables ==
    ASSUME TypeOK, UNCHANGED <<row, vers>> PROVE Tables'
BY DEF TypeOK, Tables, Alive

LEMMA AddVersionType ==
    ASSUME TypeOK, UNCHANGED row, NEW a \in Alive, NEW n \in Nat \ {0}, NEW STATE b, b \in Bodies, AddVersion(a, n, b)
    PROVE  Tables'
<1>1. [id |-> a, n |-> n, body |-> b] \in VersionRows BY DEF TypeOK, VersionRows
<1> QED BY <1>1 DEF TypeOK, Tables, Alive, AddVersion

LEMMA SelectDefaultsType == \A p \in Procs : TypeOK /\ SelectDefaults(p) => TypeOK'
<1> SUFFICES ASSUME NEW p \in Procs, TypeOK, SelectDefaults(p) PROVE TypeOK' OBVIOUS
<1>1. Tables' BY SameTables DEF SelectDefaults, tables
<1>2. Processes' BY DEF SelectDefaults, TypeOK, Processes, Missing
<1>3. Requests' /\ Histories' /\ spent' \in [{"request", "crash"} -> Nat]
  BY DEF SelectDefaults, TypeOK, Requests, Histories, histVars
<1> QED BY <1>1, <1>2, <1>3, TypeParts

\* What a start inserts.
LEMMA CommitEffect ==
    ASSUME TypeOK, NEW p \in Procs, CommitDefaults(p), proc'[p] = "up"
    PROVE  /\ \A g \in missing[p] : Default[g] \notin Alive
           /\ Alive' = Alive \cup {Default[g] : g \in missing[p]}
           /\ \A a \in Alive : row'[a] = row[a]
           /\ \A g \in missing[p] :
                  row'[Default[g]] = [owner |-> "system", version |-> 1, body |-> DefaultBody(g)]
           /\ row' = [a \in Alive' |-> row'[a]]
           /\ vers' = vers \cup {DefaultVersion(g) : g \in missing[p]}
<1> DEFINE new == {Default[g] : g \in missing[p]}
           graphOf(a) == CHOOSE g \in Graphs : Default[g] = a
           first(a) == [owner |-> "system", version |-> 1, body |-> DefaultBody(graphOf(a))]
<1>1. /\ new \cap Alive = {}
      /\ row' = [a \in Alive \cup new |-> IF a \in new THEN first(a) ELSE row[a]]
      /\ vers' = vers \cup {DefaultVersion(g) : g \in missing[p]}
  BY DEF CommitDefaults, TypeOK
<1>2. missing[p] \subseteq Graphs BY DEF TypeOK
<1>3. \A g \in missing[p] : Default[g] \in new /\ graphOf(Default[g]) = g BY <1>2, GraphOf
<1>4. \A g \in missing[p] : first(Default[g]) = [owner |-> "system", version |-> 1, body |-> DefaultBody(g)]
  BY <1>3
<1> HIDE DEF new, graphOf, first
<1>5. Alive' = Alive \cup new BY <1>1 DEF Alive
<1>6. \A a \in Alive' : row'[a] = IF a \in new THEN first(a) ELSE row[a] BY <1>1, <1>5
<1>7. \A g \in missing[p] : Default[g] \notin Alive BY <1>1, <1>3
<1>8. \A a \in Alive : row'[a] = row[a] BY <1>1, <1>5, <1>6
<1>9. \A g \in missing[p] : row'[Default[g]] = [owner |-> "system", version |-> 1, body |-> DefaultBody(g)]
  BY <1>3, <1>4, <1>5, <1>6
<1>10. row' = [a \in Alive' |-> row'[a]] BY <1>1, <1>5
<1> QED BY <1>1, <1>5, <1>7, <1>8, <1>9, <1>10 DEF new

LEMMA CommitDefaultsType == \A p \in Procs : TypeOK /\ CommitDefaults(p) => TypeOK'
<1> SUFFICES ASSUME NEW p \in Procs, TypeOK, CommitDefaults(p) PROVE TypeOK' OBVIOUS
<1>1. Processes' BY DEF CommitDefaults, TypeOK, Processes
<1>2. Requests' /\ Histories' /\ spent' \in [{"request", "crash"} -> Nat]
  BY DEF CommitDefaults, TypeOK, Requests, Histories, histVars
<1>3. CASE proc'[p] = "up"
  <2>1. missing[p] \subseteq Graphs BY DEF TypeOK
  <2>2. {Default[g] : g \in missing[p]} \subseteq Ids BY <2>1
  <2>3. \A g \in missing[p] :
            /\ [owner |-> "system", version |-> 1, body |-> DefaultBody(g)] \in Rows
            /\ DefaultVersion(g) \in VersionRows
    BY <2>1, DefaultBodyType DEF Rows, VersionRows
  <2> DEFINE new == {DefaultVersion(g) : g \in missing[p]}
  <2>4. Alive' = Alive \cup {Default[g] : g \in missing[p]} /\ vers' = vers \cup new
    BY <1>3, CommitEffect
  <2>5. Alive' \subseteq Ids BY <2>2, <2>4 DEF TypeOK
  <2>6. ASSUME NEW a \in Alive' PROVE row'[a] \in Rows
    <3>1. CASE a \in Alive
      <4>1. row'[a] = row[a] BY <1>3, <3>1, CommitEffect
      <4> QED BY <3>1, <4>1 DEF TypeOK
    <3>2. CASE a \notin Alive
      <4>1. PICK g \in missing[p] : a = Default[g] BY <2>4, <2>6, <3>2
      <4>2. row'[a] = [owner |-> "system", version |-> 1, body |-> DefaultBody(g)]
        BY <1>3, <4>1, CommitEffect
      <4> QED BY <2>3, <4>2
    <3> QED BY <3>1, <3>2
  <2>7. new \subseteq VersionRows /\ \A v \in new : v.id \in Alive'
    <3> SUFFICES ASSUME NEW v \in new PROVE v \in VersionRows /\ v.id \in Alive' OBVIOUS
    <3>1. PICK g \in missing[p] : v = DefaultVersion(g) OBVIOUS
    <3> QED BY <2>1, <2>3, <2>4, <3>1, DefaultVersionOf
  <2> HIDE DEF new
  <2>8. vers' \subseteq VersionRows /\ \A v \in vers' : v.id \in Alive'
    BY <2>4, <2>7 DEF TypeOK
  <2>9. row' = [a \in Alive' |-> row'[a]] BY <1>3, CommitEffect
  <2>10. Tables' BY <2>5, <2>6, <2>8, <2>9 DEF Tables
  <2> QED BY <1>1, <1>2, <2>10, TypeParts
<1>4. CASE proc'[p] # "up"
  <2>1. UNCHANGED <<row, vers>> BY <1>4 DEF CommitDefaults, TypeOK, tables
  <2> QED BY <1>1, <1>2, <2>1, SameTables, TypeParts
<1> QED BY <1>3, <1>4

LEMMA AliveUpdate ==
    ASSUME TypeOK, NEW a \in Ids, NEW STATE r, r \in Rows,
           row' = [d \in Alive \cup {a} |-> IF d = a THEN r ELSE row[d]]
    PROVE  /\ Alive' = Alive \cup {a}
           /\ row' = [d \in Alive' |-> row'[d]]
           /\ row'[a] = r /\ \A d \in Alive \ {a} : row'[d] = row[d]
           /\ Alive' \subseteq Ids /\ \A d \in Alive' : row'[d] \in Rows
<1>1. Alive' = Alive \cup {a} BY DEF Alive
<1>2. row'[a] = r /\ \A d \in Alive \ {a} : row'[d] = row[d] OBVIOUS
<1>3. row' = [d \in Alive' |-> row'[d]] BY <1>1
<1> QED BY <1>1, <1>2, <1>3 DEF TypeOK

\* The numbers that versions of a have.
Numbers(a) == {v.n : v \in {w \in vers : w.id = a}}

\* One of them is the highest, so that max(version) is one of them.
Topped(S) == S = {} \/ \E m \in S : \A n \in S : m >= n

LEMMA MaxOfTopped == ASSUME NEW S, Topped(S), S # {} PROVE Max(S) \in S /\ \A n \in S : Max(S) >= n
BY DEF Topped, Max

LEMMA NextNumberType ==
    ASSUME TypeOK, NEW a \in Ids, Topped(Numbers(a))
    PROVE  NextNumber(a) \in Nat \ {0}
<1>1. Numbers(a) \subseteq Nat \ {0} BY DEF TypeOK, VersionRows, Numbers
<1>2. CASE \E v \in vers : v.id = a
  <2>1. NextNumber(a) = Max(Numbers(a)) + 1 BY <1>2 DEF NextNumber, Numbers
  <2>2. Numbers(a) # {} BY <1>2 DEF Numbers
  <2>3. Max(Numbers(a)) \in Nat BY <1>1, <2>2, MaxOfTopped
  <2> QED BY <2>1, <2>3
<1>3. CASE ~\E v \in vers : v.id = a BY <1>3 DEF NextNumber
<1> QED BY <1>2, <1>3

\* A request of c goes on with step and number n.
LEMMA AdvanceType ==
    ASSUME TypeOK, NEW c \in Clients, NEW step \in Steps, NEW STATE n, n \in Nat \ {0},
           req' = [req EXCEPT ![c] = [req[c] EXCEPT !.step = step, !.n = n]]
    PROVE  Requests'
<1>1. req[c] \in [step : Steps, id : Ids, n : Nat, body : Bodies] BY DEF TypeOK
<1> DEFINE r == [req[c] EXCEPT !.step = step, !.n = n]
<1>2. r \in [step : Steps, id : Ids, n : Nat, body : Bodies]
  <2>1. n \in Nat OBVIOUS
  <2> QED BY <1>1, <2>1
<1>3. r.n = n /\ n > 0 BY <1>1
<1> HIDE DEF r
<1>4. req' = [req EXCEPT ![c] = r] BY DEF r
<1> QED BY <1>2, <1>3, <1>4 DEF TypeOK, Requests

LEMMA ClientType == \A c \in Clients : TypeOK /\ Topped(Numbers(req[c].id)) /\ Client(c) => TypeOK'
<1> SUFFICES ASSUME NEW c \in Clients, TypeOK, Topped(Numbers(req[c].id)), Client(c) PROVE TypeOK'
  OBVIOUS
<1> USE DEF tables, procVars, histVars
<1>1. req[c] \in [step : Steps, id : Ids, n : Nat, body : Bodies] BY DEF TypeOK
<1>2. UNCHANGED procVars => Processes' BY DEF TypeOK, Processes
<1>3. UNCHANGED histVars => Histories' BY DEF TypeOK, Histories
<1>4. UNCHANGED spent => spent' \in [{"request", "crash"} -> Nat] BY DEF TypeOK
<1>5. ASSUME NEW a \in Ids, NEW b \in RequestedBodies, CheckNew(c, a, b) PROVE TypeOK'
  <2>1. Requests' /\ spent' \in [{"request", "crash"} -> Nat] BY <1>5, RequestType DEF CheckNew, Steps, Bodies, RequestedBodies
  <2> QED BY <1>2, <1>3, <1>5, <2>1, SameTables, TypeParts DEF CheckNew
<1>6. CASE InsertRow(c)
  <2> DEFINE a == req[c].id
             b == req[c].body
  <2>1. Histories' /\ Processes' /\ spent' \in [{"request", "crash"} -> Nat]
    BY <1>1, <1>2, <1>4, <1>6 DEF InsertRow, TypeOK, Histories
  <2>2. CASE /\ row' = [d \in Alive \cup {a} |->
                            IF d = a THEN [owner |-> "user", version |-> 1, body |-> b] ELSE row[d]]
             /\ req' = [req EXCEPT ![c].step = "record"] /\ a \notin Alive
    <3> DEFINE r == [owner |-> "user", version |-> 1, body |-> b]
    <3>1. r \in Rows BY <1>1 DEF Rows
    <3>2. a \in Ids BY <1>1
    <3>3. PICK x \in Ids : x = a BY <3>2
    <3>4. row' = [d \in Alive \cup {x} |-> IF d = x THEN r ELSE row[d]] BY <2>2, <3>3
    <3> HIDE DEF r
    <3>5. /\ Alive' = Alive \cup {x} /\ row' = [d \in Alive' |-> row'[d]]
          /\ Alive' \subseteq Ids /\ \A d \in Alive' : row'[d] \in Rows
      BY <3>1, <3>4, AliveUpdate
    <3>6. Tables' BY <1>6, <3>5 DEF TypeOK, Tables, InsertRow
    <3>7. Requests'
      <4>1. req[c].step = "create" /\ req[c].n > 0 BY <1>6 DEF InsertRow, TypeOK
      <4>2. [req[c] EXCEPT !.step = "record"] \in [step : Steps, id : Ids, n : Nat, body : Bodies]
        BY <1>1 DEF Steps
      <4>3. req' = [req EXCEPT ![c] = [req[c] EXCEPT !.step = "record"]] BY <2>2
      <4>4. [req[c] EXCEPT !.step = "record"].n > 0 BY <1>1, <4>1
      <4> HIDE DEF r
      <4> QED BY <1>1, <4>2, <4>3, <4>4 DEF TypeOK, Requests
    <3> QED BY <2>1, <3>6, <3>7, TypeParts
  <2>3. CASE req' = [req EXCEPT ![c] = [NoRequest EXCEPT !.step = "refused"]] /\ UNCHANGED row
    <3>1. Requests' BY <2>3, NoRequestType DEF TypeOK, Requests
    <3>2. Tables' BY <1>6, <2>3, SameTables DEF InsertRow
    <3> QED BY <2>1, <3>1, <3>2, TypeParts
  <2> QED BY <1>6, <2>2, <2>3 DEF InsertRow
<1>7. CASE RecordFirst(c)
  <2>1. Requests' BY <1>7, AnswerType DEF RecordFirst
  <2>2. Histories' BY <1>1, <1>7 DEF RecordFirst, TypeOK, Histories
  <2>3. Tables'
    <3>1. CASE Insertable(req[c].id, 1)
      <4>1. PICK a \in Alive : a = req[c].id BY <3>1 DEF Insertable
      <4>2. AddVersion(a, 1, req[c].body) /\ UNCHANGED row BY <1>7, <3>1, <4>1 DEF RecordFirst
      <4> QED BY <1>1, <4>2, AddVersionType
    <3>2. CASE ~Insertable(req[c].id, 1) BY <1>7, <3>2, SameTables DEF RecordFirst
    <3> QED BY <3>1, <3>2
  <2> QED BY <1>2, <1>4, <1>7, <2>1, <2>2, <2>3, TypeParts DEF RecordFirst
<1>8. ASSUME NEW a \in Alive, NEW g \in Graphs \cup {None}, NEW cfg \in Configs, ReadRow(c, a, g, cfg)
      PROVE  TypeOK'
  <2> DEFINE b == [graph |-> IF g = None THEN row[a].body.graph ELSE g, config |-> cfg]
  <2>1. a \in Ids /\ row[a] \in Rows BY DEF TypeOK
  <2>2. b \in Bodies BY <2>1 DEF Bodies, Rows
  <2>3. Request(c, "number", a, 0, b) BY <1>8 DEF ReadRow
  <2> HIDE DEF b
  <2>4. Requests' /\ spent' \in [{"request", "crash"} -> Nat] BY <2>1, <2>2, <2>3, RequestType DEF Steps
  <2> QED BY <1>2, <1>3, <1>8, <2>4, SameTables, TypeParts DEF ReadRow
<1>9. CASE ReadNumber(c)
  <2>1. NextNumber(req[c].id) \in Nat \ {0} BY <1>1, NextNumberType
  <2>2. req' = [req EXCEPT ![c] = [req[c] EXCEPT !.step = "insert", !.n = NextNumber(req[c].id)]]
    BY <1>9 DEF ReadNumber
  <2>3. Requests' BY <2>1, <2>2, AdvanceType DEF Steps
  <2> QED BY <1>2, <1>3, <1>4, <1>9, <2>3, SameTables, TypeParts DEF ReadNumber
<1>10. CASE InsertVersion(c)
  <2>1. Histories' /\ Processes' /\ spent' \in [{"request", "crash"} -> Nat]
    BY <1>1, <1>2, <1>4, <1>10 DEF InsertVersion, TypeOK, Histories
  <2>2. req[c].n \in Nat \ {0} BY <1>1, <1>10 DEF InsertVersion, TypeOK
  <2>3. CASE Insertable(req[c].id, req[c].n)
    <3>1. PICK a \in Alive : a = req[c].id BY <2>3 DEF Insertable
    <3>2. PICK n \in Nat \ {0} : n = req[c].n BY <2>2
    <3>3. AddVersion(a, n, req[c].body) /\ UNCHANGED row BY <1>10, <2>3, <3>1, <3>2 DEF InsertVersion
    <3>4. Tables' BY <1>1, <3>3, AddVersionType
    <3>5. req' = [req EXCEPT ![c] = [req[c] EXCEPT !.step = "apply"]] BY <1>10, <2>3 DEF InsertVersion
    <3>6. req' = [req EXCEPT ![c] = [req[c] EXCEPT !.step = "apply", !.n = req[c].n]]
      BY <1>1, <3>5
    <3>7. Requests' BY <2>2, <3>6, AdvanceType DEF Steps
    <3> QED BY <2>1, <3>4, <3>7, TypeParts
  <2>4. CASE ~Insertable(req[c].id, req[c].n)
    <3>1. Answer(c) /\ UNCHANGED <<row, vers>> BY <1>10, <2>4 DEF InsertVersion
    <3> QED BY <2>1, <3>1, AnswerType, SameTables, TypeParts
  <2> QED BY <2>3, <2>4
<1>11. ASSUME NEW v \in vers, ReadVersion(c, v) PROVE TypeOK'
  <2>1. v \in VersionRows BY DEF TypeOK
  <2>2. PICK a \in Ids, n \in Nat \ {0}, b \in Bodies : a = v.id /\ n = v.n /\ b = v.body
    BY <2>1 DEF VersionRows
  <2>3. Request(c, "pin", a, n, b) BY <1>11, <2>2 DEF ReadVersion
  <2>4. Requests' /\ spent' \in [{"request", "crash"} -> Nat] BY <2>3, RequestType DEF Steps
  <2> QED BY <1>2, <1>3, <1>11, <2>4, SameTables, TypeParts DEF ReadVersion
<1>12. CASE Apply(c)
  <2>1. Requests' BY <1>12, AnswerType DEF Apply
  <2>2. Histories' BY <1>1, <1>12 DEF Apply, TypeOK, Histories
  <2>3. Tables'
    <3>1. CASE UNCHANGED row BY <1>12, <3>1, SameTables DEF Apply
    <3>2. CASE row' = [row EXCEPT ![req[c].id] = Current(c)]
      <4>1. req[c].n \in Nat \ {0} BY <1>1, <1>12 DEF Apply, TypeOK
      <4>2. Current(c) \in Rows BY <1>1, <4>1 DEF Current, Rows
      <4>3. Alive' = Alive BY <3>2 DEF Alive
      <4>4. UNCHANGED vers BY <1>12 DEF Apply
      <4>5. \A a \in Alive : row'[a] = IF a = req[c].id THEN Current(c) ELSE row[a]
        BY <3>2 DEF Alive
      <4>6. row' = [a \in Alive' |-> row'[a]] BY <3>2, <4>3 DEF Alive
      <4> QED BY <4>2, <4>3, <4>4, <4>5, <4>6 DEF Tables, TypeOK
    <3> QED BY <1>12, <3>1, <3>2 DEF Apply
  <2> QED BY <1>2, <1>4, <1>12, <2>1, <2>2, <2>3, TypeParts DEF Apply
<1>13. CASE Abort(c)
  <2>1. Requests' BY <1>13, AnswerType DEF Abort
  <2>2. Histories' BY <1>1, <1>13 DEF Abort, TypeOK, Histories
  <2>3. spent' \in [{"request", "crash"} -> Nat] BY <1>13, SpendType DEF Abort
  <2> QED BY <1>2, <1>13, <2>1, <2>2, <2>3, SameTables, TypeParts DEF Abort
<1> QED BY <1>5, <1>6, <1>7, <1>8, <1>9, <1>10, <1>11, <1>12, <1>13 DEF Client

LEMMA DeleteType == \A a \in Alive : TypeOK /\ Delete(a) => TypeOK'
<1> SUFFICES ASSUME NEW a \in Alive, TypeOK, Delete(a) PROVE TypeOK' OBVIOUS
<1>1. Alive' = Alive \ {a} BY DEF Delete, Alive
<1>2. \A d \in Alive' : row'[d] = row[d] BY <1>1 DEF Delete
<1>3. row' = [d \in Alive' |-> row'[d]] BY <1>1 DEF Delete
<1>4. vers' \subseteq vers /\ \A v \in vers' : v.id # a BY DEF Delete
<1>5. Tables' BY <1>1, <1>2, <1>3, <1>4 DEF TypeOK, Tables
<1>6. Histories' BY DEF Delete, TypeOK, Histories
<1>7. spent' \in [{"request", "crash"} -> Nat] BY SpendType DEF Delete
<1>8. Requests' /\ Processes' BY DEF Delete, TypeOK, Requests, Processes, procVars
<1> QED BY <1>5, <1>6, <1>7, <1>8, TypeParts

LEMMA ProcessDiesType == \A p \in Procs : TypeOK /\ ProcessDies(p) => TypeOK'
<1> SUFFICES ASSUME NEW p \in Procs, TypeOK, ProcessDies(p) PROVE TypeOK' OBVIOUS
<1>1. spent' \in [{"request", "crash"} -> Nat] BY SpendType DEF ProcessDies
<1>2. Tables' BY SameTables DEF ProcessDies, tables
<1>3. Requests' /\ Processes' /\ Histories'
  BY DEF ProcessDies, TypeOK, Requests, Processes, Histories, histVars
<1> QED BY <1>1, <1>2, <1>3, TypeParts

LEMMA InitType == Init => TypeOK
<1> SUFFICES ASSUME Init PROVE TypeOK OBVIOUS
<1>1. Alive = {} BY DEF Init, Alive
<1>2. row = [a \in Alive |-> row[a]] BY <1>1 DEF Init
<1>3. \A c \in Clients : req[c] = NoRequest BY DEF Init
<1>4. req \in [Clients -> [step : Steps, id : Ids, n : Nat, body : Bodies]]
  BY NoRequestType DEF Init
<1> QED BY <1>1, <1>2, <1>3, <1>4, NoRequestType DEF Init, TypeOK

-----------------------------------------------------------------------------
(* The invariant of an assistant *)

Of(a) == {w \in vers : w.id = a}

\* Requests on a that hold something read or written before.
Busy(c, a) == req[c].id = a /\ req[c].step \in {"record", "insert", "apply", "pin"}

Applying(c, a) == req[c].id = a /\ req[c].step = "apply"

Held(a) == [id |-> a, n |-> row[a].version, body |-> row[a].body] \in vers
Recorded(a) == row[a].owner = "user" => Held(a)

Dense(a) == IsFiniteSet(Of(a)) /\ Numbers(a) = 1 .. Cardinality(Of(a))

\* What requests hold of a is still true of it.
Requested(a) ==
    \A c \in Clients : Busy(c, a) =>
        /\ req[c].step = "insert" => req[c].n <= Cardinality(Of(a)) + 1
        /\ req[c].step \in {"apply", "pin"} => [id |-> a, n |-> req[c].n, body |-> req[c].body] \in vers
        /\ req[c].step = "record" =>
               (row[a].version = 1 /\ row[a].body = req[c].body) \/ Held(a)

Pending(a, n) == <<a, n>> \in skipped \/ \E c \in Clients : Applying(c, a) /\ req[c].n = n

Newest(a) ==
    /\ \A v \in Of(a) : v.n > row[a].version => Pending(a, v.n)
    /\ \A c \in Clients : Applying(c, a) => req[c].n >= row[a].version
    /\ \A c, d \in Clients : Applying(c, a) /\ Applying(d, a) => c = d

Good(a) ==
    /\ Topped(Numbers(a))
    /\ a \notin haunted => Dense(a)
    /\ a \in Alive \ haunted =>
           /\ Requested(a)
           /\ a \notin Unrecorded => Recorded(a)
           /\ row[a].version = 1 \/ row[a].version \in Numbers(a)
           /\ a \notin pinned \cup overlapped => Newest(a)

Defaults == {Default[g] : g \in Graphs}

\* The defaults that exist are the system's and have their first versions; no
\* request is on one; a starting process knows those that are missing.
DefaultsInv ==
    /\ \A g \in Graphs : Default[g] \in Alive =>
           /\ row[Default[g]] = [owner |-> "system", version |-> 1, body |-> DefaultBody(g)]
           /\ DefaultVersion(g) \in vers
    /\ \A c \in Clients : req[c].step \notin {"idle", "refused"} => req[c].id \notin Defaults
    /\ \A p \in Procs : proc[p] = "starting" => Missing \subseteq missing[p]
    /\ (\E p \in Procs : proc[p] = "up") => Missing = {}

IInv == TypeOK /\ DefaultsInv /\ \A a \in Ids : Good(a)

\* A step that leaves a alone: what requests on it begin to hold is true, and
\* what they give up they leave a trace of.
Frame(a) ==
    /\ a \in Alive' <=> a \in Alive
    /\ a \in Alive => row'[a] = row[a]
    /\ Of(a)' = Of(a)
    /\ \A c \in Clients : Busy(c, a)' =>
           \/ req'[c] = req[c]
           \/ req'[c].step = "insert" /\ (a \notin haunted => req'[c].n <= Cardinality(Of(a)) + 1)
           \/ req'[c].step = "pin" /\ [id |-> a, n |-> req'[c].n, body |-> req'[c].body] \in vers
    /\ \A c \in Clients : Busy(c, a) /\ req'[c] # req[c] =>
           /\ req[c].step = "record" => a \in cut'
           /\ req[c].step = "apply" => <<a, req[c].n>> \in skipped'
    /\ a \in cut => a \in cut'
    /\ \A n \in Nat : <<a, n>> \in skipped => <<a, n>> \in skipped'
    /\ a \in pinned => a \in pinned'
    /\ a \in overlapped => a \in overlapped'
    /\ a \in haunted => a \in haunted'

LEMMA InOf == \A v, a : v \in Of(a) <=> v \in vers /\ v.id = a
BY DEF Of

LEMMA RecordOf == \A a, n, b : [id |-> a, n |-> n, body |-> b] \in vers <=> [id |-> a, n |-> n, body |-> b] \in Of(a)
BY DEF Of

LEMMA RecordOfNext ==
    \A a, n, b : [id |-> a, n |-> n, body |-> b] \in vers' <=> [id |-> a, n |-> n, body |-> b] \in Of(a)'
BY DEF Of

LEMMA DenseCount == \A a : Dense(a) => Cardinality(Of(a)) \in Nat
<1> SUFFICES ASSUME NEW a, Dense(a) PROVE Cardinality(Of(a)) \in Nat OBVIOUS
<1>1. IsFiniteSet(Of(a)) BY DEF Dense
<1> QED BY ONLY <1>1, FS_CardinalityType

LEMMA FrameGood ==
    ASSUME TypeOK, TypeOK', NEW a \in Ids, Good(a), Frame(a)
    PROVE  Good(a)'
<1>1. Numbers(a)' = Numbers(a) /\ Of(a)' = Of(a) BY DEF Frame, Numbers, Of
<1>2. Topped(Numbers(a))' BY <1>1 DEF Good, Topped
<1>3. a \notin haunted' => Dense(a)' BY <1>1 DEF Good, Dense, Frame
<1>4. ASSUME a \in Alive' \ haunted' PROVE a \in Alive \ haunted /\ row'[a] = row[a]
  BY <1>4 DEF Frame
<1>5. ASSUME a \in Alive \ haunted, row'[a] = row[a]
      PROVE  (Recorded(a) => Recorded(a)') /\ (Held(a) => Held(a)')
  BY <1>1, <1>5, RecordOf, RecordOfNext DEF Recorded, Held
<1>6. ASSUME a \in Alive' \ haunted' PROVE Requested(a)'
  <2>1. a \in Alive \ haunted /\ row'[a] = row[a] BY <1>4, <1>6
  <2>2. Requested(a) BY <2>1 DEF Good
  <2> SUFFICES ASSUME NEW c \in Clients, Busy(c, a)'
               PROVE  /\ req'[c].step = "insert" => req'[c].n <= Cardinality(Of(a)') + 1
                      /\ req'[c].step \in {"apply", "pin"} =>
                             [id |-> a, n |-> req'[c].n, body |-> req'[c].body] \in vers'
                      /\ req'[c].step = "record" =>
                             (row'[a].version = 1 /\ row'[a].body = req'[c].body) \/ Held(a)'
    BY DEF Requested
  <2>3. CASE req'[c] = req[c]
    <3>1. Busy(c, a) BY <2>3 DEF Busy
    <3> QED BY <1>1, <1>5, <2>1, <2>2, <2>3, <3>1, RecordOf, RecordOfNext DEF Requested
  <2>4. CASE req'[c].step = "insert" /\ req'[c].n <= Cardinality(Of(a)) + 1 BY <1>1, <2>4
  <2>5. CASE req'[c].step = "pin" /\ [id |-> a, n |-> req'[c].n, body |-> req'[c].body] \in vers
    BY <1>1, <2>5, RecordOf, RecordOfNext
  <2> QED BY <2>1, <2>3, <2>4, <2>5 DEF Frame
<1>7. ASSUME a \in Alive' \ haunted', a \notin Unrecorded' PROVE Recorded(a)'
  <2>1. a \in Alive \ haunted /\ row'[a] = row[a] BY <1>4, <1>7
  <2>2. a \notin cut BY <1>7 DEF Frame, Unrecorded
  <2>3. ASSUME NEW c \in Clients, req[c].id = a, req[c].step = "record" PROVE FALSE
    <3>1. req'[c] = req[c] BY <1>7, <2>3 DEF Frame, Busy, Unrecorded
    <3> QED BY <1>7, <2>3, <3>1 DEF Unrecorded
  <2>4. a \notin Unrecorded BY <2>2, <2>3 DEF Unrecorded
  <2> QED BY <1>5, <2>1, <2>4 DEF Good
<1>8. ASSUME a \in Alive' \ haunted' PROVE row'[a].version = 1 \/ row'[a].version \in Numbers(a)'
  BY <1>1, <1>4, <1>8 DEF Good
<1>9. ASSUME a \in Alive' \ haunted', a \notin pinned' \cup overlapped' PROVE Newest(a)'
  <2>1. a \in Alive \ haunted /\ row'[a] = row[a] BY <1>4, <1>9
  <2>2. a \notin pinned \cup overlapped BY <1>9 DEF Frame
  <2>3. Newest(a) BY <2>1, <2>2 DEF Good
  <2>4. ASSUME NEW c \in Clients, Applying(c, a)' PROVE req'[c] = req[c] /\ Applying(c, a)
    BY <2>4 DEF Frame, Applying, Busy
  <2>5. ASSUME NEW n \in Nat, Pending(a, n) PROVE Pending(a, n)'
    <3>1. CASE <<a, n>> \in skipped BY <3>1 DEF Frame, Pending
    <3>2. ASSUME NEW c \in Clients, Applying(c, a), req[c].n = n PROVE Pending(a, n)'
      <4>1. CASE req'[c] = req[c] BY <3>2, <4>1 DEF Pending, Applying
      <4>2. CASE req'[c] # req[c]
        <5>1. <<a, req[c].n>> \in skipped' BY <3>2, <4>2 DEF Frame, Applying, Busy
        <5> QED BY <3>2, <5>1 DEF Pending
      <4> QED BY <4>1, <4>2
    <3> QED BY <2>5, <3>1, <3>2 DEF Pending
  <2>6. \A v \in Of(a) : v.n \in Nat BY DEF TypeOK, VersionRows, Of
  <2>7. \A v \in Of(a)' : v.n > row'[a].version => Pending(a, v.n)'
    BY <1>1, <2>1, <2>3, <2>5, <2>6 DEF Newest
  <2>8. \A c \in Clients : Applying(c, a)' => req'[c].n >= row'[a].version
    BY <2>1, <2>3, <2>4 DEF Newest
  <2>9. \A c, d \in Clients : Applying(c, a)' /\ Applying(d, a)' => c = d
    BY <2>3, <2>4 DEF Newest
  <2> QED BY <2>7, <2>8, <2>9 DEF Newest
<1> QED BY <1>2, <1>3, <1>6, <1>7, <1>8, <1>9 DEF Good

\* The tables stay and the history grows; the request of c, if it changes, is
\* r from now on.
LEMMA RequestFrame ==
    ASSUME TypeOK, NEW a \in Ids, NEW c \in Clients, NEW STATE r,
           row' = row \/ ((a \in Alive' <=> a \in Alive) /\ (a \in Alive => row'[a] = row[a])),
           Of(a)' = Of(a),
           req' = [req EXCEPT ![c] = r],
           r.id = a /\ r.step \in {"record", "insert", "apply", "pin"} =>
               \/ r.step = "insert" /\ (a \notin haunted => r.n <= Cardinality(Of(a)) + 1)
               \/ r.step = "pin" /\ [id |-> a, n |-> r.n, body |-> r.body] \in vers,
           req[c].id = a /\ req[c].step = "record" => a \in cut',
           req[c].id = a /\ req[c].step = "apply" => <<a, req[c].n>> \in skipped',
           a \in cut => a \in cut',
           skipped \subseteq skipped', pinned \subseteq pinned',
           overlapped \subseteq overlapped', haunted \subseteq haunted'
    PROVE  Frame(a)
<1>1. req'[c] = r /\ \A d \in Clients \ {c} : req'[d] = req[d] BY DEF TypeOK
<1>2. (a \in Alive' <=> a \in Alive) /\ (a \in Alive => row'[a] = row[a]) BY DEF Alive
<1>3. ASSUME NEW d \in Clients, Busy(d, a)'
      PROVE  \/ req'[d] = req[d]
             \/ req'[d].step = "insert" /\ (a \notin haunted => req'[d].n <= Cardinality(Of(a)) + 1)
             \/ req'[d].step = "pin" /\ [id |-> a, n |-> req'[d].n, body |-> req'[d].body] \in vers
  <2>1. CASE d # c BY <1>1, <2>1
  <2>2. CASE d = c BY <1>1, <1>3, <2>2 DEF Busy
  <2> QED BY <2>1, <2>2
<1>4. ASSUME NEW d \in Clients, Busy(d, a), req'[d] # req[d]
      PROVE  /\ req[d].step = "record" => a \in cut'
             /\ req[d].step = "apply" => <<a, req[d].n>> \in skipped'
  BY <1>1, <1>4 DEF Busy
<1> QED BY <1>2, <1>3, <1>4 DEF Frame

LEMMA KeepOf == ASSUME UNCHANGED vers, NEW a PROVE Of(a)' = Of(a)
BY DEF Of

LEMMA IdleRequest ==
    /\ NoRequest.step \notin {"record", "insert", "apply", "pin"}
    /\ [NoRequest EXCEPT !.step = "refused"].step \notin {"record", "insert", "apply", "pin"}
BY NoRequestType

\* A new request that holds nothing yet, or a version just read.
LEMMA NewRequestFrame ==
    ASSUME TypeOK, NEW c \in Clients, NEW step \in {"create", "number", "pin"}, NEW i \in Ids, NEW n, NEW STATE b,
           step = "pin" => [id |-> i, n |-> n, body |-> b] \in vers,
           Request(c, step, i, n, b), UNCHANGED <<tables, histVars>>
    PROVE  \A a \in Ids : Frame(a)
<1> SUFFICES ASSUME NEW a \in Ids PROVE Frame(a) OBVIOUS
<1> DEFINE r == [step |-> step, id |-> i, n |-> n, body |-> b]
<1>1. req' = [req EXCEPT ![c] = r] /\ req[c].step \in {"idle", "refused"} BY DEF Request
<1>2. r.id = i /\ r.step = step /\ r.n = n /\ r.body = b OBVIOUS
<1> HIDE DEF r
<1>3. Of(a)' = Of(a) BY KeepOf DEF tables
<1>4. r.id = a /\ r.step \in {"record", "insert", "apply", "pin"} =>
          r.step = "pin" /\ [id |-> a, n |-> r.n, body |-> r.body] \in vers
  BY <1>2
<1> QED BY <1>1, <1>3, <1>4, RequestFrame DEF tables, histVars

\* A request that ends without a trace, or is cut off.
LEMMA EndFrame ==
    ASSUME TypeOK, NEW c \in Clients, Answer(c), UNCHANGED <<tables, pinned, overlapped, haunted>>,
           cut \subseteq cut', skipped \subseteq skipped',
           req[c].step = "record" => req[c].id \in cut',
           req[c].step = "apply" => <<req[c].id, req[c].n>> \in skipped'
    PROVE  \A a \in Ids : Frame(a)
<1> SUFFICES ASSUME NEW a \in Ids PROVE Frame(a) OBVIOUS
<1>1. Of(a)' = Of(a) BY KeepOf DEF tables
<1>2. req' = [req EXCEPT ![c] = NoRequest] BY DEF Answer
<1> QED BY <1>1, <1>2, IdleRequest, RequestFrame DEF tables

\* Versions of another assistant, and its row.
LEMMA AddOther ==
    ASSUME NEW a, NEW STATE i, i # a, NEW n, NEW STATE b, AddVersion(i, n, b)
    PROVE  Of(a)' = Of(a)
BY DEF AddVersion, Of

LEMMA DenseMax ==
    ASSUME TypeOK, NEW a \in Ids, Dense(a)
    PROVE  NextNumber(a) = Cardinality(Of(a)) + 1
<1>1. Cardinality(Of(a)) \in Nat BY DenseCount
<1>2. Numbers(a) = 1 .. Cardinality(Of(a)) BY DEF Dense
<1>3. Numbers(a) = {v.n : v \in {w \in vers : w.id = a}} BY DEF Numbers
<1>4. CASE \E v \in vers : v.id = a
  <2>1. Numbers(a) # {} BY <1>3, <1>4
  <2>2. Topped(Numbers(a))
    <3> DEFINE m == Cardinality(Of(a))
    <3>1. m \in Nat /\ Numbers(a) = 1 .. m /\ Numbers(a) # {} BY <1>1, <1>2, <2>1
    <3> HIDE DEF m
    <3>2. m \in Numbers(a) /\ \A k \in Numbers(a) : m >= k BY <3>1
    <3> QED BY <3>2 DEF Topped
  <2>3. Max(Numbers(a)) \in Numbers(a) /\ \A n \in Numbers(a) : Max(Numbers(a)) >= n
    BY <2>1, <2>2, MaxOfTopped
  <2>4. Max(Numbers(a)) = Cardinality(Of(a)) BY <1>1, <1>2, <2>1, <2>3
  <2>5. NextNumber(a) = Max(Numbers(a)) + 1 BY <1>3, <1>4 DEF NextNumber
  <2> QED BY <2>4, <2>5
<1>5. CASE ~\E v \in vers : v.id = a
  <2>1. Of(a) = {} BY <1>5 DEF Of
  <2>2. Cardinality(Of(a)) = 0 BY <2>1, FS_EmptySet
  <2> QED BY <1>5, <2>2 DEF NextNumber
<1> QED BY <1>4, <1>5

LEMMA ReadNumberFrame ==
    ASSUME TypeOK, NEW c \in Clients, Good(req[c].id), ReadNumber(c)
    PROVE  \A a \in Ids : Frame(a)
<1> SUFFICES ASSUME NEW a \in Ids PROVE Frame(a) OBVIOUS
<1>1. req[c] \in [step : Steps, id : Ids, n : Nat, body : Bodies] BY DEF TypeOK
<1> DEFINE r == [req[c] EXCEPT !.step = "insert", !.n = NextNumber(req[c].id)]
<1>2. req' = [req EXCEPT ![c] = r] /\ req[c].step = "number" BY DEF ReadNumber
<1>3. r.id = req[c].id /\ r.step = "insert" /\ r.n = NextNumber(req[c].id) BY <1>1
<1> HIDE DEF r
<1>4. ASSUME r.id = a, a \notin haunted PROVE r.n <= Cardinality(Of(a)) + 1
  <2>1. Dense(a) /\ a = req[c].id BY <1>3, <1>4 DEF Good
  <2>2. r.n = Cardinality(Of(a)) + 1 BY <1>3, <2>1, DenseMax
  <2>3. Cardinality(Of(a)) \in Nat BY <2>1, DenseCount
  <2> QED BY ONLY <2>2, <2>3
<1>5. Of(a)' = Of(a) BY KeepOf DEF ReadNumber, tables
<1>6. UNCHANGED <<row, cut, skipped, pinned, overlapped, haunted>>
  BY DEF ReadNumber, tables, histVars
<1>7. r.id = a /\ r.step \in {"record", "insert", "apply", "pin"} =>
          r.step = "insert" /\ (a \notin haunted => r.n <= Cardinality(Of(a)) + 1)
  BY <1>3, <1>4
<1>8. req[c].step # "record" /\ req[c].step # "apply" BY <1>2
<1> QED BY ONLY TypeOK, <1>2, <1>5, <1>6, <1>7, <1>8, RequestFrame

\* Without versions there is nothing to be wrong with their numbers.
LEMMA NoVersions == ASSUME NEW a, Of(a)' = {} PROVE Topped(Numbers(a))' /\ Dense(a)'
<1>1. Numbers(a)' = {} BY DEF Numbers, Of
<1>2. IsFiniteSet({}) /\ Cardinality({}) = 0 BY FS_EmptySet
<1> QED BY <1>1, <1>2 DEF Topped, Dense

LEMMA GoneGood == ASSUME NEW a, a \notin Alive', Of(a)' = {} PROVE Good(a)'
BY NoVersions DEF Good

LEMMA AbsentOf == TypeOK => \A a : a \notin Alive => Of(a) = {}
BY DEF TypeOK, Of

LEMMA DeleteGood ==
    ASSUME TypeOK, TypeOK', NEW i \in Alive, Delete(i), NEW a \in Ids, Good(a)
    PROVE  Good(a)'
<1>1. CASE a = i
  <2>1. a \notin Alive' BY <1>1 DEF Delete, Alive
  <2>2. Of(a)' = {} BY <1>1 DEF Delete, Of
  <2> QED BY <2>1, <2>2, GoneGood
<1>2. CASE a # i
  <2>1. (a \in Alive' <=> a \in Alive) /\ (a \in Alive => row'[a] = row[a]) BY <1>2 DEF Delete, Alive
  <2>2. Of(a)' = Of(a) BY <1>2 DEF Delete, Of
  <2>3. /\ req' = req /\ haunted' = haunted
        /\ a \in cut => a \in cut'
        /\ a \in pinned => a \in pinned'
        /\ a \in overlapped => a \in overlapped'
    BY <1>2 DEF Delete
  <2>4. \A n \in Nat : <<a, n>> \in skipped => <<a, n>> \in skipped' BY <1>2 DEF Delete
  <2>5. Frame(a) BY <2>1, <2>2, <2>3, <2>4 DEF Frame
  <2> QED BY <2>5, FrameGood
<1> QED BY <1>1, <1>2

\* An assistant with its first version and nobody at work on it.
LEMMA FreshGood ==
    ASSUME NEW a, NEW STATE b, Of(a)' = {[id |-> a, n |-> 1, body |-> b]},
           a \in Alive' => row'[a].version = 1 /\ (row'[a].owner = "user" => row'[a].body = b),
           \A c \in Clients : ~Busy(c, a)'
    PROVE  Good(a)'
<1>1. Numbers(a)' = {1}
  <2>1. Numbers(a)' = {w.n : w \in Of(a)'} BY DEF Numbers, Of
  <2> DEFINE v == [id |-> a, n |-> 1, body |-> b]
  <2>2. v.n = 1 /\ Of(a)' = {v} OBVIOUS
  <2> HIDE DEF v
  <2> QED BY <2>1, <2>2
<1>2. Topped(Numbers(a))' BY <1>1 DEF Topped
<1>3. IsFiniteSet(Of(a)') /\ Cardinality(Of(a)') = 1
  <2> DEFINE v == [id |-> a, n |-> 1, body |-> b]
  <2>1. Of(a)' = {v} OBVIOUS
  <2> HIDE DEF v
  <2>2. IsFiniteSet({v}) /\ Cardinality({v}) = 1 BY ONLY FS_Singleton
  <2> QED BY <2>1, <2>2
<1>4. Dense(a)' BY <1>1, <1>3 DEF Dense
<1>5. Requested(a)' BY DEF Requested
<1>6. a \in Alive' => Recorded(a)' BY RecordOfNext DEF Recorded, Held
<1>7. a \in Alive' => Newest(a)' BY DEF Newest, Applying, Busy
<1> QED BY <1>2, <1>4, <1>5, <1>6, <1>7 DEF Good

LEMMA CommitDefaultsGood ==
    ASSUME TypeOK, TypeOK', DefaultsInv, NEW p \in Procs, CommitDefaults(p), NEW a \in Ids, Good(a)
    PROVE  Good(a)'
<1>1. UNCHANGED <<req, histVars>> BY DEF CommitDefaults
<1>2. CASE proc'[p] = "up"
  <2>1. missing[p] \subseteq Graphs BY DEF TypeOK
  <2>2. CASE \E g \in missing[p] : a = Default[g]
    <3>1. PICK g \in missing[p] : a = Default[g] BY <2>2
    <3>2. a \notin Alive /\ Of(a) = {} BY <1>2, <3>1, CommitEffect, AbsentOf
    <3>3. vers' = vers \cup {DefaultVersion(h) : h \in missing[p]}
      BY <1>2, CommitEffect
    <3>4. \A h \in missing[p] : Default[h] = a => h = g BY <2>1, <3>1
    <3>5. Of(a)' = {DefaultVersion(g)}
      <4>1. DefaultVersion(g) \in Of(a)' BY <2>1, <3>1, <3>3, DefaultVersionOf DEF Of
      <4>2. ASSUME NEW v \in Of(a)' PROVE v = DefaultVersion(g)
        <5>1. v \in vers' /\ v.id = a BY DEF Of
        <5>2. v \notin vers BY <3>2, <5>1 DEF Of
        <5>3. PICK h \in missing[p] : v = DefaultVersion(h)
          BY <3>3, <5>1, <5>2
        <5> QED BY <2>1, <3>1, <3>4, <5>1, <5>3, DefaultVersionOf
      <4> QED BY <4>1, <4>2
    <3>6. row'[a] = [owner |-> "system", version |-> 1, body |-> DefaultBody(g)]
      BY <1>2, <3>1, CommitEffect
    <3>7. \A c \in Clients : ~Busy(c, a)'
      BY <1>1, <2>1, <3>1 DEF DefaultsInv, Defaults, Busy
    <3>8. Of(a)' = {[id |-> a, n |-> 1, body |-> [graph |-> g, config |-> Unset]]}
      BY <3>1, <3>5 DEF DefaultVersion
    <3>9. row'[a].version = 1 /\ row'[a].owner # "user" BY <3>6
    <3> QED BY <3>7, <3>8, <3>9, FreshGood
  <2>3. CASE \A g \in missing[p] : a # Default[g]
    <3>1. (a \in Alive' <=> a \in Alive) /\ (a \in Alive => row'[a] = row[a])
      BY <1>2, <2>3, CommitEffect
    <3>2. vers' = vers \cup {DefaultVersion(h) : h \in missing[p]}
      BY <1>2, CommitEffect
    <3>3. Of(a)' = Of(a) BY <2>1, <2>3, <3>2, DefaultVersionOf DEF Of
    <3>4. Frame(a) BY <1>1, <3>1, <3>3 DEF Frame, histVars
    <3> QED BY <3>4, FrameGood
  <2> QED BY <2>2, <2>3
<1>3. CASE proc'[p] # "up"
  <2>1. UNCHANGED tables BY <1>3 DEF CommitDefaults, TypeOK
  <2>2. Of(a)' = Of(a) BY <2>1, KeepOf DEF tables
  <2>3. Frame(a) BY <1>1, <2>1, <2>2 DEF Frame, tables, histVars, Alive
  <2> QED BY <2>3, FrameGood
<1> QED BY <1>2, <1>3

-----------------------------------------------------------------------------
(* New versions *)

\* A version with the next number keeps the numbers dense; any number keeps
\* them topped.
LEMMA AddNumbers ==
    ASSUME TypeOK, NEW a \in Ids, NEW n \in Nat \ {0}, NEW STATE b, AddVersion(a, n, b),
           Topped(Numbers(a))
    PROVE  /\ Of(a)' = Of(a) \cup {[id |-> a, n |-> n, body |-> b]}
           /\ Numbers(a)' = Numbers(a) \cup {n}
           /\ Topped(Numbers(a))'
<1> DEFINE v == [id |-> a, n |-> n, body |-> b]
<1>1. v.n = n /\ v.id = a OBVIOUS
<1>2. vers' = vers \cup {v} BY DEF AddVersion
<1> HIDE DEF v
<1>3. Of(a)' = Of(a) \cup {v} BY <1>1, <1>2 DEF Of
<1>4. Numbers(a)' = {w.n : w \in Of(a)'} /\ Numbers(a) = {w.n : w \in Of(a)} BY DEF Numbers, Of
<1>5. Numbers(a)' = Numbers(a) \cup {n} BY <1>1, <1>3, <1>4
<1>6. Numbers(a) \subseteq Nat BY DEF TypeOK, VersionRows, Numbers
<1>7. \E m \in Numbers(a) \cup {n} : \A k \in Numbers(a) \cup {n} : m >= k
  <2>1. CASE Numbers(a) = {} BY <2>1
  <2>2. CASE Numbers(a) # {}
    <3>1. PICK m \in Numbers(a) : \A k \in Numbers(a) : m >= k BY <2>2 DEF Topped
    <3>2. CASE m >= n BY <3>1, <3>2
    <3>3. CASE n > m BY <1>6, <3>1, <3>3
    <3> QED BY <1>6, <3>1, <3>2, <3>3
  <2> QED BY <2>1, <2>2
<1>8. Topped(Numbers(a))' BY <1>5, <1>7 DEF Topped
<1> QED BY <1>3, <1>5, <1>8 DEF v

LEMMA AddDense ==
    ASSUME TypeOK, NEW a \in Ids, NEW n \in Nat \ {0}, NEW STATE b, AddVersion(a, n, b),
           Topped(Numbers(a)), Dense(a), ~Numbered(a, n), n <= Cardinality(Of(a)) + 1
    PROVE  /\ n = Cardinality(Of(a)) + 1
           /\ Cardinality(Of(a)') = n
           /\ Dense(a)'
<1> DEFINE v == [id |-> a, n |-> n, body |-> b]
<1>1. Cardinality(Of(a)) \in Nat BY DenseCount
<1>2. n \notin Numbers(a) BY DEF Numbers, Numbered
<1>3. n = Cardinality(Of(a)) + 1 BY <1>1, <1>2 DEF Dense
<1>4. v \notin Of(a) BY DEF Numbered, Of
<1>5. Of(a)' = Of(a) \cup {v} /\ Numbers(a)' = Numbers(a) \cup {n} BY AddNumbers
<1> HIDE DEF v
<1>6. IsFiniteSet(Of(a)') /\ Cardinality(Of(a)') = Cardinality(Of(a)) + 1
  BY <1>4, <1>5, FS_AddElement DEF Dense
<1>7. Numbers(a) \cup {n} = 1 .. n BY <1>1, <1>3 DEF Dense
<1> QED BY <1>3, <1>5, <1>6, <1>7 DEF Dense

LEMMA MoreOf ==
    ASSUME NEW i, NEW n, NEW STATE b, AddVersion(i, n, b)
    PROVE  vers \subseteq vers'
BY DEF AddVersion

LEMMA RecordFirstGood ==
    ASSUME TypeOK, TypeOK', NEW c \in Clients, RecordFirst(c), NEW a \in Ids, Good(a)
    PROVE  Good(a)'
<1>1. req[c] \in [step : Steps, id : Ids, n : Nat, body : Bodies] /\ req[c].step = "record"
  BY DEF TypeOK, RecordFirst
<1>2. Answer(c) /\ UNCHANGED <<row, skipped, pinned, overlapped, haunted>> BY DEF RecordFirst
<1>3. CASE ~Insertable(req[c].id, 1)
  <2>1. UNCHANGED vers /\ cut' = cut \cup {req[c].id} BY <1>3 DEF RecordFirst
  <2>2. Frame(a) BY <1>1, <1>2, <2>1, EndFrame DEF tables
  <2> QED BY <2>2, FrameGood
<1>4. CASE Insertable(req[c].id, 1)
  <2>1. AddVersion(req[c].id, 1, req[c].body) /\ UNCHANGED cut BY <1>4 DEF RecordFirst
  <2>2. CASE a # req[c].id
    <3>1. Of(a)' = Of(a) BY <2>1, <2>2, AddOther
    <3>2. req' = [req EXCEPT ![c] = NoRequest] BY <1>2 DEF Answer
    <3>3. Frame(a) BY <1>1, <1>2, <2>1, <2>2, <3>1, <3>2, IdleRequest, RequestFrame
    <3> QED BY <3>3, FrameGood
  <2>3. CASE a = req[c].id
    <3> DEFINE b == req[c].body
    <3>1. AddVersion(a, 1, b) /\ a \in Alive /\ ~Numbered(a, 1) BY <1>4, <2>1, <2>3 DEF Insertable
    <3>2. Topped(Numbers(a)) BY DEF Good
    <3>3. Of(a)' = Of(a) \cup {[id |-> a, n |-> 1, body |-> b]} /\ Topped(Numbers(a))'
      BY <3>1, <3>2, AddNumbers
    <3>4. ASSUME a \notin haunted
          PROVE  /\ Dense(a)' /\ Requested(a)' /\ Recorded(a)' /\ row'[a].version = 1
                 /\ a \notin pinned \cup overlapped => Newest(a)'
      <4>1. Dense(a) /\ Requested(a) BY <3>1, <3>4 DEF Good
      <4>2. Cardinality(Of(a)) \in Nat BY <4>1, DenseCount
      <4>3. 1 <= Cardinality(Of(a)) + 1 BY <4>2
      <4>4. Dense(a)' /\ Cardinality(Of(a)) = 0 /\ Cardinality(Of(a)') = 1
        BY <3>1, <3>2, <4>1, <4>2, <4>3, AddDense
      <4>5. Of(a) = {} BY <4>1, <4>4, FS_EmptySet DEF Dense
      <4>6. row[a].version = 1 /\ row[a].body = b
        <5>1. Busy(c, a) BY <1>1, <2>3 DEF Busy
        <5>2. ~Held(a) BY <4>5, RecordOf DEF Held
        <5> QED BY <1>1, <4>1, <5>1, <5>2 DEF Requested
      <4>7. row'[a] = row[a] BY <1>2
      <4>8. Recorded(a)' /\ Held(a)' BY <3>3, <4>6, <4>7, RecordOfNext DEF Recorded, Held
      <4>9. \A d \in Clients : Busy(d, a)' => req'[d] = req[d] /\ Busy(d, a)
        BY <1>2, IdleRequest DEF Answer, Busy, TypeOK
      <4>10. Requested(a)'
        <5> SUFFICES ASSUME NEW d \in Clients, Busy(d, a)'
                     PROVE  /\ req'[d].step = "insert" => req'[d].n <= Cardinality(Of(a)') + 1
                            /\ req'[d].step \in {"apply", "pin"} =>
                                   [id |-> a, n |-> req'[d].n, body |-> req'[d].body] \in vers'
          BY <4>8 DEF Requested
        <5>1. req'[d] = req[d] /\ Busy(d, a) BY <4>9
        <5>2. req[d].step = "insert" => req[d].n <= Cardinality(Of(a)) + 1
          BY <4>1, <5>1 DEF Requested
        <5>3. req[d].step = "insert" => req[d].n <= Cardinality(Of(a)') + 1
          <6>1. req[d].n \in Nat BY DEF TypeOK
          <6> QED BY <4>4, <5>2, <6>1
        <5>4. vers \subseteq vers' BY <3>1, MoreOf
        <5> QED BY <4>1, <4>4, <5>1, <5>3, <5>4 DEF Requested
      <4>11. ASSUME a \notin pinned \cup overlapped PROVE Newest(a)'
        <5>1. Newest(a) BY <3>1, <3>4, <4>11 DEF Good
        <5>2. \A v \in Of(a)' : v.n = 1 BY <3>3, <4>5
        <5>3. \A d \in Clients : Applying(d, a)' => req'[d] = req[d] /\ Applying(d, a)
          BY <4>9 DEF Applying, Busy
        <5> QED BY <4>6, <4>7, <5>1, <5>2, <5>3 DEF Newest
      <4> QED BY <4>4, <4>6, <4>7, <4>8, <4>10, <4>11
    <3> QED BY <1>2, <3>3, <3>4 DEF Good
  <2> QED BY <2>2, <2>3
<1> QED BY <1>3, <1>4

LEMMA InsertVersionGood ==
    ASSUME TypeOK, TypeOK', NEW c \in Clients, InsertVersion(c), NEW a \in Ids, Good(a)
    PROVE  Good(a)'
<1>1. /\ req[c] \in [step : Steps, id : Ids, n : Nat, body : Bodies] /\ req[c].step = "insert"
      /\ req[c].n \in Nat \ {0}
  BY DEF TypeOK, InsertVersion
<1>2. UNCHANGED <<row, cut, skipped, pinned, haunted>> BY DEF InsertVersion
<1>3. CASE ~Insertable(req[c].id, req[c].n)
  <2>1. Answer(c) /\ UNCHANGED <<vers, overlapped>> BY <1>3 DEF InsertVersion
  <2>2. Frame(a) BY <1>1, <1>2, <2>1, EndFrame DEF tables
  <2> QED BY <2>2, FrameGood
<1>4. CASE Insertable(req[c].id, req[c].n)
  <2> DEFINE r == [req[c] EXCEPT !.step = "apply"]
             b == req[c].body
  <2>1. AddVersion(req[c].id, req[c].n, b) /\ req' = [req EXCEPT ![c] = r]
    BY <1>1, <1>4 DEF InsertVersion
  <2>2. r.step = "apply" /\ r.id = req[c].id /\ r.n = req[c].n /\ r.body = b BY <1>1
  <2>3. overlapped \subseteq overlapped' BY <1>4 DEF InsertVersion
  <2> HIDE DEF r
  <2>4. CASE a # req[c].id
    <3>1. Of(a)' = Of(a) BY <2>1, <2>4, AddOther
    <3>2. Frame(a) BY <1>1, <1>2, <2>1, <2>2, <2>3, <2>4, <3>1, RequestFrame
    <3> QED BY <3>2, FrameGood
  <2>5. CASE a = req[c].id
    <3>1. PICK n \in Nat \ {0} : n = req[c].n BY <1>1
    <3>2. AddVersion(a, n, b) /\ a \in Alive /\ ~Numbered(a, n)
      BY <1>4, <2>1, <2>5, <3>1 DEF Insertable
    <3>3. Topped(Numbers(a)) BY DEF Good
    <3>4. /\ Of(a)' = Of(a) \cup {[id |-> a, n |-> n, body |-> b]} /\ Topped(Numbers(a))'
          /\ Numbers(a)' = Numbers(a) \cup {n}
      BY <3>2, <3>3, AddNumbers
    <3>5. vers \subseteq vers' BY <3>2, MoreOf
    <3>6. \A d \in Clients : Busy(d, a)' => d = c \/ (req'[d] = req[d] /\ Busy(d, a))
      BY <2>1 DEF Busy, TypeOK
    <3>7. req'[c] = r BY <2>1 DEF TypeOK
    <3>8. ASSUME a \notin haunted
          PROVE  /\ Dense(a)' /\ Requested(a)'
                 /\ a \notin Unrecorded' => Recorded(a)'
                 /\ row'[a].version = 1 \/ row'[a].version \in Numbers(a)'
                 /\ a \notin pinned' \cup overlapped' => Newest(a)'
      <4>1. Dense(a) /\ Requested(a) BY <3>2, <3>8 DEF Good
      <4>2. Cardinality(Of(a)) \in Nat BY <4>1, DenseCount
      <4>3. Busy(c, a) BY <1>1, <2>5 DEF Busy
      <4>4. n <= Cardinality(Of(a)) + 1 BY <1>1, <3>1, <4>1, <4>3 DEF Requested
      <4>5. Dense(a)' /\ n = Cardinality(Of(a)) + 1 /\ Cardinality(Of(a)') = n
        BY <3>2, <3>3, <4>1, <4>4, AddDense
      <4>6. row'[a] = row[a] BY <1>2
      <4>7. (Recorded(a) => Recorded(a)') /\ (Held(a) => Held(a)') BY <3>5, <4>6 DEF Recorded, Held
      <4>8. Requested(a)'
        <5> SUFFICES ASSUME NEW d \in Clients, Busy(d, a)'
                     PROVE  /\ req'[d].step = "insert" => req'[d].n <= Cardinality(Of(a)') + 1
                            /\ req'[d].step \in {"apply", "pin"} =>
                                   [id |-> a, n |-> req'[d].n, body |-> req'[d].body] \in vers'
                            /\ req'[d].step = "record" =>
                                   (row'[a].version = 1 /\ row'[a].body = req'[d].body) \/ Held(a)'
          BY DEF Requested
        <5>1. CASE d = c
          <6>1. [id |-> a, n |-> n, body |-> b] \in vers' BY <3>4, RecordOfNext
          <6> QED BY <2>2, <3>1, <3>7, <5>1, <6>1
        <5>2. CASE req'[d] = req[d] /\ Busy(d, a)
          <6>1. req[d].step = "insert" => req[d].n <= Cardinality(Of(a)) + 1
            BY <4>1, <5>2 DEF Requested
          <6>2. req[d].step = "insert" => req[d].n <= Cardinality(Of(a)') + 1
            <7>1. req[d].n \in Nat BY DEF TypeOK
            <7> QED BY <4>2, <4>5, <6>1, <7>1
          <6>3. req[d].step \in {"apply", "pin"} =>
                    [id |-> a, n |-> req[d].n, body |-> req[d].body] \in vers'
            BY <3>5, <4>1, <5>2 DEF Requested
          <6>4. req[d].step = "record" =>
                    (row'[a].version = 1 /\ row'[a].body = req[d].body) \/ Held(a)'
            BY <4>1, <4>6, <4>7, <5>2 DEF Requested
          <6> QED BY <5>2, <6>2, <6>3, <6>4
        <5> QED BY <3>6, <5>1, <5>2
      <4>9. ASSUME a \notin Unrecorded' PROVE Recorded(a)'
        <5>1. ASSUME NEW d \in Clients, req[d].id = a, req[d].step = "record" PROVE a \in Unrecorded'
          <6>1. req'[d] = req[d] BY <1>1, <2>1, <5>1 DEF TypeOK
          <6> QED BY <5>1, <6>1 DEF Unrecorded
        <5>2. a \notin Unrecorded BY <1>2, <4>9, <5>1 DEF Unrecorded
        <5> QED BY <3>2, <3>8, <4>7, <5>2 DEF Good
      <4>10. row[a].version = 1 \/ row[a].version \in Numbers(a) BY <3>2, <3>8 DEF Good
      <4>11. ASSUME a \notin pinned' \cup overlapped' PROVE Newest(a)'
        <5>1. a \notin pinned \cup overlapped BY <1>2, <2>3, <4>11
        <5>2. Newest(a) BY <3>2, <3>8, <5>1 DEF Good
        <5>3. \A d \in Clients : ~Applying(d, a)
          BY <1>4, <2>5, <4>11 DEF InsertVersion, Applying
        <5>4. \A d \in Clients : Applying(d, a)' => d = c
          BY <3>6, <5>3 DEF Applying, Busy
        <5>5. Applying(c, a)' /\ req'[c].n = n BY <2>2, <2>5, <3>1, <3>7 DEF Applying
        <5>6. ASSUME NEW v \in Of(a)', v.n > row'[a].version PROVE Pending(a, v.n)'
          <6>1. CASE v \in Of(a)
            <7>1. Pending(a, v.n) BY <4>6, <5>2, <5>6, <6>1 DEF Newest
            <7> QED BY <1>2, <5>3, <7>1 DEF Pending
          <6>2. CASE v = [id |-> a, n |-> n, body |-> b]
            <7>1. v.n = n BY <6>2
            <7> QED BY <5>5, <7>1 DEF Pending
          <6> QED BY <3>4, <5>6, <6>1, <6>2
        <5>7. n >= row[a].version
          <6>1. row[a].version \in Nat BY <3>2 DEF TypeOK, Rows
          <6>2. row[a].version <= Cardinality(Of(a)) \/ row[a].version = 1
            BY <4>1, <4>2, <4>10 DEF Dense
          <6> QED BY <4>2, <4>5, <6>1, <6>2
        <5> QED BY <4>6, <5>4, <5>5, <5>6, <5>7 DEF Newest
      <4> QED BY <3>4, <4>5, <4>6, <4>8, <4>9, <4>10, <4>11
    <3> QED BY <1>2, <3>4, <3>8 DEF Good
  <2> QED BY <2>4, <2>5
<1> QED BY <1>3, <1>4

-----------------------------------------------------------------------------
(* Rows *)

LEMMA InsertRowGood ==
    ASSUME TypeOK, TypeOK', NEW c \in Clients, InsertRow(c), NEW a \in Ids, Good(a)
    PROVE  Good(a)'
<1> DEFINE b == req[c].body
<1>1. req[c] \in [step : Steps, id : Ids, n : Nat, body : Bodies] /\ req[c].step = "create"
  BY DEF TypeOK, InsertRow
<1>2. UNCHANGED <<vers, cut, skipped, pinned, overlapped>> BY DEF InsertRow
<1>3. Of(a)' = Of(a) BY <1>2, KeepOf
<1>4. CASE /\ req' = [req EXCEPT ![c] = [NoRequest EXCEPT !.step = "refused"]]
           /\ UNCHANGED <<row, haunted>>
  <2>1. Frame(a) BY <1>1, <1>2, <1>3, <1>4, IdleRequest, RequestFrame
  <2> QED BY <2>1, FrameGood
<1>5. CASE /\ req[c].id \notin Alive
           /\ row' = [d \in Alive \cup {req[c].id} |->
                          IF d = req[c].id THEN [owner |-> "user", version |-> 1, body |-> b] ELSE row[d]]
           /\ req' = [req EXCEPT ![c].step = "record"]
           /\ haunted' = IF Working(req[c].id) = {} THEN haunted ELSE haunted \cup {req[c].id}
  <2> DEFINE r == [req[c] EXCEPT !.step = "record"]
             new == [owner |-> "user", version |-> 1, body |-> b]
  <2>1. r.step = "record" /\ r.id = req[c].id /\ r.body = b BY <1>1
  <2>2. req' = [req EXCEPT ![c] = r] BY <1>5
  <2>3. PICK i \in Ids : i = req[c].id BY <1>1
  <2>4. new \in Rows BY <1>1 DEF Rows
  <2>5. row' = [d \in Alive \cup {i} |-> IF d = i THEN new ELSE row[d]] BY <1>5, <2>3
  <2>6. new.version = 1 /\ new.body = b OBVIOUS
  <2> HIDE DEF r, new
  <2>7. Alive' = Alive \cup {i} /\ row'[i] = new /\ \A d \in Alive \ {i} : row'[d] = row[d]
    BY <2>4, <2>5, AliveUpdate
  <2>8. haunted \subseteq haunted' BY <1>5
  <2>9. CASE a # i
    <3>1. (a \in Alive' <=> a \in Alive) /\ (a \in Alive => row'[a] = row[a]) BY <2>7, <2>9
    <3>2. Frame(a) BY <1>1, <1>2, <1>3, <2>1, <2>2, <2>3, <2>8, <2>9, <3>1, RequestFrame
    <3> QED BY <3>2, FrameGood
  <2>10. CASE a = i
    <3>1. Of(a)' = {} BY <1>3, <1>5, <2>3, <2>10, AbsentOf
    <3>2. Topped(Numbers(a))' /\ Dense(a)' BY <3>1, NoVersions
    <3>3. ASSUME a \notin haunted' PROVE \A d \in Clients : Busy(d, a)' => d = c
      <4>1. Working(a) = {} BY <1>5, <2>3, <2>10, <3>3
      <4>2. \A d \in Clients : ~Busy(d, a) BY <4>1 DEF Working, Busy
      <4> QED BY <2>2, <4>2 DEF Busy, TypeOK
    <3>4. req'[c] = r BY <2>2 DEF TypeOK
    <3>5. a \in Unrecorded' BY <2>1, <2>3, <2>10, <3>4 DEF Unrecorded
    <3>6. row'[a].version = 1 /\ row'[a].body = b BY <2>6, <2>7, <2>10
    <3>7. a \notin haunted' => Requested(a)' BY <2>1, <3>3, <3>4, <3>6 DEF Requested
    <3>8. a \notin haunted' => Newest(a)'
      BY <2>1, <3>1, <3>3, <3>4 DEF Newest, Applying, Busy
    <3> QED BY <3>2, <3>5, <3>6, <3>7, <3>8 DEF Good
  <2> QED BY <2>9, <2>10
<1> QED BY <1>4, <1>5 DEF InsertRow

LEMMA ApplyGood ==
    ASSUME TypeOK, TypeOK', NEW c \in Clients, Apply(c), NEW a \in Ids, Good(a)
    PROVE  Good(a)'
<1>1. /\ req[c] \in [step : Steps, id : Ids, n : Nat, body : Bodies]
      /\ req[c].step \in {"apply", "pin"}
  BY DEF TypeOK, Apply
<1>2. Answer(c) /\ UNCHANGED <<vers, overlapped, haunted>> BY DEF Apply
<1>3. Of(a)' = Of(a) BY <1>2, KeepOf
<1>4. CASE skipped' = skipped \cup {<<req[c].id, req[c].n>>} /\ UNCHANGED <<row, cut, pinned>>
  <2>1. Frame(a) BY <1>1, <1>2, <1>4, EndFrame DEF tables
  <2> QED BY <2>1, FrameGood
<1>5. CASE /\ Owned(req[c].id)
           /\ row' = [row EXCEPT ![req[c].id] = Current(c)]
           /\ cut' = cut \ {req[c].id}
           /\ pinned' = IF req[c].step = "pin" THEN pinned \cup {req[c].id} ELSE pinned
           /\ UNCHANGED skipped
  <2>1. req' = [req EXCEPT ![c] = NoRequest] BY <1>2 DEF Answer
  <2>2. CASE a # req[c].id
    <3>1. (a \in Alive' <=> a \in Alive) /\ (a \in Alive => row'[a] = row[a])
      BY <1>5, <2>2 DEF Alive
    <3>2. Frame(a) BY <1>1, <1>2, <1>3, <1>5, <2>1, <2>2, <3>1, IdleRequest, RequestFrame
    <3> QED BY <3>2, FrameGood
  <2>3. CASE a = req[c].id
    <3>1. a \in Alive /\ a \in Alive' BY <1>5, <2>3 DEF Owned, Alive
    <3>2. row'[a].version = req[c].n /\ row'[a].body = req[c].body
      <4>1. row'[a] = Current(c) BY <1>5, <2>3, <3>1 DEF Alive
      <4> QED BY <4>1 DEF Current
    <3>3. Numbers(a)' = Numbers(a) BY <1>2 DEF Numbers
    <3>4. Topped(Numbers(a))' /\ (a \notin haunted' => Dense(a)')
      BY <1>2, <1>3, <3>3 DEF Good, Dense, Topped
    <3>5. \A d \in Clients : Busy(d, a)' => d # c /\ req'[d] = req[d] /\ Busy(d, a)
      BY <2>1, IdleRequest DEF Busy, TypeOK
    <3>6. ASSUME a \notin haunted
          PROVE  /\ Requested(a)' /\ Recorded(a)' /\ row'[a].version \in Numbers(a)'
                 /\ a \notin pinned' \cup overlapped' => Newest(a)'
      <4>1. Requested(a) BY <3>1, <3>6 DEF Good
      <4>2. Busy(c, a) BY <1>1, <2>3 DEF Busy
      <4>3. [id |-> a, n |-> req[c].n, body |-> req[c].body] \in vers
        BY <1>1, <4>1, <4>2 DEF Requested
      <4>4. Recorded(a)' /\ Held(a)' BY <1>2, <3>2, <4>3 DEF Recorded, Held
      <4>5. Requested(a)'
        <5> SUFFICES ASSUME NEW d \in Clients, Busy(d, a)'
                     PROVE  /\ req'[d].step = "insert" => req'[d].n <= Cardinality(Of(a)') + 1
                            /\ req'[d].step \in {"apply", "pin"} =>
                                   [id |-> a, n |-> req'[d].n, body |-> req'[d].body] \in vers'
          BY <4>4 DEF Requested
        <5>1. req'[d] = req[d] /\ Busy(d, a) BY <3>5
        <5> QED BY <1>2, <1>3, <4>1, <5>1 DEF Requested
      <4>6. row'[a].version \in Numbers(a)'
        <5> DEFINE v == [id |-> a, n |-> req[c].n, body |-> req[c].body]
        <5>1. v \in vers /\ v.id = a /\ v.n = req[c].n BY <4>3
        <5> HIDE DEF v
        <5> QED BY <3>2, <3>3, <5>1 DEF Numbers
      <4>7. ASSUME a \notin pinned' \cup overlapped' PROVE Newest(a)'
        <5>1. req[c].step = "apply" BY <1>1, <1>5, <2>3, <4>7
        <5>2. Newest(a) BY <1>2, <1>5, <3>1, <3>6, <4>7, <5>1 DEF Good
        <5>3. Applying(c, a) BY <2>3, <5>1 DEF Applying
        <5>4. \A d \in Clients : Applying(d, a) => d = c BY <5>2, <5>3 DEF Newest
        <5>5. \A d \in Clients : ~Applying(d, a)' BY <3>5, <5>4 DEF Applying, Busy
        <5>6. ASSUME NEW v \in Of(a)', v.n > row'[a].version PROVE Pending(a, v.n)'
          <6>1. v.n \in Nat /\ req[c].n \in Nat /\ row[a].version \in Nat
            BY <1>1, <1>3, <3>1, <5>6 DEF TypeOK, VersionRows, Rows, Of
          <6>2. req[c].n >= row[a].version BY <5>2, <5>3 DEF Newest
          <6>3. v.n > row[a].version BY <3>2, <5>6, <6>1, <6>2
          <6>4. Pending(a, v.n) BY <1>3, <5>2, <5>6, <6>3 DEF Newest
          <6>5. v.n # req[c].n BY <3>2, <5>6, <6>1
          <6>6. <<a, v.n>> \in skipped BY <5>4, <6>4, <6>5 DEF Pending
          <6> QED BY <1>5, <6>6 DEF Pending
        <5> QED BY <5>5, <5>6 DEF Newest
      <4> QED BY <4>4, <4>5, <4>6, <4>7
    <3> QED BY <1>2, <3>4, <3>6 DEF Good
  <2> QED BY <2>2, <2>3
<1> QED BY <1>4, <1>5 DEF Apply

LEMMA StutterGood ==
    ASSUME TypeOK, TypeOK', UNCHANGED <<tables, req, histVars>>, NEW a \in Ids, Good(a)
    PROVE  Good(a)'
<1>1. Of(a)' = Of(a) BY KeepOf DEF tables
<1>2. Frame(a) BY <1>1 DEF Frame, tables, histVars, Alive
<1> QED BY <1>2, FrameGood

LEMMA ClientGood ==
    ASSUME TypeOK, TypeOK', NEW c \in Clients, Client(c), \A a \in Ids : Good(a)
    PROVE  \A a \in Ids : Good(a)'
<1> SUFFICES ASSUME NEW a \in Ids PROVE Good(a)' OBVIOUS
<1>1. Good(a) OBVIOUS
<1>2. req[c] \in [step : Steps, id : Ids, n : Nat, body : Bodies] BY DEF TypeOK
<1>3. ASSUME NEW i \in Ids, NEW b \in RequestedBodies, CheckNew(c, i, b) PROVE Good(a)'
  <2>1. Request(c, "create", i, 1, b) /\ UNCHANGED <<tables, histVars>> BY <1>3 DEF CheckNew
  <2>2. Frame(a) BY <2>1, NewRequestFrame
  <2> QED BY <1>1, <2>2, FrameGood
<1>4. CASE InsertRow(c) BY <1>1, <1>4, InsertRowGood
<1>5. CASE RecordFirst(c) BY <1>1, <1>5, RecordFirstGood
<1>6. ASSUME NEW i \in Alive, NEW g \in Graphs \cup {None}, NEW cfg \in Configs, ReadRow(c, i, g, cfg)
      PROVE  Good(a)'
  <2> DEFINE b == [graph |-> IF g = None THEN row[i].body.graph ELSE g, config |-> cfg]
  <2>1. i \in Ids BY DEF TypeOK
  <2>2. Request(c, "number", i, 0, b) /\ UNCHANGED <<tables, histVars>> BY <1>6 DEF ReadRow
  <2> HIDE DEF b
  <2>3. Frame(a) BY <2>1, <2>2, NewRequestFrame
  <2> QED BY <1>1, <2>3, FrameGood
<1>7. CASE ReadNumber(c)
  <2>1. Good(req[c].id) BY <1>2
  <2>2. Frame(a) BY <1>7, <2>1, ReadNumberFrame
  <2> QED BY <1>1, <2>2, FrameGood
<1>8. CASE InsertVersion(c) BY <1>1, <1>8, InsertVersionGood
<1>9. ASSUME NEW v \in vers, ReadVersion(c, v) PROVE Good(a)'
  <2>1. Request(c, "pin", v.id, v.n, v.body) /\ UNCHANGED <<tables, histVars>> BY <1>9 DEF ReadVersion
  <2>2. v \in VersionRows BY DEF TypeOK
  <2>3. PICK i \in Ids : i = v.id BY <2>2 DEF VersionRows
  <2>4. PICK n \in Nat : n = v.n BY <2>2 DEF VersionRows
  <2>5. PICK b \in Bodies : b = v.body BY <2>2 DEF VersionRows
  <2>6. v = [id |-> i, n |-> n, body |-> b] BY <2>2, <2>3, <2>4, <2>5 DEF VersionRows
  <2>7. [id |-> i, n |-> n, body |-> b] \in vers BY <2>6
  <2>8. Request(c, "pin", i, n, b) BY <2>1, <2>3, <2>4, <2>5
  <2>9. Frame(a) BY <2>1, <2>7, <2>8, NewRequestFrame
  <2> QED BY <1>1, <2>9, FrameGood
<1>10. CASE Apply(c) BY <1>1, <1>10, ApplyGood
<1>11. CASE Abort(c)
  <2>1. /\ Answer(c) /\ UNCHANGED <<tables, pinned, overlapped, haunted>>
        /\ cut \subseteq cut' /\ skipped \subseteq skipped'
        /\ req[c].step = "record" => req[c].id \in cut'
        /\ req[c].step = "apply" => <<req[c].id, req[c].n>> \in skipped'
    BY <1>11 DEF Abort
  <2>2. Frame(a) BY <2>1, EndFrame
  <2> QED BY <1>1, <2>2, FrameGood
<1> QED BY <1>3, <1>4, <1>5, <1>6, <1>7, <1>8, <1>9, <1>10, <1>11 DEF Client

-----------------------------------------------------------------------------
(* The defaults *)

\* Rows and versions of the defaults are only ever added, by a start.
LEMMA DefaultsKept ==
    ASSUME DefaultsInv,
           \A g \in Graphs : Default[g] \in Alive' => Default[g] \in Alive /\ row'[Default[g]] = row[Default[g]],
           \A g \in Graphs : Default[g] \in Alive => Default[g] \in Alive',
           \A g \in Graphs : Of(Default[g]) \subseteq Of(Default[g])',
           \A c \in Clients : req'[c].step \notin {"idle", "refused"} => req'[c].id \notin Defaults,
           \A p \in Procs : proc'[p] = "starting" => proc[p] = "starting" /\ missing'[p] = missing[p],
           \A p \in Procs : proc'[p] = "up" => proc[p] = "up"
    PROVE  DefaultsInv'
<1>1. Missing' = Missing BY DEF Missing
<1>2. \A g \in Graphs : Default[g] \in Alive' =>
          /\ row'[Default[g]] = [owner |-> "system", version |-> 1, body |-> DefaultBody(g)]
          /\ DefaultVersion(g) \in vers'
  <2> SUFFICES ASSUME NEW g \in Graphs, Default[g] \in Alive'
               PROVE  /\ row'[Default[g]] = [owner |-> "system", version |-> 1, body |-> DefaultBody(g)]
                      /\ DefaultVersion(g) \in vers'
    OBVIOUS
  <2>1. Default[g] \in Alive /\ row'[Default[g]] = row[Default[g]] OBVIOUS
  <2>2. DefaultVersion(g) \in vers BY <2>1 DEF DefaultsInv
  <2>3. DefaultVersion(g) \in vers'
    BY <2>2, RecordOf, RecordOfNext DEF DefaultVersion
  <2> QED BY <2>1, <2>3 DEF DefaultsInv
<1>3. \A p \in Procs : proc'[p] = "starting" => Missing' \subseteq missing'[p]
  BY <1>1 DEF DefaultsInv
<1>4. (\E p \in Procs : proc'[p] = "up") => Missing' = {} BY <1>1 DEF DefaultsInv
<1> QED BY <1>2, <1>3, <1>4 DEF DefaultsInv, Defaults

LEMMA NotUsers == DefaultsInv => \A a \in Defaults : ~Owned(a)
<1> SUFFICES ASSUME DefaultsInv, NEW a \in Defaults, a \in Alive PROVE row[a].owner # "user" BY DEF Owned
<1>1. PICK g \in Graphs : a = Default[g] BY DEF Defaults
<1>2. row[a] = [owner |-> "system", version |-> 1, body |-> DefaultBody(g)] BY <1>1 DEF DefaultsInv
<1> QED BY <1>2

LEMMA DeleteDefaults ==
    ASSUME TypeOK, DefaultsInv, NEW a \in Alive, Delete(a)
    PROVE  DefaultsInv'
<1>1. \A g \in Graphs : Default[g] # a BY NotUsers DEF Delete, Defaults
<1>2. Alive' = Alive \ {a} /\ \A d \in Alive' : row'[d] = row[d] BY DEF Delete, Alive
<1>3. \A g \in Graphs : Of(Default[g])' = Of(Default[g]) BY <1>1 DEF Delete, Of
<1>4. UNCHANGED <<req, proc, missing>> BY DEF Delete, procVars
<1>5. \A c \in Clients : req'[c].step \notin {"idle", "refused"} => req'[c].id \notin Defaults
  BY <1>4 DEF DefaultsInv
<1> QED BY <1>1, <1>2, <1>3, <1>4, <1>5, DefaultsKept

\* The request of c becomes r, which is not on a default.
LEMMA RequestDefaults ==
    ASSUME TypeOK, DefaultsInv, NEW c \in Clients, NEW STATE r, req' = [req EXCEPT ![c] = r],
           r.step \notin {"idle", "refused"} => r.id \notin Defaults
    PROVE  \A d \in Clients : req'[d].step \notin {"idle", "refused"} => req'[d].id \notin Defaults
<1>1. req'[c] = r /\ \A d \in Clients \ {c} : req'[d] = req[d] BY DEF TypeOK
<1> QED BY <1>1 DEF DefaultsInv

LEMMA ClientDefaults ==
    ASSUME TypeOK, TypeOK', DefaultsInv, NEW c \in Clients, Client(c)
    PROVE  DefaultsInv'
<1> DEFINE Rest == /\ \A g \in Graphs : Default[g] \in Alive' =>
                             Default[g] \in Alive /\ row'[Default[g]] = row[Default[g]]
                   /\ \A g \in Graphs : Default[g] \in Alive => Default[g] \in Alive'
                   /\ \A g \in Graphs : Of(Default[g]) \subseteq Of(Default[g])'
                   /\ UNCHANGED <<proc, missing>>
           Clear(r) == r.step \notin {"idle", "refused"} => r.id \notin Defaults
           Kept == \A d \in Clients : req'[d].step \notin {"idle", "refused"} => req'[d].id \notin Defaults
<1>1. Rest /\ Kept => DefaultsInv' BY DefaultsKept
<1>2. req[c] \in [step : Steps, id : Ids, n : Nat, body : Bodies] /\ Clear(req[c])
  BY DEF TypeOK, DefaultsInv
<1>3. UNCHANGED tables /\ UNCHANGED procVars => Rest BY DEF tables, procVars, Alive, Of
<1>4. Answer(c) => Kept
  <2>1. Answer(c) => req' = [req EXCEPT ![c] = NoRequest] BY DEF Answer
  <2> QED BY <2>1, NoRequestType, RequestDefaults
<1>5. ASSUME NEW i \in Ids, NEW b \in RequestedBodies, i \notin {Default[g] : g \in Graphs}, CheckNew(c, i, b)
      PROVE  DefaultsInv'
  <2> DEFINE r == [step |-> "create", id |-> i, n |-> 1, body |-> b]
  <2>1. req' = [req EXCEPT ![c] = r] /\ r.id \notin Defaults BY <1>5 DEF CheckNew, Request, Defaults
  <2> HIDE DEF r
  <2>2. Kept BY <2>1, RequestDefaults
  <2>3. Rest BY <1>3, <1>5 DEF CheckNew
  <2> HIDE DEF Rest, Kept
  <2> QED BY <1>1, <2>2, <2>3
<1>6. CASE InsertRow(c)
  <2>1. req[c].step = "create" /\ req[c].id \notin Defaults BY <1>2, <1>6 DEF InsertRow
  <2>2. UNCHANGED vers /\ UNCHANGED procVars BY <1>6 DEF InsertRow
  <2>3. /\ \A d \in Alive : d \in Alive' /\ row'[d] = row[d]
        /\ \A d \in Alive' : d \in Alive \/ d = req[c].id
    <3>1. CASE UNCHANGED row BY <3>1 DEF Alive
    <3>2. CASE /\ req[c].id \notin Alive
               /\ row' = [d \in Alive \cup {req[c].id} |->
                              IF d = req[c].id THEN [owner |-> "user", version |-> 1, body |-> req[c].body]
                              ELSE row[d]]
      BY <3>2 DEF Alive
    <3> QED BY <1>6, <3>1, <3>2 DEF InsertRow
  <2>4. Rest BY <2>1, <2>2, <2>3 DEF Defaults, Of, procVars
  <2>5. Kept
    <3>1. CASE req' = [req EXCEPT ![c] = [NoRequest EXCEPT !.step = "refused"]]
      BY <3>1, NoRequestType, RequestDefaults
    <3>2. CASE req' = [req EXCEPT ![c].step = "record"]
      <4> DEFINE r == [req[c] EXCEPT !.step = "record"]
      <4>1. req' = [req EXCEPT ![c] = r] /\ r.id = req[c].id BY <1>2, <3>2
      <4> HIDE DEF r
      <4> QED BY <2>1, <4>1, RequestDefaults
    <3> QED BY <1>6, <3>1, <3>2 DEF InsertRow
  <2> HIDE DEF Rest, Kept
  <2> QED BY <1>1, <2>4, <2>5
<1>7. CASE RecordFirst(c) \/ InsertVersion(c)
  <2>1. UNCHANGED row /\ UNCHANGED procVars /\ vers \subseteq vers'
    BY <1>7, MoreOf DEF RecordFirst, InsertVersion, AddVersion
  <2>2. Rest BY <2>1 DEF Of, Alive, procVars
  <2>3. Kept
    <3>1. CASE Answer(c) BY <1>4, <3>1
    <3>2. CASE req[c].step = "insert" /\ req' = [req EXCEPT ![c].step = "apply"]
      <4> DEFINE r == [req[c] EXCEPT !.step = "apply"]
      <4>1. req' = [req EXCEPT ![c] = r] /\ r.id = req[c].id BY <1>2, <3>2
      <4> HIDE DEF r
      <4> QED BY <1>2, <3>2, <4>1, RequestDefaults
    <3> QED BY <1>7, <3>1, <3>2 DEF RecordFirst, InsertVersion
  <2> HIDE DEF Rest, Kept
  <2> QED BY <1>1, <2>2, <2>3
<1>8. ASSUME NEW i \in Alive, NEW g \in Graphs \cup {None}, NEW cfg \in Configs, ReadRow(c, i, g, cfg)
      PROVE  DefaultsInv'
  <2> DEFINE b == [graph |-> IF g = None THEN row[i].body.graph ELSE g, config |-> cfg]
             r == [step |-> "number", id |-> i, n |-> 0, body |-> b]
  <2>1. req' = [req EXCEPT ![c] = r] /\ r.id = i BY <1>8 DEF ReadRow, Request
  <2>2. i \notin Defaults BY <1>8, NotUsers DEF ReadRow
  <2> HIDE DEF r, b
  <2>3. Kept BY <2>1, <2>2, RequestDefaults
  <2>4. Rest BY <1>3, <1>8 DEF ReadRow
  <2> HIDE DEF Rest, Kept
  <2> QED BY <1>1, <2>3, <2>4
<1>9. CASE ReadNumber(c)
  <2> DEFINE r == [req[c] EXCEPT !.step = "insert", !.n = NextNumber(req[c].id)]
  <2>4. r.id = req[c].id BY <1>2
  <2>5. req' = [req EXCEPT ![c] = r] /\ req[c].step = "number" BY <1>9 DEF ReadNumber
  <2>1. req' = [req EXCEPT ![c] = r] /\ req[c].step = "number" /\ r.id = req[c].id
    <3> HIDE DEF r
    <3> QED BY <2>4, <2>5
  <2> HIDE DEF r
  <2>2. Kept BY <1>2, <2>1, RequestDefaults
  <2>3. Rest BY <1>3, <1>9 DEF ReadNumber
  <2> HIDE DEF Rest, Kept
  <2> QED BY <1>1, <2>2, <2>3
<1>10. ASSUME NEW v \in vers, ReadVersion(c, v) PROVE DefaultsInv'
  <2> DEFINE r == [step |-> "pin", id |-> v.id, n |-> v.n, body |-> v.body]
  <2>1. req' = [req EXCEPT ![c] = r] /\ r.id = v.id BY <1>10 DEF ReadVersion, Request
  <2>2. v.id \notin Defaults BY <1>10, NotUsers DEF ReadVersion
  <2> HIDE DEF r
  <2>3. Kept BY <2>1, <2>2, RequestDefaults
  <2>4. Rest BY <1>3, <1>10 DEF ReadVersion
  <2> HIDE DEF Rest, Kept
  <2> QED BY <1>1, <2>3, <2>4
<1>11. CASE Apply(c)
  <2>1. UNCHANGED vers /\ UNCHANGED procVars /\ Answer(c) BY <1>11 DEF Apply
  <2>2. req[c].id \notin Defaults BY <1>2, <1>11 DEF Apply
  <2>3. Alive' = Alive /\ \A d \in Alive : d # req[c].id => row'[d] = row[d]
    BY <1>11 DEF Apply, Alive
  <2>4. Rest BY <2>1, <2>2, <2>3 DEF Defaults, Of, procVars
  <2>5. Kept BY <1>4, <2>1
  <2> HIDE DEF Rest, Kept
  <2> QED BY <1>1, <2>4, <2>5
<1>12. CASE Abort(c)
  <2>1. Rest BY <1>3, <1>12 DEF Abort
  <2>2. Kept BY <1>4, <1>12 DEF Abort
  <2> HIDE DEF Rest, Kept
  <2> QED BY <1>1, <2>1, <2>2
<1> QED BY <1>5, <1>6, <1>7, <1>8, <1>9, <1>10, <1>11, <1>12 DEF Client

LEMMA ProcessDefaults ==
    ASSUME TypeOK, TypeOK', DefaultsInv, NEW p \in Procs, Process(p) \/ ProcessDies(p)
    PROVE  DefaultsInv'
<1>1. UNCHANGED req BY DEF Process, SelectDefaults, CommitDefaults, ProcessDies
<1>2. \A c \in Clients : req'[c].step \notin {"idle", "refused"} => req'[c].id \notin Defaults
  BY <1>1 DEF DefaultsInv
<1>3. \A q \in Procs \ {p} : proc'[q] = proc[q] /\ missing'[q] = missing[q]
  BY DEF TypeOK, Process, SelectDefaults, CommitDefaults, ProcessDies
<1>4. CASE SelectDefaults(p)
  <2>1. UNCHANGED tables /\ proc'[p] = "starting" /\ missing'[p] = Missing
    BY <1>4 DEF SelectDefaults, TypeOK
  <2>2. Missing' = Missing BY <2>1 DEF Missing, tables, Alive
  <2>3. \A q \in Procs : proc'[q] = "starting" => Missing' \subseteq missing'[q]
    BY <1>3, <2>1, <2>2 DEF DefaultsInv
  <2>4. (\E q \in Procs : proc'[q] = "up") => Missing' = {} BY <1>3, <2>1, <2>2 DEF DefaultsInv
  <2>5. \A g \in Graphs : Default[g] \in Alive' =>
            /\ row'[Default[g]] = [owner |-> "system", version |-> 1, body |-> DefaultBody(g)]
            /\ DefaultVersion(g) \in vers'
    BY <2>1 DEF DefaultsInv, tables, Alive
  <2> QED BY <1>2, <2>3, <2>4, <2>5 DEF DefaultsInv, Defaults
<1>5. CASE (CommitDefaults(p) /\ proc'[p] # "up") \/ ProcessDies(p)
  <2>1. UNCHANGED tables /\ proc'[p] = "down" BY <1>5 DEF CommitDefaults, ProcessDies, TypeOK
  <2>2. \A g \in Graphs : Of(Default[g])' = Of(Default[g]) BY <2>1, KeepOf DEF tables
  <2>3. \A q \in Procs : proc'[q] = "starting" => proc[q] = "starting" /\ missing'[q] = missing[q]
    BY <1>3, <2>1
  <2>4. \A q \in Procs : proc'[q] = "up" => proc[q] = "up" BY <1>3, <2>1
  <2> QED BY <1>2, <2>1, <2>2, <2>3, <2>4, DefaultsKept DEF tables, Alive
<1>6. CASE CommitDefaults(p) /\ proc'[p] = "up"
  <2>1. proc[p] = "starting" /\ missing[p] \subseteq Graphs BY <1>6 DEF CommitDefaults, TypeOK
  <2>2. Missing \subseteq missing[p] BY <2>1 DEF DefaultsInv
  <2>3. Alive' = Alive \cup {Default[g] : g \in missing[p]} BY <1>6, CommitEffect
  <2>4. Missing' = {} BY <2>2, <2>3 DEF Missing
  <2>5. ASSUME NEW g \in Graphs
        PROVE  /\ row'[Default[g]] = [owner |-> "system", version |-> 1, body |-> DefaultBody(g)]
               /\ DefaultVersion(g) \in vers'
    <3>1. vers' = vers \cup {DefaultVersion(h) : h \in missing[p]}
      BY <1>6, CommitEffect
    <3>2. CASE g \in missing[p]
      <4>1. row'[Default[g]] = [owner |-> "system", version |-> 1, body |-> DefaultBody(g)]
        BY <1>6, <3>2, CommitEffect
      <4> QED BY <3>1, <3>2, <4>1
    <3>3. CASE g \notin missing[p]
      <4>1. Default[g] \in Alive BY <2>2, <3>3 DEF Missing
      <4>2. row'[Default[g]] = row[Default[g]] BY <1>6, <4>1, CommitEffect
      <4> QED BY <3>1, <4>1, <4>2 DEF DefaultsInv
    <3> QED BY <3>2, <3>3
  <2> QED BY <1>2, <2>4, <2>5 DEF DefaultsInv, Defaults
<1> QED BY <1>4, <1>5, <1>6 DEF Process

-----------------------------------------------------------------------------
(* The invariant is inductive *)

LEMMA InitInv == Init => IInv
<1> SUFFICES ASSUME Init PROVE IInv OBVIOUS
<1>1. TypeOK BY InitType
<1>2. Alive = {} /\ vers = {} BY DEF Init, Alive
<1>3. DefaultsInv BY <1>2, NoRequestType DEF DefaultsInv, Init
<1>4. ASSUME NEW a \in Ids PROVE Good(a)
  <2>1. Of(a) = {} /\ Numbers(a) = {} BY <1>2 DEF Of, Numbers
  <2>2. IsFiniteSet({}) /\ Cardinality({}) = 0 BY FS_EmptySet
  <2>3. Dense(a) BY <2>1, <2>2 DEF Dense
  <2> QED BY <1>2, <2>1, <2>3 DEF Good, Topped
<1> QED BY <1>1, <1>3, <1>4 DEF IInv

LEMMA StepInv == IInv /\ [Next]_vars => IInv'
<1> SUFFICES ASSUME IInv, [Next]_vars PROVE IInv' OBVIOUS
<1>1. TypeOK /\ DefaultsInv /\ \A a \in Ids : Good(a) BY DEF IInv
<1>2. ASSUME NEW p \in Procs, SelectDefaults(p) PROVE IInv'
  <2>1. TypeOK' BY <1>1, <1>2, SelectDefaultsType
  <2>2. UNCHANGED <<tables, req, histVars>> BY <1>2 DEF SelectDefaults
  <2>3. \A a \in Ids : Good(a)' BY <1>1, <2>1, <2>2, StutterGood
  <2>4. DefaultsInv' BY <1>1, <1>2, <2>1, ProcessDefaults DEF Process
  <2> QED BY <2>1, <2>3, <2>4 DEF IInv
<1>3. ASSUME NEW p \in Procs, CommitDefaults(p) PROVE IInv'
  <2>1. TypeOK' BY <1>1, <1>3, CommitDefaultsType
  <2>2. \A a \in Ids : Good(a)' BY <1>1, <1>3, <2>1, CommitDefaultsGood
  <2>3. DefaultsInv' BY <1>1, <1>3, <2>1, ProcessDefaults DEF Process
  <2> QED BY <2>1, <2>2, <2>3 DEF IInv
<1>4. ASSUME NEW p \in Procs, ProcessDies(p) PROVE IInv'
  <2>1. TypeOK' BY <1>1, <1>4, ProcessDiesType
  <2>2. UNCHANGED <<tables, req, histVars>> BY <1>4 DEF ProcessDies
  <2>3. \A a \in Ids : Good(a)' BY <1>1, <2>1, <2>2, StutterGood
  <2>4. DefaultsInv' BY <1>1, <1>4, <2>1, ProcessDefaults
  <2> QED BY <2>1, <2>3, <2>4 DEF IInv
<1>5. ASSUME NEW c \in Clients, Client(c) PROVE IInv'
  <2>1. Topped(Numbers(req[c].id)) BY <1>1 DEF TypeOK, Good
  <2>2. TypeOK' BY <1>1, <1>5, <2>1, ClientType
  <2>3. \A a \in Ids : Good(a)' BY <1>1, <1>5, <2>2, ClientGood
  <2>4. DefaultsInv' BY <1>1, <1>5, <2>2, ClientDefaults
  <2> QED BY <2>2, <2>3, <2>4 DEF IInv
<1>6. ASSUME NEW a \in Alive, Delete(a) PROVE IInv'
  <2>1. TypeOK' BY <1>1, <1>6, DeleteType
  <2>2. \A d \in Ids : Good(d)' BY <1>1, <1>6, <2>1, DeleteGood
  <2>3. DefaultsInv' BY <1>1, <1>6, DeleteDefaults
  <2> QED BY <2>1, <2>2, <2>3 DEF IInv
<1>7. CASE UNCHANGED vars
  <2>1. TypeOK'
    BY <1>1, <1>7, TypeParts, SameTables
    DEF vars, tables, procVars, histVars, TypeOK, Tables, Requests, Processes, Histories
  <2>2. UNCHANGED <<tables, req, histVars>> BY <1>7 DEF vars
  <2>3. \A a \in Ids : Good(a)' BY <1>1, <2>1, <2>2, StutterGood
  <2>4. \A g \in Graphs : Of(Default[g])' = Of(Default[g]) BY <2>2, KeepOf DEF tables
  <2>5. \A c \in Clients : req'[c].step \notin {"idle", "refused"} => req'[c].id \notin Defaults
    BY <1>1, <2>2 DEF DefaultsInv
  <2>6. DefaultsInv'
    BY <1>1, <1>7, <2>2, <2>4, <2>5, DefaultsKept DEF vars, tables, procVars, Alive
  <2> QED BY <2>1, <2>3, <2>6 DEF IInv
<1> QED BY <1>2, <1>3, <1>4, <1>5, <1>6, <1>7 DEF Next, Process

LEMMA InvHolds == Spec => []IInv
BY InitInv, StepInv, PTL DEF Spec

-----------------------------------------------------------------------------
(* Results *)

\* Every request, process, row and version of a reachable state is of its type,
\* and no version is without its assistant.
THEOREM TypeCorrect == Spec => []TypeOK
<1>1. IInv => TypeOK BY DEF IInv
<1> QED BY <1>1, InvHolds, PTL

\* Versions are numbered 1, 2, 3, ... without a gap or a duplicate, whatever
\* updates race for the next number and wherever requests are cut off.
THEOREM NumbersAreDense == Spec => []VersionsAreNumbered
<1>1. ASSUME IInv PROVE VersionsAreNumbered
  <2> SUFFICES ASSUME NEW a \in Ids \ haunted PROVE {v.n : v \in Of(a)} = 1 .. Cardinality(Of(a))
    BY DEF VersionsAreNumbered, Of
  <2>1. Dense(a) BY <1>1 DEF IInv, Good
  <2> QED BY <2>1 DEF Dense, Numbers, Of
<1> QED BY <1>1, InvHolds, PTL

\* What an assistant runs with is what the version it names records, but for a
\* creation cut short before its version was written.
THEOREM LatestStaysRecorded == Spec => []LatestIsRecorded
<1>1. ASSUME IInv PROVE LatestIsRecorded
  <2> SUFFICES ASSUME NEW a \in Alive \ (Unrecorded \cup haunted)
               PROVE  row[a].owner = "user" => [id |-> a, n |-> row[a].version, body |-> row[a].body] \in vers
    BY DEF LatestIsRecorded
  <2>1. Recorded(a) BY <1>1 DEF IInv, Good, TypeOK
  <2> QED BY <2>1 DEF Recorded, Held
<1> QED BY <1>1, InvHolds, PTL

\* The current version is the newest, unless the user pinned another, updates
\* overlapped, or the newer one never came, or has not come, to its second commit.
THEOREM NewestIsCurrent == Spec => []RowIsNewest
<1>1. ASSUME IInv PROVE RowIsNewest
  <2> SUFFICES ASSUME NEW a \in Alive \ (pinned \cup overlapped \cup haunted), NEW v \in vers,
                      v.id = a, v.n > row[a].version
               PROVE  \/ <<a, v.n>> \in skipped
                      \/ \E c \in Clients : req[c].step = "apply" /\ req[c].id = a /\ req[c].n = v.n
    BY DEF RowIsNewest
  <2>1. Newest(a) BY <1>1 DEF IInv, Good, TypeOK
  <2>2. Pending(a, v.n) BY <2>1 DEF Newest, Of
  <2> QED BY <2>2 DEF Pending, Applying
<1> QED BY <1>1, InvHolds, PTL

\* While a process is up every graph has its default assistant and that has its
\* first version, whatever starts race and whatever users delete.
THEOREM DefaultsAreEnsured == Spec => []DefaultsStand
<1>1. ASSUME IInv PROVE DefaultsStand
  <2>1. DefaultsInv BY <1>1 DEF IInv
  <2>2. (\E p \in Procs : proc[p] = "up") => \A g \in Graphs : Default[g] \in Alive
    BY <2>1 DEF DefaultsInv, Missing
  <2> QED BY <2>1, <2>2 DEF DefaultsInv, DefaultsStand
<1> QED BY <1>1, InvHolds, PTL
=============================================================================
