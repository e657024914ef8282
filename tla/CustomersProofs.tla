--------------------------- MODULE CustomersProofs ---------------------------
(***************************************************************************)
(* Theorems about Customers, for any sets of requests, users, customers    *)
(* and tax ids, under every fault.                                         *)
(***************************************************************************)
EXTENDS Customers, TLAPS

-----------------------------------------------------------------------------
(* What holds of a handler at each step.                                    *)

Writes == {"create", "update", "delete"}

(* The head of the request has set what the request is about.               *)
Known(r) ==
    pc[r] # "start" => /\ user[r] \in Users
                       /\ op[r] # "list" => target[r] \in Ids
                       /\ op[r] = "create" => target[r] = r

(* Each step belongs to some operations only.                               *)
Duty(r) ==
    /\ pc[r] \in {"lookup", "query", "fill"} => op[r] \in {"list", "get"}
    /\ pc[r] \in {"lookup", "query"} /\ op[r] = "list" => CanList(user[r])
    /\ pc[r] = "load" => op[r] \in {"update", "delete"}
    /\ pc[r] \in {"commit", "invalidate"} => op[r] \in Writes

Rewrites(r) == pc[r] = "commit" /\ op[r] # "create"

(* A writer holds the row it is about.                                      *)
Held(r) == pc[r] = "invalidate" \/ Rewrites(r) => seen[r][target[r]] \in Row

Conduct == \A r \in Requests : Known(r) /\ Duty(r) /\ Held(r)

Inv == CustomersTypeOK /\ Conduct

-----------------------------------------------------------------------------
(* A part of a table is a table.                                            *)
LEMMA PartType ==
    ASSUME NEW k, NEW table \in Table
    PROVE  Part(k, table) \in Table
BY DEF Part, Table

(* The part a key stands for has the row of each customer it covers.        *)
LEMMA PartRow ==
    ASSUME NEW k, NEW table \in Table, NEW c \in Ids
    PROVE  /\ Part(k, table)[c] # Absent =>
                 /\ Part(k, table)[c] = table[c]
                 /\ k \in {c, table[c].owner, Everyone}
           /\ k \in {c, table[c].owner, Everyone} => Part(k, table)[c] = table[c]
BY DEF Part, Covers, Table

(* The labels, one by one.                                                  *)
LEMMA LabelNames ==
    /\ Ended \subseteq Labels
    /\ "start" \in Labels /\ "lookup" \in Labels /\ "query" \in Labels
    /\ "fill" \in Labels /\ "load" \in Labels /\ "commit" \in Labels
    /\ "invalidate" \in Labels /\ "done" \in Labels /\ "denied" \in Labels
    /\ "missing" \in Labels /\ "conflict" \in Labels /\ "failed" \in Labels
BY DEF Labels, Ended

LEMMA EmptyTableType == EmptyTable \in Table
BY DEF EmptyTable, Table

(* Where a handler goes next and what it holds then.                        *)
LEMMA MoveType ==
    ASSUME CustomersTypeOK, NEW r \in Requests, NEW label \in Labels
    PROVE  /\ Goto(r, label) => pc' \in [Requests -> Labels]
           /\ \A table \in Table : See(r, table) => seen' \in [Requests -> Table]
           /\ End(r, label) => /\ pc' \in [Requests -> Labels]
                               /\ seen' \in [Requests -> Table]
<1>2. Goto(r, label) => pc' \in [Requests -> Labels]
  BY DEF Goto, CustomersTypeOK
<1>3. ASSUME NEW table \in Table, See(r, table)
      PROVE  seen' \in [Requests -> Table]
  BY <1>3 DEF See, CustomersTypeOK
<1> QED BY <1>2, <1>3, EmptyTableType DEF End

(* The key a reader looks at is one.                                        *)
LEMMA ReadKeyType ==
    ASSUME Inv, NEW r \in Requests, pc[r] \in {"lookup", "query", "fill"}
    PROVE  ReadKey(r) \in Keys
<1>1. user[r] \in Users /\ (op[r] = "get" => target[r] \in Ids)
  BY DEF Inv, Conduct, Known
<1> QED BY <1>1 DEF ReadKey, ListKey, Keys

(* The keys a writer outdates are keys.                                     *)
LEMMA OutdatedKeysType ==
    ASSUME Inv, NEW r \in Requests, pc[r] = "invalidate"
    PROVE  Lost(r) \subseteq Keys
<1>1. target[r] \in Ids /\ seen[r][target[r]] \in Row
  BY DEF Inv, Conduct, Known, Duty, Held, Writes
<1>2. seen[r][target[r]].owner \in Users
  BY <1>1 DEF Row
<1> QED BY <1>1, <1>2 DEF Lost, Keys

(* A query answers the part its reader's key stands for.                    *)
LEMMA SelectedIsPart ==
    ASSUME NEW r \in Requests
    PROVE  Selected(r) = Part(ReadKey(r), row)
BY DEF Selected, ReadKey, ListKey

-----------------------------------------------------------------------------
(* Types.                                                                   *)

LEMMA CustomersTypeStep ==
    ASSUME Inv, [Next]_vars
    PROVE  CustomersTypeOK'
<1> USE LabelNames
<1>0. CustomersTypeOK
  BY DEF Inv
<1>1. ASSUME NEW r \in Requests, Arrive(r) PROVE CustomersTypeOK'
  <2>1. ASSUME NEW u \in Users, NEW o \in Operations
        PROVE  FirstLabel(u, o) \in Labels
    BY DEF FirstLabel
  <2>2. pc' \in [Requests -> Labels]
    BY <1>0, <1>1, <2>1, MoveType DEF Arrive
  <2>3. target' \in [Requests -> Ids \cup {Nobody}]
    BY <1>0, <1>1 DEF Arrive, Ids, CustomersTypeOK
  <2>4. op' \in [Requests -> Operations] /\ user' \in [Requests -> Users \cup {Nobody}]
    BY <1>0, <1>1 DEF Arrive, CustomersTypeOK
  <2>5. UNCHANGED <<row, cache, seen, outdated>>
    BY <1>1 DEF Arrive
  <2> QED BY <1>0, <2>2, <2>3, <2>4, <2>5 DEF CustomersTypeOK
<1>2. ASSUME NEW r \in Requests, Lookup(r) PROVE CustomersTypeOK'
  <2>1. ReadKey(r) \in Keys
    BY <1>2, ReadKeyType DEF Lookup
  <2>2. cache[ReadKey(r)] # Absent => cache[ReadKey(r)] \in Table
    BY <1>0, <2>1 DEF CustomersTypeOK
  <2>3. pc' \in [Requests -> Labels] /\ seen' \in [Requests -> Table]
    BY <1>0, <1>2, <2>2, MoveType DEF Lookup, CustomersTypeOK
  <2>4. UNCHANGED <<row, cache, control, outdated>>
    BY <1>2 DEF Lookup
  <2> QED BY <1>0, <2>3, <2>4 DEF CustomersTypeOK, control
<1>3. ASSUME NEW r \in Requests, LookupFails(r) \/ FillFails(r) PROVE CustomersTypeOK'
  <2>1. pc' \in [Requests -> Labels]
    BY <1>0, <1>3, MoveType DEF LookupFails, FillFails
  <2> QED BY <1>0, <1>3, <2>1 DEF LookupFails, FillFails, CustomersTypeOK, control
<1>4. ASSUME NEW r \in Requests, Query(r) PROVE CustomersTypeOK'
  <2>1. Selected(r) \in Table
    BY <1>0, PartType DEF Selected, CustomersTypeOK
  <2>2. pc' \in [Requests -> Labels] /\ seen' \in [Requests -> Table]
    BY <1>0, <1>4, <2>1, MoveType DEF Query, CustomersTypeOK
  <2> QED BY <1>0, <1>4, <2>2 DEF Query, CustomersTypeOK, control
<1>5. ASSUME NEW r \in Requests, Fill(r) PROVE CustomersTypeOK'
  <2>1. ReadKey(r) \in Keys /\ seen[r] \in Table
    BY <1>0, <1>5, ReadKeyType DEF Fill, CustomersTypeOK
  <2>2. cache' \in [Keys -> Table \cup {Absent}] /\ outdated' \subseteq Keys
    BY <1>0, <1>5, <2>1 DEF Fill, CustomersTypeOK
  <2>3. pc' \in [Requests -> Labels]
    BY <1>0, <1>5, MoveType DEF Fill
  <2> QED BY <1>0, <1>5, <2>2, <2>3 DEF Fill, CustomersTypeOK, control
<1>6. ASSUME NEW r \in Requests, Load(r) PROVE CustomersTypeOK'
  <2>1. Part(target[r], row) \in Table
    BY <1>0, PartType DEF CustomersTypeOK
  <2>2. pc' \in [Requests -> Labels] /\ seen' \in [Requests -> Table]
    BY <1>0, <1>6, <2>1, MoveType DEF Load, CustomersTypeOK
  <2> QED BY <1>0, <1>6, <2>2 DEF Load, CustomersTypeOK, control
<1>7. ASSUME NEW r \in Requests, Create(r) PROVE CustomersTypeOK'
  <2>1. row' \in Table
    <3>1. user[r] \in Users /\ r \in Ids
      BY <1>7 DEF Create, Inv, Conduct, Known, Ids
    <3> QED BY <1>0, <1>7, <3>1 DEF Create, CustomersTypeOK, Table, Row
  <2>2. Part(r, row') \in Table
    BY <2>1, PartType
  <2>3. pc' \in [Requests -> Labels] /\ seen' \in [Requests -> Table]
    BY <1>0, <1>7, <2>2, MoveType DEF Create, CustomersTypeOK
  <2> QED BY <1>0, <1>7, <2>1, <2>3 DEF Create, CustomersTypeOK, control
<1>8. ASSUME NEW r \in Requests, Update(r) PROVE CustomersTypeOK'
  <2>1. row' \in Table
    <3>1. target[r] \in Ids
      BY <1>8 DEF Update, Inv, Conduct, Known
    <3>2. ASSUME NEW t \in TaxIds, row[target[r]] # Absent PROVE UpdatedRow(r, t) \in Row
      BY <1>0, <3>1, <3>2 DEF UpdatedRow, CustomersTypeOK, Table, Row
    <3> QED BY <1>0, <1>8, <3>1, <3>2 DEF Update, CustomersTypeOK, Table
  <2>2. Part(target[r], row') \in Table
    BY <2>1, PartType
  <2>3. pc' \in [Requests -> Labels] /\ seen' \in [Requests -> Table]
    BY <1>0, <1>8, <2>2, MoveType DEF Update, CustomersTypeOK
  <2> QED BY <1>0, <1>8, <2>1, <2>3 DEF Update, CustomersTypeOK, control
<1>9. ASSUME NEW r \in Requests, Delete(r) PROVE CustomersTypeOK'
  <2>1. row' \in Table
    BY <1>0, <1>9 DEF Delete, CustomersTypeOK, Table
  <2>2. pc' \in [Requests -> Labels] /\ seen' \in [Requests -> Table]
    BY <1>0, <1>9, MoveType DEF Delete, CustomersTypeOK
  <2> QED BY <1>0, <1>9, <2>1, <2>2 DEF Delete, CustomersTypeOK, control
<1>10. ASSUME NEW r \in Requests, Invalidate(r) PROVE CustomersTypeOK'
  <2>1. pc' \in [Requests -> Labels] /\ seen' \in [Requests -> Table]
    BY <1>0, <1>10, MoveType DEF Invalidate
  <2> QED BY <1>0, <1>10, <2>1 DEF Invalidate, CustomersTypeOK, control
<1>11. ASSUME NEW r \in Requests, InvalidateFails(r) \/ Crash(r) PROVE CustomersTypeOK'
  <2>1. pc' \in [Requests -> Labels] /\ seen' \in [Requests -> Table]
    BY <1>0, <1>11, MoveType DEF InvalidateFails, Crash
  <2>2. outdated' \subseteq Keys
    BY <1>0, <1>11, OutdatedKeysType DEF InvalidateFails, Crash, CustomersTypeOK
  <2> QED BY <1>0, <1>11, <2>1, <2>2 DEF InvalidateFails, Crash, CustomersTypeOK, control
<1>12. ASSUME NEW k \in Keys, Lapse(k) PROVE CustomersTypeOK'
  BY <1>0, <1>12 DEF Lapse, CustomersTypeOK, control
<1>13. UNCHANGED vars => CustomersTypeOK'
  BY <1>0 DEF vars, CustomersTypeOK, control
<1> QED BY <1>1, <1>2, <1>3, <1>4, <1>5, <1>6, <1>7, <1>8, <1>9, <1>10, <1>11, <1>12, <1>13
        DEF Next, Handle, Idle

-----------------------------------------------------------------------------
(* What the handlers do, and what they hold.                                *)

(* A step of one handler leaves the others where they are.                  *)
LEMMA OnlyActor ==
    ASSUME Inv, NEW r \in Requests, Handle(r) \/ Crash(r),
           NEW q \in Requests, q # r
    PROVE  /\ pc'[q] = pc[q] /\ op'[q] = op[q] /\ user'[q] = user[q]
           /\ target'[q] = target[q] /\ seen'[q] = seen[q]
<1>0. /\ pc \in [Requests -> Labels] /\ op \in [Requests -> Operations]
      /\ user \in [Requests -> Users \cup {Nobody}]
      /\ target \in [Requests -> Ids \cup {Nobody}]
      /\ seen \in [Requests -> Table]
  BY DEF Inv, CustomersTypeOK
<1>1. ASSUME NEW label, Goto(r, label) PROVE pc'[q] = pc[q]
  BY <1>0, <1>1 DEF Goto
<1>2. ASSUME NEW table, See(r, table) PROVE seen'[q] = seen[q]
  BY <1>0, <1>2 DEF See
<1>3. ASSUME NEW label, End(r, label) PROVE pc'[q] = pc[q] /\ seen'[q] = seen[q]
  BY <1>1, <1>2, <1>3 DEF End
<1>4. CASE Arrive(r)
  BY <1>0, <1>1, <1>4 DEF Arrive
<1>5. CASE Lookup(r) \/ LookupFails(r) \/ Query(r) \/ Fill(r) \/ FillFails(r) \/ Load(r)
  BY <1>1, <1>2, <1>5
     DEF Lookup, LookupFails, Query, Fill, FillFails, Load, control
<1>6. CASE Create(r) \/ Update(r) \/ Delete(r)
  BY <1>1, <1>2, <1>3, <1>6 DEF Create, Update, Delete, control
<1>7. CASE Invalidate(r) \/ InvalidateFails(r) \/ Crash(r)
  BY <1>3, <1>7 DEF Invalidate, InvalidateFails, Crash, control
<1> QED BY <1>4, <1>5, <1>6, <1>7 DEF Handle

(* Where a handler is after a move.                                         *)
LEMMA Arrives ==
    ASSUME Inv, NEW r \in Requests, NEW label
    PROVE  /\ Goto(r, label) => pc'[r] = label
           /\ \A table : See(r, table) => seen'[r] = table
           /\ End(r, label) => pc'[r] = label
BY DEF Inv, CustomersTypeOK, Goto, See, End

(* A writer's transaction leaves the row it wrote in its hands.             *)
LEMMA WrittenIsHeld ==
    ASSUME NEW c \in Ids, row' \in Table, row'[c] \in Row
    PROVE  Part(c, row')[c] \in Row
BY PartRow

LEMMA ConductStep ==
    ASSUME Inv, [Next]_vars
    PROVE  Conduct'
<1> USE DEF Known, Duty, Held, Rewrites, Writes
<1>0. /\ CustomersTypeOK /\ CustomersTypeOK'
      /\ \A r \in Requests : Known(r) /\ Duty(r) /\ Held(r)
  BY CustomersTypeStep DEF Inv, Conduct
<1>1. ASSUME NEW r \in Requests, Handle(r) \/ Crash(r), NEW q \in Requests, q # r
      PROVE  Known(q)' /\ Duty(q)' /\ Held(q)'
  BY <1>0, <1>1, OnlyActor DEF CanList, HasRole
<1>2. ASSUME NEW r \in Requests, Arrive(r)
      PROVE  Known(r)' /\ Duty(r)' /\ Held(r)'
  <2>1. PICK u \in Users, o \in Operations :
           /\ user' = [user EXCEPT ![r] = u]
           /\ op' = [op EXCEPT ![r] = o]
           /\ \/ o = "create" /\ target' = [target EXCEPT ![r] = r]
              \/ o = "list" /\ UNCHANGED target
              \/ /\ o \notin {"create", "list"}
                 /\ \E c \in Seeded \cup {q \in Requests : pc[q] # "start"} :
                       target' = [target EXCEPT ![r] = c]
           /\ Goto(r, FirstLabel(u, o))
    BY <1>2 DEF Arrive
  <2>2. op'[r] = o /\ user'[r] = u /\ pc'[r] = FirstLabel(u, o)
    BY <1>0, <2>1, Arrives DEF CustomersTypeOK
  <2>3. o # "list" => target'[r] \in Ids /\ (o = "create" => target'[r] = r)
    BY <1>0, <2>1 DEF CustomersTypeOK, Ids
  <2>4. /\ pc'[r] \in {"lookup", "commit", "load", "denied"}
        /\ pc'[r] = "lookup" => o \in {"list", "get"} /\ (o = "list" => CanList(u))
        /\ pc'[r] = "load" => o \in {"update", "delete"}
        /\ pc'[r] = "commit" => o = "create"
    BY <2>2 DEF FirstLabel, Operations
  <2> QED BY <2>2, <2>3, <2>4 DEF CanList, HasRole
<1>3. ASSUME NEW r \in Requests,
             \/ Lookup(r) \/ LookupFails(r) \/ Query(r) \/ Fill(r) \/ FillFails(r)
      PROVE  Known(r)' /\ Duty(r)' /\ Held(r)'
  <2>1. /\ pc[r] \in {"lookup", "query", "fill"}
        /\ pc'[r] \in {"query", "done", "denied", "missing", "fill"}
        /\ pc'[r] = "query" => pc[r] = "lookup"
        /\ UNCHANGED control
    BY <1>0, <1>3, Arrives DEF Lookup, LookupFails, Query, Fill, FillFails
  <2> QED BY <1>0, <2>1 DEF control, CanList, HasRole
<1>4. ASSUME NEW r \in Requests, Load(r) PROVE Known(r)' /\ Duty(r)' /\ Held(r)'
  <2>1. op[r] \in {"update", "delete"} /\ target[r] \in Ids
    BY <1>0, <1>4 DEF Load
  <2>2. /\ UNCHANGED <<row, control>>
        /\ pc'[r] \in {"missing", "commit", "denied"}
        /\ pc'[r] = "commit" => row[target[r]] # Absent /\ seen'[r] = Part(target[r], row)
    BY <1>0, <1>4, Arrives DEF Load
  <2>3. row[target[r]] # Absent => Part(target[r], row)[target[r]] \in Row
    <3>1. row \in Table
      BY <1>0 DEF CustomersTypeOK
    <3>2. Part(target[r], row)[target[r]] = row[target[r]]
      BY <2>1, <3>1, PartRow
    <3>3. row[target[r]] \in Row \cup {Absent}
      BY <2>1, <3>1 DEF Table
    <3> QED BY <3>2, <3>3
  <2> QED BY <1>0, <1>4, <2>1, <2>2, <2>3 DEF control, Load
<1>5. ASSUME NEW r \in Requests, Create(r) PROVE Known(r)' /\ Duty(r)' /\ Held(r)'
  <2>1. user[r] \in Users /\ target[r] = r /\ r \in Ids
    BY <1>0, <1>5 DEF Create, Ids
  <2>2. UNCHANGED control /\ pc'[r] \in {"conflict", "invalidate"}
    BY <1>0, <1>5, Arrives DEF Create
  <2>3. ASSUME pc'[r] = "invalidate" PROVE seen'[r][target[r]] \in Row
    <3>1. PICK t \in TaxIds :
             /\ row' = [row EXCEPT ![r] = [owner |-> user[r], taxId |-> t]]
             /\ See(r, Part(r, row'))
      BY <1>0, <1>5, <2>3, Arrives DEF Create
    <3>2. row'[r] \in Row
      BY <1>0, <2>1, <3>1 DEF CustomersTypeOK, Table, Row
    <3> QED BY <1>0, <2>1, <3>1, <3>2, WrittenIsHeld, Arrives DEF CustomersTypeOK
  <2> QED BY <1>0, <1>5, <2>1, <2>2, <2>3 DEF control, Create
<1>6. ASSUME NEW r \in Requests, Update(r) PROVE Known(r)' /\ Duty(r)' /\ Held(r)'
  <2>1. target[r] \in Ids
    BY <1>0, <1>6 DEF Update
  <2>2. UNCHANGED control /\ pc'[r] \in {"failed", "conflict", "invalidate"}
    BY <1>0, <1>6, Arrives DEF Update
  <2>3. ASSUME pc'[r] = "invalidate" PROVE seen'[r][target[r]] \in Row
    <3>1. PICK t \in TaxIds :
             /\ row[target[r]] # Absent
             /\ row' = [row EXCEPT ![target[r]] = UpdatedRow(r, t)]
             /\ See(r, Part(target[r], row'))
      BY <1>0, <1>6, <2>3, Arrives DEF Update
    <3>2. row'[target[r]] \in Row
      <4>1. row[target[r]] \in Row /\ t \in TaxIds
        BY <1>0, <2>1, <3>1 DEF CustomersTypeOK, Table
      <4>2. UpdatedRow(r, t) \in Row
        BY <4>1 DEF UpdatedRow, Row
      <4> QED BY <1>0, <2>1, <3>1, <4>2 DEF CustomersTypeOK, Table
    <3> QED BY <1>0, <2>1, <3>1, <3>2, WrittenIsHeld, Arrives DEF CustomersTypeOK
  <2> QED BY <1>0, <1>6, <2>1, <2>2, <2>3 DEF control, Update
<1>7. ASSUME NEW r \in Requests, Delete(r) PROVE Known(r)' /\ Duty(r)' /\ Held(r)'
  <2>1. UNCHANGED control /\ pc'[r] \in {"failed", "invalidate"}
    BY <1>0, <1>7, Arrives DEF Delete
  <2>2. pc'[r] = "invalidate" => UNCHANGED seen
    BY <1>0, <1>7, Arrives DEF Delete
  <2> QED BY <1>0, <1>7, <2>1, <2>2 DEF control, Delete
<1>8. ASSUME NEW r \in Requests, Invalidate(r) \/ InvalidateFails(r) \/ Crash(r)
      PROVE  Known(r)' /\ Duty(r)' /\ Held(r)'
  <2>1. UNCHANGED control /\ pc'[r] \in {"done", "failed"} /\ pc[r] # "start"
    BY <1>0, <1>8, Arrives DEF Invalidate, InvalidateFails, Crash
  <2> QED BY <1>0, <2>1 DEF control
<1>9. ASSUME UNCHANGED vars \/ (\E k \in Keys : Lapse(k)) PROVE Conduct'
  BY <1>0, <1>9 DEF Conduct, vars, control, Lapse, CanList, HasRole
<1>10. ASSUME NEW r \in Requests, Handle(r) \/ Crash(r) PROVE Conduct'
  <2>1. Known(r)' /\ Duty(r)' /\ Held(r)'
    BY <1>10, <1>2, <1>3, <1>4, <1>5, <1>6, <1>7, <1>8 DEF Handle
  <2> QED BY <1>1, <1>10, <2>1 DEF Conduct
<1> QED BY <1>9, <1>10 DEF Next, Idle

(* Types and conduct are inductive.                                         *)
LEMMA InvIsInvariant == Spec => []Inv
<1>1. Init => Inv
  BY DEF Init, Inv, Conduct, Known, Duty, Held, Rewrites, CustomersTypeOK, Table,
         EmptyTable, Labels, Operations
<1>2. Inv /\ [Next]_vars => Inv'
  BY CustomersTypeStep, ConductStep DEF Inv
<1> QED BY <1>1, <1>2, PTL DEF Spec

(* Every variable keeps its type, whatever fails: what a reader or a writer *)
(* is about to use was set by an earlier step.                              *)
THEOREM CustomersTypeCorrect == Spec => []CustomersTypeOK
<1>1. Inv => CustomersTypeOK
  BY DEF Inv
<1> QED BY <1>1, InvIsInvariant, PTL

-----------------------------------------------------------------------------
(* The rows.                                                                *)

(* The request that creates a customer has not done so yet.                 *)
Unborn(r) == pc[r] = "start" \/ (pc[r] = "commit" /\ op[r] = "create")

Fresh == \A r \in Requests : Unborn(r) => row[r] = Absent

RowInv == Inv /\ Fresh

(* What a step may do to the rows.                                          *)
LEMMA RowChange ==
    ASSUME RowInv, NEW r \in Requests, Create(r) \/ Update(r) \/ Delete(r)
    PROVE  /\ target[r] \in Ids /\ user[r] \in Users
           /\ \A c \in Ids \ {target[r]} : row'[c] = row[c]
           /\ \/ UNCHANGED row /\ pc'[r] \in {"conflict", "failed"}
              \/ /\ Create(r) /\ target[r] = r
                 /\ row[r] = Absent /\ row'[r] \in Row
                 /\ row'[r].owner = user[r]
                 /\ See(r, Part(r, row')) /\ pc'[r] = "invalidate"
              \/ /\ Update(r) /\ row[target[r]] # Absent
                 /\ row[target[r]] \in Row /\ row'[target[r]] \in Row
                 /\ row'[target[r]].owner = row[target[r]].owner
                 /\ See(r, Part(target[r], row')) /\ pc'[r] = "invalidate"
              \/ /\ Delete(r) /\ row[target[r]] # Absent
                 /\ row[target[r]] \in Row /\ row'[target[r]] = Absent
                 /\ UNCHANGED seen /\ pc'[r] = "invalidate"
<1>0. CustomersTypeOK /\ Known(r) /\ Fresh
  BY DEF RowInv, Inv, Conduct
<1>1. /\ target[r] \in Ids /\ user[r] \in Users
      /\ op[r] = "create" => target[r] = r
      /\ row \in Table /\ Inv
  BY <1>0 DEF Known, Create, Update, Delete, RowInv, CustomersTypeOK
<1>2. CASE Create(r)
  <2>1. CASE End(r, "conflict") /\ UNCHANGED row
    BY <1>1, <2>1, Arrives
  <2>2. CASE \E t \in TaxIds :
               /\ row' = [row EXCEPT ![r] = [owner |-> user[r], taxId |-> t]]
               /\ See(r, Part(r, row')) /\ Goto(r, "invalidate")
    <3>1. PICK t \in TaxIds :
             /\ row' = [row EXCEPT ![r] = [owner |-> user[r], taxId |-> t]]
             /\ See(r, Part(r, row')) /\ Goto(r, "invalidate")
      BY <2>2
    <3>2. r \in Ids /\ target[r] = r /\ row[r] = Absent
      BY <1>0, <1>1, <1>2 DEF Create, Fresh, Unborn
    <3>3. [owner |-> user[r], taxId |-> t] \in Row
      BY <1>1 DEF Row
    <3>4. pc'[r] = "invalidate"
      BY <1>1, <3>1, Arrives
    <3> QED BY <1>1, <1>2, <3>1, <3>2, <3>3, <3>4 DEF Table
  <2> QED BY <1>2, <2>1, <2>2 DEF Create
<1>3. CASE Update(r)
  <2>1. CASE UNCHANGED row /\ (End(r, "conflict") \/ End(r, "failed"))
    BY <1>1, <2>1, Arrives
  <2>2. CASE \E t \in TaxIds :
               /\ row[target[r]] # Absent
               /\ row' = [row EXCEPT ![target[r]] = UpdatedRow(r, t)]
               /\ See(r, Part(target[r], row')) /\ Goto(r, "invalidate")
    <3>1. PICK t \in TaxIds :
             /\ row[target[r]] # Absent
             /\ row' = [row EXCEPT ![target[r]] = UpdatedRow(r, t)]
             /\ See(r, Part(target[r], row')) /\ Goto(r, "invalidate")
      BY <2>2
    <3>2. row[target[r]] \in Row
      BY <1>1, <3>1 DEF Table
    <3>3. UpdatedRow(r, t) \in Row /\ UpdatedRow(r, t).owner = row[target[r]].owner
      BY <3>1, <3>2 DEF UpdatedRow, Row
    <3>4. pc'[r] = "invalidate"
      BY <1>1, <3>1, Arrives
    <3> QED BY <1>1, <1>3, <3>1, <3>2, <3>3, <3>4 DEF Table
  <2> QED BY <1>3, <2>1, <2>2 DEF Update
<1>4. CASE Delete(r)
  <2>1. CASE UNCHANGED row /\ End(r, "failed")
    BY <1>1, <2>1, Arrives
  <2>2. CASE /\ row[target[r]] # Absent
             /\ row' = [row EXCEPT ![target[r]] = Absent]
             /\ Goto(r, "invalidate") /\ UNCHANGED seen
    BY <1>1, <1>4, <2>2, Arrives DEF Table
  <2> QED BY <1>4, <2>1, <2>2 DEF Delete
<1> QED BY <1>2, <1>3, <1>4

(* Every other step leaves the rows alone.                                  *)
LEMMA RowsStay ==
    ASSUME [Next]_vars, \A r \in Requests : ~(Create(r) \/ Update(r) \/ Delete(r))
    PROVE  UNCHANGED row
<1>1. ASSUME NEW r \in Requests, Handle(r) \/ Crash(r) PROVE UNCHANGED row
  BY <1>1 DEF Handle, Crash, Arrive, Lookup, LookupFails, Query, Fill, FillFails, Load,
              Invalidate, InvalidateFails
<1>2. ASSUME NEW k \in Keys, Lapse(k) PROVE UNCHANGED row
  BY <1>2 DEF Lapse
<1> QED BY <1>1, <1>2 DEF Next, Idle, vars

(* Nobody starts over, and only an arrival leads to a creation.             *)
LEMMA UnbornBefore ==
    ASSUME Inv, [Next]_vars, NEW r \in Requests, Unborn(r)'
    PROVE  Unborn(r)
<1>0. CustomersTypeOK /\ Duty(r)
  BY DEF Inv, Conduct
<1>1. ASSUME NEW q \in Requests, q # r, Handle(q) \/ Crash(q) PROVE Unborn(r)
  BY <1>1, OnlyActor DEF Unborn
<1>2. CASE Arrive(r)
  BY <1>2 DEF Arrive, Unborn
<1>3. CASE (Handle(r) /\ ~Arrive(r)) \/ Crash(r)
  <2>1. pc'[r] # "start"
    BY <1>0, <1>3, Arrives DEF Handle, Crash, Lookup, LookupFails, Query, Fill, FillFails,
       Load, Create, Update, Delete, Invalidate, InvalidateFails
  <2>2. pc'[r] = "commit" => Load(r)
    BY <1>0, <1>3, Arrives DEF Handle, Crash, Lookup, LookupFails, Query, Fill, FillFails,
       Load, Create, Update, Delete, Invalidate, InvalidateFails
  <2>3. Load(r) => op'[r] # "create"
    BY <1>0 DEF Load, Duty, control
  <2> QED BY <2>1, <2>2, <2>3 DEF Unborn
<1>4. CASE UNCHANGED vars \/ (\E k \in Keys : Lapse(k))
  BY <1>4 DEF vars, control, Lapse, Unborn
<1> QED BY <1>1, <1>2, <1>3, <1>4 DEF Next, Idle

LEMMA FreshStep ==
    ASSUME RowInv, [Next]_vars
    PROVE  Fresh'
<1> SUFFICES ASSUME NEW r \in Requests, Unborn(r)' PROVE row'[r] = Absent
  BY DEF Fresh
<1>1. row[r] = Absent
  BY UnbornBefore DEF RowInv, Fresh
<1>2. ASSUME NEW q \in Requests, Create(q) \/ Update(q) \/ Delete(q), row'[r] # row[r]
      PROVE  FALSE
  <2>1. r \in Ids /\ target[q] = r /\ Inv
    BY <1>2, RowChange DEF Ids, RowInv
  <2>2. Create(q) /\ q = r /\ pc'[r] = "invalidate"
    BY <1>1, <1>2, <2>1, RowChange
  <2> QED BY <2>2 DEF Unborn
<1> QED BY <1>1, <1>2, RowsStay

LEMMA RowInvIsInvariant == Spec => []RowInv
<1>1. Init => Fresh
  BY CustomersAssumption DEF Init, Fresh, Ids
<1>2. RowInv /\ [Next]_vars => Fresh'
  BY FreshStep
<1> QED BY <1>1, <1>2, InvIsInvariant, PTL DEF Spec, RowInv

(* Whatever overlaps or fails, a customer keeps its owner, and only its     *)
(* creation brings it into the table: an update or a deletion that read the *)
(* row earlier neither revives it nor hands it over.                        *)
THEOREM OwnersStay == Spec => OwnerIsForGood
<1>1. RowInv /\ [Next]_vars =>
        [\A c \in Ids :
           /\ row[c] # Absent /\ row'[c] # Absent => row'[c].owner = row[c].owner
           /\ row[c] = Absent /\ row'[c] # Absent => pc[c] = "commit" /\ op[c] = "create"]_vars
  <2> SUFFICES ASSUME RowInv, [Next]_vars, NEW c \in Ids, row'[c] # row[c]
               PROVE  /\ row[c] # Absent /\ row'[c] # Absent
                           => row'[c].owner = row[c].owner
                      /\ row[c] = Absent /\ row'[c] # Absent
                           => pc[c] = "commit" /\ op[c] = "create"
    OBVIOUS
  <2>1. PICK r \in Requests : Create(r) \/ Update(r) \/ Delete(r)
    BY RowsStay
  <2>2. target[r] = c
    BY <2>1, RowChange
  <2>3. CASE Create(r) /\ c = r /\ row[r] = Absent
    BY <2>3 DEF Create
  <2>4. CASE row[c] # Absent /\ row'[c].owner = row[c].owner
    BY <2>4
  <2>5. CASE row'[c] = Absent
    BY <2>5
  <2> QED BY <2>1, <2>2, <2>3, <2>4, <2>5, RowChange
<1> QED BY <1>1, RowInvIsInvariant, PTL DEF Spec, OwnerIsForGood

-----------------------------------------------------------------------------
(* The answers.                                                             *)

(* A value holds nothing but what its key stands for.                       *)
Fits(k, table) ==
    \A c \in Ids : table[c] # Absent => k \in {c, table[c].owner, Everyone}

Shown(r, table) ==
    \A c \in Ids : table[c] # Absent => CanAccess(user[r], table[c].owner)

Answers ==
    /\ \A k \in Keys : cache[k] # Absent => Fits(k, cache[k])
    /\ \A r \in Requests : pc[r] = "fill" =>
          Fits(ReadKey(r), seen[r]) /\ Shown(r, seen[r])
    /\ AnswersPermitted

(* What fits the key a reader looks at, and passed the check on a single    *)
(* customer, may be shown to its user.                                      *)
LEMMA FittingIsShown ==
    ASSUME Inv, NEW r \in Requests, pc[r] \in {"lookup", "query"},
           NEW table \in Table, Fits(ReadKey(r), table), Allowed(r, table)
    PROVE  Shown(r, table)
<1> SUFFICES ASSUME NEW c \in Ids, table[c] # Absent
             PROVE  CanAccess(user[r], table[c].owner)
  BY DEF Shown
<1>1. /\ user[r] \in Users /\ op[r] \in {"list", "get"}
      /\ op[r] = "get" => target[r] \in Ids
      /\ op[r] = "list" => CanList(user[r])
  BY DEF Inv, Conduct, Known, Duty
<1>2. table[c].owner \in Users
  BY DEF Table, Row
<1>3. ReadKey(r) \in {c, table[c].owner, Everyone}
  BY DEF Fits
<1>4. CASE op[r] = "get"
  <2>1. target[r] = c
    BY <1>1, <1>2, <1>3, <1>4, CustomersAssumption DEF ReadKey
  <2> QED BY <1>4, <2>1 DEF Allowed
<1>5. CASE op[r] = "list" /\ HasRole(user[r], ListAllCustomersRoles)
  BY <1>5 DEF CanAccess
<1>6. CASE op[r] = "list" /\ ~HasRole(user[r], ListAllCustomersRoles)
  <2>1. user[r] = table[c].owner
    BY <1>1, <1>2, <1>3, <1>6, CustomersAssumption DEF ReadKey, ListKey
  <2>2. HasRole(user[r], CreateCustomerRoles)
    BY <1>1, <1>6 DEF CanList, HasRole
  <2> QED BY <2>1, <2>2 DEF CanAccess
<1> QED BY <1>1, <1>4, <1>5, <1>6

LEMMA PartFits ==
    ASSUME NEW k, NEW table \in Table
    PROVE  Fits(k, Part(k, table))
BY PartRow DEF Fits

LEMMA AnswersStep ==
    ASSUME Inv, Answers, [Next]_vars
    PROVE  Answers'
<1> USE DEF Answers, AnswersPermitted
<1>0. CustomersTypeOK /\ CustomersTypeOK' /\ Conduct
  BY CustomersTypeStep DEF Inv
<1>1. ASSUME NEW r \in Requests, Handle(r) \/ Crash(r), NEW q \in Requests, q # r
      PROVE  /\ pc'[q] = "fill" => Fits(ReadKey(q), seen[q])' /\ Shown(q, seen[q])'
             /\ pc'[q] = "done" /\ op'[q] \in {"list", "get"} => Shown(q, seen[q])'
  <2>1. /\ pc'[q] = pc[q] /\ op'[q] = op[q] /\ user'[q] = user[q]
        /\ target'[q] = target[q] /\ seen'[q] = seen[q]
    BY <1>1, OnlyActor
  <2> QED BY <2>1 DEF Fits, Shown, ReadKey, ListKey, CanAccess, HasRole
<1>2. ASSUME NEW r \in Requests, Handle(r) \/ Crash(r),
             pc'[r] \notin {"fill", "done"} \/ op'[r] \notin {"list", "get"},
             pc'[r] # "fill",
             \A k \in Keys : cache'[k] \in {cache[k], Absent}
      PROVE  Answers'
  BY <1>1, <1>2 DEF Fits, Shown
<1>3. ASSUME NEW r \in Requests, Arrive(r) \/ LookupFails(r) \/ Load(r) \/ Crash(r)
      PROVE  Answers'
  <2>1. pc'[r] \notin {"fill", "done"}
    BY <1>0, <1>3, Arrives DEF Arrive, FirstLabel, LookupFails, Load, Crash, Operations
  <2>2. UNCHANGED cache
    BY <1>3 DEF Arrive, LookupFails, Load, Crash
  <2> QED BY <1>2, <1>3, <2>1, <2>2 DEF Handle
<1>4. ASSUME NEW r \in Requests, Create(r) \/ Update(r) \/ Delete(r) PROVE Answers'
  <2>1. pc'[r] \notin {"fill", "done"}
    BY <1>0, <1>4, Arrives DEF Create, Update, Delete
  <2>2. UNCHANGED cache
    BY <1>4 DEF Create, Update, Delete
  <2> QED BY <1>2, <1>4, <2>1, <2>2 DEF Handle
<1>5. ASSUME NEW r \in Requests, Invalidate(r) \/ InvalidateFails(r) PROVE Answers'
  <2>1. op'[r] \in Writes /\ pc'[r] = "done"
    BY <1>0, <1>5, Arrives DEF Invalidate, InvalidateFails, Conduct, Duty, control
  <2>2. \A k \in Keys : cache'[k] \in {cache[k], Absent}
    BY <1>5 DEF Invalidate, InvalidateFails
  <2> QED BY <1>2, <1>5, <2>1, <2>2 DEF Handle, Writes
<1>6. ASSUME NEW r \in Requests, Lookup(r) PROVE Answers'
  <2>1. CASE pc'[r] # "done"
    <3>1. pc'[r] # "fill" /\ UNCHANGED cache
      BY <1>6, <2>1, Arrives DEF Lookup
    <3> QED BY <1>2, <1>6, <2>1, <3>1 DEF Handle
  <2>2. CASE pc'[r] = "done"
    <3> DEFINE value == cache[ReadKey(r)]
    <3>1. ReadKey(r) \in Keys
      BY <1>6, ReadKeyType DEF Lookup
    <3>2. value # Absent /\ Allowed(r, value) /\ See(r, value)
      BY <1>6, <2>2, Arrives DEF Lookup
    <3>3. value \in Table /\ Fits(ReadKey(r), value)
      BY <1>0, <3>1, <3>2 DEF CustomersTypeOK
    <3>4. Shown(r, value)
      BY <1>6, <3>2, <3>3, FittingIsShown DEF Lookup
    <3>5. seen'[r] = value /\ UNCHANGED <<cache, control>>
      BY <1>6, <3>2, Arrives DEF Lookup
    <3>6. Shown(r, seen[r])'
      BY <3>4, <3>5 DEF Shown, control, CanAccess, HasRole
    <3> QED BY <1>1, <1>6, <2>2, <3>5, <3>6 DEF Handle, Fits, Shown
  <2> QED BY <2>1, <2>2
<1>7. ASSUME NEW r \in Requests, Query(r) PROVE Answers'
  <2>1. CASE pc'[r] # "fill"
    <3>1. pc'[r] # "done" /\ UNCHANGED cache
      BY <1>7, <2>1, Arrives DEF Query
    <3> QED BY <1>2, <1>7, <2>1, <3>1 DEF Handle
  <2>2. CASE pc'[r] = "fill"
    <3> DEFINE value == Part(ReadKey(r), row)
    <3>1. Allowed(r, row) /\ See(r, value) /\ UNCHANGED <<cache, control>>
      BY <1>7, <2>2, Arrives, SelectedIsPart DEF Query
    <3>2. value \in Table /\ Fits(ReadKey(r), value)
      BY <1>0, PartType, PartFits DEF CustomersTypeOK
    <3>3. Allowed(r, value)
      <4>1. ASSUME op[r] = "get" PROVE value[target[r]] = row[target[r]]
        <5>1. target[r] \in Ids /\ ReadKey(r) = target[r]
          BY <1>0, <1>7, <4>1 DEF Query, Conduct, Known, ReadKey
        <5> QED BY <1>0, <5>1, PartRow DEF CustomersTypeOK
      <4> QED BY <3>1, <4>1 DEF Allowed
    <3>4. Shown(r, value)
      BY <1>7, <3>2, <3>3, FittingIsShown DEF Query
    <3>5. seen'[r] = value
      BY <3>1, Arrives
    <3>6. Shown(r, seen[r])' /\ Fits(ReadKey(r), seen[r])'
      BY <3>1, <3>2, <3>4, <3>5
         DEF Shown, Fits, control, CanAccess, HasRole, ReadKey, ListKey
    <3> QED BY <1>1, <1>7, <2>2, <3>1, <3>6 DEF Handle, Fits, Shown
  <2> QED BY <2>1, <2>2
<1>8. ASSUME NEW r \in Requests, Fill(r) \/ FillFails(r) PROVE Answers'
  <2>1. /\ pc[r] = "fill" /\ pc'[r] = "done" /\ UNCHANGED <<seen, control>>
        /\ cache' = [cache EXCEPT ![ReadKey(r)] = seen[r]] \/ UNCHANGED cache
    BY <1>8, Arrives DEF Fill, FillFails
  <2>2. ReadKey(r) \in Keys /\ Fits(ReadKey(r), seen[r]) /\ Shown(r, seen[r])
    BY <2>1, ReadKeyType
  <2>3. Shown(r, seen[r])'
    BY <2>1, <2>2 DEF Shown, control, CanAccess, HasRole
  <2>4. \A k \in Keys : cache'[k] # Absent => Fits(k, cache[k])'
    BY <1>0, <2>1, <2>2 DEF Fits, CustomersTypeOK
  <2> QED BY <1>1, <1>8, <2>1, <2>3, <2>4 DEF Handle, Fits, Shown
<1>9. ASSUME NEW k \in Keys, Lapse(k) PROVE Answers'
  <2>1. \A j \in Keys : cache'[j] \in {cache[j], Absent}
    BY <1>0, <1>9 DEF Lapse, CustomersTypeOK
  <2> QED BY <1>9, <2>1
          DEF Lapse, control, Fits, Shown, ReadKey, ListKey, CanAccess, HasRole
<1>10. ASSUME UNCHANGED vars PROVE Answers'
  BY <1>10 DEF vars, control, Fits, Shown, ReadKey, ListKey, CanAccess, HasRole
<1> QED BY <1>3, <1>4, <1>5, <1>6, <1>7, <1>8, <1>9, <1>10 DEF Next, Handle, Idle

(* Nobody is shown a customer that the roles keep from them, by whatever    *)
(* overlap of readers and writers and however stale the cache: each value   *)
(* fits its key, and the key fits its reader.                               *)
THEOREM AnswersArePermitted == Spec => []AnswersPermitted
<1>1. Init => Answers
  BY DEF Init, Answers, AnswersPermitted
<1>2. Inv /\ Answers /\ [Next]_vars => Answers'
  BY AnswersStep
<1>3. Answers => AnswersPermitted
  BY DEF Answers
<1> QED BY <1>1, <1>2, <1>3, InvIsInvariant, PTL DEF Spec

-----------------------------------------------------------------------------
(* The cache against the table.                                             *)

(* The keys of the row a writer holds: what it has to delete.               *)
Due(r) == {target[r], seen[r][target[r]].owner, Everyone}

(* A writer that has read its row goes on about a customer that exists or   *)
(* existed, and knows its owner.                                            *)
Grounded ==
    \A r \in Requests : Rewrites(r) =>
        /\ target[r] \in Requests => ~Unborn(target[r])
        /\ row[target[r]] # Absent =>
              seen[r][target[r]].owner = row[target[r]].owner

StaleInv == RowInv /\ Grounded /\ StaleIsExplained

LEMMA GroundedStep ==
    ASSUME RowInv, Grounded, [Next]_vars
    PROVE  Grounded'
<1> SUFFICES ASSUME NEW r \in Requests, Rewrites(r)'
             PROVE  /\ (target[r] \in Requests => ~Unborn(target[r]))'
                    /\ row'[target'[r]] # Absent =>
                          seen'[r][target'[r]].owner = row'[target'[r]].owner
  BY DEF Grounded
<1>0. Inv /\ CustomersTypeOK /\ Conduct /\ Conduct'
  BY ConductStep DEF RowInv, Inv
<1>1. CASE Load(r)
  <2>1. target[r] \in Ids /\ UNCHANGED <<row, control>>
    BY <1>0, <1>1 DEF Load, Conduct, Known, Duty
  <2>2. row[target[r]] # Absent /\ seen'[r] = Part(target[r], row)
    BY <1>0, <1>1, Arrives DEF Load, Rewrites
  <2>3. seen'[r][target[r]] = row[target[r]]
    BY <1>0, <2>1, <2>2, PartRow DEF CustomersTypeOK
  <2>4. target[r] \in Requests => ~Unborn(target[r])
    BY <2>2 DEF RowInv, Fresh
  <2>5. (target[r] \in Requests => ~Unborn(target[r]))'
    BY <1>0, <2>1, <2>4, UnbornBefore DEF control, Unborn
  <2> QED BY <2>1, <2>3, <2>5 DEF control
<1>2. CASE Rewrites(r) /\ UNCHANGED <<target[r], seen[r], op[r]>>
  <2>1. target[r] \in Ids /\ (target[r] \in Requests => ~Unborn(target[r]))
    BY <1>0, <1>2 DEF Grounded, Rewrites, Conduct, Known, Duty, Writes
  <2>2. (target[r] \in Requests => ~Unborn(target[r]))'
    <3>1. ASSUME NEW q \in Requests, target[r] = q PROVE ~Unborn(q)'
      BY <1>0, <2>1, <3>1, UnbornBefore
    <3> QED BY <1>2, <3>1 DEF Unborn
  <2>3. ASSUME row'[target[r]] # Absent
        PROVE  row[target[r]] # Absent /\ row'[target[r]].owner = row[target[r]].owner
    <3>1. ASSUME NEW q \in Requests, Create(q) \/ Update(q) \/ Delete(q),
                 row'[target[r]] # row[target[r]]
          PROVE  row[target[r]] # Absent /\ row'[target[r]].owner = row[target[r]].owner
      <4>1. target[q] = target[r]
        BY <2>1, <3>1, RowChange
      <4>2. ~(Create(q) /\ target[q] = q)
        BY <2>1, <4>1 DEF Create, Unborn
      <4> QED BY <2>3, <3>1, <4>1, <4>2, RowChange
    <3> QED BY <2>3, <3>1, RowsStay
  <2> QED BY <1>2, <2>2, <2>3 DEF Grounded
<1>3. ASSUME NEW q \in Requests, q # r, Handle(q) \/ Crash(q)
      PROVE  Rewrites(r) /\ UNCHANGED <<target[r], seen[r], op[r]>>
  BY <1>0, <1>3, OnlyActor DEF Rewrites
<1>4. ASSUME UNCHANGED vars \/ (\E k \in Keys : Lapse(k))
      PROVE  Rewrites(r) /\ UNCHANGED <<target[r], seen[r], op[r]>>
  BY <1>4 DEF Rewrites, vars, control, Lapse
<1>5. ASSUME Handle(r) \/ Crash(r) PROVE Load(r)
  <2>1. pc'[r] = "commit" /\ op'[r] # "create"
    BY DEF Rewrites
  <2>2. ~Arrive(r)
    <3>1. ASSUME Arrive(r) PROVE FALSE
      <4>1. PICK u \in Users, o \in Operations :
               op' = [op EXCEPT ![r] = o] /\ Goto(r, FirstLabel(u, o))
        BY <3>1 DEF Arrive
      <4>2. op'[r] = o /\ pc'[r] = FirstLabel(u, o)
        BY <1>0, <4>1, Arrives DEF CustomersTypeOK
      <4> QED BY <2>1, <4>2 DEF FirstLabel
    <3> QED BY <3>1
  <2> QED BY <1>0, <1>5, <2>1, <2>2, Arrives
          DEF Handle, Crash, Lookup, LookupFails, Query, Fill, FillFails, Create, Update,
              Delete, Invalidate, InvalidateFails
<1> QED BY <1>1, <1>2, <1>3, <1>4, <1>5 DEF Next, Idle

(* A write leaves every part alone that its writer does not have to delete. *)
LEMMA PartsChange ==
    ASSUME RowInv, Grounded, NEW r \in Requests,
           Create(r) \/ Update(r) \/ Delete(r), row' # row
    PROVE  /\ pc'[r] = "invalidate"
           /\ \A k \in Keys : k \notin Due(r)' => Part(k, row') = Part(k, row)
<1>0. Inv /\ row \in Table /\ row' \in Table /\ target[r] \in Ids
  <2>1. [Next]_vars
    BY DEF Next, Handle
  <2> QED BY <2>1, CustomersTypeStep, RowChange DEF RowInv, Inv, CustomersTypeOK
<1>1. pc'[r] = "invalidate" /\ target' = target
  BY <1>0, RowChange DEF Create, Update, Delete, control
<1>2. \A c \in Ids \ {target[r]} : row'[c] = row[c]
  BY RowChange
<1>3. /\ row[target[r]] # Absent => seen'[r][target[r]].owner = row[target[r]].owner
      /\ row'[target[r]] # Absent => seen'[r][target[r]].owner = row'[target[r]].owner
  <2>1. CASE Create(r) /\ target[r] = r /\ row[r] = Absent /\ See(r, Part(r, row'))
    <3>1. seen'[r][r] = row'[r]
      BY <1>0, <2>1, PartRow, Arrives
    <3> QED BY <2>1, <3>1
  <2>2. CASE /\ row'[target[r]].owner = row[target[r]].owner
             /\ See(r, Part(target[r], row'))
    <3>1. seen'[r][target[r]] = row'[target[r]]
      BY <1>0, <2>2, PartRow, Arrives
    <3> QED BY <2>2, <3>1
  <2>3. CASE Delete(r) /\ row'[target[r]] = Absent /\ UNCHANGED seen
    BY <2>3 DEF Delete, Grounded, Rewrites
  <2> QED BY <2>1, <2>2, <2>3, RowChange
<1>4. ASSUME NEW k \in Keys, k \notin Due(r)' PROVE Part(k, row') = Part(k, row)
  <2>1. \A c \in Ids : Part(k, row')[c] = Part(k, row)[c]
    <3>1. /\ ~Covers(k, target[r], row) /\ ~Covers(k, target[r], row')
      BY <1>1, <1>3, <1>4 DEF Covers, Due
    <3> QED BY <1>2, <3>1 DEF Part, Covers
  <2> QED BY <2>1 DEF Part
<1> QED BY <1>1, <1>4

(* A writer that is about to delete k from the cache.                       *)
Awaited(k) == \E r \in Requests : pc[r] = "invalidate" /\ k \in Due(r)

LEMMA StaleStep ==
    ASSUME StaleInv, [Next]_vars
    PROVE  StaleIsExplained'
<1> SUFFICES ASSUME NEW k \in Keys, Stale(k)'
             PROVE  k \in outdated' \/ Awaited(k)'
  BY DEF StaleIsExplained, Awaited, Due
<1>0. /\ Inv /\ CustomersTypeOK /\ RowInv /\ Grounded
      /\ Stale(k) => k \in outdated \/ Awaited(k)
  BY DEF StaleInv, RowInv, Inv, StaleIsExplained, Awaited, Due
<1>1. ASSUME NEW r \in Requests, Handle(r) \/ Crash(r), NEW q \in Requests, q # r,
             pc[q] = "invalidate", k \in Due(q)
      PROVE  Awaited(k)'
  BY <1>0, <1>1, OnlyActor DEF Awaited, Due
<1>2. ASSUME NEW r \in Requests, Handle(r), pc[r] # "invalidate",
             UNCHANGED <<row, cache, outdated>>
      PROVE  k \in outdated' \/ Awaited(k)'
  BY <1>0, <1>1, <1>2 DEF Stale, Part, Covers, Awaited
<1>3. ASSUME NEW r \in Requests,
             \/ Arrive(r) \/ Lookup(r) \/ LookupFails(r) \/ Query(r) \/ FillFails(r)
             \/ Load(r)
      PROVE  k \in outdated' \/ Awaited(k)'
  <2>1. UNCHANGED <<row, cache, outdated>> /\ pc[r] # "invalidate"
    BY <1>3 DEF Arrive, Lookup, LookupFails, Query, FillFails, Load
  <2> QED BY <1>2, <1>3, <2>1 DEF Handle
<1>4. ASSUME NEW r \in Requests, Fill(r) PROVE k \in outdated' \/ Awaited(k)'
  <2>1. ReadKey(r) \in Keys /\ pc[r] # "invalidate"
    BY <1>0, <1>4, ReadKeyType DEF Fill
  <2>2. CASE k = ReadKey(r)
    <3>1. cache'[k] = seen[r] /\ row' = row
      BY <1>0, <1>4, <2>2 DEF Fill, CustomersTypeOK
    <3>2. seen[r] # Part(k, row)
      BY <3>1 DEF Stale, Part, Covers
    <3> QED BY <1>4, <2>2, <3>2 DEF Fill
  <2>3. CASE k # ReadKey(r)
    <3>1. cache'[k] = cache[k] /\ row' = row
      BY <1>0, <1>4, <2>3 DEF Fill, CustomersTypeOK
    <3>2. Stale(k)
      BY <3>1 DEF Stale, Part, Covers
    <3>3. k \in outdated => k \in outdated'
      BY <1>4, <2>3 DEF Fill
    <3> QED BY <1>0, <1>1, <1>4, <2>1, <3>2, <3>3 DEF Handle, Awaited
  <2> QED BY <2>2, <2>3
<1>5. ASSUME NEW r \in Requests, Create(r) \/ Update(r) \/ Delete(r)
      PROVE  k \in outdated' \/ Awaited(k)'
  <2>1. UNCHANGED <<cache, outdated>> /\ pc[r] # "invalidate"
    BY <1>5 DEF Create, Update, Delete
  <2>2. CASE row' = row
    BY <1>2, <1>5, <2>1, <2>2 DEF Handle
  <2>3. CASE row' # row /\ k \in Due(r)'
    BY <1>0, <1>5, <2>3, PartsChange DEF Awaited
  <2>4. CASE row' # row /\ k \notin Due(r)'
    <3>1. Part(k, row') = Part(k, row)
      BY <1>0, <1>5, <2>4, PartsChange
    <3>2. Stale(k)
      BY <2>1, <3>1 DEF Stale, Part, Covers
    <3> QED BY <1>0, <1>1, <1>5, <2>1, <3>2 DEF Handle, Awaited
  <2> QED BY <2>2, <2>3, <2>4
<1>6. ASSUME NEW r \in Requests, Invalidate(r) PROVE k \in outdated' \/ Awaited(k)'
  <2>1. Outdates(r) = Due(r) /\ row' = row
    BY <1>6 DEF Invalidate, Outdates, Invalidated, Due
  <2>2. k \notin Due(r) /\ cache'[k] = cache[k]
    BY <1>0, <1>6, <2>1 DEF Invalidate, Stale
  <2>3. Stale(k)
    BY <2>1, <2>2 DEF Stale, Part, Covers
  <2>4. k \in outdated => k \in outdated'
    BY <1>6, <2>1, <2>2 DEF Invalidate
  <2> QED BY <1>0, <1>1, <1>6, <2>2, <2>3, <2>4 DEF Handle, Awaited
<1>7. ASSUME NEW r \in Requests, InvalidateFails(r) \/ Crash(r)
      PROVE  k \in outdated' \/ Awaited(k)'
  <2>1. UNCHANGED <<row, cache>> /\ outdated \subseteq outdated'
    BY <1>7 DEF InvalidateFails, Crash
  <2>2. Stale(k)
    BY <2>1 DEF Stale, Part, Covers
  <2>3. pc[r] = "invalidate" => outdated' = outdated \cup Lost(r)
    BY <1>7 DEF InvalidateFails, Crash
  <2>4. k \in Due(r) => k \in Lost(r)
    BY <2>2 DEF Stale, Lost, Due
  <2> QED BY <1>0, <1>1, <1>7, <2>1, <2>2, <2>3, <2>4 DEF Handle, Awaited
<1>8. ASSUME NEW j \in Keys, Lapse(j) PROVE k \in outdated' \/ Awaited(k)'
  <2>1. k # j /\ cache'[k] = cache[k] /\ UNCHANGED <<row, pc, control, seen>>
    BY <1>0, <1>8 DEF Lapse, Stale, CustomersTypeOK
  <2>2. Stale(k)
    BY <2>1 DEF Stale, Part, Covers
  <2> QED BY <1>0, <1>8, <2>1, <2>2 DEF Lapse, Awaited, Due, control
<1>9. ASSUME UNCHANGED vars PROVE k \in outdated' \/ Awaited(k)'
  BY <1>0, <1>9 DEF vars, control, Stale, Part, Covers, Awaited, Due
<1> QED BY <1>3, <1>4, <1>5, <1>6, <1>7, <1>8, <1>9 DEF Next, Handle, Idle

(* A cached value that differs from the table is one a writer is about to   *)
(* delete, or one a late store or a lost DEL left behind: every writer      *)
(* deletes every key that its write outdates, although it takes the keys    *)
(* from a row it read before its transaction.                               *)
THEOREM StalenessIsExplained == Spec => []StaleIsExplained
<1>1. Init => Grounded /\ StaleIsExplained
  BY DEF Init, Grounded, Rewrites, StaleIsExplained, Stale
<1>2. RowInv /\ Grounded /\ StaleIsExplained /\ [Next]_vars
        => Grounded' /\ StaleIsExplained'
  BY GroundedStep, StaleStep DEF StaleInv
<1> QED BY <1>1, <1>2, RowInvIsInvariant, PTL DEF Spec

-----------------------------------------------------------------------------
(* What the late stores are to blame for.                                   *)

(* Nothing but a late store or a lost DEL leaves a stale value behind.      *)
LEMMA OutdatedStep ==
    ASSUME Faults = {}, outdated = {}, [Next]_vars,
           \A r \in Requests : Fill(r) => seen[r] = Part(ReadKey(r), row)
    PROVE  outdated' = {}
<1>1. ASSUME NEW r \in Requests, Fill(r) PROVE outdated' = {}
  BY <1>1 DEF Fill
<1>2. ASSUME NEW r \in Requests, Handle(r), ~Fill(r) PROVE outdated' = {}
  BY <1>2 DEF Handle, Arrive, Lookup, LookupFails, Query, FillFails, Load, Create,
              Update, Delete, Invalidate, InvalidateFails
<1>3. ASSUME NEW r \in Requests, Crash(r) PROVE outdated' = {}
  BY <1>3 DEF Crash
<1>4. ASSUME NEW k \in Keys, Lapse(k) PROVE outdated' = {}
  BY <1>4 DEF Lapse
<1>5. ASSUME UNCHANGED vars PROVE outdated' = {}
  BY <1>5 DEF vars
<1> QED BY <1>1, <1>2, <1>3, <1>4, <1>5 DEF Next, Idle

(* While Redis answers and no handler is cut off, the late store of a       *)
(* reader is the only thing that leaves the cache stale: if readers stored  *)
(* only what is current, a value that differs from the table would be one a *)
(* writer has committed over and is about to delete.                        *)
THEOREM OnlyLateStoresOutdate ==
    ASSUME Faults = {}
    PROVE  Spec /\ StoresOnlyCurrent
               => [](\A k \in Keys : Stale(k) =>
                        \E r \in Requests : pc[r] = "invalidate" /\ k \in Due(r))
<1> DEFINE Clean == outdated = {}
           Current == \A r \in Requests : Fill(r) => seen[r] = Part(ReadKey(r), row)
           Passing == \A k \in Keys : Stale(k) =>
                         \E r \in Requests : pc[r] = "invalidate" /\ k \in Due(r)
<1>1. Init => Clean
  BY DEF Init
<1>2. Clean /\ [Next]_vars /\ [Current]_vars => Clean'
  <2>1. ASSUME Clean, UNCHANGED vars PROVE Clean'
    BY <2>1 DEF vars
  <2>2. ASSUME Clean, [Next]_vars, Current PROVE Clean'
    BY <2>2, OutdatedStep
  <2> QED BY <2>1, <2>2
<1>3. Clean /\ StaleIsExplained => Passing
  BY DEF StaleIsExplained, Due
<1>4. StoresOnlyCurrent <=> [][Current]_vars
  BY DEF StoresOnlyCurrent
<1> HIDE DEF Clean, Current, Passing
<1>5. Spec /\ StoresOnlyCurrent => []Passing
  BY <1>1, <1>2, <1>3, <1>4, StalenessIsExplained, PTL DEF Spec
<1> QED BY <1>5 DEF Passing

=============================================================================
