----------------------------- MODULE Customers -----------------------------
(***************************************************************************)
(* The customers endpoints: customers.service.ts, a table in PostgreSQL    *)
(* with a read-through cache in Redis beside it.  Readers look at a key,   *)
(* query the database when it is missing and store what they found;        *)
(* writers commit and then delete the keys the write outdates.             *)
(*                                                                         *)
(* Every HTTP request is a process, and a step is one query, one           *)
(* transaction or one Redis command.  A customer is its owner and its tax  *)
(* id; the other fields are data nobody decides on.  A cached value is the *)
(* part of the table its key stands for.                                   *)
(***************************************************************************)

CONSTANTS
    Requests,    \* a request, and the customer it creates
    Seeded,      \* customers that exist already
    Users,
    RolesOf,     \* the role assignments of each user
    TaxIds,
    Everyone,    \* the scope "all"
    Absent,      \* no row, no value at a key
    Nobody,      \* no user, no customer
    Faults       \* the failures the environment may produce

Ids == Requests \cup Seeded

(* One key per customer, one list per user and the list of all of them.     *)
Keys == Ids \cup Users \cup {Everyone}

Roles == {"ADMIN", "FINANCE", "OPERATOR", "AUDITOR"}

(* "redis": Redis is down or a command fails, which the service swallows.   *)
(* "crash": the process dies, or PostgreSQL reports a failure.              *)
FaultKinds == {"redis", "crash"}

ASSUME CustomersAssumption ==
    /\ RolesOf \in [Users -> SUBSET Roles]
    /\ Ids \cap Users = {} /\ Requests \cap Seeded = {}
    /\ Everyone \notin Ids \cup Users
    /\ Nobody \notin Ids \cup Users \cup {Everyone}
    /\ Faults \subseteq FaultKinds

VARIABLES
    row,        \* the table: the row of each customer
    cache,      \* the keys in Redis
    pc,         \* the next step of each request's handler
    op,         \* what the client asks for
    user,       \* whose session it is
    target,     \* the customer it is about
    seen,       \* what the handler read, and what it answers
    outdated    \* history: keys that a late store or a lost DEL made stale

control == <<op, user, target>>
vars == <<row, cache, pc, control, seen, outdated>>

-----------------------------------------------------------------------------
Row == [owner : Users, taxId : TaxIds]

Table == [Ids -> Row \cup {Absent}]

EmptyTable == [c \in Ids |-> Absent]

Operations == {"create", "list", "get", "update", "delete"}

Labels == {"start", "lookup", "query", "fill", "load", "commit", "invalidate",
           "done", "denied", "missing", "conflict", "failed"}

Ended == {"done", "denied", "missing", "conflict", "failed"}

CreateCustomerRoles    == {"ADMIN", "FINANCE", "OPERATOR"}
ListAllCustomersRoles  == {"ADMIN", "AUDITOR", "FINANCE"}
ManageAllCustomersRoles == {"ADMIN", "FINANCE"}

HasRole(u, roles) == RolesOf[u] \cap roles # {}

CanCreate(u) == HasRole(u, CreateCustomerRoles)

CanAccess(u, owner) ==
    \/ HasRole(u, ListAllCustomersRoles)
    \/ owner = u /\ HasRole(u, CreateCustomerRoles)

CanManage(u, owner) ==
    \/ HasRole(u, ManageAllCustomersRoles)
    \/ owner = u /\ HasRole(u, {"OPERATOR"})

CanList(u) == HasRole(u, ListAllCustomersRoles \cup CreateCustomerRoles)

\* Mutant: the key of a list does not tell one user from another.
ListKeyShared(u) == Everyone

ListKey(u) == IF HasRole(u, ListAllCustomersRoles) THEN Everyone ELSE u

(* The key a reader looks at.                                               *)
ReadKey(r) == IF op[r] = "get" THEN target[r] ELSE ListKey(user[r])

(* The part of the table a key stands for.                                  *)
Covers(k, c, table) ==
    /\ table[c] # Absent
    /\ k \in {c, table[c].owner, Everyone}

Part(k, table) ==
    [c \in Ids |-> IF Covers(k, c, table) THEN table[c] ELSE Absent]

(* The part a query answers; its where clause does not depend on the key.   *)
Selected(r) ==
    IF op[r] = "get" THEN Part(target[r], row)
    ELSE IF HasRole(user[r], ListAllCustomersRoles) THEN Part(Everyone, row)
    ELSE Part(user[r], row)

\* Mutant: only the item and the owner's list are invalidated.
InvalidatedOwn(c, owner) == {c, owner}

Invalidated(c, owner) == {c, owner, Everyone}

(* @@unique([userId, taxId]).                                               *)
TaxIdTaken(u, t, but) ==
    \E c \in Ids \ {but} : row[c] = [owner |-> u, taxId |-> t]

Init ==
    /\ \E f \in [Seeded -> Row] :
          row = [c \in Ids |-> IF c \in Seeded THEN f[c] ELSE Absent]
    /\ \A c, d \in Seeded : row[c] = row[d] => c = d
    /\ cache = [k \in Keys |-> Absent]
    /\ pc = [r \in Requests |-> "start"]
    /\ op = [r \in Requests |-> "list"]
    /\ user = [r \in Requests |-> Nobody]
    /\ target = [r \in Requests |-> Nobody]
    /\ seen = [r \in Requests |-> EmptyTable]
    /\ outdated = {}

-----------------------------------------------------------------------------
Goto(r, label) == pc' = [pc EXCEPT ![r] = label]

See(r, table) == seen' = [seen EXCEPT ![r] = table]

(* The handler ends without an answer to read from; what it held is gone.   *)
End(r, label) == Goto(r, label) /\ See(r, EmptyTable)

(* A request comes in; the roles of its user are read and, where they       *)
(* suffice, decide.                                                         *)
FirstLabel(u, o) ==
    CASE o = "create" -> IF CanCreate(u) THEN "commit" ELSE "denied"
      [] o = "list"   -> IF CanList(u) THEN "lookup" ELSE "denied"
      [] o = "get"    -> "lookup"
      [] OTHER        -> "load"

Arrive(r) ==
    /\ pc[r] = "start"
    /\ \E u \in Users, o \in Operations :
          /\ user' = [user EXCEPT ![r] = u]
          /\ op' = [op EXCEPT ![r] = o]
          /\ \/ o = "create" /\ target' = [target EXCEPT ![r] = r]
             \/ o = "list" /\ UNCHANGED target
             \/ /\ o \notin {"create", "list"}
                /\ \E c \in Seeded \cup {q \in Requests : pc[q] # "start"} :
                      target' = [target EXCEPT ![r] = c]
          /\ Goto(r, FirstLabel(u, o))
    /\ UNCHANGED <<row, cache, seen, outdated>>

-----------------------------------------------------------------------------
(* listCustomers and getCustomerById.                                       *)

(* The customer a get is about may be kept from its user.                   *)
Allowed(r, table) ==
    op[r] = "get" => CanAccess(user[r], table[target[r]].owner)

Lookup(r) ==
    /\ pc[r] = "lookup"
    /\ LET value == cache[ReadKey(r)] IN
       \/ value = Absent /\ Goto(r, "query") /\ UNCHANGED seen
       \/ value # Absent /\ Allowed(r, value) /\ Goto(r, "done") /\ See(r, value)
       \/ value # Absent /\ ~Allowed(r, value) /\ Goto(r, "denied") /\ UNCHANGED seen
    /\ UNCHANGED <<row, cache, control, outdated>>

LookupFails(r) ==
    /\ "redis" \in Faults
    /\ pc[r] = "lookup"
    /\ Goto(r, "query")
    /\ UNCHANGED <<row, cache, control, seen, outdated>>

Query(r) ==
    /\ pc[r] = "query"
    /\ \/ op[r] = "get" /\ row[target[r]] = Absent /\ Goto(r, "missing") /\ UNCHANGED seen
       \/ /\ op[r] = "get" => row[target[r]] # Absent
          /\ IF Allowed(r, row) THEN Goto(r, "fill") /\ See(r, Selected(r))
                                ELSE Goto(r, "denied") /\ UNCHANGED seen
    /\ UNCHANGED <<row, cache, control, outdated>>

(* writeCache: SET with the TTL, whatever happened since the query.         *)
Fill(r) ==
    /\ pc[r] = "fill"
    /\ LET k == ReadKey(r) IN
          /\ cache' = [cache EXCEPT ![k] = seen[r]]
          /\ outdated' = IF seen[r] = Part(k, row) THEN outdated \ {k}
                                                   ELSE outdated \cup {k}
    /\ Goto(r, "done")
    /\ UNCHANGED <<row, control, seen>>

FillFails(r) ==
    /\ "redis" \in Faults
    /\ pc[r] = "fill"
    /\ Goto(r, "done")
    /\ UNCHANGED <<row, cache, control, seen, outdated>>

-----------------------------------------------------------------------------
(* createCustomer, updateCustomer and deleteCustomer.                       *)

Load(r) ==
    /\ pc[r] = "load"
    /\ LET found == row[target[r]] IN
       \/ found = Absent /\ Goto(r, "missing") /\ UNCHANGED seen
       \/ /\ found # Absent
          /\ IF CanManage(user[r], found.owner)
             THEN Goto(r, "commit") /\ See(r, Part(target[r], row))
             ELSE Goto(r, "denied") /\ UNCHANGED seen
    /\ UNCHANGED <<row, cache, control, outdated>>

Create(r) ==
    /\ pc[r] = "commit" /\ op[r] = "create"
    /\ \E t \in TaxIds :
          \/ /\ TaxIdTaken(user[r], t, r)
             /\ End(r, "conflict") /\ UNCHANGED row
          \/ /\ ~TaxIdTaken(user[r], t, r)
             /\ row' = [row EXCEPT ![r] = [owner |-> user[r], taxId |-> t]]
             /\ See(r, Part(r, row'))
             /\ Goto(r, "invalidate")
    /\ UNCHANGED <<cache, control, outdated>>

\* Mutant: the update writes the caller's id as well, as the creation does.
UpdatedRowTakesOver(r, t) == [owner |-> user[r], taxId |-> t]

\* Mutant: the id of the path is written where the owner belongs.
UpdatedRowMixedUp(r, t) == [owner |-> target[r], taxId |-> t]

UpdatedRow(r, t) == [row[target[r]] EXCEPT !.taxId = t]

(* prisma.update fails when the row is gone.                                *)
Update(r) ==
    /\ pc[r] = "commit" /\ op[r] = "update"
    /\ \/ row[target[r]] = Absent /\ End(r, "failed") /\ UNCHANGED row
       \/ /\ row[target[r]] # Absent
          /\ \E t \in TaxIds :
                \/ /\ TaxIdTaken(row[target[r]].owner, t, target[r])
                   /\ End(r, "conflict") /\ UNCHANGED row
                \/ /\ ~TaxIdTaken(row[target[r]].owner, t, target[r])
                   /\ row' = [row EXCEPT ![target[r]] = UpdatedRow(r, t)]
                   /\ See(r, Part(target[r], row'))
                   /\ Goto(r, "invalidate")
    /\ UNCHANGED <<cache, control, outdated>>

Delete(r) ==
    /\ pc[r] = "commit" /\ op[r] = "delete"
    /\ \/ row[target[r]] = Absent /\ End(r, "failed") /\ UNCHANGED row
       \/ /\ row[target[r]] # Absent
          /\ row' = [row EXCEPT ![target[r]] = Absent]
          /\ Goto(r, "invalidate") /\ UNCHANGED seen
    /\ UNCHANGED <<cache, control, outdated>>

(* The keys a writer deletes: those of the row it holds.                    *)
Outdates(r) == Invalidated(target[r], seen[r][target[r]].owner)

Invalidate(r) ==
    /\ pc[r] = "invalidate"
    /\ cache' = [k \in Keys |-> IF k \in Outdates(r) THEN Absent ELSE cache[k]]
    /\ outdated' = outdated \ Outdates(r)
    /\ End(r, "done")
    /\ UNCHANGED <<row, control>>

(* The keys of the row r was about to delete from the cache stay.           *)
Lost(r) ==
    {k \in {target[r], seen[r][target[r]].owner, Everyone} : cache[k] # Absent}

InvalidateFails(r) ==
    /\ "redis" \in Faults
    /\ pc[r] = "invalidate"
    /\ End(r, "done")
    /\ outdated' = outdated \cup Lost(r)
    /\ UNCHANGED <<row, cache, control>>

-----------------------------------------------------------------------------
(* The environment.                                                         *)

(* The TTL of a key runs out.                                               *)
Lapse(k) ==
    /\ cache[k] # Absent
    /\ cache' = [cache EXCEPT ![k] = Absent]
    /\ outdated' = outdated \ {k}
    /\ UNCHANGED <<row, pc, control, seen>>

Crash(r) ==
    /\ "crash" \in Faults
    /\ pc[r] \notin Ended \cup {"start"}
    /\ End(r, "failed")
    /\ outdated' = IF pc[r] = "invalidate" THEN outdated \cup Lost(r) ELSE outdated
    /\ UNCHANGED <<row, cache, control>>

-----------------------------------------------------------------------------
Handle(r) ==
    \/ Arrive(r) \/ Lookup(r) \/ LookupFails(r) \/ Query(r) \/ Fill(r) \/ FillFails(r)
    \/ Load(r) \/ Create(r) \/ Update(r) \/ Delete(r)
    \/ Invalidate(r) \/ InvalidateFails(r)

(* Every request has ended: the instance has no more work.                  *)
Idle == (\A r \in Requests : pc[r] \in Ended) /\ UNCHANGED vars

Next ==
    \/ \E r \in Requests : Handle(r) \/ Crash(r)
    \/ \E k \in Keys : Lapse(k)
    \/ Idle

Spec == Init /\ [][Next]_vars

-----------------------------------------------------------------------------
(* Properties.                                                              *)

(* Every variable has its type: rows, cached parts of the table and control *)
(* points.                                                                  *)
CustomersTypeOK ==
    /\ row \in Table
    /\ cache \in [Keys -> Table \cup {Absent}]
    /\ pc \in [Requests -> Labels]
    /\ op \in [Requests -> Operations]
    /\ user \in [Requests -> Users \cup {Nobody}]
    /\ target \in [Requests -> Ids \cup {Nobody}]
    /\ seen \in [Requests -> Table]
    /\ outdated \subseteq Keys

Stale(k) == cache[k] # Absent /\ cache[k] # Part(k, row)

(* A cached value differs from the table only while the writer that         *)
(* outdated it has yet to delete its key, or because a reader stored what   *)
(* it had queried before, or a DEL was lost: every write deletes every key  *)
(* it outdates (invalidateCustomerCache), and a key that was deleted after  *)
(* the last late store is right.                                            *)
StaleIsExplained ==
    \A k \in Keys : Stale(k) =>
        \/ k \in outdated
        \/ \E r \in Requests :
              pc[r] = "invalidate" /\ k \in {target[r], seen[r][target[r]].owner, Everyone}

(* No answer, from the table or from the cache, fresh or stale, shows a     *)
(* user a customer the roles keep from this user (resolveReadableScope, the *)
(* list keys and the check on a cached item's owner).                       *)
AnswersPermitted ==
    \A r \in Requests :
        pc[r] = "done" /\ op[r] \in {"list", "get"} =>
            \A c \in Ids : seen[r][c] # Absent => CanAccess(user[r], seen[r][c].owner)

(* A customer stays with the owner that created it, whoever edits it, and a *)
(* deleted one does not come back through an update that read it before:    *)
(* what the cached items are checked against cannot change hands.           *)
OwnerIsForGood ==
    [][\A c \in Ids :
          /\ row[c] # Absent /\ row'[c] # Absent => row'[c].owner = row[c].owner
          /\ row[c] = Absent /\ row'[c] # Absent => pc[c] = "commit" /\ op[c] = "create"]_vars

(* What the code would have to ensure for the cache to hold nothing stale:  *)
(* a reader stores what it queried only if no write came in between         *)
(* (listCustomers, getCustomerById).  No guard of the code does.            *)
StoresOnlyCurrent ==
    [][\A r \in Requests : Fill(r) => seen[r] = Part(ReadKey(r), row)]_vars

=============================================================================
