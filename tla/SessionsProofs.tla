--------------------------- MODULE SessionsProofs ---------------------------
(***************************************************************************)
(* Theorems about Sessions, for any number of requests and under every     *)
(* fault.                                                                  *)
(***************************************************************************)
EXTENDS Sessions, TLAPS

-----------------------------------------------------------------------------
(* Where the handlers may be.                                               *)

(* The steps of validateSession and of the write that may follow it.        *)
Reading == {"get", "touch", "drop", "write"}

Creating == {"persist", "index", "record", "copy"}

Revocation == {"list", "next", "find", "delete", "recordRevoked", "restore", "reindex"}

(* The steps with a session value in hand.                                  *)
Holding == {"touch", "drop", "write", "delete", "recordRevoked", "restore"} \cup Creating

Walks == {"revokeAll", "disable"}

(* A reading handler works on the session of its request, or on the one its *)
(* login has created.                                                       *)
Subject(r) == IF endpoint[r] = "login" THEN r ELSE cookie[r]

Route(r) ==
    /\ pc[r] # "start" => at[r] \in Requests
    /\ pc[r] # "start" /\ endpoint[r] # "login" => cookie[r] \in Requests
    /\ pc[r] # "start" /\ endpoint[r] = "login" =>
          pc[r] \notin Revocation \cup {"copy", "members", "look"}
    /\ pc[r] \in Holding => held[r] \in Session
    /\ pc[r] \in Reading =>
          /\ stage[r] \in Validating
          /\ at[r] = Subject(r)
          /\ stage[r] = "rotate" => endpoint[r] = "refresh"
          /\ stage[r] = "relax" => endpoint[r] = "disable"
          /\ stage[r] # "reauth" => endpoint[r] # "login"
          /\ endpoint[r] \in Walks => stage[r] \in {"guard", "relax"}
          /\ pc[r] = "write" => stage[r] \notin {"guard", "rotate"}
    /\ pc[r] \in Revocation => stage[r] = "revoke"
    /\ pc[r] \in Creating \cup {"unmake"} => endpoint[r] \in {"login", "refresh"}
    /\ pc[r] \in {"members", "look"} => endpoint[r] = "list"
    /\ pc[r] \in {"list", "next"} => endpoint[r] \in Walks
    \* A walk that is over has visited every id.
    /\ /\ endpoint[r] \in Walks
       /\ pc[r] = "done" \/ (pc[r] \in Reading /\ stage[r] = "relax")
       => todo[r] = {}

Routes == \A r \in Requests : Route(r)

-----------------------------------------------------------------------------
(* Which sessions there are, and who may know them.                         *)

Born(s) == origin[s] # Nobody

(* Before its creation is persisted the session of a request does not exist.*)
Unborn(r) ==
    \/ pc[r] \in {"start", "persist"}
    \/ pc[r] \in Reading /\ stage[r] \in {"guard", "rotate"}

(* The handler knows only sessions there are, and which are its own.        *)
Lineage(r) ==
    /\ Unborn(r) => ~Born(r)
    /\ pc[r] # "start" /\ endpoint[r] # "login" => cookie[r] \in known
    /\ pc[r] \in Creating \ {"persist"} => Born(r)
    /\ pc[r] \in Reading /\ endpoint[r] = "login" => Born(r)
    /\ pc[r] \in Revocation /\ endpoint[r] = "refresh" => Born(r)
    /\ pc[r] \in Holding \ Creating => Born(at[r])
    /\ r \in asked => pc[r] # "start"

Descent ==
    /\ \A s \in known : Born(s) /\ pc[s] = "done"
    /\ \A s \in Requests : store[s] # Absent => Born(s)
    /\ \A s \in Requests : Born(s) => origin[s] \in Requests /\ Born(origin[s])
    /\ proven \subseteq known
    /\ \A r \in Requests : Lineage(r)

-----------------------------------------------------------------------------
(* Who was proven what.                                                     *)

Proven(login) == \E t \in proven : origin[t] = login

(* A value that claims a second factor descends from a login that has one.  *)
Safe(login, value) ==
    value.level = "factor" \/ (~value.pending /\ login \in asked) => Proven(login)

Backed(r) ==
    /\ pc[r] \in Holding \ Creating => Safe(origin[at[r]], held[r])
    /\ pc[r] = "persist" =>
          Safe(IF endpoint[r] = "login" THEN r ELSE origin[cookie[r]], held[r])
    /\ pc[r] \in Creating \ {"persist"} => Safe(origin[r], held[r])
    /\ pc[r] \in Reading /\ stage[r] \in {"complete", "level"} => cookie[r] \in proven
    /\ /\ endpoint[r] = "disable"
       /\ pc[r] \in Revocation \/ (pc[r] \in Reading /\ stage[r] = "relax")
       /\ origin[cookie[r]] \in asked
       => Proven(origin[cookie[r]])

Factors ==
    /\ \A s \in Requests : store[s] # Absent => Safe(origin[s], store[s])
    /\ \A r \in Requests : Backed(r)

-----------------------------------------------------------------------------
(* What became of a session.                                                *)

Swept(s) == \E q \in Requests : s \in stale[q]

Excused(s) ==
    \/ s \in trail \cup lapsed
    \/ Swept(s)
    \/ \E q \in Requests : Revoking(q, s)

(* The session of a handler that has not taken it back.                     *)
Kept(s) == Born(s) /\ pc[s] \notin {"unmake", "failed"}

Accounted ==
    \A s \in Requests : Kept(s) /\ store[s] = Absent =>
        \/ s \in lapsed \cup trail
        \/ \E q \in Requests : Revoking(q, s) /\ pc[q] # "reindex"

(* A kept session that has been put into the index is there, or excused.    *)
Indexed ==
    \A s \in Requests : Kept(s) /\ pc[s] # "index" => s \in index \/ Excused(s)

(* The walk has yet to visit s, or is at it.                                *)
Ahead(r, s) ==
    \/ s \in todo[r]
    \/ at[r] = s /\ pc[r] \in {"find", "delete"}

Dues ==
    \A r \in Requests :
        /\ due[r] # {} => endpoint[r] \in Walks /\ pc[r] # "start"
        /\ due[r] \subseteq known
        /\ \A s \in due[r] : Ahead(r, s) \/ Excused(s)

-----------------------------------------------------------------------------
(* The moves of a handler.                                                  *)

(* Only r moves.                                                            *)
Elsewhere(r) ==
    \A q \in Requests \ {r} :
        /\ pc'[q] = pc[q] /\ stage'[q] = stage[q] /\ endpoint'[q] = endpoint[q]
        /\ cookie'[q] = cookie[q] /\ at'[q] = at[q] /\ held'[q] = held[q]
        /\ todo'[q] = todo[q] /\ stale'[q] = stale[q]

(* Where the handler of r is after the step.                                *)
Moved(r, label, method, s) ==
    /\ pc' \in [Requests -> Labels] /\ pc'[r] = label
    /\ stage' \in [Requests -> Stages] /\ stage'[r] = method
    /\ at' \in [Requests -> Requests \cup {Nobody}] /\ at'[r] = s
    /\ \A q \in Requests \ {r} :
          pc'[q] = pc[q] /\ stage'[q] = stage[q] /\ at'[q] = at[q]

Held(r, value) ==
    /\ held' \in [Requests -> Session \cup {Absent}] /\ held'[r] = value
    /\ \A q \in Requests \ {r} : held'[q] = held[q]

LEMMA Entering ==
    ASSUME SessionsTypeOK, NEW r \in Requests, NEW method \in Stages,
           NEW label \in Labels, NEW s \in Requests, Enter(r, method, label, s)
    PROVE  Moved(r, label, method, s)
BY DEF SessionsTypeOK, Enter, Goto, Moved

LEMMA Staying ==
    ASSUME SessionsTypeOK, NEW r \in Requests, NEW label \in Labels, Stay(r, label)
    PROVE  Moved(r, label, stage[r], at[r])
BY DEF SessionsTypeOK, Stay, Goto, Moved

LEMMA Taking ==
    ASSUME SessionsTypeOK, NEW r \in Requests, NEW value \in Session \cup {Absent},
           Hold(r, value)
    PROVE  Held(r, value)
BY DEF SessionsTypeOK, Hold, Held

LEMMA Keeping ==
    ASSUME SessionsTypeOK, NEW r \in Requests, UNCHANGED held
    PROVE  Held(r, held[r])
BY DEF SessionsTypeOK, Held

LEMMA Ending ==
    ASSUME SessionsTypeOK, NEW r \in Requests, NEW label \in Labels, End(r, label)
    PROVE  Moved(r, label, stage[r], at[r]) /\ Held(r, Absent)
BY Staying, Taking DEF End

LEMMA Names ==
    /\ {"start", "get", "touch", "drop", "write", "persist", "index", "record",
        "copy", "unmake", "list", "next", "find", "delete", "recordRevoked",
        "restore", "reindex", "members", "look", "done", "refused", "failed"}
          \subseteq Labels
    /\ {"guard", "complete", "level", "reauth", "rotate", "relax", "create",
        "revoke", "listing"} \subseteq Stages
    /\ Absent \notin Session
BY AbsentAssumption DEF Labels, Stages, Validating

(* A step of r changes nothing else, and r stays on its route.              *)
OneMoves(r) == SessionsTypeOK' /\ Elsewhere(r) /\ Route(r)'

Now == SessionsTypeOK /\ Routes

LEMMA LoginMoves ==
    ASSUME Now, NEW r \in Requests, Login(r)
    PROVE  OneMoves(r)
<1> USE Names
<1>1. PICK needsMfa \in BOOLEAN : Hold(r, NewSession(needsMfa))
  BY DEF Login
<1>2. Held(r, NewSession(needsMfa)) /\ NewSession(needsMfa) \in Session
  BY <1>1, Taking DEF Now, NewSession, Session
<1>3. Moved(r, "persist", "create", r)
  BY Entering DEF Now, Login
<1>4. SessionsTypeOK'
  BY <1>2, <1>3 DEF Now, Login, redis, walk, SessionsTypeOK, Moved, Held, Endpoints
<1>5. Elsewhere(r)
  BY <1>2, <1>3 DEF Now, Login, walk, SessionsTypeOK, Moved, Held, Elsewhere
<1>6. Route(r)'
  BY <1>2, <1>3 DEF Now, Login, SessionsTypeOK, Moved, Held, Route, Reading, Creating,
     Revocation, Holding, Walks
<1> QED BY <1>4, <1>5, <1>6 DEF OneMoves

LEMMA ArriveMoves ==
    ASSUME Now, NEW r \in Requests, Arrive(r)
    PROVE  OneMoves(r)
<1> USE Names
<1>1. PICK e \in Endpoints \ {"login"}, s \in known :
          /\ endpoint' = [endpoint EXCEPT ![r] = e]
          /\ cookie' = [cookie EXCEPT ![r] = s]
          /\ Enter(r, "guard", "get", s)
  BY DEF Arrive
<1>2. s \in Requests
  BY DEF Now, SessionsTypeOK
<1>3. Moved(r, "get", "guard", s)
  BY <1>1, <1>2, Entering DEF Now
<1>4. UNCHANGED <<redis, trail, held, walk, history>>
  BY DEF Arrive
<1>5. SessionsTypeOK'
  BY <1>1, <1>2, <1>3, <1>4 DEF Now, redis, walk, history, SessionsTypeOK, Moved
<1>6. Elsewhere(r)
  BY <1>1, <1>3, <1>4 DEF Now, walk, SessionsTypeOK, Moved, Elsewhere
<1>7. Route(r)'
  BY <1>1, <1>2, <1>3, <1>4 DEF Now, SessionsTypeOK, Moved, Route, Reading, Creating,
     Revocation, Holding, Walks, Subject, Validating
<1> QED BY <1>5, <1>6, <1>7 DEF OneMoves

(* The types of what a handler keeps.                                       *)
ControlOK ==
    /\ pc \in [Requests -> Labels] /\ stage \in [Requests -> Stages]
    /\ endpoint \in [Requests -> Endpoints]
    /\ cookie \in [Requests -> Requests \cup {Nobody}]
    /\ at \in [Requests -> Requests \cup {Nobody}]
    /\ held \in [Requests -> Session \cup {Absent}]

(* Where the guard lets a request go.                                       *)
Admits(r, method, label, s) ==
    \/ method = "revoke" /\ label = "find" /\ endpoint[r] \in {"logout", "revokeOne"}
    \/ method = "revoke" /\ label = "list" /\ endpoint[r] \in Walks
    \/ method = "listing" /\ label = "members" /\ endpoint[r] = "list"
    \/ /\ method \in {"rotate", "complete", "level", "reauth"} /\ label = "get"
       /\ s = cookie[r] /\ endpoint[r] \notin Walks
       /\ method = "rotate" => endpoint[r] = "refresh"

LEMMA GuardPassedMoves ==
    ASSUME Now, NEW r \in Requests, pc[r] \in {"get", "touch"}, stage[r] = "guard",
           NEW value \in Session, GuardPassed(r, value), Request, UNCHANGED walk
    PROVE  ControlOK' /\ Elsewhere(r) /\ Route(r)'
<1> USE Names DEF Now, Request, walk
<1>1. endpoint[r] # "login" /\ cookie[r] \in Requests /\ at[r] \in Requests
  BY DEF Routes, Route, Reading
<1>2. \/ End(r, "refused")
      \/ End(r, "done") /\ endpoint[r] = "me"
      \/ \E s \in Requests, method \in Stages, label \in Labels :
            /\ Enter(r, method, label, s) /\ Hold(r, value)
            /\ Admits(r, method, label, s)
  <2>1. \A s \in known \cup index : s \in Requests
    BY DEF SessionsTypeOK
  <2>2. CASE endpoint[r] \in {"logout", "revokeOne"}
    BY <1>1, <2>1, <2>2 DEF GuardPassed, Admits
  <2>3. CASE endpoint[r] \notin {"logout", "revokeOne"}
    BY <1>1, <2>3 DEF GuardPassed, Walks, Admits
  <2> QED BY <2>2, <2>3
<1>3. CASE End(r, "refused") \/ (End(r, "done") /\ endpoint[r] = "me")
  <2>1. PICK label \in {"refused", "done"} :
           /\ End(r, label) /\ label \in Labels
           /\ label = "done" => endpoint[r] = "me"
    BY <1>3
  <2>2. Moved(r, label, stage[r], at[r]) /\ Held(r, Absent)
    BY <2>1, Ending
  <2> QED BY <1>1, <2>1, <2>2 DEF Moved, Held, SessionsTypeOK, ControlOK, Elsewhere, Route,
          Reading, Creating, Revocation, Holding, Walks
<1>4. CASE \E s \in Requests, method \in Stages, label \in Labels :
            /\ Enter(r, method, label, s) /\ Hold(r, value)
            /\ Admits(r, method, label, s)
  <2>1. PICK s \in Requests, method \in Stages, label \in Labels :
            /\ Enter(r, method, label, s) /\ Hold(r, value)
            /\ Admits(r, method, label, s)
    BY <1>4
  <2>2. Moved(r, label, method, s) /\ Held(r, value)
    BY <2>1, Entering, Taking
  <2>3. ControlOK' /\ Elsewhere(r)
    BY <2>2 DEF Moved, Held, SessionsTypeOK, ControlOK, Elsewhere
  <2>4. Route(r)'
    BY <1>1, <2>1, <2>2 DEF Admits, Moved, Held, Route, Reading, Creating, Revocation, Holding,
       Walks, Subject, Validating
  <2> QED BY <2>3, <2>4
<1> QED BY <1>2, <1>3, <1>4

LEMMA ValidatedMoves ==
    ASSUME Now, NEW r \in Requests, pc[r] \in {"get", "touch"},
           NEW value \in Session, Validated(r, value), Request, UNCHANGED walk
    PROVE  ControlOK' /\ Elsewhere(r) /\ Route(r)'
<1> USE Names DEF Now, Request
<1>1. /\ stage[r] \in Validating /\ at[r] = Subject(r) /\ at[r] \in Requests
      /\ stage[r] = "rotate" => endpoint[r] = "refresh"
      /\ stage[r] = "relax" => endpoint[r] = "disable" /\ todo[r] = {}
      /\ stage[r] # "reauth" => endpoint[r] # "login"
      /\ endpoint[r] \in Walks => stage[r] \in {"guard", "relax"}
      /\ endpoint[r] # "login" => cookie[r] \in Requests
  BY DEF Routes, Route, Reading, Walks
<1>2. CASE stage[r] = "guard"
  BY <1>2, GuardPassedMoves DEF Validated
<1>3. CASE stage[r] = "rotate"
  <2>1. Enter(r, "create", "persist", r) /\ Hold(r, value)
    BY <1>3 DEF Validated
  <2>2. Moved(r, "persist", "create", r) /\ Held(r, value)
    BY <2>1, Entering, Taking
  <2> QED BY <1>1, <1>3, <2>2 DEF Moved, Held, SessionsTypeOK, ControlOK, Elsewhere, walk,
          Route, Reading, Creating, Revocation, Holding, Walks
<1>4. CASE stage[r] \notin {"guard", "rotate"}
  <2>1. Stay(r, "write") /\ Hold(r, value)
    BY <1>4 DEF Validated
  <2>2. Moved(r, "write", stage[r], at[r]) /\ Held(r, value)
    BY <2>1, Staying, Taking
  <2> QED BY <1>1, <1>4, <2>2 DEF Moved, Held, SessionsTypeOK, ControlOK, Elsewhere, walk,
          Route, Reading, Creating, Revocation, Holding, Walks, Subject
<1> QED BY <1>2, <1>3, <1>4

LEMMA InvalidMoves ==
    ASSUME Now, NEW r \in Requests, pc[r] \in {"get", "drop"}, Invalid(r), Request,
           UNCHANGED walk
    PROVE  ControlOK' /\ Elsewhere(r) /\ Route(r)' /\ known' \subseteq Requests
<1> USE Names DEF Now, Request
<1>1. at[r] \in Requests /\ (endpoint[r] # "login" => cookie[r] \in Requests)
  BY DEF Routes, Route
<1>2. PICK label \in {"done", "refused"} :
         /\ End(r, label) /\ label \in Labels
         /\ label = "done" => endpoint[r] = "login"
         /\ known' \subseteq known \cup {at[r]}
  BY DEF Invalid, EndWith
<1>3. Moved(r, label, stage[r], at[r]) /\ Held(r, Absent)
  BY <1>2, Ending
<1> QED BY <1>1, <1>2, <1>3 DEF Moved, Held, SessionsTypeOK, ControlOK, Elsewhere, walk,
        Route, Reading, Creating, Revocation, Holding, Walks

(* The variables beside the locals of the handlers.                         *)
LEMMA Joined ==
    ASSUME ControlOK', SessionsTypeOK, UNCHANGED walk,
           store' \in [Requests -> Session \cup {Absent}],
           index' \subseteq Requests, UNCHANGED <<trail, asked, origin>>,
           known' \subseteq Requests, lapsed' \subseteq Requests, proven' \subseteq Requests
    PROVE  SessionsTypeOK'
BY DEF ControlOK, SessionsTypeOK, walk

LEMMA ProvenTypes ==
    ASSUME Now, NEW r \in Requests, pc[r] \in {"get", "touch"}, NEW value \in Session,
           Validated(r, value)
    PROVE  proven' \subseteq Requests
<1>1. pc[r] \in Reading /\ (stage[r] = "guard" => cookie[r] \in Requests)
  BY DEF Now, Routes, Route, Reading
<1>2. stage[r] \in Validating
  BY <1>1 DEF Now, Routes, Route
<1>3. CASE stage[r] = "guard"
  BY <1>1, <1>3 DEF Validated, GuardPassed, Now, SessionsTypeOK
<1>4. CASE stage[r] # "guard"
  BY <1>2, <1>4 DEF Validated, Now, SessionsTypeOK
<1> QED BY <1>3, <1>4

LEMMA GetMoves ==
    ASSUME Now, NEW r \in Requests, Get(r)
    PROVE  OneMoves(r)
<1> USE Names
<1>1. /\ pc[r] = "get" /\ Request
      /\ UNCHANGED <<redis, trail, walk, lapsed, asked, origin>>
  BY DEF Get
<1>2. at[r] \in Requests /\ pc[r] \in Reading /\ store[at[r]] \in Session \cup {Absent}
  BY <1>1 DEF Now, SessionsTypeOK, Routes, Route, Reading
<1>3. CASE Invalid(r) /\ UNCHANGED proven
  BY <1>1, <1>3, InvalidMoves, Joined DEF OneMoves, Now, SessionsTypeOK, redis
<1>4. CASE store[at[r]] # Absent /\ Validated(r, store[at[r]]) /\ UNCHANGED known
  BY <1>1, <1>2, <1>4, ValidatedMoves, ProvenTypes, Joined DEF OneMoves, Now, SessionsTypeOK, redis
<1>5. CASE /\ store[at[r]] # Absent /\ UNCHANGED <<known, proven>>
           /\ \E label \in {"touch", "drop"} : Stay(r, label)
           /\ Hold(r, store[at[r]])
  <2>1. PICK label \in {"touch", "drop"} : Stay(r, label) /\ label \in Labels
    BY <1>5
  <2>2. Moved(r, label, stage[r], at[r]) /\ Held(r, store[at[r]])
    BY <1>2, <1>5, <2>1, Staying, Taking DEF Now
  <2>3. ControlOK' /\ Elsewhere(r)
    BY <1>1, <2>2 DEF Now, Request, walk, Moved, Held, SessionsTypeOK, ControlOK, Elsewhere
  <2>4. Route(r)'
    BY <1>1, <1>2, <1>5, <2>2 DEF Now, Request, walk, Moved, Held, SessionsTypeOK, Routes, Route,
       Reading, Creating, Revocation, Holding, Walks, Subject
  <2> QED BY <1>1, <1>5, <2>3, <2>4, Joined DEF OneMoves, Now, SessionsTypeOK, redis
<1> QED BY <1>3, <1>4, <1>5 DEF Get

LEMMA TouchDropMoves ==
    ASSUME Now, NEW r \in Requests, Touch(r) \/ Drop(r)
    PROVE  OneMoves(r)
<1> USE Names
<1>1. pc[r] \in {"touch", "drop"} /\ Request /\ UNCHANGED <<walk, trail, asked, origin>>
  BY DEF Touch, Drop
<1>2. at[r] \in Requests /\ held[r] \in Session
  BY <1>1 DEF Now, Routes, Route, Holding
<1>3. CASE Touch(r)
  <2>1. /\ pc[r] = "touch" /\ Validated(r, held[r])
        /\ store' \in [Requests -> Session \cup {Absent}]
        /\ UNCHANGED <<index, known, lapsed>>
    BY <1>2, <1>3 DEF Touch, Now, SessionsTypeOK
  <2> QED BY <1>1, <1>2, <2>1, ValidatedMoves, ProvenTypes, Joined DEF OneMoves, Now, SessionsTypeOK
<1>4. CASE Drop(r)
  <2>1. /\ pc[r] = "drop" /\ Invalid(r)
        /\ store' \in [Requests -> Session \cup {Absent}]
        /\ index' \subseteq Requests /\ lapsed' \subseteq Requests /\ UNCHANGED proven
    BY <1>2, <1>4 DEF Drop, Remove, Now, SessionsTypeOK
  <2> QED BY <1>1, <2>1, InvalidMoves, Joined DEF OneMoves, Now, SessionsTypeOK
<1> QED BY <1>3, <1>4

LEMMA WriteMoves ==
    ASSUME Now, NEW r \in Requests, Write(r)
    PROVE  OneMoves(r)
<1> USE Names
<1>1. /\ at[r] \in Requests /\ held[r] \in Session /\ at[r] = Subject(r)
      /\ stage[r] \in {"complete", "level", "reauth", "relax"} /\ stage[r] \in Validating
      /\ endpoint[r] # "login" => cookie[r] \in Requests
      /\ stage[r] = "relax" => endpoint[r] = "disable" /\ todo[r] = {}
      /\ stage[r] # "reauth" => endpoint[r] # "login"
      /\ stage[r] # "relax" => endpoint[r] \notin Walks
  BY DEF Write, Now, Routes, Route, Holding, Reading, Validating, Walks
<1>2. Upgraded(stage[r], held[r]) \in Session
  BY <1>1 DEF Upgraded, Session
<1>3. store' \in [Requests -> Session \cup {Absent}]
  BY <1>1, <1>2 DEF Write, Now, SessionsTypeOK
<1>4. CASE stage[r] \in {"complete", "level"}
  <2>1. Moved(r, "get", "reauth", at[r]) /\ Held(r, held[r]) /\ UNCHANGED known
    BY <1>1, <1>4, Entering, Keeping DEF Write, Now
  <2>2. Request /\ UNCHANGED <<index, trail, walk, lapsed, asked, proven, origin>>
    BY DEF Write
  <2>3. SessionsTypeOK'
    BY <1>1, <1>3, <1>4, <2>1, <2>2 DEF Now, Request, redis, walk, history, Moved, Held, SessionsTypeOK
  <2>4. Elsewhere(r) /\ Route(r)'
    BY <1>1, <1>3, <1>4, <2>1, <2>2 DEF Now, Request, redis, walk, history, Moved, Held, SessionsTypeOK,
       Elsewhere, Route, Reading, Creating, Revocation, Holding, Walks, Subject, Validating
  <2> QED BY <2>3, <2>4 DEF OneMoves
<1>5. CASE stage[r] \in {"reauth", "relax"}
  <2>1. PICK label \in {"done", "refused"} :
           /\ End(r, label) /\ label \in Labels /\ known' \subseteq known \cup {at[r]}
    BY <1>5 DEF Write, EndWith
  <2>2. Moved(r, label, stage[r], at[r]) /\ Held(r, Absent)
    BY <2>1, Ending DEF Now
  <2>3. Request /\ UNCHANGED <<index, trail, walk, lapsed, asked, proven, origin>>
    BY DEF Write
  <2>4. SessionsTypeOK'
    BY <1>1, <1>3, <1>5, <2>1, <2>2, <2>3 DEF Now, Request, redis, walk, history, Moved, Held, SessionsTypeOK
  <2>5. Elsewhere(r) /\ Route(r)'
    BY <1>1, <1>3, <1>5, <2>1, <2>2, <2>3 DEF Now, Request, redis, walk, history, Moved, Held, SessionsTypeOK,
       Elsewhere, Route, Reading, Creating, Revocation, Holding, Walks, Subject
  <2> QED BY <2>4, <2>5 DEF OneMoves
<1> QED BY <1>1, <1>4, <1>5

LEMMA CreationMoves ==
    ASSUME Now, NEW r \in Requests,
           \/ Persist(r) \/ AddToIndex(r) \/ RecordCreated(r) \/ RecordCreatedFails(r)
           \/ CopyReauth(r) \/ Unmake(r)
    PROVE  OneMoves(r)
<1> USE Names
<1>1. /\ pc[r] \in Creating \cup {"unmake"} /\ endpoint[r] \in {"login", "refresh"}
      /\ at[r] \in Requests /\ (endpoint[r] = "refresh" => cookie[r] \in Requests)
      /\ pc[r] = "copy" => endpoint[r] = "refresh"
      /\ pc[r] # "unmake" => held[r] \in Session
  <2>1. pc[r] \in Creating \cup {"unmake"} /\ pc[r] # "start"
    BY DEF Persist, AddToIndex, RecordCreated, RecordCreatedFails, CopyReauth, Unmake, Creating
  <2> QED BY <2>1 DEF Now, Routes, Route, Holding
<1>2. CASE Persist(r)
  <2>1. Moved(r, "index", stage[r], at[r]) /\ Held(r, held[r])
    BY <1>2, Staying, Keeping DEF Persist, Now
  <2>2. Created(r) \in Session
    BY <1>1, <1>2 DEF Persist, Created, Session
  <2>3. SessionsTypeOK'
    BY <1>1, <1>2, <2>1, <2>2 DEF Persist, Now, Request, redis, walk, history, Moved, Held, SessionsTypeOK
  <2>4. Elsewhere(r) /\ Route(r)'
    BY <1>1, <1>2, <2>1, <2>2 DEF Persist, Now, Request, redis, walk, history, Moved, Held, SessionsTypeOK,
       Elsewhere, Route, Reading, Creating, Revocation, Holding, Walks, Subject
  <2> QED BY <2>3, <2>4 DEF OneMoves
<1>3. CASE AddToIndex(r)
  <2>1. Moved(r, "record", stage[r], at[r]) /\ Held(r, held[r])
    BY <1>3, Staying, Keeping DEF AddToIndex, Now
  <2>2. SessionsTypeOK'
    BY <1>1, <1>3, <2>1 DEF AddToIndex, Now, Request, redis, walk, history, Moved, Held, SessionsTypeOK
  <2>3. Elsewhere(r) /\ Route(r)'
    BY <1>1, <1>3, <2>1 DEF AddToIndex, Now, Request, redis, walk, history, Moved, Held, SessionsTypeOK,
       Elsewhere, Route, Reading, Creating, Revocation, Holding, Walks, Subject
  <2> QED BY <2>2, <2>3 DEF OneMoves
<1>4. CASE RecordCreated(r) /\ End(r, "done")
  <2>1. Moved(r, "done", stage[r], at[r]) /\ Held(r, Absent)
    BY <1>4, Ending DEF Now
  <2>2. known' \subseteq known \cup {r} /\ pc[r] = "record"
    BY <1>4 DEF RecordCreated, EndWith
  <2>3. SessionsTypeOK'
    BY <1>1, <1>4, <2>1, <2>2 DEF RecordCreated, Now, Request, redis, walk, history, Moved, Held, SessionsTypeOK
  <2>4. Elsewhere(r) /\ Route(r)'
    BY <1>1, <1>4, <2>1, <2>2 DEF RecordCreated, Now, Request, redis, walk, history, Moved, Held, SessionsTypeOK,
       Elsewhere, Route, Reading, Creating, Revocation, Holding, Walks, Subject
  <2> QED BY <2>3, <2>4 DEF OneMoves
<1>5. CASE RecordCreated(r) /\ ~End(r, "done")
  <2>1. UNCHANGED <<held, known>>
    BY <1>5 DEF RecordCreated, EndWith
  <2>2. \/ Enter(r, "reauth", "get", r) /\ endpoint[r] = "login"
        \/ endpoint[r] = "refresh" /\ Stay(r, "copy")
        \/ endpoint[r] = "refresh" /\ Enter(r, "revoke", "find", cookie[r])
    BY <1>5 DEF RecordCreated, EndWith
  <2>3. \/ Moved(r, "get", "reauth", r) /\ endpoint[r] = "login"
        \/ Moved(r, "copy", stage[r], at[r]) /\ endpoint[r] = "refresh"
        \/ Moved(r, "find", "revoke", cookie[r]) /\ endpoint[r] = "refresh"
    BY <1>1, <2>2, Entering, Staying DEF Now
  <2>4. /\ Held(r, held[r]) /\ Request /\ pc[r] = "record"
        /\ UNCHANGED <<redis, trail, walk, lapsed, asked, proven, origin>>
    BY <1>5, <2>1, Keeping DEF RecordCreated, Now
  <2>5. SessionsTypeOK'
    BY <2>1, <2>3, <2>4 DEF Now, Request, redis, walk, history, Moved, Held, SessionsTypeOK
  <2>6. Elsewhere(r) /\ Route(r)'
    BY <1>1, <2>1, <2>3, <2>4 DEF Now, Request, redis, walk, history, Moved, Held, SessionsTypeOK,
       Elsewhere, Route, Reading, Creating, Revocation, Holding, Walks, Subject, Validating
  <2> QED BY <2>5, <2>6 DEF OneMoves
<1>6. CASE RecordCreatedFails(r)
  <2>1. Moved(r, "unmake", stage[r], at[r]) /\ Held(r, held[r])
    BY <1>6, Staying, Keeping DEF RecordCreatedFails, Now
  <2>2. SessionsTypeOK'
    BY <1>1, <1>6, <2>1 DEF RecordCreatedFails, Now, Request, redis, walk, history, Moved, Held, SessionsTypeOK
  <2>3. Elsewhere(r) /\ Route(r)'
    BY <1>1, <1>6, <2>1 DEF RecordCreatedFails, Now, Request, redis, walk, history, Moved, Held, SessionsTypeOK,
       Elsewhere, Route, Reading, Creating, Revocation, Holding, Walks, Subject
  <2> QED BY <2>2, <2>3 DEF OneMoves
<1>7. CASE CopyReauth(r)
  <2>1. Moved(r, "find", "revoke", cookie[r]) /\ Held(r, held[r]) /\ pc[r] = "copy"
    BY <1>1, <1>7, Entering, Keeping DEF CopyReauth, Now
  <2>2. SessionsTypeOK'
    BY <1>1, <1>7, <2>1 DEF CopyReauth, Now, Request, redis, walk, history, Moved, Held, SessionsTypeOK
  <2>3. Elsewhere(r) /\ Route(r)'
    BY <1>1, <1>7, <2>1 DEF CopyReauth, Now, Request, redis, walk, history, Moved, Held, SessionsTypeOK,
       Elsewhere, Route, Reading, Creating, Revocation, Holding, Walks, Subject
  <2> QED BY <2>2, <2>3 DEF OneMoves
<1>8. CASE Unmake(r)
  <2>1. Moved(r, "failed", stage[r], at[r]) /\ Held(r, Absent)
    BY <1>8, Ending DEF Unmake, Now
  <2>2. SessionsTypeOK'
    BY <1>1, <1>8, <2>1 DEF Unmake, Remove, Now, Request, redis, walk, history, Moved, Held, SessionsTypeOK
  <2>3. Elsewhere(r) /\ Route(r)'
    BY <1>1, <1>8, <2>1 DEF Unmake, Remove, Now, Request, redis, walk, history, Moved, Held, SessionsTypeOK,
       Elsewhere, Route, Reading, Creating, Revocation, Holding, Walks, Subject
  <2> QED BY <2>2, <2>3 DEF OneMoves
<1> QED BY <1>2, <1>3, <1>4, <1>5, <1>6, <1>7, <1>8

LEMMA RevokedMoves ==
    ASSUME Now, NEW r \in Requests, pc[r] \in {"find", "recordRevoked"}, Revoked(r),
           Request, UNCHANGED walk
    PROVE  ControlOK' /\ Elsewhere(r) /\ Route(r)' /\ known' \subseteq Requests
<1> USE Names DEF Now, Request
<1>1. /\ at[r] \in Requests /\ cookie[r] \in Requests /\ stage[r] = "revoke"
      /\ endpoint[r] # "login"
  BY DEF Routes, Route, Revocation
<1>2. CASE endpoint[r] \in Walks
  <2>1. Stay(r, "next") /\ UNCHANGED <<held, known>>
    BY <1>2 DEF Revoked, Walks
  <2>2. Moved(r, "next", stage[r], at[r]) /\ Held(r, held[r])
    BY <2>1, Staying, Keeping
  <2> QED BY <1>1, <1>2, <2>1, <2>2 DEF Moved, Held, SessionsTypeOK, ControlOK, walk,
          Elsewhere, Route, Reading, Creating, Revocation, Holding, Walks
<1>3. CASE endpoint[r] \notin Walks
  <2>1. End(r, "done") /\ known' \subseteq known \cup {r}
    BY <1>3 DEF Revoked, EndWith, Walks
  <2>2. Moved(r, "done", stage[r], at[r]) /\ Held(r, Absent)
    BY <2>1, Ending
  <2> QED BY <1>1, <1>3, <2>1, <2>2 DEF Moved, Held, SessionsTypeOK, ControlOK, walk,
          Elsewhere, Route, Reading, Creating, Revocation, Holding, Walks
<1> QED BY <1>2, <1>3

LEMMA RevocationMoves ==
    ASSUME Now, NEW r \in Requests,
           \/ FindVictim(r) \/ DeleteVictim(r) \/ RecordRevoked(r) \/ RecordRevokedFails(r)
           \/ Restore(r) \/ Reindex(r)
    PROVE  OneMoves(r)
<1> USE Names
<1>1. /\ pc[r] \in {"find", "delete", "recordRevoked", "restore", "reindex"}
      /\ at[r] \in Requests /\ cookie[r] \in Requests /\ stage[r] = "revoke"
      /\ endpoint[r] # "login"
      /\ pc[r] \in {"delete", "recordRevoked", "restore"} => held[r] \in Session
  <2>1. pc[r] \in {"find", "delete", "recordRevoked", "restore", "reindex"}
    BY DEF FindVictim, DeleteVictim, RecordRevoked, RecordRevokedFails, Restore, Reindex
  <2> QED BY <2>1 DEF Now, Routes, Route, Holding, Revocation
<1>2. CASE FindVictim(r) /\ Revoked(r)
  BY <1>2, RevokedMoves, Joined DEF FindVictim, OneMoves, Now, SessionsTypeOK, redis
<1>3. CASE FindVictim(r) /\ ~Revoked(r)
  <2>1. Moved(r, "delete", stage[r], at[r]) /\ Held(r, store[at[r]])
    BY <1>1, <1>3, Staying, Taking DEF FindVictim, Now, SessionsTypeOK
  <2>2. store[at[r]] \in Session /\ UNCHANGED known
    BY <1>1, <1>3 DEF FindVictim, Now, SessionsTypeOK
  <2>3. SessionsTypeOK'
    BY <1>1, <1>3, <2>1, <2>2 DEF FindVictim, Now, Request, redis, walk, history, Moved, Held, SessionsTypeOK
  <2>4. Elsewhere(r) /\ Route(r)'
    BY <1>1, <1>3, <2>1, <2>2 DEF FindVictim, Now, Request, redis, walk, history, Moved, Held, SessionsTypeOK,
       Elsewhere, Route, Reading, Creating, Revocation, Holding, Walks, Subject
  <2> QED BY <2>3, <2>4 DEF OneMoves
<1>4. CASE DeleteVictim(r)
  <2>1. Moved(r, "recordRevoked", stage[r], at[r]) /\ Held(r, held[r])
    BY <1>4, Staying, Keeping DEF DeleteVictim, Now
  <2>2. SessionsTypeOK'
    BY <1>1, <1>4, <2>1 DEF DeleteVictim, Remove, Now, Request, redis, walk, history, Moved, Held, SessionsTypeOK
  <2>3. Elsewhere(r) /\ Route(r)'
    BY <1>1, <1>4, <2>1 DEF DeleteVictim, Remove, Now, Request, redis, walk, history, Moved, Held, SessionsTypeOK,
       Elsewhere, Route, Reading, Creating, Revocation, Holding, Walks, Subject
  <2> QED BY <2>2, <2>3 DEF OneMoves
<1>5. CASE RecordRevoked(r)
  <2>1. ControlOK' /\ Elsewhere(r) /\ Route(r)' /\ known' \subseteq Requests
    BY <1>5, RevokedMoves DEF RecordRevoked
  <2> QED BY <1>1, <1>5, <2>1 DEF RecordRevoked, OneMoves, ControlOK, Now, SessionsTypeOK,
          redis, walk
<1>6. CASE RecordRevokedFails(r)
  <2>1. Moved(r, "restore", stage[r], at[r]) /\ Held(r, held[r])
    BY <1>6, Staying, Keeping DEF RecordRevokedFails, Now
  <2>2. SessionsTypeOK'
    BY <1>1, <1>6, <2>1 DEF RecordRevokedFails, Now, Request, redis, walk, history, Moved, Held, SessionsTypeOK
  <2>3. Elsewhere(r) /\ Route(r)'
    BY <1>1, <1>6, <2>1 DEF RecordRevokedFails, Now, Request, redis, walk, history, Moved, Held, SessionsTypeOK,
       Elsewhere, Route, Reading, Creating, Revocation, Holding, Walks, Subject
  <2> QED BY <2>2, <2>3 DEF OneMoves
<1>7. CASE Restore(r)
  <2>1. Moved(r, "reindex", stage[r], at[r]) /\ Held(r, held[r])
    BY <1>7, Staying, Keeping DEF Restore, Now
  <2>2. SessionsTypeOK'
    BY <1>1, <1>7, <2>1 DEF Restore, PutBack, Now, Request, redis, walk, history, Moved, Held, SessionsTypeOK
  <2>3. Elsewhere(r) /\ Route(r)'
    BY <1>1, <1>7, <2>1 DEF Restore, PutBack, Now, Request, redis, walk, history, Moved, Held, SessionsTypeOK,
       Elsewhere, Route, Reading, Creating, Revocation, Holding, Walks, Subject
  <2> QED BY <2>2, <2>3 DEF OneMoves
<1>8. CASE Reindex(r) /\ endpoint[r] = "refresh"
  <2>1. Moved(r, "unmake", "create", r) /\ Held(r, held[r])
    BY <1>8, Entering, Keeping DEF Reindex, Reindexed, Now
  <2>2. SessionsTypeOK'
    BY <1>1, <1>8, <2>1 DEF Reindex, Reindexed, PutBack, Now, Request, redis, walk, history, Moved, Held, SessionsTypeOK
  <2>3. Elsewhere(r) /\ Route(r)'
    BY <1>1, <1>8, <2>1 DEF Reindex, Reindexed, PutBack, Now, Request, redis, walk, history, Moved, Held, SessionsTypeOK,
       Elsewhere, Route, Reading, Creating, Revocation, Holding, Walks, Subject
  <2> QED BY <2>2, <2>3 DEF OneMoves
<1>9. CASE Reindex(r) /\ endpoint[r] # "refresh"
  <2>1. Moved(r, "refused", stage[r], at[r]) /\ Held(r, Absent)
    BY <1>9, Ending DEF Reindex, Reindexed, Now
  <2>2. SessionsTypeOK'
    BY <1>1, <1>9, <2>1 DEF Reindex, Reindexed, PutBack, Now, Request, redis, walk, history, Moved, Held, SessionsTypeOK
  <2>3. Elsewhere(r) /\ Route(r)'
    BY <1>1, <1>9, <2>1 DEF Reindex, Reindexed, PutBack, Now, Request, redis, walk, history, Moved, Held, SessionsTypeOK,
       Elsewhere, Route, Reading, Creating, Revocation, Holding, Walks, Subject
  <2> QED BY <2>2, <2>3 DEF OneMoves
<1> QED BY <1>2, <1>3, <1>4, <1>5, <1>6, <1>7, <1>8, <1>9

LEMMA WalkMoves ==
    ASSUME Now, NEW r \in Requests,
           ListSessions(r) \/ NextSession(r) \/ Members(r) \/ Look(r) \/ LookFails(r) \/ Sweep(r)
    PROVE  OneMoves(r)
<1> USE Names
<1>1. /\ pc[r] \in {"list", "next", "members", "look"}
      /\ at[r] \in Requests /\ cookie[r] \in Requests /\ endpoint[r] # "login"
      /\ pc[r] \in {"list", "next"} => stage[r] = "revoke" /\ endpoint[r] \in Walks
      /\ pc[r] \in {"members", "look"} => endpoint[r] = "list"
  <2>1. pc[r] \in {"list", "next", "members", "look"}
    BY DEF ListSessions, NextSession, Members, Look, LookFails, Sweep
  <2> QED BY <2>1 DEF Now, Routes, Route, Revocation, Walks
<1>2. CASE ListSessions(r)
  <2>1. Moved(r, "next", stage[r], at[r]) /\ Held(r, held[r])
    BY <1>2, Staying, Keeping DEF ListSessions, Now
  <2>2. SessionsTypeOK'
    BY <1>1, <1>2, <2>1 DEF ListSessions, Spared, Now, Request, redis, walk, history, Moved, Held, SessionsTypeOK
  <2>3. Elsewhere(r) /\ Route(r)'
    BY <1>1, <1>2, <2>1 DEF ListSessions, Spared, Now, Request, redis, walk, history, Moved, Held, SessionsTypeOK,
       Elsewhere, Route, Reading, Creating, Revocation, Holding, Walks, Subject
  <2> QED BY <2>2, <2>3 DEF OneMoves
<1>3. CASE NextSession(r) /\ todo[r] = {} /\ endpoint[r] = "revokeAll"
  <2>1. Moved(r, "done", stage[r], at[r]) /\ Held(r, Absent) /\ UNCHANGED todo
    BY <1>3, Ending DEF NextSession, Now
  <2>2. SessionsTypeOK'
    BY <1>1, <1>3, <2>1 DEF NextSession, Now, Request, redis, walk, history, Moved, Held, SessionsTypeOK
  <2>3. Elsewhere(r) /\ Route(r)'
    BY <1>1, <1>3, <2>1 DEF NextSession, Now, Request, redis, walk, history, Moved, Held, SessionsTypeOK,
       Elsewhere, Route, Reading, Creating, Revocation, Holding, Walks, Subject
  <2> QED BY <2>2, <2>3 DEF OneMoves
<1>4. CASE NextSession(r) /\ todo[r] = {} /\ endpoint[r] # "revokeAll"
  <2>1. Moved(r, "get", "relax", cookie[r]) /\ Held(r, held[r]) /\ UNCHANGED todo
    BY <1>1, <1>4, Entering, Keeping DEF NextSession, Now
  <2>2. endpoint[r] = "disable"
    BY <1>1, <1>4 DEF NextSession, Walks
  <2>3. SessionsTypeOK'
    BY <1>1, <1>4, <2>1, <2>2 DEF NextSession, Now, Request, redis, walk, history, Moved, Held, SessionsTypeOK
  <2>4. Elsewhere(r) /\ Route(r)'
    BY <1>1, <1>4, <2>1, <2>2 DEF NextSession, Now, Request, redis, walk, history, Moved, Held, SessionsTypeOK,
       Elsewhere, Route, Reading, Creating, Revocation, Holding, Walks, Subject, Validating
  <2> QED BY <2>3, <2>4 DEF OneMoves
<1>5. CASE NextSession(r) /\ todo[r] # {}
  <2>1. PICK s \in todo[r] :
           /\ todo' = [todo EXCEPT ![r] = @ \ {s}] /\ s \in Requests
           /\ Enter(r, "revoke", "find", s) /\ UNCHANGED held
    BY <1>5 DEF NextSession, Now, SessionsTypeOK
  <2>2. Moved(r, "find", "revoke", s) /\ Held(r, held[r])
    BY <2>1, Entering, Keeping DEF Now
  <2>3. SessionsTypeOK'
    BY <1>1, <1>5, <2>1, <2>2 DEF NextSession, Now, Request, redis, walk, history, Moved, Held, SessionsTypeOK
  <2>4. Elsewhere(r) /\ Route(r)'
    BY <1>1, <1>5, <2>1, <2>2 DEF NextSession, Now, Request, redis, walk, history, Moved, Held, SessionsTypeOK,
       Elsewhere, Route, Reading, Creating, Revocation, Holding, Walks, Subject
  <2> QED BY <2>3, <2>4 DEF OneMoves
<1>6. CASE Members(r)
  <2>1. Moved(r, "look", stage[r], at[r]) /\ Held(r, held[r])
    BY <1>6, Staying, Keeping DEF Members, Now
  <2>2. SessionsTypeOK'
    BY <1>1, <1>6, <2>1 DEF Members, Now, Request, redis, walk, history, Moved, Held, SessionsTypeOK
  <2>3. Elsewhere(r) /\ Route(r)'
    BY <1>1, <1>6, <2>1 DEF Members, Now, Request, redis, walk, history, Moved, Held, SessionsTypeOK,
       Elsewhere, Route, Reading, Creating, Revocation, Holding, Walks, Subject
  <2> QED BY <2>2, <2>3 DEF OneMoves
<1>7. CASE Look(r) \/ LookFails(r)
  <2>1. PICK s \in todo[r] :
           /\ todo' = [todo EXCEPT ![r] = @ \ {s}] /\ s \in Requests
           /\ stale' = stale \/ stale' = [stale EXCEPT ![r] = @ \cup {s}]
           /\ lapsed' \subseteq lapsed \cup {s}
    BY <1>7 DEF Look, LookFails, Now, SessionsTypeOK, history
  <2>2. /\ UNCHANGED <<redis, trail, pc, stage, endpoint, cookie, at, held, due,
                       known, asked, proven, origin>>
        /\ pc[r] = "look"
    BY <1>7 DEF Look, LookFails, history
  <2>3. SessionsTypeOK'
    BY <2>1, <2>2 DEF redis, Now, SessionsTypeOK
  <2>4. Elsewhere(r)
    BY <2>1, <2>2 DEF Now, SessionsTypeOK, Elsewhere
  <2>5. Route(r)'
    BY <1>1, <2>1, <2>2 DEF Now, Routes, Route, Reading, Creating, Revocation, Holding,
       Walks, Subject
  <2> QED BY <2>3, <2>4, <2>5 DEF OneMoves
<1>8. CASE Sweep(r)
  <2>1. Moved(r, "done", stage[r], at[r]) /\ Held(r, Absent)
    BY <1>8, Ending DEF Sweep, Now
  <2>2. SessionsTypeOK'
    BY <1>1, <1>8, <2>1 DEF Sweep, Now, Request, redis, walk, history, Moved, Held, SessionsTypeOK
  <2>3. Elsewhere(r) /\ Route(r)'
    BY <1>1, <1>8, <2>1 DEF Sweep, Now, Request, redis, walk, history, Moved, Held, SessionsTypeOK,
       Elsewhere, Route, Reading, Creating, Revocation, Holding, Walks, Subject
  <2> QED BY <2>2, <2>3 DEF OneMoves
<1> QED BY <1>2, <1>3, <1>4, <1>5, <1>6, <1>7, <1>8

LEMMA FailureMoves ==
    ASSUME Now, NEW r \in Requests, Crash(r) \/ RotationFails(r)
    PROVE  OneMoves(r)
<1> USE Names
<1>1. at[r] \in Requests /\ (endpoint[r] # "login" => cookie[r] \in Requests)
  BY DEF Crash, RotationFails, Now, Routes, Route
<1>2. CASE Crash(r)
  <2>1. Stay(r, "failed") /\ UNCHANGED held
    BY <1>2 DEF Crash, Stay
  <2>2. Moved(r, "failed", stage[r], at[r]) /\ Held(r, held[r])
    BY <2>1, Staying, Keeping DEF Now
  <2>3. SessionsTypeOK'
    BY <1>1, <1>2, <2>2 DEF Crash, Now, Request, redis, walk, history, Moved, Held, SessionsTypeOK
  <2>4. Elsewhere(r) /\ Route(r)'
    BY <1>1, <1>2, <2>2 DEF Crash, Now, Request, redis, walk, history, Moved, Held, SessionsTypeOK,
       Elsewhere, Route, Reading, Creating, Revocation, Holding, Walks, Subject
  <2> QED BY <2>3, <2>4 DEF OneMoves
<1>3. CASE RotationFails(r)
  <2>1. Moved(r, "unmake", stage[r], at[r]) /\ Held(r, held[r])
    BY <1>3, Staying, Keeping DEF RotationFails, Now
  <2>2. SessionsTypeOK'
    BY <1>1, <1>3, <2>1 DEF RotationFails, Now, Request, redis, walk, history, Moved, Held, SessionsTypeOK
  <2>3. Elsewhere(r) /\ Route(r)'
    BY <1>1, <1>3, <2>1 DEF RotationFails, Now, Request, redis, walk, history, Moved, Held, SessionsTypeOK,
       Elsewhere, Route, Reading, Creating, Revocation, Holding, Walks, Subject
  <2> QED BY <2>2, <2>3 DEF OneMoves
<1> QED BY <1>2, <1>3

(* Every step of a request.                                                 *)
LEMMA HandlerMoves ==
    ASSUME Now, NEW r \in Requests, Handle(r) \/ Crash(r)
    PROVE  OneMoves(r)
BY LoginMoves, ArriveMoves, GetMoves, TouchDropMoves, WriteMoves, CreationMoves,
   RevocationMoves, WalkMoves, FailureMoves DEF Handle

LEMMA NowHolds ==
    ASSUME Now, [Next]_vars
    PROVE  Now'
<1>1. ASSUME NEW r \in Requests, OneMoves(r) PROVE Now'
  <2>1. \A q \in Requests \ {r} : Route(q)'
    BY <1>1 DEF OneMoves, Elsewhere, Now, Routes, Route, Subject
  <2> QED BY <1>1, <2>1 DEF OneMoves, Now, Routes
<1>2. ASSUME NEW s \in Requests, Lapse(s) PROVE Now'
  <2>1. SessionsTypeOK'
    BY <1>2 DEF Lapse, control, walk, Now, SessionsTypeOK
  <2>2. Routes'
    BY <1>2 DEF Lapse, control, walk, Now, Routes, Route, Subject
  <2> QED BY <2>1, <2>2 DEF Now
<1>3. CASE UNCHANGED vars
  BY <1>3 DEF vars, redis, control, walk, history, Now, SessionsTypeOK, Routes, Route, Subject
<1> QED BY <1>1, <1>2, <1>3, HandlerMoves DEF Next, Idle

LEMMA NowInit ==
    ASSUME Init
    PROVE  Now
<1> USE Names DEF Init
<1>1. SessionsTypeOK
  BY DEF SessionsTypeOK, Endpoints
<1>2. Routes
  BY DEF Routes, Route, Reading, Creating, Revocation, Holding, Walks
<1> QED BY <1>1, <1>2 DEF Now

(* Every variable of Sessions keeps its type: values, ids, control points   *)
(* and what the handlers hold, under every fault.                           *)
THEOREM SessionsTypeCorrect == Spec => []SessionsTypeOK
<1>1. Now => SessionsTypeOK
  BY DEF Now
<1> QED BY <1>1, NowInit, NowHolds, PTL DEF Spec

-----------------------------------------------------------------------------
(* What a step adds.                                                        *)

(* A step of r adds at most its own session.                                *)
Grows(r) ==
    /\ pc[r] \notin Ended
    /\ \A s \in Requests : Born(s) \/ s # r => origin'[s] = origin[s]
    /\ Born(r)' => origin'[r] \in Requests /\ Born(origin[r])'
    /\ known \subseteq known' /\ known' \subseteq known \cup {r}
    /\ r \in known' => Born(r)' /\ pc'[r] = "done"
    /\ \A s \in Requests : store'[s] # Absent => store[s] # Absent \/ Born(s)'
    /\ proven \subseteq proven' /\ proven' \subseteq known'
    /\ asked \subseteq asked' /\ asked' \subseteq asked \cup {r}
    /\ pc[r] # "start" => UNCHANGED asked
    /\ Lineage(r)'

LEMMA LoginArriveGrows ==
    ASSUME Now, Descent, NEW r \in Requests,
           Login(r) \/ Arrive(r)
    PROVE  Grows(r)
<1> USE Names
<1>1. CASE Login(r)
  BY <1>1 DEF Login,
     Now, SessionsTypeOK, Routes, Route, Descent, Lineage, Unborn, Born, Grows, Goto, Stay, Enter, Hold, End, EndWith,
     Ended, Reading, Creating, Revocation, Holding, Walks, redis, walk, history, Request, Subject
<1>2. CASE Arrive(r)
  BY <1>2 DEF Arrive,
     Now, SessionsTypeOK, Routes, Route, Descent, Lineage, Unborn, Born, Grows, Goto, Stay, Enter, Hold, End, EndWith,
     Ended, Reading, Creating, Revocation, Holding, Walks, redis, walk, history, Request, Subject
<1> QED BY <1>1, <1>2

LEMMA CreationGrows ==
    ASSUME Now, Descent, NEW r \in Requests,
           Persist(r) \/ AddToIndex(r) \/ RecordCreated(r) \/ RecordCreatedFails(r) \/ CopyReauth(r) \/ Unmake(r)
    PROVE  Grows(r)
<1> USE Names
<1>1. CASE Persist(r)
  <2>1. /\ pc[r] = "persist" /\ ~Born(r) /\ pc'[r] = "index"
        /\ UNCHANGED <<endpoint, known, asked, proven, at>>
        /\ endpoint[r] # "login" => cookie[r] \in known
    BY <1>1 DEF Persist, Stay, Goto, Request, Now, SessionsTypeOK, Descent, Lineage, Unborn
  <2>2. /\ origin' = [origin EXCEPT ![r] = IF endpoint[r] = "login" THEN r ELSE origin[cookie[r]]]
        /\ store' = [store EXCEPT ![r] = Created(r)]
    BY <1>1 DEF Persist
  <2>3. PICK login \in Requests :
           /\ origin' = [origin EXCEPT ![r] = login]
           /\ login = r \/ Born(login)
    <3>1. CASE endpoint[r] = "login"
      BY <2>2, <3>1
    <3>2. CASE endpoint[r] # "login"
      BY <2>1, <2>2, <3>2 DEF Descent, Now, SessionsTypeOK
    <3> QED BY <3>1, <3>2
  <2>4. /\ Born(r)' /\ origin'[r] = login /\ Born(login)'
        /\ \A s \in Requests \ {r} : origin'[s] = origin[s] /\ store'[s] = store[s]
    BY <2>2, <2>3, SessionsAssumption DEF Born, Now, SessionsTypeOK
  <2>5. Lineage(r)'
    BY <1>1, <2>1, <2>4 DEF Persist, Lineage, Unborn, Reading, Creating, Revocation, Holding,
       Request, Born, Descent
  <2> QED BY <2>1, <2>4, <2>5 DEF Grows, Ended, Descent, Born
<1>2. CASE AddToIndex(r)
  BY <1>2 DEF AddToIndex,
     Now, SessionsTypeOK, Routes, Route, Descent, Lineage, Unborn, Born, Grows, Goto, Stay, Enter, Hold, End, EndWith,
     Ended, Reading, Creating, Revocation, Holding, Walks, redis, walk, history, Request, Subject
<1>3. CASE RecordCreated(r)
  BY <1>3 DEF RecordCreated,
     Now, SessionsTypeOK, Routes, Route, Descent, Lineage, Unborn, Born, Grows, Goto, Stay, Enter, Hold, End, EndWith,
     Ended, Reading, Creating, Revocation, Holding, Walks, redis, walk, history, Request, Subject
<1>4. CASE RecordCreatedFails(r)
  BY <1>4 DEF RecordCreatedFails,
     Now, SessionsTypeOK, Routes, Route, Descent, Lineage, Unborn, Born, Grows, Goto, Stay, Enter, Hold, End, EndWith,
     Ended, Reading, Creating, Revocation, Holding, Walks, redis, walk, history, Request, Subject
<1>5. CASE CopyReauth(r)
  BY <1>5 DEF CopyReauth,
     Now, SessionsTypeOK, Routes, Route, Descent, Lineage, Unborn, Born, Grows, Goto, Stay, Enter, Hold, End, EndWith,
     Ended, Reading, Creating, Revocation, Holding, Walks, redis, walk, history, Request, Subject
<1>6. CASE Unmake(r)
  BY <1>6 DEF Unmake, Remove,
     Now, SessionsTypeOK, Routes, Route, Descent, Lineage, Unborn, Born, Grows, Goto, Stay, Enter, Hold, End, EndWith,
     Ended, Reading, Creating, Revocation, Holding, Walks, redis, walk, history, Request, Subject
<1> QED BY <1>1, <1>2, <1>3, <1>4, <1>5, <1>6

LEMMA RevocationGrows ==
    ASSUME Now, Descent, NEW r \in Requests,
           FindVictim(r) \/ DeleteVictim(r) \/ RecordRevoked(r) \/ RecordRevokedFails(r) \/ Restore(r) \/ Reindex(r)
    PROVE  Grows(r)
<1> USE Names
<1>1. CASE FindVictim(r)
  BY <1>1 DEF FindVictim, Revoked,
     Now, SessionsTypeOK, Routes, Route, Descent, Lineage, Unborn, Born, Grows, Goto, Stay, Enter, Hold, End, EndWith,
     Ended, Reading, Creating, Revocation, Holding, Walks, redis, walk, history, Request, Subject
<1>2. CASE DeleteVictim(r)
  BY <1>2 DEF DeleteVictim, Remove,
     Now, SessionsTypeOK, Routes, Route, Descent, Lineage, Unborn, Born, Grows, Goto, Stay, Enter, Hold, End, EndWith,
     Ended, Reading, Creating, Revocation, Holding, Walks, redis, walk, history, Request, Subject
<1>3. CASE RecordRevoked(r)
  BY <1>3 DEF RecordRevoked, Revoked,
     Now, SessionsTypeOK, Routes, Route, Descent, Lineage, Unborn, Born, Grows, Goto, Stay, Enter, Hold, End, EndWith,
     Ended, Reading, Creating, Revocation, Holding, Walks, redis, walk, history, Request, Subject
<1>4. CASE RecordRevokedFails(r)
  BY <1>4 DEF RecordRevokedFails,
     Now, SessionsTypeOK, Routes, Route, Descent, Lineage, Unborn, Born, Grows, Goto, Stay, Enter, Hold, End, EndWith,
     Ended, Reading, Creating, Revocation, Holding, Walks, redis, walk, history, Request, Subject
<1>5. CASE Restore(r)
  BY <1>5 DEF Restore, PutBack,
     Now, SessionsTypeOK, Routes, Route, Descent, Lineage, Unborn, Born, Grows, Goto, Stay, Enter, Hold, End, EndWith,
     Ended, Reading, Creating, Revocation, Holding, Walks, redis, walk, history, Request, Subject
<1>6. CASE Reindex(r)
  BY <1>6 DEF Reindex, Reindexed, PutBack,
     Now, SessionsTypeOK, Routes, Route, Descent, Lineage, Unborn, Born, Grows, Goto, Stay, Enter, Hold, End, EndWith,
     Ended, Reading, Creating, Revocation, Holding, Walks, redis, walk, history, Request, Subject
<1> QED BY <1>1, <1>2, <1>3, <1>4, <1>5, <1>6

LEMMA WalkGrows ==
    ASSUME Now, Descent, NEW r \in Requests,
           ListSessions(r) \/ NextSession(r) \/ Members(r) \/ Look(r) \/ LookFails(r) \/ Sweep(r)
    PROVE  Grows(r)
<1> USE Names
<1>1. CASE ListSessions(r)
  BY <1>1 DEF ListSessions, Spared,
     Now, SessionsTypeOK, Routes, Route, Descent, Lineage, Unborn, Born, Grows, Goto, Stay, Enter, Hold, End, EndWith,
     Ended, Reading, Creating, Revocation, Holding, Walks, redis, walk, history, Request, Subject
<1>2. CASE NextSession(r)
  BY <1>2 DEF NextSession,
     Now, SessionsTypeOK, Routes, Route, Descent, Lineage, Unborn, Born, Grows, Goto, Stay, Enter, Hold, End, EndWith,
     Ended, Reading, Creating, Revocation, Holding, Walks, redis, walk, history, Request, Subject
<1>3. CASE Members(r)
  BY <1>3 DEF Members,
     Now, SessionsTypeOK, Routes, Route, Descent, Lineage, Unborn, Born, Grows, Goto, Stay, Enter, Hold, End, EndWith,
     Ended, Reading, Creating, Revocation, Holding, Walks, redis, walk, history, Request, Subject
<1>4. CASE Look(r)
  BY <1>4 DEF Look,
     Now, SessionsTypeOK, Routes, Route, Descent, Lineage, Unborn, Born, Grows, Goto, Stay, Enter, Hold, End, EndWith,
     Ended, Reading, Creating, Revocation, Holding, Walks, redis, walk, history, Request, Subject
<1>5. CASE LookFails(r)
  BY <1>5 DEF LookFails,
     Now, SessionsTypeOK, Routes, Route, Descent, Lineage, Unborn, Born, Grows, Goto, Stay, Enter, Hold, End, EndWith,
     Ended, Reading, Creating, Revocation, Holding, Walks, redis, walk, history, Request, Subject
<1>6. CASE Sweep(r)
  BY <1>6 DEF Sweep,
     Now, SessionsTypeOK, Routes, Route, Descent, Lineage, Unborn, Born, Grows, Goto, Stay, Enter, Hold, End, EndWith,
     Ended, Reading, Creating, Revocation, Holding, Walks, redis, walk, history, Request, Subject
<1> QED BY <1>1, <1>2, <1>3, <1>4, <1>5, <1>6

LEMMA FailureGrows ==
    ASSUME Now, Descent, NEW r \in Requests,
           Crash(r) \/ RotationFails(r)
    PROVE  Grows(r)
<1> USE Names
<1>1. CASE Crash(r)
  BY <1>1 DEF Crash, control,
     Now, SessionsTypeOK, Routes, Route, Descent, Lineage, Unborn, Born, Grows, Goto, Stay, Enter, Hold, End, EndWith,
     Ended, Reading, Creating, Revocation, Holding, Walks, redis, walk, history, Request, Subject
<1>2. CASE RotationFails(r)
  BY <1>2 DEF RotationFails,
     Now, SessionsTypeOK, Routes, Route, Descent, Lineage, Unborn, Born, Grows, Goto, Stay, Enter, Hold, End, EndWith,
     Ended, Reading, Creating, Revocation, Holding, Walks, redis, walk, history, Request, Subject
<1> QED BY <1>1, <1>2

LEMMA InvalidGrows ==
    ASSUME Now, Descent, NEW r \in Requests, pc[r] \in {"get", "drop"}, Invalid(r), Request
    PROVE  /\ known \subseteq known' /\ known' \subseteq known \cup {r}
           /\ r \in known' => Born(r) /\ pc'[r] = "done"
           /\ UNCHANGED origin /\ asked' = asked /\ known \subseteq known' => Lineage(r)'
<1>1. /\ pc[r] \in Reading /\ at[r] = Subject(r)
      /\ r \notin known
  BY DEF Now, Routes, Route, Reading, Descent
<1>2. PICK label \in {"done", "refused"} :
         /\ pc' = [pc EXCEPT ![r] = label] /\ UNCHANGED <<at, endpoint, cookie>>
         /\ \/ label = "done" /\ endpoint[r] = "login" /\ known' = known \cup {at[r]}
            \/ UNCHANGED known
  BY DEF Invalid, EndWith, End, Stay, Goto, Request
<1> QED BY <1>1, <1>2 DEF Now, SessionsTypeOK, Descent, Lineage, Unborn, Born, Subject,
        Reading, Creating, Revocation, Holding

LEMMA ValidatedGrows ==
    ASSUME Now, Descent, NEW r \in Requests, pc[r] \in {"get", "touch"}, Born(at[r]),
           NEW value, Validated(r, value), Request, UNCHANGED <<known, asked, origin>>
    PROVE  Lineage(r)' /\ proven \subseteq proven' /\ proven' \subseteq known
<1>1. /\ pc[r] \in Reading /\ at[r] = Subject(r) /\ stage[r] \in Validating
      /\ stage[r] # "reauth" => endpoint[r] # "login"
      /\ endpoint[r] # "login" => cookie[r] \in known
      /\ proven \subseteq known /\ Lineage(r)
  BY DEF Now, Routes, Route, Reading, Descent, Lineage
<1>2. CASE stage[r] = "guard"
  <2>1. /\ GuardPassed(r, value) /\ ~Born(r)
    BY <1>1, <1>2 DEF Validated, Lineage, Unborn
  <2>2. /\ proven' = proven \/ proven' = proven \cup {cookie[r]}
        /\ \/ \E label \in {"refused", "done"} : pc' = [pc EXCEPT ![r] = label] /\ UNCHANGED <<stage, at>>
           \/ \E label \in {"find", "list", "members", "get"}, method \in Stages :
                 /\ pc' = [pc EXCEPT ![r] = label]
                 /\ stage' = [stage EXCEPT ![r] = method]
                 /\ label \in {"find", "list"} => endpoint[r] # "refresh"
    BY <1>1, <2>1 DEF GuardPassed, End, Enter, Stay, Goto, Stages, Validating
  <2> QED BY <1>1, <1>2, <2>1, <2>2 DEF Now, SessionsTypeOK, Request, Lineage, Unborn, Born, Reading,
          Creating, Revocation, Holding
<1>3. CASE stage[r] = "rotate"
  BY <1>1, <1>3 DEF Validated, Enter, Goto, Now, SessionsTypeOK, Request, Lineage, Unborn, Born,
     Reading, Creating, Revocation, Holding
<1>4. CASE stage[r] \notin {"guard", "rotate"}
  BY <1>1, <1>4 DEF Validated, Stay, Goto, Now, SessionsTypeOK, Request, Lineage, Unborn, Born,
     Reading, Creating, Revocation, Holding
<1> QED BY <1>2, <1>3, <1>4

LEMMA ReadingGrows ==
    ASSUME Now, Descent, NEW r \in Requests, Get(r) \/ Touch(r) \/ Drop(r) \/ Write(r)
    PROVE  Grows(r)
<1>1. /\ pc[r] \in Reading /\ at[r] = Subject(r) /\ r \notin known /\ pc[r] \notin Ended
      /\ stage[r] \in Validating /\ at[r] \in Requests
      /\ endpoint[r] # "login" => cookie[r] \in known
      /\ proven \subseteq known /\ Lineage(r) /\ Request
      /\ pc[r] # "get" => Born(at[r])
      /\ UNCHANGED <<origin, asked>>
      /\ stage[r] # "reauth" => endpoint[r] # "login"
  <2>1. pc[r] \in Reading /\ Request /\ UNCHANGED <<origin, asked>>
    BY DEF Get, Touch, Drop, Write, Reading
  <2> QED BY <2>1 DEF Now, Routes, Route, Reading, Descent, Lineage, Ended, Holding, Creating
<1>2. CASE Get(r) /\ Invalid(r) /\ UNCHANGED proven
  BY <1>1, <1>2, InvalidGrows DEF Get, redis, Grows, Descent, Born
<1>3. CASE Get(r) /\ store[at[r]] # Absent /\ Validated(r, store[at[r]])
  <2>1. Born(at[r]) /\ UNCHANGED <<known, store>> /\ pc[r] = "get"
    BY <1>1, <1>3 DEF Get, redis, Descent
  <2> QED BY <1>1, <1>3, <2>1, ValidatedGrows DEF Grows, Descent, Born
<1>4. CASE Get(r) /\ store[at[r]] # Absent /\ ~Validated(r, store[at[r]])
  <2>1. PICK label \in {"touch", "drop"} :
           /\ pc' = [pc EXCEPT ![r] = label] /\ UNCHANGED <<stage, at, known, store, proven>>
           /\ Born(at[r])
    BY <1>1, <1>4 DEF Get, Stay, Goto, redis, Descent
  <2> QED BY <1>1, <2>1 DEF Now, SessionsTypeOK, Request, Lineage, Unborn, Born, Reading,
          Creating, Revocation, Holding, Grows, Descent
<1>5. CASE Touch(r)
  <2>1. /\ UNCHANGED known /\ pc[r] = "touch" /\ Validated(r, held[r])
        /\ \A s \in Requests \ {at[r]} : store'[s] = store[s]
    BY <1>1, <1>5 DEF Touch, Now, SessionsTypeOK
  <2> QED BY <1>1, <2>1, ValidatedGrows DEF Grows, Descent, Born, Reading
<1>6. CASE Drop(r)
  <2>1. /\ pc[r] = "drop" /\ Invalid(r) /\ UNCHANGED proven
        /\ \A s \in Requests : store'[s] # Absent => store[s] # Absent
    BY <1>1, <1>6 DEF Drop, Remove, Now, SessionsTypeOK
  <2> QED BY <1>1, <2>1, InvalidGrows DEF Grows, Descent, Born
<1>7. CASE Write(r)
  <2>1. /\ UNCHANGED proven /\ pc[r] = "write" /\ stage[r] \notin {"guard", "rotate"}
        /\ \A s \in Requests \ {at[r]} : store'[s] = store[s]
    BY <1>1, <1>7 DEF Write, Now, SessionsTypeOK, Routes, Route, Reading
  <2>2. \/ \E label \in {"done", "refused"} :
              /\ pc' = [pc EXCEPT ![r] = label] /\ UNCHANGED <<stage, at>>
              /\ UNCHANGED known \/ (label = "done" /\ known' = known \cup {at[r]})
        \/ /\ pc' = [pc EXCEPT ![r] = "get"] /\ stage' = [stage EXCEPT ![r] = "reauth"]
           /\ endpoint[r] # "login" /\ UNCHANGED known
    BY <1>1, <1>7 DEF Write, Enter, End, EndWith, Stay, Goto
  <2> QED BY <1>1, <2>1, <2>2 DEF Now, SessionsTypeOK, Request, Lineage, Unborn, Born, Reading,
          Creating, Revocation, Holding, Grows, Descent, Subject
<1> QED BY <1>2, <1>3, <1>4, <1>5, <1>6, <1>7 DEF Get

LEMMA HandlerGrows ==
    ASSUME Now, Descent, NEW r \in Requests, Handle(r) \/ Crash(r)
    PROVE  Grows(r)
BY LoginArriveGrows, ReadingGrows, CreationGrows, RevocationGrows, WalkGrows,
   FailureGrows DEF Handle

LEMMA DescentHolds ==
    ASSUME Now, Descent, [Next]_vars
    PROVE  Descent'
<1>1. ASSUME NEW r \in Requests, OneMoves(r), Grows(r) PROVE Descent'
  <2>1. \A s \in Requests : Born(s) => Born(s)'
    BY <1>1 DEF Grows, Born
  <2>2. \A s \in known' : Born(s)' /\ pc'[s] = "done"
    BY <1>1, <2>1 DEF Grows, OneMoves, Elsewhere, Descent, Now, SessionsTypeOK, Ended
  <2>3. \A s \in Requests : Born(s)' => origin'[s] \in Requests /\ Born(origin[s])'
    BY <1>1, <2>1 DEF Grows, Descent, Born
  <2>4. ASSUME NEW q \in Requests \ {r} PROVE Lineage(q)'
    <3>1. Lineage(q) /\ (pc[q] \in Holding => at[q] \in Requests)
      BY DEF Descent, Now, Routes, Route, Holding, Creating
    <3> QED BY <1>1, <2>1, <3>1 DEF Grows, OneMoves, Elsewhere, Lineage, Unborn, Born
  <2> QED BY <1>1, <2>1, <2>2, <2>3, <2>4 DEF Grows, Descent
<1>2. ASSUME NEW s \in Requests, Lapse(s) PROVE Descent'
  BY <1>2 DEF Lapse, control, walk, Now, SessionsTypeOK, Descent, Lineage, Unborn, Born
<1>3. CASE UNCHANGED vars
  BY <1>3 DEF vars, redis, control, walk, history, Descent, Lineage, Unborn, Born
<1> QED BY <1>1, <1>2, <1>3, HandlerMoves, HandlerGrows DEF Next, Idle

-----------------------------------------------------------------------------
(* A session that is gone.                                                  *)

Gone(s) == Born(s) /\ store[s] = Absent /\ \A r \in Requests : ~Holder(r, s)

(* What validateSession returned is held only to be written back.           *)
LEMMA ValidatedLabels ==
    ASSUME Now, NEW r \in Requests, pc[r] \in {"get", "touch"}, NEW value,
           Validated(r, value)
    PROVE  \/ pc'[r] = "write" /\ at'[r] = at[r]
           \/ pc'[r] \in {"done", "refused", "find", "list", "members", "get", "persist"}
<1>1. stage[r] \in Validating
  BY DEF Now, Routes, Route, Reading
<1>2. CASE stage[r] = "guard"
  BY <1>2 DEF Validated, GuardPassed, End, Enter, Stay, Goto, Now, SessionsTypeOK
<1>3. CASE stage[r] # "guard"
  BY <1>1, <1>3 DEF Validated, Enter, Stay, Goto, Now, SessionsTypeOK
<1> QED BY <1>2, <1>3

LEMMA ReadingLeavesGone ==
    ASSUME Now, Descent, NEW r \in Requests, NEW s \in Requests, Gone(s),
           Get(r) \/ Touch(r) \/ Drop(r) \/ Write(r)
    PROVE  store'[s] = Absent /\ ~Holder(r, s)'
<1>1. /\ pc[r] \in Reading /\ at[r] \in Requests
      /\ ~Holder(r, s) /\ store[s] = Absent
  <2>1. pc[r] \in Reading
    BY DEF Get, Touch, Drop, Write, Reading
  <2> QED BY <2>1 DEF Gone, Now, Routes, Route, Reading
<1>2. CASE Get(r)
  <2>1. UNCHANGED store /\ pc[r] = "get"
    BY <1>2 DEF Get, redis
  <2>2. CASE Invalid(r)
    BY <1>1, <2>1, <2>2 DEF Invalid, End, EndWith, Stay, Goto, Holder, Now, SessionsTypeOK
  <2>3. CASE store[at[r]] # Absent /\ Validated(r, store[at[r]])
    BY <1>1, <2>1, <2>3, ValidatedLabels DEF Holder
  <2>4. CASE store[at[r]] # Absent /\ \E label \in {"touch", "drop"} : Stay(r, label)
    BY <1>1, <2>1, <2>4 DEF Stay, Goto, Holder, Now, SessionsTypeOK
  <2> QED BY <1>2, <2>2, <2>3, <2>4 DEF Get
<1>3. CASE Touch(r)
  BY <1>1, <1>3, ValidatedLabels DEF Touch, Holder, Now, SessionsTypeOK
<1>4. CASE Drop(r)
  BY <1>1, <1>4 DEF Drop, Remove, Invalid, End, EndWith, Stay, Goto, Holder, Now, SessionsTypeOK
<1>5. CASE Write(r)
  BY <1>1, <1>5 DEF Write, Enter, End, EndWith, Stay, Goto, Holder, Now, SessionsTypeOK
<1> QED BY <1>2, <1>3, <1>4, <1>5

LEMMA CreationLeavesGone ==
    ASSUME Now, Descent, NEW r \in Requests, NEW s \in Requests, Gone(s),
           Login(r) \/ Arrive(r) \/ Persist(r) \/ AddToIndex(r) \/ RecordCreated(r) \/ RecordCreatedFails(r) \/ CopyReauth(r) \/ Unmake(r)
    PROVE  store'[s] = Absent /\ ~Holder(r, s)'
<1>1. CASE Login(r)
  BY <1>1 DEF Login,
     Gone, Holder, Now, SessionsTypeOK, Routes, Route, Descent, Lineage, Unborn, Born, Goto, Stay, Enter, Hold, End,
     EndWith, Reading, Creating, Revocation, Holding, redis
<1>2. CASE Arrive(r)
  BY <1>2 DEF Arrive,
     Gone, Holder, Now, SessionsTypeOK, Routes, Route, Descent, Lineage, Unborn, Born, Goto, Stay, Enter, Hold, End,
     EndWith, Reading, Creating, Revocation, Holding, redis
<1>3. CASE Persist(r)
  BY <1>3 DEF Persist, Created,
     Gone, Holder, Now, SessionsTypeOK, Routes, Route, Descent, Lineage, Unborn, Born, Goto, Stay, Enter, Hold, End,
     EndWith, Reading, Creating, Revocation, Holding, redis
<1>4. CASE AddToIndex(r)
  BY <1>4 DEF AddToIndex,
     Gone, Holder, Now, SessionsTypeOK, Routes, Route, Descent, Lineage, Unborn, Born, Goto, Stay, Enter, Hold, End,
     EndWith, Reading, Creating, Revocation, Holding, redis
<1>5. CASE RecordCreated(r)
  BY <1>5 DEF RecordCreated,
     Gone, Holder, Now, SessionsTypeOK, Routes, Route, Descent, Lineage, Unborn, Born, Goto, Stay, Enter, Hold, End,
     EndWith, Reading, Creating, Revocation, Holding, redis
<1>6. CASE RecordCreatedFails(r)
  BY <1>6 DEF RecordCreatedFails,
     Gone, Holder, Now, SessionsTypeOK, Routes, Route, Descent, Lineage, Unborn, Born, Goto, Stay, Enter, Hold, End,
     EndWith, Reading, Creating, Revocation, Holding, redis
<1>7. CASE CopyReauth(r)
  BY <1>7 DEF CopyReauth,
     Gone, Holder, Now, SessionsTypeOK, Routes, Route, Descent, Lineage, Unborn, Born, Goto, Stay, Enter, Hold, End,
     EndWith, Reading, Creating, Revocation, Holding, redis
<1>8. CASE Unmake(r)
  BY <1>8 DEF Unmake, Remove,
     Gone, Holder, Now, SessionsTypeOK, Routes, Route, Descent, Lineage, Unborn, Born, Goto, Stay, Enter, Hold, End,
     EndWith, Reading, Creating, Revocation, Holding, redis
<1> QED BY <1>1, <1>2, <1>3, <1>4, <1>5, <1>6, <1>7, <1>8

LEMMA RevocationLeavesGone ==
    ASSUME Now, Descent, NEW r \in Requests, NEW s \in Requests, Gone(s),
           FindVictim(r) \/ DeleteVictim(r) \/ RecordRevoked(r) \/ RecordRevokedFails(r) \/ Restore(r) \/ Reindex(r)
    PROVE  store'[s] = Absent /\ ~Holder(r, s)'
<1>1. CASE FindVictim(r)
  BY <1>1 DEF FindVictim, Revoked,
     Gone, Holder, Now, SessionsTypeOK, Routes, Route, Descent, Lineage, Unborn, Born, Goto, Stay, Enter, Hold, End,
     EndWith, Reading, Creating, Revocation, Holding, redis
<1>2. CASE DeleteVictim(r)
  BY <1>2 DEF DeleteVictim, Remove,
     Gone, Holder, Now, SessionsTypeOK, Routes, Route, Descent, Lineage, Unborn, Born, Goto, Stay, Enter, Hold, End,
     EndWith, Reading, Creating, Revocation, Holding, redis
<1>3. CASE RecordRevoked(r)
  BY <1>3 DEF RecordRevoked, Revoked,
     Gone, Holder, Now, SessionsTypeOK, Routes, Route, Descent, Lineage, Unborn, Born, Goto, Stay, Enter, Hold, End,
     EndWith, Reading, Creating, Revocation, Holding, redis
<1>4. CASE RecordRevokedFails(r)
  BY <1>4 DEF RecordRevokedFails,
     Gone, Holder, Now, SessionsTypeOK, Routes, Route, Descent, Lineage, Unborn, Born, Goto, Stay, Enter, Hold, End,
     EndWith, Reading, Creating, Revocation, Holding, redis
<1>5. CASE Restore(r)
  BY <1>5 DEF Restore, PutBack,
     Gone, Holder, Now, SessionsTypeOK, Routes, Route, Descent, Lineage, Unborn, Born, Goto, Stay, Enter, Hold, End,
     EndWith, Reading, Creating, Revocation, Holding, redis
<1>6. CASE Reindex(r)
  BY <1>6 DEF Reindex, Reindexed, PutBack,
     Gone, Holder, Now, SessionsTypeOK, Routes, Route, Descent, Lineage, Unborn, Born, Goto, Stay, Enter, Hold, End,
     EndWith, Reading, Creating, Revocation, Holding, redis
<1> QED BY <1>1, <1>2, <1>3, <1>4, <1>5, <1>6

LEMMA WalkLeavesGone ==
    ASSUME Now, Descent, NEW r \in Requests, NEW s \in Requests, Gone(s),
           ListSessions(r) \/ NextSession(r) \/ Members(r) \/ Look(r) \/ LookFails(r) \/ Sweep(r) \/ Crash(r) \/ RotationFails(r)
    PROVE  store'[s] = Absent /\ ~Holder(r, s)'
<1>1. CASE ListSessions(r)
  BY <1>1 DEF ListSessions, Spared,
     Gone, Holder, Now, SessionsTypeOK, Routes, Route, Descent, Lineage, Unborn, Born, Goto, Stay, Enter, Hold, End,
     EndWith, Reading, Creating, Revocation, Holding, redis
<1>2. CASE NextSession(r)
  BY <1>2 DEF NextSession,
     Gone, Holder, Now, SessionsTypeOK, Routes, Route, Descent, Lineage, Unborn, Born, Goto, Stay, Enter, Hold, End,
     EndWith, Reading, Creating, Revocation, Holding, redis
<1>3. CASE Members(r)
  BY <1>3 DEF Members,
     Gone, Holder, Now, SessionsTypeOK, Routes, Route, Descent, Lineage, Unborn, Born, Goto, Stay, Enter, Hold, End,
     EndWith, Reading, Creating, Revocation, Holding, redis
<1>4. CASE Look(r)
  BY <1>4 DEF Look,
     Gone, Holder, Now, SessionsTypeOK, Routes, Route, Descent, Lineage, Unborn, Born, Goto, Stay, Enter, Hold, End,
     EndWith, Reading, Creating, Revocation, Holding, redis
<1>5. CASE LookFails(r)
  BY <1>5 DEF LookFails,
     Gone, Holder, Now, SessionsTypeOK, Routes, Route, Descent, Lineage, Unborn, Born, Goto, Stay, Enter, Hold, End,
     EndWith, Reading, Creating, Revocation, Holding, redis
<1>6. CASE Sweep(r)
  BY <1>6 DEF Sweep,
     Gone, Holder, Now, SessionsTypeOK, Routes, Route, Descent, Lineage, Unborn, Born, Goto, Stay, Enter, Hold, End,
     EndWith, Reading, Creating, Revocation, Holding, redis
<1>7. CASE Crash(r)
  BY <1>7 DEF Crash, control,
     Gone, Holder, Now, SessionsTypeOK, Routes, Route, Descent, Lineage, Unborn, Born, Goto, Stay, Enter, Hold, End,
     EndWith, Reading, Creating, Revocation, Holding, redis
<1>8. CASE RotationFails(r)
  BY <1>8 DEF RotationFails,
     Gone, Holder, Now, SessionsTypeOK, Routes, Route, Descent, Lineage, Unborn, Born, Goto, Stay, Enter, Hold, End,
     EndWith, Reading, Creating, Revocation, Holding, redis
<1> QED BY <1>1, <1>2, <1>3, <1>4, <1>5, <1>6, <1>7, <1>8

LEMMA GoneStays ==
    ASSUME Now, Descent, [Next]_vars, NEW s \in Requests, Gone(s)
    PROVE  store'[s] = Absent /\ \A r \in Requests : ~Holder(r, s)'
<1>1. ASSUME NEW r \in Requests, Handle(r) \/ Crash(r)
      PROVE  store'[s] = Absent /\ \A q \in Requests : ~Holder(q, s)'
  <2>1. store'[s] = Absent /\ ~Holder(r, s)'
    BY <1>1, ReadingLeavesGone, CreationLeavesGone, RevocationLeavesGone, WalkLeavesGone
       DEF Handle
  <2>2. Elsewhere(r)
    BY <1>1, HandlerMoves DEF OneMoves
  <2> QED BY <2>1, <2>2 DEF Elsewhere, Holder, Gone
<1>2. ASSUME NEW t \in Requests, Lapse(t)
      PROVE  store'[s] = Absent /\ \A q \in Requests : ~Holder(q, s)'
  BY <1>2 DEF Lapse, control, Holder, Gone, Now, SessionsTypeOK
<1>3. CASE UNCHANGED vars
  BY <1>3 DEF vars, redis, control, Holder, Gone
<1> QED BY <1>1, <1>2, <1>3 DEF Next, Idle

LEMMA InvHolds == Spec => [](Now /\ Descent)
<1>1. Init => Now /\ Descent
  <2>1. Init => Descent
    BY DEF Init, Descent, Lineage, Unborn, Born, Reading, Creating, Revocation, Holding
  <2> QED BY <2>1, NowInit
<1>2. Now /\ Descent /\ [Next]_vars => (Now /\ Descent)'
  BY NowHolds, DescentHolds
<1> QED BY <1>1, <1>2, PTL DEF Spec

(* A revocation is final once the requests it overlapped are over: no step  *)
(* brings back a session that is gone while no handler holds a value of it, *)
(* and none gets hold of one.                                               *)
THEOREM RevocationsAreFinal == Spec => GoneForGood
<1>1. Now /\ Descent /\ [Next]_vars =>
        [\A s \in Requests :
          /\ origin[s] # Nobody
          /\ store[s] = Absent
          /\ \A r \in Requests : ~Holder(r, s)
          => store'[s] = Absent /\ \A r \in Requests : ~Holder(r, s)']_vars
  BY GoneStays DEF Gone, Born
<1> QED BY <1>1, InvHolds, PTL DEF Spec, GoneForGood

(* The request of r came with s and has not got past the guard.             *)
Presents(r, s) == pc[r] = "get" /\ stage[r] = "guard" /\ cookie[r] = s

Rebuffed(r, s) ==
    /\ Gone(s)
    /\ Presents(r, s) \/ pc[r] \in {"refused", "failed"}

LEMMA RebuffedStays ==
    ASSUME Now, Descent, [Next]_vars, NEW r \in Requests, NEW s \in Requests, Rebuffed(r, s)
    PROVE  Rebuffed(r, s)'
<1>1. Gone(s)'
  <2>1. Born(s)'
    <3>1. ASSUME NEW q \in Requests, Handle(q) \/ Crash(q) PROVE Born(s)'
      BY <3>1, HandlerGrows DEF Grows, Rebuffed, Gone, Born
    <3>2. ASSUME NEW t \in Requests, Lapse(t) PROVE Born(s)'
      BY <3>2 DEF Lapse, Rebuffed, Gone, Born
    <3>3. CASE UNCHANGED vars
      BY <3>3 DEF vars, history, Rebuffed, Gone, Born
    <3> QED BY <3>1, <3>2, <3>3 DEF Next, Idle
  <2> QED BY <2>1, GoneStays DEF Rebuffed, Gone
<1>2. (Presents(r, s) \/ pc[r] \in {"refused", "failed"})'
  <2>1. ASSUME NEW q \in Requests \ {r}, Handle(q) \/ Crash(q)
        PROVE  UNCHANGED <<pc[r], stage[r], cookie[r]>>
    BY <2>1, HandlerMoves DEF OneMoves, Elsewhere
  <2>2. CASE Handle(r)
    <3>1. pc[r] = "get" /\ stage[r] = "guard" /\ cookie[r] = s
      BY <2>2, HandlerGrows DEF Rebuffed, Presents, Grows, Ended
    <3>2. endpoint[r] # "login" /\ store[at[r]] = Absent
      BY <3>1 DEF Now, Routes, Route, Reading, Subject, Rebuffed, Gone
    <3>3. Get(r)
      BY <2>2, <3>1 DEF Handle, Login, Arrive, Touch, Drop, Write, Persist, AddToIndex,
         RecordCreated, RecordCreatedFails, CopyReauth, Unmake, ListSessions, NextSession,
         FindVictim, DeleteVictim, RecordRevoked, RecordRevokedFails, Restore, Reindex,
         RotationFails, Members, Look, LookFails, Sweep
    <3>4. pc'[r] = "refused"
      BY <3>2, <3>3 DEF Get, Invalid, End, Stay, Goto, Now, SessionsTypeOK
    <3> QED BY <3>4
  <2>3. CASE Crash(r)
    BY <2>3 DEF Crash, Goto, Now, SessionsTypeOK
  <2>4. ASSUME NEW t \in Requests, Lapse(t) PROVE UNCHANGED <<pc, stage, cookie>>
    BY <2>4 DEF Lapse, control
  <2>5. CASE UNCHANGED vars
    BY <2>5 DEF vars, control, Rebuffed, Presents
  <2> QED BY <2>1, <2>2, <2>3, <2>4, <2>5 DEF Next, Idle, Rebuffed, Presents
<1> QED BY <1>1, <1>2 DEF Rebuffed

(* A request that presents a session after it is gone, revoked or lapsed,   *)
(* and after the handlers that had read it have ended, is never served: it  *)
(* is refused or cut off, whatever else goes on (SessionAuthGuard, which    *)
(* reads Redis on every request).                                           *)
THEOREM GoneIsRefused ==
    ASSUME NEW r \in Requests, NEW s \in Requests
    PROVE  Spec => [](Gone(s) /\ Presents(r, s) => [](pc[r] \in {"get", "refused", "failed"}))
<1>1. Gone(s) /\ Presents(r, s) => Rebuffed(r, s)
  BY DEF Rebuffed
<1>2. Now /\ Descent /\ Rebuffed(r, s) /\ [Next]_vars => Rebuffed(r, s)'
  BY RebuffedStays
<1>3. Rebuffed(r, s) => pc[r] \in {"get", "refused", "failed"}
  BY DEF Rebuffed, Presents
<1> QED BY <1>1, <1>2, <1>3, InvHolds, PTL DEF Spec

-----------------------------------------------------------------------------
(* No second factor is made up.                                             *)

(* What a step cannot take back: a proof, a descent, a login that asked for *)
(* nothing.                                                                 *)
Stable ==
    /\ \A login \in Requests : Proven(login) => Proven(login)'
    /\ \A s \in Requests : Born(s) =>
          /\ origin'[s] = origin[s] /\ origin[s] \in Requests
          /\ origin[s] \in asked' => origin[s] \in asked

LEMMA StepsAreStable ==
    ASSUME Now, Descent, NEW r \in Requests, Grows(r)
    PROVE  Stable
<1>1. ASSUME NEW login \in Requests, Proven(login) PROVE Proven(login)'
  <2>1. PICK t \in proven : origin[t] = login
    BY <1>1 DEF Proven
  <2>2. t \in proven' /\ origin'[t] = login
    BY <2>1 DEF Grows, Descent, Now, SessionsTypeOK
  <2> QED BY <2>2 DEF Proven
<1>2. ASSUME NEW s \in Requests, Born(s)
      PROVE  /\ origin'[s] = origin[s] /\ origin[s] \in Requests
             /\ origin[s] \in asked' => origin[s] \in asked
  BY <1>2 DEF Grows, Descent, Lineage, Unborn, Born
<1> QED BY <1>1, <1>2 DEF Stable

(* What r writes is safe, and so is what it holds after.                    *)
BackedStep(r) ==
    /\ \A s \in Requests : store'[s] # Absent =>
          store'[s] = store[s] \/ Safe(origin[s], store[s])'
    /\ Backed(r)'

LEMMA ValidatedBacked ==
    ASSUME Now, Descent, Factors, Stable, NEW r \in Requests, pc[r] \in {"get", "touch"},
           NEW value \in Session, Born(at[r]), Safe(origin[at[r]], value), Validated(r, value),
           Request
    PROVE  Backed(r)'
<1>1. /\ pc[r] \in Reading /\ at[r] = Subject(r) /\ stage[r] \in Validating
      /\ at[r] \in Requests /\ Backed(r)
      /\ stage[r] = "rotate" => endpoint[r] = "refresh"
      /\ stage[r] # "reauth" => endpoint[r] # "login" /\ at[r] = cookie[r]
      /\ endpoint[r] \in Walks => stage[r] \in {"guard", "relax"}
      /\ endpoint[r] # "login" => Born(cookie[r]) /\ cookie[r] \in Requests
  BY DEF Now, SessionsTypeOK, Routes, Route, Reading, Factors, Descent, Lineage, Subject
<1>2. CASE stage[r] = "guard"
  <2>1. GuardPassed(r, value) /\ at[r] = cookie[r]
    BY <1>1, <1>2 DEF Validated
  <2>2. \/ pc'[r] \in {"refused", "done", "find", "members"} /\ endpoint[r] # "disable"
        \/ pc'[r] = "refused"
        \/ pc'[r] = "list" /\ (endpoint[r] = "disable" => ~value.pending)
        \/ /\ pc'[r] = "get" /\ endpoint[r] # "disable"
           /\ \/ stage'[r] \in {"rotate", "reauth"}
              \/ stage'[r] \in {"complete", "level"} /\ cookie[r] \in proven'
    BY <1>1, <2>1 DEF GuardPassed, AllowPendingMfa, End, Enter, Stay, Goto, Now, SessionsTypeOK
  <2>3. ASSUME endpoint[r] = "disable", ~value.pending, origin[cookie[r]] \in asked'
        PROVE  Proven(origin[cookie[r]])'
    <3>1. origin[cookie[r]] \in asked /\ origin[cookie[r]] \in Requests
      BY <1>1, <2>3 DEF Stable
    <3>2. Proven(origin[cookie[r]])
      BY <2>1, <2>3, <3>1 DEF Safe
    <3>3. PICK login \in Requests : login = origin[cookie[r]]
      BY <3>1
    <3>4. Proven(login)' /\ origin'[cookie[r]] = login
      BY <1>1, <2>3, <3>2, <3>3 DEF Stable
    <3> QED BY <3>4, <3>3 DEF Request
  <2> QED BY <1>1, <2>2, <2>3 DEF Stable, Backed, Request, Reading, Creating, Revocation, Holding
<1>3. CASE stage[r] = "rotate"
  <2>1. /\ pc'[r] = "persist" /\ held'[r] = value /\ endpoint[r] = "refresh"
        /\ cookie[r] \in Requests /\ Born(cookie[r]) /\ Safe(origin[cookie[r]], value)
    BY <1>1, <1>3 DEF Validated, Enter, Goto, Hold, Now, SessionsTypeOK
  <2>2. Safe(origin[cookie[r]], held[r])'
    BY <2>1 DEF Stable, Safe, Request
  <2> QED BY <2>1, <2>2 DEF Backed, Request, Reading, Creating, Revocation, Holding
<1>4. CASE stage[r] \notin {"guard", "rotate"}
  <2>1. /\ pc'[r] = "write" /\ held'[r] = value /\ at'[r] = at[r] /\ stage'[r] = stage[r]
    BY <1>1, <1>4 DEF Validated, Stay, Goto, Hold, Now, SessionsTypeOK
  <2>2. Safe(origin[at[r]], held[r])'
    BY <1>1, <2>1 DEF Stable, Safe
  <2>3. proven \subseteq proven'
    BY <1>1, <1>4 DEF Validated
  <2> QED BY <1>1, <2>1, <2>2, <2>3 DEF Stable, Backed, Request, Reading, Creating, Revocation, Holding,
          Walks
<1> QED BY <1>2, <1>3, <1>4

LEMMA CreationBacked ==
    ASSUME Now, Descent, Factors, Stable, NEW r \in Requests,
           Login(r) \/ Arrive(r) \/ Persist(r) \/ AddToIndex(r)
           \/ RecordCreated(r) \/ RecordCreatedFails(r) \/ CopyReauth(r) \/ Unmake(r)
    PROVE  BackedStep(r)
<1> USE Names
<1>1. CASE Login(r)
  BY <1>1 DEF Login, NewSession,
     Stable, Factors, Backed, BackedStep, Safe, Now, SessionsTypeOK, Routes, Route, Descent, Lineage, Born, Unborn,
     Goto, Stay, Enter, Hold, End, EndWith, Reading, Creating, Revocation, Holding, Walks, redis, walk, history,
     Request, Subject
<1>2. CASE Arrive(r)
  BY <1>2 DEF Arrive,
     Stable, Factors, Backed, BackedStep, Safe, Now, SessionsTypeOK, Routes, Route, Descent, Lineage, Born, Unborn,
     Goto, Stay, Enter, Hold, End, EndWith, Reading, Creating, Revocation, Holding, Walks, redis, walk, history,
     Request, Subject
<1>3. CASE Persist(r)
  BY <1>3 DEF Persist, Created,
     Stable, Factors, Backed, BackedStep, Safe, Now, SessionsTypeOK, Routes, Route, Descent, Lineage, Born, Unborn,
     Goto, Stay, Enter, Hold, End, EndWith, Reading, Creating, Revocation, Holding, Walks, redis, walk, history,
     Request, Subject
<1>4. CASE AddToIndex(r)
  BY <1>4 DEF AddToIndex,
     Stable, Factors, Backed, BackedStep, Safe, Now, SessionsTypeOK, Routes, Route, Descent, Lineage, Born, Unborn,
     Goto, Stay, Enter, Hold, End, EndWith, Reading, Creating, Revocation, Holding, Walks, redis, walk, history,
     Request, Subject
<1>5. CASE RecordCreated(r)
  BY <1>5 DEF RecordCreated,
     Stable, Factors, Backed, BackedStep, Safe, Now, SessionsTypeOK, Routes, Route, Descent, Lineage, Born, Unborn,
     Goto, Stay, Enter, Hold, End, EndWith, Reading, Creating, Revocation, Holding, Walks, redis, walk, history,
     Request, Subject
<1>6. CASE RecordCreatedFails(r)
  BY <1>6 DEF RecordCreatedFails,
     Stable, Factors, Backed, BackedStep, Safe, Now, SessionsTypeOK, Routes, Route, Descent, Lineage, Born, Unborn,
     Goto, Stay, Enter, Hold, End, EndWith, Reading, Creating, Revocation, Holding, Walks, redis, walk, history,
     Request, Subject
<1>7. CASE CopyReauth(r)
  BY <1>7 DEF CopyReauth,
     Stable, Factors, Backed, BackedStep, Safe, Now, SessionsTypeOK, Routes, Route, Descent, Lineage, Born, Unborn,
     Goto, Stay, Enter, Hold, End, EndWith, Reading, Creating, Revocation, Holding, Walks, redis, walk, history,
     Request, Subject
<1>8. CASE Unmake(r)
  BY <1>8 DEF Unmake, Remove,
     Stable, Factors, Backed, BackedStep, Safe, Now, SessionsTypeOK, Routes, Route, Descent, Lineage, Born, Unborn,
     Goto, Stay, Enter, Hold, End, EndWith, Reading, Creating, Revocation, Holding, Walks, redis, walk, history,
     Request, Subject
<1> QED BY <1>1, <1>2, <1>3, <1>4, <1>5, <1>6, <1>7, <1>8

LEMMA RevocationBacked ==
    ASSUME Now, Descent, Factors, Stable, NEW r \in Requests,
           FindVictim(r) \/ DeleteVictim(r) \/ RecordRevoked(r) \/ RecordRevokedFails(r)
           \/ Restore(r) \/ Reindex(r)
    PROVE  BackedStep(r)
<1> USE Names
<1>1. CASE FindVictim(r)
  BY <1>1 DEF FindVictim, Revoked,
     Stable, Factors, Backed, BackedStep, Safe, Now, SessionsTypeOK, Routes, Route, Descent, Lineage, Born, Unborn,
     Goto, Stay, Enter, Hold, End, EndWith, Reading, Creating, Revocation, Holding, Walks, redis, walk, history,
     Request, Subject
<1>2. CASE DeleteVictim(r)
  BY <1>2 DEF DeleteVictim, Remove,
     Stable, Factors, Backed, BackedStep, Safe, Now, SessionsTypeOK, Routes, Route, Descent, Lineage, Born, Unborn,
     Goto, Stay, Enter, Hold, End, EndWith, Reading, Creating, Revocation, Holding, Walks, redis, walk, history,
     Request, Subject
<1>3. CASE RecordRevoked(r)
  BY <1>3 DEF RecordRevoked, Revoked,
     Stable, Factors, Backed, BackedStep, Safe, Now, SessionsTypeOK, Routes, Route, Descent, Lineage, Born, Unborn,
     Goto, Stay, Enter, Hold, End, EndWith, Reading, Creating, Revocation, Holding, Walks, redis, walk, history,
     Request, Subject
<1>4. CASE RecordRevokedFails(r)
  BY <1>4 DEF RecordRevokedFails,
     Stable, Factors, Backed, BackedStep, Safe, Now, SessionsTypeOK, Routes, Route, Descent, Lineage, Born, Unborn,
     Goto, Stay, Enter, Hold, End, EndWith, Reading, Creating, Revocation, Holding, Walks, redis, walk, history,
     Request, Subject
<1>5. CASE Restore(r)
  BY <1>5 DEF Restore, PutBack,
     Stable, Factors, Backed, BackedStep, Safe, Now, SessionsTypeOK, Routes, Route, Descent, Lineage, Born, Unborn,
     Goto, Stay, Enter, Hold, End, EndWith, Reading, Creating, Revocation, Holding, Walks, redis, walk, history,
     Request, Subject
<1>6. CASE Reindex(r)
  BY <1>6 DEF Reindex, Reindexed, PutBack,
     Stable, Factors, Backed, BackedStep, Safe, Now, SessionsTypeOK, Routes, Route, Descent, Lineage, Born, Unborn,
     Goto, Stay, Enter, Hold, End, EndWith, Reading, Creating, Revocation, Holding, Walks, redis, walk, history,
     Request, Subject
<1> QED BY <1>1, <1>2, <1>3, <1>4, <1>5, <1>6

LEMMA WalkBacked ==
    ASSUME Now, Descent, Factors, Stable, NEW r \in Requests,
           ListSessions(r) \/ NextSession(r) \/ Members(r) \/ Look(r)
           \/ LookFails(r) \/ Sweep(r) \/ Crash(r) \/ RotationFails(r)
    PROVE  BackedStep(r)
<1> USE Names
<1>1. CASE ListSessions(r)
  BY <1>1 DEF ListSessions, Spared,
     Stable, Factors, Backed, BackedStep, Safe, Now, SessionsTypeOK, Routes, Route, Descent, Lineage, Born, Unborn,
     Goto, Stay, Enter, Hold, End, EndWith, Reading, Creating, Revocation, Holding, Walks, redis, walk, history,
     Request, Subject
<1>2. CASE NextSession(r)
  BY <1>2 DEF NextSession,
     Stable, Factors, Backed, BackedStep, Safe, Now, SessionsTypeOK, Routes, Route, Descent, Lineage, Born, Unborn,
     Goto, Stay, Enter, Hold, End, EndWith, Reading, Creating, Revocation, Holding, Walks, redis, walk, history,
     Request, Subject
<1>3. CASE Members(r)
  BY <1>3 DEF Members,
     Stable, Factors, Backed, BackedStep, Safe, Now, SessionsTypeOK, Routes, Route, Descent, Lineage, Born, Unborn,
     Goto, Stay, Enter, Hold, End, EndWith, Reading, Creating, Revocation, Holding, Walks, redis, walk, history,
     Request, Subject
<1>4. CASE Look(r)
  BY <1>4 DEF Look,
     Stable, Factors, Backed, BackedStep, Safe, Now, SessionsTypeOK, Routes, Route, Descent, Lineage, Born, Unborn,
     Goto, Stay, Enter, Hold, End, EndWith, Reading, Creating, Revocation, Holding, Walks, redis, walk, history,
     Request, Subject
<1>5. CASE LookFails(r)
  BY <1>5 DEF LookFails,
     Stable, Factors, Backed, BackedStep, Safe, Now, SessionsTypeOK, Routes, Route, Descent, Lineage, Born, Unborn,
     Goto, Stay, Enter, Hold, End, EndWith, Reading, Creating, Revocation, Holding, Walks, redis, walk, history,
     Request, Subject
<1>6. CASE Sweep(r)
  BY <1>6 DEF Sweep,
     Stable, Factors, Backed, BackedStep, Safe, Now, SessionsTypeOK, Routes, Route, Descent, Lineage, Born, Unborn,
     Goto, Stay, Enter, Hold, End, EndWith, Reading, Creating, Revocation, Holding, Walks, redis, walk, history,
     Request, Subject
<1>7. CASE Crash(r)
  BY <1>7 DEF Crash, control,
     Stable, Factors, Backed, BackedStep, Safe, Now, SessionsTypeOK, Routes, Route, Descent, Lineage, Born, Unborn,
     Goto, Stay, Enter, Hold, End, EndWith, Reading, Creating, Revocation, Holding, Walks, redis, walk, history,
     Request, Subject
<1>8. CASE RotationFails(r)
  BY <1>8 DEF RotationFails,
     Stable, Factors, Backed, BackedStep, Safe, Now, SessionsTypeOK, Routes, Route, Descent, Lineage, Born, Unborn,
     Goto, Stay, Enter, Hold, End, EndWith, Reading, Creating, Revocation, Holding, Walks, redis, walk, history,
     Request, Subject
<1> QED BY <1>1, <1>2, <1>3, <1>4, <1>5, <1>6, <1>7, <1>8

LEMMA ReadingBacked ==
    ASSUME Now, Descent, Factors, Stable, NEW r \in Requests,
           Get(r) \/ Touch(r) \/ Drop(r) \/ Write(r)
    PROVE  BackedStep(r)
<1>1. /\ pc[r] \in Reading /\ at[r] = Subject(r) /\ at[r] \in Requests /\ Backed(r)
      /\ stage[r] \in Validating /\ Request
      /\ pc[r] # "get" => Born(at[r]) /\ held[r] \in Session /\ Safe(origin[at[r]], held[r])
      /\ stage[r] # "reauth" => at[r] = cookie[r]
      /\ stage[r] = "relax" => endpoint[r] = "disable"
      /\ endpoint[r] \in Walks => stage[r] \in {"guard", "relax"}
  <2>1. pc[r] \in Reading /\ Request
    BY DEF Get, Touch, Drop, Write, Reading
  <2> QED BY <2>1 DEF Now, Routes, Route, Reading, Descent, Lineage, Factors, Backed, Holding,
          Creating, Subject
<1>2. ASSUME Invalid(r) PROVE Backed(r)'
  <2>1. pc'[r] \in {"done", "refused"}
    BY <1>2 DEF Invalid, End, EndWith, Stay, Goto, Now, SessionsTypeOK
  <2> QED BY <2>1 DEF Backed, Reading, Creating, Revocation, Holding
<1>3. CASE Get(r)
  <2>1. UNCHANGED store /\ pc[r] = "get" /\ UNCHANGED <<origin, asked>>
    BY <1>3 DEF Get, redis
  <2>2. CASE Invalid(r)
    BY <1>2, <2>1, <2>2 DEF BackedStep
  <2>3. ASSUME store[at[r]] # Absent
        PROVE  /\ store[at[r]] \in Session /\ Born(at[r]) /\ Safe(origin[at[r]], store[at[r]])
    BY <1>1, <2>3 DEF Now, SessionsTypeOK, Descent, Factors
  <2>4. CASE store[at[r]] # Absent /\ Validated(r, store[at[r]])
    BY <1>1, <2>1, <2>3, <2>4, ValidatedBacked DEF BackedStep
  <2>5. CASE /\ store[at[r]] # Absent /\ UNCHANGED proven
             /\ \E label \in {"touch", "drop"} : Stay(r, label)
             /\ Hold(r, store[at[r]])
    <3>1. /\ pc'[r] \in {"touch", "drop"} /\ at'[r] = at[r] /\ stage'[r] = stage[r]
          /\ held'[r] = store[at[r]]
      BY <2>5 DEF Stay, Goto, Hold, Now, SessionsTypeOK
    <3>2. Safe(origin[at[r]], held[r])'
      BY <1>1, <2>3, <2>5, <3>1 DEF Stable, Safe
    <3>3. Backed(r)'
      BY <1>1, <2>1, <2>5, <3>1, <3>2 DEF Backed, Request, Reading, Creating, Revocation, Holding, Proven
    <3> QED BY <2>1, <3>3 DEF BackedStep
  <2> QED BY <1>3, <2>2, <2>4, <2>5 DEF Get
<1>4. CASE Touch(r)
  <2>1. /\ pc[r] = "touch" /\ Validated(r, held[r])
        /\ store' = [store EXCEPT ![at[r]] = held[r]]
    BY <1>4 DEF Touch
  <2>2. Backed(r)'
    BY <1>1, <2>1, ValidatedBacked
  <2>3. Safe(origin[at[r]], held[r]) /\ origin'[at[r]] = origin[at[r]]
    BY <1>1, <2>1 DEF Stable
  <2>4. \A s \in Requests : store'[s] # store[s] => Safe(origin[s], store[s])'
    BY <1>1, <2>1, <2>3 DEF Stable, Safe, Now, SessionsTypeOK
  <2> QED BY <2>2, <2>4 DEF BackedStep
<1>5. CASE Drop(r)
  BY <1>1, <1>2, <1>5 DEF Drop, Remove, BackedStep, Now, SessionsTypeOK
<1>6. CASE Write(r)
  <2>1. /\ pc[r] = "write" /\ stage[r] \in {"complete", "level", "reauth", "relax"}
        /\ store' = [store EXCEPT ![at[r]] = Upgraded(stage[r], held[r])]
        /\ UNCHANGED <<origin, asked, proven>>
    BY <1>1, <1>6 DEF Write, Now, Routes, Route, Validating, Reading
  <2>2. Safe(origin[at[r]], Upgraded(stage[r], held[r]))
    <3>1. CASE stage[r] \in {"complete", "level"}
      <4>1. cookie[r] \in proven /\ at[r] = cookie[r]
        BY <1>1, <3>1 DEF Backed
      <4> QED BY <4>1 DEF Safe, Proven
    <3>2. CASE stage[r] = "reauth"
      BY <1>1, <2>1, <3>2 DEF Upgraded, Safe, Session
    <3>3. CASE stage[r] = "relax"
      <4>1. at[r] = cookie[r] /\ (origin[cookie[r]] \in asked => Proven(origin[cookie[r]]))
        BY <1>1, <3>3 DEF Backed
      <4>2. Upgraded(stage[r], held[r]).level = "none"
        BY <1>1, <2>1, <3>3 DEF Upgraded, Session
      <4> QED BY <4>1, <4>2 DEF Safe
    <3> QED BY <2>1, <3>1, <3>2, <3>3
  <2>3. \A s \in Requests : store'[s] # store[s] => Safe(origin[s], store[s])'
    BY <1>1, <2>1, <2>2 DEF Safe, Proven, Now, SessionsTypeOK
  <2>4. \/ pc'[r] \in {"done", "refused"}
        \/ pc'[r] = "get" /\ stage'[r] = "reauth"
    BY <2>1, <1>6 DEF Write, Enter, End, EndWith, Stay, Goto, Now, SessionsTypeOK
  <2>5. Backed(r)'
    BY <2>4 DEF Backed, Reading, Creating, Revocation, Holding
  <2> QED BY <2>3, <2>5 DEF BackedStep
<1> QED BY <1>3, <1>4, <1>5, <1>6

LEMMA FactorsHold ==
    ASSUME Now, Descent, Factors, [Next]_vars
    PROVE  Factors'
<1>1. ASSUME NEW r \in Requests, OneMoves(r), Grows(r), BackedStep(r) PROVE Factors'
  <2>1. Stable
    BY <1>1, StepsAreStable
  <2>2. ASSUME NEW s \in Requests, store'[s] # Absent PROVE Safe(origin[s], store[s])'
    <3>1. CASE store'[s] = store[s]
      <4>1. Safe(origin[s], store[s]) /\ Born(s)
        BY <2>2, <3>1 DEF Factors, Descent
      <4> QED BY <2>1, <3>1, <4>1 DEF Stable, Safe
    <3>2. CASE store'[s] # store[s]
      BY <1>1, <2>2, <3>2 DEF BackedStep
    <3> QED BY <3>1, <3>2
  <2>3. ASSUME NEW q \in Requests \ {r} PROVE Backed(q)'
    <3>1. /\ Backed(q) /\ Lineage(q) /\ Route(q)
          /\ cookie[q] \in known => cookie[q] \in Requests /\ Born(cookie[q])
      BY DEF Factors, Descent, Now, Routes, SessionsTypeOK
    <3>2. /\ pc'[q] = pc[q] /\ stage'[q] = stage[q] /\ endpoint'[q] = endpoint[q]
          /\ cookie'[q] = cookie[q] /\ at'[q] = at[q] /\ held'[q] = held[q]
          /\ proven \subseteq proven' /\ asked' \subseteq asked \cup {r}
      BY <1>1 DEF OneMoves, Elsewhere, Grows
    <3>3. pc[q] \in Holding \ Creating => Safe(origin[at[q]], held[q])'
      <4>1. pc[q] \in Holding \ Creating => at[q] \in Requests /\ Born(at[q])
        BY <3>1 DEF Route, Lineage, Holding, Creating
      <4> QED BY <2>1, <3>1, <3>2, <4>1 DEF Backed, Stable, Safe
    <3>4. pc[q] = "persist" =>
             Safe(IF endpoint[q] = "login" THEN q ELSE origin[cookie[q]], held[q])'
      BY <2>1, <3>1, <3>2 DEF Backed, Stable, Safe, Lineage
    <3>5. pc[q] \in Creating \ {"persist"} => Safe(origin[q], held[q])'
      BY <2>1, <3>1, <3>2 DEF Backed, Stable, Safe, Lineage
    <3>6. /\ endpoint[q] = "disable"
          /\ pc[q] \in Revocation \/ (pc[q] \in Reading /\ stage[q] = "relax")
          /\ origin'[cookie[q]] \in asked'
          => Proven(origin[cookie[q]])'
      <4>1. endpoint[q] = "disable" /\ pc[q] # "start" =>
               cookie[q] \in Requests /\ Born(cookie[q])
        BY <3>1 DEF Lineage
      <4>2. pc[q] \in Revocation \cup Reading => pc[q] # "start"
        BY DEF Revocation, Reading
      <4> QED BY <2>1, <3>1, <3>2, <4>1, <4>2 DEF Backed, Stable
    <3> QED BY <3>1, <3>2, <3>3, <3>4, <3>5, <3>6 DEF Backed
  <2> QED BY <1>1, <2>2, <2>3 DEF BackedStep, Factors
<1>2. ASSUME NEW s \in Requests, Lapse(s) PROVE Factors'
  BY <1>2 DEF Lapse, control, walk, Now, SessionsTypeOK, Factors, Backed, Safe, Proven
<1>3. CASE UNCHANGED vars
  BY <1>3 DEF vars, redis, control, walk, history, Factors, Backed, Safe, Proven
<1>4. ASSUME NEW r \in Requests, Handle(r) \/ Crash(r) PROVE Factors'
  <2>1. OneMoves(r) /\ Grows(r) /\ Stable
    BY <1>4, HandlerMoves, HandlerGrows, StepsAreStable
  <2>2. BackedStep(r)
    BY <1>4, <2>1, ReadingBacked, CreationBacked, RevocationBacked, WalkBacked DEF Handle
  <2> QED BY <1>1, <2>1, <2>2
<1> QED BY <1>2, <1>3, <1>4 DEF Next, Idle

(* No interleaving of write-backs, rotations, restorations and upgrades     *)
(* makes up a second factor, under every fault (the session service writes  *)
(* back whole values that it read before).                                  *)
THEOREM FactorsAreProven == Spec => []FactorWasProven
<1>1. Init => Factors
  BY DEF Init, Factors, Backed, Reading, Creating, Revocation, Holding
<1>2. Now /\ Descent /\ Factors /\ [Next]_vars => Factors'
  BY FactorsHold
<1>3. Factors => FactorWasProven
  BY DEF Factors, Safe, Proven, FactorWasProven
<1> QED BY <1>1, <1>2, <1>3, InvHolds, PTL DEF Spec

-----------------------------------------------------------------------------
(* What becomes of a session.                                               *)

(* What a step of r takes away, and what it owes for that.                  *)
Accounts(r) ==
    /\ trail \subseteq trail' /\ lapsed \subseteq lapsed'
    /\ \A q \in Requests : stale[q] \subseteq stale'[q]
    /\ \A s \in Requests : store[s] # Absent /\ store'[s] = Absent =>
          \/ s \in lapsed'
          \/ Revoking(r, s)' /\ pc'[r] # "reindex"
          \/ s = r /\ pc'[r] = "failed"
    /\ \A s \in index \ index' :
          s \in lapsed' \/ s \in stale'[r] \/ Revoking(r, s)' \/ (s = r /\ pc'[r] = "failed")
    /\ Born(r)' /\ ~Born(r) => store'[r] # Absent /\ pc'[r] = "index"
    /\ pc[r] = "index" => r \in index' \/ pc'[r] = "failed"
    /\ pc[r] \in {"unmake", "failed"} => pc'[r] = "failed"
    /\ \A s \in Requests : Revoking(r, s) =>
          \/ Revoking(r, s)' /\ (pc'[r] = "reindex" => pc[r] = "reindex" \/ store'[s] # Absent)
          \/ s \in trail'
          \/ pc[r] = "reindex" /\ s \in index' /\ \A q \in Requests : s \notin due'[q]
    /\ \A q \in Requests \ {r} : due'[q] \subseteq due[q]
    /\ due'[r] # {} => endpoint'[r] \in Walks /\ pc'[r] # "start"
    /\ \A s \in due'[r] :
          \/ pc[r] = "list" /\ s \in known /\ (s \in index => s \in todo'[r])
          \/ s \in due[r] /\ (Ahead(r, s) => store[s] = Absent \/ Ahead(r, s)' \/ Revoking(r, s)')

LEMMA ReadingAccounts ==
    ASSUME Now, Dues, NEW r \in Requests, Get(r) \/ Touch(r) \/ Drop(r) \/ Write(r)
    PROVE  Accounts(r)
<1>1. /\ pc[r] \in Reading /\ at[r] \in Requests /\ (pc[r] # "get" => held[r] \in Session)
      /\ Request /\ UNCHANGED <<walk, trail, origin>> /\ lapsed \subseteq lapsed'
  <2>1. pc[r] \in Reading
    BY DEF Get, Touch, Drop, Write, Reading
  <2> QED BY <2>1 DEF Now, Routes, Route, Reading, Holding, Get, Touch, Drop, Write
<1>2. pc'[r] # "start"
  <2>1. CASE Get(r) \/ Touch(r)
    BY <2>1, ValidatedLabels DEF Get, Touch, Invalid, Stay, End, EndWith, Goto, Now, SessionsTypeOK
  <2>2. CASE Drop(r) \/ Write(r)
    BY <2>2 DEF Drop, Write, Invalid, Stay, Enter, End, EndWith, Goto, Now, SessionsTypeOK
  <2> QED BY <2>1, <2>2
<1>3. /\ \A s \in Requests : store[s] # Absent /\ store'[s] = Absent => s \in lapsed'
      /\ \A s \in index \ index' : s \in lapsed'
  <2>1. CASE Get(r)
    BY <2>1 DEF Get, redis
  <2>2. CASE Touch(r)
    BY <1>1, <2>2, Names DEF Touch, Now, SessionsTypeOK
  <2>3. CASE Drop(r)
    BY <1>1, <2>3 DEF Drop, Remove, Now, SessionsTypeOK
  <2>4. CASE Write(r)
    <3>1. /\ stage[r] \in {"complete", "level", "reauth", "relax"} /\ held[r] \in Session
          /\ UNCHANGED index
          /\ store' = [store EXCEPT ![at[r]] = Upgraded(stage[r], held[r])]
      BY <1>1, <2>4 DEF Write, Now, Routes, Route, Validating, Reading
    <3>2. Upgraded(stage[r], held[r]) \in Session
      BY <3>1 DEF Upgraded, Session
    <3> QED BY <1>1, <3>1, <3>2, Names DEF Now, SessionsTypeOK
  <2> QED BY <2>1, <2>2, <2>3, <2>4
<1>4. ASSUME NEW s \in Requests PROVE ~Revoking(r, s) /\ ~(at[r] = s /\ pc[r] \in {"find", "delete"})
  BY <1>1 DEF Revoking, Reading
<1> QED BY <1>1, <1>2, <1>3, <1>4 DEF Accounts, Ahead, Dues, Born, walk, Reading, Request

LEMMA CreationAccounts ==
    ASSUME Now, Descent, Dues, NEW r \in Requests,
           Login(r) \/ Arrive(r) \/ Persist(r) \/ AddToIndex(r)
           \/ RecordCreated(r) \/ RecordCreatedFails(r) \/ CopyReauth(r) \/ Unmake(r)
    PROVE  Accounts(r)
<1> USE Names
<1>1. CASE Login(r)
  BY <1>1 DEF Login, NewSession,
     Accounts, Ahead, Revoking, Kept, Dues, Now, SessionsTypeOK, Routes, Route, Born, Goto, Stay, Enter,
     Hold, End, EndWith, Reading, Creating, Revocation, Holding, Walks, redis, walk, history, Request
<1>2. CASE Arrive(r)
  BY <1>2 DEF Arrive,
     Accounts, Ahead, Revoking, Kept, Dues, Now, SessionsTypeOK, Routes, Route, Born, Goto, Stay, Enter,
     Hold, End, EndWith, Reading, Creating, Revocation, Holding, Walks, redis, walk, history, Request
<1>3. CASE Persist(r)
  <2>1. held[r] \in Session /\ pc[r] = "persist"
    BY <1>3 DEF Persist, Now, Routes, Route, Holding, Creating
  <2>2. Created(r) \in Session /\ Created(r) # Absent
    BY <2>1 DEF Created, Session
  <2>3. /\ \A s \in Requests : store[s] # Absent => store'[s] # Absent
        /\ store'[r] # Absent /\ pc'[r] = "index"
    BY <1>3, <2>2 DEF Persist, Stay, Goto, Now, SessionsTypeOK
  <2>4. UNCHANGED <<index, trail, lapsed, todo, stale, due, endpoint, at>>
    BY <1>3 DEF Persist, walk, Request, Stay
  <2>5. \A s \in due[r] : s \in Requests /\ (Ahead(r, s) => Ahead(r, s)')
    BY <2>1, <2>4 DEF Ahead, Now, SessionsTypeOK
  <2>6. \A s \in Requests : ~Revoking(r, s)
    BY <2>1 DEF Revoking
  <2> QED BY <2>1, <2>3, <2>4, <2>5, <2>6 DEF Accounts, Dues
<1>4. CASE AddToIndex(r)
  BY <1>4 DEF AddToIndex,
     Accounts, Ahead, Revoking, Kept, Dues, Now, SessionsTypeOK, Routes, Route, Born, Goto, Stay, Enter,
     Hold, End, EndWith, Reading, Creating, Revocation, Holding, Walks, redis, walk, history, Request
<1>5. CASE RecordCreated(r)
  BY <1>5 DEF RecordCreated,
     Accounts, Ahead, Revoking, Kept, Dues, Now, SessionsTypeOK, Routes, Route, Born, Goto, Stay, Enter,
     Hold, End, EndWith, Reading, Creating, Revocation, Holding, Walks, redis, walk, history, Request
<1>6. CASE RecordCreatedFails(r)
  BY <1>6 DEF RecordCreatedFails,
     Accounts, Ahead, Revoking, Kept, Dues, Now, SessionsTypeOK, Routes, Route, Born, Goto, Stay, Enter,
     Hold, End, EndWith, Reading, Creating, Revocation, Holding, Walks, redis, walk, history, Request
<1>7. CASE CopyReauth(r)
  BY <1>7 DEF CopyReauth,
     Accounts, Ahead, Revoking, Kept, Dues, Now, SessionsTypeOK, Routes, Route, Born, Goto, Stay, Enter,
     Hold, End, EndWith, Reading, Creating, Revocation, Holding, Walks, redis, walk, history, Request
<1>8. CASE Unmake(r)
  BY <1>8 DEF Unmake, Remove,
     Accounts, Ahead, Revoking, Kept, Dues, Now, SessionsTypeOK, Routes, Route, Born, Goto, Stay, Enter,
     Hold, End, EndWith, Reading, Creating, Revocation, Holding, Walks, redis, walk, history, Request
<1> QED BY <1>1, <1>2, <1>3, <1>4, <1>5, <1>6, <1>7, <1>8

LEMMA RevocationAccounts ==
    ASSUME Now, Descent, Dues, NEW r \in Requests,
           FindVictim(r) \/ DeleteVictim(r) \/ RecordRevoked(r) \/ RecordRevokedFails(r)
           \/ Restore(r) \/ Reindex(r)
    PROVE  Accounts(r)
<1> USE Names
<1>1. CASE FindVictim(r)
  BY <1>1 DEF FindVictim, Revoked,
     Accounts, Ahead, Revoking, Kept, Dues, Now, SessionsTypeOK, Routes, Route, Born, Goto, Stay, Enter,
     Hold, End, EndWith, Reading, Creating, Revocation, Holding, Walks, redis, walk, history, Request
<1>2. CASE DeleteVictim(r)
  BY <1>2 DEF DeleteVictim, Remove,
     Accounts, Ahead, Revoking, Kept, Dues, Now, SessionsTypeOK, Routes, Route, Born, Goto, Stay, Enter,
     Hold, End, EndWith, Reading, Creating, Revocation, Holding, Walks, redis, walk, history, Request
<1>3. CASE RecordRevoked(r)
  BY <1>3 DEF RecordRevoked, Revoked,
     Accounts, Ahead, Revoking, Kept, Dues, Now, SessionsTypeOK, Routes, Route, Born, Goto, Stay, Enter,
     Hold, End, EndWith, Reading, Creating, Revocation, Holding, Walks, redis, walk, history, Request
<1>4. CASE RecordRevokedFails(r)
  BY <1>4 DEF RecordRevokedFails,
     Accounts, Ahead, Revoking, Kept, Dues, Now, SessionsTypeOK, Routes, Route, Born, Goto, Stay, Enter,
     Hold, End, EndWith, Reading, Creating, Revocation, Holding, Walks, redis, walk, history, Request
<1>5. CASE Restore(r)
  BY <1>5 DEF Restore, PutBack,
     Accounts, Ahead, Revoking, Kept, Dues, Now, SessionsTypeOK, Routes, Route, Born, Goto, Stay, Enter,
     Hold, End, EndWith, Reading, Creating, Revocation, Holding, Walks, redis, walk, history, Request
<1>6. CASE Reindex(r)
  BY <1>6 DEF Reindex, Reindexed, PutBack,
     Accounts, Ahead, Revoking, Kept, Dues, Now, SessionsTypeOK, Routes, Route, Born, Goto, Stay, Enter,
     Hold, End, EndWith, Reading, Creating, Revocation, Holding, Walks, redis, walk, history, Request
<1> QED BY <1>1, <1>2, <1>3, <1>4, <1>5, <1>6

LEMMA WalkAccounts ==
    ASSUME Now, Descent, Dues, NEW r \in Requests,
           ListSessions(r) \/ NextSession(r) \/ Members(r) \/ Look(r)
           \/ LookFails(r) \/ Sweep(r) \/ Crash(r) \/ RotationFails(r)
    PROVE  Accounts(r)
<1> USE Names
<1>1. CASE ListSessions(r)
  BY <1>1 DEF ListSessions, Spared,
     Accounts, Ahead, Revoking, Kept, Dues, Now, SessionsTypeOK, Routes, Route, Born, Goto, Stay, Enter,
     Hold, End, EndWith, Reading, Creating, Revocation, Holding, Walks, redis, walk, history, Request
<1>2. CASE NextSession(r)
  BY <1>2 DEF NextSession,
     Accounts, Ahead, Revoking, Kept, Dues, Now, SessionsTypeOK, Routes, Route, Born, Goto, Stay, Enter,
     Hold, End, EndWith, Reading, Creating, Revocation, Holding, Walks, redis, walk, history, Request
<1>3. CASE Members(r)
  BY <1>3 DEF Members,
     Accounts, Ahead, Revoking, Kept, Dues, Now, SessionsTypeOK, Routes, Route, Born, Goto, Stay, Enter,
     Hold, End, EndWith, Reading, Creating, Revocation, Holding, Walks, redis, walk, history, Request
<1>4. CASE Look(r)
  BY <1>4 DEF Look,
     Accounts, Ahead, Revoking, Kept, Dues, Now, SessionsTypeOK, Routes, Route, Born, Goto, Stay, Enter,
     Hold, End, EndWith, Reading, Creating, Revocation, Holding, Walks, redis, walk, history, Request
<1>5. CASE LookFails(r)
  BY <1>5 DEF LookFails,
     Accounts, Ahead, Revoking, Kept, Dues, Now, SessionsTypeOK, Routes, Route, Born, Goto, Stay, Enter,
     Hold, End, EndWith, Reading, Creating, Revocation, Holding, Walks, redis, walk, history, Request
<1>6. CASE Sweep(r)
  BY <1>6 DEF Sweep,
     Accounts, Ahead, Revoking, Kept, Dues, Now, SessionsTypeOK, Routes, Route, Born, Goto, Stay, Enter,
     Hold, End, EndWith, Reading, Creating, Revocation, Holding, Walks, redis, walk, history, Request
<1>7. CASE Crash(r)
  BY <1>7 DEF Crash, control,
     Accounts, Ahead, Revoking, Kept, Dues, Now, SessionsTypeOK, Routes, Route, Born, Goto, Stay, Enter,
     Hold, End, EndWith, Reading, Creating, Revocation, Holding, Walks, redis, walk, history, Request
<1>8. CASE RotationFails(r)
  BY <1>8 DEF RotationFails,
     Accounts, Ahead, Revoking, Kept, Dues, Now, SessionsTypeOK, Routes, Route, Born, Goto, Stay, Enter,
     Hold, End, EndWith, Reading, Creating, Revocation, Holding, Walks, redis, walk, history, Request
<1> QED BY <1>1, <1>2, <1>3, <1>4, <1>5, <1>6, <1>7, <1>8

LEMMA HandlerAccounts ==
    ASSUME Now, Descent, Dues, NEW r \in Requests, Handle(r) \/ Crash(r)
    PROVE  Accounts(r)
BY ReadingAccounts, CreationAccounts, RevocationAccounts, WalkAccounts DEF Handle

(* An excuse lasts, until the session is back in the index and nobody owes  *)
(* its revocation.                                                          *)
LEMMA ExcusesStay ==
    ASSUME Now, NEW r \in Requests, OneMoves(r), Accounts(r), NEW s \in Requests, Excused(s)
    PROVE  Excused(s)' \/ (s \in index' /\ \A q \in Requests : s \notin due'[q])
<1>1. CASE s \in trail \cup lapsed \/ Swept(s)
  BY <1>1 DEF Accounts, Excused, Swept
<1>2. ASSUME NEW q \in Requests, q # r, Revoking(q, s) PROVE Excused(s)'
  BY <1>2 DEF OneMoves, Elsewhere, Revoking, Excused
<1>3. CASE Revoking(r, s)
  BY <1>3 DEF Accounts, Excused
<1> QED BY <1>1, <1>2, <1>3 DEF Excused

(* No handler but its own makes a session one that is kept.                 *)
LEMMA KeptBefore ==
    ASSUME NEW r \in Requests, OneMoves(r), Grows(r), Accounts(r),
           NEW s \in Requests, Kept(s)'
    PROVE  Kept(s) \/ (s = r /\ store'[r] # Absent /\ pc'[r] = "index")
<1>1. CASE s = r
  BY <1>1 DEF Kept, Accounts
<1>2. CASE s # r
  BY <1>2 DEF Kept, Born, Grows, OneMoves, Elsewhere
<1> QED BY <1>1, <1>2

LEMMA KnownAreKept ==
    ASSUME Descent, NEW s \in known
    PROVE  Kept(s) /\ pc[s] = "done"
BY DEF Descent, Kept

LEMMA LedgerHolds ==
    ASSUME Now, Descent, Accounted, Indexed, Dues, [Next]_vars
    PROVE  (Accounted /\ Indexed /\ Dues)'
<1>1. ASSUME NEW r \in Requests, Handle(r) \/ Crash(r) PROVE (Accounted /\ Indexed /\ Dues)'
  <2>1. OneMoves(r) /\ Grows(r) /\ Accounts(r)
    BY <1>1, HandlerMoves, HandlerGrows, HandlerAccounts
  <2>2. Accounted'
    <3> SUFFICES ASSUME NEW s \in Requests, Kept(s)', store'[s] = Absent
                 PROVE  \/ s \in lapsed' \cup trail'
                        \/ \E q \in Requests : (Revoking(q, s) /\ pc[q] # "reindex")'
      BY DEF Accounted
    <3>1. Kept(s)
      BY <2>1, KeptBefore
    <3>2. CASE store[s] # Absent
      BY <2>1, <3>2 DEF Accounts, Kept
    <3>3. CASE s \in lapsed \cup trail
      BY <2>1, <3>3 DEF Accounts
    <3>4. ASSUME NEW q \in Requests, Revoking(q, s), pc[q] # "reindex", q # r
          PROVE  (Revoking(q, s) /\ pc[q] # "reindex")'
      BY <2>1, <3>4 DEF OneMoves, Elsewhere, Revoking
    <3>5. CASE Revoking(r, s) /\ pc[r] # "reindex"
      BY <2>1, <3>5 DEF Accounts
    <3> QED BY <3>1, <3>2, <3>3, <3>4, <3>5 DEF Accounted
  <2>3. Indexed'
    <3> SUFFICES ASSUME NEW s \in Requests, Kept(s)', pc'[s] # "index"
                 PROVE  s \in index' \/ Excused(s)'
      BY DEF Indexed
    <3>1. Kept(s)
      BY <2>1, KeptBefore
    <3>2. CASE pc[s] = "index"
      BY <2>1, <3>2 DEF Accounts, OneMoves, Elsewhere, Kept
    <3>3. CASE s \in index
      BY <2>1, <3>3 DEF Accounts, Excused, Swept, Kept
    <3>4. CASE Excused(s)
      BY <2>1, <3>4, ExcusesStay
    <3> QED BY <3>1, <3>2, <3>3, <3>4 DEF Indexed
  <2>4. Dues'
    <3>1. ASSUME NEW q \in Requests, q # r
          PROVE  /\ due'[q] # {} => endpoint'[q] \in Walks /\ pc'[q] # "start"
                 /\ due'[q] \subseteq known'
                 /\ \A s \in due'[q] : Ahead(q, s)' \/ Excused(s)'
      <4>1. /\ due'[q] \subseteq due[q] /\ known \subseteq known'
            /\ endpoint'[q] = endpoint[q] /\ pc'[q] = pc[q]
            /\ todo'[q] = todo[q] /\ at'[q] = at[q]
        BY <2>1, <3>1 DEF Accounts, Grows, OneMoves, Elsewhere
      <4>2. ASSUME NEW s \in due'[q] PROVE Ahead(q, s)' \/ Excused(s)'
        <5>1. s \in Requests /\ (Ahead(q, s) \/ Excused(s))
          BY <4>1 DEF Dues, Now, SessionsTypeOK
        <5>2. CASE Ahead(q, s)
          BY <4>1, <5>2 DEF Ahead
        <5>3. CASE Excused(s)
          BY <2>1, <5>1, <5>3, ExcusesStay
        <5> QED BY <5>1, <5>2, <5>3
      <4> QED BY <4>1, <4>2 DEF Dues
    <3>2. ASSUME NEW s \in due'[r] PROVE s \in known' /\ (Ahead(r, s)' \/ Excused(s)')
      <4>1. s \in known
        BY <2>1 DEF Accounts, Dues
      <4>2. s \in Requests /\ s \in known' /\ Kept(s) /\ pc[s] # "index"
        BY <2>1, <4>1, KnownAreKept DEF Grows, Now, SessionsTypeOK
      <4>3. Excused(s) => Excused(s)'
        BY <2>1, <4>2, ExcusesStay
      <4>4. CASE s \in index => s \in todo'[r]
        BY <4>2, <4>3, <4>4 DEF Indexed, Ahead
      <4>5. CASE /\ s \in due[r]
                 /\ Ahead(r, s) => store[s] = Absent \/ Ahead(r, s)' \/ Revoking(r, s)'
        <5>1. store[s] = Absent => Excused(s)
          BY <4>2 DEF Accounted, Excused
        <5>2. Revoking(r, s)' => Excused(s)'
          BY DEF Excused
        <5> QED BY <4>2, <4>3, <4>5, <5>1, <5>2 DEF Dues
      <4> QED BY <2>1, <4>2, <4>4, <4>5 DEF Accounts
    <3>3. due'[r] # {} => endpoint'[r] \in Walks /\ pc'[r] # "start"
      BY <2>1 DEF Accounts
    <3> QED BY <3>1, <3>2, <3>3 DEF Dues
  <2> QED BY <2>2, <2>3, <2>4
<1>2. ASSUME NEW t \in Requests, Lapse(t) PROVE (Accounted /\ Indexed /\ Dues)'
  <2>1. /\ \A s \in Requests : store'[s] = store[s] \/ s \in lapsed'
        /\ lapsed \subseteq lapsed'
        /\ UNCHANGED <<index, trail, pc, stage, endpoint, at, todo, stale, due, known, origin>>
    BY <1>2 DEF Lapse, control, walk, Now, SessionsTypeOK
  <2> QED BY <2>1 DEF Accounted, Indexed, Dues, Kept, Born, Excused, Swept, Revoking, Ahead
<1>3. CASE UNCHANGED vars
  BY <1>3 DEF vars, redis, control, walk, history, Accounted, Indexed, Dues, Kept, Born,
     Excused, Swept, Revoking, Ahead
<1> QED BY <1>1, <1>2, <1>3 DEF Next, Idle

LEMMA LedgerStays == Spec => [](Descent /\ Accounted /\ Indexed /\ Dues /\ Now)
<1>1. Init => Accounted /\ Indexed /\ Dues
  BY DEF Init, Accounted, Indexed, Dues, Kept, Born
<1>2. Now /\ Descent /\ Accounted /\ Indexed /\ Dues /\ [Next]_vars
        => (Accounted /\ Indexed /\ Dues)'
  BY LedgerHolds
<1> QED BY <1>1, <1>2, InvHolds, PTL DEF Spec

(* A session a client held does not vanish without a trace: its time was    *)
(* over, or its revocation is in the audit trail, at work or cut off        *)
(* (deleteSession before the audit, whose failure restores the session).    *)
THEOREM VanishedAreAccounted == Spec => []GoneIsAccounted
<1>1. Now /\ Descent /\ Accounted => GoneIsAccounted
  <2> SUFFICES ASSUME Now, Descent, Accounted, NEW s \in known, store[s] = Absent
               PROVE  \/ s \in lapsed \cup trail
                      \/ \E r \in Requests : Revoking(r, s) /\ pc[r] # "reindex"
    BY DEF GoneIsAccounted
  <2> QED BY KnownAreKept DEF Accounted, Now, SessionsTypeOK
<1> QED BY <1>1, LedgerStays, PTL

(* A live session a client holds is in user_sessions, where a revocation of *)
(* all looks for it, however creations, listings and failed revocations     *)
(* interleave.                                                              *)
THEOREM LiveAreIndexed == Spec => []LiveIsIndexed
<1>1. Now /\ Descent /\ Indexed => LiveIsIndexed
  <2> SUFFICES ASSUME Now, Descent, Indexed, NEW s \in known
               PROVE  \/ s \in index \cup trail \cup lapsed
                      \/ \E r \in Requests : Revoking(r, s) \/ s \in stale[r]
    BY DEF LiveIsIndexed
  <2>1. s \in Requests /\ Kept(s) /\ pc[s] # "index"
    BY KnownAreKept DEF Now, SessionsTypeOK
  <2> QED BY <2>1 DEF Indexed, Excused, Swept
<1> QED BY <1>1, LedgerStays, PTL

(* A revocation of all that reports success has left none of the sessions   *)
(* that clients held when it read the list, but the one it was to spare     *)
(* (revokeAllSessions, a walk over a list read once).                       *)
THEOREM WalksRevokeTheirDue == Spec => []RevokedAllThatWereDue
<1>1. Now /\ Dues => RevokedAllThatWereDue
  <2> SUFFICES ASSUME Now, Dues, NEW r \in Requests, endpoint[r] \in Walks, pc[r] = "done",
                      NEW s \in due[r]
               PROVE  \/ s \in trail \cup lapsed
                      \/ \E q \in Requests : Revoking(q, s) \/ s \in stale[q]
    BY DEF RevokedAllThatWereDue, Walks
  <2>1. ~Ahead(r, s)
    BY DEF Now, Routes, Route, Ahead
  <2> QED BY <2>1 DEF Dues, Excused, Swept
<1> QED BY <1>1, LedgerStays, PTL

-----------------------------------------------------------------------------
(* What the write-backs alone are to blame for.                             *)

(* The guards the code lacks, as the actions a step must not contain.       *)
BackOnlyLive ==
    \A r \in Requests : Touch(r) \/ Write(r) \/ CopyReauth(r) => store[at[r]] # Absent

TakeTheOld ==
    \A r \in Requests :
        endpoint[r] = "refresh" /\ (FindVictim(r) \/ DeleteVictim(r)) =>
            store[at[r]] # Absent

(* Where a handler works: a creation on its own session, a rotation on the  *)
(* one it replaces.                                                         *)
Replaces(r) ==
    /\ pc[r] \notin {"restore", "reindex"}
    /\ pc[r] \in Creating => at[r] = r
    /\ endpoint[r] = "refresh" =>
          /\ pc[r] \in Reading => stage[r] \in {"guard", "rotate"}
          /\ pc[r] \in {"find", "delete", "recordRevoked"} => at[r] = cookie[r]

(* The rotation of r has deleted the session it replaces.                   *)
Consumed(r) == endpoint[r] = "refresh" /\ pc[r] \in {"recordRevoked", "done"}

(* What a step of r does to the sessions that are gone, to the trail and to *)
(* the rotations that are through.                                          *)
Onward(r) ==
    /\ Replaces(r)'
    /\ \A s \in Requests : Born(s) /\ store[s] = Absent /\ store'[s] # Absent =>
          s = at[r] /\ (Touch(r) \/ Write(r) \/ CopyReauth(r))
    /\ \A s \in trail' : s \in trail \/ (s = at[r] /\ pc[r] = "recordRevoked")
    /\ pc'[r] = "recordRevoked" => store'[at[r]] = Absent /\ at'[r] = at[r]
    /\ Consumed(r)' =>
          /\ cookie'[r] = cookie[r]
          /\ \/ Consumed(r)
             \/ (FindVictim(r) \/ DeleteVictim(r)) /\ endpoint[r] = "refresh"
                /\ store'[cookie[r]] = Absent

LEMMA RequestOnward ==
    ASSUME Now, Descent, "audit" \notin Faults, NEW r \in Requests, Replaces(r),
           Login(r) \/ Arrive(r)
    PROVE  Onward(r)
<1> USE Names
<1>1. CASE Login(r)
  BY <1>1 DEF Login,
     Onward, Replaces, Consumed, Born, Now, SessionsTypeOK, Routes, Route, Descent, Lineage, Unborn, Goto,
     Stay, Enter, Hold, End, EndWith, Reading, Creating, Revocation, Holding, Walks, redis, walk, history,
     Request
<1>2. CASE Arrive(r)
  BY <1>2 DEF Arrive,
     Onward, Replaces, Consumed, Born, Now, SessionsTypeOK, Routes, Route, Descent, Lineage, Unborn, Goto,
     Stay, Enter, Hold, End, EndWith, Reading, Creating, Revocation, Holding, Walks, redis, walk, history,
     Request
<1> QED BY <1>1, <1>2

LEMMA ReadingOnward ==
    ASSUME Now, Descent, "audit" \notin Faults, NEW r \in Requests, Replaces(r),
           Get(r) \/ Touch(r) \/ Drop(r) \/ Write(r)
    PROVE  Onward(r)
<1> USE Names
<1>1. /\ pc[r] \in Reading /\ at[r] \in Requests /\ Request /\ UNCHANGED trail
      /\ stage[r] \in Validating
      /\ endpoint[r] = "refresh" => stage[r] \in {"guard", "rotate"} /\ pc[r] # "write"
  <2>1. pc[r] \in Reading /\ Request /\ UNCHANGED trail
    BY DEF Get, Touch, Drop, Write, Reading
  <2> QED BY <2>1 DEF Now, Routes, Route, Replaces, Reading
<1>2. \A s \in Requests : store[s] = Absent /\ store'[s] # Absent =>
          s = at[r] /\ (Touch(r) \/ Write(r))
  BY <1>1 DEF Get, Touch, Drop, Write, Remove, redis, Now, SessionsTypeOK
<1>3. ASSUME NEW value, pc[r] \in {"get", "touch"}, Validated(r, value)
      PROVE  Replaces(r)' /\ pc'[r] # "recordRevoked" /\ ~Consumed(r)'
  <2>1. CASE stage[r] = "guard"
    BY <1>1, <1>3, <2>1 DEF Validated, GuardPassed, End, Enter, Stay, Goto, Request, Now,
       SessionsTypeOK, Replaces, Consumed, Reading, Creating
  <2>2. CASE stage[r] # "guard"
    BY <1>1, <1>3, <2>2 DEF Validated, Validating, Enter, Stay, Goto, Request, Now,
       SessionsTypeOK, Replaces, Consumed, Reading, Creating
  <2> QED BY <2>1, <2>2
<1>4. ASSUME Invalid(r)
      PROVE  Replaces(r)' /\ pc'[r] # "recordRevoked" /\ ~Consumed(r)'
  BY <1>1, <1>4 DEF Invalid, EndWith, End, Stay, Goto, Request, Now, SessionsTypeOK,
     Replaces, Consumed, Reading, Creating
<1>5. ASSUME pc[r] = "get", \E label \in {"touch", "drop"} : Stay(r, label)
      PROVE  Replaces(r)' /\ pc'[r] # "recordRevoked" /\ ~Consumed(r)'
  BY <1>1, <1>5 DEF Stay, Goto, Request, Now, SessionsTypeOK, Replaces, Consumed, Reading,
     Creating
<1>6. ASSUME Write(r)
      PROVE  Replaces(r)' /\ pc'[r] # "recordRevoked" /\ ~Consumed(r)'
  BY <1>1, <1>6 DEF Write, EndWith, End, Enter, Stay, Goto, Request, Now, SessionsTypeOK,
     Replaces, Consumed, Reading, Creating
<1>7. Replaces(r)' /\ pc'[r] # "recordRevoked" /\ ~Consumed(r)'
  BY <1>3, <1>4, <1>5, <1>6 DEF Get, Touch, Drop
<1> QED BY <1>1, <1>2, <1>7 DEF Onward

LEMMA CreationOnward ==
    ASSUME Now, Descent, "audit" \notin Faults, NEW r \in Requests, Replaces(r),
           Persist(r) \/ AddToIndex(r) \/ RecordCreated(r) \/ RecordCreatedFails(r)
           \/ CopyReauth(r) \/ Unmake(r)
    PROVE  Onward(r)
<1> USE Names
<1>1. CASE Persist(r)
  BY <1>1 DEF Persist,
     Onward, Replaces, Consumed, Born, Now, SessionsTypeOK, Routes, Route, Descent, Lineage, Unborn, Goto,
     Stay, Enter, Hold, End, EndWith, Reading, Creating, Revocation, Holding, Walks, redis, walk, history,
     Request
<1>2. CASE AddToIndex(r)
  BY <1>2 DEF AddToIndex,
     Onward, Replaces, Consumed, Born, Now, SessionsTypeOK, Routes, Route, Descent, Lineage, Unborn, Goto,
     Stay, Enter, Hold, End, EndWith, Reading, Creating, Revocation, Holding, Walks, redis, walk, history,
     Request
<1>3. CASE RecordCreated(r)
  BY <1>3 DEF RecordCreated,
     Onward, Replaces, Consumed, Born, Now, SessionsTypeOK, Routes, Route, Descent, Lineage, Unborn, Goto,
     Stay, Enter, Hold, End, EndWith, Reading, Creating, Revocation, Holding, Walks, redis, walk, history,
     Request
<1>4. CASE RecordCreatedFails(r)
  BY <1>4 DEF RecordCreatedFails
<1>5. CASE CopyReauth(r)
  BY <1>5 DEF CopyReauth,
     Onward, Replaces, Consumed, Born, Now, SessionsTypeOK, Routes, Route, Descent, Lineage, Unborn, Goto,
     Stay, Enter, Hold, End, EndWith, Reading, Creating, Revocation, Holding, Walks, redis, walk, history,
     Request
<1>6. CASE Unmake(r)
  BY <1>6 DEF Unmake, Remove,
     Onward, Replaces, Consumed, Born, Now, SessionsTypeOK, Routes, Route, Descent, Lineage, Unborn, Goto,
     Stay, Enter, Hold, End, EndWith, Reading, Creating, Revocation, Holding, Walks, redis, walk, history,
     Request
<1> QED BY <1>1, <1>2, <1>3, <1>4, <1>5, <1>6

LEMMA RevocationOnward ==
    ASSUME Now, Descent, "audit" \notin Faults, NEW r \in Requests, Replaces(r),
           FindVictim(r) \/ DeleteVictim(r) \/ RecordRevoked(r) \/ RecordRevokedFails(r)
           \/ Restore(r) \/ Reindex(r)
    PROVE  Onward(r)
<1> USE Names
<1>1. CASE FindVictim(r)
  BY <1>1 DEF FindVictim, Revoked,
     Onward, Replaces, Consumed, Born, Now, SessionsTypeOK, Routes, Route, Descent, Lineage, Unborn, Goto,
     Stay, Enter, Hold, End, EndWith, Reading, Creating, Revocation, Holding, Walks, redis, walk, history,
     Request
<1>2. CASE DeleteVictim(r)
  BY <1>2 DEF DeleteVictim, Remove,
     Onward, Replaces, Consumed, Born, Now, SessionsTypeOK, Routes, Route, Descent, Lineage, Unborn, Goto,
     Stay, Enter, Hold, End, EndWith, Reading, Creating, Revocation, Holding, Walks, redis, walk, history,
     Request
<1>3. CASE RecordRevoked(r)
  BY <1>3 DEF RecordRevoked, Revoked,
     Onward, Replaces, Consumed, Born, Now, SessionsTypeOK, Routes, Route, Descent, Lineage, Unborn, Goto,
     Stay, Enter, Hold, End, EndWith, Reading, Creating, Revocation, Holding, Walks, redis, walk, history,
     Request
<1>4. CASE RecordRevokedFails(r)
  BY <1>4 DEF RecordRevokedFails
<1>5. CASE Restore(r)
  BY <1>5 DEF Restore, Replaces
<1>6. CASE Reindex(r)
  BY <1>6 DEF Reindex, Replaces
<1> QED BY <1>1, <1>2, <1>3, <1>4, <1>5, <1>6

LEMMA WalkOnward ==
    ASSUME Now, Descent, "audit" \notin Faults, NEW r \in Requests, Replaces(r),
           ListSessions(r) \/ NextSession(r) \/ Members(r) \/ Look(r)
           \/ LookFails(r) \/ Sweep(r) \/ Crash(r) \/ RotationFails(r)
    PROVE  Onward(r)
<1> USE Names
<1>1. CASE ListSessions(r)
  BY <1>1 DEF ListSessions,
     Onward, Replaces, Consumed, Born, Now, SessionsTypeOK, Routes, Route, Descent, Lineage, Unborn, Goto,
     Stay, Enter, Hold, End, EndWith, Reading, Creating, Revocation, Holding, Walks, redis, walk, history,
     Request
<1>2. CASE NextSession(r)
  BY <1>2 DEF NextSession,
     Onward, Replaces, Consumed, Born, Now, SessionsTypeOK, Routes, Route, Descent, Lineage, Unborn, Goto,
     Stay, Enter, Hold, End, EndWith, Reading, Creating, Revocation, Holding, Walks, redis, walk, history,
     Request
<1>3. CASE Members(r)
  BY <1>3 DEF Members,
     Onward, Replaces, Consumed, Born, Now, SessionsTypeOK, Routes, Route, Descent, Lineage, Unborn, Goto,
     Stay, Enter, Hold, End, EndWith, Reading, Creating, Revocation, Holding, Walks, redis, walk, history,
     Request
<1>4. CASE Look(r)
  BY <1>4 DEF Look,
     Onward, Replaces, Consumed, Born, Now, SessionsTypeOK, Routes, Route, Descent, Lineage, Unborn, Goto,
     Stay, Enter, Hold, End, EndWith, Reading, Creating, Revocation, Holding, Walks, redis, walk, history,
     Request
<1>5. CASE LookFails(r)
  BY <1>5 DEF LookFails,
     Onward, Replaces, Consumed, Born, Now, SessionsTypeOK, Routes, Route, Descent, Lineage, Unborn, Goto,
     Stay, Enter, Hold, End, EndWith, Reading, Creating, Revocation, Holding, Walks, redis, walk, history,
     Request
<1>6. CASE Sweep(r)
  BY <1>6 DEF Sweep,
     Onward, Replaces, Consumed, Born, Now, SessionsTypeOK, Routes, Route, Descent, Lineage, Unborn, Goto,
     Stay, Enter, Hold, End, EndWith, Reading, Creating, Revocation, Holding, Walks, redis, walk, history,
     Request
<1>7. CASE Crash(r)
  BY <1>7 DEF Crash,
     Onward, Replaces, Consumed, Born, Now, SessionsTypeOK, Routes, Route, Descent, Lineage, Unborn, Goto,
     Stay, Enter, Hold, End, EndWith, Reading, Creating, Revocation, Holding, Walks, redis, walk, history,
     Request
<1>8. CASE RotationFails(r)
  BY <1>8 DEF RotationFails,
     Onward, Replaces, Consumed, Born, Now, SessionsTypeOK, Routes, Route, Descent, Lineage, Unborn, Goto,
     Stay, Enter, Hold, End, EndWith, Reading, Creating, Revocation, Holding, Walks, redis, walk, history,
     Request
<1> QED BY <1>1, <1>2, <1>3, <1>4, <1>5, <1>6, <1>7, <1>8

LEMMA HandlerOnward ==
    ASSUME Now, Descent, "audit" \notin Faults, NEW r \in Requests, Replaces(r),
           Handle(r) \/ Crash(r)
    PROVE  Onward(r)
BY RequestOnward, ReadingOnward, CreationOnward, RevocationOnward, WalkOnward DEF Handle

(* A session that was revoked is gone, and so is one that a rotation has    *)
(* taken; no two rotations take the same.                                   *)
Immediate ==
    /\ \A r \in Requests : Replaces(r)
    /\ \A s \in trail : Born(s) /\ store[s] = Absent
    /\ \A r \in Requests : pc[r] = "recordRevoked" => store[at[r]] = Absent

Exclusive ==
    /\ \A r \in Requests : Consumed(r) => Born(cookie[r]) /\ store[cookie[r]] = Absent
    /\ \A r, q \in Requests :
          Consumed(r) /\ Consumed(q) /\ cookie[r] = cookie[q] => r = q

(* Where nothing is written back over a deletion, what is gone stays gone.  *)
LEMMA AbsentStays ==
    ASSUME Now, Descent, "audit" \notin Faults, Immediate, BackOnlyLive,
           NEW r \in Requests, Handle(r) \/ Crash(r),
           NEW s \in Requests, Born(s), store[s] = Absent
    PROVE  store'[s] = Absent /\ Born(s)'
<1>1. Onward(r) /\ Grows(r)
  BY HandlerOnward, HandlerGrows DEF Immediate
<1> QED BY <1>1 DEF Onward, Grows, Born, BackOnlyLive

LEMMA ImmediateHolds ==
    ASSUME Now, Descent, "audit" \notin Faults, Immediate, [Next]_vars,
           BackOnlyLive \/ UNCHANGED vars
    PROVE  Immediate'
<1>1. ASSUME NEW r \in Requests, Handle(r) \/ Crash(r), BackOnlyLive PROVE Immediate'
  <2>1. Onward(r) /\ OneMoves(r)
    BY <1>1, HandlerOnward, HandlerMoves DEF Immediate
  <2>2. \A q \in Requests : pc[q] = "recordRevoked" => at[q] \in Requests /\ Born(at[q])
    BY DEF Descent, Lineage, Holding, Creating, Now, Routes, Route
  <2>3. \A q \in Requests : Replaces(q)'
    BY <2>1 DEF Onward, OneMoves, Elsewhere, Immediate, Replaces
  <2>4. ASSUME NEW s \in trail' PROVE Born(s)' /\ store'[s] = Absent
    <3>1. s \in Requests /\ Born(s) /\ store[s] = Absent
      BY <2>1, <2>2 DEF Onward, Immediate, Now, SessionsTypeOK
    <3> QED BY <1>1, <3>1, AbsentStays
  <2>5. ASSUME NEW q \in Requests, pc'[q] = "recordRevoked" PROVE store'[at'[q]] = Absent
    <3>1. CASE q = r
      BY <2>1, <2>5, <3>1 DEF Onward
    <3>2. CASE q # r
      <4>1. pc[q] = "recordRevoked" /\ at'[q] = at[q] /\ store[at[q]] = Absent
        BY <2>1, <2>5, <3>2 DEF OneMoves, Elsewhere, Immediate
      <4> QED BY <1>1, <2>2, <4>1, AbsentStays
    <3> QED BY <3>1, <3>2
  <2> QED BY <2>3, <2>4, <2>5 DEF Immediate
<1>2. ASSUME NEW t \in Requests, Lapse(t) PROVE Immediate'
  BY <1>2 DEF Lapse, control, Immediate, Replaces, Born, Now, SessionsTypeOK
<1>3. CASE UNCHANGED vars
  BY <1>3 DEF vars, redis, control, history, Immediate, Replaces, Born
<1> QED BY <1>1, <1>2, <1>3 DEF Next, Idle

LEMMA ExclusiveHolds ==
    ASSUME Now, Descent, "audit" \notin Faults, Immediate, Exclusive, [Next]_vars,
           (BackOnlyLive /\ TakeTheOld) \/ UNCHANGED vars
    PROVE  Exclusive'
<1>1. ASSUME NEW r \in Requests, Handle(r) \/ Crash(r), BackOnlyLive, TakeTheOld
      PROVE  Exclusive'
  <2>1. Onward(r) /\ OneMoves(r) /\ Grows(r)
    BY <1>1, HandlerOnward, HandlerMoves, HandlerGrows DEF Immediate
  <2>2. \A q \in Requests : Consumed(q) =>
           cookie[q] \in Requests /\ Born(cookie[q]) /\ store[cookie[q]] = Absent
    BY DEF Exclusive, Consumed, Now, Routes, Route
  <2>3. \A q \in Requests \ {r} : Consumed(q)' => Consumed(q) /\ cookie'[q] = cookie[q]
    BY <2>1 DEF OneMoves, Elsewhere, Consumed
  <2>4. ASSUME Consumed(r)', ~Consumed(r)
        PROVE  /\ store[cookie[r]] # Absent /\ store'[cookie[r]] = Absent
               /\ cookie'[r] = cookie[r] /\ cookie[r] \in Requests
    <3>1. /\ endpoint[r] = "refresh" /\ pc[r] \in {"find", "delete"} /\ store[at[r]] # Absent
          /\ cookie'[r] = cookie[r] /\ store'[cookie[r]] = Absent
      BY <1>1, <2>1, <2>4 DEF Onward, TakeTheOld, FindVictim, DeleteVictim
    <3> QED BY <3>1 DEF Immediate, Replaces, Now, Routes, Route
  <2>5. ASSUME NEW q \in Requests, Consumed(q)'
        PROVE  Born(cookie[q])' /\ store'[cookie'[q]] = Absent
    <3>1. CASE Consumed(q)
      <4>1. cookie'[q] = cookie[q]
        BY <2>1, <2>3, <2>5 DEF Onward
      <4> QED BY <1>1, <2>2, <3>1, <4>1, AbsentStays DEF Born
    <3>2. CASE ~Consumed(q)
      <4>1. q = r
        BY <2>3, <2>5, <3>2
      <4>2. Born(cookie[r])
        BY <2>4, <2>5, <3>2, <4>1 DEF Descent
      <4> QED BY <2>1, <2>4, <2>5, <3>2, <4>1, <4>2 DEF Grows, Born
    <3> QED BY <3>1, <3>2
  <2>6. ASSUME NEW p \in Requests, NEW q \in Requests, Consumed(p)', Consumed(q)',
               cookie'[p] = cookie'[q]
        PROVE  p = q
    <3>1. CASE Consumed(p) /\ Consumed(q)
      BY <2>1, <2>3, <2>6, <3>1 DEF Onward, Exclusive
    <3>2. CASE ~Consumed(p) \/ ~Consumed(q)
      BY <2>2, <2>3, <2>4, <2>6, <3>2
    <3> QED BY <3>1, <3>2
  <2> QED BY <2>5, <2>6 DEF Exclusive
<1>2. ASSUME NEW t \in Requests, Lapse(t) PROVE Exclusive'
  BY <1>2 DEF Lapse, control, Exclusive, Consumed, Born, Now, SessionsTypeOK
<1>3. CASE UNCHANGED vars
  BY <1>3 DEF vars, redis, control, history, Exclusive, Consumed, Born
<1> QED BY <1>1, <1>2, <1>3 DEF Next, Idle

LEMMA ImmediateInit ==
    ASSUME Init
    PROVE  Immediate /\ Exclusive
BY DEF Init, Immediate, Exclusive, Replaces, Consumed, Creating, Reading

(* Revocation is immediate as long as audit events can be persisted and no  *)
(* handler writes a session back that was deleted since it read it: the     *)
(* write-backs of validateSession and the upgrades, and the restoration of  *)
(* a revocation that could not be audited, are all that stands against it.  *)
THEOREM RevokedStaysGone ==
    ASSUME "audit" \notin Faults
    PROVE  Spec /\ WritesBackOnlyLive => []RevokedIsGone
<1>1. Init => Immediate
  BY ImmediateInit
<1>2. Now /\ Descent /\ Immediate /\ [Next]_vars /\ [BackOnlyLive]_vars => Immediate'
  BY ImmediateHolds
<1>3. Immediate => RevokedIsGone
  BY DEF Immediate, RevokedIsGone
<1> QED BY <1>1, <1>2, <1>3, InvHolds, PTL DEF Spec, WritesBackOnlyLive, BackOnlyLive

(* Of the rotations of a session at most one gives its client a new one, as *)
(* long as, besides, a rotation goes on only when it finds and deletes the  *)
(* session itself: that rotateSession drops the result of revokeSession is  *)
(* the other cause.                                                         *)
THEOREM RotationsAreExclusive ==
    ASSUME "audit" \notin Faults
    PROVE  Spec /\ WritesBackOnlyLive /\ RotationsTakeTheOld => []ReplacedOnce
<1>1. Init => Immediate /\ Exclusive
  BY ImmediateInit
<1>2. Now /\ Descent /\ Immediate /\ Exclusive /\ [Next]_vars
        /\ [BackOnlyLive]_vars /\ [TakeTheOld]_vars => (Immediate /\ Exclusive)'
  BY ImmediateHolds, ExclusiveHolds
<1>3. Exclusive => ReplacedOnce
  BY DEF Exclusive, Consumed, ReplacedOnce
<1> QED BY <1>1, <1>2, <1>3, InvHolds, PTL
        DEF Spec, WritesBackOnlyLive, RotationsTakeTheOld, BackOnlyLive, TakeTheOld

=============================================================================
