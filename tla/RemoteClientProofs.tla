------------------------- MODULE RemoteClientProofs -------------------------
(***************************************************************************)
(* A client of the server and its keys, for any number of calls and keys,  *)
(* any time and every behaviour of the network.                            *)
(*                                                                         *)
(* The properties are about three parts of the state.  Whether a request   *)
(* is judged fairly depends on what its holder was told of a key, which    *)
(* rows are deleted and which answers are under way (FairInv).  Whether a  *)
(* call is executed once depends on which of its connections were ever     *)
(* made, and on wsAvailable, which all calls share (OnceInv).  Whether a   *)
(* caller got everything depends on what is queued, what is on its way and *)
(* where a read cut a body in two (FlowInv).  The types of the variables   *)
(* need that no call begins before the client has a key (TypeInv).         *)
(***************************************************************************)
EXTENDS RemoteClient, FiniteSetTheorems, SequenceTheorems, TLAPS

\* The types of what decides about a request.
KeyTypes == /\ now \in 0 .. MaxTime
            /\ rows \in [Keys -> Auth!Row \union {NoRow}]
            /\ issued \in [Keys -> Auth!Row \union {NoRow}]
            /\ asked \in [Requests ->
                  [pc : {"new", "asking", "selected", "touching", "admitted", "refused"},
                   token : Auth!Tokens \union {NoRow}, row : Auth!Row \union {NoRow},
                   good : BOOLEAN]]
            /\ apiKey \in Auth!Tokens \union {NoRow}

\* A key is held only after it was issued.
Held(token) == token \in Keys => issued[token] # NoRow

\* A key that is no good any more, for ever.
Bad(token) == token # Master /\ ~Auth!Good(token)

\* A row is what the holder was told, and is deleted when the key is bad.
Table == \A k \in Keys :
           /\ rows[k] # NoRow => rows[k] = issued[k]
           /\ rows[k] = NoRow /\ issued[k] # NoRow => Bad(k)

\* An answer of the database may be old: what it says against a key still
\* holds, and what it does not say against it did not hold before.
Answer(r) == LET row == asked[r].row
                 token == asked[r].token
             IN  /\ row = NoRow => Bad(token)
                 /\ row # NoRow => /\ token \in Keys
                                   /\ row.expiresAt = issued[token].expiresAt
                                   /\ row.revoked => issued[token].revoked
                                   /\ ~asked[r].good => row.revoked \/ row.expiresAt < now

\* What is known of a request wherever its validation is.
Validation == \A r \in Requests :
                /\ asked[r].pc # "new" => Held(asked[r].token)
                /\ asked[r].pc \in {"asking", "selected", "touching"} => asked[r].token # Master
                /\ asked[r].pc = "asking" => asked[r].good \/ Bad(asked[r].token)
                /\ asked[r].pc = "selected" => Answer(r)
                /\ asked[r].pc \in {"touching", "admitted"} => asked[r].good
                /\ asked[r].pc = "refused" => Bad(asked[r].token)

\* What `isol8 login` stored is a key that was issued.
LoggedIn == creds # NoRow => creds.token \in Keys /\ Held(creds.token)

\* The inductive invariant of the keys.
FairInv == /\ KeyTypes
           /\ Held(apiKey)
           /\ LoggedIn
           /\ Table
           /\ Validation
-----------------------------------------------------------------------------
\* What a key loses it does not get back.
LEMMA BadStays ==
    ASSUME KeyTypes, NEW k \in Keys, issued[k] # NoRow, Bad(k),
           now' \in Nat, now <= now',
           issued'[k] # NoRow,
           issued'[k].expiresAt = issued[k].expiresAt,
           issued[k].revoked => issued'[k].revoked
    PROVE  Bad(k)'
  BY KeysAssumption DEF KeyTypes, Auth!Row, Bad, Auth!Good

\* A request is asked for its key.
LEMMA AskFair ==
    ASSUME FairInv, NEW r \in Requests, Auth!Ask(r, apiKey), UNCHANGED <<creds, apiKey>>
    PROVE  FairInv'
<1>1. /\ asked[r].pc = "new"
      /\ asked' = [asked EXCEPT ![r] = [pc |-> IF apiKey = Master THEN "admitted" ELSE "asking",
                                        token |-> apiKey, row |-> NoRow,
                                        good |-> Auth!Good(apiKey)]]
      /\ UNCHANGED <<now, rows, issued, creds, apiKey>>
  BY DEF Auth!Ask, Auth!store
<1>2. Auth!Good(apiKey) \in BOOLEAN
  BY DEF Auth!Good
<1>3. /\ asked'[r].pc = IF apiKey = Master THEN "admitted" ELSE "asking"
      /\ asked'[r].token = apiKey /\ asked'[r].good = Auth!Good(apiKey)
      /\ \A q \in Requests : q # r => asked'[q] = asked[q]
  BY <1>1 DEF FairInv, KeyTypes
<1>4. KeyTypes'
  BY <1>1, <1>2 DEF FairInv, KeyTypes
<1>5. Table'
  BY <1>1 DEF FairInv, Table, Bad, Auth!Good
<1>6. Validation'
  BY <1>1, <1>3 DEF FairInv, Validation, Held, Bad, Answer, Auth!Good
<1> QED  BY <1>1, <1>4, <1>5, <1>6 DEF FairInv, Held, LoggedIn

LEMMA ValidateFair ==
    ASSUME FairInv, NEW r \in Requests, Auth!Validates(r), UNCHANGED <<creds, apiKey>>
    PROVE  FairInv'
<1> DEFINE token == asked[r].token
<1>1. KeyTypes /\ UNCHANGED <<now, rows, issued, creds, apiKey>>
  BY DEF FairInv, Auth!Validates, Auth!ValidateAtOnce, Auth!Select, Auth!Judge, Auth!Touch,
     Auth!store
<1>2. token \in Keys => issued[token] # NoRow
  BY DEF FairInv, Validation, Held, Auth!Validates, Auth!ValidateAtOnce, Auth!Select,
     Auth!Judge, Auth!Touch
<1>3. Table'
  BY <1>1 DEF FairInv, Table, Bad, Auth!Good
<1>4. ASSUME NEW pc \in {"selected", "touching", "admitted", "refused"},
             NEW row \in Auth!Row \union {NoRow},
             asked' = [asked EXCEPT ![r].pc = pc, ![r].row = row]
      PROVE  /\ KeyTypes'
             /\ asked'[r].pc = pc /\ asked'[r].row = row
             /\ asked'[r].token = token /\ asked'[r].good = asked[r].good
             /\ \A q \in Requests : q # r => asked'[q] = asked[q]
  BY <1>1, <1>4 DEF KeyTypes
<1>5. ASSUME NEW pc \in {"touching", "admitted", "refused"}, Auth!Verdict(r, pc),
             asked[r].pc \in {"asking", "selected", "touching"},
             pc \in {"touching", "admitted"} => asked[r].good,
             pc = "refused" => Bad(token)
      PROVE  FairInv'
  <2>1. /\ KeyTypes'
        /\ asked'[r].pc = pc /\ asked'[r].token = token /\ asked'[r].good = asked[r].good
        /\ \A q \in Requests : q # r => asked'[q] = asked[q]
    BY <1>4, <1>5 DEF Auth!Verdict
  <2>2. Validation'
    BY <1>1, <1>2, <1>5, <2>1 DEF FairInv, Validation, Held, Bad, Answer, Auth!Good
  <2> QED  BY <1>1, <1>3, <2>1, <2>2 DEF FairInv, Held, LoggedIn
<1>6. CASE Auth!ValidateAtOnce(r)
  <2> DEFINE row == Auth!RowOf(token)
  <2>1. asked[r].pc = "asking"
    BY <1>6 DEF Auth!ValidateAtOnce
  <2>2. Auth!Passes(row) => asked[r].good
    BY <1>1, <2>1 DEF FairInv, KeyTypes, Validation, Table, Bad, Auth!Good, Auth!Passes, Auth!RowOf
  <2>3. ~Auth!Passes(row) => Bad(token)
    BY <1>1, <1>2, <2>1, KeysAssumption
    DEF FairInv, KeyTypes, Validation, Table, Bad, Auth!Good, Auth!Passes, Auth!RowOf, Auth!Row
  <2>4. \/ Auth!Verdict(r, "admitted") /\ Auth!Passes(row)
        \/ Auth!Verdict(r, "refused") /\ ~Auth!Passes(row)
    BY <1>6 DEF Auth!ValidateAtOnce
  <2> HIDE DEF row, token
  <2> QED  BY <1>5, <2>1, <2>2, <2>3, <2>4 DEF token
<1>7. CASE Auth!Select(r)
  <2> DEFINE row == Auth!RowOf(token)
  <2>1. /\ asked[r].pc = "asking"
        /\ asked' = [asked EXCEPT ![r].pc = "selected", ![r].row = row]
    BY <1>7 DEF Auth!Select
  <2>2. row \in Auth!Row \union {NoRow}
    BY <1>1 DEF KeyTypes, Auth!RowOf
  <2>3. /\ KeyTypes'
        /\ asked'[r].pc = "selected" /\ asked'[r].row = row
        /\ asked'[r].token = token /\ asked'[r].good = asked[r].good
        /\ \A q \in Requests : q # r => asked'[q] = asked[q]
    BY <1>4, <2>1, <2>2
  <2>4. /\ row = NoRow => Bad(token)
        /\ row # NoRow => /\ token \in Keys
                          /\ row.expiresAt = issued[token].expiresAt
                          /\ row.revoked => issued[token].revoked
                          /\ ~asked[r].good => row.revoked \/ row.expiresAt < now
    BY <1>1, <1>2, <2>1, KeysAssumption
    DEF FairInv, KeyTypes, Validation, Table, Bad, Auth!Good, Auth!RowOf, Auth!Row
  <2> HIDE DEF row
  <2>5. Answer(r)'
    BY <1>1, <2>3, <2>4 DEF Answer, Bad, Auth!Good
  <2>6. Held(asked[r].token)' /\ asked'[r].token # Master
    BY <1>1, <1>2, <2>1, <2>3 DEF FairInv, Validation, Held
  <2>7. Validation'
    <3> SUFFICES ASSUME NEW q \in Requests, q # r
                 PROVE  asked'[q] = asked[q] /\ (Answer(q) => Answer(q)')
      BY <1>1, <2>3, <2>5, <2>6 DEF FairInv, Validation, Held, Bad, Auth!Good
    <3> QED  BY <1>1, <2>3 DEF Answer, Bad, Auth!Good
  <2> QED  BY <1>1, <1>3, <2>3, <2>7 DEF FairInv, Held, LoggedIn
<1>8. CASE Auth!Judge(r)
  <2>1. asked[r].pc = "selected" /\ Answer(r)
    BY <1>8 DEF Auth!Judge, FairInv, Validation
  <2>2. Auth!Passes(asked[r].row) => asked[r].good
    BY <1>1, <2>1 DEF KeyTypes, Answer, Auth!Passes, Auth!Row
  <2>3. ~Auth!Passes(asked[r].row) => Bad(token)
    BY <1>1, <2>1, KeysAssumption DEF FairInv, Validation, KeyTypes, Answer, Bad, Auth!Good, Auth!Passes, Auth!Row
  <2>4. \/ Auth!Verdict(r, "touching") /\ Auth!Passes(asked[r].row)
        \/ Auth!Verdict(r, "refused") /\ ~Auth!Passes(asked[r].row)
    BY <1>8 DEF Auth!Judge
  <2> HIDE DEF token
  <2> QED  BY <1>5, <2>1, <2>2, <2>3, <2>4 DEF token
<1>9. CASE Auth!Touch(r)
  <2>1. asked[r].pc = "touching" /\ asked[r].good /\ Auth!Verdict(r, "admitted")
    BY <1>9 DEF Auth!Touch, FairInv, Validation
  <2> QED  BY <1>5, <2>1
<1> QED  BY <1>6, <1>7, <1>8, <1>9 DEF Auth!Validates

-----------------------------------------------------------------------------
\* The clock goes on and what was issued stays so, or gets worse.
Onward == /\ now <= now'
          /\ \A k \in Keys : issued[k] # NoRow =>
                /\ issued'[k] # NoRow
                /\ issued'[k].expiresAt = issued[k].expiresAt
                /\ issued[k].revoked => issued'[k].revoked

\* Whatever else changes the store, an answer under way stays an answer.
LEMMA StoreFair ==
    ASSUME FairInv, Onward, KeyTypes', Table', UNCHANGED <<asked, apiKey>>,
           LoggedIn'
    PROVE  FairInv'
<1> USE DEF FairInv
<1>1. \A token : Held(token) => Held(token)'
  BY DEF Held, Onward
<1>2. ASSUME NEW token, Held(token), Bad(token)
      PROVE  Bad(token)'
  <2>1. CASE token \in Keys
    <3>1. /\ issued[token] # NoRow /\ issued'[token] # NoRow
          /\ issued'[token].expiresAt = issued[token].expiresAt
          /\ issued[token].revoked => issued'[token].revoked
      BY <1>2, <2>1 DEF Held, Onward
    <3>2. now' \in Nat /\ now <= now'
      BY KeysAssumption DEF KeyTypes, Onward
    <3> QED  BY <1>2, <2>1, <3>1, <3>2, BadStays
  <2>2. CASE token \notin Keys
    BY <1>2, <2>2 DEF Bad, Auth!Good
  <2> QED  BY <2>1, <2>2
<1>3. ASSUME NEW r \in Requests, Held(asked[r].token), Answer(r)
      PROVE  Answer(r)'
  <2> DEFINE row == asked[r].row
             token == asked[r].token
  <2>1. row = NoRow => Bad(token)'
    BY <1>2, <1>3 DEF Answer
  <2>2. ASSUME row # NoRow
        PROVE  /\ token \in Keys
               /\ row.expiresAt = issued'[token].expiresAt
               /\ row.revoked => issued'[token].revoked
               /\ ~asked[r].good => row.revoked \/ row.expiresAt < now'
    <3>1. /\ token \in Keys /\ issued[token] # NoRow
          /\ row.expiresAt = issued[token].expiresAt
          /\ row.revoked => issued[token].revoked
          /\ ~asked[r].good => row.revoked \/ row.expiresAt < now
      BY <1>3, <2>2 DEF Answer, Held
    <3>2. row \in Auth!Row /\ row.expiresAt \in Nat /\ now \in Nat /\ now' \in Nat
      BY <2>2, KeysAssumption DEF KeyTypes, Auth!Row
    <3> HIDE DEF row, token
    <3> QED  BY <3>1, <3>2 DEF Onward
  <2> QED  BY <2>1, <2>2 DEF Answer
<1>4. Validation'
  BY <1>1, <1>2, <1>3 DEF Validation
<1> QED  BY <1>1, <1>4

\* `isol8 login`, and a key that it gets.
LEMMA LoginFair ==
    ASSUME FairInv, NEW k \in Keys, NEW ttl \in 0 .. MaxTime, Login(k, ttl)
    PROVE  FairInv'
<1> DEFINE row == [expiresAt |-> now + ttl, revoked |-> FALSE]
<1>1. /\ issued[k] = NoRow /\ now + ttl <= MaxTime
      /\ rows' = [rows EXCEPT ![k] = row] /\ issued' = [issued EXCEPT ![k] = rows'[k]]
      /\ UNCHANGED <<now, asked, apiKey>> /\ creds' = [token |-> k, expiresAt |-> now + ttl]
  BY DEF Login, Auth!IssueKey, Auth!CreateKey
<1>2. KeyTypes /\ Table
  BY DEF FairInv
<1>3. row \in Auth!Row
  BY <1>1, <1>2, KeysAssumption DEF KeyTypes, Auth!Row
<1>4. /\ rows'[k] = row /\ issued'[k] = row /\ row # NoRow
      /\ \A j \in Keys : j # k => rows'[j] = rows[j] /\ issued'[j] = issued[j]
  BY <1>1, <1>2, <1>3, KeysAssumption DEF KeyTypes, Auth!Row
<1> HIDE DEF row
<1>5. KeyTypes'
  BY <1>1, <1>2, <1>3, <1>4 DEF KeyTypes
<1>6. Onward
  BY <1>1, <1>2, <1>4, KeysAssumption DEF Onward, KeyTypes
<1>7. Table'
  BY <1>1, <1>2, <1>4 DEF Table, Bad, Auth!Good
<1>8. LoggedIn'
  BY <1>1, <1>4 DEF Held, LoggedIn
<1> QED  BY <1>1, <1>5, <1>6, <1>7, <1>8, StoreFair

\* The clock, a revocation or the cleanup.
LEMMA AdministerFair ==
    ASSUME FairInv, Administer
    PROVE  FairInv'
<1>1. KeyTypes /\ Table /\ UNCHANGED <<asked, apiKey, creds>>
  BY DEF FairInv, Administer, Auth!Administers, Auth!Tick, Auth!CleanUp, Auth!Withdraw,
     Auth!RevokeKey
<1>2. ASSUME KeyTypes', Onward, Table'
      PROVE  FairInv'
  BY <1>1, <1>2, StoreFair DEF FairInv, Held, LoggedIn, Onward
<1>3. CASE Auth!Tick
  <2>1. now < MaxTime /\ now' = now + 1 /\ UNCHANGED <<rows, issued>>
    BY <1>3 DEF Auth!Tick
  <2>2. KeyTypes' /\ Onward
    BY <1>1, <2>1, KeysAssumption DEF KeyTypes, Onward
  <2>3. Table'
    <3> SUFFICES ASSUME NEW k \in Keys, issued[k] # NoRow, Bad(k)
                 PROVE  Bad(k)'
      BY <1>1, <2>1 DEF Table
    <3> QED  BY <1>1, <2>1, <2>2, BadStays, KeysAssumption DEF KeyTypes
  <2> QED  BY <1>2, <2>2, <2>3
<1>4. CASE Auth!CleanUp
  <2>1. /\ UNCHANGED <<now, issued>>
        /\ rows' = [k \in Keys |-> IF /\ rows[k] # NoRow
                                      /\ rows[k].revoked \/ rows[k].expiresAt < now
                                     THEN NoRow ELSE rows[k]]
    BY <1>4 DEF Auth!CleanUp
  <2>2. \A k \in Keys : \/ rows'[k] = rows[k]
                        \/ /\ rows'[k] = NoRow /\ rows[k] # NoRow
                           /\ rows[k].revoked \/ rows[k].expiresAt < now
    BY <2>1
  <2>3. KeyTypes' /\ Onward
    BY <1>1, <2>1, KeysAssumption DEF KeyTypes, Onward
  <2>4. \A k \in Keys : rows[k] # NoRow /\ (rows[k].revoked \/ rows[k].expiresAt < now) => Bad(k)
    BY <1>1, KeysAssumption DEF KeyTypes, Table, Bad, Auth!Good, Auth!Row
  <2>5. \A k \in Keys : Bad(k) => Bad(k)'
    BY <2>1 DEF Bad, Auth!Good
  <2>6. Table'
    BY <1>1, <2>1, <2>2, <2>4, <2>5 DEF Table
  <2> QED  BY <1>2, <2>3, <2>6
<1>5. CASE \E k \in Keys, token \in Auth!Tokens : Auth!Withdraw(token, k)
  <2>1. PICK k \in Keys : Auth!RevokeKey(k)
    BY <1>5 DEF Auth!Withdraw
  <2>2. /\ rows[k] # NoRow /\ rows[k] = issued[k] /\ rows[k] \in Auth!Row
        /\ rows' = [rows EXCEPT ![k].revoked = TRUE]
        /\ issued' = [issued EXCEPT ![k].revoked = TRUE]
        /\ UNCHANGED now
    BY <1>1, <2>1 DEF Auth!RevokeKey, KeyTypes, Table
  <2> DEFINE row == [rows[k] EXCEPT !.revoked = TRUE]
  <2>3. row \in Auth!Row /\ row.revoked /\ row.expiresAt = rows[k].expiresAt
    BY <2>2 DEF Auth!Row
  <2>4. /\ rows'[k] = row /\ issued'[k] = row /\ row # NoRow
        /\ \A j \in Keys : j # k => rows'[j] = rows[j] /\ issued'[j] = issued[j]
    BY <1>1, <2>2, <2>3, KeysAssumption DEF KeyTypes, Auth!Row
  <2> HIDE DEF row
  <2>5. KeyTypes'
    BY <1>1, <2>2, <2>3, <2>4 DEF KeyTypes
  <2>6. Onward
    <3>1. now \in Nat /\ now' = now
      BY <1>1, <2>2, KeysAssumption DEF KeyTypes
    <3>2. issued'[k].expiresAt = issued[k].expiresAt /\ issued'[k].revoked
      BY <2>2, <2>3, <2>4
    <3>3. issued'[k] # NoRow /\ now <= now'
      BY <2>4, <3>1
    <3>4. \A j \in Keys \ {k} : issued'[j] = issued[j]
      BY <2>4
    <3> QED  BY <3>2, <3>3, <3>4, Zenon DEF Onward
  <2>7. Table'
    BY <1>1, <2>2, <2>4 DEF Table, Bad, Auth!Good
  <2> QED  BY <1>2, <2>5, <2>6, <2>7
<1> QED  BY <1>3, <1>4, <1>5 DEF Administer, Auth!Administers

\* The client takes the key it is given, or the stored one.
LEMMA ConnectFair ==
    ASSUME FairInv, Connect
    PROVE  FairInv'
<1>1. /\ apiKey' \in Stored \union IF Issued = {} THEN {Master, Wrong} ELSE Issued
      /\ UNCHANGED <<creds, now, rows, issued, asked>>
  BY DEF Connect, keyVars
<1>2. KeyTypes /\ Table /\ Validation /\ LoggedIn
  BY DEF FairInv
<1>3. Held(apiKey') /\ apiKey' \in Auth!Tokens \union {NoRow}
  BY <1>1, <1>2, KeysAssumption DEF Stored, Issued, Held, LoggedIn, Auth!Tokens
<1>4. KeyTypes'
  BY <1>1, <1>2, <1>3 DEF KeyTypes
<1>5. Table' /\ Validation'
  BY <1>1, <1>2 DEF Table, Validation, Held, Answer, Bad, Auth!Good
<1> QED  BY <1>1, <1>2, <1>3, <1>4, <1>5 DEF FairInv, Held, LoggedIn
-----------------------------------------------------------------------------
\* Every step that does something to the keys is one of these.
LEMMA KeySteps ==
    ASSUME Next
    PROVE  \/ UNCHANGED <<creds, apiKey, now, rows, issued, asked>>
           \/ \E k \in Keys, ttl \in 0 .. MaxTime : Login(k, ttl)
           \/ Logout
           \/ Connect
           \/ Administer
           \/ /\ \E r \in Requests : Auth!Ask(r, apiKey) \/ Auth!Validates(r)
              /\ UNCHANGED <<creds, apiKey>>
<1> DEFINE Same == UNCHANGED <<creds, apiKey, now, rows, issued, asked>>
           Asks == /\ \E r \in Requests : Auth!Ask(r, apiKey) \/ Auth!Validates(r)
                   /\ UNCHANGED <<creds, apiKey>>
<1>1. ASSUME NEW c \in Calls, NEW t \in {"ws", "sse", "post"}
      PROVE  <<c, t>> \in Requests
  BY DEF Requests
<1>2. ASSUME NEW c \in Calls, StreamWs(c) \/ StreamSse(c) \/ ExecutePost(c) \/ FallsBack(c)
      PROVE  Asks
  BY <1>1, <1>2 DEF StreamWs, StreamSse, ExecutePost, FallsBack, Fetch, Ws, Sse, Post
<1>3. ASSUME NEW c \in Calls, ClientStep(c), ~FallsBack(c)
      PROVE  Same
  BY <1>3 DEF ClientStep, Wake, Resume, GoesOn, Rethrows, OnOpen, OnMessage, OnError, OnClose,
     Received, Responds, YieldLine, ReadOn, BodyEnds, Answered, FetchThrows, ConnectFails,
     Reads, keyVars
<1>4. ASSUME NEW r \in Requests, ServerStep(r)
      PROVE  Same \/ Asks
  BY <1>4 DEF ServerStep, Validate, Begin, EnqueueThrows, Finish, Accept, Emit, clientVars, keyVars
<1>5. ASSUME NEW c \in Calls, Leave(c)
      PROVE  Same
  BY <1>5 DEF Leave, keyVars
<1>6. ASSUME NEW r \in Requests, Cut(r)
      PROVE  Same
  BY <1>6 DEF Cut, clientVars, keyVars
<1> HIDE DEF Same, Asks
<1>7. ASSUME NEW c \in Calls, CallStep(c)
      PROVE  Same \/ Asks
  BY <1>1, <1>2, <1>3, <1>4, <1>7 DEF CallStep
<1> QED  BY <1>2, <1>5, <1>6, <1>7 DEF Next, Same, Asks

LEMMA FairStep ==
    ASSUME FairInv, [Next]_vars
    PROVE  FairInv'
<1>1. ASSUME UNCHANGED <<creds, apiKey, now, rows, issued, asked>>
      PROVE  FairInv'
  BY <1>1 DEF FairInv, KeyTypes, Held, LoggedIn, Table, Validation, Answer, Bad, Auth!Good
<1>2. ASSUME Logout
      PROVE  FairInv'
  BY <1>2 DEF Logout, keyVars, FairInv, KeyTypes, Held, LoggedIn, Table, Validation, Answer,
     Bad, Auth!Good
<1>3. CASE UNCHANGED vars
  BY <1>1, <1>3 DEF vars, keyVars
<1>4. CASE Next
  BY <1>1, <1>2, <1>4, KeySteps, LoginFair, ConnectFair, AdministerFair, AskFair, ValidateFair
<1> QED  BY <1>3, <1>4

LEMMA FairAlways == Spec => []FairInv
<1>1. Init => FairInv
  BY KeysAssumption DEF Init, Auth!KeysInit, Auth!Unasked, FairInv, KeyTypes, Held, LoggedIn,
     Table, Validation, Auth!Tokens
<1> QED  BY <1>1, FairStep, PTL DEF Spec

\* However the clock, a revocation or the cleanup falls between the queries of a
\* validation, no request is admitted with a key that was revoked or expired
\* when it came, and none is refused with a key that is good.
THEOREM RemoteJudgedFairly == Spec => []JudgedFairly
<1>1. FairInv => JudgedFairly
  BY DEF FairInv, Validation, Bad, JudgedFairly, Auth!JudgedFairly
<1> QED  BY <1>1, FairAlways, PTL
-----------------------------------------------------------------------------
\* The variables are functions, and their values records with these fields.
CallShape(x) == {"pc", "via"} \subseteq DOMAIN x

Shapes == /\ DOMAIN call = Calls /\ \A c \in Calls : CallShape(call[c])
          /\ DOMAIN conn = Requests /\ \A r \in Requests : "state" \in DOMAIN conn[r]
          /\ DOMAIN server = Requests /\ \A r \in Requests : "pc" \in DOMAIN server[r]

\* A connection was asked for; its handler was called.
Touched(r) == conn[r].state # "none"
Reached(r) == server[r].pc # "idle"

\* A WebSocket that opened is known to all calls; a call that asked for another
\* connection has none that could still reach a handler.
Ways == \A c \in Calls :
          /\ wsAvailable = "unknown" => ~Reached(Ws(c))
          /\ call[c].pc = "new" => ~Touched(Ws(c)) /\ ~Touched(Sse(c)) /\ ~Touched(Post(c))
          /\ call[c].pc = "woken" => call[c].via = "ws"
          /\ call[c].via = "ws" => ~Touched(Sse(c)) /\ ~Touched(Post(c))
          /\ Touched(Sse(c)) => ~Reached(Ws(c)) /\ ~Touched(Post(c))
          /\ Touched(Post(c)) => ~Touched(Ws(c)) /\ ~Touched(Sse(c))

\* The inductive invariant of the connections.
OnceInv == /\ Shapes
           /\ \A r \in Requests : Reached(r) => Touched(r)
           /\ Ways
\* A step of the generator c: it may end, or go on as what it was.
Moves(c) ==
    /\ Shapes'
    /\ \A d \in Calls \ {c} : call'[d] = call[d]
    /\ call'[c].pc # "new"
    /\ call'[c].via \in {call[c].via, "none"}
    /\ call'[c].pc = "woken" => call'[c].via = "ws"
    /\ \A r \in Requests : /\ Reached(r)' <=> Reached(r)
                           /\ Touched(r) => Touched(r)'
                           /\ Touched(r)' => Touched(r) \/ (r = Ws(c) /\ call[c].via = "ws")
    /\ UNCHANGED wsAvailable

\* A step of the server or of the network: it reaches a handler of fetch() only.
Serves ==
    /\ Shapes'
    /\ \A r \in Requests : /\ Touched(r)' <=> Touched(r)
                           /\ Reached(r)' => Reached(r) \/ (r[2] # "ws" /\ Touched(r))
    /\ UNCHANGED <<wsAvailable, call>>

LEMMA Kinds ==
    /\ \A c \in Calls : Ws(c) \in Requests /\ Sse(c) \in Requests /\ Post(c) \in Requests
    /\ \A c \in Calls : Ws(c)[2] = "ws"
    /\ \A c, d \in Calls : /\ Ws(c) # Sse(d) /\ Ws(c) # Post(d) /\ Sse(c) # Post(d)
                           /\ Ws(c) = Ws(d) => c = d
                           /\ Sse(c) = Sse(d) => c = d
                           /\ Post(c) = Post(d) => c = d
    /\ \A r \in Requests : r = <<r[1], r[2]>> /\ r[1] \in Calls /\ r[2] \in {"ws", "sse", "post"}
  BY DEF Requests, Ws, Sse, Post

LEMMA MovesOnce ==
    ASSUME OnceInv, NEW c \in Calls, Moves(c)
    PROVE  OnceInv'
<1>1. \A r \in Requests : Reached(r)' => Touched(r)'
  BY DEF OnceInv, Moves
<1>2. Ways'
  <2> SUFFICES ASSUME NEW d \in Calls
               PROVE  /\ wsAvailable' = "unknown" => ~Reached(Ws(d))'
                      /\ call'[d].pc = "new" =>
                            ~Touched(Ws(d))' /\ ~Touched(Sse(d))' /\ ~Touched(Post(d))'
                      /\ call'[d].pc = "woken" => call'[d].via = "ws"
                      /\ call'[d].via = "ws" => ~Touched(Sse(d))' /\ ~Touched(Post(d))'
                      /\ Touched(Sse(d))' => ~Reached(Ws(d))' /\ ~Touched(Post(d))'
                      /\ Touched(Post(d))' => ~Touched(Ws(d))' /\ ~Touched(Sse(d))'
    BY DEF Ways, Ws, Sse, Post, Touched, Reached
  <2>1. /\ Reached(Ws(d))' <=> Reached(Ws(d))
        /\ Touched(Sse(d))' <=> Touched(Sse(d))
        /\ Touched(Post(d))' <=> Touched(Post(d))
        /\ Touched(Ws(d))' => Touched(Ws(d)) \/ (d = c /\ call[d].via = "ws")
    BY Kinds DEF Moves
  <2>2. CASE d # c
    BY <2>1, <2>2 DEF OnceInv, Ways, Moves
  <2>3. CASE d = c
    BY <2>1, <2>3 DEF OnceInv, Ways, Moves
  <2> QED  BY <2>2, <2>3
<1> QED  BY <1>1, <1>2 DEF OnceInv, Moves

LEMMA ServesOnce ==
    ASSUME OnceInv, Serves
    PROVE  OnceInv'
<1>1. \A r \in Requests : Reached(r)' => Touched(r)'
  BY DEF OnceInv, Serves
<1>2. \A d \in Calls : /\ Reached(Ws(d))' => Reached(Ws(d))
                       /\ Touched(Ws(d))' <=> Touched(Ws(d))
                       /\ Touched(Sse(d))' <=> Touched(Sse(d))
                       /\ Touched(Post(d))' <=> Touched(Post(d))
  BY Kinds DEF Serves
<1>3. Ways'
  BY <1>2 DEF OnceInv, Ways, Serves, Ws, Sse, Post, Touched, Reached
<1> QED  BY <1>1, <1>3 DEF OnceInv, Serves

\* How a step of a generator changes call and conn.
LEMMA MovesTo ==
    ASSUME Shapes, NEW c \in Calls, NEW x, CallShape(x),
           x.pc # "new", x.via \in {call[c].via, "none"}, x.pc = "woken" => x.via = "ws",
           call' = [call EXCEPT ![c] = x], UNCHANGED <<wsAvailable, server>>,
           \/ UNCHANGED conn
           \/ \E r \in Requests : \E y :
                 /\ "state" \in DOMAIN y
                 /\ \/ y.state = conn[r].state
                    \/ y.state # "none" /\ r = Ws(c) /\ call[c].via = "ws"
                 /\ conn' = [conn EXCEPT ![r] = y]
    PROVE  Moves(c)
<1>1. /\ call'[c] = x /\ \A d \in Calls : d # c => call'[d] = call[d]
      /\ DOMAIN call' = Calls
  BY DEF Shapes
<1>2. /\ DOMAIN conn' = Requests
      /\ \A r \in Requests : /\ "state" \in DOMAIN conn'[r]
                             /\ Touched(r) => Touched(r)'
                             /\ Touched(r)' => Touched(r) \/ (r = Ws(c) /\ call[c].via = "ws")
  <2>1. CASE UNCHANGED conn
    BY <2>1 DEF Shapes, Touched
  <2>2. ASSUME NEW r \in Requests, NEW y, "state" \in DOMAIN y,
               \/ y.state = conn[r].state
               \/ y.state # "none" /\ r = Ws(c) /\ call[c].via = "ws",
               conn' = [conn EXCEPT ![r] = y]
        PROVE  <1>2
    <3>1. /\ conn'[r] = y /\ \A q \in Requests : q # r => conn'[q] = conn[q]
          /\ DOMAIN conn' = Requests
      BY <2>2 DEF Shapes
    <3> QED  BY <2>2, <3>1 DEF Shapes, Touched
  <2> QED  BY <2>1, <2>2
<1>3. Shapes'
  BY <1>1, <1>2 DEF Shapes
<1> QED  BY <1>1, <1>2, <1>3 DEF Moves, Reached

\* What a generator becomes when it ends.
LEMMA EndedShape ==
    ASSUME NEW pc
    PROVE  CallShape(Ended(pc)) /\ Ended(pc).pc = pc /\ Ended(pc).via = "none"
  BY DEF CallShape, Ended, Idle

\* The steps of one generator that ask for nothing.
LEMMA ClientMoves ==
    ASSUME OnceInv, NEW c \in Calls,
           \/ Wake(c) \/ Rethrows(c) \/ Resume(c) \/ Leave(c)
           \/ OnMessage(c) \/ OnError(c) \/ OnClose(c)
           \/ Responds(c) \/ YieldLine(c) \/ ReadOn(c) \/ BodyEnds(c)
           \/ Answered(c) \/ FetchThrows(c)
           \/ \E n \in 1 .. 2 * (MaxEvents + 1) : Reads(c, n)
    PROVE  Moves(c)
<1> DEFINE Becomes(x) == /\ CallShape(x)
                         /\ x.pc # "new"
                         /\ x.via \in {call[c].via, "none"}
                         /\ x.pc = "woken" => x.via = "ws"
                         /\ call' = [call EXCEPT ![c] = x]
<1>1. /\ Shapes /\ CallShape(call[c])
      /\ call[c].pc = "woken" => call[c].via = "ws"
  BY DEF OnceInv, Shapes, Ways
<1>2. ASSUME NEW x, Becomes(x), UNCHANGED <<wsAvailable, server, conn>>
      PROVE  Moves(c)
  BY <1>1, <1>2, MovesTo
<1>3. ASSUME NEW x, Becomes(x), UNCHANGED <<wsAvailable, server>>,
             NEW r \in Requests, NEW frames, conn' = [conn EXCEPT ![r].frames = frames]
      PROVE  Moves(c)
  <2> DEFINE y == [conn[r] EXCEPT !.frames = frames]
  <2>1. "state" \in DOMAIN y /\ y.state = conn[r].state
    BY <1>1 DEF Shapes
  <2>2. conn' = [conn EXCEPT ![r] = y]
    BY <1>3
  <2> HIDE DEF y
  <2> QED  BY <1>1, <1>3, <2>1, <2>2, MovesTo
<1>4. CASE (Wake(c) \/ Resume(c)) /\ GoesOn(c)
  <2>1. CallShape(Yields(c)) /\ Yields(c).pc = "yielded" /\ Yields(c).via = call[c].via
    BY <1>1 DEF Yields, CallShape
  <2> QED  BY <1>1, <1>2, <1>4, <2>1 DEF GoesOn, CallShape
<1>5. CASE Rethrows(c)
  BY <1>1, <1>3, <1>5, EndedShape, Kinds DEF Rethrows
<1>6. CASE Leave(c)
  <2>1. CASE call[c].via # "ws"
    BY <1>1, <1>2, <1>6, <2>1, EndedShape DEF Leave
  <2>2. CASE call[c].via = "ws"
    <3> DEFINE y == [conn[Ws(c)] EXCEPT !.state = "closed", !.frames = <<>>]
    <3>1. "state" \in DOMAIN y /\ y.state # "none"
      BY <1>1, Kinds DEF Shapes
    <3>2. conn' = [conn EXCEPT ![Ws(c)] = y]
      BY <1>6, <2>2 DEF Leave
    <3>3. Ws(c) \in Requests /\ Becomes(Ended("left")) /\ UNCHANGED <<wsAvailable, server>>
      BY <1>1, <1>6, EndedShape, Kinds DEF Leave
    <3> HIDE DEF y
    <3> QED  BY <1>1, <2>2, <3>1, <3>2, <3>3, MovesTo
  <2> QED  BY <2>1, <2>2
<1>7. CASE OnMessage(c) \/ OnError(c) \/ OnClose(c)
  <2>1. ASSUME NEW x, Received(c, x), CallShape(x), x.via = call[c].via,
               x.pc \in {call[c].pc, Wakes(c)}
        PROVE  Moves(c)
    <3>1. Becomes(x)
      BY <1>1, <2>1 DEF Received, Listening, Wakes
    <3> QED  BY <1>3, <2>1, <3>1, Kinds DEF Received
  <2>2. CASE OnMessage(c)
    BY <1>1, <2>1, <2>2 DEF OnMessage, CallShape
  <2>3. CASE OnError(c)
    BY <1>1, <2>1, <2>3 DEF OnError, CallShape
  <2>4. CASE OnClose(c)
    BY <1>1, <2>1, <2>4 DEF OnClose, CallShape
  <2> QED  BY <1>7, <2>2, <2>3, <2>4
<1>8. CASE Responds(c) \/ FetchThrows(c)
  BY <1>1, <1>2, <1>8, EndedShape DEF Responds, FetchThrows, CallShape
<1>9. CASE YieldLine(c) \/ ReadOn(c)
  BY <1>1, <1>2, <1>9 DEF YieldLine, ReadOn, Yields, CallShape
<1>10. CASE BodyEnds(c) \/ Answered(c)
  BY <1>1, <1>2, <1>10, EndedShape DEF BodyEnds, Answered, CallShape
<1>11. ASSUME NEW n, Reads(c, n)
       PROVE  Moves(c)
  <2> DEFINE frames == SubSeq(conn[Sse(c)].frames, n + 1, Len(conn[Sse(c)].frames))
             rest == PopLines(call[c].rest \o SubSeq(Bytes(c), 1, n))
             queue == Events(c, n)
             x == [call[c] EXCEPT !.rest = rest, !.queue = queue]
  <2>1. /\ call[c].pc = "reading"
        /\ call' = [call EXCEPT ![c].rest = rest, ![c].queue = queue]
        /\ conn' = [conn EXCEPT ![Sse(c)].frames = frames]
        /\ UNCHANGED <<wsAvailable, server>> /\ Sse(c) \in Requests
    BY <1>11, Kinds DEF Reads
  <2> HIDE DEF frames, rest, queue
  <2>2. CallShape(x) /\ x.pc = call[c].pc /\ x.via = call[c].via
    BY <1>1 DEF CallShape
  <2>3. call' = [call EXCEPT ![c] = x]
    BY <1>1, <2>1 DEF Shapes
  <2> HIDE DEF x
  <2> QED  BY <1>3, <2>1, <2>2, <2>3
<1> QED  BY <1>4, <1>5, <1>6, <1>7, <1>8, <1>9, <1>10, <1>11 DEF Wake, Resume

\* How a step of the server or of the network changes conn and server.
ConnGoes(r) == \/ UNCHANGED conn
               \/ \E y : /\ "state" \in DOMAIN y /\ y.state # "none" /\ Touched(r)
                         /\ conn' = [conn EXCEPT ![r] = y]

ServerGoes(r) == \/ UNCHANGED server
                 \/ \E z : /\ "pc" \in DOMAIN z
                           /\ z.pc # "idle" => Reached(r) \/ (r[2] # "ws" /\ Touched(r))
                           /\ server' = [server EXCEPT ![r] = z]

LEMMA ServesTo ==
    ASSUME Shapes, NEW r \in Requests, UNCHANGED <<wsAvailable, call>>,
           ConnGoes(r), ServerGoes(r)
    PROVE  Serves
<1>1. /\ DOMAIN conn' = Requests
      /\ \A q \in Requests : "state" \in DOMAIN conn'[q] /\ (Touched(q)' <=> Touched(q))
  <2>1. CASE UNCHANGED conn
    BY <2>1 DEF Shapes, Touched
  <2>2. ASSUME NEW y, "state" \in DOMAIN y, y.state # "none", Touched(r),
               conn' = [conn EXCEPT ![r] = y]
        PROVE  <1>1
    <3>1. conn'[r] = y /\ \A q \in Requests : q # r => conn'[q] = conn[q]
      BY <2>2 DEF Shapes
    <3> QED  BY <2>2, <3>1 DEF Shapes, Touched
  <2> QED  BY <2>1, <2>2 DEF ConnGoes
<1>2. /\ DOMAIN server' = Requests
      /\ \A q \in Requests : /\ "pc" \in DOMAIN server'[q]
                             /\ Reached(q)' => Reached(q) \/ (q[2] # "ws" /\ Touched(q))
  <2>1. CASE UNCHANGED server
    BY <2>1 DEF Shapes, Reached
  <2>2. ASSUME NEW z, "pc" \in DOMAIN z,
               z.pc # "idle" => Reached(r) \/ (r[2] # "ws" /\ Touched(r)),
               server' = [server EXCEPT ![r] = z]
        PROVE  <1>2
    <3>1. server'[r] = z /\ \A q \in Requests : q # r => server'[q] = server[q]
      BY <2>2 DEF Shapes
    <3> QED  BY <2>2, <3>1 DEF Shapes, Reached
  <2> QED  BY <2>1, <2>2 DEF ServerGoes
<1>3. Shapes'
  BY <1>1, <1>2 DEF Shapes
<1> QED  BY <1>1, <1>2, <1>3 DEF Serves

LEMMA ServerServes ==
    ASSUME OnceInv,
           \/ \E r \in Requests : ServerStep(r) \/ Cut(r)
           \/ \E c \in Calls : ConnectFails(c)
    PROVE  Serves
<1>1. Shapes
  BY DEF OnceInv
<1>2. ASSUME NEW r \in Requests, Touched(r),
             NEW state, state # "none", NEW frames,
             conn' = [conn EXCEPT ![r].state = state, ![r].frames = frames]
      PROVE  ConnGoes(r)
  <2> DEFINE y == [conn[r] EXCEPT !.state = state, !.frames = frames]
  <2>1. "state" \in DOMAIN y /\ y.state # "none" /\ conn' = [conn EXCEPT ![r] = y]
    BY <1>1, <1>2 DEF Shapes
  <2> HIDE DEF y
  <2> QED  BY <1>2, <2>1 DEF ConnGoes
<1>3. ASSUME NEW r \in Requests, NEW pc,
             pc # "idle" => Reached(r) \/ (r[2] # "ws" /\ Touched(r)),
             server' = [server EXCEPT ![r].pc = pc]
      PROVE  ServerGoes(r)
  <2> DEFINE z == [server[r] EXCEPT !.pc = pc]
  <2>1. "pc" \in DOMAIN z /\ z.pc = pc /\ server' = [server EXCEPT ![r] = z]
    BY <1>1, <1>3 DEF Shapes
  <2> HIDE DEF z
  <2> QED  BY <1>3, <2>1 DEF ServerGoes
<1>4. ASSUME NEW r \in Requests, Validate(r)
      PROVE  Serves
  BY <1>1, <1>4, ServesTo DEF Validate, clientVars, ConnGoes, ServerGoes
<1>5. ASSUME NEW r \in Requests, Begin(r) \/ EnqueueThrows(r)
      PROVE  Serves
  <2>1. ServerGoes(r) /\ UNCHANGED <<wsAvailable, call, conn>>
    BY <1>3, <1>5 DEF Begin, EnqueueThrows, Reached, clientVars
  <2> QED  BY <1>1, <2>1, ServesTo DEF ConnGoes
<1>6. ASSUME NEW r \in Requests, Accept(r[1], r[2])
      PROVE  Serves
  <2>1. /\ r[2] # "ws" /\ Touched(r) /\ UNCHANGED <<wsAvailable, call>>
        /\ conn' = [conn EXCEPT ![r].state = "open"]
        /\ server' = [server EXCEPT ![r].pc = "requested"]
    BY <1>6, Kinds DEF Accept, Touched, clientVars
  <2> DEFINE y == [conn[r] EXCEPT !.state = "open"]
  <2>2. "state" \in DOMAIN y /\ y.state # "none" /\ conn' = [conn EXCEPT ![r] = y]
    BY <1>1, <2>1 DEF Shapes
  <2> HIDE DEF y
  <2>3. ConnGoes(r)
    BY <2>1, <2>2 DEF ConnGoes
  <2> QED  BY <1>1, <1>3, <2>1, <2>3, ServesTo
<1>7. ASSUME NEW r \in Requests, NEW e, Emit(r, e)
      PROVE  Serves
  <2>1. Reached(r) /\ UNCHANGED <<wsAvailable, call>>
    BY <1>7 DEF Emit, Reached, clientVars
  <2>2. ServerGoes(r)
    <3> DEFINE z == [pc |-> IF e = "out" THEN "executing" ELSE "stopping",
                     sent |-> Append(server[r].sent, e)]
    <3>1. "pc" \in DOMAIN z /\ server' = [server EXCEPT ![r] = z]
      BY <1>7 DEF Emit
    <3> HIDE DEF z
    <3> QED  BY <2>1, <3>1 DEF ServerGoes
  <2>3. ConnGoes(r)
    <3> DEFINE frames == conn[r].frames \o Written(r, e)
               y == [conn[r] EXCEPT !.frames = frames]
    <3>1. CASE conn[r].state = "open"
      <4>1. conn' = [conn EXCEPT ![r].frames = frames] /\ Touched(r)
        BY <1>7, <3>1 DEF Emit, Sends, Touched
      <4> HIDE DEF frames
      <4>2. "state" \in DOMAIN y /\ y.state # "none" /\ conn' = [conn EXCEPT ![r] = y]
        BY <1>1, <3>1, <4>1 DEF Shapes
      <4> HIDE DEF y
      <4> QED  BY <4>1, <4>2 DEF ConnGoes
    <3>2. CASE conn[r].state # "open"
      BY <1>7, <3>2 DEF Emit, Sends, ConnGoes
    <3> QED  BY <3>1, <3>2
  <2> QED  BY <1>1, <2>1, <2>2, <2>3, ServesTo
<1>8. ASSUME NEW r \in Requests, Finish(r)
      PROVE  Serves
  <2>1. ServerGoes(r) /\ UNCHANGED <<wsAvailable, call>>
    BY <1>3, <1>8 DEF Finish, Reached, clientVars
  <2>2. ConnGoes(r)
    <3>1. CASE conn[r].state = "open" /\ r[2] # "post"
      <4> DEFINE frames == Append(conn[r].frames, IF r[2] = "ws" THEN "close" ELSE Part("end", TRUE))
      <4>1. conn' = [conn EXCEPT ![r].state = "closed", ![r].frames = frames] /\ Touched(r)
        BY <1>1, <1>8, <3>1 DEF Finish, Touched, Shapes
      <4> HIDE DEF frames
      <4> QED  BY <1>2, <4>1
    <3>2. CASE conn[r].state # "open" \/ r[2] = "post"
      BY <1>8, <3>2 DEF Finish, ConnGoes
    <3> QED  BY <3>1, <3>2
  <2> QED  BY <1>1, <2>1, <2>2, ServesTo
<1>9. ASSUME NEW r \in Requests, Cut(r)
      PROVE  Serves
  <2>1. UNCHANGED <<wsAvailable, call>> /\ Touched(r)
    BY <1>9 DEF Cut, Touched, clientVars
  <2>2. ServerGoes(r)
    BY <1>3, <1>9 DEF Cut, ServerGoes
  <2>3. PICK frames : conn' = [conn EXCEPT ![r] = [state |-> "closed", cut |-> TRUE,
                                                   frames |-> frames]]
    BY <1>9 DEF Cut
  <2>4. ConnGoes(r)
    BY <2>1, <2>3 DEF ConnGoes
  <2> QED  BY <1>1, <2>1, <2>2, <2>4, ServesTo
<1>10. ASSUME NEW c \in Calls, ConnectFails(c)
       PROVE  Serves
  <2>1. /\ UNCHANGED <<wsAvailable, call, server>> /\ Touched(Ws(c))
        /\ conn' = [conn EXCEPT ![Ws(c)].state = "closed",
                                ![Ws(c)].frames = <<"broken", "close">>]
    BY <1>10 DEF ConnectFails, Touched
  <2>2. ConnGoes(Ws(c))
    BY <1>2, <2>1, Kinds
  <2> QED  BY <1>1, <2>1, <2>2, Kinds, ServesTo DEF ServerGoes
<1> QED  BY <1>4, <1>5, <1>6, <1>7, <1>8, <1>9, <1>10 DEF ServerStep

\* A WebSocket opens, while its call is listening.
LEMMA OpenOnce ==
    ASSUME OnceInv, NEW c \in Calls, OnOpen(c)
    PROVE  OnceInv'
<1>1. /\ call[c].via = "ws" /\ Touched(Ws(c)) /\ Ws(c) \in Requests
      /\ wsAvailable' = "yes" /\ UNCHANGED call
      /\ conn' = [conn EXCEPT ![Ws(c)].state = "open"]
      /\ server' = [server EXCEPT ![Ws(c)].pc = "requested"]
  BY Kinds DEF OnOpen, Listening, Touched
<1>2. /\ Shapes'
      /\ \A r \in Requests : /\ Touched(r)' <=> Touched(r)
                             /\ Reached(r)' => Reached(r) \/ r = Ws(c)
  BY <1>1 DEF OnceInv, Shapes, Touched, Reached
<1>3. \A r \in Requests : Reached(r)' => Touched(r)'
  BY <1>1, <1>2 DEF OnceInv
<1>4. \A d \in Calls : /\ Reached(Ws(d))' => Reached(Ws(d)) \/ d = c
                       /\ Touched(Ws(d))' <=> Touched(Ws(d))
                       /\ Touched(Sse(d))' <=> Touched(Sse(d))
                       /\ Touched(Post(d))' <=> Touched(Post(d))
  BY <1>2, Kinds
<1>5. Ways'
  BY <1>1, <1>4 DEF OnceInv, Ways, Ws, Sse, Post, Touched, Reached
<1> QED  BY <1>2, <1>3, <1>5 DEF OnceInv

\* A call asks for its connection r.
LEMMA FetchOnce ==
    ASSUME OnceInv, NEW c \in Calls, NEW r \in Requests, NEW x, CallShape(x),
           x.pc \notin {"new", "woken"},
           call' = [call EXCEPT ![c] = x], Fetch(c, r),
           \/ /\ r = Ws(c) /\ call[c].pc = "new" /\ x.via = "ws" /\ UNCHANGED wsAvailable
           \/ /\ r = Sse(c) /\ call[c].pc = "new" /\ x.via # "ws" /\ UNCHANGED wsAvailable
           \/ /\ r = Post(c) /\ call[c].pc = "new" /\ x.via # "ws" /\ UNCHANGED wsAvailable
           \/ /\ r = Sse(c) /\ call[c].via = "ws" /\ x.via # "ws"
              /\ wsAvailable = "unknown" /\ wsAvailable' = "no"
    PROVE  OnceInv'
<1>1. /\ call'[c] = x /\ \A d \in Calls : d # c => call'[d] = call[d]
      /\ DOMAIN call' = Calls
  BY DEF OnceInv, Shapes
<1>2. conn' = [conn EXCEPT ![r].state = "connecting"] /\ UNCHANGED server
  BY DEF Fetch
<1>3. /\ Shapes' /\ Touched(r)'
      /\ \A q \in Requests : /\ Reached(q)' <=> Reached(q)
                             /\ Touched(q) => Touched(q)'
                             /\ q # r => (Touched(q)' <=> Touched(q))
  BY <1>1, <1>2 DEF OnceInv, Shapes, Touched, Reached
<1>4. \A q \in Requests : Reached(q)' => Touched(q)'
  BY <1>3 DEF OnceInv
<1>5. wsAvailable' = "unknown" => wsAvailable = "unknown"
  OBVIOUS
<1>6. ASSUME NEW d \in Calls
      PROVE  /\ wsAvailable' = "unknown" => ~Reached(Ws(d))'
             /\ call'[d].pc = "new" => ~Touched(Ws(d))' /\ ~Touched(Sse(d))' /\ ~Touched(Post(d))'
             /\ call'[d].pc = "woken" => call'[d].via = "ws"
             /\ call'[d].via = "ws" => ~Touched(Sse(d))' /\ ~Touched(Post(d))'
             /\ Touched(Sse(d))' => ~Reached(Ws(d))' /\ ~Touched(Post(d))'
             /\ Touched(Post(d))' => ~Touched(Ws(d))' /\ ~Touched(Sse(d))'
  <2>1. Ws(d) \in Requests /\ Sse(d) \in Requests /\ Post(d) \in Requests
    BY Kinds
  <2>2. CASE d # c
    <3>1. Ws(d) # r /\ Sse(d) # r /\ Post(d) # r
      <4>1. r \in {Ws(c), Sse(c), Post(c)}
        OBVIOUS
      <4> QED  BY <2>2, <4>1 DEF Ws, Sse, Post
    <3>2. /\ Reached(Ws(d))' <=> Reached(Ws(d))
          /\ Touched(Ws(d))' <=> Touched(Ws(d))
          /\ Touched(Sse(d))' <=> Touched(Sse(d))
          /\ Touched(Post(d))' <=> Touched(Post(d))
      BY <1>3, <2>1, <3>1
    <3> QED  BY <1>1, <1>5, <2>2, <3>2 DEF OnceInv, Ways
  <2>3. CASE d = c
    <3>1. Ws(c) # Sse(c) /\ Ws(c) # Post(c) /\ Sse(c) # Post(c)
      BY Kinds
    <3> QED  BY <1>1, <1>3, <1>5, <2>1, <2>3, <3>1 DEF OnceInv, Ways
  <2> QED  BY <2>2, <2>3
<1>7. Ways'
  BY <1>6 DEF Ways, Ws, Sse, Post, Touched, Reached
<1> QED  BY <1>3, <1>4, <1>7 DEF OnceInv

LEMMA StartsOnce ==
    ASSUME OnceInv, NEW c \in Calls,
           StreamWs(c) \/ StreamSse(c) \/ ExecutePost(c) \/ FallsBack(c)
    PROVE  OnceInv'
<1>1. CallShape(call[c]) /\ (call[c].pc = "woken" => call[c].via = "ws")
  BY DEF OnceInv, Shapes, Ways
<1> DEFINE x(pc, via) == [call[c] EXCEPT !.pc = pc, !.via = via]
<1>2. ASSUME NEW pc, NEW via
      PROVE  CallShape(x(pc, via)) /\ x(pc, via).pc = pc /\ x(pc, via).via = via
  BY <1>1 DEF CallShape
<1>3. ASSUME NEW pc, NEW via, call' = [call EXCEPT ![c].pc = pc, ![c].via = via]
      PROVE  call' = [call EXCEPT ![c] = x(pc, via)]
  BY <1>3 DEF OnceInv, Shapes
<1> HIDE DEF x
<1>4. CASE StreamWs(c)
  <2>1. /\ Fetch(c, Ws(c)) /\ Ws(c) \in Requests /\ call[c].pc = "new" /\ UNCHANGED wsAvailable
        /\ call' = [call EXCEPT ![c].pc = "waiting", ![c].via = "ws"]
    BY <1>4, Kinds DEF StreamWs, MayStart
  <2>2. call' = [call EXCEPT ![c] = x("waiting", "ws")]
    BY <1>3, <2>1
  <2> QED  BY <1>2, <2>1, <2>2, FetchOnce
<1>5. CASE StreamSse(c)
  <2>1. /\ Fetch(c, Sse(c)) /\ Sse(c) \in Requests /\ call[c].pc = "new" /\ UNCHANGED wsAvailable
        /\ call' = [call EXCEPT ![c].pc = "fetching", ![c].via = "sse"]
    BY <1>5, Kinds DEF StreamSse, MayStart
  <2>2. call' = [call EXCEPT ![c] = x("fetching", "sse")]
    BY <1>3, <2>1
  <2> QED  BY <1>2, <2>1, <2>2, FetchOnce
<1>6. CASE ExecutePost(c)
  <2>1. /\ Fetch(c, Post(c)) /\ Post(c) \in Requests /\ call[c].pc = "new" /\ UNCHANGED wsAvailable
        /\ call' = [call EXCEPT ![c].pc = "fetching", ![c].via = "post"]
    BY <1>6, Kinds DEF ExecutePost, MayStart
  <2>2. call' = [call EXCEPT ![c] = x("fetching", "post")]
    BY <1>3, <2>1
  <2> QED  BY <1>2, <2>1, <2>2, FetchOnce
<1>7. CASE FallsBack(c)
  <2> DEFINE y == [Idle EXCEPT !.pc = "fetching", !.via = "sse", !.got = call[c].got]
  <2>1. /\ Fetch(c, Sse(c)) /\ Sse(c) \in Requests /\ call[c].via = "ws"
        /\ wsAvailable = "unknown" /\ wsAvailable' = "no" /\ call' = [call EXCEPT ![c] = y]
    BY <1>1, <1>7, Kinds DEF FallsBack
  <2>2. CallShape(y) /\ y.pc = "fetching" /\ y.via = "sse"
    BY DEF CallShape, Idle
  <2> HIDE DEF y
  <2> QED  BY <2>1, <2>2, FetchOnce
<1> QED  BY <1>4, <1>5, <1>6, <1>7

LEMMA OnceStep ==
    ASSUME OnceInv, [Next]_vars
    PROVE  OnceInv'
<1>1. ASSUME UNCHANGED <<wsAvailable, call, conn, server>>
      PROVE  OnceInv'
  BY <1>1 DEF OnceInv, Shapes, Ways, Touched, Reached
<1>2. ASSUME \/ \E k \in Keys, ttl \in 0 .. MaxTime : Login(k, ttl)
             \/ Logout \/ Connect \/ Administer \/ UNCHANGED vars
      PROVE  OnceInv'
  BY <1>1, <1>2 DEF Login, Logout, Connect, Administer, vars
<1>3. ASSUME NEW c \in Calls, ClientStep(c)
      PROVE  OnceInv'
  BY <1>3, ClientMoves, MovesOnce, ServerServes, ServesOnce, OpenOnce, StartsOnce DEF ClientStep
<1>4. ASSUME NEW r \in Requests, ServerStep(r) \/ Cut(r)
      PROVE  OnceInv'
  BY <1>4, ServerServes, ServesOnce
<1>5. \A c \in Calls, t \in {"ws", "sse", "post"} : <<c, t>> \in Requests
  BY DEF Requests
<1>6. ASSUME NEW c \in Calls, StreamWs(c) \/ StreamSse(c) \/ ExecutePost(c) \/ Leave(c)
      PROVE  OnceInv'
  BY <1>6, StartsOnce, ClientMoves, MovesOnce
<1> QED  BY <1>2, <1>3, <1>4, <1>5, <1>6 DEF Next, CallStep

LEMMA OnceAlways == Spec => []OnceInv
<1>1. Init => OnceInv
  BY DEF Init, OnceInv, Shapes, CallShape, Idle, Ways, Touched, Reached, Ws, Sse, Post, Requests
<1> QED  BY <1>1, OnceStep, PTL DEF Spec

\* Whatever the network does, and whatever a call falls back to after its
\* WebSocket failed, no two of its requests are ever executed.
THEOREM RemoteAtMostOnce == Spec => []AtMostOnce
<1>1. ASSUME OnceInv, NEW c \in Calls
      PROVE  Cardinality({t \in {"ws", "sse", "post"} :
                            server[<<c, t>>].pc \in {"executing", "stopping", "ended"}}) <= 1
  <2> DEFINE S == {t \in {"ws", "sse", "post"} :
                     server[<<c, t>>].pc \in {"executing", "stopping", "ended"}}
  <2>1. \A t \in S : Reached(<<c, t>>) /\ Touched(<<c, t>>)
    BY <1>1 DEF OnceInv, Reached, Requests
  <2>2. \A t, u \in S : t = u
    BY <1>1, <2>1 DEF OnceInv, Ways, Ws, Sse, Post
  <2> HIDE DEF S
  <2>3. ASSUME S = {}
        PROVE  Cardinality(S) <= 1
    <3>1. Cardinality(S) = 0
      BY <2>3, FS_EmptySet
    <3> QED  BY <3>1
  <2>4. ASSUME S # {}
        PROVE  Cardinality(S) <= 1
    <3>1. PICK t : S = {t}
      BY <2>2, <2>4
    <3>2. Cardinality({t}) = 1
      BY FS_Singleton
    <3>3. Cardinality(S) = 1
      BY <3>1, <3>2
    <3> QED  BY <3>3
  <2> QED  BY <2>3, <2>4 DEF S
<1>2. OnceInv => AtMostOnce
  BY <1>1 DEF AtMostOnce
<1> QED  BY <1>2, OnceAlways, PTL

-----------------------------------------------------------------------------
\* The steps of a generator.
Pcs == {"new", "waiting", "woken", "yielded", "fetching", "reading",
        "returned", "threw", "left"}

\* What TypeOK says beyond KeyTypes, part by part.
CallTypes == \A c \in Calls : call[c].pc \in Pcs
ConnTypes == \A r \in Requests : conn[r].state \in {"none", "connecting", "open", "closed"}
ServerTypes == \A r \in Requests :
                  server[r].pc \in {"idle", "requested", "executing", "stopping", "ended"}

\* No call begins before the client has a key, so each request has one.
Connected == apiKey = NoRow => \A c \in Calls : call[c].pc = "new"
Tokened == \A r \in Requests : asked[r].token \in Auth!Tokens

\* The types, which are inductive next to KeyTypes and Shapes.
TypeInv == /\ wsAvailable \in {"unknown", "yes", "no"}
           /\ backend \in {"sqlite", "postgres"}
           /\ CallTypes /\ ConnTypes /\ ServerTypes
           /\ Connected
           /\ Tokened

\* What a step does to a call: it has a key by then.
LEMMA CallTyped ==
    ASSUME Shapes, TypeInv, NEW c \in Calls, ClientStep(c) \/ Leave(c)
                            \/ StreamWs(c) \/ StreamSse(c) \/ ExecutePost(c)
    PROVE  /\ CallTypes' /\ Connected' /\ UNCHANGED backend
           /\ wsAvailable' \in {"unknown", "yes", "no"}
<1>1. ASSUME NEW x, call' = [call EXCEPT ![c] = x], x.pc \in Pcs
      PROVE  CallTypes'
  BY <1>1 DEF Shapes, TypeInv, CallTypes
<1>2. DOMAIN call = Calls /\ CallShape(call[c]) /\ call[c].pc \in Pcs
  BY DEF Shapes, TypeInv, CallTypes
<1>3. UNCHANGED apiKey /\ (UNCHANGED call \/ call[c].pc # "new" \/ apiKey # NoRow)
  BY DEF ClientStep, Wake, Resume, GoesOn, FallsBack, Rethrows, OnOpen, OnMessage, OnError, OnClose,
     Received, Listening, Responds, YieldLine, ReadOn, BodyEnds, Answered, FetchThrows, ConnectFails,
     Reads, Leave, StreamWs, StreamSse, ExecutePost, MayStart, Fetch
<1>4. Connected'
  BY <1>3 DEF TypeInv, Connected
<1>5. wsAvailable' \in {"unknown", "yes", "no"} /\ UNCHANGED backend
  BY DEF TypeInv, ClientStep, Wake, Resume, GoesOn, FallsBack, Rethrows, OnOpen, OnMessage, OnError, OnClose,
     Received, Responds, YieldLine, ReadOn, BodyEnds, Answered, FetchThrows, ConnectFails,
     Reads, Leave, StreamWs, StreamSse, ExecutePost, Fetch, keyVars, Auth!Ask, Auth!store
<1>6. ASSUME NEW pc \in Pcs
      PROVE  Ended(pc).pc \in Pcs
  BY EndedShape
<1>7. UNCHANGED call => CallTypes'
  BY DEF TypeInv, CallTypes
<1>8. Yields(c).pc \in Pcs
  BY <1>2 DEF Yields, CallShape, Pcs
<1>9. CASE (Wake(c) \/ Resume(c)) /\ GoesOn(c)
  BY <1>1, <1>2, <1>4, <1>5, <1>8, <1>9 DEF GoesOn, CallShape, Pcs
<1>10. CASE FallsBack(c)
  BY <1>1, <1>4, <1>5, <1>10 DEF FallsBack, Idle, Pcs
<1>11. CASE Rethrows(c) \/ Leave(c) \/ FetchThrows(c)
  BY <1>1, <1>4, <1>5, <1>6, <1>11 DEF Rethrows, Leave, FetchThrows, Pcs
<1>12. CASE OnOpen(c) \/ ConnectFails(c)
  BY <1>4, <1>5, <1>7, <1>12 DEF OnOpen, ConnectFails
<1>13. CASE OnMessage(c) \/ OnError(c) \/ OnClose(c)
  <2>1. Wakes(c) \in Pcs
    BY <1>2 DEF Wakes, Pcs
  <2> QED  BY <1>1, <1>2, <1>4, <1>5, <1>13, <2>1 DEF OnMessage, OnError, OnClose, Received, CallShape
<1>14. CASE Responds(c)
  BY <1>1, <1>2, <1>4, <1>5, <1>6, <1>14 DEF Responds, CallShape, Pcs
<1>15. CASE YieldLine(c) \/ ReadOn(c)
  <2>1. ReadOn(c) => call' = [call EXCEPT ![c] = [call[c] EXCEPT !.pc = "reading"]]
    BY <1>2 DEF ReadOn
  <2> QED  BY <1>1, <1>2, <1>4, <1>5, <1>8, <1>15, <2>1 DEF YieldLine, CallShape, Pcs
<1>16. CASE BodyEnds(c) \/ Answered(c)
  BY <1>1, <1>2, <1>4, <1>5, <1>6, <1>16 DEF BodyEnds, Answered, CallShape, Pcs
<1>17. CASE \E n \in 1 .. 2 * (MaxEvents + 1) : Reads(c, n)
  <2>1. PICK n \in 1 .. 2 * (MaxEvents + 1) : Reads(c, n)
    BY <1>17
  <2>2. call'[c].pc = call[c].pc /\ \A d \in Calls : d # c => call'[d] = call[d]
    BY <1>2, <2>1 DEF Reads
  <2> QED  BY <1>4, <1>5, <2>2 DEF TypeInv, CallTypes
<1>18. CASE StreamWs(c) \/ StreamSse(c) \/ ExecutePost(c)
  <2>1. \E pc \in Pcs, via \in {"ws", "sse", "post"} :
           call' = [call EXCEPT ![c].pc = pc, ![c].via = via]
    BY <1>18 DEF StreamWs, StreamSse, ExecutePost, Pcs
  <2>2. PICK pc \in Pcs, via \in {"ws", "sse", "post"} :
           call' = [call EXCEPT ![c].pc = pc, ![c].via = via]
    BY <2>1
  <2>3. call'[c].pc = pc /\ \A d \in Calls : d # c => call'[d] = call[d]
    BY <1>2, <2>2 DEF CallShape
  <2> QED  BY <1>4, <1>5, <2>2, <2>3 DEF TypeInv, CallTypes
<1>19. GoesOn(c) \/ ~(Wake(c) \/ Resume(c))
  BY DEF Wake, Resume
<1> QED  BY <1>9, <1>10, <1>11, <1>12, <1>13, <1>14, <1>15, <1>16, <1>17, <1>18, <1>19 DEF ClientStep

\* What a step does to the connections and the executions.
LEMMA RequestsTyped ==
    ASSUME Shapes, TypeInv,
           \/ \E c \in Calls : \/ ClientStep(c) \/ Leave(c)
                              \/ StreamWs(c) \/ StreamSse(c) \/ ExecutePost(c)
           \/ \E r \in Requests : ServerStep(r) \/ Cut(r)
    PROVE  ConnTypes' /\ ServerTypes'
<1> DEFINE States == {"none", "connecting", "open", "closed"}
           Steps == {"idle", "requested", "executing", "stopping", "ended"}
<1>1. ASSUME NEW r \in Requests, NEW y, conn' = [conn EXCEPT ![r] = y], y.state \in States
      PROVE  ConnTypes'
  BY <1>1 DEF Shapes, TypeInv, ConnTypes
<1>2. ASSUME NEW r \in Requests, NEW state \in States,
             \/ conn' = [conn EXCEPT ![r].state = state]
             \/ \E frames : conn' = [conn EXCEPT ![r].state = state, ![r].frames = frames]
      PROVE  ConnTypes'
  <2>1. conn'[r].state = state /\ \A q \in Requests : q # r => conn'[q] = conn[q]
    BY <1>2 DEF Shapes
  <2> QED  BY <2>1 DEF TypeInv, ConnTypes
<1>3. ASSUME NEW r \in Requests, NEW frames, conn' = [conn EXCEPT ![r].frames = frames]
      PROVE  ConnTypes'
  <2>1. conn'[r].state = conn[r].state /\ \A q \in Requests : q # r => conn'[q] = conn[q]
    BY <1>3 DEF Shapes
  <2> QED  BY <2>1 DEF TypeInv, ConnTypes
<1>4. UNCHANGED conn => ConnTypes'
  BY DEF TypeInv, ConnTypes
<1>5. UNCHANGED server => ServerTypes'
  BY DEF TypeInv, ServerTypes
<1>6. ASSUME NEW r \in Requests, NEW pc \in Steps, server' = [server EXCEPT ![r].pc = pc]
      PROVE  ServerTypes'
  <2>1. server'[r].pc = pc /\ \A q \in Requests : q # r => server'[q] = server[q]
    BY <1>6 DEF Shapes
  <2> QED  BY <2>1 DEF TypeInv, ServerTypes
<1>7. ASSUME NEW c \in Calls, ClientStep(c) \/ Leave(c)
                              \/ StreamWs(c) \/ StreamSse(c) \/ ExecutePost(c)
      PROVE  ConnTypes' /\ ServerTypes'
  <2>1. UNCHANGED server \/ OnOpen(c)
    BY <1>7 DEF ClientStep, Wake, Resume, GoesOn, FallsBack, Rethrows, OnMessage, OnError, OnClose,
       Received, Responds, YieldLine, ReadOn, BodyEnds, Answered, FetchThrows, ConnectFails,
       Reads, Leave, StreamWs, StreamSse, ExecutePost, Fetch
  <2>2. OnOpen(c) => ConnTypes' /\ ServerTypes'
    BY <1>2, <1>6, Kinds DEF OnOpen
  <2>3. Wake(c) \/ Resume(c) \/ Responds(c) \/ YieldLine(c) \/ ReadOn(c) \/ BodyEnds(c)
        \/ Answered(c) \/ FetchThrows(c) => UNCHANGED conn
    BY DEF Wake, Resume, GoesOn, Responds, YieldLine, ReadOn, BodyEnds, Answered, FetchThrows
  <2>4. FallsBack(c) \/ StreamWs(c) \/ StreamSse(c) \/ ExecutePost(c) => ConnTypes'
    BY <1>2, Kinds DEF FallsBack, StreamWs, StreamSse, ExecutePost, Fetch
  <2>5. Rethrows(c) \/ OnMessage(c) \/ OnError(c) \/ OnClose(c) => ConnTypes'
    BY <1>3, Kinds DEF Rethrows, OnMessage, OnError, OnClose, Received
  <2>6. ASSUME NEW n \in 1 .. 2 * (MaxEvents + 1), Reads(c, n)
        PROVE  ConnTypes'
    BY <1>3, <2>6, Kinds DEF Reads
  <2>7. ConnectFails(c) => ConnTypes'
    <3>1. ConnectFails(c) => conn' = [conn EXCEPT ![Ws(c)].state = "closed",
                                                  ![Ws(c)].frames = <<"broken", "close">>]
      BY DEF ConnectFails
    <3>2. "closed" \in States /\ Ws(c) \in Requests
      BY Kinds
    <3> HIDE DEF States
    <3> QED  BY <1>2, <3>1, <3>2
  <2>8. Leave(c) => ConnTypes'
    <3>1. CASE UNCHANGED conn
      BY <1>4, <3>1
    <3>2. CASE conn' = [conn EXCEPT ![Ws(c)] = [@ EXCEPT !.state = "closed", !.frames = <<>>]]
      <4>1. conn'[Ws(c)].state = "closed" /\ \A q \in Requests : q # Ws(c) => conn'[q] = conn[q]
        BY <3>2, Kinds DEF Shapes
      <4> QED  BY <4>1 DEF TypeInv, ConnTypes
    <3> QED  BY <3>1, <3>2 DEF Leave
  <2> HIDE DEF States, Steps
  <2> QED  BY <1>4, <1>5, <1>7, <2>1, <2>2, <2>3, <2>4, <2>5, <2>6, <2>7, <2>8 DEF ClientStep
<1>8. ASSUME NEW r \in Requests, ServerStep(r) \/ Cut(r)
      PROVE  ConnTypes' /\ ServerTypes'
  <2>1. r = <<r[1], r[2]>>
    BY <1>8, Kinds
  <2>2. Validate(r) => UNCHANGED <<conn, server>>
    BY DEF Validate
  <2>3. Begin(r) \/ EnqueueThrows(r) => UNCHANGED conn /\ ServerTypes'
    BY <1>6 DEF Begin, EnqueueThrows
  <2>4. Finish(r) => ConnTypes' /\ ServerTypes'
    <3>1. ASSUME NEW frames, conn' = [conn EXCEPT ![r].state = "closed", ![r].frames = frames]
          PROVE  ConnTypes'
      BY <1>2, <3>1
    <3> QED  BY <1>4, <1>6, <3>1 DEF Finish
  <2>5. Accept(r[1], r[2]) => ConnTypes' /\ ServerTypes'
    BY <1>2, <1>6, <2>1 DEF Accept
  <2>6. ASSUME NEW e \in {"out", "exit 0", "exit 1", "error"}, Emit(r, e)
        PROVE  ConnTypes' /\ ServerTypes'
    <3>1. ServerTypes'
      <4>1. /\ server'[r].pc \in Steps
            /\ \A q \in Requests : q # r => server'[q] = server[q]
        BY <2>6 DEF Emit, Shapes
      <4> QED  BY <4>1 DEF TypeInv, ServerTypes
    <3>2. ConnTypes'
      BY <1>3, <1>4, <2>6 DEF Emit, Sends
    <3> QED  BY <3>1, <3>2
  <2>7. ASSUME Cut(r)
        PROVE  ConnTypes' /\ ServerTypes'
    <3>1. ConnTypes'
      <4>1. \E f : conn' = [conn EXCEPT ![r] = [state |-> "closed", cut |-> TRUE, frames |-> f]]
        BY <2>7 DEF Cut
      <4> QED  BY <1>1, <4>1
    <3>2. ServerTypes'
      BY <1>5, <1>6, <2>7 DEF Cut
    <3> QED  BY <3>1, <3>2
  <2> HIDE DEF States, Steps
  <2> QED  BY <1>4, <1>5, <1>8, <2>2, <2>3, <2>4, <2>5, <2>6, <2>7 DEF ServerStep
<1> QED  BY <1>7, <1>8

\* A request is asked for with the client's key, and keeps it.
LEMMA TokensTyped ==
    ASSUME TypeInv, KeyTypes, Next
    PROVE  Tokened' /\ UNCHANGED backend
<1>1. ASSUME UNCHANGED asked
      PROVE  Tokened'
  BY <1>1 DEF TypeInv, Tokened
<1>2. ASSUME NEW r \in Requests, Auth!Ask(r, apiKey), apiKey # NoRow
      PROVE  Tokened' /\ UNCHANGED backend
  <2>1. apiKey \in Auth!Tokens
    BY <1>2 DEF KeyTypes
  <2> QED  BY <1>2, <2>1 DEF TypeInv, Tokened, KeyTypes, Auth!Ask, Auth!store
<1>3. ASSUME NEW r \in Requests, Auth!Validates(r)
      PROVE  Tokened' /\ UNCHANGED backend
  <2>1. ASSUME NEW pc, NEW row, asked' = [asked EXCEPT ![r].pc = pc, ![r].row = row]
        PROVE  Tokened'
    BY <2>1 DEF TypeInv, Tokened, KeyTypes
  <2>2. UNCHANGED backend
    BY <1>3 DEF Auth!Validates, Auth!ValidateAtOnce, Auth!Select, Auth!Judge, Auth!Touch, Auth!store
  <2> QED  BY <1>3, <2>1, <2>2 DEF Auth!Validates, Auth!ValidateAtOnce, Auth!Select, Auth!Judge,
              Auth!Touch, Auth!Verdict
<1>4. ASSUME NEW c \in Calls, StreamWs(c) \/ StreamSse(c) \/ ExecutePost(c) \/ FallsBack(c)
      PROVE  Tokened' /\ UNCHANGED backend
  <2>1. apiKey # NoRow
    BY <1>4 DEF StreamWs, StreamSse, ExecutePost, MayStart, FallsBack, TypeInv, Connected
  <2> QED  BY <1>2, <1>4, <2>1, Kinds DEF StreamWs, StreamSse, ExecutePost, FallsBack, Fetch
<1>5. ASSUME NEW c \in Calls, ClientStep(c), ~FallsBack(c)
      PROVE  UNCHANGED <<asked, backend>>
  BY <1>5 DEF ClientStep, Wake, Resume, GoesOn, Rethrows, OnOpen, OnMessage, OnError, OnClose,
     Received, Responds, YieldLine, ReadOn, BodyEnds, Answered, FetchThrows, ConnectFails,
     Reads, keyVars
<1>6. ASSUME NEW r \in Requests, ServerStep(r)
      PROVE  Tokened' /\ UNCHANGED backend
  BY <1>1, <1>3, <1>6 DEF ServerStep, Validate, Begin, EnqueueThrows, Finish, Accept, Emit, clientVars, keyVars
<1>7. ASSUME NEW r \in Requests, Cut(r)
      PROVE  UNCHANGED <<asked, backend>>
  BY <1>7 DEF Cut, clientVars, keyVars
<1>8. ASSUME NEW c \in Calls, Leave(c)
      PROVE  UNCHANGED <<asked, backend>>
  BY <1>8 DEF Leave, keyVars
<1>9. ASSUME NEW k \in Keys, NEW ttl \in 0 .. MaxTime, Login(k, ttl)
      PROVE  UNCHANGED <<asked, backend>>
  BY <1>9 DEF Login, Auth!IssueKey, Auth!CreateKey
<1>10. Logout \/ Connect \/ Administer => UNCHANGED <<asked, backend>>
  BY DEF Logout, Connect, Administer, keyVars, Auth!Administers, Auth!Tick, Auth!CleanUp,
     Auth!Withdraw, Auth!RevokeKey
<1>11. \A c \in Calls, t \in {"ws", "sse", "post"} : <<c, t>> \in Requests
  BY DEF Requests
<1> QED  BY <1>1, <1>4, <1>5, <1>6, <1>7, <1>8, <1>9, <1>10, <1>11 DEF Next, CallStep

\* Every step keeps the types.
LEMMA TypesStep ==
    ASSUME Shapes, KeyTypes, TypeInv, [Next]_vars
    PROVE  TypeInv'
<1>1. CASE UNCHANGED vars
  BY <1>1 DEF vars, keyVars, TypeInv, CallTypes, ConnTypes, ServerTypes, Connected, Tokened
<1>2. CASE Next
  <2>1. Tokened' /\ UNCHANGED backend
    BY <1>2, TokensTyped
  <2>2. ASSUME UNCHANGED <<wsAvailable, call, conn, server>>, Connected'
        PROVE  TypeInv'
    BY <2>1, <2>2 DEF TypeInv, CallTypes, ConnTypes, ServerTypes
  <2>3. ASSUME NEW k \in Keys, NEW ttl \in 0 .. MaxTime, Login(k, ttl)
        PROVE  TypeInv'
    BY <2>2, <2>3 DEF Login, TypeInv, Connected
  <2>4. ASSUME Logout \/ Connect \/ Administer
        PROVE  TypeInv'
    <3>1. Connected'
      BY <2>4 DEF Logout, Connect, Administer, TypeInv, Connected
    <3> QED  BY <2>2, <2>4, <3>1 DEF Logout, Connect, Administer
  <2>5. ASSUME NEW c \in Calls, \/ ClientStep(c) \/ Leave(c)
                                \/ StreamWs(c) \/ StreamSse(c) \/ ExecutePost(c)
        PROVE  TypeInv'
    <3>1. CallTypes' /\ Connected' /\ wsAvailable' \in {"unknown", "yes", "no"}
      BY <2>5, CallTyped
    <3>2. ConnTypes' /\ ServerTypes'
      BY <2>5, RequestsTyped
    <3> QED  BY <2>1, <3>1, <3>2 DEF TypeInv
  <2>6. ASSUME NEW r \in Requests, ServerStep(r) \/ Cut(r)
        PROVE  TypeInv'
    <3>1. UNCHANGED <<wsAvailable, apiKey, call>>
      BY <2>6 DEF ServerStep, Validate, Begin, EnqueueThrows, Finish, Accept, Emit, Cut, clientVars
    <3>2. ConnTypes' /\ ServerTypes'
      BY <2>6, RequestsTyped
    <3> QED  BY <2>1, <3>1, <3>2 DEF TypeInv, CallTypes, Connected
  <2>7. \A c \in Calls, t \in {"ws", "sse", "post"} : <<c, t>> \in Requests
    BY DEF Requests
  <2> QED  BY <1>2, <2>3, <2>4, <2>5, <2>6, <2>7 DEF Next, CallStep
<1> QED  BY <1>1, <1>2

\* The variables have their types, and nothing is asked of the server without a
\* key, for any calls, keys and behaviour of the network.
THEOREM RemoteType == Spec => []TypeOK
<1>1. Init => TypeInv
  BY KeysAssumption DEF Init, Idle, TypeInv, CallTypes, ConnTypes, ServerTypes, Connected, Tokened,
     Pcs, Auth!KeysInit, Auth!Unasked, Auth!Tokens
<1>2. Spec => [](OnceInv /\ FairInv)
  BY OnceAlways, FairAlways, PTL
<1>3. OnceInv /\ FairInv => Shapes /\ KeyTypes
  BY DEF OnceInv, FairInv
<1>4. Spec => []TypeInv
  BY <1>1, <1>2, <1>3, TypesStep, PTL DEF Spec
<1>5. TypeInv /\ KeyTypes => TypeOK
  <2> SUFFICES ASSUME TypeInv, KeyTypes
               PROVE  TypeOK
    OBVIOUS
  <2>1. asked \in [Requests ->
                      [pc : {"new", "asking", "selected", "touching", "admitted", "refused"},
                       token : Auth!Tokens, row : Auth!Row \union {NoRow}, good : BOOLEAN]]
    BY DEF KeyTypes, TypeInv, Tokened
  <2> QED  BY <2>1 DEF KeyTypes, TypeInv, CallTypes, ConnTypes, ServerTypes, Pcs, TypeOK, Auth!KeysTypeOK
<1> QED  BY <1>2, <1>3, <1>4, <1>5, PTL

-----------------------------------------------------------------------------
\* What engines yield, and what is written of it: the two halves of a line.
Evs == {"out", "exit 0", "exit 1", "error"}
Parts == [event : Evs, last : BOOLEAN]

\* The parts of events.
Halves(events) == [i \in 1 .. 2 * Len(events) |-> Part(events[(i + 1) \div 2], i % 2 = 0)]

\* What moves from the front of a sequence to the end of the one before it.
LEMMA Shift ==
    ASSUME NEW S, NEW a \in Seq(S), NEW b \in Seq(S), b # <<>>
    PROVE  /\ Head(b) \in S /\ Tail(b) \in Seq(S)
           /\ Append(a, Head(b)) \in Seq(S)
           /\ Append(a, Head(b)) \o Tail(b) = a \o b
<1>1. Head(b) \in S /\ Tail(b) \in Seq(S) /\ Len(Tail(b)) = Len(b) - 1 /\ Len(b) \in Nat \ {0}
  BY HeadTailProperties, EmptySeq
<1>2. /\ Append(a, Head(b)) \in Seq(S) /\ Append(a, Head(b)) = a \o <<Head(b)>>
  BY <1>1, AppendProperties, AppendIsConcat
<1>3. <<Head(b)>> \o Tail(b) = b
  BY <1>1
<1>4. <<Head(b)>> \in Seq(S)
  BY <1>1
<1>5. (a \o <<Head(b)>>) \o Tail(b) = a \o (<<Head(b)>> \o Tail(b))
  BY <1>1, <1>4, ConcatAssociative
<1> QED  BY <1>1, <1>2, <1>3, <1>5

\* The parts of events, one by one and with another event.
LEMMA HalvesType ==
    ASSUME NEW E \in Seq(Evs)
    PROVE  /\ Halves(E) \in Seq(Parts) /\ Len(Halves(E)) = 2 * Len(E)
           /\ \A i \in 1 .. 2 * Len(E) : /\ Halves(E)[i] = Part(E[(i + 1) \div 2], i % 2 = 0)
                                         /\ Halves(E)[i].event = E[(i + 1) \div 2]
                                         /\ (i + 1) \div 2 \in 1 .. Len(E)
<1>1. Len(E) \in Nat
  OBVIOUS
<1>2. \A i \in 1 .. 2 * Len(E) : (i + 1) \div 2 \in 1 .. Len(E) /\ E[(i + 1) \div 2] \in Evs
  BY <1>1
<1>3. \A i \in 1 .. 2 * Len(E) : Part(E[(i + 1) \div 2], i % 2 = 0) \in Parts
  BY <1>2 DEF Part, Parts
<1>4. Halves(E) \in [1 .. 2 * Len(E) -> Parts]
  BY <1>3 DEF Halves
<1>5. Halves(E) \in Seq(Parts) /\ Len(Halves(E)) = 2 * Len(E)
  <2>1. 2 * Len(E) \in Nat
    BY <1>1
  <2> HIDE DEF Halves
  <2> QED  BY <1>4, <2>1
<1>6. \A i \in 1 .. 2 * Len(E) : Halves(E)[i] = Part(E[(i + 1) \div 2], i % 2 = 0)
  BY DEF Halves
<1>7. \A i \in 1 .. 2 * Len(E) : Halves(E)[i].event = E[(i + 1) \div 2]
  BY DEF Halves, Part
<1> QED  BY <1>2, <1>5, <1>6, <1>7

\* One more event is one more line, of two parts.
LEMMA HalvesAppend ==
    ASSUME NEW E \in Seq(Evs), NEW e \in Evs
    PROVE  Halves(Append(E, e)) = Halves(E) \o <<Part(e, FALSE), Part(e, TRUE)>>
<1> DEFINE H == Halves(E)
           t == <<Part(e, FALSE), Part(e, TRUE)>>
           F == Append(E, e)
<1>1. /\ H \in Seq(Parts) /\ Len(H) = 2 * Len(E) /\ Len(E) \in Nat
      /\ \A i \in 1 .. 2 * Len(E) : /\ H[i] = Part(E[(i + 1) \div 2], i % 2 = 0)
                                    /\ (i + 1) \div 2 \in 1 .. Len(E)
  BY HalvesType
<1>2. t \in Seq(Parts) /\ Len(t) = 2 /\ t[1] = Part(e, FALSE) /\ t[2] = Part(e, TRUE)
  BY DEF Part, Parts
<1>3. /\ F \in Seq(Evs) /\ Len(F) = Len(E) + 1 /\ F[Len(E) + 1] = e
      /\ \A i \in 1 .. Len(E) : F[i] = E[i]
  BY AppendProperties
<1> HIDE DEF H, t, F
<1>4. /\ Halves(F) \in Seq(Parts) /\ Len(Halves(F)) = 2 * Len(E) + 2
      /\ \A i \in 1 .. 2 * Len(E) + 2 : Halves(F)[i] = Part(F[(i + 1) \div 2], i % 2 = 0)
  <2>1. /\ Halves(F) \in Seq(Parts) /\ Len(Halves(F)) = 2 * Len(F)
        /\ \A i \in 1 .. 2 * Len(F) : Halves(F)[i] = Part(F[(i + 1) \div 2], i % 2 = 0)
    BY <1>3, HalvesType
  <2>2. 2 * Len(F) = 2 * Len(E) + 2
    BY <1>1, <1>3
  <2> HIDE DEF Halves
  <2> QED  BY <2>1, <2>2
<1>5. /\ H \o t \in Seq(Parts) /\ Len(H \o t) = 2 * Len(E) + 2
      /\ \A i \in 1 .. 2 * Len(E) + 2 :
            (H \o t)[i] = IF i <= 2 * Len(E) THEN H[i] ELSE t[i - 2 * Len(E)]
  <2>1. Len(H) + Len(t) = 2 * Len(E) + 2
    BY <1>1, <1>2
  <2>2. /\ H \o t \in Seq(Parts) /\ Len(H \o t) = Len(H) + Len(t)
        /\ \A i \in 1 .. Len(H) + Len(t) :
              (H \o t)[i] = IF i <= Len(H) THEN H[i] ELSE t[i - Len(H)]
    BY <1>1, <1>2, ConcatProperties
  <2> QED  BY <1>1, <2>1, <2>2
<1>6. ASSUME NEW i \in 1 .. 2 * Len(E) + 2
      PROVE  Halves(F)[i] = (H \o t)[i]
  <2>1. CASE i <= 2 * Len(E)
    BY <1>1, <1>3, <1>4, <1>5, <2>1
  <2>2. CASE i = 2 * Len(E) + 1
    <3>1. (i + 1) \div 2 = Len(E) + 1 /\ (i % 2 = 0) = FALSE
      BY <1>1, <2>2
    <3>2. i - 2 * Len(E) = 1 /\ ~(i <= 2 * Len(E))
      BY <1>1, <2>2
    <3>3. (H \o t)[i] = Part(e, FALSE)
      BY <1>2, <1>5, <3>2
    <3>4. Halves(F)[i] = Part(F[Len(E) + 1], FALSE)
      BY <1>4, <3>1
    <3> QED  BY <1>3, <3>3, <3>4
  <2>3. CASE i = 2 * Len(E) + 2
    <3>1. (i + 1) \div 2 = Len(E) + 1 /\ (i % 2 = 0) = TRUE
      BY <1>1, <2>3
    <3>2. i - 2 * Len(E) = 2 /\ ~(i <= 2 * Len(E))
      BY <1>1, <2>3
    <3>3. (H \o t)[i] = Part(e, TRUE)
      BY <1>2, <1>5, <3>2
    <3>4. Halves(F)[i] = Part(F[Len(E) + 1], TRUE)
      BY <1>4, <3>1
    <3> QED  BY <1>3, <3>3, <3>4
  <2>4. i \in Nat /\ i <= 2 * Len(E) + 2
    BY <1>1
  <2>5. i <= 2 * Len(E) \/ i = 2 * Len(E) + 1 \/ i = 2 * Len(E) + 2
    BY <1>1, <2>4
  <2> QED  BY <2>1, <2>2, <2>3, <2>5
<1>7. Halves(F) = H \o t
  <2>1. Len(Halves(F)) = Len(H \o t) /\ \A i \in 1 .. Len(Halves(F)) : Halves(F)[i] = (H \o t)[i]
    BY <1>4, <1>5, <1>6
  <2> HIDE DEF Halves
  <2> QED  BY <1>4, <1>5, <2>1, SeqEqual
<1> QED  BY <1>7 DEF H, t, F

\* Halves of numbers.
LEMMA Parity ==
    /\ \A q \in Nat : (2 * q) % 2 = 0 /\ (2 * q + 1) % 2 # 0 /\ (2 * q + 1) \div 2 = q
    /\ \A q, i \in Nat : /\ (2 * q + i + 1) \div 2 = q + (i + 1) \div 2
                         /\ (2 * q + i) % 2 = 0 <=> i % 2 = 0
    /\ \A k \in Nat : \A i \in 1 .. 2 * k : i \in Nat /\ (i + 1) \div 2 \in 1 .. k
  OBVIOUS

\* What a read takes has whole events, and what it leaves goes on after them.
Splits(P, Q, E) ==
    /\ Lines(P) \in Seq(Evs) /\ PopLines(P) \in Seq(Parts) /\ Q \in Seq(Parts)
    /\ \E D \in Seq(Evs) : PopLines(P) \o Q = Halves(D) /\ E = Lines(P) \o D

\* What a read leaves of the parts of events: its complete lines are the first
\* events, and what is left over is the beginning of the parts of the others.
LEMMA ReadSplits ==
    ASSUME NEW rest \in Seq(Parts), NEW B \in Seq(Parts), NEW E \in Seq(Evs),
           rest \o B = Halves(E), NEW n \in 1 .. Len(B)
    PROVE  Splits(rest \o SubSeq(B, 1, n), SubSeq(B, n + 1, Len(B)), E)
<1> DEFINE P == rest \o SubSeq(B, 1, n)
           Q == SubSeq(B, n + 1, Len(B))
           U == Halves(E)
           m == Len(rest) + n
           q == m \div 2
           D == SubSeq(E, q + 1, Len(E))
           R == PopLines(P) \o Q
<1>1. /\ Len(rest) \in Nat /\ Len(B) \in Nat /\ Len(E) \in Nat /\ n \in Nat
      /\ m \in Nat /\ q \in Nat
  OBVIOUS
<1>2. /\ U \in Seq(Parts) /\ Len(U) = 2 * Len(E)
      /\ \A i \in 1 .. 2 * Len(E) : /\ U[i] = Part(E[(i + 1) \div 2], i % 2 = 0)
                                    /\ U[i].event = E[(i + 1) \div 2]
                                    /\ (i + 1) \div 2 \in 1 .. Len(E)
  BY HalvesType
<1>3. /\ Len(rest) + Len(B) = 2 * Len(E)
      /\ \A i \in 1 .. Len(rest) : U[i] = rest[i]
      /\ \A i \in 1 .. Len(B) : U[Len(rest) + i] = B[i]
  <2>1. /\ Len(rest \o B) = Len(rest) + Len(B)
        /\ \A i \in 1 .. Len(rest) + Len(B) : (rest \o B)[i] =
                     IF i <= Len(rest) THEN rest[i] ELSE B[i - Len(rest)]
    BY ConcatProperties
  <2> HIDE DEF U
  <2>2. \A i \in 1 .. Len(B) : /\ Len(rest) + i \in 1 .. Len(rest) + Len(B)
                               /\ ~(Len(rest) + i <= Len(rest)) /\ (Len(rest) + i) - Len(rest) = i
    BY <1>1
  <2>3. U = rest \o B
    BY DEF U
  <2>4. Len(rest) + Len(B) = 2 * Len(E)
    BY <1>2, <2>1, <2>3
  <2>5. \A i \in 1 .. Len(rest) : i \in 1 .. Len(rest) + Len(B) /\ i <= Len(rest)
    BY <1>1
  <2> QED  BY <2>1, <2>2, <2>3, <2>4, <2>5
<1>4. /\ P \in Seq(Parts) /\ Len(P) = m /\ m <= 2 * Len(E)
      /\ \A i \in 1 .. m : P[i] = U[i]
  <2> DEFINE T == SubSeq(B, 1, n)
  <2>1. \A i \in 1 .. n : B[i] \in Parts
    BY <1>1
  <2>2. T \in Seq(Parts) /\ Len(T) = n /\ \A i \in 1 .. n : T[i] = B[i]
    BY <1>1, <2>1
  <2> HIDE DEF T, U
  <2>3. /\ rest \o T \in Seq(Parts) /\ Len(rest \o T) = Len(rest) + Len(T)
        /\ \A i \in 1 .. Len(rest) + Len(T) : (rest \o T)[i] =
                     IF i <= Len(rest) THEN rest[i] ELSE T[i - Len(rest)]
    BY <2>2, ConcatProperties
  <2>4. P = rest \o T
    BY DEF T
  <2>5. ASSUME NEW i \in 1 .. m
        PROVE  P[i] = U[i]
    <3>1. CASE i <= Len(rest)
      BY <1>1, <1>3, <2>2, <2>3, <2>4, <3>1
    <3>2. CASE ~(i <= Len(rest))
      <4>1. i - Len(rest) \in 1 .. n /\ i - Len(rest) \in 1 .. Len(B) /\ Len(rest) + (i - Len(rest)) = i
        BY <1>1, <3>2
      <4>2. U[i] = B[i - Len(rest)]
        BY <1>3, <4>1
      <4>3. P[i] = T[i - Len(rest)]
        BY <1>1, <2>2, <2>3, <2>4, <3>2
      <4> QED  BY <2>2, <4>1, <4>2, <4>3
    <3> QED  BY <3>1, <3>2
  <2> QED  BY <1>1, <1>3, <2>2, <2>3, <2>4, <2>5
<1>5. /\ Q \in Seq(Parts) /\ Len(Q) = 2 * Len(E) - m
      /\ \A i \in 1 .. 2 * Len(E) - m : Q[i] = U[m + i]
  <2> HIDE DEF U
  <2>1. \A i \in n + 1 .. Len(B) : B[i] \in Parts
    BY <1>1
  <2>2. /\ Q \in Seq(Parts) /\ Len(Q) = Len(B) - n
        /\ \A i \in 1 .. Len(B) - n : Q[i] = B[n + i]
    BY <1>1, <2>1
  <2>3. Len(B) - n = 2 * Len(E) - m
    BY <1>1, <1>3
  <2>4. ASSUME NEW i \in 1 .. Len(B) - n
        PROVE  Q[i] = U[m + i]
    <3>1. n + i \in 1 .. Len(B) /\ Len(rest) + (n + i) = m + i
      BY <1>1
    <3> QED  BY <1>3, <2>2, <3>1
  <2> QED  BY <2>2, <2>3, <2>4
<1>6. /\ 2 * q <= m /\ m <= 2 * q + 1 /\ q <= Len(E)
      /\ m = 2 * q \/ m = 2 * q + 1
  <2>1. \A k \in Nat : /\ 2 * (k \div 2) <= k /\ k <= 2 * (k \div 2) + 1
                       /\ k = 2 * (k \div 2) \/ k = 2 * (k \div 2) + 1
    OBVIOUS
  <2>2. /\ 2 * q <= m /\ m <= 2 * q + 1
        /\ m = 2 * q \/ m = 2 * q + 1
    BY <1>1, <2>1
  <2> HIDE DEF m, q
  <2> QED  BY <1>1, <1>4, <2>2
<1> HIDE DEF P, Q, U, m, q
<1>7. /\ Lines(P) \in Seq(Evs) /\ Len(Lines(P)) = q
      /\ \A i \in 1 .. q : Lines(P)[i] = E[i]
  <2>1. Lines(P) = [i \in 1 .. q |-> P[2 * i].event]
    BY <1>4 DEF Lines, q
  <2>2. ASSUME NEW i \in 1 .. q
        PROVE  P[2 * i].event = E[i] /\ E[i] \in Evs
    <3>1. /\ 2 * i \in 1 .. m /\ 2 * i \in 1 .. 2 * Len(E) /\ (2 * i + 1) \div 2 = i
          /\ i \in 1 .. Len(E)
      BY <1>1, <1>4, <1>6, Parity
    <3>3. E[i] \in Evs
      BY <3>1, ElementOfSeq
    <3>4. P[2 * i].event = E[i]
      BY <1>2, <1>4, <3>1
    <3> QED  BY <3>3, <3>4
  <2>3. Lines(P) \in [1 .. q -> Evs]
    BY <2>1, <2>2
  <2>4. \A i \in 1 .. q : Lines(P)[i] = E[i]
    BY <2>1, <2>2
  <2> HIDE DEF Lines
  <2>5. Lines(P) \in Seq(Evs) /\ Len(Lines(P)) = q
    BY <1>1, <2>3
  <2> QED  BY <2>4, <2>5
<1>8. /\ D \in Seq(Evs) /\ Len(D) = Len(E) - q
      /\ \A i \in 1 .. Len(E) - q : D[i] = E[q + i]
  <2>1. \A i \in q + 1 .. Len(E) : E[i] \in Evs
    BY <1>1
  <2>2. /\ D \in Seq(Evs)
        /\ Len(D) = IF q + 1 <= Len(E) THEN Len(E) - (q + 1) + 1 ELSE 0
        /\ \A i \in 1 .. Len(E) - (q + 1) + 1 : D[i] = E[(q + 1) + i - 1]
    BY <1>1, <2>1, SubSeqProperties
  <2> HIDE DEF D
  <2>3. /\ Len(E) - (q + 1) + 1 = Len(E) - q
        /\ \A i \in 1 .. Len(E) - q : (q + 1) + i - 1 = q + i
    BY <1>1
  <2>4. q \in Nat /\ Len(E) \in Nat /\ q <= Len(E)
    BY <1>1, <1>6
  <2>5. Len(D) = Len(E) - q
    BY <2>2, <2>4
  <2> QED  BY <2>2, <2>3, <2>5
<1>9. E = Lines(P) \o D
  <2> HIDE DEF D
  <2>1. /\ Lines(P) \o D \in Seq(Evs) /\ Len(Lines(P) \o D) = q + (Len(E) - q)
        /\ \A i \in 1 .. q + (Len(E) - q) : (Lines(P) \o D)[i] =
                     IF i <= q THEN Lines(P)[i] ELSE D[i - q]
    <3>1. /\ Lines(P) \o D \in Seq(Evs) /\ Len(Lines(P) \o D) = Len(Lines(P)) + Len(D)
          /\ \A i \in 1 .. Len(Lines(P)) + Len(D) : (Lines(P) \o D)[i] =
                     IF i <= Len(Lines(P)) THEN Lines(P)[i] ELSE D[i - Len(Lines(P))]
      <4>1. Lines(P) \in Seq(Evs) /\ D \in Seq(Evs)
        BY <1>7, <1>8
      <4> QED  BY <4>1, ConcatProperties
    <3> HIDE DEF Lines
    <3> QED  BY <1>7, <1>8, <3>1
  <2>2. q + (Len(E) - q) = Len(E)
    BY <1>1
  <2>3. ASSUME NEW i \in 1 .. Len(E)
        PROVE  E[i] = (Lines(P) \o D)[i]
    <3>1. CASE i <= q
      BY <1>1, <1>7, <2>1, <2>2, <3>1
    <3>2. CASE ~(i <= q)
      <4>1. i - q \in 1 .. Len(E) - q /\ q + (i - q) = i
        BY <1>1, <3>2
      <4>2. (Lines(P) \o D)[i] = D[i - q]
        BY <2>1, <2>2, <3>2
      <4> QED  BY <1>8, <4>1, <4>2
    <3> QED  BY <3>1, <3>2
  <2> QED  BY <2>1, <2>2, <2>3, SeqEqual
<1>10. /\ PopLines(P) \in Seq(Parts) /\ R \in Seq(Parts) /\ Len(R) = 2 * Len(E) - 2 * q
       /\ \A i \in 1 .. 2 * Len(E) - 2 * q : R[i] = U[2 * q + i]
  <2>1. ASSUME m = 2 * q
        PROVE  PopLines(P) = <<>>
    <3>1. ASSUME P # <<>>
          PROVE  Last(P).last
      <4>1. m \in 1 .. 2 * Len(E) /\ m \in 1 .. m /\ (m % 2 = 0) = TRUE
        BY <1>1, <1>4, <2>1, <3>1, Parity, EmptySeq
      <4>2. P[m] = Part(E[(m + 1) \div 2], TRUE)
        BY <1>2, <1>4, <4>1
      <4> QED  BY <1>4, <4>2 DEF Last, Part
    <3> QED  BY <3>1 DEF PopLines
  <2>2. ASSUME m = 2 * q + 1
        PROVE  PopLines(P) = <<U[m]>> /\ U[m] \in Parts
    <3>1. m \in 1 .. 2 * Len(E) /\ m \in 1 .. m /\ (m % 2 = 0) = FALSE
      BY <1>1, <1>4, <2>2, Parity
    <3>2. P[m] = Part(E[(m + 1) \div 2], FALSE) /\ P[m] = U[m]
      BY <1>2, <1>4, <3>1
    <3>3. P # <<>>
      <4>1. Len(P) # 0
        BY <1>1, <1>4, <2>2
      <4> QED  BY <4>1, EmptySeq
    <3>4. Last(P) = U[m] /\ ~Last(P).last
      BY <1>4, <3>2 DEF Last, Part
    <3>5. U[m] \in Parts
      BY <1>2, <3>1 DEF U
    <3> QED  BY <3>3, <3>4, <3>5 DEF PopLines
  <2>3. CASE m = 2 * q
    <3>1. R = Q /\ <<>> \in Seq(Parts)
      BY <1>5, <2>1, <2>3, ConcatEmptySeq, EmptySeq
    <3> HIDE DEF R, m
    <3> QED  BY <1>5, <2>1, <2>3, <3>1
  <2>4. CASE m = 2 * q + 1
    <3> DEFINE L == <<U[m]>>
    <3>1. PopLines(P) = L /\ L \in Seq(Parts) /\ Len(L) = 1 /\ L[1] = U[m]
      BY <2>2, <2>4
    <3> HIDE DEF L, m
    <3>2. /\ L \o Q \in Seq(Parts) /\ Len(L \o Q) = Len(L) + Len(Q)
          /\ \A i \in 1 .. Len(L) + Len(Q) : (L \o Q)[i] =
                     IF i <= Len(L) THEN L[i] ELSE Q[i - Len(L)]
      <4>1. L \in Seq(Parts) /\ Q \in Seq(Parts)
        BY <1>5, <3>1
      <4> QED  BY <4>1, ConcatProperties
    <3>3. Len(L) + Len(Q) = 2 * Len(E) - 2 * q /\ R = L \o Q
      <4>1. R = L \o Q
        BY <3>1
      <4> HIDE DEF R
      <4>2. Len(L) = 1 /\ Len(Q) = 2 * Len(E) - m
        BY <1>5, <3>1
      <4>3. 1 + (2 * Len(E) - m) = 2 * Len(E) - 2 * q
        BY <1>1, <2>4
      <4> QED  BY <4>1, <4>2, <4>3
    <3> HIDE DEF R
    <3>4. ASSUME NEW i \in 1 .. 2 * Len(E) - 2 * q
          PROVE  R[i] = U[2 * q + i]
      <4>1. CASE i = 1
        <5>1. i <= Len(L) /\ i \in 1 .. Len(L) + Len(Q) /\ 2 * q + i = m
          BY <1>1, <2>4, <3>1, <3>3, <4>1
        <5>2. (L \o Q)[i] = L[i]
          BY <3>2, <5>1
        <5> QED  BY <3>1, <3>3, <4>1, <5>1, <5>2
      <4>2. CASE i # 1
        <5>1. i - 1 \in 1 .. 2 * Len(E) - m /\ m + (i - 1) = 2 * q + i /\ ~(i <= 1)
          BY <1>1, <2>4, <4>2
        <5>2. R[i] = Q[i - 1]
          BY <3>1, <3>2, <3>3, <5>1
        <5> QED  BY <1>5, <5>1, <5>2
      <4> QED  BY <4>1, <4>2
    <3> QED  BY <3>1, <3>2, <3>3, <3>4
  <2> QED  BY <1>6, <2>3, <2>4
<1>11. R = Halves(D)
  <2> HIDE DEF R, D
  <2>1. /\ Halves(D) \in Seq(Parts) /\ Len(Halves(D)) = 2 * Len(D)
        /\ \A i \in 1 .. 2 * Len(D) : /\ Halves(D)[i] = Part(D[(i + 1) \div 2], i % 2 = 0)
                                      /\ (i + 1) \div 2 \in 1 .. Len(D)
    BY <1>8, HalvesType
  <2>2. 2 * Len(D) = 2 * Len(E) - 2 * q
    BY <1>1, <1>8
  <2>3. ASSUME NEW i \in 1 .. 2 * Len(D)
        PROVE  R[i] = Halves(D)[i]
    <3>1. /\ (i + 1) \div 2 \in 1 .. Len(E) - q
          /\ 2 * q + i \in 1 .. 2 * Len(E)
          /\ (2 * q + i + 1) \div 2 = q + (i + 1) \div 2
          /\ ((2 * q + i) % 2 = 0) = (i % 2 = 0)
      BY <1>1, <1>6, <1>8, <2>1, Parity
    <3>2. U[2 * q + i] = Part(E[(2 * q + i + 1) \div 2], (2 * q + i) % 2 = 0)
      BY <1>2, <3>1
    <3>3. E[q + (i + 1) \div 2] = D[(i + 1) \div 2]
      BY <1>8, <3>1
    <3>4. R[i] = U[2 * q + i]
      BY <1>10, <2>2
    <3>5. U[2 * q + i] = Part(D[(i + 1) \div 2], i % 2 = 0)
      BY <3>1, <3>2, <3>3
    <3> QED  BY <2>1, <3>4, <3>5
  <2> HIDE DEF Halves
  <2>4. Len(R) = Len(Halves(D)) /\ \A i \in 1 .. Len(R) : R[i] = Halves(D)[i]
    BY <1>10, <2>1, <2>2, <2>3
  <2> QED  BY <1>10, <2>1, <2>4, SeqEqual
<1> QED  BY <1>5, <1>7, <1>8, <1>9, <1>10, <1>11 DEF Splits, P, Q

-----------------------------------------------------------------------------
\* What is put into a stream that is no event, the three kinds of connections,
\* and the chunk that ends a body.
Marks == {"broken", "close"}
Kind == {"ws", "sse", "post"}
End == Part("end", TRUE)

\* What is known of a request and its execution.
Talk(k, s) ==
    /\ {"state", "frames", "cut"} \subseteq DOMAIN k
    /\ {"pc", "sent"} \subseteq DOMAIN s
    /\ s.sent \in Seq(Evs)
    /\ k.state \in {"none", "connecting"} => k.frames = <<>> /\ ~k.cut /\ s.pc = "idle"
    /\ s.pc \in {"idle", "requested"} => s.sent = <<>>
    /\ s.pc \in {"stopping", "ended"} /\ ~k.cut => s.sent # <<>> /\ Last(s.sent) # "out"

\* Where a generator is, by the connection that it reads.
Path(x) == /\ {"pc", "via", "queue", "rest", "done", "wsError", "got"} \subseteq DOMAIN x
           /\ x.via \in {"none"} \union Kind
           /\ x.pc \in {"new", "threw", "left"} <=> x.via = "none"
           /\ x.pc = "new" => x = Idle
           /\ x.pc = "reading" => x.via = "sse"
           /\ x.pc \in {"waiting", "woken"} => x.via = "ws"
           /\ x.pc = "fetching" => x.via # "ws"

\* It has given its reader nothing, and has nothing for it.
Nothing(x) == x.got = <<>> /\ x.queue = <<>>

\* What was sent is what the reader got, what is queued and the events F.
Carries(x, s, F) == F \in Seq(Evs) /\ s.sent = (x.got \o x.queue) \o F

\* The handler of a request has it in hand.
Open == {"requested", "executing", "stopping"}

\* A WebSocket that was not cut is asked for, was refused, is open, has a close
\* on its way, or is over.
WsAsks(x, k) == /\ k.state = "connecting"
                /\ x.pc = "waiting" /\ ~x.done /\ ~x.wsError /\ Nothing(x)

\* The upgrade failed: onerror and onclose are called, in this order.
WsRefused(x, k) == /\ k.state = "closed" /\ Nothing(x)
                   /\ \/ x.pc = "waiting" /\ ~x.done /\ ~x.wsError /\ k.frames = <<"broken", "close">>
                      \/ x.pc = "woken" /\ x.wsError

\* The callbacks of a WebSocket have nothing to tell of an error.
WsListens(x) == /\ ~x.wsError /\ x.got \in Seq(Evs) /\ x.queue \in Seq(Evs)
                /\ x.pc \in {"waiting", "woken", "yielded"}

WsOpen(x, k, s) == /\ k.state = "open" /\ s.pc \in Open
                   /\ WsListens(x) /\ ~x.done /\ Carries(x, s, k.frames)

WsCloses(x, k, s) == /\ k.state = "closed" /\ s.pc = "ended"
                     /\ WsListens(x) /\ ~x.done
                     /\ \E F : k.frames = Append(F, "close") /\ Carries(x, s, F)

WsOver(x, k, s) == /\ k.state = "closed" /\ s.pc = "ended" /\ k.frames = <<>>
                   /\ WsListens(x) \/ (x.pc = "returned" /\ x.queue = <<>> /\ x.got \in Seq(Evs))
                   /\ x.done /\ ~x.wsError /\ Carries(x, s, <<>>)

WsFlow(x, k, s) == x.via = "ws" /\ ~k.cut =>
    \/ WsAsks(x, k) \/ WsRefused(x, k)
    \/ WsOpen(x, k, s) \/ WsCloses(x, k, s) \/ WsOver(x, k, s)

\* Nothing comes through a WebSocket before an execution, cut or not.
NoSent(x, k, s) == x.via = "ws" /\ s.sent = <<>> => Nothing(x) /\ k.frames \in Seq(Marks)

\* The same for a body, of which the reader may have half an event.
Holds(x, s, B) == /\ B \in Seq(Parts)
                  /\ \E E \in Seq(Evs) : x.rest \o B = Halves(E) /\ Carries(x, s, E)

\* The generator of a body is asked for its next event, or has yielded one.
SseReads(x) == /\ x.got \in Seq(Evs) /\ x.queue \in Seq(Evs) /\ x.rest \in Seq(Parts)
               /\ x.pc \in {"fetching", "reading", "yielded"}
               /\ x.pc = "fetching" => Nothing(x) /\ x.rest = <<>>

SseAsks(x, k) == k.state = "connecting" /\ x.pc = "fetching" /\ Nothing(x) /\ x.rest = <<>>

SseOpen(x, k, s) == k.state = "open" /\ s.pc \in Open /\ SseReads(x) /\ Holds(x, s, k.frames)

SseEnds(x, k, s) == /\ k.state = "closed" /\ s.pc = "ended"
                    /\ SseReads(x) /\ \E B : k.frames = Append(B, End) /\ Holds(x, s, B)

SseOver(x, k, s) == s.pc = "ended" /\ x.pc = "returned" /\ s.sent = x.got

SseFlow(x, k, s) == x.via = "sse" /\ ~k.cut =>
    SseAsks(x, k) \/ SseOpen(x, k, s) \/ SseEnds(x, k, s) \/ SseOver(x, k, s)

\* The answer of execute() is the last event.
PostAsks(x, k, s) == /\ x.pc = "fetching"
                     /\ \/ k.state = "connecting"
                        \/ /\ k.state = "open" /\ s.pc \in {"requested", "executing"}
                           /\ k.frames = <<>>

PostAnswers(x, k, s) == /\ k.state = "open" /\ s.pc \in {"stopping", "ended"}
                        /\ k.frames = <<Last(s.sent)>>
                        /\ \/ x.pc = "fetching"
                           \/ x.pc = "returned" /\ x.got = <<Last(s.sent)>>

PostFlow(x, k, s) == x.via = "post" /\ ~k.cut => PostAsks(x, k, s) \/ PostAnswers(x, k, s)

\* What flows through the connection of one kind.
Flow(t, x, k, s) == /\ t = "ws" => WsFlow(x, k, s) /\ NoSent(x, k, s)
                    /\ t = "sse" => SseFlow(x, k, s)
                    /\ t = "post" => PostFlow(x, k, s)

\* The inductive invariant of what flows through the connections.
FlowInv == /\ \A c \in Calls : Path(call[c])
           /\ \A c \in Calls, t \in Kind :
                 /\ Talk(conn[<<c, t>>], server[<<c, t>>])
                 /\ Flow(t, call[c], conn[<<c, t>>], server[<<c, t>>])

LEMMA Elsewhere ==
    ASSUME NEW t \in Kind, NEW x, x.via # t, NEW k, NEW s
    PROVE  Flow(t, x, k, s)
  BY DEF Flow, WsFlow, NoSent, SseFlow, PostFlow

\* A step of a call and of one of its requests.
LEMMA FlowsTo ==
    ASSUME Shapes, FlowInv, NEW c \in Calls, NEW t \in Kind, NEW x, NEW k, NEW s,
           \/ UNCHANGED call /\ x = call[c]
           \/ call' = [call EXCEPT ![c] = x] /\ x.via \in {t, "none"},
           \/ UNCHANGED conn /\ k = conn[<<c, t>>]
           \/ conn' = [conn EXCEPT ![<<c, t>>] = k],
           \/ UNCHANGED server /\ s = server[<<c, t>>]
           \/ server' = [server EXCEPT ![<<c, t>>] = s],
           Path(x), Talk(k, s), Flow(t, x, k, s)
    PROVE  FlowInv'
<1>1. <<c, t>> \in Requests /\ \A d \in Calls, u \in Kind : <<d, u>> \in Requests
  BY DEF Requests, Kind
<1>2. /\ call'[c] = x /\ \A d \in Calls : d # c => call'[d] = call[d]
      /\ conn'[<<c, t>>] = k /\ \A r \in Requests : r # <<c, t>> => conn'[r] = conn[r]
      /\ server'[<<c, t>>] = s /\ \A r \in Requests : r # <<c, t>> => server'[r] = server[r]
  BY <1>1 DEF Shapes
<1>3. ASSUME NEW d \in Calls
      PROVE  Path(call'[d])
  BY <1>2 DEF FlowInv
<1>4. ASSUME NEW d \in Calls, NEW u \in Kind
      PROVE  /\ Talk(conn'[<<d, u>>], server'[<<d, u>>])
             /\ Flow(u, call'[d], conn'[<<d, u>>], server'[<<d, u>>])
  <2>1. CASE d = c /\ u = t
    BY <1>2, <2>1
  <2>2. CASE d # c
    <3>1. <<d, u>> # <<c, t>>
      BY <2>2
    <3> QED  BY <1>1, <1>2, <2>2, <3>1 DEF FlowInv
  <2>3. CASE d = c /\ u # t
    <3>1. <<d, u>> # <<c, t>> /\ <<d, u>> \in Requests
      BY <1>1, <2>3
    <3>2. conn'[<<d, u>>] = conn[<<d, u>>] /\ server'[<<d, u>>] = server[<<d, u>>]
      BY <1>2, <3>1
    <3>3. CASE x = call[c]
      BY <1>2, <2>3, <3>2, <3>3 DEF FlowInv
    <3>4. CASE x.via \in {t, "none"}
      <4>1. x.via # u
        BY <2>3, <3>4 DEF Kind
      <4>2. Flow(u, x, conn'[<<d, u>>], server'[<<d, u>>])
        BY <4>1, Elsewhere
      <4> QED  BY <1>2, <2>3, <3>2, <4>2 DEF FlowInv
    <3> QED  BY <3>3, <3>4
  <2> QED  BY <2>1, <2>2, <2>3
<1> QED  BY <1>3, <1>4 DEF FlowInv

-----------------------------------------------------------------------------
\* A frame with a close behind it.
LEMMA Closing ==
    ASSUME NEW F \in Seq(Evs), NEW f, f = Append(F, "close")
    PROVE  /\ f # <<>>
           /\ F = <<>> => Head(f) = "close" /\ Tail(f) = <<>>
           /\ F # <<>> => /\ Head(f) = Head(F) /\ Head(F) \in Evs
                         /\ Tail(f) = Append(Tail(F), "close") /\ Tail(F) \in Seq(Evs)
<1>1. F # <<>> => Head(F) \in Evs /\ Tail(F) \in Seq(Evs)
  BY HeadTailProperties
<1>2. /\ Head(f) = IF F = <<>> THEN "close" ELSE Head(F)
      /\ Tail(f) = IF F = <<>> THEN <<>> ELSE Append(Tail(F), "close")
  BY HeadTailAppend
<1>3. f # <<>>
  OBVIOUS
<1> QED  BY <1>1, <1>2, <1>3

\* What is queued, what is under way and another event.
LEMMA Associates ==
    /\ \A p, q, r \in Seq(Evs) : (p \o q) \o r = p \o (q \o r)
    /\ \A p, q, r \in Seq(Parts) : (p \o q) \o r = p \o (q \o r)
<1>1. ASSUME NEW p \in Seq(Evs), NEW q \in Seq(Evs), NEW r \in Seq(Evs)
      PROVE  (p \o q) \o r = p \o (q \o r)
  BY ConcatAssociative
<1>2. ASSUME NEW p \in Seq(Parts), NEW q \in Seq(Parts), NEW r \in Seq(Parts)
      PROVE  (p \o q) \o r = p \o (q \o r)
  BY ConcatAssociative
<1> QED  BY <1>1, <1>2

\* An event moves from one sequence of events to another.
LEMMA ShiftEvent ==
    \A a, b \in Seq(Evs) : b # <<>> =>
        /\ Tail(b) \in Seq(Evs) /\ Append(a, Head(b)) \in Seq(Evs)
        /\ Append(a, Head(b)) \o Tail(b) = a \o b
<1> SUFFICES ASSUME NEW a \in Seq(Evs), NEW b \in Seq(Evs), b # <<>>
             PROVE  /\ Tail(b) \in Seq(Evs) /\ Append(a, Head(b)) \in Seq(Evs)
                    /\ Append(a, Head(b)) \o Tail(b) = a \o b
  OBVIOUS
<1> QED  BY Shift

\* An event moves from what is under way to the queue, and on to the reader.
LEMMA Queues ==
    ASSUME NEW x, NEW s, NEW F, Carries(x, s, F), F # <<>>,
           x.got \in Seq(Evs), x.queue \in Seq(Evs),
           NEW y, y.got = x.got, y.queue = Append(x.queue, Head(F))
    PROVE  Carries(y, s, Tail(F)) /\ y.queue \in Seq(Evs)
<1> DEFINE a == x.got \o x.queue
<1>1. F \in Seq(Evs) /\ a \in Seq(Evs) /\ s.sent = a \o F
  BY ConcatProperties DEF Carries
<1>2. /\ Head(F) \in Evs /\ Tail(F) \in Seq(Evs)
      /\ Append(x.queue, Head(F)) \in Seq(Evs)
      /\ Append(a, Head(F)) \o Tail(F) = a \o F
  <2> HIDE DEF a
  <2> QED  BY <1>1, Shift
<1>3. x.got \o Append(x.queue, Head(F)) = Append(a, Head(F))
  <2> DEFINE e == <<Head(F)>>
  <2>1. e \in Seq(Evs)
    BY <1>2
  <2>2. Append(x.queue, Head(F)) = x.queue \o e /\ Append(a, Head(F)) = a \o e
    BY <1>1, <1>2, AppendIsConcat
  <2> HIDE DEF e
  <2>3. (x.got \o x.queue) \o e = x.got \o (x.queue \o e)
    BY <2>1, Associates
  <2> QED  BY <2>2, <2>3
<1> HIDE DEF a
<1> QED  BY <1>1, <1>2, <1>3 DEF Carries

\* The generator yields the front of its queue.
LEMMA GetsOne ==
    ASSUME NEW x, NEW s, NEW F, Carries(x, s, F), x.queue # <<>>,
           x.got \in Seq(Evs), x.queue \in Seq(Evs),
           NEW y, y.got = Append(x.got, Head(x.queue)), y.queue = Tail(x.queue)
    PROVE  Carries(y, s, F) /\ y.queue \in Seq(Evs) /\ y.got \in Seq(Evs)
<1>1. /\ Tail(x.queue) \in Seq(Evs)
      /\ Append(x.got, Head(x.queue)) \in Seq(Evs)
      /\ Append(x.got, Head(x.queue)) \o Tail(x.queue) = x.got \o x.queue
  BY ShiftEvent
<1> QED  BY <1>1 DEF Carries

\* What a callback of a WebSocket makes of its generator x with a frame.
Takes(x, frame, y) ==
    LET pc == IF x.pc = "waiting" THEN "woken" ELSE x.pc
    IN  \/ frame \notin Marks /\ y = [x EXCEPT !.queue = Append(@, frame), !.pc = pc]
        \/ /\ frame = "broken"
           /\ y = IF x.done THEN x ELSE [x EXCEPT !.wsError = TRUE, !.done = TRUE, !.pc = pc]
        \/ frame = "close" /\ y = [x EXCEPT !.done = TRUE, !.pc = pc]

\* A callback of a WebSocket takes a frame.
LEMMA WsReceives ==
    ASSUME NEW x, NEW k, NEW s, Path(x), Talk(k, s), Flow("ws", x, k, s),
           x.via = "ws", x.pc \in {"waiting", "yielded"}, k.frames # <<>>,
           NEW l, l = [k EXCEPT !.frames = Tail(@)],
           NEW y, Takes(x, Head(k.frames), y)
    PROVE  Path(y) /\ y.via = "ws" /\ Talk(l, s) /\ Flow("ws", y, l, s)
<1> DEFINE pc == IF x.pc = "waiting" THEN "woken" ELSE x.pc
<1> USE DEF Takes
<1>1. /\ {"state", "frames", "cut"} \subseteq DOMAIN l
      /\ l.state = k.state /\ l.cut = k.cut /\ l.frames = Tail(k.frames)
  BY DEF Talk
<1>2. Talk(l, s)
  BY <1>1 DEF Talk
<1>3. pc \in {"woken", "yielded"}
  OBVIOUS
<1>4. /\ {"pc", "via", "queue", "rest", "done", "wsError", "got"} \subseteq DOMAIN y
      /\ y.via = "ws" /\ y.got = x.got /\ y.pc \in {x.pc, pc}
  BY DEF Path
<1>5. Path(y)
  BY <1>3, <1>4 DEF Path
<1>6. NoSent(y, l, s)
  <2> SUFFICES ASSUME s.sent = <<>>
               PROVE  Nothing(y) /\ l.frames \in Seq(Marks)
    BY DEF NoSent
  <2>1. Nothing(x) /\ k.frames \in Seq(Marks)
    BY DEF Flow, NoSent
  <2>2. Head(k.frames) \in Marks /\ Tail(k.frames) \in Seq(Marks)
    BY <2>1, HeadTailProperties
  <2>3. y.queue = x.queue
    BY <2>2 DEF Path, Marks
  <2> QED  BY <1>1, <1>4, <2>1, <2>2, <2>3 DEF Nothing
<1>7. WsFlow(y, l, s)
  <2> SUFFICES ASSUME ~k.cut
               PROVE  \/ WsRefused(y, l)
                      \/ WsOpen(y, l, s) \/ WsCloses(y, l, s) \/ WsOver(y, l, s)
    BY <1>1 DEF WsFlow
  <2>1. \/ WsAsks(x, k) \/ WsRefused(x, k)
        \/ WsOpen(x, k, s) \/ WsCloses(x, k, s) \/ WsOver(x, k, s)
    BY DEF Flow, WsFlow
  <2>2. ASSUME WsRefused(x, k)
        PROVE  WsRefused(y, l)
    <3>1. x.pc = "waiting" /\ ~x.done /\ Head(k.frames) = "broken"
      BY <2>2 DEF WsRefused
    <3>2. y.wsError /\ y.pc = "woken" /\ y.queue = x.queue
      BY <3>1 DEF Path, Marks
    <3> QED  BY <1>1, <1>4, <2>2, <3>2 DEF WsRefused, Nothing
  <2>3. ASSUME NEW F, Carries(x, s, F), F # <<>>, WsListens(x), Head(k.frames) = Head(F)
        PROVE  /\ Carries(y, s, Tail(F)) /\ WsListens(y) /\ y.done = x.done
    <3>1. F \in Seq(Evs) /\ Head(F) \in Evs
      BY <2>3, HeadTailProperties DEF Carries
    <3>2. y = [x EXCEPT !.queue = Append(@, Head(F)), !.pc = pc]
      BY <2>3, <3>1 DEF Evs
    <3>3. y.queue = Append(x.queue, Head(F)) /\ y.pc = pc /\ y.done = x.done /\ y.wsError = x.wsError
      BY <3>2 DEF Path
    <3>4. Carries(y, s, Tail(F)) /\ y.queue \in Seq(Evs)
      BY <1>4, <2>3, <3>3, Queues DEF WsListens
    <3> QED  BY <1>3, <1>4, <2>3, <3>3, <3>4 DEF WsListens
  <2>4. ASSUME WsOpen(x, k, s)
        PROVE  WsOpen(y, l, s)
    <3>1. Carries(x, s, k.frames) /\ WsListens(x)
      BY <2>4 DEF WsOpen
    <3>2. Carries(y, s, Tail(k.frames)) /\ WsListens(y) /\ y.done = x.done
      BY <2>3, <3>1
    <3> QED  BY <1>1, <2>4, <3>2 DEF WsOpen
  <2>5. ASSUME WsCloses(x, k, s)
        PROVE  WsCloses(y, l, s) \/ WsOver(y, l, s)
    <3>1. PICK F : k.frames = Append(F, "close") /\ Carries(x, s, F)
      BY <2>5 DEF WsCloses
    <3>2. F \in Seq(Evs)
      BY <3>1 DEF Carries
    <3>3. CASE F = <<>>
      <4>1. Head(k.frames) = "close" /\ l.frames = <<>>
        BY <1>1, <3>1, <3>2, <3>3, Closing
      <4>2. y = [x EXCEPT !.done = TRUE, !.pc = pc]
        BY <4>1 DEF Marks
      <4>3. y.done /\ y.pc = pc /\ y.queue = x.queue /\ y.wsError = x.wsError
        BY <4>2 DEF Path
      <4>4. WsListens(y) /\ Carries(y, s, <<>>) /\ ~y.wsError
        BY <1>3, <1>4, <2>5, <3>1, <3>3, <4>3 DEF WsListens, Carries, WsCloses
      <4> QED  BY <1>1, <2>5, <4>1, <4>3, <4>4 DEF WsOver, WsCloses
    <3>4. CASE F # <<>>
      <4>1. Head(k.frames) = Head(F) /\ l.frames = Append(Tail(F), "close")
        BY <1>1, <3>1, <3>2, <3>4, Closing
      <4>2. Carries(y, s, Tail(F)) /\ WsListens(y) /\ y.done = x.done
        BY <2>3, <2>5, <3>1, <3>4, <4>1 DEF WsCloses
      <4> QED  BY <1>1, <2>5, <4>1, <4>2 DEF WsCloses
    <3> QED  BY <3>3, <3>4
  <2>6. ~WsAsks(x, k) /\ ~WsOver(x, k, s)
    BY DEF WsAsks, WsOver, Talk
  <2> QED  BY <2>1, <2>2, <2>4, <2>5, <2>6
<1> QED  BY <1>2, <1>4, <1>5, <1>6, <1>7 DEF Flow

\* The generator of a WebSocket goes on to its next yield or await.
LEMMA WsGoesOn ==
    ASSUME NEW x, NEW k, NEW s, Path(x), Talk(k, s), Flow("ws", x, k, s),
           x.via = "ws", (x.pc = "woken" /\ ~x.wsError) \/ x.pc = "yielded",
           NEW y, y = IF x.queue # <<>>
                        THEN [x EXCEPT !.got = Append(@, Head(x.queue)),
                                       !.queue = Tail(@), !.pc = "yielded"]
                        ELSE IF x.done THEN [x EXCEPT !.pc = "returned"]
                        ELSE [x EXCEPT !.pc = "waiting"]
    PROVE  Path(y) /\ y.via = "ws" /\ Flow("ws", y, k, s)
<1>1. /\ {"pc", "via", "queue", "rest", "done", "wsError", "got"} \subseteq DOMAIN y
      /\ y.via = "ws" /\ y.done = x.done /\ y.wsError = x.wsError
      /\ y.pc \in {"yielded", "returned", "waiting"}
  BY DEF Path
<1>2. Path(y)
  BY <1>1 DEF Path
<1>3. ASSUME x.queue = <<>>
      PROVE  y.got = x.got /\ y.queue = <<>> /\ y.pc = IF x.done THEN "returned" ELSE "waiting"
  BY <1>3 DEF Path
<1>4. ASSUME x.queue # <<>>
      PROVE  y.got = Append(x.got, Head(x.queue)) /\ y.queue = Tail(x.queue) /\ y.pc = "yielded"
  BY <1>4 DEF Path
<1>5. NoSent(y, k, s)
  BY <1>1, <1>3 DEF Flow, NoSent, Nothing
<1>6. WsFlow(y, k, s)
  <2> SUFFICES ASSUME ~k.cut
               PROVE  WsOpen(y, k, s) \/ WsCloses(y, k, s) \/ WsOver(y, k, s)
    BY DEF WsFlow
  <2>1. /\ WsOpen(x, k, s) \/ WsCloses(x, k, s) \/ WsOver(x, k, s)
        /\ WsListens(x)
    BY DEF Flow, WsFlow, WsAsks, WsRefused, WsOpen, WsCloses, WsOver
  <2>2. ASSUME NEW F, Carries(x, s, F)
        PROVE  Carries(y, s, F) /\ y.got \in Seq(Evs) /\ y.queue \in Seq(Evs)
    <3>1. CASE x.queue = <<>>
      BY <1>3, <2>1, <2>2, <3>1 DEF Carries, WsListens
    <3>2. CASE x.queue # <<>>
      BY <1>4, <2>1, <2>2, <3>2, GetsOne DEF WsListens
    <3> QED  BY <3>1, <3>2
  <2>3. ASSUME WsOpen(x, k, s)
        PROVE  WsOpen(y, k, s)
    <3>1. ~x.done /\ Carries(y, s, k.frames) /\ y.got \in Seq(Evs) /\ y.queue \in Seq(Evs)
      BY <2>2, <2>3 DEF WsOpen
    <3>2. y.pc # "returned"
      BY <1>3, <1>4, <3>1
    <3> QED  BY <1>1, <2>1, <2>3, <3>1, <3>2 DEF WsOpen, WsListens
  <2>4. ASSUME WsCloses(x, k, s)
        PROVE  WsCloses(y, k, s)
    <3>1. PICK F : k.frames = Append(F, "close") /\ Carries(x, s, F)
      BY <2>4 DEF WsCloses
    <3>2. ~x.done /\ Carries(y, s, F) /\ y.got \in Seq(Evs) /\ y.queue \in Seq(Evs)
      BY <2>2, <2>4, <3>1 DEF WsCloses
    <3>3. y.pc # "returned"
      BY <1>3, <1>4, <3>2
    <3>4. WsListens(y)
      BY <1>1, <2>1, <3>2, <3>3 DEF WsListens
    <3> QED  BY <1>1, <2>4, <3>1, <3>2, <3>4 DEF WsCloses
  <2>5. ASSUME WsOver(x, k, s)
        PROVE  WsOver(y, k, s)
    <3>1. Carries(y, s, <<>>) /\ y.got \in Seq(Evs) /\ y.queue \in Seq(Evs) /\ x.done
      BY <2>2, <2>5 DEF WsOver
    <3>2. y.pc = "yielded" \/ (y.pc = "returned" /\ y.queue = <<>>)
      BY <1>3, <1>4, <3>1
    <3> QED  BY <1>1, <2>1, <2>5, <3>1, <3>2 DEF WsOver, WsListens
  <2> QED  BY <2>1, <2>3, <2>4, <2>5
<1> QED  BY <1>1, <1>2, <1>5, <1>6 DEF Flow

\* An execution puts out another event.
LEMMA CarriesMore ==
    ASSUME NEW x, NEW s, NEW F, Carries(x, s, F), NEW e \in Evs,
           x.got \in Seq(Evs), x.queue \in Seq(Evs),
           NEW z, z.sent = Append(s.sent, e)
    PROVE  Carries(x, z, Append(F, e)) /\ F \o <<e>> = Append(F, e)
<1> DEFINE a == x.got \o x.queue
           g == <<e>>
<1>1. F \in Seq(Evs) /\ a \in Seq(Evs) /\ s.sent = a \o F /\ g \in Seq(Evs)
  BY ConcatProperties DEF Carries
<1>2. Append(F, e) = F \o g /\ Append(F, e) \in Seq(Evs)
  BY <1>1, AppendIsConcat
<1>3. a \o F \in Seq(Evs)
  <2> HIDE DEF a
  <2> QED  BY <1>1, ConcatProperties
<1> HIDE DEF a
<1>4. Append(a \o F, e) = (a \o F) \o g
  BY <1>3, AppendIsConcat
<1> HIDE DEF g
<1>5. (a \o F) \o g = a \o (F \o g)
  BY <1>1, Associates
<1> QED  BY <1>1, <1>2, <1>4, <1>5 DEF Carries, a, g

\* A handler writes the two halves of another line.
LEMMA HoldsMore ==
    ASSUME NEW x, NEW s, NEW B, Holds(x, s, B), NEW e \in Evs, SseReads(x),
           NEW z, z.sent = Append(s.sent, e)
    PROVE  Holds(x, z, B \o <<Part(e, FALSE), Part(e, TRUE)>>)
<1> DEFINE g == <<Part(e, FALSE), Part(e, TRUE)>>
<1>1. g \in Seq(Parts)
  BY DEF Parts, Part
<1>2. PICK E \in Seq(Evs) : x.rest \o B = Halves(E) /\ Carries(x, s, E)
  BY DEF Holds
<1>3. Carries(x, z, Append(E, e)) /\ Append(E, e) \in Seq(Evs)
  BY <1>2, CarriesMore DEF SseReads
<1>4. Halves(Append(E, e)) = Halves(E) \o g
  BY <1>2, HalvesAppend
<1> HIDE DEF g
<1>5. x.rest \in Seq(Parts) /\ B \in Seq(Parts)
  BY DEF SseReads, Holds
<1>6. (x.rest \o B) \o g = x.rest \o (B \o g) /\ B \o g \in Seq(Parts)
  <2>1. (x.rest \o B) \o g = x.rest \o (B \o g)
    BY <1>1, <1>5, Associates
  <2>2. B \o g \in Seq(Parts)
    BY <1>1, <1>5, ConcatProperties
  <2> QED  BY <2>1, <2>2
<1>7. x.rest \o (B \o g) = Halves(Append(E, e))
  BY <1>2, <1>4, <1>6
<1>8. Holds(x, z, B \o g)
  BY <1>3, <1>6, <1>7 DEF Holds
<1> QED  BY <1>8 DEF g

\* An engine yields an event to the handler of a request.
LEMMA EmitFlows ==
    ASSUME NEW t \in Kind, NEW x, NEW k, NEW s, Path(x), Talk(k, s), Flow(t, x, k, s),
           s.pc = "executing", NEW e \in Evs,
           NEW z, z = [pc |-> IF e = "out" THEN "executing" ELSE "stopping",
                       sent |-> Append(s.sent, e)],
           NEW written, t = "ws" => written = <<e>>,
           t = "sse" => written = <<Part(e, FALSE), Part(e, TRUE)>>,
           t = "post" => written = IF e = "out" THEN <<>> ELSE <<e>>,
           NEW l, l = IF k.state = "open" THEN [k EXCEPT !.frames = @ \o written] ELSE k
    PROVE  Talk(l, z) /\ Flow(t, x, l, z)
<1>1. /\ {"state", "frames", "cut"} \subseteq DOMAIN l
      /\ l.state = k.state /\ l.cut = k.cut
      /\ k.state = "open" => l.frames = k.frames \o written
      /\ k.state # "open" => l = k
  BY DEF Talk
<1>2. /\ z.pc \in {"executing", "stopping"} /\ z.sent = Append(s.sent, e)
      /\ z.pc = "stopping" <=> e # "out"
      /\ {"pc", "sent"} \subseteq DOMAIN z
  OBVIOUS
<1>3. /\ z.sent \in Seq(Evs) /\ z.sent # <<>> /\ Last(z.sent) = e
  <2>1. s.sent \in Seq(Evs)
    BY DEF Talk
  <2>2. /\ Append(s.sent, e) \in Seq(Evs) /\ Append(s.sent, e) # <<>>
        /\ Len(Append(s.sent, e)) = Len(s.sent) + 1
        /\ Append(s.sent, e)[Len(s.sent) + 1] = e
    BY <2>1, AppendProperties
  <2> QED  BY <1>2, <2>2 DEF Last
<1>4. k.state \notin {"none", "connecting"}
  BY DEF Talk
<1>5. Talk(l, z)
  BY <1>1, <1>2, <1>3, <1>4 DEF Talk
<1>6. NoSent(x, l, z)
  BY <1>3 DEF NoSent
<1>7. ASSUME t = "ws"
      PROVE  WsFlow(x, l, z)
  <2> SUFFICES ASSUME x.via = "ws", ~k.cut
               PROVE  WsRefused(x, l) \/ WsOpen(x, l, z)
    BY <1>1 DEF WsFlow
  <2>1. WsRefused(x, k) \/ WsOpen(x, k, s)
    BY <1>4, <1>7 DEF Flow, WsFlow, WsAsks, WsCloses, WsOver
  <2>2. CASE WsRefused(x, k)
    BY <1>1, <2>2 DEF WsRefused
  <2>3. CASE WsOpen(x, k, s)
    <3>1. Carries(x, z, Append(k.frames, e)) /\ k.frames \o <<e>> = Append(k.frames, e)
      <4>1. Carries(x, s, k.frames) /\ x.got \in Seq(Evs) /\ x.queue \in Seq(Evs)
        BY <2>3 DEF WsOpen, WsListens
      <4> QED  BY <1>2, <4>1, CarriesMore
    <3> QED  BY <1>1, <1>2, <1>7, <2>3, <3>1 DEF WsOpen, Open
  <2> QED  BY <2>1, <2>2, <2>3
<1>8. ASSUME t = "sse"
      PROVE  SseFlow(x, l, z)
  <2> SUFFICES ASSUME x.via = "sse", ~k.cut
               PROVE  SseOpen(x, l, z)
    BY <1>1 DEF SseFlow
  <2>1. SseOpen(x, k, s)
    BY <1>4, <1>8 DEF Flow, SseFlow, SseAsks, SseEnds, SseOver
  <2>2. Holds(x, z, k.frames \o <<Part(e, FALSE), Part(e, TRUE)>>)
    BY <1>2, <2>1, HoldsMore DEF SseOpen
  <2> QED  BY <1>1, <1>2, <1>8, <2>1, <2>2 DEF SseOpen, Open
<1>9. ASSUME t = "post"
      PROVE  PostFlow(x, l, z)
  <2> SUFFICES ASSUME x.via = "post", ~k.cut
               PROVE  PostAsks(x, l, z) \/ PostAnswers(x, l, z)
    BY <1>1 DEF PostFlow
  <2>1. PostAsks(x, k, s) /\ k.state = "open"
    BY <1>4, <1>9 DEF Flow, PostFlow, PostAsks, PostAnswers
  <2>2. l.frames = <<>> \o written /\ x.pc = "fetching"
    BY <1>1, <2>1 DEF PostAsks
  <2>3. CASE e = "out"
    <3>1. l.frames = <<>>
      BY <1>9, <2>2, <2>3
    <3> QED  BY <1>1, <1>2, <2>1, <2>2, <2>3, <3>1 DEF PostAsks
  <2>4. CASE e # "out"
    <3>1. l.frames = <<e>>
      <4>1. <<>> \o <<e>> = <<e>>
        OBVIOUS
      <4> QED  BY <1>9, <2>2, <2>4, <4>1
    <3> QED  BY <1>1, <1>2, <1>3, <2>1, <2>2, <2>4, <3>1 DEF PostAnswers
  <2> QED  BY <2>3, <2>4
<1> QED  BY <1>5, <1>6, <1>7, <1>8, <1>9 DEF Flow

\* The finally block of a handler.
LEMMA FinishFlows ==
    ASSUME NEW t \in Kind, NEW x, NEW k, NEW s, Path(x), Talk(k, s), Flow(t, x, k, s),
           s.pc = "stopping",
           NEW z, z = [s EXCEPT !.pc = "ended"],
           NEW l, l = IF k.state # "open" \/ t = "post" THEN k
                      ELSE [k EXCEPT !.state = "closed",
                                     !.frames = Append(@, IF t = "ws" THEN "close" ELSE End)]
    PROVE  Talk(l, z) /\ Flow(t, x, l, z)
<1>1. /\ {"state", "frames", "cut"} \subseteq DOMAIN l
      /\ l.cut = k.cut
      /\ k.state # "open" \/ t = "post" => l = k
      /\ k.state = "open" /\ t # "post" =>
            /\ l.state = "closed"
            /\ l.frames = Append(k.frames, IF t = "ws" THEN "close" ELSE End)
  BY DEF Talk
<1>2. {"pc", "sent"} \subseteq DOMAIN z /\ z.pc = "ended" /\ z.sent = s.sent
  BY DEF Talk
<1>3. k.state \notin {"none", "connecting"}
  BY DEF Talk
<1>4. Talk(l, z)
  BY <1>1, <1>2, <1>3 DEF Talk
<1>5. t = "ws" => NoSent(x, l, z)
  <2> SUFFICES ASSUME t = "ws", x.via = "ws", s.sent = <<>>
               PROVE  Nothing(x) /\ l.frames \in Seq(Marks)
    BY <1>2 DEF NoSent
  <2>1. Nothing(x) /\ k.frames \in Seq(Marks)
    BY DEF Flow, NoSent
  <2>2. Append(k.frames, "close") \in Seq(Marks)
    BY <2>1 DEF Marks
  <2> QED  BY <1>1, <2>1, <2>2
<1>6. ASSUME t = "ws"
      PROVE  WsFlow(x, l, z)
  <2> SUFFICES ASSUME x.via = "ws", ~k.cut
               PROVE  WsRefused(x, l) \/ WsCloses(x, l, z)
    BY <1>1 DEF WsFlow
  <2>1. WsRefused(x, k) \/ WsOpen(x, k, s)
    BY <1>3, <1>6 DEF Flow, WsFlow, WsAsks, WsCloses, WsOver
  <2>2. CASE WsRefused(x, k)
    BY <1>1, <2>2 DEF WsRefused
  <2>3. CASE WsOpen(x, k, s)
    <3>1. l.frames = Append(k.frames, "close") /\ Carries(x, z, k.frames)
      BY <1>1, <1>2, <1>6, <2>3 DEF WsOpen, Carries
    <3> QED  BY <1>1, <1>2, <1>6, <2>3, <3>1 DEF WsOpen, WsCloses
  <2> QED  BY <2>1, <2>2, <2>3
<1>7. ASSUME t = "sse"
      PROVE  SseFlow(x, l, z)
  <2> SUFFICES ASSUME x.via = "sse", ~k.cut
               PROVE  SseEnds(x, l, z)
    BY <1>1 DEF SseFlow
  <2>1. SseOpen(x, k, s)
    BY <1>3, <1>7 DEF Flow, SseFlow, SseAsks, SseEnds, SseOver
  <2>2. l.frames = Append(k.frames, End) /\ Holds(x, z, k.frames)
    BY <1>1, <1>2, <1>7, <2>1 DEF SseOpen, Holds, Carries
  <2> QED  BY <1>1, <1>2, <1>7, <2>1, <2>2 DEF SseOpen, SseEnds
<1>8. ASSUME t = "post"
      PROVE  PostFlow(x, l, z)
  <2> SUFFICES ASSUME x.via = "post", ~k.cut
               PROVE  PostAnswers(x, l, z)
    BY <1>1 DEF PostFlow
  <2>1. PostAnswers(x, k, s)
    BY <1>3, <1>8 DEF Flow, PostFlow, PostAsks
  <2> QED  BY <1>1, <1>2, <1>8, <2>1 DEF PostAnswers
<1> QED  BY <1>4, <1>5, <1>6, <1>7, <1>8 DEF Flow

\* The network cuts a connection, and what is lost may be a request.
LEMMA CutFlows ==
    ASSUME NEW t \in Kind, NEW x, NEW k, NEW s, Path(x), Talk(k, s), Flow(t, x, k, s),
           NEW n \in 0 .. Len(k.frames),
           NEW tail, t = "ws" => tail \in {<<"broken", "close">>, <<"close">>},
           NEW l, l = [state |-> "closed", cut |-> TRUE,
                       frames |-> SubSeq(k.frames, 1, n) \o tail],
           NEW z, z = s \/ (s.pc = "requested" /\ z = [s EXCEPT !.pc = "idle"])
    PROVE  Talk(l, z) /\ Flow(t, x, l, z)
<1>1. {"pc", "sent"} \subseteq DOMAIN z /\ z.sent = s.sent /\ z.pc \in {s.pc, "idle"}
  BY DEF Talk
<1>2. z.pc # s.pc => s.pc = "requested"
  OBVIOUS
<1>3. Talk(l, z)
  BY <1>1, <1>2 DEF Talk
<1>4. t = "ws" => NoSent(x, l, z)
  <2> SUFFICES ASSUME t = "ws", x.via = "ws", s.sent = <<>>
               PROVE  Nothing(x) /\ l.frames \in Seq(Marks)
    BY <1>1 DEF NoSent
  <2>1. Nothing(x) /\ k.frames \in Seq(Marks)
    BY DEF Flow, NoSent
  <2>2. SubSeq(k.frames, 1, n) \in Seq(Marks)
    <3>1. \A i \in 1 .. n : k.frames[i] \in Marks
      BY <2>1
    <3> QED  BY <3>1, SubSeqProperties
  <2>3. tail \in Seq(Marks)
    <3>1. <<"broken", "close">> \in Seq(Marks) /\ <<"close">> \in Seq(Marks)
      BY DEF Marks
    <3> QED  BY <3>1
  <2>4. SubSeq(k.frames, 1, n) \o tail \in Seq(Marks)
    BY <2>2, <2>3, ConcatProperties
  <2> QED  BY <2>1, <2>4
<1> QED  BY <1>3, <1>4 DEF Flow, WsFlow, SseFlow, PostFlow

-----------------------------------------------------------------------------
\* What is there of a body, with and without its end.
LEMMA Bodies ==
    ASSUME NEW B \in Seq(Parts)
    PROVE  /\ Body(B) = B
           /\ Append(B, End) # <<>> /\ Body(Append(B, End)) = B
           /\ B = <<>> => Head(Append(B, End)) = End
<1> DEFINE f == Append(B, End)
           S == Parts \union {End}
<1>1. End.event = "end"
  BY DEF End, Part
<1>2. Body(B) = B
  <2>1. CASE B = <<>>
    BY <2>1 DEF Body
  <2>2. CASE B # <<>>
    <3>1. Len(B) \in 1 .. Len(B)
      BY <2>2, EmptySeq
    <3>2. Last(B) \in Parts
      BY <3>1, ElementOfSeq DEF Last
    <3> QED  BY <3>2 DEF Body, Parts, Evs
  <2> QED  BY <2>1, <2>2
<1>3. B \in Seq(S) /\ End \in S
  BY SeqMonotonic
<1>4. /\ f \in Seq(S) /\ f # <<>> /\ Len(f) = Len(B) + 1 /\ f[Len(B) + 1] = End
      /\ \A i \in 1 .. Len(B) : f[i] = B[i]
  <2> HIDE DEF S
  <2> QED  BY <1>3, AppendProperties
<1>5. Body(f) = B
  <2> HIDE DEF f, S
  <2>1. Last(f) = End /\ Front(f) = SubSeq(f, 1, Len(B))
    BY <1>3, <1>4 DEF Last, Front
  <2>2. \A i \in 1 .. Len(B) : f[i] \in Parts
    BY <1>4
  <2>3. /\ SubSeq(f, 1, Len(B)) \in Seq(Parts) /\ Len(SubSeq(f, 1, Len(B))) = Len(B)
        /\ \A i \in 1 .. Len(B) : SubSeq(f, 1, Len(B))[i] = B[i]
    BY <1>4, <2>2
  <2>4. SubSeq(f, 1, Len(B)) = B
    BY <2>3, SeqEqual
  <2> QED  BY <1>1, <1>4, <2>1, <2>4 DEF Body
<1>6. B = <<>> => Head(f) = End
  OBVIOUS
<1> QED  BY <1>2, <1>4, <1>5, <1>6

\* What is left of a body and its end.
LEMMA RestOfBody ==
    ASSUME NEW B \in Seq(Parts), NEW n \in 1 .. Len(B), NEW f, f = Append(B, End)
    PROVE  SubSeq(f, n + 1, Len(f)) = Append(SubSeq(B, n + 1, Len(B)), End)
<1> DEFINE S == Parts \union {End}
           Q == SubSeq(B, n + 1, Len(B))
           g == SubSeq(f, n + 1, Len(f))
<1>1. B \in Seq(S) /\ End \in S /\ Len(B) \in Nat /\ n \in Nat
  BY SeqMonotonic
<1> HIDE DEF S
<1>2. /\ f \in Seq(S) /\ Len(f) = Len(B) + 1 /\ f[Len(B) + 1] = End
      /\ \A i \in 1 .. Len(B) : f[i] = B[i]
  BY <1>1, AppendProperties
<1>3. /\ Q \in Seq(S) /\ Len(Q) = Len(B) - n
      /\ \A i \in 1 .. Len(B) - n : Q[i] = B[n + i]
  <2>1. \A i \in n + 1 .. Len(B) : B[i] \in S
    BY <1>1
  <2> QED  BY <1>1, <2>1
<1>4. /\ g \in Seq(S) /\ Len(g) = Len(B) + 1 - n
      /\ \A i \in 1 .. Len(B) + 1 - n : g[i] = f[n + i]
  <2>1. \A i \in n + 1 .. Len(f) : f[i] \in S
    BY <1>1, <1>2
  <2> QED  BY <1>1, <1>2, <2>1
<1> HIDE DEF Q, g
<1>5. /\ Append(Q, End) \in Seq(S) /\ Len(Append(Q, End)) = Len(B) + 1 - n
      /\ \A i \in 1 .. Len(B) - n : Append(Q, End)[i] = Q[i]
      /\ Append(Q, End)[Len(B) - n + 1] = End
  <2>1. /\ Append(Q, End) \in Seq(S) /\ Len(Append(Q, End)) = Len(Q) + 1
        /\ \A i \in 1 .. Len(Q) : Append(Q, End)[i] = Q[i]
        /\ Append(Q, End)[Len(Q) + 1] = End
    <3>1. Q \in Seq(S) /\ End \in S
      BY <1>1, <1>3
    <3> QED  BY <3>1, AppendProperties
  <2>2. Len(Q) + 1 = Len(B) + 1 - n
    BY <1>1, <1>3
  <2> QED  BY <1>3, <2>1, <2>2
<1>6. ASSUME NEW i \in 1 .. Len(B) + 1 - n
      PROVE  g[i] = Append(Q, End)[i]
  <2>1. CASE i = Len(B) + 1 - n
    <3>1. n + i = Len(B) + 1 /\ Len(B) - n + 1 = i
      BY <1>1, <2>1
    <3> QED  BY <1>2, <1>4, <1>5, <3>1
  <2>2. CASE i # Len(B) + 1 - n
    <3>1. i \in 1 .. Len(B) - n /\ n + i \in 1 .. Len(B)
      BY <1>1, <2>2
    <3> QED  BY <1>2, <1>3, <1>4, <1>5, <3>1
  <2> QED  BY <2>1, <2>2
<1>7. g = Append(Q, End)
  BY <1>4, <1>5, <1>6, SeqEqual
<1> QED  BY <1>7 DEF Q, g

\* A read takes n parts of B.
LEMMA HoldsLess ==
    ASSUME NEW x, NEW s, NEW B, Holds(x, s, B), SseReads(x), x.queue = <<>>, x.pc = "reading",
           NEW n \in 1 .. Len(B), NEW P, P = x.rest \o SubSeq(B, 1, n),
           NEW y, y.pc = x.pc, y.got = x.got, y.rest = PopLines(P), y.queue = Lines(P)
    PROVE  Holds(y, s, SubSeq(B, n + 1, Len(B))) /\ SseReads(y)
<1> DEFINE Q == SubSeq(B, n + 1, Len(B))
<1>1. x.rest \in Seq(Parts) /\ B \in Seq(Parts) /\ x.got \in Seq(Evs)
  BY DEF Holds, SseReads
<1>2. PICK E \in Seq(Evs) : x.rest \o B = Halves(E) /\ Carries(x, s, E)
  BY DEF Holds
<1>3. /\ Lines(P) \in Seq(Evs) /\ PopLines(P) \in Seq(Parts) /\ Q \in Seq(Parts)
      /\ \E D \in Seq(Evs) : PopLines(P) \o Q = Halves(D) /\ E = Lines(P) \o D
  <2> DEFINE rest == x.rest
  <2>1. rest \in Seq(Parts) /\ rest \o B = Halves(E)
    BY <1>1, <1>2
  <2> HIDE DEF rest
  <2>2. Splits(rest \o SubSeq(B, 1, n), SubSeq(B, n + 1, Len(B)), E)
    BY <1>1, <1>2, <2>1, ReadSplits
  <2>3. Splits(P, Q, E)
    BY <2>2 DEF rest
  <2> HIDE DEF Q
  <2> QED  BY <2>3 DEF Splits
<1> HIDE DEF Q
<1>4. PICK D \in Seq(Evs) : PopLines(P) \o Q = Halves(D) /\ E = Lines(P) \o D
  BY <1>3
<1>5. s.sent = x.got \o E
  <2>1. x.got \o <<>> = x.got
    BY <1>1, ConcatEmptySeq
  <2> QED  BY <1>2, <2>1 DEF Carries
<1>6. x.got \o (Lines(P) \o D) = (x.got \o Lines(P)) \o D
  <2> DEFINE got == x.got
             lines == Lines(P)
  <2>1. got \in Seq(Evs) /\ lines \in Seq(Evs)
    BY <1>1, <1>3
  <2> HIDE DEF got, lines
  <2>2. got \o (lines \o D) = (got \o lines) \o D
    BY <1>4, <2>1, Associates
  <2> QED  BY <2>2 DEF got, lines
<1>7. Carries(y, s, D)
  BY <1>4, <1>5, <1>6 DEF Carries
<1>8. Holds(y, s, Q)
  BY <1>3, <1>4, <1>7 DEF Holds
<1>9. SseReads(y)
  BY <1>1, <1>3 DEF SseReads
<1> QED  BY <1>8, <1>9 DEF Q

\* reader.read() gives the generator of a body its next parts.
LEMMA ReadFlows ==
    ASSUME NEW x, NEW k, NEW s, Path(x), Talk(k, s), Flow("sse", x, k, s),
           x.pc = "reading", x.queue = <<>>,
           NEW n \in 1 .. Len(Body(k.frames)),
           NEW P, P = x.rest \o SubSeq(Body(k.frames), 1, n),
           NEW l, l = [k EXCEPT !.frames = SubSeq(@, n + 1, Len(@))],
           NEW y, y = [x EXCEPT !.rest = PopLines(P), !.queue = Lines(P)]
    PROVE  Path(y) /\ y.via = "sse" /\ Talk(l, s) /\ Flow("sse", y, l, s)
<1>1. /\ {"state", "frames", "cut"} \subseteq DOMAIN l /\ l.state = k.state /\ l.cut = k.cut
      /\ l.frames = SubSeq(k.frames, n + 1, Len(k.frames))
  BY DEF Talk
<1>2. /\ {"pc", "via", "queue", "rest", "done", "wsError", "got"} \subseteq DOMAIN y
      /\ y.via = "sse" /\ y.pc = x.pc /\ y.got = x.got
      /\ y.rest = PopLines(P) /\ y.queue = Lines(P)
  BY DEF Path
<1>3. Path(y)
  BY <1>2 DEF Path
<1>4. k.frames # <<>>
  BY DEF Body
<1>5. Talk(l, s)
  BY <1>1, <1>4 DEF Talk
<1>6. SseFlow(y, l, s)
  <2> SUFFICES ASSUME ~k.cut
               PROVE  SseOpen(y, l, s) \/ SseEnds(y, l, s)
    BY <1>1 DEF SseFlow
  <2>1. SseOpen(x, k, s) \/ SseEnds(x, k, s)
    BY <1>2 DEF Flow, SseFlow, SseAsks, SseOver, Path
  <2>2. CASE SseOpen(x, k, s)
    <3>1. Holds(x, s, k.frames) /\ SseReads(x) /\ k.frames \in Seq(Parts)
      BY <2>2 DEF SseOpen, Holds
    <3>2. Body(k.frames) = k.frames
      BY <3>1, Bodies
    <3>3. Holds(y, s, l.frames) /\ SseReads(y)
      BY <1>1, <1>2, <3>1, <3>2, HoldsLess
    <3> QED  BY <1>1, <2>2, <3>3 DEF SseOpen
  <2>3. CASE SseEnds(x, k, s)
    <3>1. PICK B : k.frames = Append(B, End) /\ Holds(x, s, B)
      BY <2>3 DEF SseEnds
    <3>2. SseReads(x) /\ B \in Seq(Parts)
      BY <2>3, <3>1 DEF SseEnds, Holds
    <3>3. Body(k.frames) = B
      BY <3>1, <3>2, Bodies
    <3>4. Holds(y, s, SubSeq(B, n + 1, Len(B))) /\ SseReads(y)
      BY <1>2, <3>1, <3>2, <3>3, HoldsLess
    <3>5. l.frames = Append(SubSeq(B, n + 1, Len(B)), End)
      BY <1>1, <3>1, <3>2, <3>3, RestOfBody
    <3> QED  BY <1>1, <2>3, <3>4, <3>5 DEF SseEnds
  <2> QED  BY <2>1, <2>2, <2>3
<1> QED  BY <1>2, <1>3, <1>5, <1>6 DEF Flow

\* The generator of a body yields a line that it read, or goes back to reading.
LEMMA LineFlows ==
    ASSUME NEW x, NEW k, NEW s, Path(x), Talk(k, s), Flow("sse", x, k, s), x.via = "sse",
           NEW y,
           \/ /\ x.pc = "reading" /\ x.queue # <<>>
              /\ y = [x EXCEPT !.got = Append(@, Head(x.queue)), !.queue = Tail(@),
                               !.pc = "yielded"]
           \/ x.pc = "yielded" /\ y = [x EXCEPT !.pc = "reading"]
    PROVE  Path(y) /\ y.via = "sse" /\ Flow("sse", y, k, s)
<1>1. /\ {"pc", "via", "queue", "rest", "done", "wsError", "got"} \subseteq DOMAIN y
      /\ y.via = "sse" /\ y.pc \in {"yielded", "reading"} /\ y.rest = x.rest
      /\ \/ y.got = x.got /\ y.queue = x.queue
         \/ /\ x.queue # <<>> /\ y.got = Append(x.got, Head(x.queue))
            /\ y.queue = Tail(x.queue)
  BY DEF Path
<1>2. Path(y)
  BY <1>1 DEF Path
<1>3. ASSUME SseReads(x), NEW F, Carries(x, s, F)
      PROVE  Carries(y, s, F) /\ y.got \in Seq(Evs) /\ y.queue \in Seq(Evs)
  <2>1. x.got \in Seq(Evs) /\ x.queue \in Seq(Evs)
    BY <1>3 DEF SseReads
  <2>2. CASE y.got = x.got /\ y.queue = x.queue
    BY <1>3, <2>1, <2>2 DEF Carries
  <2>3. CASE /\ x.queue # <<>> /\ y.got = Append(x.got, Head(x.queue))
             /\ y.queue = Tail(x.queue)
    BY <1>3, <2>1, <2>3, GetsOne
  <2> QED  BY <1>1, <2>2, <2>3
<1>4. ASSUME SseReads(x), NEW B, Holds(x, s, B)
      PROVE  Holds(y, s, B) /\ SseReads(y)
  <2>1. PICK E \in Seq(Evs) : x.rest \o B = Halves(E) /\ Carries(x, s, E)
    BY <1>4 DEF Holds
  <2>2. Carries(y, s, E) /\ y.got \in Seq(Evs) /\ y.queue \in Seq(Evs)
    BY <1>3, <1>4, <2>1
  <2>3. y.rest \o B = Halves(E)
    BY <1>1, <2>1
  <2> QED  BY <1>1, <1>4, <2>1, <2>2, <2>3 DEF Holds, SseReads
<1>5. SseFlow(y, k, s)
  <2> SUFFICES ASSUME ~k.cut
               PROVE  SseOpen(y, k, s) \/ SseEnds(y, k, s)
    BY DEF SseFlow
  <2>1. SseOpen(x, k, s) \/ SseEnds(x, k, s)
    BY DEF Flow, SseFlow, SseAsks, SseOver
  <2>2. CASE SseOpen(x, k, s)
    BY <1>4, <2>2 DEF SseOpen
  <2>3. CASE SseEnds(x, k, s)
    <3>1. PICK B : k.frames = Append(B, End) /\ Holds(x, s, B)
      BY <2>3 DEF SseEnds
    <3>2. Holds(y, s, B) /\ SseReads(y)
      BY <1>4, <2>3, <3>1 DEF SseEnds
    <3> QED  BY <2>3, <3>1, <3>2 DEF SseEnds
  <2> QED  BY <2>1, <2>2, <2>3
<1> QED  BY <1>1, <1>2, <1>5 DEF Flow

\* A body ends as it should: there is nothing that the reader did not get.
LEMMA EndFlows ==
    ASSUME NEW x, NEW k, NEW s, Path(x), Talk(k, s), Flow("sse", x, k, s),
           x.pc = "reading", x.queue = <<>>, k.frames # <<>>, Body(k.frames) = <<>>,
           x.rest = <<>>,
           NEW y, y = [x EXCEPT !.pc = "returned"]
    PROVE  Path(y) /\ y.via = "sse" /\ Flow("sse", y, k, s)
<1>1. /\ {"pc", "via", "queue", "rest", "done", "wsError", "got"} \subseteq DOMAIN y
      /\ y.via = "sse" /\ y.pc = "returned" /\ y.got = x.got
  BY DEF Path
<1>2. Path(y)
  BY <1>1 DEF Path
<1>3. SseFlow(y, k, s)
  <2> SUFFICES ASSUME ~k.cut
               PROVE  SseOver(y, k, s)
    BY DEF SseFlow
  <2>1. ~SseAsks(x, k) /\ ~SseOver(x, k, s)
    BY DEF SseAsks, SseOver
  <2>2. ~SseOpen(x, k, s)
    <3> SUFFICES ASSUME SseOpen(x, k, s)
                 PROVE  FALSE
      OBVIOUS
    <3>1. k.frames \in Seq(Parts)
      BY DEF SseOpen, Holds
    <3>2. Body(k.frames) = k.frames
      BY <3>1, Bodies
    <3> QED  BY <3>2
  <2>3. SseEnds(x, k, s)
    BY <1>1, <2>1, <2>2 DEF Flow, SseFlow, Path
  <2>4. PICK B : k.frames = Append(B, End) /\ Holds(x, s, B)
    BY <2>3 DEF SseEnds
  <2>5. B \in Seq(Parts) /\ B = <<>>
    <3>1. B \in Seq(Parts)
      BY <2>4 DEF Holds
    <3>2. Body(k.frames) = B
      BY <2>4, <3>1, Bodies
    <3> QED  BY <3>1, <3>2
  <2>6. PICK E \in Seq(Evs) : x.rest \o B = Halves(E) /\ Carries(x, s, E)
    BY <2>4 DEF Holds
  <2>7. E = <<>>
    <3>1. Len(Halves(E)) = 2 * Len(E) /\ Len(E) \in Nat
      BY <2>6, HalvesType
    <3>2. Halves(E) = <<>>
      BY <2>5, <2>6
    <3>3. Len(E) = 0
      BY <3>1, <3>2
    <3> QED  BY <2>6, <3>3, EmptySeq
  <2>8. x.got \in Seq(Evs) /\ x.got \o <<>> = x.got
    BY <2>3, ConcatEmptySeq DEF SseEnds, SseReads
  <2>9. s.sent = x.got
    BY <2>6, <2>7, <2>8 DEF Carries
  <2> QED  BY <1>1, <2>3, <2>9 DEF SseOver, SseEnds
<1> QED  BY <1>1, <1>2, <1>3 DEF Flow

\* fetch() returned a response with a body.
LEMMA RespondFlows ==
    ASSUME NEW x, NEW k, NEW s, Path(x), Talk(k, s), Flow("sse", x, k, s),
           x.pc = "fetching", x.via = "sse", k.cut \/ s.pc # "idle",
           NEW y, y = [x EXCEPT !.pc = "reading"]
    PROVE  Path(y) /\ y.via = "sse" /\ Flow("sse", y, k, s)
<1>1. /\ {"pc", "via", "queue", "rest", "done", "wsError", "got"} \subseteq DOMAIN y
      /\ y.via = "sse" /\ y.pc = "reading" /\ y.got = x.got
      /\ y.queue = x.queue /\ y.rest = x.rest
  BY DEF Path
<1>2. Path(y)
  BY <1>1 DEF Path
<1>3. ASSUME ~k.cut
      PROVE  SseOpen(x, k, s) \/ SseEnds(x, k, s)
  BY <1>3 DEF Flow, SseFlow, SseAsks, SseOver, Talk
<1>4. ASSUME SseReads(x)
      PROVE  SseReads(y)
  BY <1>1, <1>4 DEF SseReads
<1>5. ASSUME NEW B, Holds(x, s, B)
      PROVE  Holds(y, s, B)
  BY <1>1, <1>5 DEF Holds, Carries
<1>6. SseFlow(y, k, s)
  BY <1>3, <1>4, <1>5 DEF SseFlow, SseOpen, SseEnds
<1> QED  BY <1>1, <1>2, <1>6 DEF Flow

\* execute() returns the answer.
LEMMA AnswerFlows ==
    ASSUME NEW x, NEW k, NEW s, Path(x), Talk(k, s), Flow("post", x, k, s),
           x.pc = "fetching", x.via = "post", k.frames # <<>>,
           NEW y, y = [x EXCEPT !.pc = "returned", !.got = <<Head(k.frames)>>]
    PROVE  Path(y) /\ y.via = "post" /\ Flow("post", y, k, s)
<1>1. /\ {"pc", "via", "queue", "rest", "done", "wsError", "got"} \subseteq DOMAIN y
      /\ y.via = "post" /\ y.pc = "returned" /\ y.got = <<Head(k.frames)>>
  BY DEF Path
<1>2. Path(y)
  BY <1>1 DEF Path
<1>3. PostFlow(y, k, s)
  <2> SUFFICES ASSUME ~k.cut
               PROVE  PostAnswers(y, k, s)
    BY DEF PostFlow
  <2>1. PostAnswers(x, k, s)
    BY DEF Flow, PostFlow, PostAsks, Talk
  <2>2. Head(k.frames) = Last(s.sent)
    BY <2>1 DEF PostAnswers
  <2> QED  BY <1>1, <2>1, <2>2 DEF PostAnswers
<1> QED  BY <1>1, <1>2, <1>3 DEF Flow

\* A generator that is gone.
LEMMA EndedFlows ==
    ASSUME NEW pc \in {"threw", "left"}, NEW t \in Kind, NEW k, NEW s
    PROVE  Path(Ended(pc)) /\ Ended(pc).via = "none" /\ Flow(t, Ended(pc), k, s)
<1>1. Path(Ended(pc)) /\ Ended(pc).via = "none"
  BY DEF Path, Ended, Idle
<1> QED  BY <1>1, Elsewhere DEF Kind

\* A generator that has just asked for its connection.
Asking(t, x) == /\ {"pc", "via", "queue", "rest", "done", "wsError", "got"} \subseteq DOMAIN x
                /\ x.pc = (IF t = "ws" THEN "waiting" ELSE "fetching") /\ x.via = t
                /\ Nothing(x) /\ x.rest = <<>> /\ ~x.done /\ ~x.wsError

\* A request that nobody made before is made.
LEMMA AskFlows ==
    ASSUME NEW t \in Kind, NEW k, NEW s, Talk(k, s), k.state = "none",
           NEW x, Asking(t, x),
           NEW l, l = [k EXCEPT !.state = "connecting"]
    PROVE  Path(x) /\ x.via = t /\ Talk(l, s) /\ Flow(t, x, l, s)
<1>1. /\ {"state", "frames", "cut"} \subseteq DOMAIN l
      /\ l.state = "connecting" /\ l.cut = k.cut /\ l.frames = <<>>
  BY DEF Talk
<1>2. Talk(l, s)
  BY <1>1 DEF Talk
<1>3. /\ x.via = t /\ x.pc = IF t = "ws" THEN "waiting" ELSE "fetching"
      /\ Nothing(x) /\ x.rest = <<>> /\ ~x.done /\ ~x.wsError
  BY DEF Asking
<1>4. Path(x)
  BY <1>3 DEF Asking, Path, Kind
<1>5. <<>> \in Seq(Marks)
  OBVIOUS
<1> QED  BY <1>1, <1>2, <1>3, <1>4, <1>5
         DEF Flow, WsFlow, NoSent, SseFlow, PostFlow, WsAsks, SseAsks, PostAsks, Kind

\* A request is accepted: its handler is called.
LEMMA AcceptFlows ==
    ASSUME NEW t \in Kind, NEW x, NEW k, NEW s, Path(x), Talk(k, s), Flow(t, x, k, s),
           k.state = "connecting",
           NEW l, l = [k EXCEPT !.state = "open"],
           NEW z, z = [s EXCEPT !.pc = "requested"]
    PROVE  Talk(l, z) /\ Flow(t, x, l, z)
<1>1. /\ {"state", "frames", "cut"} \subseteq DOMAIN l
      /\ l.state = "open" /\ ~l.cut /\ ~k.cut /\ l.frames = <<>>
      /\ {"pc", "sent"} \subseteq DOMAIN z
      /\ z.pc = "requested" /\ z.sent = <<>>
  BY DEF Talk
<1>2. /\ <<>> \in Seq(Evs) /\ <<>> \in Seq(Parts) /\ <<>> \in Seq(Marks)
      /\ (<<>> \o <<>>) \o <<>> = <<>> /\ <<>> \o <<>> = <<>>
  OBVIOUS
<1>3. Talk(l, z)
  BY <1>1, <1>2 DEF Talk
<1>4. ASSUME Nothing(x)
      PROVE  Carries(x, z, <<>>)
  BY <1>1, <1>2, <1>4 DEF Nothing, Carries
<1>5. ASSUME t = "ws"
      PROVE  WsFlow(x, l, z) /\ NoSent(x, l, z)
  <2> SUFFICES ASSUME x.via = "ws"
               PROVE  WsOpen(x, l, z) /\ Nothing(x) /\ l.frames \in Seq(Marks)
    BY DEF WsFlow, NoSent
  <2>1. WsAsks(x, k)
    BY <1>1, <1>5 DEF Flow, WsFlow, WsRefused, WsOpen, WsCloses, WsOver
  <2> QED  BY <1>1, <1>2, <1>4, <2>1 DEF WsAsks, WsOpen, WsListens, Nothing, Open
<1>6. ASSUME t = "sse"
      PROVE  SseFlow(x, l, z)
  <2> SUFFICES ASSUME x.via = "sse"
               PROVE  SseOpen(x, l, z)
    BY DEF SseFlow
  <2>1. SseAsks(x, k)
    <3>1. s.pc = "idle"
      BY DEF Talk
    <3> QED  BY <1>1, <1>6, <3>1 DEF Flow, SseFlow, SseOpen, SseEnds, SseOver
  <2>2. Halves(<<>>) = <<>>
    <3>1. Halves(<<>>) \in Seq(Parts) /\ Len(Halves(<<>>)) = 2 * Len(<<>>)
      BY <1>2, HalvesType
    <3> HIDE DEF Halves
    <3> QED  BY <3>1, EmptySeq
  <2>3. Holds(x, z, <<>>)
    BY <1>2, <1>4, <2>1, <2>2 DEF Holds, SseAsks
  <2> QED  BY <1>1, <1>2, <2>1, <2>3 DEF SseAsks, SseOpen, SseReads, Nothing, Open
<1>7. t = "post" => PostFlow(x, l, z)
  BY <1>1 DEF Flow, PostFlow, PostAsks, PostAnswers
<1> QED  BY <1>3, <1>5, <1>6, <1>7 DEF Flow

\* The handler goes on, or its stream is gone; nothing is sent.
LEMMA ServeFlows ==
    ASSUME NEW t \in Kind, NEW x, NEW k, NEW s, Path(x), Talk(k, s), Flow(t, x, k, s),
           NEW z,
           \/ s.pc = "requested" /\ z = [s EXCEPT !.pc = "executing"]
           \/ s.pc = "executing" /\ z = [s EXCEPT !.pc = "stopping"] /\ k.cut /\ t = "sse"
    PROVE  Talk(k, z) /\ Flow(t, x, k, z)
<1>1. /\ {"pc", "sent"} \subseteq DOMAIN z /\ z.sent = s.sent
      /\ \/ s.pc = "requested" /\ z.pc = "executing"
         \/ s.pc = "executing" /\ z.pc = "stopping" /\ k.cut /\ t = "sse"
  BY DEF Talk
<1>2. Talk(k, z)
  BY <1>1 DEF Talk
<1>3. \A F : /\ Carries(x, s, F) => Carries(x, z, F)
             /\ Holds(x, s, F) => Holds(x, z, F)
  BY <1>1 DEF Carries, Holds
<1>4. t = "ws" => WsFlow(x, k, z) /\ NoSent(x, k, z)
  BY <1>1, <1>3 DEF Flow, WsFlow, WsOpen, WsCloses, WsOver, NoSent, Open
<1>5. t = "sse" => SseFlow(x, k, z)
  BY <1>1, <1>3 DEF Flow, SseFlow, SseOpen, SseEnds, SseOver, Open
<1>6. t = "post" => PostFlow(x, k, z)
  BY <1>1 DEF Flow, PostFlow, PostAsks, PostAnswers
<1> QED  BY <1>2, <1>4, <1>5, <1>6 DEF Flow

\* An upgrade fails.
LEMMA RefuseFlows ==
    ASSUME NEW x, NEW k, NEW s, Path(x), Talk(k, s), Flow("ws", x, k, s),
           k.state = "connecting",
           NEW l, l = [k EXCEPT !.state = "closed", !.frames = <<"broken", "close">>]
    PROVE  Talk(l, s) /\ Flow("ws", x, l, s)
<1>1. /\ {"state", "frames", "cut"} \subseteq DOMAIN l
      /\ l.state = "closed" /\ l.cut = k.cut /\ ~k.cut /\ l.frames = <<"broken", "close">>
  BY DEF Talk
<1>2. Talk(l, s)
  BY <1>1 DEF Talk
<1>3. x.via = "ws" => WsAsks(x, k)
  BY <1>1 DEF Flow, WsFlow, WsRefused, WsOpen, WsCloses, WsOver
<1>4. <<"broken", "close">> \in Seq(Marks)
  BY DEF Marks
<1> QED  BY <1>1, <1>2, <1>3, <1>4 DEF Flow, WsFlow, NoSent, WsAsks, WsRefused, Nothing

-----------------------------------------------------------------------------
\* The steps of a generator.
LEMMA ClientFlows ==
    ASSUME OnceInv, FlowInv, NEW c \in Calls,
           \/ Wake(c) \/ Rethrows(c) \/ Resume(c) \/ Leave(c)
           \/ OnMessage(c) \/ OnError(c) \/ OnClose(c)
           \/ Responds(c) \/ YieldLine(c) \/ ReadOn(c) \/ BodyEnds(c)
           \/ Answered(c) \/ FetchThrows(c)
           \/ \E n \in 1 .. 2 * (MaxEvents + 1) : Reads(c, n)
    PROVE  FlowInv'
<1> DEFINE x == call[c]
           k(t) == conn[<<c, t>>]
           s(t) == server[<<c, t>>]
           State(t) == /\ Path(x) /\ Talk(k(t), s(t)) /\ Flow(t, x, k(t), s(t))
<1>1. Shapes /\ \A t \in Kind : State(t)
  BY DEF OnceInv, FlowInv
<1>2. ASSUME NEW t \in Kind, NEW y, call' = [call EXCEPT ![c] = y], UNCHANGED <<conn, server>>,
             y.via \in {t, "none"}, Path(y), Flow(t, y, k(t), s(t))
      PROVE  FlowInv'
  <2>1. Talk(k(t), s(t))
    BY <1>1, <1>2
  <2> QED  BY <1>1, <1>2, <2>1, FlowsTo
<1>3. ASSUME NEW t \in Kind, NEW y, call' = [call EXCEPT ![c] = y],
             NEW l, conn' = [conn EXCEPT ![<<c, t>>] = l], UNCHANGED server,
             y.via \in {t, "none"}, Path(y), Talk(l, s(t)), Flow(t, y, l, s(t))
      PROVE  FlowInv'
  BY <1>1, <1>3, FlowsTo
<1>4. {"ws", "sse", "post"} \subseteq Kind /\ x.via \in {"none"} \union Kind
  BY <1>1 DEF Kind, Path
<1>5. ASSUME NEW pc \in {"threw", "left"}, call' = [call EXCEPT ![c] = Ended(pc)],
             UNCHANGED <<conn, server>>
      PROVE  FlowInv'
  <2>1. /\ Path(Ended(pc)) /\ Ended(pc).via \in {"ws", "none"}
        /\ Flow("ws", Ended(pc), k("ws"), s("ws"))
    BY <1>4, EndedFlows
  <2> QED  BY <1>2, <1>4, <1>5, <2>1
<1>6. CASE (Wake(c) \/ Resume(c)) /\ GoesOn(c)
  <2> DEFINE y == IF x.queue # <<>>
                    THEN [x EXCEPT !.got = Append(@, Head(x.queue)),
                                   !.queue = Tail(@), !.pc = "yielded"]
                    ELSE IF x.done THEN [x EXCEPT !.pc = "returned"]
                    ELSE [x EXCEPT !.pc = "waiting"]
  <2>1. call' = [call EXCEPT ![c] = y] /\ UNCHANGED <<conn, server>>
    BY <1>6 DEF GoesOn, Yields
  <2>2. x.via = "ws" /\ ((x.pc = "woken" /\ ~x.wsError) \/ x.pc = "yielded")
    BY <1>1, <1>4, <1>6 DEF Wake, Resume, Path
  <2>3. State("ws")
    BY <1>1, <1>4
  <2>4. Path(y) /\ y.via = "ws" /\ Flow("ws", y, k("ws"), s("ws"))
    <3> HIDE DEF k, s, x
    <3> QED  BY <2>2, <2>3, WsGoesOn
  <2> HIDE DEF y
  <2> QED  BY <1>2, <1>4, <2>1, <2>4
<1>7. CASE Rethrows(c)
  <2> DEFINE l == [k("ws") EXCEPT !.frames = <<>>]
  <2>1. /\ call' = [call EXCEPT ![c] = Ended("threw")] /\ UNCHANGED server
        /\ conn' = [conn EXCEPT ![<<c, "ws">>] = l]
    BY <1>7 DEF Rethrows, Ws
  <2>2. Talk(l, s("ws"))
    <3>1. Talk(k("ws"), s("ws"))
      BY <1>1, <1>4
    <3> QED  BY <3>1 DEF Talk
  <2> HIDE DEF l
  <2>3. /\ Path(Ended("threw")) /\ Ended("threw").via = "none"
        /\ Flow("ws", Ended("threw"), l, s("ws"))
    BY <1>4, EndedFlows
  <2> QED  BY <1>3, <1>4, <2>1, <2>2, <2>3
<1>8. CASE Leave(c)
  <2>1. CASE x.via # "ws"
    BY <1>5, <1>8, <2>1 DEF Leave
  <2>2. CASE x.via = "ws"
    <3> DEFINE l == [k("ws") EXCEPT !.state = "closed", !.frames = <<>>]
    <3>1. /\ call' = [call EXCEPT ![c] = Ended("left")] /\ UNCHANGED server
          /\ conn' = [conn EXCEPT ![<<c, "ws">>] = l]
      BY <1>8, <2>2 DEF Leave, Ws
    <3>2. Talk(l, s("ws"))
      <4>1. Talk(k("ws"), s("ws"))
        BY <1>1, <1>4
      <4> QED  BY <4>1 DEF Talk
    <3> HIDE DEF l
    <3>3. /\ Path(Ended("left")) /\ Ended("left").via = "none"
          /\ Flow("ws", Ended("left"), l, s("ws"))
      BY <1>4, EndedFlows
    <3> QED  BY <1>3, <1>4, <3>1, <3>2, <3>3
  <2> QED  BY <2>1, <2>2
<1>9. CASE OnMessage(c) \/ OnError(c) \/ OnClose(c)
  <2> DEFINE l == [k("ws") EXCEPT !.frames = Tail(@)]
             f == k("ws").frames
  <2>1. PICK y : Received(c, y) /\ Takes(x, Head(f), y)
    BY <1>9 DEF OnMessage, OnError, OnClose, Wakes, Ws, Marks, Takes
  <2>2. /\ x.via = "ws" /\ x.pc \in {"waiting", "yielded"} /\ f # <<>>
        /\ call' = [call EXCEPT ![c] = y] /\ UNCHANGED server
        /\ conn' = [conn EXCEPT ![<<c, "ws">>] = l]
    BY <2>1 DEF Received, Listening, Ws
  <2>3. State("ws")
    BY <1>1, <1>4
  <2>4. Path(y) /\ y.via = "ws" /\ Talk(l, s("ws")) /\ Flow("ws", y, l, s("ws"))
    <3> HIDE DEF k, s, x
    <3> QED  BY <2>1, <2>2, <2>3, WsReceives
  <2> HIDE DEF l
  <2> QED  BY <1>3, <1>4, <2>2, <2>4
<1>10. CASE Responds(c)
  <2> DEFINE y == [x EXCEPT !.pc = "reading"]
  <2>1. /\ x.pc = "fetching" /\ x.via = "sse" /\ UNCHANGED <<conn, server>>
        /\ \/ call' = [call EXCEPT ![c] = Ended("threw")]
           \/ call' = [call EXCEPT ![c] = y] /\ s("sse").pc # "idle"
    BY <1>10 DEF Responds, Sse
  <2>2. State("sse")
    BY <1>1, <1>4
  <2>3. CASE s("sse").pc # "idle" /\ call' = [call EXCEPT ![c] = y]
    <3>1. Path(y) /\ y.via = "sse" /\ Flow("sse", y, k("sse"), s("sse"))
      <4> HIDE DEF k, s, x
      <4> QED  BY <2>1, <2>2, <2>3, RespondFlows
    <3> HIDE DEF y
    <3> QED  BY <1>2, <1>4, <2>1, <2>3, <3>1
  <2> QED  BY <1>5, <2>1, <2>3
<1>11. CASE YieldLine(c) \/ ReadOn(c)
  <2>1. PICK y : /\ call' = [call EXCEPT ![c] = y] /\ UNCHANGED <<conn, server>>
                 /\ \/ /\ x.pc = "reading" /\ x.queue # <<>>
                       /\ y = [x EXCEPT !.got = Append(@, Head(x.queue)), !.queue = Tail(@),
                                        !.pc = "yielded"]
                    \/ x.pc = "yielded" /\ x.via = "sse" /\ y = [x EXCEPT !.pc = "reading"]
    BY <1>11 DEF YieldLine, ReadOn, Yields
  <2>2. State("sse") /\ x.via = "sse"
    BY <1>1, <1>4, <2>1 DEF Path
  <2>3. Path(y) /\ y.via = "sse" /\ Flow("sse", y, k("sse"), s("sse"))
    <3> HIDE DEF k, s, x
    <3> QED  BY <2>1, <2>2, LineFlows
  <2> QED  BY <1>2, <1>4, <2>1, <2>3
<1>12. CASE BodyEnds(c)
  <2> DEFINE y == [x EXCEPT !.pc = "returned"]
  <2>1. /\ x.pc = "reading" /\ x.queue = <<>> /\ k("sse").frames # <<>>
        /\ Body(k("sse").frames) = <<>> /\ UNCHANGED <<conn, server>>
        /\ \/ call' = [call EXCEPT ![c] = Ended("threw")]
           \/ call' = [call EXCEPT ![c] = y] /\ x.rest = <<>>
    BY <1>12 DEF BodyEnds, Bytes, Sse
  <2>2. State("sse")
    BY <1>1, <1>4
  <2>3. CASE call' = [call EXCEPT ![c] = y] /\ x.rest = <<>>
    <3>1. Path(y) /\ y.via = "sse" /\ Flow("sse", y, k("sse"), s("sse"))
      <4> HIDE DEF k, s, x
      <4> QED  BY <2>1, <2>2, <2>3, EndFlows
    <3> HIDE DEF y
    <3> QED  BY <1>2, <1>4, <2>1, <2>3, <3>1
  <2> QED  BY <1>5, <2>1, <2>3
<1>13. CASE Answered(c)
  <2> DEFINE y == [x EXCEPT !.pc = "returned", !.got = <<Head(k("post").frames)>>]
  <2>1. /\ x.pc = "fetching" /\ x.via = "post" /\ UNCHANGED <<conn, server>>
        /\ \/ call' = [call EXCEPT ![c] = Ended("threw")]
           \/ call' = [call EXCEPT ![c] = y] /\ k("post").frames # <<>>
    BY <1>13 DEF Answered, Post
  <2>2. State("post")
    BY <1>1, <1>4
  <2>3. CASE call' = [call EXCEPT ![c] = y] /\ k("post").frames # <<>>
    <3>1. Path(y) /\ y.via = "post" /\ Flow("post", y, k("post"), s("post"))
      <4> HIDE DEF k, s, x
      <4> QED  BY <2>1, <2>2, <2>3, AnswerFlows
    <3> HIDE DEF y
    <3> QED  BY <1>2, <1>4, <2>1, <2>3, <3>1
  <2> QED  BY <1>5, <2>1, <2>3
<1>14. CASE FetchThrows(c)
  BY <1>5, <1>14 DEF FetchThrows
<1>15. ASSUME NEW n, Reads(c, n)
       PROVE  FlowInv'
  <2> DEFINE P == x.rest \o SubSeq(Body(k("sse").frames), 1, n)
             l == [k("sse") EXCEPT !.frames = SubSeq(@, n + 1, Len(@))]
             y == [x EXCEPT !.rest = PopLines(P), !.queue = Lines(P)]
  <2>1. /\ x.pc = "reading" /\ x.queue = <<>> /\ n \in 1 .. Len(Body(k("sse").frames))
        /\ call' = [call EXCEPT ![c].rest = PopLines(P), ![c].queue = Lines(P)]
        /\ conn' = [conn EXCEPT ![<<c, "sse">>] = l] /\ UNCHANGED server
    BY <1>15 DEF Reads, Bytes, Events, Sse
  <2>2. State("sse")
    BY <1>1, <1>4
  <2>3. Path(y) /\ y.via = "sse" /\ Talk(l, s("sse")) /\ Flow("sse", y, l, s("sse"))
    <3> HIDE DEF k, s, x
    <3> QED  BY <2>1, <2>2, ReadFlows
  <2> HIDE DEF P, l
  <2>4. call' = [call EXCEPT ![c] = y]
    BY <1>1, <2>1 DEF Shapes
  <2> HIDE DEF y
  <2> QED  BY <1>3, <1>4, <2>1, <2>3, <2>4
<1> QED  BY <1>6, <1>7, <1>8, <1>9, <1>10, <1>11, <1>12, <1>13, <1>14, <1>15 DEF Wake, Resume

\* The steps of the server and of the network, and what becomes of an upgrade.
LEMMA ServerFlows ==
    ASSUME OnceInv, FlowInv, NEW c \in Calls, NEW t \in Kind,
           \/ ServerStep(<<c, t>>) \/ Cut(<<c, t>>)
           \/ t = "ws" /\ (OnOpen(c) \/ ConnectFails(c))
    PROVE  FlowInv'
<1> DEFINE r == <<c, t>>
           x == call[c]
           k == conn[r]
           s == server[r]
<1>1. Shapes /\ Path(x) /\ Talk(k, s) /\ Flow(t, x, k, s)
  BY DEF OnceInv, FlowInv
<1>2. ASSUME UNCHANGED call, NEW l, NEW z, Talk(l, z), Flow(t, x, l, z),
             \/ UNCHANGED conn /\ l = k
             \/ conn' = [conn EXCEPT ![r] = l],
             \/ UNCHANGED server /\ z = s
             \/ server' = [server EXCEPT ![r] = z]
      PROVE  FlowInv'
  BY <1>1, <1>2, FlowsTo
<1>3. CASE Validate(r)
  BY <1>3 DEF Validate, clientVars, FlowInv
<1>4. CASE (t = "ws" /\ OnOpen(c)) \/ Accept(c, t)
  <2> DEFINE l == [k EXCEPT !.state = "open"]
             z == [s EXCEPT !.pc = "requested"]
  <2>1. CASE t = "ws" /\ OnOpen(c)
    <3>1. k.state = "connecting" /\ UNCHANGED call
      BY <2>1 DEF OnOpen, Ws
    <3>2. conn' = [conn EXCEPT ![r] = l] /\ server' = [server EXCEPT ![r] = z]
      BY <2>1 DEF OnOpen, Ws
    <3>3. Talk(l, z) /\ Flow(t, x, l, z)
      <4> HIDE DEF k, s, x
      <4> QED  BY <1>1, <3>1, AcceptFlows
    <3> HIDE DEF l, z
    <3> QED  BY <1>2, <3>1, <3>2, <3>3
  <2>2. CASE Accept(c, t)
    <3>1. k.state = "connecting" /\ UNCHANGED call
      BY <2>2 DEF Accept, clientVars
    <3>2. conn' = [conn EXCEPT ![r] = l] /\ server' = [server EXCEPT ![r] = z]
      BY <2>2 DEF Accept
    <3>3. Talk(l, z) /\ Flow(t, x, l, z)
      <4> HIDE DEF k, s, x
      <4> QED  BY <1>1, <3>1, AcceptFlows
    <3> HIDE DEF l, z
    <3> QED  BY <1>2, <3>1, <3>2, <3>3
  <2> QED  BY <1>4, <2>1, <2>2
<1>5. CASE Begin(r) \/ EnqueueThrows(r)
  <2>1. PICK z : /\ server' = [server EXCEPT ![r] = z] /\ UNCHANGED <<call, conn>>
                 /\ \/ s.pc = "requested" /\ z = [s EXCEPT !.pc = "executing"]
                    \/ /\ s.pc = "executing" /\ z = [s EXCEPT !.pc = "stopping"]
                       /\ k.cut /\ t = "sse"
    BY <1>5 DEF Begin, EnqueueThrows, clientVars
  <2>2. Talk(k, z) /\ Flow(t, x, k, z)
    <3> HIDE DEF k, s, x
    <3> QED  BY <1>1, <2>1, ServeFlows
  <2> QED  BY <1>2, <2>1, <2>2
<1>6. ASSUME NEW e \in Evs, Emit(r, e)
      PROVE  FlowInv'
  <2> DEFINE z == [pc |-> IF e = "out" THEN "executing" ELSE "stopping",
                   sent |-> Append(s.sent, e)]
             written == Written(r, e)
             l == IF k.state = "open" THEN [k EXCEPT !.frames = @ \o written] ELSE k
  <2>1. s.pc = "executing" /\ server' = [server EXCEPT ![r] = z] /\ UNCHANGED call
    BY <1>6 DEF Emit, clientVars
  <2>2. \/ UNCHANGED conn /\ l = k
        \/ conn' = [conn EXCEPT ![r] = l]
    BY <1>6 DEF Emit, Sends
  <2>3. /\ t = "ws" => written = <<e>>
        /\ t = "sse" => written = <<Part(e, FALSE), Part(e, TRUE)>>
        /\ t = "post" => written = IF e = "out" THEN <<>> ELSE <<e>>
    BY DEF Written
  <2> HIDE DEF written
  <2>4. Talk(l, z) /\ Flow(t, x, l, z)
    <3> HIDE DEF k, s, x
    <3> QED  BY <1>1, <2>1, <2>3, EmitFlows
  <2> HIDE DEF l, z
  <2> QED  BY <1>2, <2>1, <2>2, <2>4
<1>7. CASE Finish(r)
  <2> DEFINE z == [s EXCEPT !.pc = "ended"]
             l == IF k.state # "open" \/ t = "post" THEN k
                  ELSE [k EXCEPT !.state = "closed",
                                 !.frames = Append(@, IF t = "ws" THEN "close" ELSE End)]
  <2>1. s.pc = "stopping" /\ server' = [server EXCEPT ![r] = z] /\ UNCHANGED call
    BY <1>7 DEF Finish, clientVars
  <2>2. \/ UNCHANGED conn /\ l = k
        \/ conn' = [conn EXCEPT ![r] = l]
    BY <1>7 DEF Finish, End
  <2>3. Talk(l, z) /\ Flow(t, x, l, z)
    <3> HIDE DEF k, s, x
    <3> QED  BY <1>1, <2>1, FinishFlows
  <2> HIDE DEF l, z
  <2> QED  BY <1>2, <2>1, <2>2, <2>3
<1>8. CASE Cut(r)
  <2>1. PICK n \in 0 .. Len(k.frames), tail0 \in {<<"broken", "close">>, <<"close">>} :
          conn' = [conn EXCEPT ![r] =
                     [state |-> "closed", cut |-> TRUE,
                      frames |-> SubSeq(k.frames, 1, n) \o
                                   CASE r[2] = "ws" -> tail0
                                     [] r[2] = "sse" -> <<Part("broken", TRUE)>>
                                     [] r[2] = "post" -> <<>>]]
    BY <1>8 DEF Cut
  <2> DEFINE tail == CASE r[2] = "ws" -> tail0
                       [] r[2] = "sse" -> <<Part("broken", TRUE)>>
                       [] r[2] = "post" -> <<>>
             l == [state |-> "closed", cut |-> TRUE, frames |-> SubSeq(k.frames, 1, n) \o tail]
  <2>2. conn' = [conn EXCEPT ![r] = l] /\ UNCHANGED call
    BY <1>8, <2>1 DEF Cut, clientVars
  <2>3. PICK z : /\ z = s \/ (s.pc = "requested" /\ z = [s EXCEPT !.pc = "idle"])
                 /\ \/ UNCHANGED server /\ z = s
                    \/ server' = [server EXCEPT ![r] = z]
    BY <1>8 DEF Cut
  <2>4. t = "ws" => tail \in {<<"broken", "close">>, <<"close">>}
    BY <2>1
  <2> HIDE DEF tail
  <2>5. Talk(l, z) /\ Flow(t, x, l, z)
    <3> HIDE DEF k, s, x
    <3> QED  BY <1>1, <2>1, <2>3, <2>4, CutFlows
  <2> HIDE DEF l
  <2> QED  BY <1>2, <2>2, <2>3, <2>5
<1>9. CASE t = "ws" /\ ConnectFails(c)
  <2> DEFINE l == [k EXCEPT !.state = "closed", !.frames = <<"broken", "close">>]
  <2>1. /\ k.state = "connecting" /\ UNCHANGED <<call, server>>
        /\ conn' = [conn EXCEPT ![r] = l]
    BY <1>9 DEF ConnectFails, Ws
  <2>2. Talk(l, s) /\ Flow(t, x, l, s)
    <3> HIDE DEF k, s, x
    <3> QED  BY <1>1, <1>9, <2>1, RefuseFlows
  <2> HIDE DEF l
  <2> QED  BY <1>2, <2>1, <2>2
<1>10. r[1] = c /\ r[2] = t /\ \A e \in {"out", "exit 0", "exit 1", "error"} : e \in Evs
  BY DEF Evs
<1> QED  BY <1>3, <1>4, <1>5, <1>6, <1>7, <1>8, <1>9, <1>10 DEF ServerStep

\* A call makes a request.
LEMMA StartFlows ==
    ASSUME OnceInv, FlowInv, NEW c \in Calls,
           StreamWs(c) \/ StreamSse(c) \/ ExecutePost(c) \/ FallsBack(c)
    PROVE  FlowInv'
<1>1. Shapes /\ Path(call[c]) /\ {"ws", "sse", "post"} \subseteq Kind
  BY DEF OnceInv, FlowInv, Kind
<1>2. ASSUME NEW t \in Kind, NEW x, Asking(t, x), call' = [call EXCEPT ![c] = x],
             ~Touched(<<c, t>>), UNCHANGED server,
             conn' = [conn EXCEPT ![<<c, t>>].state = "connecting"]
      PROVE  FlowInv'
  <2> DEFINE k == conn[<<c, t>>]
             s == server[<<c, t>>]
             l == [k EXCEPT !.state = "connecting"]
  <2>1. Talk(k, s) /\ k.state = "none"
    BY <1>2 DEF FlowInv, Touched
  <2>2. Path(x) /\ x.via = t /\ Talk(l, s) /\ Flow(t, x, l, s)
    <3> HIDE DEF k, s
    <3> QED  BY <1>2, <2>1, AskFlows
  <2>3. conn' = [conn EXCEPT ![<<c, t>>] = l]
    BY <1>2
  <2> HIDE DEF l
  <2> QED  BY <1>1, <1>2, <2>2, <2>3, FlowsTo
<1>3. ASSUME NEW t \in Kind, call[c].pc = "new", UNCHANGED server,
             NEW pc, pc = IF t = "ws" THEN "waiting" ELSE "fetching",
             call' = [call EXCEPT ![c].pc = pc, ![c].via = t],
             conn' = [conn EXCEPT ![<<c, t>>].state = "connecting"]
      PROVE  FlowInv'
  <2> DEFINE x == [call[c] EXCEPT !.pc = pc, !.via = t]
  <2>1. call[c] = Idle /\ ~Touched(<<c, t>>)
    BY <1>1, <1>3 DEF Path, OnceInv, Ways, Ws, Sse, Post, Kind
  <2>2. Asking(t, x)
    BY <1>3, <2>1 DEF Asking, Idle, Nothing
  <2>3. call' = [call EXCEPT ![c] = x]
    BY <1>3
  <2> HIDE DEF x
  <2> QED  BY <1>2, <1>3, <2>1, <2>2, <2>3
<1>4. CASE StreamWs(c)
  BY <1>1, <1>3, <1>4 DEF StreamWs, MayStart, Fetch, Ws
<1>5. CASE StreamSse(c)
  BY <1>1, <1>3, <1>5 DEF StreamSse, MayStart, Fetch, Sse
<1>6. CASE ExecutePost(c)
  BY <1>1, <1>3, <1>6 DEF ExecutePost, MayStart, Fetch, Post
<1>7. CASE FallsBack(c)
  <2> DEFINE x == [Idle EXCEPT !.pc = "fetching", !.via = "sse", !.got = call[c].got]
  <2>1. /\ call[c].pc = "woken" /\ wsAvailable = "unknown" /\ UNCHANGED server
        /\ call' = [call EXCEPT ![c] = x]
        /\ conn' = [conn EXCEPT ![<<c, "sse">>].state = "connecting"]
    BY <1>7 DEF FallsBack, Fetch, Sse
  <2>2. call[c].via = "ws" /\ ~Touched(<<c, "sse">>) /\ ~Reached(<<c, "ws">>)
    BY <2>1 DEF OnceInv, Ways, Ws, Sse
  <2>3. call[c].got = <<>>
    <3>1. /\ Talk(conn[<<c, "ws">>], server[<<c, "ws">>])
          /\ Flow("ws", call[c], conn[<<c, "ws">>], server[<<c, "ws">>])
      BY <1>1 DEF FlowInv
    <3> QED  BY <2>2, <3>1 DEF Reached, Talk, Flow, NoSent, Nothing
  <2>4. Asking("sse", x)
    BY <2>3 DEF Asking, Idle, Nothing
  <2> HIDE DEF x
  <2> QED  BY <1>1, <1>2, <2>1, <2>2, <2>4
<1> QED  BY <1>4, <1>5, <1>6, <1>7

\* Every step keeps what is known of the connections.
LEMMA FlowStep ==
    ASSUME OnceInv, FlowInv, [Next]_vars
    PROVE  FlowInv'
<1>1. ASSUME \/ \E k \in Keys, ttl \in 0 .. MaxTime : Login(k, ttl)
             \/ Logout \/ Connect \/ Administer \/ UNCHANGED vars
      PROVE  FlowInv'
  BY <1>1 DEF Login, Logout, Connect, Administer, vars, FlowInv
<1>2. ASSUME NEW c \in Calls, ClientStep(c) \/ Leave(c)
      PROVE  FlowInv'
  <2>1. "ws" \in Kind
    BY DEF Kind
  <2> QED  BY <1>2, <2>1, ClientFlows, ServerFlows, StartFlows DEF ClientStep
<1>3. ASSUME NEW c \in Calls, StreamWs(c) \/ StreamSse(c) \/ ExecutePost(c)
      PROVE  FlowInv'
  BY <1>3, StartFlows
<1>4. ASSUME NEW c \in Calls, NEW t \in Kind, ServerStep(<<c, t>>) \/ Cut(<<c, t>>)
      PROVE  FlowInv'
  BY <1>4, ServerFlows
<1>5. \A r \in Requests : \E c \in Calls, t \in Kind : r = <<c, t>>
  BY DEF Requests, Kind
<1> QED  BY <1>1, <1>2, <1>3, <1>4, <1>5 DEF Next, CallStep, Kind

\* It always holds, next to what is known of who made them (OnceInv).
LEMMA FlowAlways == Spec => [](OnceInv /\ FlowInv)
<1>1. Init => FlowInv
  <2> SUFFICES ASSUME Init
               PROVE  FlowInv
    OBVIOUS
  <2>1. Path(Idle) /\ Idle.via = "none"
    BY DEF Path, Idle, Kind
  <2>2. ASSUME NEW c \in Calls, NEW t \in Kind
        PROVE  /\ call[c] = Idle
               /\ conn[<<c, t>>] = [state |-> "none", frames |-> <<>>, cut |-> FALSE]
               /\ server[<<c, t>>] = [pc |-> "idle", sent |-> <<>>]
    BY DEF Init, Requests, Kind
  <2>3. ASSUME NEW c \in Calls, NEW t \in Kind
        PROVE  /\ Talk(conn[<<c, t>>], server[<<c, t>>])
               /\ Flow(t, call[c], conn[<<c, t>>], server[<<c, t>>])
    <3>1. Talk(conn[<<c, t>>], server[<<c, t>>])
      <4>1. ASSUME NEW k, k = [state |-> "none", frames |-> <<>>, cut |-> FALSE],
                   NEW s, s = [pc |-> "idle", sent |-> <<>>]
            PROVE  Talk(k, s)
        <5>1. <<>> \in Seq(Evs)
          OBVIOUS
        <5> QED  BY <4>1, <5>1 DEF Talk
      <4> QED  BY <2>2, <4>1
    <3>2. Idle.via # t
      BY <2>1 DEF Kind
    <3>3. Flow(t, Idle, conn[<<c, t>>], server[<<c, t>>])
      BY <3>2, Elsewhere
    <3> QED  BY <2>2, <3>1, <3>3
  <2>4. \A c \in Calls : call[c] = Idle
    BY DEF Init
  <2> QED  BY <2>1, <2>3, <2>4 DEF FlowInv
<1>2. OnceInv /\ FlowInv /\ [Next]_vars => FlowInv'
  BY FlowStep
<1> QED  BY <1>1, <1>2, OnceAlways, PTL DEF Spec

\* A call that returned over a connection that was not cut has what was sent.
LEMMA ReturnedHas ==
    ASSUME FlowInv, NEW c \in Calls, call[c].pc = "returned", ~conn[<<c, call[c].via>>].cut
    PROVE  LET s == server[<<c, call[c].via>>]
           IN  /\ s.pc \in {"stopping", "ended"} /\ s.sent \in Seq(Evs)
               /\ s.sent # <<>> /\ Last(s.sent) # "out"
               /\ call[c].got = IF call[c].via = "post" THEN <<Last(s.sent)>> ELSE s.sent
<1> DEFINE x == call[c]
           t == x.via
           k == conn[<<c, t>>]
           s == server[<<c, t>>]
<1>1. Path(x) /\ t \in Kind
  BY DEF FlowInv, Path
<1>2. Talk(k, s) /\ Flow(t, x, k, s)
  BY <1>1 DEF FlowInv
<1> HIDE DEF k, s, x
<1>3. /\ s.pc \in {"stopping", "ended"}
      /\ x.got = IF t = "post" THEN <<Last(s.sent)>> ELSE s.sent
  <2>1. CASE t = "ws"
    <3>1. WsOver(x, k, s) /\ x.queue = <<>> /\ x.got \in Seq(Evs)
      BY <1>2, <2>1 DEF Flow, WsFlow, WsAsks, WsRefused, WsOpen, WsCloses, WsOver, WsListens, k, x
    <3>2. x.got \o <<>> = x.got
      BY <3>1, ConcatEmptySeq
    <3> QED  BY <2>1, <3>1, <3>2 DEF WsOver, Carries
  <2>2. CASE t = "sse"
    BY <1>2, <2>2 DEF Flow, SseFlow, SseAsks, SseOpen, SseEnds, SseOver, SseReads, k, x
  <2>3. CASE t = "post"
    BY <1>2, <2>3 DEF Flow, PostFlow, PostAsks, PostAnswers, k, x
  <2> QED  BY <1>1, <2>1, <2>2, <2>3 DEF Kind
<1>4. s.sent \in Seq(Evs) /\ s.sent # <<>> /\ Last(s.sent) # "out"
  BY <1>2, <1>3 DEF Talk, k, x
<1> QED  BY <1>3, <1>4 DEF s, x

\* Over any number of connections, with any number of events, in whatever pieces
\* a body is read: a call that returns gave its reader what its execution put
\* out, in order, unless its connection was cut.
THEOREM RemoteReturnedIsWhole == Spec => []ReturnedIsWhole
<1>1. FlowInv => ReturnedIsWhole
  BY ReturnedHas DEF ReturnedIsWhole, Whole
<1> QED  BY <1>1, FlowAlways, PTL

\* `isol8 run` does not exit with 0 unless the execution that it shows did.
THEOREM RemoteHonestExitCode == Spec => []HonestExitCode
<1>1. ASSUME FlowInv, NEW c \in Calls, call[c].pc = "returned",
             ~conn[<<c, call[c].via>>].cut, ExitCode(c) = 0
      PROVE  Last(server[<<c, call[c].via>>].sent) = "exit 0"
  <2> DEFINE sent == server[<<c, call[c].via>>].sent
             got == call[c].got
  <2>1. /\ sent \in Seq(Evs) /\ sent # <<>> /\ Last(sent) # "out"
        /\ got = <<Last(sent)>> \/ got = sent
    BY <1>1, ReturnedHas
  <2>2. \A n \in DOMAIN got : ~FailsOn(got[n])
    BY <1>1 DEF ExitCode
  <2> HIDE DEF sent, got
  <2>3. Len(sent) \in 1 .. Len(sent) /\ Len(sent) \in DOMAIN sent
    BY <2>1, EmptySeq
  <2>4. Last(sent) \in Evs
    BY <2>1, <2>3 DEF Last
  <2>5. ~FailsOn(Last(sent))
    <3>1. CASE got = <<Last(sent)>>
      <4>1. 1 \in DOMAIN got /\ got[1] = Last(sent)
        BY <3>1
      <4> QED  BY <2>2, <4>1
    <3>2. CASE got = sent
      BY <2>2, <2>3, <3>2 DEF Last
    <3> QED  BY <2>1, <3>1, <3>2
  <2>6. Last(sent) = "exit 0"
    BY <2>1, <2>4, <2>5 DEF Evs, FailsOn
  <2> QED  BY <2>6 DEF sent
<1>2. FlowInv => HonestExitCode
  BY <1>1 DEF HonestExitCode
<1> QED  BY <1>2, FlowAlways, PTL
=============================================================================
