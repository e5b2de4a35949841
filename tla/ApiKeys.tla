------------------------------ MODULE ApiKeys ------------------------------
(***************************************************************************)
(* The server's API keys: apps/server/src/auth.ts, the key store under     *)
(* apps/server/src/db and the /auth handlers of apps/server/src/index.ts.  *)
(* A request is admitted with the master key, or with a key whose row is   *)
(* neither revoked nor expired.  Rows are deleted by a periodic cleanup.   *)
(*                                                                         *)
(* SQLite answers a validation in one step, PostgreSQL and MySQL in two    *)
(* queries with awaits between them.  A key is a random value, so nobody   *)
(* holds it before createKey() returned it.  Tenants, names and            *)
(* lastUsedAt decide nothing and are left out.                             *)
(***************************************************************************)
EXTENDS Naturals

CONSTANTS Requests,  \* the HTTP requests that need to be admitted
          Keys,      \* the keys that createKey() will make
          Master,    \* options.apiKey, the static key
          Wrong,     \* a token that is no key
          MaxTime,   \* bound of the clock
          NoRow

VARIABLES now,      \* Date.now()
          backend,  \* the adapter that createAuthStore() chose
          rows,     \* the table api_keys: for each key its row, or NoRow
          issued,   \* for each key what its holder was told, a history
          asked     \* for each request, where its validation is

keyVars == <<now, backend, rows, issued, asked>>
store == <<now, backend, rows, issued>>

Tokens == Keys \union {Master, Wrong}
Row == [expiresAt : 0 .. MaxTime, revoked : BOOLEAN]
Unasked == [pc |-> "new", token |-> Wrong, row |-> NoRow, good |-> FALSE]

KeysInit == /\ now = 0
            /\ backend \in {"sqlite", "postgres"}
            /\ rows = [k \in Keys |-> NoRow]
            /\ issued = [k \in Keys |-> NoRow]
            /\ asked = [r \in Requests |-> Unasked]
-----------------------------------------------------------------------------
Tick == /\ now < MaxTime
        /\ now' = now + 1
        /\ UNCHANGED <<backend, rows, issued, asked>>

\* requireMasterKey()
MayAdminister(token) == token = Master

\* createKey()
CreateKey(k, ttl) ==
    /\ issued[k] = NoRow
    /\ now + ttl <= MaxTime
    /\ rows' = [rows EXCEPT ![k] = [expiresAt |-> now + ttl, revoked |-> FALSE]]
    /\ issued' = [issued EXCEPT ![k] = rows'[k]]
    /\ UNCHANGED <<now, backend, asked>>

\* POST /auth/login, and POST /auth/keys likewise.
IssueKey(token, k, ttl) == MayAdminister(token) /\ CreateKey(k, ttl)

\* revokeKey()
RevokeKey(k) ==
    /\ rows[k] # NoRow
    /\ rows' = [rows EXCEPT ![k].revoked = TRUE]
    /\ issued' = [issued EXCEPT ![k].revoked = TRUE]
    /\ UNCHANGED <<now, backend, asked>>

\* DELETE /auth/keys/:id, which finds no row that was deleted.
Withdraw(token, k) == MayAdminister(token) /\ RevokeKey(k)

\* Mutant: the keys that have not expired are deleted.
CleansOthers == /\ rows' = [k \in Keys |-> IF rows[k] # NoRow /\ rows[k].expiresAt > now
                                             THEN NoRow ELSE rows[k]]
                /\ rows' # rows
                /\ UNCHANGED <<now, backend, issued, asked>>

\* The interval's cleanup(): revoked and expired rows are deleted.
CleanUp == /\ rows' = [k \in Keys |-> IF /\ rows[k] # NoRow
                                         /\ rows[k].revoked \/ rows[k].expiresAt < now
                                        THEN NoRow ELSE rows[k]]
           /\ rows' # rows
           /\ UNCHANGED <<now, backend, issued, asked>>
-----------------------------------------------------------------------------
\* What the holder of a key was promised.
Good(token) ==
    \/ token = Master
    \/ /\ token \in Keys
       /\ issued[token] # NoRow
       /\ ~issued[token].revoked
       /\ issued[token].expiresAt >= now

\* authMiddleware(): the static key first, then the store.
Ask(r, token) ==
    /\ asked[r].pc = "new"
    /\ asked' = [asked EXCEPT ![r] = [pc |-> IF token = Master THEN "admitted" ELSE "asking",
                                      token |-> token, row |-> NoRow,
                                      good |-> Good(token)]]
    /\ UNCHANGED store

RowOf(token) == IF token \in Keys THEN rows[token] ELSE NoRow

\* The tests of validateKey().
Passes(row) == /\ row # NoRow
               /\ ~row.revoked
               /\ row.expiresAt >= now

Verdict(r, pc) == asked' = [asked EXCEPT ![r].pc = pc, ![r].row = NoRow]

ValidateAtOnce(r) ==
    /\ backend = "sqlite"
    /\ asked[r].pc = "asking"
    /\ Verdict(r, IF Passes(RowOf(asked[r].token)) THEN "admitted" ELSE "refused")
    /\ UNCHANGED store

\* The database answers the SELECT.
Select(r) ==
    /\ backend # "sqlite"
    /\ asked[r].pc = "asking"
    /\ asked' = [asked EXCEPT ![r].pc = "selected", ![r].row = RowOf(asked[r].token)]
    /\ UNCHANGED store

\* validateKey() goes on with the row it was given, which may be out of date.
Judge(r) ==
    /\ asked[r].pc = "selected"
    /\ Verdict(r, IF Passes(asked[r].row) THEN "touching" ELSE "refused")
    /\ UNCHANGED store

\* The UPDATE of lastUsedAt, which finds no row if it was deleted meanwhile.
Touch(r) ==
    /\ asked[r].pc = "touching"
    /\ Verdict(r, "admitted")
    /\ UNCHANGED store

Validates(r) == ValidateAtOnce(r) \/ Select(r) \/ Judge(r) \/ Touch(r)

Administers == \/ Tick
               \/ CleanUp
               \/ \E k \in Keys, token \in Tokens : Withdraw(token, k)
-----------------------------------------------------------------------------
KeysTypeOK ==
    /\ now \in 0 .. MaxTime
    /\ backend \in {"sqlite", "postgres"}
    /\ rows \in [Keys -> Row \union {NoRow}]
    /\ issued \in [Keys -> Row \union {NoRow}]
    /\ asked \in [Requests ->
          [pc : {"new", "asking", "selected", "touching", "admitted", "refused"},
           token : Tokens, row : Row \union {NoRow}, good : BOOLEAN]]

\* Whatever the adapter, the clock, revocations and cleanups do between the
\* queries of a validation: a request is admitted only if its key was neither
\* revoked nor expired when it came, and refused only if it is so by now.
JudgedFairly ==
    \A r \in Requests :
        /\ asked[r].pc = "admitted" => asked[r].good
        /\ asked[r].pc = "refused" => ~Good(asked[r].token)
=============================================================================
