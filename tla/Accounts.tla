------------------------------ MODULE Accounts ------------------------------
(***************************************************************************)
(* The API's public accounts: requests that register, sign in, sign out,   *)
(* change settings, clear the history or delete the account, each a chain  *)
(* of short transactions; searches, whose log entries a small pool of      *)
(* threads writes later; and the daily purge.  The requests interleave     *)
(* between any two of their transactions.  The database enforces the       *)
(* unique email and the cascade from an account to its history.            *)
(***************************************************************************)
EXTENDS Integers, FiniteSets

CONSTANTS
  Request,        \* requests served at once
  Email,
  MaxFailures,    \* LoginThrottle: failures of one address against one account
  PasswordSlots,  \* PasswordWorkers
  Writers,        \* threads of the SearchLogWriter
  MaxPending,     \* its backlog
  MaxAccounts, MaxTokens, MaxEntries, MaxCalls  \* bounds: accounts, tokens, searches and calls ever

ASSUME AccountsAssumption ==
  /\ IsFiniteSet(Request) /\ "none" \notin Email
  /\ {MaxFailures, PasswordSlots, Writers, MaxPending,
      MaxAccounts, MaxTokens, MaxEntries, MaxCalls} \subseteq Nat \ {0}

VARIABLES
  request,   \* what each request is doing
  account,   \* users: rows by id, never reused
  created,   \* accounts created so far
  token,     \* tokens issued: account and whether still unexpired
  revoked,   \* revoked_tokens
  failures,  \* login_failures of an identity within the window; 0: no such account
  entry,     \* searches: log entries by order of submission
  slots,     \* BoundedSemaphore of the backlog
  sink,      \* SearchLogWriter: open, draining, late: past its drain time
  history,   \* entries in user_search_history
  signedOut, \* history: tokens whose sign-out was committed
  calls      \* calls begun

vars == <<request, account, created, token, revoked, failures, entry, slots, sink, history,
          signedOut, calls>>
backlog == <<entry, slots, sink, history>>
signing == <<token, revoked, signedOut>>

Id == 1 .. MaxAccounts
Jti == 1 .. MaxTokens
Entry == 1 .. MaxEntries
Tried == 0 .. MaxFailures + Cardinality(Request) - 1
PasswordOps == {"register", "login"}
TokenOps == {"logout", "on", "off", "forget", "clear", "delete"}
NoAccount == [email |-> "none", save |-> TRUE]
NoToken == [id |-> 0, live |-> FALSE]
NoEntry == [stage |-> "none", jti |-> 0, saved |-> FALSE, cleared |-> FALSE]
Idle == [op |-> "none", step |-> "idle", email |-> "none", jti |-> 0, id |-> 0]

TypeOK ==
  /\ request \in [Request ->
       [op : {"none", "search"} \cup PasswordOps \cup TokenOps,
        step : {"idle", "check", "account", "find", "brake", "read", "slot", "hashing", "failed",
                "clearing", "record", "act", "revoke", "searching"},
        email : Email \cup {"none"}, jti : Jti \cup {0}, id : Id \cup {0}]]
  /\ account \in [Id -> [email : Email \cup {"none"}, save : BOOLEAN]]
  /\ token \in [Jti -> [id : Id \cup {0}, live : BOOLEAN]]
  /\ created \in 0 .. MaxAccounts /\ calls \in 0 .. MaxCalls
  /\ revoked \subseteq Jti /\ signedOut \subseteq Jti
  /\ failures \in [Id \cup {0} -> Tried]
  /\ entry \in [Entry -> [stage : {"none", "queued", "writing", "done"}, jti : Jti \cup {0},
                          saved : BOOLEAN, cleared : BOOLEAN]]
  /\ slots \in 0 .. MaxPending /\ sink \in {"open", "draining", "late"}
  /\ history \subseteq Entry

Init ==
  /\ request = [r \in Request |-> Idle]
  /\ account = [i \in Id |-> NoAccount]
  /\ token = [j \in Jti |-> NoToken]
  /\ created = 0 /\ revoked = {} /\ signedOut = {} /\ calls = 0
  /\ failures = [i \in Id \cup {0} |-> 0]
  /\ entry = [n \in Entry |-> NoEntry]
  /\ slots = MaxPending /\ sink = "open" /\ history = {}

Exists(i) == i \in Id /\ account[i].email # "none"
Holder(e) == {i \in Id : account[i].email = e}
At(r, step) == request[r].step = step
Op(r, op) == request[r].op = op
End(r) == request' = [request EXCEPT ![r] = Idle]
Call(r) == At(r, "idle") /\ calls < MaxCalls /\ calls' = calls + 1
Goto(r, step) == request' = [request EXCEPT ![r].step = step]

\* Tokens are issued with a fresh random id.
Unissued == {j \in Jti : token[j].id = 0}
Issuing == {r \in Request : request[r].op \in PasswordOps}
Registering == {r \in Request : request[r].op = "register"}
Issue(i) ==
  LET j == CHOOSE x \in Unissued : TRUE IN
  token' = [token EXCEPT ![j] = [id |-> i, live |-> TRUE]]

-----------------------------------------------------------------------------
(* Passwords *)

\* Register, or sign in; bounded by the tokens and accounts left.
Present(r, op, e) ==
  /\ Call(r) /\ op \in PasswordOps
  /\ Cardinality(Unissued) > Cardinality(Issuing)
  /\ op = "register" => created + Cardinality(Registering) < MaxAccounts
  /\ request' = [request EXCEPT ![r] = [Idle EXCEPT
       !.op = op, !.email = e, !.step = IF op = "register" THEN "slot" ELSE "find"]]
  /\ UNCHANGED <<account, created, signing, failures, backlog>>

FindUser(r) ==
  /\ At(r, "find")
  /\ \E i \in IF Holder(request[r].email) = {} THEN {0} ELSE Holder(request[r].email) :
       request' = [request EXCEPT ![r].step = "brake", ![r].id = i]
  /\ UNCHANGED <<account, created, signing, failures, backlog, calls>>

\* retry_after: refuse when the identity has failed too often.
RetryAfter(r) ==
  /\ At(r, "brake")
  /\ IF failures[request[r].id] >= MaxFailures THEN End(r)
     ELSE Goto(r, IF Op(r, "delete") THEN "read" ELSE "slot")
  /\ UNCHANGED <<account, created, signing, failures, backlog, calls>>

\* delete_account reads the account again for its password hash: it may be gone.
ReadAccount(r) ==
  /\ At(r, "read")
  /\ request' = [request EXCEPT ![r].step = "slot", ![r].email = account[request[r].id].email]
  /\ UNCHANGED <<account, created, signing, failures, backlog, calls>>

Hashing == {r \in Request : At(r, "hashing")}
\* slot(): wait briefly for one of the slots, then answer 503.
EnterSlot(r) ==
  /\ At(r, "slot")
  /\ \/ Cardinality(Hashing) < PasswordSlots /\ Goto(r, "hashing")
     \/ Cardinality(Hashing) >= PasswordSlots /\ End(r)
  /\ UNCHANGED <<account, created, signing, failures, backlog, calls>>

\* Hash a new password, or verify one against the hash read before.
LeaveSlot(r) ==
  /\ At(r, "hashing")
  /\ \/ Op(r, "register") /\ Goto(r, "record")
     \/ ~Op(r, "register") /\ Goto(r, "failed")
     \/ Op(r, "login") /\ request[r].id # 0 /\ Goto(r, "clearing")
     \/ Op(r, "delete") /\ request[r].email # "none" /\ Goto(r, "act")
  /\ UNCHANGED <<account, created, signing, failures, backlog, calls>>

RecordFailure(r) ==
  /\ At(r, "failed")
  /\ failures' = [failures EXCEPT ![request[r].id] = @ + 1]
  /\ End(r) /\ UNCHANGED <<account, created, signing, backlog, calls>>
RecordSuccess(r) ==
  /\ At(r, "clearing")
  /\ failures' = [failures EXCEPT ![request[r].id] = 0]
  /\ Goto(r, "record") /\ UNCHANGED <<account, created, signing, backlog, calls>>

\* record_user_login fails when the account was deleted meanwhile.
SignIn(r) ==
  /\ At(r, "record") /\ Op(r, "login")
  /\ IF Exists(request[r].id) THEN Issue(request[r].id) ELSE UNCHANGED token
  /\ End(r) /\ UNCHANGED <<account, created, revoked, signedOut, failures, backlog, calls>>

CreateUser(r) ==
  /\ At(r, "record") /\ Op(r, "register")
  /\ IF Holder(request[r].email) # {}
     THEN UNCHANGED <<account, created, token>>
     ELSE /\ created' = created + 1
          /\ account' = [account EXCEPT ![created + 1] =
               [email |-> request[r].email, save |-> TRUE]]
          /\ Issue(created + 1)
  /\ End(r) /\ UNCHANGED <<revoked, signedOut, failures, backlog, calls>>

-----------------------------------------------------------------------------
(* Bearer tokens *)

\* A request with a token; TokenCodec.verify refuses an expired one at once.
Bear(r, op, j) ==
  /\ Call(r) /\ op \in TokenOps /\ token[j].live
  /\ request' = [request EXCEPT ![r] = [Idle EXCEPT !.op = op, !.jti = j, !.step = "check"]]
  /\ UNCHANGED <<account, created, signing, failures, backlog>>

CheckRevoked(r) ==
  /\ At(r, "check")
  /\ IF request[r].jti \in revoked THEN End(r) ELSE Goto(r, "account")
  /\ UNCHANGED <<account, created, signing, failures, backlog, calls>>

\* get_user by the token's uid, not by its email.
AccountOf(j) == token[j].id
LoadUser(r) ==
  /\ At(r, "account")
  /\ LET i == AccountOf(request[r].jti) IN
     IF ~Exists(i) THEN End(r)
     ELSE request' = [request EXCEPT ![r].id = i,
            ![r].step = IF Op(r, "delete") THEN "brake" ELSE "act"]
  /\ UNCHANGED <<account, created, signing, failures, backlog, calls>>

Revoke(j) == revoked' = revoked \cup {j} /\ signedOut' = signedOut \cup {j}
Logout(r) ==
  /\ At(r, "act") /\ Op(r, "logout") /\ Revoke(request[r].jti)
  /\ End(r) /\ UNCHANGED <<account, created, token, failures, backlog, calls>>

\* set_save_history raises LookupError when the account is gone.
SetSaveHistory(r) ==
  /\ At(r, "act") /\ request[r].op \in {"on", "off"}
  /\ account' = IF ~Exists(request[r].id) THEN account
                ELSE [account EXCEPT ![request[r].id].save = Op(r, "on")]
  /\ End(r) /\ UNCHANGED <<created, signing, failures, backlog, calls>>

RowsOf(i) == {n \in history : AccountOf(entry[n].jti) = i}
ForgetSearch(r) ==
  /\ At(r, "act") /\ Op(r, "forget")
  /\ \/ \E n \in RowsOf(request[r].id) : history' = history \ {n}
     \/ RowsOf(request[r].id) = {} /\ UNCHANGED history
  /\ End(r) /\ UNCHANGED <<account, created, signing, failures, entry, slots, sink, calls>>
\* The row and the entry it came from; a cleared flag marks entries still to come.
ClearHistory(r) ==
  /\ At(r, "act") /\ Op(r, "clear")
  /\ history' = history \ RowsOf(request[r].id)
  /\ entry' = [n \in Entry |-> [entry[n] EXCEPT !.cleared =
       @ \/ (entry[n].stage \in {"queued", "writing"} /\ AccountOf(entry[n].jti) = request[r].id)]]
  /\ End(r) /\ UNCHANGED <<account, created, signing, failures, slots, sink, calls>>

\* delete_user; the history goes by the foreign key's cascade.
DeleteUser(r) ==
  /\ At(r, "act") /\ Op(r, "delete")
  /\ account' = [account EXCEPT ![request[r].id] = NoAccount]
  /\ history' = history \ RowsOf(request[r].id)
  /\ Goto(r, "revoke") /\ UNCHANGED <<created, signing, failures, entry, slots, sink, calls>>
RevokeOwn(r) ==
  /\ At(r, "revoke") /\ Revoke(request[r].jti)
  /\ End(r) /\ UNCHANGED <<account, created, token, failures, backlog, calls>>

-----------------------------------------------------------------------------
(* Searches and the log behind them *)

\* A search with a token (optional_user verifies it, nothing more).
Search(r, j) ==
  /\ Call(r) /\ token[j].live
  /\ request' = [request EXCEPT ![r] =
       [Idle EXCEPT !.op = "search", !.jti = j, !.step = "searching"]]
  /\ UNCHANGED <<account, created, signing, failures, backlog>>

NextEntry == {n \in Entry : entry[n].stage = "none" /\ \A m \in Entry : m < n => entry[m].stage # "none"}
Enqueue(r, n) ==
  LET j == request[r].jti IN
  entry' = [entry EXCEPT ![n] = [stage |-> "queued", jti |-> j, cleared |-> FALSE,
    saved |-> Exists(AccountOf(j)) /\ account[AccountOf(j)].save]]

\* submit: dropped when the backlog is full, or the executor shut down.
Submit(r) ==
  /\ At(r, "searching")
  /\ IF slots = 0 \/ sink # "open" \/ NextEntry = {}
     THEN UNCHANGED <<entry, slots>>
     ELSE slots' = slots - 1 /\ \E n \in NextEntry : Enqueue(r, n)
  /\ End(r) /\ UNCHANGED <<account, created, signing, failures, sink, history, calls>>

Writing == {n \in Entry : entry[n].stage = "writing"}
Take(n) ==
  /\ entry[n].stage = "queued" /\ Cardinality(Writing) < Writers
  /\ \A m \in Entry : entry[m].stage = "queued" => n <= m
  /\ entry' = [entry EXCEPT ![n].stage = "writing"]
  /\ UNCHANGED <<request, account, created, signing, failures, slots, sink, history, calls>>

\* Mutant of Recorded: only the token is looked up.
RecordedUnjoined(n) == entry[n].jti \notin revoked
\* record_search: the account exists, keeps a history, and the token is not
\* signed out, all at the time of writing.
Recorded(n) ==
  LET i == AccountOf(entry[n].jti) IN
  Exists(i) /\ account[i].save /\ entry[n].jti \notin revoked
Settle(n) == entry' = [entry EXCEPT ![n].stage = "done"] /\ slots' = slots + 1
LogSearch(n) ==
  /\ entry[n].stage = "writing" /\ sink # "late" /\ Settle(n)
  /\ history' = IF Recorded(n) THEN history \cup {n} ELSE history
  /\ UNCHANGED <<request, account, created, signing, failures, sink, calls>>
\* Mutant of DropEntry: past the drain time nothing settles an entry.
DropEntryInTime(n) ==
  /\ entry[n].stage = "writing" /\ sink # "late" /\ Settle(n)
  /\ UNCHANGED <<request, account, created, signing, failures, sink, history, calls>>
\* The write failed or timed out, or the writer is past its drain time.
DropEntry(n) ==
  /\ entry[n].stage = "writing" /\ Settle(n)
  /\ UNCHANGED <<request, account, created, signing, failures, sink, history, calls>>

CloseSink ==
  /\ sink # "late" /\ sink' = IF sink = "open" THEN "draining" ELSE "late"
  /\ UNCHANGED <<request, account, created, signing, failures, entry, slots, history, calls>>

-----------------------------------------------------------------------------
(* Time *)

Expire(j) ==
  /\ token[j].live /\ token' = [token EXCEPT ![j].live = FALSE]
  /\ UNCHANGED <<request, account, created, revoked, signedOut, failures, backlog, calls>>

\* Mutant of Purgeable: whether the tokens have expired is not asked.
PurgeableEarly == revoked
Purgeable == {j \in revoked : ~token[j].live}
\* purge_auth_bookkeeping: ids of tokens that have expired.
Purge ==
  /\ Purgeable # {} /\ revoked' = revoked \ Purgeable
  /\ UNCHANGED <<request, account, created, token, signedOut, failures, backlog, calls>>

\* The failures of an identity leave the throttle's window.
WindowPasses(i) ==
  /\ failures[i] > 0 /\ failures' = [failures EXCEPT ![i] = 0]
  /\ UNCHANGED <<request, account, created, signing, backlog, calls>>

Serve(r) ==
  \/ FindUser(r) \/ RetryAfter(r) \/ ReadAccount(r) \/ EnterSlot(r) \/ LeaveSlot(r)
  \/ RecordFailure(r) \/ RecordSuccess(r) \/ SignIn(r) \/ CreateUser(r)
  \/ CheckRevoked(r) \/ LoadUser(r) \/ Logout(r) \/ SetSaveHistory(r) \/ ForgetSearch(r)
  \/ ClearHistory(r) \/ DeleteUser(r) \/ RevokeOwn(r) \/ Submit(r)
Write(n) == Take(n) \/ LogSearch(n) \/ DropEntry(n)

Next ==
  \/ \E r \in Request, e \in Email, op \in PasswordOps : Present(r, op, e)
  \/ \E r \in Request, j \in Jti : Search(r, j) \/ \E op \in TokenOps : Bear(r, op, j)
  \/ \E r \in Request : Serve(r)
  \/ \E n \in Entry : Write(n)
  \/ \E j \in Jti : Expire(j)
  \/ \E i \in Id \cup {0} : WindowPasses(i)
  \/ CloseSink \/ Purge

\* Requests and writer threads run; nothing makes anybody call.
Spec == /\ Init /\ [][Next]_vars
        /\ \A r \in Request : WF_vars(Serve(r))
        /\ \A n \in Entry : WF_vars(Write(n))

-----------------------------------------------------------------------------
\* While a token has not expired, signing it out counts: every later check
\* refuses it and no search that waits in the backlog is recorded under it, the
\* purge of signed-out ids notwithstanding (is_token_revoked, record_search,
\* purge_auth_bookkeeping).  A token that expires between a request's two checks
\* is outside this: its row may be purged between them.
SignedOutIsOut ==
  [][\A j \in signedOut : token[j].live =>
       /\ \A r \in Request : At(r, "check") /\ request[r].jti = j
                               => request'[r].step \in {"check", "idle"}
       /\ \A n \in history' \ history : entry[n].jti # j]_vars

\* A token works on the account it was issued for and on no later account of
\* the same email, and nothing of a deleted account is left or comes back from
\* the search log's backlog (current_user, record_search, delete_user).
OwnAccountOnly ==
  /\ \A r \in Request : request[r].jti # 0 /\ request[r].id # 0
                          => token[request[r].jti].id = request[r].id
  /\ \A n \in history : Exists(token[entry[n].jti].id)

\* The backlog's semaphore gets back every slot it gave, on every way out; and
\* as retry_after reads the count long before record_failure adds to it, failures
\* pass the limit, but by no more than the other requests under way.
LimitsHold ==
  /\ slots + Cardinality({n \in Entry : entry[n].stage \in {"queued", "writing"}}) = MaxPending
  /\ \A i \in Id \cup {0} : failures[i] < MaxFailures + Cardinality(Request)

\* Every request is answered and every queued entry written or dropped.
AllEnds ==
  /\ \A r \in Request : request[r].step # "idle" ~> request[r].step = "idle"
  /\ \A n \in Entry : entry[n].stage = "queued" ~> entry[n].stage = "done"

\* Accounts are kept apart and limits kept, by values of their types.
AccountsHold == TypeOK /\ OwnAccountOnly /\ LimitsHold

\* The words of models/accounts.py:43 ("Off: searches are not recorded in the
\* user's history"): no row is of a search made while save_history was off.  (False: the
\* setting is read when the entry is written.)
OffIsNotRecorded == \A n \in history : entry[n].saved

\* A history that was cleared does not show searches made before it was.  (False: they
\* may still be in the backlog.)
ClearedStaysCleared == \A n \in history : ~entry[n].cleared
=============================================================================
