--------------------------- MODULE AccountsProofs ---------------------------
(***************************************************************************)
(* Proofs about Accounts, for any requests, emails, limits and bounds.     *)
(***************************************************************************)
EXTENDS Accounts, FiniteSetTheorems, TLAPS

\* A request q, given the tokens issued: how far each operation can be, what it holds
\* by then, and that its account is its token's.
PasswordSteps == {"slot", "hashing", "failed"}
StepsOf(q) ==
  /\ q.op = "none" => q = Idle
  /\ q.op = "register" => q.step \in {"slot", "hashing", "record"}
  /\ q.op = "login" => q.step \in PasswordSteps \cup {"find", "brake", "clearing", "record"}
  /\ q.op = "search" => q.step = "searching"
  /\ q.op = "delete" => q.step \in PasswordSteps \cup {"check", "account", "brake", "read", "act", "revoke"}
  /\ q.op \in TokenOps \ {"delete"} => q.step \in {"check", "account", "act"}
Held(q, tokens) ==
  /\ q.op \in PasswordOps => q.jti = 0 /\ q.email \in Email
  /\ q.op = "register" => q.id = 0
  /\ q.op \in TokenOps \cup {"search"} => q.jti \in Jti /\ tokens[q.jti].id # 0
  /\ q.op \in TokenOps =>
       IF q.step \in {"check", "account"} THEN q.id = 0 ELSE q.id = tokens[q.jti].id
  /\ q.op = "search" => q.id = 0
Fits(q, tokens) == StepsOf(q) /\ Held(q, tokens)
RequestsInv == \A r \in Request : Fits(request[r], token)

\* Tokens are issued for the requests that wait for one, and a signed-out token is
\* refused for as long as it could be accepted.
TokensInv ==
  /\ Cardinality(Issuing) <= Cardinality(Unissued)
  /\ created + Cardinality(Registering) <= MaxAccounts
  /\ \A j \in Jti : token[j].live => token[j].id # 0
  /\ \A j \in signedOut : token[j].id # 0 /\ (token[j].live => j \in revoked)

\* Entries come from issued tokens; what they become goes with its account.
Unsettled == {n \in Entry : entry[n].stage \in {"queued", "writing"}}
BacklogInv ==
  /\ slots + Cardinality(Unsettled) = MaxPending
  /\ \A n \in Entry : entry[n].stage # "none" =>
       entry[n].jti \in Jti /\ token[entry[n].jti].id # 0
  /\ \A n \in history : entry[n].stage = "done" /\ Exists(AccountOf(entry[n].jti))

\* Past the brake, a request may still add a failure.
Past(i) == {r \in Request : /\ request[r].id = i /\ request[r].op \in {"login", "delete"}
                            /\ request[r].step \in PasswordSteps \cup {"read"}}
BrakeInv ==
  \A i \in Id \cup {0} :
    failures[i] + Cardinality(Past(i)) < MaxFailures + Cardinality(Request)

AccountsInv == TypeOK /\ RequestsInv /\ TokensInv /\ BacklogInv /\ BrakeInv

Ops == {"none", "search"} \cup PasswordOps \cup TokenOps
Steps == {"idle", "check", "account", "find", "brake", "read", "slot", "hashing", "failed",
          "clearing", "record", "act", "revoke", "searching"}
RequestType == [op : Ops, step : Steps, email : Email \cup {"none"}, jti : Jti \cup {0},
                id : Id \cup {0}]

-----------------------------------------------------------------------------
(* Requests.                                                               *)

LEMMA RequestTyped == ASSUME TypeOK PROVE request \in [Request -> RequestType]
BY DEF TypeOK, RequestType, Ops, Steps

LEMMA IdleFits == ASSUME NEW tokens PROVE Idle \in RequestType /\ Fits(Idle, tokens)
BY DEF Idle, RequestType, Ops, Steps, Fits, StepsOf, Held, PasswordOps, TokenOps

\* The request of r, and no other, becomes q.
Becomes(r, q) == request' = [request EXCEPT ![r] = q]

LEMMA EndsIdle == ASSUME NEW r, End(r) PROVE Becomes(r, Idle)
BY DEF End, Becomes

LEMMA GoesTo ==
  ASSUME TypeOK, NEW r \in Request, NEW s, Goto(r, s)
  PROVE  Becomes(r, [request[r] EXCEPT !.step = s])
BY DEF Goto, Becomes

\* What a request may become while it is served: over, or a step further.
Served(r, q) ==
  /\ q \in RequestType /\ Fits(q, token)
  /\ q.op \in {request[r].op, "none"} /\ (q.op = "none" => q = Idle)
  /\ q.id \in {request[r].id} \/ request[r].step \in {"find", "account"} \/ q = Idle

LEMMA ServedIdle == ASSUME NEW r PROVE Served(r, Idle)
BY IdleFits DEF Served, Idle

\* A step within the operation, the account already known.
LEMMA ServedStep ==
  ASSUME AccountsInv, NEW r \in Request, NEW s \in Steps,
         StepsOf([request[r] EXCEPT !.step = s]),
         s \in {"check", "account"} <=> request[r].step \in {"check", "account"},
         request[r].op # "none"
  PROVE  Served(r, [request[r] EXCEPT !.step = s])
<1> DEFINE q == request[r]
           n == [q EXCEPT !.step = s]
<1>1. q \in RequestType /\ Fits(q, token)
  BY RequestTyped DEF AccountsInv, RequestsInv
<1>2. n \in RequestType /\ n.op = q.op /\ n.id = q.id /\ n.jti = q.jti /\ n.email = q.email /\ n.step = s
  BY <1>1 DEF RequestType
<1>3. Held(n, token)
  BY <1>1, <1>2 DEF Fits, Held, PasswordOps
<1> QED
  BY <1>1, <1>2, <1>3 DEF Served, Fits

LEMMA ServeRequest ==
  ASSUME AccountsInv, NEW r \in Request, Serve(r)
  PROVE  \E q : Becomes(r, q) /\ Served(r, q)
<1> DEFINE old == request[r]
           Goal == \E q : Becomes(r, q) /\ Served(r, q)
<1>1. TypeOK /\ old \in RequestType /\ Fits(old, token)
  BY RequestTyped DEF AccountsInv, RequestsInv
<1>2. End(r) => Goal
  BY EndsIdle, ServedIdle
<1>3. ASSUME NEW s \in Steps, Goto(r, s), StepsOf([old EXCEPT !.step = s]),
             s \notin {"check", "account"}, old.step \notin {"check", "account"}, old.op # "none"
      PROVE  Goal
  BY <1>1, <1>3, GoesTo, ServedStep
<1>4. \A s : LET n == [old EXCEPT !.step = s] IN
               n.op = old.op /\ n.step = s /\ n.id = old.id /\ n.jti = old.jti /\ n.email = old.email
  BY <1>1 DEF RequestType
<1>5. old.op \in Ops
  BY <1>1 DEF RequestType
<1> USE DEF At, Op, Ops, Steps, PasswordOps, TokenOps, PasswordSteps
<1>6. CASE FindUser(r)
  <2>1. PICK i : /\ i \in IF Holder(old.email) = {} THEN {0} ELSE Holder(old.email)
                 /\ request' = [request EXCEPT ![r].step = "brake", ![r].id = i]
    BY <1>6 DEF FindUser
  <2>2. i \in Id \cup {0}
    BY <2>1 DEF Holder
  <2>3. old.op = "login"
    BY <1>1, <1>5, <1>6 DEF FindUser, Fits, StepsOf, Idle
  <2> DEFINE n == [[old EXCEPT !.step = "brake"] EXCEPT !.id = i]
  <2>4. Becomes(r, n)
    BY <1>1, <2>1, RequestTyped DEF Becomes
  <2>5. n \in RequestType /\ n.op = old.op /\ n.step = "brake" /\ n.id = i /\ n.jti = old.jti
        /\ n.email = old.email
    BY <1>1, <2>2 DEF RequestType
  <2>6. Fits(n, token)
    BY <1>1, <2>3, <2>5 DEF Fits, StepsOf, Held
  <2>7. Served(r, n)
    BY <1>6, <2>3, <2>5, <2>6 DEF Served, FindUser
  <2> QED
    BY <2>4, <2>7
<1>7. CASE RetryAfter(r)
  <2>1. old.op \in {"login", "delete"}
    BY <1>1, <1>5, <1>7 DEF RetryAfter, Fits, StepsOf, Idle
  <2>2. StepsOf([old EXCEPT !.step = IF Op(r, "delete") THEN "read" ELSE "slot"])
    BY <1>4, <2>1 DEF StepsOf
  <2> QED
    BY <1>2, <1>3, <1>7, <2>1, <2>2 DEF RetryAfter
<1>8. CASE ReadAccount(r)
  <2>1. old.op = "delete" /\ old.id \in Id \cup {0} /\ old.id = token[old.jti].id /\ old.jti \in Jti
        /\ token[old.jti].id # 0
    BY <1>1, <1>5, <1>8 DEF ReadAccount, Fits, StepsOf, Held, Idle, RequestType
  <2>2. account[old.id].email \in Email \cup {"none"}
    BY <1>1, <2>1 DEF TypeOK
  <2> DEFINE n == [[old EXCEPT !.step = "slot"] EXCEPT !.email = account[old.id].email]
  <2>3. Becomes(r, n)
    BY <1>1, <1>8, RequestTyped DEF ReadAccount, Becomes
  <2>4. n \in RequestType /\ n.op = old.op /\ n.step = "slot" /\ n.id = old.id /\ n.jti = old.jti
    BY <1>1, <2>2 DEF RequestType
  <2>5. Fits(n, token)
    BY <2>1, <2>4 DEF Fits, StepsOf, Held
  <2> QED
    BY <2>1, <2>3, <2>4, <2>5 DEF Served
<1>9. CASE EnterSlot(r)
  <2>1. old.op \in {"register", "login", "delete"}
    BY <1>1, <1>5, <1>9 DEF EnterSlot, Fits, StepsOf, Idle
  <2>2. StepsOf([old EXCEPT !.step = "hashing"])
    BY <1>4, <2>1 DEF StepsOf
  <2> QED
    BY <1>2, <1>3, <1>9, <2>1, <2>2 DEF EnterSlot
<1>10. CASE LeaveSlot(r)
  <2>1. old.op \in {"register", "login", "delete"}
    BY <1>1, <1>5, <1>10 DEF LeaveSlot, Fits, StepsOf, Idle
  <2>2. /\ Op(r, "register") => StepsOf([old EXCEPT !.step = "record"])
        /\ ~Op(r, "register") => StepsOf([old EXCEPT !.step = "failed"])
        /\ Op(r, "login") => StepsOf([old EXCEPT !.step = "clearing"])
        /\ Op(r, "delete") => StepsOf([old EXCEPT !.step = "act"])
    BY <1>4, <2>1 DEF StepsOf
  <2> QED
    BY <1>3, <1>10, <2>1, <2>2 DEF LeaveSlot
<1>11. CASE RecordSuccess(r)
  <2>1. old.op = "login"
    BY <1>1, <1>5, <1>11 DEF RecordSuccess, Fits, StepsOf, Idle
  <2>2. StepsOf([old EXCEPT !.step = "record"])
    BY <1>4, <2>1 DEF StepsOf
  <2> QED
    BY <1>3, <1>11, <2>1, <2>2 DEF RecordSuccess
<1>12. CASE CheckRevoked(r)
  <2>1. old.op \in TokenOps
    BY <1>1, <1>5, <1>12 DEF CheckRevoked, Fits, StepsOf, Idle
  <2>2. StepsOf([old EXCEPT !.step = "account"])
    BY <1>4, <2>1 DEF StepsOf
  <2>3. Goto(r, "account") => Goal
    BY <1>1, <1>12, <2>1, <2>2, GoesTo, ServedStep DEF CheckRevoked
  <2> QED
    BY <1>2, <1>12, <2>3 DEF CheckRevoked
<1>13. CASE LoadUser(r)
  <2>1. old.op \in TokenOps /\ old.jti \in Jti
    BY <1>1, <1>5, <1>13 DEF LoadUser, Fits, StepsOf, Held, Idle
  <2> DEFINE i == token[old.jti].id
             st == IF Op(r, "delete") THEN "brake" ELSE "act"
             n == [[old EXCEPT !.id = i] EXCEPT !.step = st]
  <2>2. i \in Id \cup {0}
    BY <1>1, <2>1 DEF TypeOK
  <2>3. n \in RequestType /\ n.op = old.op /\ n.step = st /\ n.id = i /\ n.jti = old.jti
    BY <1>1, <2>2 DEF RequestType
  <2>4. CASE Exists(i)
    <3>1. Becomes(r, n)
      BY <1>1, <1>13, <2>4, RequestTyped DEF LoadUser, AccountOf, Becomes
    <3>2. Fits(n, token)
      BY <1>1, <2>1, <2>3 DEF Fits, StepsOf, Held
    <3> QED
      BY <1>13, <2>1, <2>3, <3>1, <3>2 DEF Served, LoadUser
  <2>5. CASE ~Exists(i)
    BY <1>2, <1>13, <2>5 DEF LoadUser, AccountOf
  <2> QED
    BY <2>4, <2>5
<1>14. CASE DeleteUser(r)
  <2>1. StepsOf([old EXCEPT !.step = "revoke"])
    BY <1>4, <1>14 DEF StepsOf, DeleteUser
  <2> QED
    BY <1>3, <1>14, <2>1 DEF DeleteUser
<1>15. CASE \/ RecordFailure(r) \/ SignIn(r) \/ CreateUser(r) \/ Logout(r) \/ SetSaveHistory(r)
            \/ ForgetSearch(r) \/ ClearHistory(r) \/ RevokeOwn(r) \/ Submit(r)
  BY <1>2, <1>15 DEF RecordFailure, SignIn, CreateUser, Logout, SetSaveHistory, ForgetSearch,
                     ClearHistory, RevokeOwn, Submit
<1> QED
  BY <1>6, <1>7, <1>8, <1>9, <1>10, <1>11, <1>12, <1>13, <1>14, <1>15 DEF Serve

-----------------------------------------------------------------------------
(* Tokens: one is kept for every request that waits for one, and an issued  *)
(* one stays its account's.                                                *)

Background ==
  \/ \E n \in Entry : Write(n)
  \/ \E j \in Jti : Expire(j)
  \/ \E i \in Id \cup {0} : WindowPasses(i)
  \/ CloseSink \/ Purge \/ UNCHANGED vars

LEMMA BackgroundKeeps == ASSUME Background PROVE UNCHANGED <<request, account, created, signedOut>>
BY DEF Background, Write, Take, LogSearch, DropEntry, Expire, WindowPasses, CloseSink, Purge, vars, signing

LEMMA Parts ==
  ASSUME NEW S, S \subseteq Request \/ S \subseteq Jti \/ S \subseteq Entry
  PROVE  IsFiniteSet(S) /\ Cardinality(S) \in Nat
<1>1. IsFiniteSet(Jti) /\ IsFiniteSet(Entry)
  BY AccountsAssumption, FS_Interval DEF Jti, Entry
<1>2. IsFiniteSet(S)
  BY <1>1, AccountsAssumption, FS_Subset
<1> QED
  BY <1>2, FS_CardinalityType

LEMMA Smaller ==
  ASSUME NEW S, NEW T, T \subseteq S, S \subseteq Request \/ S \subseteq Jti \/ S \subseteq Entry
  PROVE  Cardinality(T) <= Cardinality(S)
BY Parts, FS_Subset

LEMMA LessOne ==
  ASSUME NEW S, NEW x \in S, S \subseteq Request \/ S \subseteq Jti \/ S \subseteq Entry
  PROVE  Cardinality(S \ {x}) = Cardinality(S) - 1 /\ Cardinality(S) > 0
<1>1. Cardinality(S \ {x}) = Cardinality(S) - 1
  BY Parts, FS_RemoveElement
<1>2. Cardinality(S \ {x}) \in Nat /\ Cardinality(S) \in Nat
  BY Parts
<1> QED
  BY <1>1, <1>2

LEMMA OneMore ==
  ASSUME NEW S, NEW x, S \subseteq Request \/ S \subseteq Jti \/ S \subseteq Entry
  PROVE  /\ Cardinality(S \cup {x}) = IF x \in S THEN Cardinality(S) ELSE Cardinality(S) + 1
         /\ Cardinality(S \cup {x}) <= Cardinality(S) + 1
<1>1. Cardinality(S \cup {x}) = IF x \in S THEN Cardinality(S) ELSE Cardinality(S) + 1
  BY Parts, FS_AddElement
<1>2. Cardinality(S) \in Nat
  BY Parts
<1> QED
  BY <1>1, <1>2

\* A token that was not issued before is issued to the account.
Issues(i) == \E j \in Unissued : token' = [token EXCEPT ![j] = [id |-> i, live |-> TRUE]]

LEMMA IssueIsNew ==
  ASSUME AccountsInv, NEW r \in Issuing, NEW i, Issue(i)
  PROVE  Issues(i)
<1>1. Cardinality(Issuing) > 0 /\ Cardinality(Unissued) > 0
  <2>1. Cardinality(Issuing) > 0 /\ Cardinality(Issuing) <= Cardinality(Unissued)
    BY LessOne DEF AccountsInv, TokensInv, Issuing
  <2>2. Cardinality(Unissued) \in Nat /\ Cardinality(Issuing) \in Nat
    BY Parts DEF Unissued, Issuing
  <2> QED
    BY <2>1, <2>2
<1>2. Unissued # {}
  BY <1>1, FS_EmptySet
<1>3. (CHOOSE x \in Unissued : TRUE) \in Unissued
  BY <1>2
<1> QED
  BY <1>3 DEF Issue, Issues

\* Registering accounts are numbered within bounds.
LEMMA RoomForAccount ==
  ASSUME AccountsInv, NEW r \in Registering
  PROVE  created + 1 \in Id
<1>1. Cardinality(Registering) > 0 /\ Cardinality(Registering) \in Nat
  BY LessOne, Parts DEF Registering
<1>2. created + Cardinality(Registering) <= MaxAccounts /\ created \in Nat
  BY DEF AccountsInv, TokensInv, TypeOK
<1> QED
  BY <1>1, <1>2, AccountsAssumption DEF Id

\* All a step can do to the tokens.
LEMMA TokenMoves ==
  ASSUME AccountsInv, [Next]_vars
  PROVE  \/ UNCHANGED token
         \/ \E j \in Jti : token' = [token EXCEPT ![j].live = FALSE]
         \/ \E r \in Issuing, i \in Id : Issues(i) /\ Becomes(r, Idle)
<1>1. ASSUME NEW r \in Request, SignIn(r)
      PROVE  UNCHANGED token \/ \E s \in Issuing, i \in Id : Issues(i) /\ Becomes(s, Idle)
  <2>1. r \in Issuing
    BY <1>1 DEF SignIn, Op, Issuing, PasswordOps
  <2>2. CASE Exists(request[r].id)
    BY <1>1, <2>1, <2>2, IssueIsNew, EndsIdle DEF SignIn, Exists
  <2>3. CASE ~Exists(request[r].id)
    BY <1>1, <2>3 DEF SignIn
  <2> QED
    BY <2>2, <2>3
<1>2. ASSUME NEW r \in Request, CreateUser(r)
      PROVE  UNCHANGED token \/ \E s \in Issuing, i \in Id : Issues(i) /\ Becomes(s, Idle)
  <2>1. r \in Issuing /\ r \in Registering
    BY <1>2 DEF CreateUser, Op, Issuing, Registering, PasswordOps
  <2>2. CASE Holder(request[r].email) = {}
    BY <1>2, <2>1, <2>2, IssueIsNew, EndsIdle, RoomForAccount DEF CreateUser
  <2>3. CASE Holder(request[r].email) # {}
    BY <1>2, <2>3 DEF CreateUser
  <2> QED
    BY <2>2, <2>3
<1>3. ASSUME NEW r \in Request, Serve(r), ~SignIn(r), ~CreateUser(r) PROVE UNCHANGED token
  BY <1>3 DEF Serve, FindUser, RetryAfter, ReadAccount, EnterSlot, LeaveSlot, RecordFailure, RecordSuccess,
     CheckRevoked, LoadUser, Logout, SetSaveHistory, ForgetSearch, ClearHistory, DeleteUser, RevokeOwn,
     Submit, signing
<1>4. ASSUME NEW r \in Request, NEW j \in Jti, NEW op, NEW e,
             Present(r, op, e) \/ Search(r, j) \/ Bear(r, op, j)
      PROVE  UNCHANGED token
  BY <1>4 DEF Present, Search, Bear, signing
<1>5. Background => UNCHANGED token \/ \E j \in Jti : token' = [token EXCEPT ![j].live = FALSE]
  BY DEF Background, Write, Take, LogSearch, DropEntry, Expire, WindowPasses, CloseSink, Purge, vars, signing
<1>6. \/ \E r \in Request, e \in Email, op \in PasswordOps : Present(r, op, e)
      \/ \E r \in Request, j \in Jti : Search(r, j) \/ \E op \in TokenOps : Bear(r, op, j)
      \/ \E r \in Request : Serve(r)
      \/ Background
  BY DEF Next, Background
<1>7. \A r \in Request, e \in Email, op \in PasswordOps : Present(r, op, e) => UNCHANGED token
  BY DEF Present, signing
<1> QED
  BY <1>1, <1>2, <1>3, <1>4, <1>5, <1>6, <1>7

LEMMA TokensKept ==
  ASSUME AccountsInv, [Next]_vars
  PROVE  /\ token' \in [Jti -> [id : Id \cup {0}, live : BOOLEAN]]
         /\ \A j \in Jti : token[j].id # 0 => token'[j].id = token[j].id
<1> USE DEF AccountsInv, TypeOK
<1>1. CASE UNCHANGED token
  BY <1>1
<1>2. CASE \E j \in Jti : token' = [token EXCEPT ![j].live = FALSE]
  <2>1. PICK j \in Jti : token' = [token EXCEPT ![j] = [token[j] EXCEPT !.live = FALSE]]
    BY <1>2
  <2>2. token[j] \in [id : Id \cup {0}, live : BOOLEAN]
    OBVIOUS
  <2>3. /\ [token[j] EXCEPT !.live = FALSE] \in [id : Id \cup {0}, live : BOOLEAN]
        /\ [token[j] EXCEPT !.live = FALSE].id = token[j].id
    BY <2>2
  <2> QED
    BY <2>1, <2>3
<1>3. CASE \E r \in Issuing, i \in Id : Issues(i) /\ Becomes(r, Idle)
  BY <1>3 DEF Issues, Unissued
<1> QED
  BY <1>1, <1>2, <1>3, TokenMoves

LEMMA FitsStays ==
  ASSUME AccountsInv, [Next]_vars, NEW q, Fits(q, token)
  PROVE  Fits(q, token')
<1>1. \A j \in Jti : token[j].id # 0 => token'[j].id = token[j].id
  BY TokensKept
<1> QED
  BY <1>1 DEF Fits, Held

LEMMA CallFits ==
  ASSUME AccountsInv, NEW r \in Request, NEW j \in Jti, NEW op, NEW e \in Email \cup {"none"},
         \/ e \in Email /\ Present(r, op, e)
         \/ Search(r, j)
         \/ op \in TokenOps /\ Bear(r, op, j)
  PROVE  \E q \in RequestType : Becomes(r, q) /\ Fits(q, token) /\ q.id = 0
<1> USE DEF RequestType, Ops, Steps, PasswordOps, TokenOps, Idle
<1>1. ASSUME e \in Email, Present(r, op, e)
      PROVE  \E q \in RequestType : Becomes(r, q) /\ Fits(q, token) /\ q.id = 0
  <2> DEFINE q == [[[Idle EXCEPT !.op = op] EXCEPT !.email = e]
                     EXCEPT !.step = IF op = "register" THEN "slot" ELSE "find"]
  <2>1. Becomes(r, q) /\ op \in PasswordOps
    BY <1>1 DEF Present, Becomes
  <2>2. q \in RequestType /\ q.id = 0
    BY <2>1
  <2>3. Fits(q, token)
    <3>1. q.op = op /\ q.email = e /\ q.jti = 0 /\ q.id = 0
          /\ q.step = IF op = "register" THEN "slot" ELSE "find"
      OBVIOUS
    <3> QED
      BY <1>1, <2>1, <3>1 DEF Fits, StepsOf, Held, PasswordSteps
  <2> QED
    BY <2>1, <2>2, <2>3
<1>2. token[j].live => token[j].id # 0
  BY DEF AccountsInv, TokensInv
<1>3. ASSUME Search(r, j) PROVE \E q \in RequestType : Becomes(r, q) /\ Fits(q, token) /\ q.id = 0
  <2> DEFINE q == [[[Idle EXCEPT !.op = "search"] EXCEPT !.jti = j] EXCEPT !.step = "searching"]
  <2>1. Becomes(r, q) /\ token[j].id # 0
    BY <1>2, <1>3 DEF Search, Becomes
  <2>2. q \in RequestType /\ q.id = 0
    OBVIOUS
  <2>3. Fits(q, token)
    BY <2>1 DEF Fits, StepsOf, Held, PasswordSteps
  <2> QED
    BY <2>1, <2>2, <2>3
<1>4. ASSUME op \in TokenOps, Bear(r, op, j)
      PROVE  \E q \in RequestType : Becomes(r, q) /\ Fits(q, token) /\ q.id = 0
  <2> DEFINE q == [[[Idle EXCEPT !.op = op] EXCEPT !.jti = j] EXCEPT !.step = "check"]
  <2>1. Becomes(r, q) /\ token[j].id # 0
    BY <1>2, <1>4 DEF Bear, Becomes
  <2>2. q \in RequestType /\ q.id = 0
    BY <1>4
  <2>3. Fits(q, token)
    BY <1>4, <2>1 DEF Fits, StepsOf, Held, PasswordSteps
  <2> QED
    BY <2>1, <2>2, <2>3
<1> QED
  BY <1>1, <1>3, <1>4

LEMMA RequestsStep ==
  ASSUME AccountsInv, [Next]_vars
  PROVE  request' \in [Request -> RequestType] /\ RequestsInv'
<1>1. request \in [Request -> RequestType] /\ \A r \in Request : Fits(request[r], token)
  BY RequestTyped DEF AccountsInv, RequestsInv
<1>2. ASSUME NEW r \in Request, NEW q \in RequestType, Becomes(r, q), Fits(q, token)
      PROVE  request' \in [Request -> RequestType] /\ \A s \in Request : Fits(request'[s], token)
  BY <1>1, <1>2 DEF Becomes
<1> DEFINE OK == request' \in [Request -> RequestType] /\ \A s \in Request : Fits(request'[s], token)
<1>3. OK
  <2>1. ASSUME NEW r \in Request, Serve(r) PROVE OK
    BY <1>2, <2>1, ServeRequest DEF Served
  <2>2. ASSUME Background PROVE OK
    BY <1>1, <2>2, BackgroundKeeps
  <2>3. ASSUME NEW r \in Request, NEW e \in Email, NEW op \in PasswordOps, Present(r, op, e) PROVE OK
    <3>1. PICK j \in Jti : TRUE
      BY AccountsAssumption DEF Jti
    <3> QED
      BY <1>2, <2>3, CallFits
  <2> QED
    BY <2>1, <2>2, <2>3, <1>2, CallFits DEF Next, Background
<1> QED
  BY <1>3, FitsStays DEF RequestsInv

\* Operations end; only a call to register or sign in starts to wait for a token.
LEMMA WaitingMoves ==
  ASSUME AccountsInv, [Next]_vars
  PROVE  \/ \E r \in Request, e \in Email, op \in PasswordOps : Present(r, op, e)
         \/ Issuing' \subseteq Issuing /\ Registering' \subseteq Registering
<1>1. ASSUME NEW r \in Request, Serve(r)
      PROVE  Issuing' \subseteq Issuing /\ Registering' \subseteq Registering
  <2>1. \A s \in Request : request'[s].op \in {request[s].op, "none"}
    BY <1>1, ServeRequest, RequestTyped DEF AccountsInv, Becomes, Served
  <2> QED
    BY <2>1 DEF Issuing, Registering, PasswordOps
<1>2. ASSUME NEW r \in Request, NEW j \in Jti, Search(r, j) \/ \E op \in TokenOps : Bear(r, op, j)
      PROVE  Issuing' \subseteq Issuing /\ Registering' \subseteq Registering
  <2>1. \A s \in Request : request'[s].op \in {request[s].op, "search"} \cup TokenOps
    <3>1. CASE Search(r, j)
      BY <3>1, RequestTyped DEF AccountsInv, Search
    <3>2. ASSUME NEW op \in TokenOps, Bear(r, op, j)
          PROVE  \A s \in Request : request'[s].op \in {request[s].op, op}
      BY <3>2, RequestTyped DEF AccountsInv, Bear
    <3> QED
      BY <1>2, <3>1, <3>2
  <2> QED
    BY <2>1 DEF Issuing, Registering, PasswordOps, TokenOps
<1>3. ASSUME Background PROVE Issuing' \subseteq Issuing /\ Registering' \subseteq Registering
  BY <1>3, BackgroundKeeps DEF Issuing, Registering
<1> QED
  BY <1>1, <1>2, <1>3 DEF Next, Background

LEMMA EnoughTokens ==
  ASSUME AccountsInv, [Next]_vars
  PROVE  (Cardinality(Issuing) <= Cardinality(Unissued))'
<1>1. Cardinality(Issuing) \in Nat /\ Cardinality(Unissued) \in Nat /\ Cardinality(Issuing') \in Nat
  BY Parts DEF Issuing, Unissued
<1>2. Cardinality(Issuing) <= Cardinality(Unissued)
  BY DEF AccountsInv, TokensInv
<1>3. ASSUME NEW r \in Request, NEW e \in Email, NEW op \in PasswordOps, Present(r, op, e)
      PROVE  Cardinality(Issuing') <= Cardinality(Unissued')
  <2>1. Unissued' = Unissued /\ Cardinality(Unissued) > Cardinality(Issuing)
    BY <1>3 DEF Present, Unissued, signing
  <2>2. Issuing' \subseteq Issuing \cup {r}
    BY <1>3, RequestTyped DEF AccountsInv, Present, Issuing
  <2>3. Cardinality(Issuing \cup {r}) <= Cardinality(Issuing) + 1
    BY <1>1, OneMore DEF Issuing
  <2>4. Cardinality(Issuing') <= Cardinality(Issuing \cup {r}) /\ Cardinality(Issuing \cup {r}) \in Nat
    BY <2>2, Smaller, Parts DEF Issuing
  <2> QED
    BY <1>1, <2>1, <2>3, <2>4
<1>4. ASSUME Issuing' \subseteq Issuing PROVE Cardinality(Issuing') <= Cardinality(Unissued')
  <2>1. Cardinality(Issuing') <= Cardinality(Issuing)
    BY <1>4, Smaller DEF Issuing
  <2>2. CASE UNCHANGED token
    BY <1>1, <1>2, <2>1, <2>2 DEF Unissued
  <2>3. CASE \E j \in Jti : token' = [token EXCEPT ![j].live = FALSE]
    <3>1. Unissued' = Unissued
      BY <2>3 DEF AccountsInv, TypeOK, Unissued
    <3> QED
      BY <1>1, <1>2, <2>1, <3>1
  <2>4. ASSUME NEW r \in Issuing, NEW i \in Id, Issues(i), Becomes(r, Idle)
        PROVE  Cardinality(Issuing') <= Cardinality(Unissued')
    <3>1. PICK j \in Unissued : token' = [token EXCEPT ![j] = [id |-> i, live |-> TRUE]]
      BY <2>4 DEF Issues
    <3>2. Unissued' = Unissued \ {j}
      BY <3>1 DEF AccountsInv, TypeOK, Unissued, Id
    <3>3. Issuing' = Issuing \ {r}
      BY <2>4, RequestTyped DEF AccountsInv, Becomes, Issuing, Idle, PasswordOps
    <3>4. Cardinality(Issuing') = Cardinality(Issuing) - 1
      BY <3>3, LessOne DEF Issuing
    <3>5. Cardinality(Unissued') = Cardinality(Unissued) - 1
      BY <3>1, <3>2, LessOne DEF Unissued
    <3> QED
      BY <1>1, <1>2, <3>4, <3>5
  <2> QED
    BY <2>2, <2>3, <2>4, TokenMoves
<1> QED
  BY <1>3, <1>4, WaitingMoves

LEMMA EnoughAccounts ==
  ASSUME AccountsInv, [Next]_vars
  PROVE  (created + Cardinality(Registering) <= MaxAccounts)' /\ created' \in 0 .. MaxAccounts
<1>1. /\ Cardinality(Registering) \in Nat /\ Cardinality(Registering') \in Nat
      /\ created \in 0 .. MaxAccounts /\ MaxAccounts \in Nat
  BY Parts, AccountsAssumption DEF AccountsInv, TypeOK, Registering
<1>2. created + Cardinality(Registering) <= MaxAccounts
  BY DEF AccountsInv, TokensInv
<1>3. ASSUME NEW r \in Request, NEW e \in Email, NEW op \in PasswordOps, Present(r, op, e)
      PROVE  created' + Cardinality(Registering') <= MaxAccounts /\ created' = created
  <2>1. created' = created /\ (op = "register" => created + Cardinality(Registering) < MaxAccounts)
    BY <1>3 DEF Present
  <2>2. Registering' \subseteq IF op = "register" THEN Registering \cup {r} ELSE Registering
    BY <1>3, RequestTyped DEF AccountsInv, Present, Registering
  <2>3. CASE op = "register"
    <3>1. Cardinality(Registering \cup {r}) <= Cardinality(Registering) + 1
      BY <1>1, OneMore DEF Registering
    <3>2. Cardinality(Registering') <= Cardinality(Registering \cup {r})
          /\ Cardinality(Registering \cup {r}) \in Nat
      BY <2>2, <2>3, Smaller, Parts DEF Registering
    <3> QED
      BY <1>1, <2>1, <2>3, <3>1, <3>2
  <2>4. CASE op # "register"
    <3>1. Cardinality(Registering') <= Cardinality(Registering)
      BY <2>2, <2>4, Smaller DEF Registering
    <3> QED
      BY <1>1, <1>2, <2>1, <3>1
  <2> QED
    BY <2>3, <2>4
<1>4. ASSUME NEW r \in Request, CreateUser(r), created' # created
      PROVE  created' + Cardinality(Registering') <= MaxAccounts /\ created' = created + 1
             /\ created' <= MaxAccounts
  <2>1. created' = created + 1 /\ r \in Registering /\ Becomes(r, Idle)
    BY <1>4, EndsIdle DEF CreateUser, Op, Registering
  <2>2. Registering' = Registering \ {r}
    BY <2>1, RequestTyped DEF AccountsInv, Becomes, Registering, Idle
  <2>3. Cardinality(Registering') = Cardinality(Registering) - 1
    BY <2>1, <2>2, LessOne DEF Registering
  <2> QED
    BY <1>1, <1>2, <2>1, <2>3
<1>5. ASSUME NEW r \in Request, Serve(r), ~CreateUser(r) PROVE created' = created
  BY <1>5 DEF Serve, FindUser, RetryAfter, ReadAccount, EnterSlot, LeaveSlot, RecordFailure, RecordSuccess,
     SignIn, CheckRevoked, LoadUser, Logout, SetSaveHistory, ForgetSearch, ClearHistory, DeleteUser,
     RevokeOwn, Submit
<1>6. \A r \in Request, j \in Jti : Search(r, j) \/ (\E op \in TokenOps : Bear(r, op, j)) => created' = created
  BY DEF Search, Bear
<1>7. ASSUME created' = created, Registering' \subseteq Registering
      PROVE  created' + Cardinality(Registering') <= MaxAccounts
  <2>1. Cardinality(Registering') <= Cardinality(Registering)
    BY <1>7, Smaller DEF Registering
  <2> QED
    BY <1>1, <1>2, <1>7, <2>1
<1>8. created' # created => \E r \in Request : CreateUser(r)
  BY <1>3, <1>5, <1>6, BackgroundKeeps DEF Next, Background
<1> QED
  BY <1>1, <1>3, <1>4, <1>7, <1>8, WaitingMoves

LEMMA TokensStep == ASSUME AccountsInv, [Next]_vars PROVE TokensInv'
<1>1. \A j \in Jti : token'[j].live => token'[j].id # 0
  <2>1. \A j \in Jti : token[j].live => token[j].id # 0
    BY DEF AccountsInv, TokensInv
  <2>2. CASE \E j \in Jti : token' = [token EXCEPT ![j].live = FALSE]
    BY <2>1, <2>2 DEF AccountsInv, TypeOK
  <2>3. CASE \E r \in Issuing, i \in Id : Issues(i) /\ Becomes(r, Idle)
    BY <2>1, <2>3 DEF AccountsInv, TypeOK, Issues, Unissued, Id
  <2> QED
    BY <2>1, <2>2, <2>3, TokenMoves
<1>2. \A j \in signedOut : j \in Jti /\ token[j].id # 0 /\ (token[j].live => j \in revoked)
  BY DEF AccountsInv, TokensInv, TypeOK
<1>3. ASSUME UNCHANGED <<revoked, signedOut>>
      PROVE  \A j \in signedOut' : token'[j].id # 0 /\ (token'[j].live => j \in revoked')
  <2>1. \A j \in signedOut : token'[j].live => token[j].live
    BY <1>2, TokenMoves DEF AccountsInv, TypeOK, Issues, Unissued
  <2> QED
    BY <1>2, <1>3, <2>1, TokensKept
<1>4. ASSUME NEW r \in Request, Logout(r) \/ RevokeOwn(r)
      PROVE  \A j \in signedOut' : token'[j].id # 0 /\ (token'[j].live => j \in revoked')
  <2>1. request[r].op \in TokenOps
    <3>1. Fits(request[r], token) /\ request[r].op \in Ops
      BY RequestTyped DEF AccountsInv, RequestsInv, RequestType
    <3> QED
      BY <1>4, <3>1 DEF Logout, RevokeOwn, Op, At, Fits, StepsOf, Ops, TokenOps, PasswordOps,
         PasswordSteps, Idle
  <2>2. token[request[r].jti].id # 0
    BY <2>1 DEF AccountsInv, RequestsInv, Fits, Held
  <2> QED
    BY <1>2, <1>4, <2>2 DEF Logout, RevokeOwn, Revoke
<1>5. ASSUME Purge
      PROVE  \A j \in signedOut' : token'[j].id # 0 /\ (token'[j].live => j \in revoked')
  BY <1>2, <1>5 DEF Purge, Purgeable
<1>6. \/ UNCHANGED <<revoked, signedOut>>
      \/ Purge
      \/ \E r \in Request : Logout(r) \/ RevokeOwn(r)
  <2>1. ASSUME NEW r \in Request, Serve(r), ~Logout(r), ~RevokeOwn(r) PROVE UNCHANGED <<revoked, signedOut>>
    BY <2>1 DEF Serve, FindUser, RetryAfter, ReadAccount, EnterSlot, LeaveSlot, RecordFailure,
       RecordSuccess, SignIn, CreateUser, CheckRevoked, LoadUser, SetSaveHistory, ForgetSearch,
       ClearHistory, DeleteUser, Submit, signing
  <2>2. ASSUME Background, ~Purge PROVE UNCHANGED <<revoked, signedOut>>
    BY <2>2 DEF Background, Write, Take, LogSearch, DropEntry, Expire, WindowPasses, CloseSink, vars, signing
  <2>3. \A r \in Request, e \in Email, op \in PasswordOps : Present(r, op, e) =>
          UNCHANGED <<revoked, signedOut>>
    BY DEF Present, signing
  <2>4. \A r \in Request, j \in Jti : Search(r, j) \/ (\E op \in TokenOps : Bear(r, op, j)) =>
          UNCHANGED <<revoked, signedOut>>
    BY DEF Search, Bear, signing
  <2> QED
    BY <2>1, <2>2, <2>3, <2>4 DEF Next, Background
<1> QED
  BY <1>1, <1>3, <1>4, <1>5, <1>6, EnoughTokens, EnoughAccounts DEF TokensInv

-----------------------------------------------------------------------------
(* The backlog.                                                            *)

EntryType == [stage : {"none", "queued", "writing", "done"}, jti : Jti \cup {0},
              saved : BOOLEAN, cleared : BOOLEAN]

\* Entries keep their token and, once settled, stay so; the semaphore counts the others.
EntriesFollow ==
  /\ entry' \in [Entry -> EntryType] /\ slots' \in 0 .. MaxPending
  /\ slots' + Cardinality(Unsettled') = MaxPending
  /\ \A n \in Entry :
       /\ entry[n].stage # "none" => entry'[n].stage # "none" /\ entry'[n].jti = entry[n].jti
       /\ entry[n].stage = "done" => entry'[n].stage = "done"
       /\ entry'[n].stage # "none" => entry'[n].jti \in Jti /\ token[entry'[n].jti].id # 0

LEMMA BacklogFacts ==
  ASSUME AccountsInv
  PROVE  /\ entry \in [Entry -> EntryType] /\ slots \in 0 .. MaxPending /\ MaxPending \in Nat
         /\ Cardinality(Unsettled) \in Nat /\ slots + Cardinality(Unsettled) = MaxPending
         /\ \A n \in Entry : entry[n].stage # "none" => entry[n].jti \in Jti /\ token[entry[n].jti].id # 0
BY Parts, AccountsAssumption DEF AccountsInv, TypeOK, EntryType, BacklogInv, Unsettled

\* One entry goes a stage further, and the semaphore with it.
LEMMA EntryGoesOn ==
  ASSUME AccountsInv, NEW n \in Entry, NEW e \in EntryType, entry' = [entry EXCEPT ![n] = e],
         e.jti \in Jti, token[e.jti].id # 0, entry[n].stage # "none" => e.jti = entry[n].jti,
         \/ entry[n].stage = "none" /\ e.stage = "queued" /\ slots # 0 /\ slots' = slots - 1
         \/ entry[n].stage = "queued" /\ e.stage = "writing" /\ slots' = slots
         \/ entry[n].stage = "writing" /\ e.stage = "done" /\ slots' = slots + 1
  PROVE  EntriesFollow
<1>1. entry'[n] = e /\ \A m \in Entry : m # n => entry'[m] = entry[m]
  BY BacklogFacts
<1>2. entry' \in [Entry -> EntryType]
  BY BacklogFacts
<1>3. slots' + Cardinality(Unsettled') = MaxPending /\ slots' \in 0 .. MaxPending
  <2>1. CASE entry[n].stage = "none" /\ e.stage = "queued" /\ slots # 0 /\ slots' = slots - 1
    <3>1. Unsettled' = Unsettled \cup {n} /\ n \notin Unsettled
      BY <1>1, <2>1 DEF Unsettled
    <3>2. Cardinality(Unsettled') = Cardinality(Unsettled) + 1
      BY <3>1, OneMore DEF Unsettled
    <3> QED
      BY <2>1, <3>2, BacklogFacts
  <2>2. CASE entry[n].stage = "queued" /\ e.stage = "writing" /\ slots' = slots
    <3>1. Unsettled' = Unsettled
      BY <1>1, <2>2 DEF Unsettled
    <3> QED
      BY <2>2, <3>1, BacklogFacts
  <2>3. CASE entry[n].stage = "writing" /\ e.stage = "done" /\ slots' = slots + 1
    <3>1. Unsettled' = Unsettled \ {n} /\ n \in Unsettled
      BY <1>1, <2>3 DEF Unsettled
    <3>2. Cardinality(Unsettled') = Cardinality(Unsettled) - 1 /\ Cardinality(Unsettled) > 0
      BY <3>1, LessOne DEF Unsettled
    <3> QED
      BY <2>3, <3>2, BacklogFacts
  <2> QED
    BY <2>1, <2>2, <2>3
<1>4. \A m \in Entry :
        /\ entry[m].stage # "none" => entry'[m].stage # "none" /\ entry'[m].jti = entry[m].jti
        /\ entry[m].stage = "done" => entry'[m].stage = "done"
        /\ entry'[m].stage # "none" => entry'[m].jti \in Jti /\ token[entry'[m].jti].id # 0
  BY <1>1, BacklogFacts
<1> QED
  BY <1>2, <1>3, <1>4 DEF EntriesFollow

LEMMA EntriesStep == ASSUME AccountsInv, [Next]_vars PROVE EntriesFollow
<1>1. ASSUME UNCHANGED <<entry, slots>> PROVE EntriesFollow
  BY <1>1, BacklogFacts DEF EntriesFollow, Unsettled
<1>2. ASSUME NEW r \in Request, Submit(r), ~UNCHANGED <<entry, slots>> PROVE EntriesFollow
  <2> DEFINE j == request[r].jti
  <2>1. PICK n \in NextEntry : Enqueue(r, n) /\ slots # 0 /\ slots' = slots - 1
    BY <1>2 DEF Submit
  <2>2. n \in Entry /\ entry[n].stage = "none"
    BY <2>1 DEF NextEntry
  <2>3. request[r].op = "search"
    <3>1. Fits(request[r], token) /\ request[r].op \in Ops /\ request[r].step = "searching"
      BY <1>2, RequestTyped DEF AccountsInv, RequestsInv, RequestType, Submit, At
    <3> QED
      BY <3>1 DEF Fits, StepsOf, Ops, TokenOps, PasswordOps, PasswordSteps, Idle
  <2>4. j \in Jti /\ token[j].id # 0
    BY <2>3 DEF AccountsInv, RequestsInv, Fits, Held
  <2> DEFINE e == [stage |-> "queued", jti |-> j, cleared |-> FALSE,
                   saved |-> Exists(AccountOf(j)) /\ account[AccountOf(j)].save]
  <2>5. account[AccountOf(j)].save \in BOOLEAN \/ ~Exists(AccountOf(j))
    BY DEF AccountsInv, TypeOK, Exists
  <2>6. (Exists(AccountOf(j)) /\ account[AccountOf(j)].save) \in BOOLEAN
    BY <2>5
  <2>7. e \in EntryType /\ e.jti = j /\ e.stage = "queued"
    BY <2>4, <2>6 DEF EntryType
  <2>8. entry' = [entry EXCEPT ![n] = e]
    BY <2>1 DEF Enqueue
  <2> HIDE DEF e
  <2> QED
    BY <2>1, <2>2, <2>4, <2>7, <2>8, EntryGoesOn
<1>3. ASSUME NEW r \in Request, ClearHistory(r) PROVE EntriesFollow
  <2>1. \A n \in Entry : /\ entry'[n] \in EntryType
                         /\ entry'[n].stage = entry[n].stage /\ entry'[n].jti = entry[n].jti
    BY <1>3, BacklogFacts DEF ClearHistory, EntryType
  <2>2. entry' \in [Entry -> EntryType] /\ slots' = slots
    BY <1>3, <2>1 DEF ClearHistory
  <2>3. Unsettled' = Unsettled
    BY <2>1 DEF Unsettled
  <2> QED
    BY <2>1, <2>2, <2>3, BacklogFacts DEF EntriesFollow
<1>4. ASSUME NEW n \in Entry, Take(n) PROVE EntriesFollow
  <2> DEFINE e == [entry[n] EXCEPT !.stage = "writing"]
  <2>1. entry' = [entry EXCEPT ![n] = e] /\ entry[n].stage = "queued" /\ slots' = slots
    BY <1>4 DEF Take
  <2>2. e \in EntryType /\ e.jti = entry[n].jti /\ e.stage = "writing"
    BY BacklogFacts DEF EntryType
  <2> HIDE DEF e
  <2> QED
    BY <2>1, <2>2, BacklogFacts, EntryGoesOn
<1>5. ASSUME NEW n \in Entry, LogSearch(n) \/ DropEntry(n) PROVE EntriesFollow
  <2> DEFINE e == [entry[n] EXCEPT !.stage = "done"]
  <2>1. entry' = [entry EXCEPT ![n] = e] /\ entry[n].stage = "writing" /\ slots' = slots + 1
    BY <1>5 DEF LogSearch, DropEntry, Settle
  <2>2. e \in EntryType /\ e.jti = entry[n].jti /\ e.stage = "done"
    BY BacklogFacts DEF EntryType
  <2> HIDE DEF e
  <2> QED
    BY <2>1, <2>2, BacklogFacts, EntryGoesOn
<1>6. ASSUME NEW r \in Request, Serve(r), ~ClearHistory(r), ~Submit(r)
      PROVE  UNCHANGED <<entry, slots>>
  BY <1>6 DEF Serve, FindUser, RetryAfter, ReadAccount, EnterSlot, LeaveSlot, RecordFailure,
     RecordSuccess, SignIn, CreateUser, CheckRevoked, LoadUser, Logout, SetSaveHistory, ForgetSearch,
     DeleteUser, RevokeOwn, backlog
<1>7. ASSUME NEW r \in Request, NEW e, NEW op, Present(r, op, e) PROVE UNCHANGED <<entry, slots>>
  BY <1>7 DEF Present, backlog
<1>8. ASSUME NEW r \in Request, NEW j, NEW op, Search(r, j) \/ Bear(r, op, j)
      PROVE  UNCHANGED <<entry, slots>>
  BY <1>8 DEF Search, Bear, backlog
<1>9. ASSUME Background, \A n \in Entry : ~Write(n) PROVE UNCHANGED <<entry, slots>>
  BY <1>9 DEF Background, Expire, WindowPasses, CloseSink, Purge, vars, backlog
<1> QED
  BY <1>1, <1>2, <1>3, <1>4, <1>5, <1>6, <1>7, <1>8, <1>9 DEF Next, Background, Write

\* An account that goes takes its rows with it, and no other account loses its email.
LEMMA AccountsFollow ==
  ASSUME AccountsInv, [Next]_vars
  PROVE  /\ account' \in [Id -> [email : Email \cup {"none"}, save : BOOLEAN]]
         /\ \A i \in Id : Exists(i) =>
              \/ account'[i].email # "none"
              \/ history' = {n \in history : AccountOf(entry[n].jti) # i}
<1> DEFINE Goal ==
      /\ account' \in [Id -> [email : Email \cup {"none"}, save : BOOLEAN]]
      /\ \A i \in Id : Exists(i) =>
           \/ account'[i].email # "none"
           \/ history' = {n \in history : AccountOf(entry[n].jti) # i}
<1>1. account \in [Id -> [email : Email \cup {"none"}, save : BOOLEAN]]
  BY DEF AccountsInv, TypeOK
<1>2. ASSUME account' = account PROVE Goal
  BY <1>1, <1>2 DEF Exists
<1>3. ASSUME NEW r \in Request, CreateUser(r) PROVE Goal
  <2>1. r \in Registering
    BY <1>3 DEF CreateUser, Op, Registering
  <2>2. created + 1 \in Id /\ request[r].email \in Email
    BY <2>1, RoomForAccount DEF AccountsInv, RequestsInv, Fits, Held, Registering, PasswordOps
  <2> DEFINE new == [email |-> request[r].email, save |-> TRUE]
  <2>3. new \in [email : Email \cup {"none"}, save : BOOLEAN] /\ new.email # "none"
    BY <2>2, AccountsAssumption
  <2>4. account' = account \/ account' = [account EXCEPT ![created + 1] = new]
    BY <1>3 DEF CreateUser
  <2> HIDE DEF new
  <2> QED
    BY <1>1, <1>2, <2>2, <2>3, <2>4 DEF Exists
<1>4. ASSUME NEW r \in Request, SetSaveHistory(r) PROVE Goal
  <2>1. CASE Exists(request[r].id)
    <3> DEFINE i == request[r].id
               new == [account[i] EXCEPT !.save = Op(r, "on")]
    <3>1. i \in Id /\ account' = [account EXCEPT ![i] = new]
      BY <1>4, <2>1 DEF SetSaveHistory, Exists
    <3>2. Op(r, "on") \in BOOLEAN
      BY DEF Op
    <3>3. new \in [email : Email \cup {"none"}, save : BOOLEAN] /\ new.email = account[i].email
      BY <1>1, <3>1, <3>2
    <3> HIDE DEF new
    <3> QED
      BY <1>1, <3>1, <3>3 DEF Exists
  <2>2. CASE ~Exists(request[r].id)
    BY <1>2, <1>4, <2>2 DEF SetSaveHistory
  <2> QED
    BY <2>1, <2>2
<1>5. ASSUME NEW r \in Request, DeleteUser(r) PROVE Goal
  <2> DEFINE i == request[r].id
  <2>1. account' = [account EXCEPT ![i] = NoAccount] /\ history' = history \ RowsOf(i)
    BY <1>5 DEF DeleteUser
  <2>2. history' = {n \in history : AccountOf(entry[n].jti) # i}
    BY <2>1 DEF RowsOf
  <2>3. NoAccount \in [email : Email \cup {"none"}, save : BOOLEAN]
    BY DEF NoAccount
  <2> QED
    BY <1>1, <2>1, <2>2, <2>3 DEF Exists
<1>6. ASSUME NEW r \in Request, Serve(r), ~CreateUser(r), ~SetSaveHistory(r), ~DeleteUser(r)
      PROVE  account' = account
  BY <1>6 DEF Serve, FindUser, RetryAfter, ReadAccount, EnterSlot, LeaveSlot, RecordFailure,
     RecordSuccess, SignIn, CheckRevoked, LoadUser, Logout, ForgetSearch, ClearHistory, RevokeOwn, Submit
<1>7. ASSUME NEW r \in Request, NEW e, NEW op, Present(r, op, e) PROVE account' = account
  BY <1>7 DEF Present
<1>8. ASSUME NEW r \in Request, NEW j, NEW op, Search(r, j) \/ Bear(r, op, j) PROVE account' = account
  BY <1>8 DEF Search, Bear
<1> QED
  BY <1>2, <1>3, <1>4, <1>5, <1>6, <1>7, <1>8, BackgroundKeeps DEF Next, Background

\* A row comes only from an entry that is settled with it, for an account that exists
\* and under a token that is not signed out.
LEMMA RowsFollow ==
  ASSUME AccountsInv, [Next]_vars
  PROVE  \/ history' \subseteq history
         \/ \E n \in Entry : LogSearch(n) /\ Recorded(n) /\ history' = history \cup {n}
<1>1. ASSUME NEW n \in Entry, LogSearch(n)
      PROVE  history' \subseteq history \/ (Recorded(n) /\ history' = history \cup {n})
  BY <1>1 DEF LogSearch
<1>2. ASSUME NEW r \in Request, Serve(r) PROVE history' \subseteq history
  BY <1>2 DEF Serve, FindUser, RetryAfter, ReadAccount, EnterSlot, LeaveSlot, RecordFailure,
     RecordSuccess, SignIn, CreateUser, CheckRevoked, LoadUser, Logout, SetSaveHistory, ForgetSearch,
     ClearHistory, DeleteUser, RevokeOwn, Submit, backlog
<1>3. ASSUME NEW r \in Request, NEW e, NEW op, Present(r, op, e) PROVE history' = history
  BY <1>3 DEF Present, backlog
<1>4. ASSUME NEW r \in Request, NEW j, NEW op, Search(r, j) \/ Bear(r, op, j) PROVE history' = history
  BY <1>4 DEF Search, Bear, backlog
<1>5. ASSUME Background, \A n \in Entry : ~LogSearch(n) PROVE history' = history
  BY <1>5 DEF Background, Write, Take, DropEntry, Expire, WindowPasses, CloseSink, Purge, vars, backlog
<1> QED
  BY <1>1, <1>2, <1>3, <1>4, <1>5 DEF Next, Background

LEMMA BacklogStep ==
  ASSUME AccountsInv, [Next]_vars
  PROVE  BacklogInv' /\ history' \subseteq Entry
<1>1. EntriesFollow /\ \A j \in Jti : token[j].id # 0 => token'[j].id = token[j].id
  BY EntriesStep, TokensKept
<1>2. \A n \in Entry : entry'[n].stage # "none" => entry'[n].jti \in Jti /\ token'[entry'[n].jti].id # 0
  BY <1>1 DEF EntriesFollow
<1>3. \A n \in history : /\ n \in Entry /\ entry[n].stage = "done"
                         /\ Exists(AccountOf(entry[n].jti))
  BY DEF AccountsInv, BacklogInv, TypeOK
<1>4. \A n \in Entry : entry[n].stage # "none" => AccountOf(entry[n].jti) = token'[entry'[n].jti].id
  BY <1>1, BacklogFacts DEF EntriesFollow, AccountOf
<1>5. ASSUME history' \subseteq history
      PROVE  \A n \in history' : n \in Entry /\ entry'[n].stage = "done"
               /\ token'[entry'[n].jti].id \in Id /\ account'[token'[entry'[n].jti].id].email # "none"
  <2> SUFFICES ASSUME NEW n \in history'
      PROVE  n \in Entry /\ entry'[n].stage = "done"
               /\ token'[entry'[n].jti].id \in Id /\ account'[token'[entry'[n].jti].id].email # "none"
    OBVIOUS
  <2> DEFINE i == AccountOf(entry[n].jti)
  <2>1. n \in Entry /\ entry[n].stage = "done" /\ Exists(i) /\ i = token'[entry'[n].jti].id
    BY <1>3, <1>4, <1>5
  <2>2. i \in Id
    BY <2>1 DEF Exists
  <2>3. account'[i].email # "none"
    BY <2>1, <2>2, AccountsFollow
  <2> QED
    BY <1>1, <2>1, <2>2, <2>3 DEF EntriesFollow
<1>6. ASSUME NEW n \in Entry, LogSearch(n), Recorded(n), history' = history \cup {n}
      PROVE  \A m \in history' : m \in Entry /\ entry'[m].stage = "done"
               /\ token'[entry'[m].jti].id \in Id /\ account'[token'[entry'[m].jti].id].email # "none"
  <2>1. account' = account /\ entry[n].stage = "writing" /\ entry'[n].stage = "done"
    BY <1>6, BacklogFacts DEF LogSearch, Settle, EntryType
  <2>2. Exists(AccountOf(entry[n].jti))
    BY <1>6 DEF Recorded
  <2>3. \A m \in history' : m \in Entry /\ Exists(AccountOf(entry[m].jti)) /\ entry'[m].stage = "done"
                            /\ entry[m].stage # "none"
    BY <1>1, <1>3, <1>6, <2>1, <2>2 DEF EntriesFollow
  <2> QED
    BY <1>4, <2>1, <2>3 DEF Exists
<1>7. \A n \in history' : n \in Entry /\ entry'[n].stage = "done"
               /\ token'[entry'[n].jti].id \in Id /\ account'[token'[entry'[n].jti].id].email # "none"
  BY <1>5, <1>6, RowsFollow
<1> QED
  BY <1>1, <1>2, <1>7 DEF BacklogInv, EntriesFollow, Exists, AccountOf

-----------------------------------------------------------------------------
(* The brake: a failure is counted by a request that was past it.          *)

LEMMA Limits ==
  /\ MaxFailures \in Nat \ {0} /\ Cardinality(Request) \in Nat
  /\ \A i : Past(i) \subseteq Request /\ Cardinality(Past(i)) \in Nat
                                      /\ Cardinality(Past(i)) <= Cardinality(Request)
<1>1. MaxFailures \in Nat \ {0} /\ Cardinality(Request) \in Nat
  BY AccountsAssumption, Parts
<1>2. ASSUME NEW i PROVE /\ Past(i) \subseteq Request /\ Cardinality(Past(i)) \in Nat
                         /\ Cardinality(Past(i)) <= Cardinality(Request)
  BY Parts, Smaller DEF Past
<1> QED
  BY <1>1, <1>2

\* Only retry_after lets a request past the brake.
LEMMA OnlyTheBrake ==
  ASSUME AccountsInv, [Next]_vars, NEW s \in Request, NEW i, s \in Past(i)', s \notin Past(i)
  PROVE  RetryAfter(s)
<1> DEFINE In(q) == q.step \in PasswordSteps \cup {"read"} /\ q.op \in {"login", "delete"}
<1>1. In(request'[s]) /\ request'[s].id = i
  BY DEF Past
<1>2. request'[s] # request[s]
  BY <1>1 DEF Past
<1>3. ASSUME NEW r \in Request, Serve(r) PROVE RetryAfter(s)
  <2>1. PICK q : Becomes(r, q) /\ Served(r, q)
    BY <1>3, ServeRequest
  <2>2. r = s /\ request'[s] = q
    BY <1>2, <2>1, RequestTyped DEF AccountsInv, Becomes
  <2>3. q.op = request[s].op /\ q # Idle
    BY <1>1, <2>1, <2>2 DEF Served, Idle
  <2>4. CASE In(request[s])
    <3>1. q.id = request[s].id
      BY <2>1, <2>2, <2>3, <2>4 DEF Served, PasswordSteps
    <3> QED
      BY <1>1, <2>2, <2>4, <3>1 DEF Past
  <2>5. CASE ~In(request[s])
    <3>1. request[s].step \notin {"slot", "hashing", "failed", "read"}
      BY <1>1, <2>2, <2>3, <2>5 DEF PasswordSteps
    <3>2. request'[s].step \in {"slot", "hashing", "failed", "read"} /\ request'[s] # Idle
      BY <1>1, <2>2, <2>3 DEF PasswordSteps
    <3>3. request[s] \in RequestType
      BY RequestTyped DEF AccountsInv
    <3>4. Serve(s)
      BY <1>3, <2>2
    <3>5. ~(ReadAccount(s) \/ EnterSlot(s) \/ LeaveSlot(s) \/ RecordFailure(s))
      BY <3>1 DEF ReadAccount, EnterSlot, LeaveSlot, RecordFailure, At
    <3>6. ~End(s)
      BY <3>2, RequestTyped DEF AccountsInv, End
    <3>7. ASSUME NEW t, Goto(s, t) PROVE t \in {"slot", "hashing", "failed", "read"}
      BY <3>2, <3>7, RequestTyped DEF AccountsInv, Goto, RequestType
    <3>8. ~FindUser(s) /\ ~LoadUser(s)
      BY <3>2, <3>3, <3>6, RequestTyped DEF AccountsInv, FindUser, LoadUser, RequestType
    <3> QED
      BY <3>4, <3>5, <3>6, <3>7, <3>8 DEF Serve, RecordSuccess, SignIn, CreateUser, CheckRevoked, Logout,
         SetSaveHistory, ForgetSearch, ClearHistory, DeleteUser, RevokeOwn, Submit
  <2> QED
    BY <2>4, <2>5
<1>4. ASSUME NEW r \in Request, NEW e \in Email, NEW op \in PasswordOps, Present(r, op, e) PROVE FALSE
  BY <1>1, <1>2, <1>4, RequestTyped DEF AccountsInv, Present, PasswordOps, PasswordSteps, Idle
<1>5. ASSUME NEW r \in Request, NEW j \in Jti, Search(r, j) PROVE FALSE
  BY <1>1, <1>2, <1>5, RequestTyped DEF AccountsInv, Search, PasswordSteps, Idle
<1>6. ASSUME NEW r \in Request, NEW j \in Jti, NEW op \in TokenOps, Bear(r, op, j) PROVE FALSE
  BY <1>1, <1>2, <1>6, RequestTyped DEF AccountsInv, Bear, PasswordSteps, Idle
<1> QED
  BY <1>2, <1>3, <1>4, <1>5, <1>6, BackgroundKeeps DEF Next, Background

LEMMA BrakeStep ==
  ASSUME AccountsInv, [Next]_vars
  PROVE  failures' \in [Id \cup {0} -> Tried] /\ BrakeInv'
<1> DEFINE Bound(i) == failures'[i] + Cardinality(Past(i)') < MaxFailures + Cardinality(Request)
<1>1. failures \in [Id \cup {0} -> Nat]
  BY Limits DEF AccountsInv, TypeOK, Tried
<1>2. \A i \in Id \cup {0} : failures[i] + Cardinality(Past(i)) < MaxFailures + Cardinality(Request)
  BY DEF AccountsInv, BrakeInv
<1>3. \A i : /\ Cardinality(Past(i)') \in Nat /\ Cardinality(Past(i)') <= Cardinality(Request)
             /\ Past(i)' \subseteq Request
  <2>1. ASSUME NEW i PROVE Past(i)' \subseteq Request
    BY DEF Past
  <2> QED
    BY <2>1, Parts, Smaller
<1>4. ASSUME NEW i \in Id \cup {0}, failures'[i] < MaxFailures, failures'[i] \in Nat PROVE Bound(i)
  BY <1>3, <1>4, Limits
<1>5. ASSUME NEW i \in Id \cup {0}, failures'[i] = failures[i], Past(i)' \subseteq Past(i) PROVE Bound(i)
  <2>1. Cardinality(Past(i)') <= Cardinality(Past(i))
    BY <1>5, Limits, Smaller
  <2> QED
    BY <1>1, <1>2, <1>3, <1>5, <2>1, Limits
<1>6. ASSUME NEW r \in Request, RetryAfter(r)
      PROVE  failures' = failures /\ \A i \in Id \cup {0} : Bound(i)
  <2>1. failures' = failures
    BY <1>6 DEF RetryAfter
  <2>2. \A s \in Request : s # r => ~RetryAfter(s) \/ request'[s] = request[s]
    BY <1>6, RequestTyped DEF AccountsInv, RetryAfter, End, Goto
  <2>3. ASSUME NEW i \in Id \cup {0}, Past(i)' \subseteq Past(i) PROVE Bound(i)
    BY <1>5, <2>1, <2>3
  <2>4. ASSUME NEW i \in Id \cup {0}, ~(Past(i)' \subseteq Past(i)) PROVE Bound(i)
    <3>1. PICK s \in Past(i)' : s \notin Past(i)
      BY <2>4
    <3>2. s \in Request /\ RetryAfter(s) /\ request'[s] # request[s]
      BY <1>3, <3>1, OnlyTheBrake DEF Past
    <3>3. r = s
      BY <2>2, <3>2
    <3>4. request'[r] # Idle /\ request'[r].id = i
      BY <3>1, <3>3 DEF Past, Idle
    <3>5. failures[request[r].id] < MaxFailures /\ request'[r].id = request[r].id
      <4>1. ~End(r)
        BY <3>4, RequestTyped DEF AccountsInv, End
      <4>2. ~(failures[request[r].id] >= MaxFailures)
        BY <1>6, <4>1 DEF RetryAfter
      <4>3. request[r].id \in Id \cup {0} /\ request[r] \in RequestType
        BY RequestTyped DEF AccountsInv, RequestType
      <4>4. request'[r].id = request[r].id
        BY <1>6, <4>1, <4>3, RequestTyped DEF AccountsInv, RetryAfter, Goto, RequestType
      <4> QED
        BY <1>1, <4>2, <4>3, <4>4, Limits
    <3> QED
      BY <1>1, <1>4, <2>1, <3>4, <3>5
  <2> QED
    BY <2>1, <2>3, <2>4
<1>7. ASSUME \A r \in Request : ~RetryAfter(r) PROVE \A i : Past(i)' \subseteq Past(i)
  BY <1>3, <1>7, OnlyTheBrake
<1>8. ASSUME NEW r \in Request, RecordFailure(r)
      PROVE  failures' \in [Id \cup {0} -> Nat] /\ \A i \in Id \cup {0} : Bound(i)
  <2>0. PICK i \in Id \cup {0} : i = request[r].id
    BY RequestTyped DEF AccountsInv, RequestType
  <2>1. /\ request[r] \in RequestType /\ Fits(request[r], token) /\ request[r].step = "failed"
        /\ failures' = [failures EXCEPT ![i] = @ + 1] /\ Becomes(r, Idle)
    BY <1>8, <2>0, EndsIdle, RequestTyped DEF AccountsInv, RequestsInv, RecordFailure, At
  <2>2. request[r].op \in {"login", "delete"}
    BY <2>1 DEF Fits, StepsOf, RequestType, Ops, TokenOps, PasswordOps, Idle
  <2>3. r \in Past(i) /\ Past(i) \subseteq Request
    BY <2>0, <2>1, <2>2 DEF Past, PasswordSteps
  <2>4. \A s \in Request : ~RetryAfter(s) \/ request'[s] = request[s]
    BY <2>1, RequestTyped DEF AccountsInv, Becomes, RetryAfter, At
  <2>5. \A k : Past(k)' \subseteq Past(k)
    BY <1>3, <2>4, OnlyTheBrake DEF Past
  <2>6. r \notin Past(i)'
    BY <2>1, RequestTyped DEF AccountsInv, Becomes, Past, Idle
  <2>7. Cardinality(Past(i)') <= Cardinality(Past(i) \ {r})
    BY <2>3, <2>5, <2>6, Smaller
  <2>8. Cardinality(Past(i) \ {r}) = Cardinality(Past(i)) - 1
    BY <2>3, LessOne
  <2>9. failures' \in [Id \cup {0} -> Nat] /\ failures'[i] = failures[i] + 1
        /\ \A k \in Id \cup {0} : k # i => failures'[k] = failures[k]
    BY <1>1, <2>1
  <2>10. Bound(i)
    BY <1>1, <1>2, <1>3, <2>7, <2>8, <2>9, Limits
  <2> QED
    BY <1>5, <2>5, <2>9, <2>10
<1>9. ASSUME NEW k \in Id \cup {0}, failures' = [failures EXCEPT ![k] = 0],
             \A r \in Request : ~RetryAfter(r)
      PROVE  failures' \in [Id \cup {0} -> Nat] /\ \A i \in Id \cup {0} : Bound(i)
  <2>1. failures' \in [Id \cup {0} -> Nat] /\ failures'[k] = 0
        /\ \A i \in Id \cup {0} : i # k => failures'[i] = failures[i]
    BY <1>1, <1>9
  <2>2. Bound(k)
    BY <1>4, <2>1, Limits
  <2> QED
    BY <1>5, <1>7, <1>9, <2>1, <2>2
<1>10. ASSUME failures' = failures, \A r \in Request : ~RetryAfter(r)
       PROVE  \A i \in Id \cup {0} : Bound(i)
  BY <1>5, <1>7, <1>10
<1>11. \/ \E r \in Request : RetryAfter(r) \/ RecordFailure(r)
       \/ \E k \in Id \cup {0} : failures' = [failures EXCEPT ![k] = 0]
       \/ failures' = failures
  <2>1. ASSUME NEW r \in Request, RecordSuccess(r)
        PROVE  \E k \in Id \cup {0} : failures' = [failures EXCEPT ![k] = 0]
    BY <2>1, RequestTyped DEF AccountsInv, RecordSuccess, RequestType
  <2>2. ASSUME NEW r \in Request, Serve(r), ~RetryAfter(r), ~RecordFailure(r), ~RecordSuccess(r)
        PROVE  failures' = failures
    BY <2>2 DEF Serve, FindUser, ReadAccount, EnterSlot, LeaveSlot, SignIn, CreateUser, CheckRevoked,
       LoadUser, Logout, SetSaveHistory, ForgetSearch, ClearHistory, DeleteUser, RevokeOwn, Submit
  <2>3. ASSUME NEW r \in Request, NEW e, NEW op, Present(r, op, e) PROVE failures' = failures
    BY <2>3 DEF Present
  <2>4. ASSUME NEW r \in Request, NEW j, NEW op, Search(r, j) \/ Bear(r, op, j) PROVE failures' = failures
    BY <2>4 DEF Search, Bear
  <2>5. ASSUME Background
        PROVE  failures' = failures \/ \E k \in Id \cup {0} : failures' = [failures EXCEPT ![k] = 0]
    BY <2>5 DEF Background, Write, Take, LogSearch, DropEntry, Expire, WindowPasses, CloseSink, Purge, vars
  <2> QED
    BY <2>1, <2>2, <2>3, <2>4, <2>5 DEF Next, Background
<1>12. failures' \in [Id \cup {0} -> Nat] /\ \A i \in Id \cup {0} : Bound(i)
  <2>1. CASE \E r \in Request : RetryAfter(r)
    BY <1>1, <1>6, <2>1
  <2>2. CASE \E r \in Request : RecordFailure(r)
    BY <1>8, <2>2
  <2>3. CASE (\A r \in Request : ~RetryAfter(r)) /\ \E k \in Id \cup {0} : failures' = [failures EXCEPT ![k] = 0]
    BY <1>9, <2>3
  <2>4. CASE (\A r \in Request : ~RetryAfter(r)) /\ failures' = failures
    BY <1>1, <1>10, <2>4
  <2> QED
    BY <1>11, <2>1, <2>2, <2>3, <2>4
<1>13. \A i \in Id \cup {0} : failures'[i] \in Tried
  <2>1. \A i \in Id \cup {0} : failures'[i] \in Nat /\ Bound(i) /\ Cardinality(Past(i)') \in Nat
    BY <1>3, <1>12
  <2> QED
    BY <2>1, Limits DEF Tried
<1> QED
  BY <1>12, <1>13 DEF BrakeInv

-----------------------------------------------------------------------------
(* All of it together.                                                     *)

LEMMA TypeStep == ASSUME AccountsInv, [Next]_vars PROVE TypeOK'
<1>1. TypeOK
  BY DEF AccountsInv
<1>2. calls' \in 0 .. MaxCalls
  <2>1. ASSUME NEW r \in Request, Call(r) PROVE calls' \in 0 .. MaxCalls
    BY <1>1, <2>1, AccountsAssumption DEF Call, TypeOK
  <2>2. ASSUME NEW r \in Request, Serve(r) PROVE calls' = calls
    BY <2>2 DEF Serve, FindUser, RetryAfter, ReadAccount, EnterSlot, LeaveSlot, RecordFailure, RecordSuccess,
       SignIn, CreateUser, CheckRevoked, LoadUser, Logout, SetSaveHistory, ForgetSearch, ClearHistory,
       DeleteUser, RevokeOwn, Submit
  <2>3. Background => calls' = calls
    BY DEF Background, Write, Take, LogSearch, DropEntry, Expire, WindowPasses, CloseSink, Purge, vars
  <2>4. ASSUME NEW r \in Request, NEW e, NEW op, NEW j, Present(r, op, e) \/ Search(r, j) \/ Bear(r, op, j)
        PROVE  calls' \in 0 .. MaxCalls
    BY <2>1, <2>4 DEF Present, Search, Bear
  <2> QED
    BY <1>1, <2>2, <2>3, <2>4 DEF Next, Background, TypeOK
<1>3. revoked' \subseteq Jti /\ signedOut' \subseteq Jti
  <2>1. ASSUME NEW r \in Request, Logout(r) \/ RevokeOwn(r) PROVE request[r].jti \in Jti
    <3>1. request[r] \in RequestType /\ Fits(request[r], token)
      BY RequestTyped DEF AccountsInv, RequestsInv
    <3> QED
      BY <2>1, <3>1 DEF Logout, RevokeOwn, Op, At, Fits, StepsOf, Held, RequestType, Ops, TokenOps,
         PasswordOps, PasswordSteps, Idle
  <2>2. ASSUME NEW r \in Request, Serve(r) PROVE revoked' \subseteq Jti /\ signedOut' \subseteq Jti
    <3>1. CASE Logout(r) \/ RevokeOwn(r)
      BY <1>1, <2>1, <3>1 DEF Logout, RevokeOwn, Revoke, TypeOK
    <3>2. CASE ~Logout(r) /\ ~RevokeOwn(r)
      BY <1>1, <2>2, <3>2 DEF Serve, FindUser, RetryAfter, ReadAccount, EnterSlot, LeaveSlot, RecordFailure,
         RecordSuccess, SignIn, CreateUser, CheckRevoked, LoadUser, SetSaveHistory, ForgetSearch,
         ClearHistory, DeleteUser, Submit, signing, TypeOK
    <3> QED
      BY <3>1, <3>2
  <2>3. ASSUME Background PROVE revoked' \subseteq revoked /\ signedOut' = signedOut
    BY <2>3 DEF Background, Write, Take, LogSearch, DropEntry, Expire, WindowPasses, CloseSink, Purge, vars,
       signing
  <2>4. ASSUME NEW r \in Request, NEW e, NEW op, NEW j, Present(r, op, e) \/ Search(r, j) \/ Bear(r, op, j)
        PROVE  UNCHANGED <<revoked, signedOut>>
    BY <2>4 DEF Present, Search, Bear, signing
  <2> QED
    BY <1>1, <2>2, <2>3, <2>4 DEF Next, Background, TypeOK
<1>4. sink' \in {"open", "draining", "late"}
  <2>1. ASSUME NEW r \in Request, Serve(r) PROVE sink' = sink
    BY <2>1 DEF Serve, FindUser, RetryAfter, ReadAccount, EnterSlot, LeaveSlot, RecordFailure, RecordSuccess,
       SignIn, CreateUser, CheckRevoked, LoadUser, Logout, SetSaveHistory, ForgetSearch, ClearHistory,
       DeleteUser, RevokeOwn, Submit, backlog
  <2>2. ASSUME Background PROVE sink' \in {sink, "draining", "late"}
    BY <2>2 DEF Background, Write, Take, LogSearch, DropEntry, Expire, WindowPasses, CloseSink, Purge, vars,
       backlog
  <2>3. ASSUME NEW r \in Request, NEW e, NEW op, NEW j, Present(r, op, e) \/ Search(r, j) \/ Bear(r, op, j)
        PROVE  sink' = sink
    BY <2>3 DEF Present, Search, Bear, backlog
  <2> QED
    BY <1>1, <2>1, <2>2, <2>3 DEF Next, Background, TypeOK
<1> QED
  BY <1>2, <1>3, <1>4, RequestsStep, AccountsFollow, TokensKept, EnoughAccounts, BrakeStep, EntriesStep,
     BacklogStep DEF TypeOK, RequestType, Ops, Steps, EntriesFollow, EntryType

LEMMA AccountsInvInit == Init => AccountsInv
<1> SUFFICES ASSUME Init PROVE AccountsInv
  OBVIOUS
<1>1. /\ \A r \in Request : request[r] = Idle
      /\ \A i \in Id \cup {0} : failures[i] = 0
      /\ \A j \in Jti : token[j] = NoToken
      /\ \A n \in Entry : entry[n] = NoEntry
  BY DEF Init
<1>2. Issuing = {} /\ Registering = {} /\ Unsettled = {} /\ \A i : Past(i) = {}
  BY <1>1 DEF Issuing, Registering, Unsettled, Past, Idle, NoEntry, PasswordOps
<1>3. Cardinality({}) = 0 /\ Cardinality(Unissued) \in Nat /\ Cardinality(Request) \in Nat
      /\ MaxFailures \in Nat \ {0} /\ MaxAccounts \in Nat /\ MaxPending \in Nat /\ MaxCalls \in Nat
  BY FS_EmptySet, Parts, AccountsAssumption DEF Unissued
<1>4. TypeOK
  <2>1. 0 \in Tried
    BY <1>3 DEF Tried
  <2>2. Idle \in RequestType
    BY IdleFits
  <2> QED
    BY <1>3, <2>1, <2>2 DEF Init, TypeOK, RequestType, Ops, Steps, NoAccount, NoToken, NoEntry
<1>5. RequestsInv
  BY <1>1, IdleFits DEF RequestsInv
<1>6. TokensInv
  BY <1>1, <1>2, <1>3 DEF Init, TokensInv, NoToken
<1>7. BacklogInv
  BY <1>1, <1>2, <1>3 DEF Init, BacklogInv, NoEntry
<1>8. BrakeInv
  BY <1>1, <1>2, <1>3 DEF BrakeInv
<1> QED
  BY <1>4, <1>5, <1>6, <1>7, <1>8 DEF AccountsInv

\* The store, what the requests in hand know, the tokens, the log's backlog and the
\* throttle keep together what AccountsInv says, in every reachable state.
THEOREM AccountsInvariant == Spec => []AccountsInv
<1>1. ASSUME AccountsInv, [Next]_vars PROVE AccountsInv'
  BY <1>1, TypeStep, RequestsStep, TokensStep, BacklogStep, BrakeStep DEF AccountsInv
<1> QED
  BY <1>1, AccountsInvInit, PTL DEF Spec

\* Requests, tokens, accounts and the backlog keep their types and limits, however many
\* requests are served at once: a token works on its own account only, nothing of a
\* deleted account is left or comes back, the backlog's slots are all accounted for, and
\* failed sign-ins pass the brake by no more than the requests under way.
THEOREM AccountsKept == Spec => []AccountsHold
<1>1. AccountsInv => AccountsHold
  <2> SUFFICES ASSUME AccountsInv PROVE AccountsHold
    OBVIOUS
  <2>1. TypeOK
    BY DEF AccountsInv
  <2>2. ASSUME NEW r \in Request, request[r].jti # 0, request[r].id # 0
        PROVE  token[request[r].jti].id = request[r].id
    <3>1. request[r] \in RequestType /\ Fits(request[r], token)
      BY RequestTyped DEF AccountsInv, RequestsInv
    <3> QED
      BY <2>2, <3>1 DEF Fits, StepsOf, Held, RequestType, Ops, PasswordOps, TokenOps, Idle
  <2>3. OwnAccountOnly
    BY <2>2 DEF OwnAccountOnly, AccountsInv, BacklogInv, AccountOf
  <2>4. LimitsHold
    <3>1. \A i \in Id \cup {0} : failures[i] < MaxFailures + Cardinality(Request)
      <4>1. \A i \in Id \cup {0} : failures[i] \in Nat
        BY <2>1, Limits DEF TypeOK, Tried
      <4>2. \A i \in Id \cup {0} : failures[i] + Cardinality(Past(i)) < MaxFailures + Cardinality(Request)
        BY DEF AccountsInv, BrakeInv
      <4> QED
        BY <4>1, <4>2, Limits
    <3> QED
      BY <3>1 DEF LimitsHold, AccountsInv, BacklogInv, Unsettled
  <2> QED
    BY <2>1, <2>3, <2>4 DEF AccountsHold
<1> QED
  BY <1>1, AccountsInvariant, PTL

\* Signing out counts for as long as the token could be accepted, the purge of signed-out
\* ids and the backlog of searches notwithstanding.
THEOREM SignedOutStaysOut == Spec => SignedOutIsOut
<1>1. ASSUME AccountsInv, [Next]_vars, NEW j \in signedOut, token[j].live
      PROVE  /\ \A r \in Request : At(r, "check") /\ request[r].jti = j
                                      => request'[r].step \in {"check", "idle"}
             /\ \A n \in history' \ history : entry[n].jti # j
  <2>1. j \in revoked
    BY <1>1 DEF AccountsInv, TokensInv
  <2>2. ASSUME NEW r \in Request, At(r, "check"), request[r].jti = j
        PROVE  request'[r].step \in {"check", "idle"}
    <3>1. CASE request'[r] = request[r]
      BY <2>2, <3>1 DEF At
    <3>2. ASSUME NEW s \in Request, Serve(s), request'[r] # request[r]
          PROVE  request'[r].step \in {"check", "idle"}
      <4>1. s = r
        BY <1>1, <3>2, ServeRequest, RequestTyped DEF AccountsInv, Becomes
      <4>2. CheckRevoked(r)
        BY <2>2, <3>2, <4>1 DEF Serve, FindUser, RetryAfter, ReadAccount, EnterSlot, LeaveSlot,
           RecordFailure, RecordSuccess, SignIn, CreateUser, LoadUser, Logout, SetSaveHistory,
           ForgetSearch, ClearHistory, DeleteUser, RevokeOwn, Submit, At
      <4>3. Becomes(r, Idle)
        BY <2>1, <2>2, <4>2, EndsIdle DEF CheckRevoked
      <4> QED
        BY <1>1, <4>3, RequestTyped DEF AccountsInv, Becomes, Idle
    <3>3. ASSUME NEW s \in Request, NEW op, NEW e, NEW k,
                 Present(s, op, e) \/ Search(s, k) \/ Bear(s, op, k), request'[r] # request[r]
          PROVE  FALSE
      <4>1. At(s, "idle") /\ s # r
        BY <2>2, <3>3 DEF Present, Search, Bear, Call, At
      <4> QED
        BY <1>1, <3>3, <4>1, RequestTyped DEF AccountsInv, Present, Search, Bear
    <3> QED
      BY <1>1, <3>1, <3>2, <3>3, BackgroundKeeps DEF Next, Background
  <2>3. ASSUME NEW n \in history' \ history PROVE entry[n].jti # j
    BY <1>1, <2>1, <2>3, RowsFollow DEF Recorded
  <2> QED
    BY <2>2, <2>3
<1>2. AccountsInv /\ [Next]_vars =>
        [\A j \in signedOut : token[j].live =>
           /\ \A r \in Request : At(r, "check") /\ request[r].jti = j
                                   => request'[r].step \in {"check", "idle"}
           /\ \A n \in history' \ history : entry[n].jti # j]_vars
  BY <1>1
<1> QED
  BY <1>2, AccountsInvariant, PTL DEF Spec, SignedOutIsOut
=============================================================================
