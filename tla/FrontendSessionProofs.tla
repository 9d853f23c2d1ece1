------------------------ MODULE FrontendSessionProofs ------------------------
(***************************************************************************)
(* Proofs about FrontendSession, for any number of overlapping activations *)
(* and all bounds: type correctness, that the user's last word stands, and *)
(* that the session is of one piece when nothing overlapped.               *)
(*                                                                         *)
(* What is in storage says little while requests wait. The invariant is    *)
(* about what will be there when all of them have been carried out.        *)
(***************************************************************************)
EXTENDS FrontendSession, TLAPS

\* The request at i writes this entry.
Writes(i, key) == queue[i].op = "set" /\ queue[i].key = key

\* Whatever waits, the entry ends up with a value of V: it has one from some
\* place of the queue on, place 0 being the storage as it is.
EndsFrom(j, key, V) ==
  /\ j = 0 => store[key] \in V
  /\ j > 0 => Writes(j, key) /\ queue[j].val \in V
  /\ \A i \in DOMAIN queue : i > j /\ Writes(i, key) => queue[i].val \in V
EndsIn(key, V) == \E j \in 0 .. Len(queue) : EndsFrom(j, key, V)

\* And whoever reads it, with requests that wait, finds one.
FoundIn(key, V) ==
  \E j \in 0 .. Len(queue) :
    EndsFrom(j, key, V) /\ \A i \in DOMAIN queue : queue[i].op = "get" => i > j

\* Only an initialize that is still reading waits for reads.
ReadersRead == \A i \in DOMAIN queue : queue[i].op = "get" => tasks[queue[i].by].pc = "read"

\* After a log-out nobody carries, or will find, a token.
LoggedOut ==
  left =>
    /\ jwt = None
    /\ \A t \in Tasks : tasks[t].pc \notin {"login", "refresh"}
    /\ \A t \in Tasks : tasks[t].pc = "read" => tasks[t].auth = None
    /\ FoundIn("auth", {None}) /\ EndsIn("roles", {None})

LoggedIn == kept => EndsIn("auth", Token)

\* The part of a session that is of one piece with token a and roles r.
ReadsBoth(t, a, r) ==
  /\ tasks[t].pc = "read" =>
       /\ tasks[t].auth = a \/ \E i \in DOMAIN queue : queue[i] = Get("auth", t)
       /\ tasks[t].roles = r \/ \E i \in DOMAIN queue : queue[i] = Get("roles", t)
  /\ tasks[t].pc = "refresh" =>
       a # None /\ tasks[t].auth = a /\ tasks[t].roles = r /\ tasks[t].sent \in {None, a}

Whole(a, r) ==
  /\ a # None => r = a.login
  /\ jwt \in {None, a}
  /\ EndsIn("auth", {a}) /\ EndsIn("roles", {r})
  /\ \A t \in Tasks : ReadsBoth(t, a, r)

\* One activation at a time: reads wait behind the writes.
Alone ==
  /\ \A t, u \in Running : t = u
  /\ \A i, k \in DOMAIN queue : queue[i].op = "get" /\ queue[k].op = "set" => k < i
  /\ user.status = "authenticated" => user.roles = user.auth.login

Inv ==
  /\ TypeOK /\ ReadersRead /\ LoggedOut /\ LoggedIn
  /\ ~tangled => Alone /\ \E a \in Tokens, r \in Roles : Whole(a, r)

-----------------------------------------------------------------------------
(* The queue, and one activation                                           *)

\* These requests are put at the end of the queue.
Grown(w) ==
  /\ queue' \in Seq(Requests) /\ Len(queue') = Len(queue) + Len(w)
  /\ \A i \in 1 .. Len(queue) : queue'[i] = queue[i]
  /\ \A i \in 1 .. Len(w) : queue'[Len(queue) + i] = w[i]

LEMMA GrownByTwo ==
  ASSUME queue \in Seq(Requests), NEW x \in Requests, NEW y \in Requests,
         queue' = queue \o <<x, y>>
  PROVE  Grown(<<x, y>>) /\ <<x, y>> \in Seq(Requests)
<1>1. <<x, y>> \in Seq(Requests) /\ Len(<<x, y>>) = 2 /\ <<x, y>>[1] = x /\ <<x, y>>[2] = y
  OBVIOUS
<1> DEFINE w == <<x, y>>
<1> HIDE DEF w
<1>2. w \in Seq(Requests)
  BY <1>1 DEF w
<1>3. queue \o w \in Seq(Requests) /\ Len(queue \o w) = Len(queue) + Len(w)
  BY <1>2
<1>4. /\ \A i \in 1 .. Len(queue) : (queue \o w)[i] = queue[i]
      /\ \A i \in 1 .. Len(w) : (queue \o w)[Len(queue) + i] = w[i]
  BY <1>2
<1> QED
  BY <1>2, <1>3, <1>4 DEF Grown, w

LEMMA GrownByOne ==
  ASSUME queue \in Seq(Requests), NEW x \in Requests, queue' = Append(queue, x)
  PROVE  Grown(<<x>>)
BY DEF Grown

\* What the head of the queue was is gone, the rest has moved up.
LEMMA QueueMovesUp ==
  ASSUME queue \in Seq(Requests), queue # <<>>, queue' = Tail(queue)
  PROVE  /\ queue' \in Seq(Requests) /\ Len(queue) > 0 /\ Len(queue') = Len(queue) - 1
         /\ Head(queue) = queue[1] /\ queue[1] \in Requests
         /\ \A i \in 1 .. Len(queue') : queue'[i] = queue[i + 1]
         /\ \A i \in 2 .. Len(queue) : queue'[i - 1] = queue[i]
OBVIOUS

LEMMA OneTaskChanges ==
  ASSUME tasks \in [Tasks -> Task], NEW t \in Tasks, NEW r \in Task,
         tasks' = [tasks EXCEPT ![t] = r]
  PROVE  /\ tasks' \in [Tasks -> Task] /\ tasks'[t] = r
         /\ \A u \in Tasks : u # t => tasks'[u] = tasks[u]
OBVIOUS

LEMMA TaskBecomes ==
  ASSUME tasks \in [Tasks -> Task], NEW t \in Tasks,
         NEW pc \in {"idle", "read", "refresh", "login", "store"}, Becomes(t, pc)
  PROVE  /\ tasks' \in [Tasks -> Task] /\ tasks'[t].pc = pc
         /\ tasks'[t].auth = tasks[t].auth /\ tasks'[t].roles = tasks[t].roles
         /\ tasks'[t].sent = tasks[t].sent
         /\ \A u \in Tasks : u # t => tasks'[u] = tasks[u]
BY DEF Becomes, Task

LEMMA TaskEnds ==
  ASSUME tasks \in [Tasks -> Task], NEW t \in Tasks, End(t)
  PROVE  /\ tasks' \in [Tasks -> Task] /\ tasks'[t].pc = "idle"
         /\ \A u \in Tasks : u # t => tasks'[u] = tasks[u]
BY DEF End, Task, Idle, Tokens, Roles

\* The requests that are made are requests.
LEMMA RequestsMade ==
  /\ \A key \in Keys, t \in Tasks : Get(key, t) \in Requests
  /\ \A tok \in Tokens, t \in Tasks \cup {None} : Set("auth", tok, t) \in Requests
  /\ \A r \in Roles, t \in Tasks : Set("roles", r, t) \in Requests
BY DEF Get, Set, Requests, Keys

LEMMA RequestShape ==
  ASSUME NEW r \in Requests
  PROVE  /\ r.op \in {"get", "set"} /\ r.key \in Keys
         /\ r.op = "get" => r.by \in Tasks
         /\ r.op = "set" /\ r.key = "auth" => r.val \in Tokens
         /\ r.op = "set" /\ r.key = "roles" => r.val \in Roles
BY DEF Requests, Keys

LEMMA TokensAre ==
  /\ None \notin Token
  /\ \A l \in Logins, e \in 0 .. MaxNow : [login |-> l, exp |-> e + Life] \in Token
BY FrontendSessionAssumption DEF Token, Logins

-----------------------------------------------------------------------------
(* Type correctness                                                        *)

\* One storage request: a write of one entry, or one entry read.
Written ==
  /\ queue[1].op = "set" /\ tasks' = tasks
  /\ queue[1].key = "auth" => store'.auth = queue[1].val /\ store'.roles = store.roles
  /\ queue[1].key = "roles" => store'.roles = queue[1].val /\ store'.auth = store.auth
Found(t) ==
  /\ queue[1].op = "get" /\ queue[1].by = t /\ store' = store
  /\ tasks'[t].pc = tasks[t].pc /\ tasks'[t].sent = tasks[t].sent
  /\ queue[1].key = "auth" => tasks'[t].auth = store.auth /\ tasks'[t].roles = tasks[t].roles
  /\ queue[1].key = "roles" => tasks'[t].roles = store.roles /\ tasks'[t].auth = tasks[t].auth
  /\ \A u \in Tasks : u # t => tasks'[u] = tasks[u]

LEMMA StorageAnswers ==
  ASSUME TypeOK, StorageStep
  PROVE  /\ store' \in [auth : Tokens, roles : Roles] /\ tasks' \in [Tasks -> Task]
         /\ Written \/ \E t \in Tasks : Found(t)
<1> DEFINE r == queue[1]
<1>1. r \in Requests /\ Head(queue) = r
  BY QueueMovesUp DEF TypeOK, StorageStep
<1>2. store \in [auth : Tokens, roles : Roles] /\ tasks \in [Tasks -> Task]
  BY DEF TypeOK
<1>3. r.op \in {"get", "set"} /\ r.key \in {"auth", "roles"}
  BY <1>1, RequestShape DEF Keys
<1>4. CASE r.op = "set"
  <2>1. store' = [store EXCEPT ![r.key] = r.val] /\ tasks' = tasks
    BY <1>1, <1>4 DEF StorageStep
  <2>2. CASE r.key = "auth"
    <3>1. store' = [store EXCEPT !["auth"] = r.val] /\ r.val \in Tokens
      BY <1>1, <1>4, <2>1, <2>2, RequestShape
    <3> QED
      BY <1>2, <1>4, <2>1, <2>2, <3>1 DEF Written
  <2>3. CASE r.key = "roles"
    <3>1. store' = [store EXCEPT !["roles"] = r.val] /\ r.val \in Roles
      BY <1>1, <1>4, <2>1, <2>3, RequestShape
    <3> QED
      BY <1>2, <1>4, <2>1, <2>3, <3>1 DEF Written
  <2> QED
    BY <1>3, <2>2, <2>3
<1>5. CASE r.op = "get"
  <2> DEFINE t == r.by
  <2>1. t \in Tasks
    BY <1>1, <1>5, RequestShape
  <2>2. store' = store /\ tasks' = [tasks EXCEPT ![t] = [@ EXCEPT ![r.key] = store[r.key]]]
    BY <1>1, <1>5 DEF StorageStep
  <2>3. CASE r.key = "auth"
    <3> DEFINE q == [tasks[t] EXCEPT !["auth"] = store.auth]
    <3>1. tasks[t] \in Task /\ store.auth \in Tokens
      BY <1>2, <2>1
    <3>2. /\ q \in Task /\ q.pc = tasks[t].pc /\ q.sent = tasks[t].sent
          /\ q.auth = store.auth /\ q.roles = tasks[t].roles
      BY <3>1 DEF Task
    <3>3. tasks' = [tasks EXCEPT ![t] = q]
      BY <2>2, <2>3
    <3> HIDE DEF q
    <3>4. /\ tasks' \in [Tasks -> Task] /\ tasks'[t] = q
          /\ \A u \in Tasks : u # t => tasks'[u] = tasks[u]
      BY <1>2, <2>1, <3>2, <3>3, OneTaskChanges
    <3> QED
      BY <1>2, <1>5, <2>1, <2>2, <2>3, <3>2, <3>4 DEF Found
  <2>4. CASE r.key = "roles"
    <3> DEFINE q == [tasks[t] EXCEPT !["roles"] = store.roles]
    <3>1. tasks[t] \in Task /\ store.roles \in Roles
      BY <1>2, <2>1
    <3>2. /\ q \in Task /\ q.pc = tasks[t].pc /\ q.sent = tasks[t].sent
          /\ q.roles = store.roles /\ q.auth = tasks[t].auth
      BY <3>1 DEF Task
    <3>3. tasks' = [tasks EXCEPT ![t] = q]
      BY <2>2, <2>4
    <3> HIDE DEF q
    <3>4. /\ tasks' \in [Tasks -> Task] /\ tasks'[t] = q
          /\ \A u \in Tasks : u # t => tasks'[u] = tasks[u]
      BY <1>2, <2>1, <3>2, <3>3, OneTaskChanges
    <3> QED
      BY <1>2, <1>5, <2>1, <2>2, <2>4, <3>2, <3>4 DEF Found
  <2> QED
    BY <1>3, <2>3, <2>4
<1> QED
  BY <1>3, <1>4, <1>5

LEMMA FlagsType ==
  ASSUME TypeOK, [Next]_vars
  PROVE  /\ tangled' \in BOOLEAN /\ left' \in BOOLEAN /\ kept' \in BOOLEAN
         /\ fresh' \in BOOLEAN
<1>1. CASE StorageStep \/ Tick \/ UNCHANGED vars
  BY <1>1 DEF StorageStep, Tick, vars, history, TypeOK
<1>2. CASE Reload
  BY <1>2, Zenon DEF Reload
<1>3. ASSUME NEW t \in Tasks, InitializeStep(t) \/ LogInFails(t)
      PROVE  UNCHANGED <<tangled, left, kept, fresh>>
  BY <1>3 DEF InitializeStep, NothingStored, StoredExpired, StoredValid, StoredExpiresSoon,
              Refreshed, RefreshFails, LogInFails, history
<1>4. ASSUME NEW t \in Tasks, Initialize(t) \/ LogIn(t) \/ LogOut(t)
      PROVE  /\ tangled' \in BOOLEAN /\ left' \in BOOLEAN /\ kept' \in BOOLEAN
             /\ fresh' \in BOOLEAN
  <2>1. tangled' = (tangled \/ Running # {}) /\ fresh' = FALSE
    BY <1>4 DEF Initialize, LogIn, LogOut, Starts
  <2>2. left' \in {left, FALSE, left \/ Running = {}} /\ kept' \in {kept, FALSE}
    BY <1>4 DEF Initialize, LogIn, LogOut
  <2> QED
    BY <2>1, <2>2, Zenon DEF TypeOK
<1>5. ASSUME NEW t \in Tasks, LogInAnswered(t) \/ Returns(t)
      PROVE  /\ tangled' \in BOOLEAN /\ left' \in BOOLEAN /\ kept' \in BOOLEAN
             /\ fresh' \in BOOLEAN
  <2>1. /\ UNCHANGED <<tangled, left>> /\ kept' \in {kept, TRUE}
        /\ fresh' = fresh \/ fresh' = (kept /\ ~tangled)
    BY <1>5 DEF LogInAnswered, Returns
  <2> QED
    BY <2>1, Zenon DEF TypeOK
<1> QED
  BY <1>1, <1>2, <1>3, <1>4, <1>5 DEF Next, TypeOK

LEMMA CountersType ==
  ASSUME TypeOK, [Next]_vars
  PROVE  /\ page' \in 0 .. 1
         /\ starts' \in 0 .. MaxStarts /\ now' \in 0 .. MaxNow /\ logins' \in Logins
<1>0. /\ page \in 0 .. 1
      /\ starts \in 0 .. MaxStarts /\ now \in 0 .. MaxNow /\ logins \in Logins
  BY DEF TypeOK
<1>1. /\ page' = page \/ page' = 1 - page
      /\ starts' = starts \/ (starts < MaxStarts /\ starts' = starts + 1)
      /\ now' = now \/ (now < MaxNow /\ now' = now + 1)
      /\ logins' = logins \/ (logins < MaxStarts /\ logins' = logins + 1)
  <2>1. CASE StorageStep \/ Tick \/ Reload \/ UNCHANGED vars
    BY <2>1 DEF StorageStep, Tick, Reload, vars, history
  <2>2. ASSUME NEW t \in Tasks, InitializeStep(t) \/ LogInFails(t) \/ Returns(t)
        PROVE  UNCHANGED <<page, starts, now, logins>>
    BY <2>2 DEF InitializeStep, NothingStored, StoredExpired, StoredValid, StoredExpiresSoon,
                Refreshed, RefreshFails, LogInFails, Returns, history
  <2>3. ASSUME NEW t \in Tasks, Initialize(t) \/ LogIn(t) \/ LogOut(t)
        PROVE  UNCHANGED <<page, now, logins>> /\ starts < MaxStarts /\ starts' = starts + 1
    BY <2>3 DEF Initialize, LogIn, LogOut, Starts
  <2>4. ASSUME NEW t \in Tasks, LogInAnswered(t)
        PROVE  UNCHANGED <<page, now, starts>> /\ logins < MaxStarts /\ logins' = logins + 1
    BY <2>4 DEF LogInAnswered
  <2> QED
    BY <2>1, <2>2, <2>3, <2>4 DEF Next
<1> QED
  BY <1>0, <1>1, FrontendSessionAssumption DEF Logins

\* Tokens and userState, the session that requests and cards see.
LEMMA SessionType ==
  ASSUME TypeOK, [Next]_vars
  PROVE  jwt' \in Tokens /\ user' \in User
<1>0. /\ jwt \in Tokens /\ user \in User /\ tasks \in [Tasks -> Task]
      /\ logins \in Logins /\ now \in 0 .. MaxNow
  BY DEF TypeOK
<1> USE <1>0
<1>1. CASE StorageStep \/ Tick \/ UNCHANGED vars
  BY <1>1 DEF StorageStep, Tick, vars
<1>2. CASE Reload
  BY <1>2 DEF Reload, NullUser, User, Tokens, Roles
<1>3. ASSUME NEW t \in Tasks, NothingStored(t) \/ StoredExpired(t)
      PROVE  jwt' \in Tokens /\ user' \in User
  BY <1>3 DEF NothingStored, StoredExpired, Restores, Task, User, Tokens, Roles
<1>4. ASSUME NEW t \in Tasks, StoredValid(t) \/ RefreshFails(t)
      PROVE  jwt' \in Tokens /\ user' \in User
  BY <1>4 DEF StoredValid, RefreshFails, UsesStored, Restores, Task, User
<1>5. ASSUME NEW t \in Tasks, Refreshed(t)
      PROVE  jwt' \in Tokens /\ user' \in User
  <2> DEFINE token == [login |-> tasks[t].sent.login, exp |-> now + Life]
  <2>1. tasks[t].sent.login \in Logins /\ tasks[t].roles \in Roles
    BY <1>5 DEF Refreshed, Task, Tokens, Token
  <2>2. token \in Tokens
    BY <2>1, TokensAre DEF Tokens
  <2>3. jwt' = token /\ user' = [status |-> "authenticated", auth |-> token, roles |-> tasks[t].roles]
    BY <1>5 DEF Refreshed, Restores
  <2> HIDE DEF token
  <2> QED
    BY <2>1, <2>2, <2>3 DEF User
<1>6. ASSUME NEW t \in Tasks, LogInAnswered(t)
      PROVE  jwt' \in Tokens /\ user' \in User
  <2>1. logins + 1 \in Logins /\ jwt' = [login |-> logins + 1, exp |-> now + Life] /\ user' = user
    BY <1>6, FrontendSessionAssumption DEF LogInAnswered, Logins
  <2> QED
    BY <2>1, TokensAre DEF Tokens
<1>7. ASSUME NEW t \in Tasks,
             StoredExpiresSoon(t) \/ Initialize(t) \/ LogIn(t) \/ LogInFails(t) \/ LogOut(t) \/ Returns(t)
      PROVE  jwt' \in {jwt, None} /\ user' = user
  BY <1>7 DEF StoredExpiresSoon, Initialize, LogIn, LogInFails, LogOut, Returns
<1> QED
  BY <1>1, <1>2, <1>3, <1>4, <1>5, <1>6, <1>7 DEF Next, InitializeStep, Tokens

\* The steps that leave queue and storage alone, each with what becomes of its
\* activation.
LEMMA QuietSteps ==
  ASSUME TypeOK, NEW t \in Tasks,
         \/ NothingStored(t) \/ StoredExpired(t) \/ StoredValid(t) \/ StoredExpiresSoon(t)
         \/ LogIn(t) \/ LogInFails(t) \/ Returns(t)
  PROVE  /\ UNCHANGED <<store, queue>> /\ tasks' \in [Tasks -> Task]
         /\ \A u \in Tasks : u # t => tasks'[u] = tasks[u]
         /\ tasks'[t].pc \in {"idle", "refresh", "login"}
         /\ tasks'[t].pc = "refresh" <=> StoredExpiresSoon(t)
         /\ tasks'[t].pc = "login" <=> LogIn(t)
<1>0. tasks \in [Tasks -> Task] /\ jwt \in Tokens
  BY DEF TypeOK
<1>1. CASE End(t) /\ UNCHANGED <<store, queue>> /\ ~LogIn(t) /\ ~StoredExpiresSoon(t)
  BY <1>0, <1>1, TaskEnds
<1>2. CASE StoredExpiresSoon(t) /\ ~LogIn(t)
  <2> DEFINE q == [tasks[t] EXCEPT !.pc = "refresh"]
             r == [q EXCEPT !.sent = jwt]
  <2>1. q \in Task /\ q.pc = "refresh"
    BY <1>0 DEF Task
  <2> HIDE DEF q
  <2>2. r \in Task /\ r.pc = "refresh"
    BY <1>0, <2>1 DEF Task
  <2>3. tasks' = [tasks EXCEPT ![t] = r]
    BY <1>2 DEF StoredExpiresSoon, q
  <2> HIDE DEF r
  <2>4. QED
    BY <1>0, <1>2, <2>2, <2>3, OneTaskChanges DEF StoredExpiresSoon
<1>3. CASE LogIn(t) /\ ~StoredExpiresSoon(t)
  <2> DEFINE r == [Idle EXCEPT !.pc = "login"]
  <2>1. r \in Task /\ r.pc = "login"
    BY DEF Task, Idle, Tokens, Roles
  <2>2. tasks' = [tasks EXCEPT ![t] = r]
    BY <1>3 DEF LogIn
  <2> HIDE DEF r
  <2>3. QED
    BY <1>0, <1>3, <2>1, <2>2, OneTaskChanges DEF LogIn
<1>4. LogIn(t) => tasks[t].pc = "idle"
  BY DEF LogIn, Starts
<1>5. StoredExpiresSoon(t) => tasks[t].pc = "read" /\ tasks[t].auth # None /\ Soon(tasks[t].auth)
  BY DEF StoredExpiresSoon, HasRead
<1>6. CASE NothingStored(t)
  BY <1>1, <1>4, <1>5, <1>6 DEF NothingStored, HasRead
<1>7. CASE StoredExpired(t)
  <2>1. tasks[t].auth # None /\ Expired(tasks[t].auth)
    BY <1>7 DEF StoredExpired
  <2>2. ~Soon(tasks[t].auth)
    BY <1>0, <2>1, FrontendSessionAssumption
       DEF TypeOK, Task, Tokens, Token, Soon, Expired
  <2> QED
    BY <1>1, <1>4, <1>5, <1>7, <2>2 DEF StoredExpired, HasRead
<1>8. CASE StoredValid(t)
  BY <1>1, <1>4, <1>5, <1>8 DEF StoredValid, HasRead
<1>9. CASE LogInFails(t) \/ Returns(t)
  BY <1>1, <1>4, <1>5, <1>9 DEF LogInFails, Returns
<1> QED
  BY <1>2, <1>3, <1>4, <1>5, <1>6, <1>7, <1>8, <1>9

\* The steps that make requests: what they ask, and what becomes of the
\* activation.
Asks(w) == Grown(w) /\ w \in Seq(Requests) /\ store' = store

LEMMA InitializeAsks ==
  ASSUME TypeOK, NEW t \in Tasks, Initialize(t)
  PROVE  /\ Asks(<<Get("auth", t), Get("roles", t)>>)
         /\ tasks[t].pc = "idle" /\ tasks' \in [Tasks -> Task]
         /\ tasks'[t].pc = "read" /\ tasks'[t].auth = None
         /\ \A u \in Tasks : u # t => tasks'[u] = tasks[u]
<1> DEFINE r == [Idle EXCEPT !.pc = "read"]
<1>1. r \in Task /\ r.pc = "read" /\ r.auth = None
  BY DEF Task, Idle, Tokens, Roles
<1>2. tasks' = [tasks EXCEPT ![t] = r] /\ tasks[t].pc = "idle" /\ store' = store
  BY DEF Initialize, Starts
<1> HIDE DEF r
<1>3. Get("auth", t) \in Requests /\ Get("roles", t) \in Requests
  BY RequestsMade DEF Keys
<1>4. queue \in Seq(Requests) /\ queue' = queue \o <<Get("auth", t), Get("roles", t)>>
  BY DEF Initialize, TypeOK
<1>5. Asks(<<Get("auth", t), Get("roles", t)>>)
  BY <1>2, <1>3, <1>4, GrownByTwo DEF Asks
<1> QED
  BY <1>1, <1>2, <1>5, OneTaskChanges DEF TypeOK

LEMMA AnswerAsks ==
  ASSUME TypeOK, NEW t \in Tasks, LogInAnswered(t)
  PROVE  /\ \E token \in Token : jwt' = token /\ Asks(SavesResult(t, token))
         /\ tasks[t].pc = "login" /\ tasks' \in [Tasks -> Task] /\ tasks'[t].pc = "store"
         /\ \A u \in Tasks : u # t => tasks'[u] = tasks[u]
<1> DEFINE made == [login |-> logins + 1, exp |-> now + Life]
<1>1. made \in Token /\ made.login \in Roles
  <2>1. logins + 1 \in Logins
    BY FrontendSessionAssumption DEF LogInAnswered, TypeOK, Logins
  <2> QED
    BY <2>1, TokensAre DEF TypeOK, Roles
<1>2. PICK token : token = made
  OBVIOUS
<1>3. jwt' = token /\ queue' = queue \o SavesResult(t, token)
  BY <1>2 DEF LogInAnswered
<1>4. Set("auth", token, t) \in Requests /\ Set("roles", token.login, t) \in Requests
  BY <1>1, <1>2, RequestsMade DEF Tokens
<1>5. Grown(SavesResult(t, token)) /\ SavesResult(t, token) \in Seq(Requests)
  <2>1. queue \in Seq(Requests)
    BY DEF TypeOK
  <2> DEFINE x == Set("auth", token, t)
             y == Set("roles", token.login, t)
  <2>2. queue' = queue \o <<x, y>> /\ x \in Requests /\ y \in Requests
    BY <1>3, <1>4 DEF SavesResult
  <2> HIDE DEF x, y
  <2>3. Grown(<<x, y>>) /\ <<x, y>> \in Seq(Requests)
    BY <2>1, <2>2, GrownByTwo
  <2> QED
    BY <2>3 DEF SavesResult, x, y
<1> QED
  BY <1>1, <1>2, <1>3, <1>5, TaskBecomes DEF LogInAnswered, Asks, TypeOK

LEMMA LogOutAsks ==
  ASSUME TypeOK, NEW t \in Tasks, LogOut(t)
  PROVE  /\ Asks(ClearsStorage(t)) /\ jwt' = None
         /\ tasks[t].pc = "idle" /\ tasks' \in [Tasks -> Task] /\ tasks'[t].pc = "store"
         /\ \A u \in Tasks : u # t => tasks'[u] = tasks[u]
<1>1. Set("auth", None, t) \in Requests /\ Set("roles", None, t) \in Requests
  BY RequestsMade DEF Tokens, Roles
<1>2. Asks(ClearsStorage(t))
  BY <1>1, GrownByTwo DEF LogOut, Asks, ClearsStorage, TypeOK
<1> QED
  BY <1>2, TaskBecomes DEF LogOut, Starts, TypeOK

LEMMA RefreshAsks ==
  ASSUME TypeOK, NEW t \in Tasks, Refreshed(t)
  PROVE  /\ tasks[t].sent \in Token
         /\ \E token \in Token :
              /\ token.login = tasks[t].sent.login
              /\ jwt' = token /\ Asks(<<Set("auth", token, None)>>)
              /\ user' = [status |-> "authenticated", auth |-> token, roles |-> tasks[t].roles]
         /\ tasks[t].pc = "refresh" /\ tasks' \in [Tasks -> Task] /\ tasks'[t].pc = "idle"
         /\ \A u \in Tasks : u # t => tasks'[u] = tasks[u]
<1> DEFINE made == [login |-> tasks[t].sent.login, exp |-> now + Life]
<1>1. tasks[t].sent \in Token /\ made.login = tasks[t].sent.login
  BY DEF Refreshed, TypeOK, Task, Tokens
<1>2. made \in Token
  BY <1>1, TokensAre DEF TypeOK, Token
<1>3. PICK token : token = made
  OBVIOUS
<1>4. /\ jwt' = token /\ queue' = Append(queue, Set("auth", token, None)) /\ store' = store
      /\ user' = [status |-> "authenticated", auth |-> token, roles |-> tasks[t].roles]
  BY <1>3 DEF Refreshed, RefreshedStored, Restores
<1>5. Set("auth", token, None) \in Requests
  BY <1>2, <1>3, RequestsMade DEF Tokens
<1>6. Asks(<<Set("auth", token, None)>>)
  BY <1>4, <1>5, GrownByOne DEF Asks, TypeOK
<1>7. token \in Token /\ token.login = tasks[t].sent.login
  BY <1>1, <1>2, <1>3
<1> QED
  BY <1>1, <1>4, <1>6, <1>7, TaskEnds DEF Refreshed, TypeOK

LEMMA RefreshFailure ==
  ASSUME TypeOK, NEW t \in Tasks, RefreshFails(t)
  PROVE  /\ UNCHANGED <<store, queue>>
         /\ tasks[t].pc = "refresh" /\ tasks' \in [Tasks -> Task] /\ tasks'[t].pc = "idle"
         /\ \A u \in Tasks : u # t => tasks'[u] = tasks[u]
BY TaskEnds DEF RefreshFails, KeepsStored, TypeOK

LEMMA TypeStep == TypeOK /\ [Next]_vars => TypeOK'
<1> SUFFICES ASSUME TypeOK, [Next]_vars PROVE TypeOK'
  OBVIOUS
<1>1. /\ store' \in [auth : Tokens, roles : Roles] /\ queue' \in Seq(Requests)
      /\ tasks' \in [Tasks -> Task]
  <2>0. /\ store \in [auth : Tokens, roles : Roles] /\ queue \in Seq(Requests)
        /\ tasks \in [Tasks -> Task]
    BY DEF TypeOK
  <2>1. CASE StorageStep
    BY <2>0, <2>1, StorageAnswers, QueueMovesUp DEF StorageStep
  <2>2. CASE Reload
    BY <2>0, <2>2 DEF Reload, Idle, Task, Tokens, Roles
  <2>3. CASE Tick \/ UNCHANGED vars
    BY <2>0, <2>3 DEF Tick, vars
  <2>4. ASSUME NEW t \in Tasks,
               \/ Initialize(t) \/ InitializeStep(t)
               \/ LogIn(t) \/ LogInAnswered(t) \/ LogInFails(t)
               \/ LogOut(t) \/ Returns(t)
        PROVE  /\ store' = store /\ tasks' \in [Tasks -> Task]
               /\ queue' \in Seq(Requests)
    BY <2>0, <2>4, QuietSteps, InitializeAsks, AnswerAsks, LogOutAsks, RefreshAsks, RefreshFailure
       DEF InitializeStep, Asks, Grown
  <2> QED
    BY <2>0, <2>1, <2>2, <2>3, <2>4 DEF Next
<1> QED
  BY <1>1, FlagsType, CountersType, SessionType DEF TypeOK

-----------------------------------------------------------------------------
(* What an entry ends up with                                              *)

LEMMA QuietKeepsEnds ==
  ASSUME NEW key, NEW V, UNCHANGED <<store, queue>>
  PROVE  /\ EndsIn(key, V) => EndsIn(key, V)'
         /\ FoundIn(key, V) => FoundIn(key, V)'
BY DEF EndsIn, FoundIn, EndsFrom, Writes

\* Requests that write no other value there leave it so.
LEMMA AsksKeepEnds ==
  ASSUME queue \in Seq(Requests), NEW w \in Seq(Requests), Asks(w), NEW key, NEW V,
         \A i \in 1 .. Len(w) : w[i].op = "set" /\ w[i].key = key => w[i].val \in V
  PROVE  /\ EndsIn(key, V) => EndsIn(key, V)'
         /\ FoundIn(key, V) => FoundIn(key, V)'
<1>1. /\ Len(queue) \in Nat /\ Len(w) \in Nat
      /\ DOMAIN queue = 1 .. Len(queue)
      /\ DOMAIN queue' = 1 .. Len(queue') /\ Len(queue') = Len(queue) + Len(w)
      /\ \A i \in DOMAIN queue : i \in DOMAIN queue' /\ queue'[i] = queue[i]
      /\ store' = store
  BY DEF Asks, Grown
<1>2. ASSUME NEW i \in DOMAIN queue', i \notin DOMAIN queue
      PROVE  /\ i > Len(queue)
             /\ queue'[i].op = "set" /\ queue'[i].key = key => queue'[i].val \in V
  <2>1. i > Len(queue) /\ i - Len(queue) \in 1 .. Len(w)
    BY <1>1, <1>2
  <2>2. queue'[Len(queue) + (i - Len(queue))] = w[i - Len(queue)]
    BY <2>1 DEF Asks, Grown
  <2>3. Len(queue) + (i - Len(queue)) = i
    BY <1>1, <1>2
  <2> QED
    BY <2>1, <2>2, <2>3
<1>3. ASSUME NEW j \in 0 .. Len(queue), EndsFrom(j, key, V)
      PROVE  j \in 0 .. Len(queue') /\ EndsFrom(j, key, V)'
  <2>1. j \in 0 .. Len(queue')
    BY <1>1
  <2>2. j > 0 => queue'[j] = queue[j]
    BY <1>1
  <2>3. \A i \in DOMAIN queue' :
          i > j /\ queue'[i].op = "set" /\ queue'[i].key = key => queue'[i].val \in V
    BY <1>1, <1>2, <1>3 DEF EndsFrom, Writes
  <2> QED
    BY <1>1, <1>3, <2>1, <2>2, <2>3 DEF EndsFrom, Writes
<1>4. EndsIn(key, V) => EndsIn(key, V)'
  BY <1>3 DEF EndsIn
<1>5. ASSUME NEW j \in 0 .. Len(queue), EndsFrom(j, key, V),
             \A i \in DOMAIN queue : queue[i].op = "get" => i > j
      PROVE  \A i \in DOMAIN queue' : queue'[i].op = "get" => i > j
  BY <1>1, <1>2, <1>5
<1> QED
  BY <1>3, <1>4, <1>5 DEF FoundIn

\* A write of one of these values makes it so, if no other follows.
LEMMA AsksSetEnds ==
  ASSUME queue \in Seq(Requests), NEW w \in Seq(Requests), Asks(w), NEW key, NEW V,
         NEW m \in 1 .. Len(w), w[m].op = "set", w[m].key = key,
         \A i \in 1 .. Len(w) : w[i].op = "set" /\ w[i].key = key => w[i].val \in V
  PROVE  /\ EndsIn(key, V)'
         /\ (\A i \in DOMAIN queue' : queue'[i].op # "get") => FoundIn(key, V)'
<1> DEFINE j == Len(queue) + m
<1>1. /\ Len(queue) \in Nat /\ Len(w) \in Nat
      /\ DOMAIN queue' = 1 .. Len(queue') /\ Len(queue') = Len(queue) + Len(w)
      /\ \A i \in 1 .. Len(w) : queue'[Len(queue) + i] = w[i]
  BY DEF Asks, Grown
<1>2. j \in 0 .. Len(queue') /\ j > 0 /\ queue'[j] = w[m]
  BY <1>1
<1>3. ASSUME NEW i \in DOMAIN queue', i > j, queue'[i].op = "set", queue'[i].key = key
      PROVE  queue'[i].val \in V
  <2>1. i - Len(queue) \in 1 .. Len(w) /\ Len(queue) + (i - Len(queue)) = i
    BY <1>1, <1>2, <1>3
  <2>2. queue'[Len(queue) + (i - Len(queue))] = w[i - Len(queue)]
    BY <1>1, <2>1
  <2> QED
    BY <1>3, <2>1, <2>2
<1>4. PICK n : n = j
  OBVIOUS
<1>5. n \in 0 .. Len(queue') /\ n > 0 /\ queue'[n] = w[m]
  BY <1>2, <1>4
<1>6. EndsFrom(n, key, V)'
  BY <1>3, <1>4, <1>5 DEF EndsFrom, Writes
<1> HIDE DEF j
<1> QED
  BY <1>5, <1>6 DEF EndsIn, FoundIn

\* One request is carried out.
LEMMA StorageKeepsEnds ==
  ASSUME TypeOK, StorageStep, NEW key \in Keys, NEW V
  PROVE  /\ EndsIn(key, V) => EndsIn(key, V)'
         /\ FoundIn(key, V) => FoundIn(key, V)'
<1>1. /\ Len(queue) \in Nat /\ Len(queue) > 0 /\ Len(queue') = Len(queue) - 1
      /\ DOMAIN queue = 1 .. Len(queue) /\ DOMAIN queue' = 1 .. Len(queue')
      /\ \A i \in 1 .. Len(queue') : i + 1 \in DOMAIN queue /\ queue'[i] = queue[i + 1]
      /\ queue[1] \in Requests
  BY QueueMovesUp DEF StorageStep, TypeOK
<1>2. /\ Writes(1, key) => store'[key] = queue[1].val
      /\ ~Writes(1, key) => store'[key] = store[key]
  BY <1>1, StorageAnswers, RequestShape DEF Written, Found, Writes, Keys
<1>3. ASSUME NEW j \in 0 .. Len(queue), EndsFrom(j, key, V)
      PROVE  \E k \in 0 .. Len(queue') : EndsFrom(k, key, V)' /\ (k = j - 1 \/ (j = 0 /\ k = 0))
  <2>1. CASE j = 0
    <3>1. store'[key] \in V
      BY <1>1, <1>2, <1>3, <2>1 DEF EndsFrom
    <3>2. \A i \in DOMAIN queue' : queue'[i].op = "set" /\ queue'[i].key = key => queue'[i].val \in V
      BY <1>1, <1>3, <2>1 DEF EndsFrom, Writes
    <3>3. EndsFrom(0, key, V)'
      BY <3>1, <3>2 DEF EndsFrom, Writes
    <3> QED
      BY <1>1, <2>1, <3>3
  <2>2. CASE j > 0
    <3>1. PICK k : k = j - 1
      OBVIOUS
    <3>2. k \in 0 .. Len(queue')
      BY <1>1, <2>2, <3>1
    <3>3. k = 0 => store'[key] \in V
      BY <1>1, <1>2, <1>3, <2>2, <3>1 DEF EndsFrom
    <3>4. k > 0 => queue'[k] = queue[j]
      BY <1>1, <2>2, <3>1, <3>2
    <3>5. \A i \in DOMAIN queue' :
            i > k /\ queue'[i].op = "set" /\ queue'[i].key = key => queue'[i].val \in V
      <4>1. ASSUME NEW i \in DOMAIN queue', i > k
            PROVE  i + 1 \in DOMAIN queue /\ i + 1 > j /\ queue'[i] = queue[i + 1]
        BY <1>1, <2>2, <3>1, <4>1
      <4> QED
        BY <1>3, <4>1 DEF EndsFrom, Writes
    <3>6. EndsFrom(k, key, V)'
      BY <1>3, <2>2, <3>3, <3>4, <3>5 DEF EndsFrom, Writes
    <3> QED
      BY <3>1, <3>2, <3>6
  <2> QED
    BY <2>1, <2>2
<1>4. EndsIn(key, V) => EndsIn(key, V)'
  BY <1>3 DEF EndsIn
<1>5. ASSUME NEW j \in 0 .. Len(queue), EndsFrom(j, key, V),
             \A i \in DOMAIN queue : queue[i].op = "get" => i > j
      PROVE  FoundIn(key, V)'
  <2>1. PICK k \in 0 .. Len(queue') : EndsFrom(k, key, V)' /\ (k = j - 1 \/ (j = 0 /\ k = 0))
    BY <1>3, <1>5
  <2>2. ASSUME NEW i \in DOMAIN queue', queue'[i].op = "get"
        PROVE  i > k
    <3>1. i + 1 \in DOMAIN queue /\ queue[i + 1].op = "get" /\ i \in Nat /\ i > 0
      BY <1>1, <2>2
    <3>2. i + 1 > j
      BY <1>5, <3>1
    <3> QED
      BY <2>1, <3>1, <3>2
  <2> QED
    BY <2>1, <2>2 DEF FoundIn
<1> QED
  BY <1>4, <1>5 DEF FoundIn

\* With no write waiting, storage has it.
LEMMA EndsWithoutWrites ==
  ASSUME queue \in Seq(Requests), \A i \in DOMAIN queue : queue[i].op # "set",
         NEW key, NEW V, EndsIn(key, V)
  PROVE  store[key] \in V
<1>1. PICK j \in 0 .. Len(queue) : EndsFrom(j, key, V)
  BY DEF EndsIn
<1>2. j > 0 => j \in DOMAIN queue
  OBVIOUS
<1> QED
  BY <1>1, <1>2 DEF EndsFrom, Writes

\* A page that closes keeps what is in storage.
LEMMA ReloadKeepsEnds ==
  ASSUME queue \in Seq(Requests), Reload, ~WritesWait, NEW key, NEW V, EndsIn(key, V)
  PROVE  EndsIn(key, V)' /\ FoundIn(key, V)'
<1>1. store'[key] \in V /\ queue' = <<>>
  BY EndsWithoutWrites DEF Reload, WritesWait
<1> QED
  BY <1>1 DEF EndsIn, FoundIn, EndsFrom, Writes

-----------------------------------------------------------------------------
(* Reads that wait                                                         *)

\* A request that waits after new ones were made is an old one or one of these.
LEMMA OldOrAsked ==
  ASSUME queue \in Seq(Requests), NEW w \in Seq(Requests), Asks(w), NEW i \in DOMAIN queue'
  PROVE  \/ i \in DOMAIN queue /\ queue'[i] = queue[i]
         \/ \E m \in 1 .. Len(w) : i = Len(queue) + m /\ queue'[i] = w[m]
<1>1. /\ Len(queue) \in Nat /\ Len(w) \in Nat /\ DOMAIN queue = 1 .. Len(queue)
      /\ DOMAIN queue' = 1 .. Len(queue') /\ Len(queue') = Len(queue) + Len(w)
      /\ \A k \in 1 .. Len(queue) : queue'[k] = queue[k]
      /\ \A k \in 1 .. Len(w) : queue'[Len(queue) + k] = w[k]
  BY DEF Asks, Grown
<1>2. CASE i <= Len(queue)
  BY <1>1, <1>2
<1>3. CASE i > Len(queue)
  <2>1. i - Len(queue) \in 1 .. Len(w) /\ i = Len(queue) + (i - Len(queue))
    BY <1>1, <1>3
  <2>2. queue'[Len(queue) + (i - Len(queue))] = w[i - Len(queue)]
    BY <1>1, <2>1
  <2> QED
    BY <2>1, <2>2
<1> QED
  BY <1>1, <1>2, <1>3

LEMMA WaitingRequests ==
  ASSUME queue \in Seq(Requests)
  PROVE  \A i \in DOMAIN queue : queue[i] \in Requests
OBVIOUS

\* Who goes on, or begins, waits for no read.
LEMMA NoReadOf ==
  ASSUME TypeOK, ReadersRead, NEW t \in Tasks, tasks[t].pc = "read" => Done(t)
  PROVE  \A i \in DOMAIN queue : queue[i].op = "get" => queue[i].by \in Tasks \ {t}
BY WaitingRequests, RequestShape DEF ReadersRead, Done, TypeOK

LEMMA ReadersReadStep ==
  ASSUME TypeOK, ReadersRead, [Next]_vars
  PROVE  ReadersRead'
<1>0. queue \in Seq(Requests)
  BY DEF TypeOK
<1>1. CASE StorageStep
  <2>1. \A i \in DOMAIN queue' : i + 1 \in DOMAIN queue /\ queue'[i] = queue[i + 1]
    BY <1>0, <1>1, QueueMovesUp DEF StorageStep
  <2>2. \A u \in Tasks : tasks'[u].pc = tasks[u].pc
    BY <1>1, StorageAnswers DEF Written, Found
  <2>3. \A i \in DOMAIN queue : queue[i].op = "get" => queue[i].by \in Tasks
    BY <1>0, WaitingRequests, RequestShape
  <2> QED
    BY <2>1, <2>2, <2>3 DEF ReadersRead
<1>2. CASE Reload
  BY <1>2 DEF Reload, ReadersRead
<1>3. CASE Tick \/ UNCHANGED vars
  BY <1>3 DEF Tick, vars, ReadersRead
<1>4. ASSUME NEW t \in Tasks,
             \/ NothingStored(t) \/ StoredExpired(t) \/ StoredValid(t) \/ StoredExpiresSoon(t)
             \/ LogIn(t) \/ LogInFails(t) \/ Returns(t) \/ RefreshFails(t)
      PROVE  ReadersRead'
  <2>1. queue' = queue /\ \A u \in Tasks : u # t => tasks'[u] = tasks[u]
    BY <1>4, QuietSteps, RefreshFailure
  <2>2. tasks[t].pc = "read" => Done(t)
    BY <1>4 DEF NothingStored, StoredExpired, StoredValid, StoredExpiresSoon, HasRead,
                LogIn, Starts, LogInFails, Returns, RefreshFails
  <2> QED
    BY <2>1, <2>2, NoReadOf DEF ReadersRead
<1>5. ASSUME NEW t \in Tasks, Initialize(t)
      PROVE  ReadersRead'
  <2> DEFINE w == <<Get("auth", t), Get("roles", t)>>
  <2>1. Asks(w) /\ w \in Seq(Requests)
    BY <1>5, InitializeAsks DEF Asks
  <2>2. \A i \in 1 .. Len(w) : w[i].by = t
    BY DEF Get
  <2> HIDE DEF w
  <2>3. \A i \in DOMAIN queue' : (i \in DOMAIN queue /\ queue'[i] = queue[i]) \/ queue'[i].by = t
    BY <1>0, <2>1, <2>2, OldOrAsked
  <2>4. tasks'[t].pc = "read" /\ \A u \in Tasks : u # t => tasks'[u] = tasks[u]
    BY <1>5, InitializeAsks
  <2>5. \A i \in DOMAIN queue : queue[i].op = "get" => queue[i].by \in Tasks
    BY <1>0, WaitingRequests, RequestShape
  <2> QED
    BY <2>3, <2>4, <2>5 DEF ReadersRead
<1>6. ASSUME NEW t \in Tasks, LogInAnswered(t) \/ LogOut(t) \/ Refreshed(t)
      PROVE  ReadersRead'
  <2>1. /\ tasks[t].pc # "read"
        /\ \A u \in Tasks : u # t => tasks'[u] = tasks[u]
    BY <1>6, AnswerAsks, LogOutAsks, RefreshAsks
  <2>2. PICK w \in Seq(Requests) : Asks(w) /\ \A i \in 1 .. Len(w) : w[i].op = "set"
    <3>1. CASE LogInAnswered(t)
      <4>1. PICK token \in Token : Asks(SavesResult(t, token))
        BY <3>1, AnswerAsks
      <4>2. \A i \in 1 .. Len(SavesResult(t, token)) : SavesResult(t, token)[i].op = "set"
        BY DEF SavesResult, Set
      <4> QED
        BY <4>1, <4>2 DEF Asks
    <3>2. CASE LogOut(t)
      <4>1. Asks(ClearsStorage(t))
        BY <3>2, LogOutAsks
      <4>2. \A i \in 1 .. Len(ClearsStorage(t)) : ClearsStorage(t)[i].op = "set"
        BY DEF ClearsStorage, Set
      <4> QED
        BY <4>1, <4>2 DEF Asks
    <3>3. CASE Refreshed(t)
      <4>1. PICK token : Asks(<<Set("auth", token, None)>>)
        BY <3>3, RefreshAsks
      <4> DEFINE w == <<Set("auth", token, None)>>
      <4>2. \A i \in 1 .. Len(w) : w[i].op = "set"
        BY DEF Set
      <4>3. Asks(w)
        BY <4>1
      <4> HIDE DEF w
      <4> QED
        BY <4>2, <4>3 DEF Asks
    <3> QED
      BY <1>6, <3>1, <3>2, <3>3
  <2>3. \A i \in DOMAIN queue' : (i \in DOMAIN queue /\ queue'[i] = queue[i]) \/ queue'[i].op = "set"
    BY <1>0, <2>2, OldOrAsked
  <2> QED
    BY <2>1, <2>3, NoReadOf DEF ReadersRead
<1> QED
  BY <1>1, <1>2, <1>3, <1>4, <1>5, <1>6 DEF Next, InitializeStep

-----------------------------------------------------------------------------
(* The user's last word                                                    *)

\* What the requests of an operation make of the entries.
LEMMA LogOutClears ==
  ASSUME TypeOK, NEW t \in Tasks, LogOut(t), NEW V, None \in V
  PROVE  /\ EndsIn("auth", V)' /\ EndsIn("roles", V)'
         /\ FoundIn("auth", V) => FoundIn("auth", V)'
         /\ (\A i \in DOMAIN queue : queue[i].op # "get") => FoundIn("auth", V)'
<1> DEFINE w == ClearsStorage(t)
<1>1. Asks(w) /\ w \in Seq(Requests) /\ queue \in Seq(Requests)
  BY LogOutAsks DEF Asks, TypeOK
<1>2. /\ Len(w) = 2 /\ 1 \in 1 .. Len(w) /\ 2 \in 1 .. Len(w)
      /\ w[1].op = "set" /\ w[1].key = "auth" /\ w[2].op = "set" /\ w[2].key = "roles"
      /\ \A i \in 1 .. Len(w) : w[i].op = "set" /\ w[i].val \in V
  BY DEF ClearsStorage, Set
<1> HIDE DEF w
<1>3. (\A i \in DOMAIN queue : queue[i].op # "get") => \A i \in DOMAIN queue' : queue'[i].op # "get"
  BY <1>1, <1>2, OldOrAsked
<1>4. EndsIn("auth", V)'
  BY <1>1, <1>2, AsksSetEnds
<1>5. EndsIn("roles", V)'
  BY <1>1, <1>2, AsksSetEnds
<1>6. FoundIn("auth", V) => FoundIn("auth", V)'
  BY <1>1, <1>2, AsksKeepEnds
<1>7. (\A i \in DOMAIN queue' : queue'[i].op # "get") => FoundIn("auth", V)'
  BY <1>1, <1>2, AsksSetEnds
<1> QED
  BY <1>3, <1>4, <1>5, <1>6, <1>7

LEMMA AnswerSaves ==
  ASSUME TypeOK, NEW t \in Tasks, NEW token \in Token, Asks(SavesResult(t, token)), NEW V
  PROVE  /\ token \in V => EndsIn("auth", V)'
         /\ token.login \in V => EndsIn("roles", V)'
<1> DEFINE w == SavesResult(t, token)
<1>1. Asks(w) /\ w \in Seq(Requests) /\ queue \in Seq(Requests)
  BY DEF Asks, TypeOK
<1>2. /\ Len(w) = 2 /\ 1 \in 1 .. Len(w) /\ 2 \in 1 .. Len(w)
      /\ w[1].op = "set" /\ w[1].key = "auth" /\ w[2].op = "set" /\ w[2].key = "roles"
      /\ token \in V => \A i \in 1 .. Len(w) : w[i].key = "auth" => w[i].val \in V
      /\ token.login \in V => \A i \in 1 .. Len(w) : w[i].key = "roles" => w[i].val \in V
  BY DEF SavesResult, Set
<1> HIDE DEF w
<1>3. token \in V => EndsIn("auth", V)'
  BY <1>1, <1>2, AsksSetEnds
<1>4. token.login \in V => EndsIn("roles", V)'
  BY <1>1, <1>2, AsksSetEnds
<1> QED
  BY <1>3, <1>4

LEMMA RefreshSaves ==
  ASSUME TypeOK, NEW token, Asks(<<Set("auth", token, None)>>), NEW V
  PROVE  /\ token \in V => EndsIn("auth", V)'
         /\ EndsIn("roles", V) => EndsIn("roles", V)'
<1> DEFINE w == <<Set("auth", token, None)>>
<1>1. Asks(w) /\ w \in Seq(Requests) /\ queue \in Seq(Requests)
  BY DEF Asks, TypeOK
<1>2. /\ Len(w) = 1 /\ 1 \in 1 .. Len(w) /\ w[1].op = "set" /\ w[1].key = "auth"
      /\ \A i \in 1 .. Len(w) : w[i].key = "auth"
      /\ token \in V => \A i \in 1 .. Len(w) : w[i].val \in V
  BY DEF Set
<1> HIDE DEF w
<1>3. token \in V => EndsIn("auth", V)'
  BY <1>1, <1>2, AsksSetEnds
<1>4. EndsIn("roles", V) => EndsIn("roles", V)'
  BY <1>1, <1>2, AsksKeepEnds
<1> QED
  BY <1>3, <1>4

LEMMA InitializeWritesNothing ==
  ASSUME TypeOK, NEW t \in Tasks, Initialize(t), NEW key, NEW V
  PROVE  /\ EndsIn(key, V) => EndsIn(key, V)'
         /\ FoundIn(key, V) => FoundIn(key, V)'
<1> DEFINE w == <<Get("auth", t), Get("roles", t)>>
<1>1. Asks(w) /\ w \in Seq(Requests) /\ queue \in Seq(Requests)
  BY InitializeAsks DEF Asks, TypeOK
<1>2. \A i \in 1 .. Len(w) : w[i].op # "set"
  BY DEF Get
<1> HIDE DEF w
<1> QED
  BY <1>1, <1>2, AsksKeepEnds

LEMMA LoggedInStep ==
  ASSUME TypeOK, LoggedIn, [Next]_vars
  PROVE  LoggedIn'
<1> USE DEF LoggedIn
<1>1. CASE StorageStep
  <2>1. kept' = kept
    BY <1>1 DEF StorageStep, history
  <2> QED
    BY <1>1, <2>1, StorageKeepsEnds DEF Keys
<1>2. CASE Reload
  <2>1. kept' => kept /\ ~WritesWait
    BY <1>2 DEF Reload
  <2> QED
    BY <1>2, <2>1, ReloadKeepsEnds DEF TypeOK
<1>3. CASE Tick \/ UNCHANGED vars
  <2>1. kept' = kept /\ UNCHANGED <<store, queue>>
    BY <1>3 DEF Tick, vars, history
  <2> QED
    BY <2>1, QuietKeepsEnds
<1>4. ASSUME NEW t \in Tasks,
             \/ NothingStored(t) \/ StoredExpired(t) \/ StoredValid(t) \/ StoredExpiresSoon(t)
             \/ LogIn(t) \/ LogInFails(t) \/ Returns(t) \/ RefreshFails(t)
      PROVE  LoggedIn'
  <2>1. UNCHANGED <<store, queue>>
    BY <1>4, QuietSteps, RefreshFailure
  <2>2. kept' = kept
    BY <1>4 DEF NothingStored, StoredExpired, StoredValid, StoredExpiresSoon,
                LogIn, LogInFails, Returns, RefreshFails, history
  <2> QED
    BY <2>1, <2>2, QuietKeepsEnds
<1>5. ASSUME NEW t \in Tasks, Initialize(t)
      PROVE  LoggedIn'
  BY <1>5, InitializeWritesNothing DEF Initialize
<1>6. ASSUME NEW t \in Tasks, LogInAnswered(t)
      PROVE  LoggedIn'
  <2>1. PICK token \in Token : Asks(SavesResult(t, token))
    BY <1>6, AnswerAsks
  <2> QED
    BY <2>1, AnswerSaves
<1>7. ASSUME NEW t \in Tasks, LogOut(t)
      PROVE  LoggedIn'
  BY <1>7 DEF LogOut
<1>8. ASSUME NEW t \in Tasks, Refreshed(t)
      PROVE  LoggedIn'
  <2>1. PICK token \in Token : Asks(<<Set("auth", token, None)>>)
    BY <1>8, RefreshAsks
  <2> QED
    BY <2>1, RefreshSaves
<1> QED
  BY <1>1, <1>2, <1>3, <1>4, <1>5, <1>6, <1>7, <1>8 DEF Next, InitializeStep

\* A read finds what storage holds: its request is the first.
LEMMA FirstReadFinds ==
  ASSUME queue \in Seq(Requests), queue # <<>>, queue[1].op = "get",
         NEW key, NEW V, FoundIn(key, V)
  PROVE  store[key] \in V
<1>1. 1 \in DOMAIN queue
  OBVIOUS
<1>2. PICK j \in 0 .. Len(queue) :
        EndsFrom(j, key, V) /\ \A i \in DOMAIN queue : queue[i].op = "get" => i > j
  BY DEF FoundIn
<1>3. j = 0
  BY <1>1, <1>2
<1> QED
  BY <1>2, <1>3 DEF EndsFrom

LEMMA FoundEnds == ASSUME NEW key, NEW V, FoundIn(key, V) PROVE EndsIn(key, V)
BY DEF FoundIn, EndsIn

LEMMA LoggedOutStep ==
  ASSUME TypeOK, ReadersRead, LoggedOut, [Next]_vars
  PROVE  LoggedOut'
<1> SUFFICES ASSUME left' PROVE LoggedOut'
  BY DEF LoggedOut
<1>0. queue \in Seq(Requests) /\ tasks \in [Tasks -> Task]
  BY DEF TypeOK
<1>1. CASE StorageStep
  <2>1. left /\ jwt' = jwt /\ queue # <<>>
    BY <1>1 DEF StorageStep, history
  <2>2. FoundIn("auth", {None})' /\ EndsIn("roles", {None})'
    BY <1>1, <2>1, StorageKeepsEnds DEF LoggedOut, Keys
  <2>3. queue[1].op = "get" => store.auth = None
    <3>1. queue[1].op = "get" => store["auth"] \in {None}
      BY <1>0, <2>1, FirstReadFinds DEF LoggedOut
    <3> QED
      BY <3>1 DEF TypeOK
  <2>4. \A u \in Tasks : tasks'[u].pc = tasks[u].pc /\ tasks'[u].auth \in {tasks[u].auth, store.auth}
                          /\ (tasks'[u].auth = tasks[u].auth \/ queue[1].op = "get")
    <3>1. queue[1].key \in {"auth", "roles"}
      BY <1>0, <2>1, WaitingRequests, RequestShape DEF Keys
    <3> QED
      BY <1>1, <3>1, StorageAnswers DEF Written, Found
  <2> QED
    BY <2>1, <2>2, <2>3, <2>4 DEF LoggedOut
<1>2. CASE Reload
  <2>1. left /\ ~WritesWait /\ jwt' = None /\ \A t \in Tasks : tasks'[t].pc = "idle"
    BY <1>2 DEF Reload, Idle
  <2>2. EndsIn("auth", {None}) /\ EndsIn("roles", {None})
    BY <2>1, FoundEnds DEF LoggedOut
  <2>3. FoundIn("auth", {None})' /\ EndsIn("roles", {None})'
    BY <1>0, <1>2, <2>1, <2>2, ReloadKeepsEnds
  <2> QED
    BY <2>1, <2>3 DEF LoggedOut
<1>3. CASE Tick \/ UNCHANGED vars
  <2>1. left /\ UNCHANGED <<store, queue, jwt, tasks>>
    BY <1>3 DEF Tick, vars, history
  <2> QED
    BY <2>1, QuietKeepsEnds DEF LoggedOut
<1>4. ASSUME NEW t \in Tasks,
             NothingStored(t) \/ StoredExpired(t) \/ LogInFails(t) \/ Returns(t)
      PROVE  LoggedOut'
  <2>1. left /\ jwt' \in {jwt, None}
    BY <1>4 DEF NothingStored, StoredExpired, Restores, LogInFails, Returns, history
  <2>2. /\ UNCHANGED <<store, queue>> /\ tasks'[t].pc = "idle"
        /\ \A u \in Tasks : u # t => tasks'[u] = tasks[u]
    BY <1>0, <1>4, TaskEnds DEF NothingStored, StoredExpired, LogInFails, Returns
  <2> QED
    BY <2>1, <2>2, QuietKeepsEnds DEF LoggedOut
<1>5. ASSUME NEW t \in Tasks,
             \/ StoredValid(t) \/ StoredExpiresSoon(t) \/ LogInAnswered(t)
             \/ Refreshed(t) \/ RefreshFails(t) \/ LogIn(t)
      PROVE  FALSE
  <2>1. CASE StoredValid(t) \/ StoredExpiresSoon(t)
    BY <2>1 DEF StoredValid, StoredExpiresSoon, HasRead, history, LoggedOut
  <2>2. CASE LogInAnswered(t) \/ Refreshed(t) \/ RefreshFails(t)
    BY <2>2 DEF LogInAnswered, Refreshed, RefreshFails, history, LoggedOut
  <2> QED
    BY <1>5, <2>1, <2>2 DEF LogIn
<1>6. ASSUME NEW t \in Tasks, Initialize(t)
      PROVE  LoggedOut'
  <2>1. left /\ jwt' = jwt
    BY <1>6 DEF Initialize
  <2> QED
    BY <1>6, <2>1, InitializeAsks, InitializeWritesNothing DEF LoggedOut
<1>7. ASSUME NEW t \in Tasks, LogOut(t)
      PROVE  LoggedOut'
  <2>1. jwt' = None /\ tasks'[t].pc = "store" /\ \A u \in Tasks : u # t => tasks'[u] = tasks[u]
    BY <1>7, LogOutAsks
  <2>2. EndsIn("roles", {None})'
    BY <1>7, LogOutClears
  <2>3. left \/ Running = {}
    BY <1>7 DEF LogOut
  <2>4. CASE left
    <3>1. FoundIn("auth", {None})'
      BY <1>7, <2>4, LogOutClears DEF LoggedOut
    <3> QED
      BY <2>1, <2>2, <2>4, <3>1 DEF LoggedOut
  <2>5. CASE Running = {}
    <3>1. \A u \in Tasks : tasks[u].pc = "idle"
      BY <2>5 DEF Running
    <3>2. \A i \in DOMAIN queue : queue[i].op # "get"
      BY <1>0, <3>1, WaitingRequests, RequestShape DEF ReadersRead
    <3>3. FoundIn("auth", {None})'
      BY <1>7, <3>2, LogOutClears
    <3> QED
      BY <2>1, <2>2, <3>1, <3>3 DEF LoggedOut
  <2> QED
    BY <2>3, <2>4, <2>5
<1> QED
  BY <1>1, <1>2, <1>3, <1>4, <1>5, <1>6, <1>7 DEF Next, InitializeStep

-----------------------------------------------------------------------------
(* The session of one piece                                                *)

LEMMA OthersIdle ==
  ASSUME Alone \/ Running = {}, NEW t \in Tasks, tasks[t].pc # "idle" \/ Running = {}
  PROVE  \A u \in Tasks : u # t => tasks[u].pc = "idle"
BY DEF Alone, Running

LEMMA OneRuns ==
  ASSUME NEW t \in Tasks, \A u \in Tasks : u # t => tasks'[u].pc = "idle"
  PROVE  \A u, v \in Running' : u = v
BY DEF Running

LEMMA NobodyReads ==
  ASSUME TypeOK, ReadersRead, \A u \in Tasks : tasks[u].pc # "read"
  PROVE  \A i \in DOMAIN queue : queue[i].op # "get"
BY WaitingRequests, RequestShape DEF ReadersRead, TypeOK

\* Who has read has read what storage holds, and will.
LEMMA HasReadBoth ==
  ASSUME NEW t \in Tasks, HasRead(t), NEW a, NEW r, ReadsBoth(t, a, r)
  PROVE  tasks[t].auth = a /\ tasks[t].roles = r
BY DEF HasRead, Done, ReadsBoth, Get

\* A step of one activation that leaves queue and storage alone.
LEMMA WholeQuiet ==
  ASSUME Alone, NEW a \in Tokens, NEW r \in Roles, Whole(a, r), NEW t \in Tasks,
         UNCHANGED <<store, queue>>, jwt' \in {jwt, None, a},
         tasks[t].pc # "idle" \/ Running = {},
         \A u \in Tasks : u # t => tasks'[u] = tasks[u],
         ReadsBoth(t, a, r)',
         user'.status = "authenticated" => user'.roles = user'.auth.login
  PROVE  Alone' /\ Whole(a, r)'
<1>1. \A u \in Tasks : u # t => tasks'[u].pc = "idle"
  BY OthersIdle
<1>2. \A u \in Tasks : ReadsBoth(u, a, r)'
  BY <1>1 DEF ReadsBoth
<1>3. EndsIn("auth", {a})' /\ EndsIn("roles", {r})'
  BY QuietKeepsEnds DEF Whole
<1>4. Whole(a, r)'
  BY <1>2, <1>3 DEF Whole
<1> QED
  BY <1>1, <1>4, OneRuns DEF Alone

LEMMA WholeQuietStep ==
  ASSUME TypeOK, Alone, NEW a \in Tokens, NEW r \in Roles, Whole(a, r), NEW t \in Tasks, ~tangled',
         \/ NothingStored(t) \/ StoredExpired(t) \/ StoredValid(t) \/ StoredExpiresSoon(t)
         \/ LogIn(t) \/ LogInFails(t) \/ Returns(t) \/ RefreshFails(t)
  PROVE  Alone' /\ Whole(a, r)'
<1>1. /\ UNCHANGED <<store, queue>> /\ tasks' \in [Tasks -> Task]
      /\ \A u \in Tasks : u # t => tasks'[u] = tasks[u]
  BY QuietSteps, RefreshFailure
<1>2. tasks[t].pc # "idle" \/ Running = {}
  BY DEF NothingStored, StoredExpired, StoredValid, StoredExpiresSoon, HasRead, LogIn, Starts,
         LogInFails, Returns, RefreshFails
<1>3. HasRead(t) => tasks[t].auth = a /\ tasks[t].roles = r
  BY HasReadBoth DEF Whole
<1>4. tasks[t].pc = "refresh" => a # None /\ tasks[t].auth = a /\ tasks[t].roles = r
  BY DEF Whole, ReadsBoth
<1>5. jwt \in {None, a} /\ (a # None => r = a.login)
      /\ (user.status = "authenticated" => user.roles = user.auth.login)
  BY DEF Whole, Alone
<1>6. CASE NothingStored(t) \/ StoredExpired(t)
  <2>1. jwt' = None /\ user'.status # "authenticated"
    BY <1>6 DEF NothingStored, StoredExpired, Restores
  <2>2. tasks'[t].pc = "idle"
    BY <1>6, TaskEnds DEF NothingStored, StoredExpired, TypeOK
  <2>3. ReadsBoth(t, a, r)'
    BY <2>2 DEF ReadsBoth
  <2> QED
    BY <1>1, <1>2, <2>1, <2>3, WholeQuiet
<1>7. CASE StoredValid(t) \/ RefreshFails(t)
  <2>1. tasks[t].auth = a /\ tasks[t].roles = r /\ a # None
    BY <1>3, <1>4, <1>7 DEF StoredValid, RefreshFails
  <2>2. jwt' = a /\ user' = [status |-> "authenticated", auth |-> a, roles |-> r]
    BY <1>7, <2>1 DEF StoredValid, RefreshFails, UsesStored, Restores
  <2>3. tasks'[t].pc = "idle"
    BY <1>7, TaskEnds DEF StoredValid, RefreshFails, TypeOK
  <2>4. ReadsBoth(t, a, r)'
    BY <2>3 DEF ReadsBoth
  <2> QED
    BY <1>1, <1>2, <1>5, <2>1, <2>2, <2>4, WholeQuiet
<1>8. CASE StoredExpiresSoon(t)
  <2>1. tasks[t].auth = a /\ tasks[t].roles = r /\ a # None
    BY <1>3, <1>8 DEF StoredExpiresSoon
  <2> DEFINE q == [tasks[t] EXCEPT !.pc = "refresh"]
             p == [q EXCEPT !.sent = jwt]
  <2>2. q \in Task /\ q.pc = "refresh" /\ q.auth = a /\ q.roles = r
    BY <2>1 DEF TypeOK, Task
  <2>3. tasks' = [tasks EXCEPT ![t] = p]
    BY <1>8 DEF StoredExpiresSoon
  <2> HIDE DEF q
  <2>4. p \in Task /\ p.pc = "refresh" /\ p.auth = a /\ p.roles = r /\ p.sent = jwt
    BY <2>2 DEF TypeOK, Task
  <2> HIDE DEF p
  <2>5. tasks'[t] = p
    BY <2>3, <2>4, OneTaskChanges DEF TypeOK
  <2>6. ReadsBoth(t, a, r)'
    BY <1>5, <2>1, <2>4, <2>5 DEF ReadsBoth
  <2>7. UNCHANGED <<jwt, user>>
    BY <1>8 DEF StoredExpiresSoon
  <2> QED
    BY <1>1, <1>2, <1>5, <2>6, <2>7, WholeQuiet
<1>9. CASE LogIn(t) \/ LogInFails(t) \/ Returns(t)
  <2>1. UNCHANGED <<jwt, user>>
    BY <1>9 DEF LogIn, LogInFails, Returns
  <2>2. tasks'[t].pc \in {"idle", "login"}
    <3>1. CASE LogIn(t)
      <4>1. tasks' = [tasks EXCEPT ![t] = [Idle EXCEPT !.pc = "login"]]
        BY <3>1 DEF LogIn
      <4> QED
        BY <4>1 DEF TypeOK, Idle
    <3>2. CASE LogInFails(t) \/ Returns(t)
      BY <3>2, TaskEnds DEF LogInFails, Returns, TypeOK
    <3> QED
      BY <1>9, <3>1, <3>2
  <2>3. ReadsBoth(t, a, r)'
    BY <2>2 DEF ReadsBoth
  <2> QED
    BY <1>1, <1>2, <1>5, <2>1, <2>3, WholeQuiet
<1> QED
  BY <1>6, <1>7, <1>8, <1>9

\* A step of the only activation that asks for writes, with no read waiting.
LEMMA WholeWrites ==
  ASSUME TypeOK, ReadersRead, Alone \/ Running = {}, NEW t \in Tasks,
         tasks[t].pc # "idle" \/ Running = {}, tasks[t].pc # "read",
         tasks'[t].pc \in {"idle", "store"},
         \A u \in Tasks : u # t => tasks'[u] = tasks[u],
         NEW w \in Seq(Requests), Asks(w), \A i \in 1 .. Len(w) : w[i].op = "set",
         user'.status = "authenticated" => user'.roles = user'.auth.login
  PROVE  Alone' /\ \A a, r : \A u \in Tasks : ReadsBoth(u, a, r)'
<1>1. \A u \in Tasks : u # t => tasks'[u].pc = "idle"
  BY OthersIdle
<1>2. \A i \in DOMAIN queue : queue[i].op # "get"
  BY OthersIdle, NobodyReads
<1>3. \A i \in DOMAIN queue' : queue'[i].op # "get"
  BY <1>2, OldOrAsked DEF TypeOK
<1> QED
  BY <1>1, <1>3, OneRuns DEF Alone, ReadsBoth

LEMMA WholeInitialize ==
  ASSUME TypeOK, ReadersRead, Alone, NEW a \in Tokens, NEW r \in Roles, Whole(a, r),
         NEW t \in Tasks, Initialize(t), ~tangled'
  PROVE  Alone' /\ Whole(a, r)'
<1> DEFINE w == <<Get("auth", t), Get("roles", t)>>
<1>1. /\ Asks(w) /\ w \in Seq(Requests) /\ tasks'[t].pc = "read"
      /\ \A u \in Tasks : u # t => tasks'[u] = tasks[u]
  BY InitializeAsks DEF Asks
<1>2. /\ Len(w) = 2 /\ w[1] = Get("auth", t) /\ w[2] = Get("roles", t)
      /\ \A i \in 1 .. Len(w) : w[i].op # "set"
  BY DEF Get
<1> HIDE DEF w
<1>3. Running = {} /\ UNCHANGED <<jwt, user>>
  BY DEF Initialize, Starts
<1>4. \A u \in Tasks : u # t => tasks'[u].pc = "idle"
  BY <1>1, <1>3, OthersIdle
<1>5. \A i \in DOMAIN queue : queue[i].op # "get"
  BY <1>3, NobodyReads DEF Running
<1>6. /\ Len(queue) \in Nat /\ DOMAIN queue = 1 .. Len(queue)
      /\ DOMAIN queue' = 1 .. Len(queue') /\ Len(queue') = Len(queue) + 2
      /\ queue'[Len(queue) + 1] = Get("auth", t) /\ queue'[Len(queue) + 2] = Get("roles", t)
  BY <1>1, <1>2 DEF Asks, Grown, TypeOK
<1>7. ReadsBoth(t, a, r)'
  BY <1>1, <1>6 DEF ReadsBoth
<1>8. \A i, k \in DOMAIN queue' : queue'[i].op = "get" /\ queue'[k].op = "set" => k < i
  <2>1. \A i \in DOMAIN queue' : queue'[i].op = "get" => i > Len(queue)
    BY <1>1, <1>5, <1>6, OldOrAsked DEF TypeOK
  <2>2. \A i \in DOMAIN queue' : queue'[i].op = "set" => i <= Len(queue)
    BY <1>1, <1>2, <1>6, OldOrAsked DEF TypeOK
  <2> QED
    BY <1>6, <2>1, <2>2
<1>9. EndsIn("auth", {a})' /\ EndsIn("roles", {r})'
  BY InitializeWritesNothing DEF Whole
<1>10. \A u \in Tasks : ReadsBoth(u, a, r)'
  BY <1>4, <1>7 DEF ReadsBoth
<1>11. Whole(a, r)'
  BY <1>3, <1>9, <1>10 DEF Whole
<1> QED
  BY <1>3, <1>4, <1>8, <1>11, OneRuns DEF Alone

LEMMA WholeAnswered ==
  ASSUME TypeOK, ReadersRead, Alone, NEW t \in Tasks, LogInAnswered(t)
  PROVE  Alone' /\ \E a \in Tokens, r \in Roles : Whole(a, r)'
<1>1. PICK token \in Token : jwt' = token /\ Asks(SavesResult(t, token))
  BY AnswerAsks
<1>2. /\ tasks[t].pc = "login" /\ tasks'[t].pc = "store"
      /\ \A u \in Tasks : u # t => tasks'[u] = tasks[u]
  BY AnswerAsks
<1>3. \A i \in 1 .. Len(SavesResult(t, token)) : SavesResult(t, token)[i].op = "set"
  BY DEF SavesResult, Set
<1>4. user' = user
  BY DEF LogInAnswered
<1>5. SavesResult(t, token) \in Seq(Requests) /\ Asks(SavesResult(t, token))
  BY <1>1 DEF Asks
<1>6. Alone' /\ \A u \in Tasks : ReadsBoth(u, token, token.login)'
  <2> DEFINE w == SavesResult(t, token)
  <2>1. w \in Seq(Requests) /\ Asks(w) /\ \A i \in 1 .. Len(w) : w[i].op = "set"
    BY <1>3, <1>5
  <2> HIDE DEF w
  <2>2. Alone' /\ \A a, r : \A u \in Tasks : ReadsBoth(u, a, r)'
    BY <1>2, <1>4, <2>1, WholeWrites DEF Alone
  <2> QED
    BY <2>2
<1>7. EndsIn("auth", {token})' /\ EndsIn("roles", {token.login})'
  BY <1>1, AnswerSaves
<1>8. Whole(token, token.login)'
  BY <1>1, <1>6, <1>7 DEF Whole
<1>9. token \in Tokens /\ token.login \in Roles
  BY DEF Tokens, Roles, Token
<1> QED
  BY <1>6, <1>8, <1>9

LEMMA WholeLogOut ==
  ASSUME TypeOK, ReadersRead, Alone, NEW t \in Tasks, LogOut(t), ~tangled'
  PROVE  Alone' /\ \E a \in Tokens, r \in Roles : Whole(a, r)'
<1> DEFINE w == ClearsStorage(t)
<1>1. /\ Asks(w) /\ w \in Seq(Requests) /\ jwt' = None
      /\ tasks[t].pc = "idle" /\ tasks'[t].pc = "store"
      /\ \A u \in Tasks : u # t => tasks'[u] = tasks[u]
  BY LogOutAsks DEF Asks
<1>2. \A i \in 1 .. Len(w) : w[i].op = "set"
  BY DEF ClearsStorage, Set
<1>3. Running = {} /\ user' = user
  BY DEF LogOut, Starts
<1> HIDE DEF w
<1>4. Alone' /\ \A a, r : \A u \in Tasks : ReadsBoth(u, a, r)'
  BY <1>1, <1>2, <1>3, WholeWrites DEF Alone
<1>5. EndsIn("auth", {None})' /\ EndsIn("roles", {None})'
  BY LogOutClears
<1>6. Whole(None, None)'
  BY <1>1, <1>4, <1>5 DEF Whole
<1>7. None \in Tokens /\ None \in Roles
  BY DEF Tokens, Roles
<1> QED
  BY <1>4, <1>6, <1>7

LEMMA WholeRefreshed ==
  ASSUME TypeOK, ReadersRead, Alone, NEW a \in Tokens, NEW r \in Roles, Whole(a, r),
         NEW t \in Tasks, Refreshed(t)
  PROVE  Alone' /\ \E b \in Tokens : Whole(b, r)'
<1>1. PICK token \in Token :
        /\ token.login = tasks[t].sent.login
        /\ jwt' = token /\ Asks(<<Set("auth", token, None)>>)
        /\ user' = [status |-> "authenticated", auth |-> token, roles |-> tasks[t].roles]
  BY RefreshAsks
<1>2. /\ tasks[t].pc = "refresh" /\ tasks'[t].pc = "idle" /\ tasks[t].sent \in Token
      /\ \A u \in Tasks : u # t => tasks'[u] = tasks[u]
  BY RefreshAsks
<1>3. tasks[t].sent = a /\ tasks[t].roles = r /\ r = token.login
  BY <1>1, <1>2, TokensAre DEF Whole, ReadsBoth
<1> DEFINE w == <<Set("auth", token, None)>>
<1>4. Asks(w) /\ w \in Seq(Requests) /\ \A i \in 1 .. Len(w) : w[i].op = "set"
  BY <1>1 DEF Asks, Set
<1>5. user'.roles = user'.auth.login
  BY <1>1, <1>3
<1>6. EndsIn("auth", {token})' /\ EndsIn("roles", {r})'
  BY <1>1, RefreshSaves DEF Whole
<1> HIDE DEF w
<1>7. Alone' /\ \A b, q : \A u \in Tasks : ReadsBoth(u, b, q)'
  BY <1>2, <1>4, <1>5, WholeWrites
<1>8. Whole(token, r)'
  BY <1>1, <1>3, <1>6, <1>7 DEF Whole
<1>9. token \in Tokens
  BY DEF Tokens
<1> QED
  BY <1>7, <1>8, <1>9

LEMMA WholeStorage ==
  ASSUME TypeOK, ReadersRead, Alone, NEW a \in Tokens, NEW r \in Roles, Whole(a, r), StorageStep
  PROVE  Alone' /\ Whole(a, r)'
<1>1. /\ queue \in Seq(Requests) /\ queue # <<>> /\ queue' = Tail(queue)
      /\ UNCHANGED <<jwt, user>>
  BY DEF StorageStep, TypeOK
<1>2. /\ Len(queue) \in Nat /\ Len(queue) > 0 /\ Len(queue') = Len(queue) - 1
      /\ DOMAIN queue = 1 .. Len(queue) /\ DOMAIN queue' = 1 .. Len(queue')
      /\ \A i \in 1 .. Len(queue') : queue'[i] = queue[i + 1]
      /\ \A i \in 2 .. Len(queue) : queue'[i - 1] = queue[i]
      /\ queue[1] \in Requests
  BY <1>1, QueueMovesUp
<1>3. Written \/ \E t \in Tasks : Found(t)
  BY StorageAnswers
<1>4. \A u \in Tasks : tasks'[u].pc = tasks[u].pc
  BY <1>3 DEF Written, Found
<1>5. Alone'
  <2>1. \A u, v \in Running' : u = v
    BY <1>4 DEF Alone, Running
  <2>2. ASSUME NEW i \in DOMAIN queue', NEW k \in DOMAIN queue',
               queue'[i].op = "get", queue'[k].op = "set"
        PROVE  k < i
    <3>1. /\ i + 1 \in DOMAIN queue /\ queue[i + 1].op = "get"
          /\ k + 1 \in DOMAIN queue /\ queue[k + 1].op = "set"
      BY <1>2, <2>2
    <3>2. k + 1 < i + 1
      BY <3>1 DEF Alone
    <3> QED
      BY <1>2, <3>2
  <2> QED
    BY <1>1, <2>1, <2>2 DEF Alone
<1>6. EndsIn("auth", {a})' /\ EndsIn("roles", {r})'
  BY StorageKeepsEnds DEF Whole, Keys
<1>7. queue[1].op = "get" => store.auth = a /\ store.roles = r
  <2>1. SUFFICES ASSUME queue[1].op = "get" PROVE store.auth = a /\ store.roles = r
    OBVIOUS
  <2>2. \A i \in DOMAIN queue : queue[i].op # "set"
    BY <1>2, <2>1 DEF Alone
  <2>3. store["auth"] \in {a} /\ store["roles"] \in {r}
    BY <1>1, <2>2, EndsWithoutWrites DEF Whole
  <2> QED
    BY <2>3
<1>8. ASSUME NEW t \in Tasks
      PROVE  ReadsBoth(t, a, r)'
  <2>0. ReadsBoth(t, a, r)
    BY DEF Whole
  <2>1. CASE tasks[t].pc = "read"
    <3>1. tasks[t].auth = a => tasks'[t].auth = a
      BY <1>2, <1>3, <1>7, RequestShape DEF Written, Found, Keys
    <3>2. tasks[t].roles = r => tasks'[t].roles = r
      BY <1>2, <1>3, <1>7, RequestShape DEF Written, Found, Keys
    <3>3. ASSUME NEW i \in DOMAIN queue, queue[i] = Get("auth", t)
          PROVE  tasks'[t].auth = a \/ \E k \in DOMAIN queue' : queue'[k] = Get("auth", t)
      <4>1. CASE i = 1
        BY <1>3, <1>7, <3>3, <4>1 DEF Written, Found, Get
      <4>2. CASE i # 1
        <5>1. i - 1 \in DOMAIN queue' /\ queue'[i - 1] = queue[i]
          BY <1>2, <4>2
        <5> QED
          BY <3>3, <5>1
      <4> QED
        BY <4>1, <4>2
    <3>4. ASSUME NEW i \in DOMAIN queue, queue[i] = Get("roles", t)
          PROVE  tasks'[t].roles = r \/ \E k \in DOMAIN queue' : queue'[k] = Get("roles", t)
      <4>1. CASE i = 1
        BY <1>3, <1>7, <3>4, <4>1 DEF Written, Found, Get
      <4>2. CASE i # 1
        <5>1. i - 1 \in DOMAIN queue' /\ queue'[i - 1] = queue[i]
          BY <1>2, <4>2
        <5> QED
          BY <3>4, <5>1
      <4> QED
        BY <4>1, <4>2
    <3> QED
      BY <1>4, <2>0, <2>1, <3>1, <3>2, <3>3, <3>4 DEF ReadsBoth
  <2>2. CASE tasks[t].pc # "read"
    <3>1. tasks'[t] = tasks[t]
      BY <1>2, <1>3, <2>2 DEF Written, Found, ReadersRead
    <3> QED
      BY <2>0, <2>2, <3>1 DEF ReadsBoth
  <2> QED
    BY <2>1, <2>2
<1> QED
  BY <1>1, <1>5, <1>6, <1>8 DEF Whole

LEMMA WholeStep ==
  ASSUME TypeOK, ReadersRead, [Next]_vars, ~tangled',
         ~tangled => Alone /\ \E a \in Tokens, r \in Roles : Whole(a, r)
  PROVE  Alone' /\ \E a \in Tokens, r \in Roles : Whole(a, r)'
<1>1. ~tangled
  <2>1. CASE StorageStep \/ Tick \/ Reload \/ UNCHANGED vars
    BY <2>1 DEF StorageStep, Tick, Reload, vars, history
  <2>2. ASSUME NEW t \in Tasks, Initialize(t) \/ LogIn(t) \/ LogOut(t)
        PROVE  ~tangled
    BY <2>2 DEF Initialize, LogIn, LogOut, Starts
  <2>3. ASSUME NEW t \in Tasks,
               InitializeStep(t) \/ LogInAnswered(t) \/ LogInFails(t) \/ Returns(t)
        PROVE  ~tangled
    BY <2>3 DEF InitializeStep, NothingStored, StoredExpired, StoredValid, StoredExpiresSoon,
                Refreshed, RefreshFails, LogInAnswered, LogInFails, Returns, history
  <2> QED
    BY <2>1, <2>2, <2>3 DEF Next
<1>2. PICK a \in Tokens, r \in Roles : Whole(a, r)
  BY <1>1
<1>3. Alone
  BY <1>1
<1>4. CASE StorageStep
  BY <1>2, <1>3, <1>4, WholeStorage
<1>5. CASE Reload
  <2>1. ~WritesWait /\ jwt' = None /\ user' = NullUser /\ queue' = <<>>
        /\ \A t \in Tasks : tasks'[t].pc = "idle"
    BY <1>5 DEF Reload, Idle
  <2>2. EndsIn("auth", {a})' /\ EndsIn("roles", {r})'
    BY <1>2, <1>5, <2>1, ReloadKeepsEnds DEF Whole, TypeOK
  <2>3. Whole(a, r)'
    BY <1>2, <2>1, <2>2 DEF Whole, ReadsBoth
  <2>4. Alone'
    BY <2>1 DEF Alone, Running, NullUser
  <2> QED
    BY <2>3, <2>4
<1>6. CASE Tick \/ UNCHANGED vars
  <2>1. UNCHANGED <<store, queue, jwt, user, tasks>>
    BY <1>6 DEF Tick, vars
  <2>2. EndsIn("auth", {a})' /\ EndsIn("roles", {r})'
    BY <1>2, <2>1, QuietKeepsEnds DEF Whole
  <2>3. Whole(a, r)'
    BY <1>2, <2>1, <2>2 DEF Whole, ReadsBoth
  <2>4. Alone'
    BY <1>3, <2>1 DEF Alone, Running
  <2> QED
    BY <2>3, <2>4
<1>7. ASSUME NEW t \in Tasks,
             \/ Initialize(t) \/ InitializeStep(t)
             \/ LogIn(t) \/ LogInAnswered(t) \/ LogInFails(t) \/ LogOut(t) \/ Returns(t)
      PROVE  Alone' /\ \E b \in Tokens, q \in Roles : Whole(b, q)'
  <2>1. CASE Initialize(t)
    BY <1>2, <1>3, <2>1, WholeInitialize
  <2>2. CASE LogInAnswered(t)
    BY <1>3, <2>2, WholeAnswered
  <2>3. CASE LogOut(t)
    BY <1>3, <2>3, WholeLogOut
  <2>4. CASE Refreshed(t)
    BY <1>2, <1>3, <2>4, WholeRefreshed
  <2>5. CASE \/ NothingStored(t) \/ StoredExpired(t) \/ StoredValid(t) \/ StoredExpiresSoon(t)
             \/ LogIn(t) \/ LogInFails(t) \/ Returns(t) \/ RefreshFails(t)
    BY <1>2, <1>3, <2>5, WholeQuietStep
  <2> QED
    BY <1>7, <2>1, <2>2, <2>3, <2>4, <2>5 DEF InitializeStep
<1> QED
  BY <1>4, <1>5, <1>6, <1>7 DEF Next

-----------------------------------------------------------------------------
(* The invariant and what follows from it                                  *)

LEMMA InitInv == Init => Inv
<1> SUFFICES ASSUME Init PROVE Inv
  OBVIOUS
<1>1. /\ store \in [auth : Tokens, roles : Roles] /\ queue = <<>> /\ jwt = None
      /\ user = NullUser /\ ~tangled /\ ~left /\ ~kept
      /\ \A t \in Tasks : tasks[t].pc = "idle"
  BY DEF Init, Idle
<1>2. store.auth # None => store.roles = store.auth.login
  BY DEF Init
<1>3. TypeOK
  <2>1. tasks \in [Tasks -> Task]
    BY DEF Init, Idle, Task, Tokens, Roles
  <2>2. user \in User /\ jwt \in Tokens
    BY <1>1 DEF NullUser, User, Tokens, Roles
  <2>3. queue \in Seq(Requests)
    BY <1>1
  <2>4. logins \in Logins /\ starts \in 0 .. MaxStarts /\ now \in 0 .. MaxNow /\ page \in 0 .. 1
    BY FrontendSessionAssumption DEF Init, Logins
  <2> QED
    BY <1>1, <2>1, <2>2, <2>3, <2>4 DEF TypeOK, Init
<1>4. ReadersRead
  BY <1>1 DEF ReadersRead
<1>5. LoggedOut /\ LoggedIn
  BY <1>1 DEF LoggedOut, LoggedIn
<1>6. Alone
  BY <1>1 DEF Alone, Running, NullUser
<1>7. EndsIn("auth", {store.auth}) /\ EndsIn("roles", {store.roles})
  BY <1>1 DEF EndsIn, EndsFrom, Writes
<1>8. Whole(store.auth, store.roles)
  BY <1>1, <1>2, <1>7 DEF Whole, ReadsBoth
<1>9. store.auth \in Tokens /\ store.roles \in Roles
  BY <1>1
<1> QED
  BY <1>3, <1>4, <1>5, <1>6, <1>8, <1>9 DEF Inv

LEMMA NextInv == Inv /\ [Next]_vars => Inv'
BY TypeStep, ReadersReadStep, LoggedOutStep, LoggedInStep, WholeStep DEF Inv

\* What every state of every behaviour satisfies.
THEOREM Invariance == Spec => []Inv
BY InitInv, NextInv, PTL DEF Spec

\* Type correctness: NotifiStorage, the storage requests, the JWT, userState and
\* every activation of initialize, logIn and logOut keep to their types.
THEOREM TypeCorrect == Spec => []TypeOK
<1>1. Inv => TypeOK
  BY DEF Inv
<1> QED
  BY <1>1, Invariance, PTL

\* The user's last word stands, for any number of activations of initialize,
\* logIn and logOut that overlap, and whenever the page is closed.
THEOREM LastWordStandsTheorem == Spec => []LastWordStands
<1>1. Inv => LastWordStands
  <2> SUFFICES ASSUME Inv PROVE LastWordStands
    OBVIOUS
  <2>1. ASSUME queue = <<>>, NEW key, NEW V, EndsIn(key, V)
        PROVE  store[key] \in V
    BY <2>1, EndsWithoutWrites DEF Inv, TypeOK
  <2>2. left => jwt = None /\ EndsIn("auth", {None}) /\ EndsIn("roles", {None})
    BY FoundEnds DEF Inv, LoggedOut
  <2>3. left /\ queue = <<>> => store["auth"] \in {None} /\ store["roles"] \in {None}
    BY <2>1, <2>2
  <2>4. kept /\ queue = <<>> => store["auth"] \in Token
    BY <2>1 DEF Inv, LoggedIn
  <2> QED
    BY <2>2, <2>3, <2>4, TokensAre DEF LastWordStands
<1> QED
  BY <1>1, Invariance, PTL

\* Unless activations overlapped or a write was lost, token, roles, storage and
\* userState belong together.
THEOREM SessionIsWholeTheorem == Spec => []SessionIsWhole
<1>1. Inv => SessionIsWhole
  <2> SUFFICES ASSUME Inv, ~tangled PROVE
        /\ user.status = "authenticated" => user.roles = user.auth.login
        /\ AtRest => jwt \in {None, store.auth}
    BY DEF SessionIsWhole
  <2>1. Alone
    BY DEF Inv
  <2>2. PICK a \in Tokens, r \in Roles : Whole(a, r)
    BY DEF Inv
  <2>3. AtRest => store["auth"] \in {a}
    BY <2>2, EndsWithoutWrites DEF Inv, TypeOK, AtRest, Whole
  <2> QED
    BY <2>1, <2>2, <2>3 DEF Alone, Whole
<1> QED
  BY <1>1, Invariance, PTL
=============================================================================
