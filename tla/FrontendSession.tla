--------------------------- MODULE FrontendSession ---------------------------
(***************************************************************************)
(* The session of one NotifiFrontendClient, for one wallet: initialize     *)
(* restores it from storage, logIn and logOut change it. It is in three    *)
(* places that no operation changes together: the storage, the JWT of the  *)
(* NotifiService, and userState, which the cards look at.                  *)
(*                                                                         *)
(* Storage requests are carried out in the order they are issued, each     *)
(* some time later; the page may be closed with requests still waiting.    *)
(* The service answers a refresh only if the request carried a valid       *)
(* token, for nothing else in it says who asks.                            *)
(***************************************************************************)
EXTENDS Naturals, Sequences

CONSTANTS
  Tasks,      \* activations of initialize, logIn and logOut
  MaxStarts,  \* bound: activations
  MaxNow,     \* bound: the clock
  Life,       \* for how long a new token is valid
  None

ASSUME FrontendSessionAssumption ==
  /\ MaxStarts \in Nat /\ MaxNow \in Nat /\ Life \in Nat \ {0}
  /\ None \notin Nat /\ None \notin [login : Nat, exp : Nat]

VARIABLES
  store,   \* NotifiStorage: authorization and roles
  queue,   \* the storage requests that wait
  jwt,     \* the token the service sends along
  user,    \* userState
  tasks,   \* the running activations
  logins,  \* the number of log-ins the service has granted
  starts,  \* the number of activations
  now,     \* the clock
  tangled, \* history: activations have overlapped, or a write was lost
  left,    \* history: logged out with nothing else going on, no logIn since
  kept,    \* history: logged in, no logOut since
  fresh,   \* history: logIn has just returned, with nothing else going on
  page     \* history: alternates with each reload

vars == <<store, queue, jwt, user, tasks, logins, starts, now, tangled, left, kept, fresh, page>>
history == <<tangled, left, kept, fresh, page>>

\* A token, and the roles, are told apart by the log-in that granted them.
Logins == 0 .. MaxStarts
Token == [login : Logins, exp : 0 .. MaxNow + Life]
Tokens == Token \cup {None}
Roles == Logins \cup {None}

User == [status : {"null", "loggedOut", "authenticated", "expired"}, auth : Tokens, roles : Roles]
NullUser == [status |-> "null", auth |-> None, roles |-> None]

Task == [pc : {"idle", "read", "refresh", "login", "store"},
         auth : Tokens, roles : Roles,  \* what was read
         sent : Tokens]                 \* the JWT the refresh was sent with
Idle == [pc |-> "idle", auth |-> None, roles |-> None, sent |-> None]
Running == {t \in Tasks : tasks[t].pc # "idle"}

Get(key, t) == [op |-> "get", key |-> key, val |-> None, by |-> t]
Set(key, val, t) == [op |-> "set", key |-> key, val |-> val, by |-> t]
Keys == {"auth", "roles"}
Requests == [op : {"get"}, key : Keys, val : {None}, by : Tasks]
              \cup [op : {"set"}, key : {"auth"}, val : Tokens, by : Tasks \cup {None}]
              \cup [op : {"set"}, key : {"roles"}, val : Roles, by : Tasks]

\* The requests t waits for have been carried out.
Done(t) == \A i \in DOMAIN queue : queue[i].by # t
WritesWait == \E i \in DOMAIN queue : queue[i].op = "set"
AtRest == Running = {} /\ queue = <<>>

Expired(token) == token.exp <= now
\* Less than a week remaining.
Soon(token) == token.exp = now + 1

Init ==
  /\ store \in [auth : Tokens, roles : Roles]
  /\ \/ store.auth = None /\ store.roles = None
     \/ store.auth # None /\ store.roles = 0 /\ store.auth.login = 0 /\ store.auth.exp <= Life
  /\ queue = <<>> /\ jwt = None /\ user = NullUser
  /\ tasks = [t \in Tasks |-> Idle]
  /\ logins = 0 /\ starts = 0 /\ now = 0
  /\ tangled = FALSE /\ left = FALSE /\ kept = FALSE /\ fresh = FALSE /\ page = 0

-----------------------------------------------------------------------------

Starts(t) ==
  /\ tasks[t].pc = "idle" /\ starts < MaxStarts
  /\ starts' = starts + 1
  /\ tangled' = (tangled \/ Running # {})
  /\ fresh' = FALSE /\ UNCHANGED page

Becomes(t, pc) == tasks' = [tasks EXCEPT ![t].pc = pc]
End(t) == tasks' = [tasks EXCEPT ![t] = Idle]

\* The storage carries out its next request.
StorageStep ==
  /\ queue # <<>>
  /\ queue' = Tail(queue)
  /\ LET r == Head(queue) IN
       \/ r.op = "set" /\ store' = [store EXCEPT ![r.key] = r.val] /\ UNCHANGED tasks
       \/ /\ r.op = "get" /\ UNCHANGED store
          /\ tasks' = [tasks EXCEPT ![r.by] = [@ EXCEPT ![r.key] = store[r.key]]]
  /\ UNCHANGED <<jwt, user, logins, starts, now, history>>

-----------------------------------------------------------------------------
(* initialize                                                              *)

Initialize(t) ==
  /\ Starts(t)
  /\ tasks' = [tasks EXCEPT ![t] = [Idle EXCEPT !.pc = "read"]]
  /\ queue' = queue \o <<Get("auth", t), Get("roles", t)>>
  /\ UNCHANGED <<store, jwt, user, logins, now, left, kept>>

HasRead(t) == tasks[t].pc = "read" /\ Done(t)

\* setJwt and userState change together; roles are those read in the beginning.
Restores(status, token, auth, roles) ==
  /\ jwt' = token
  /\ user' = [status |-> status, auth |-> auth, roles |-> roles]

NothingStored(t) ==
  /\ HasRead(t) /\ tasks[t].auth = None
  /\ Restores("loggedOut", None, None, None)
  /\ End(t)
  /\ UNCHANGED <<store, queue, logins, starts, now, history>>

StoredExpired(t) ==
  /\ HasRead(t) /\ tasks[t].auth # None /\ Expired(tasks[t].auth)
  /\ Restores("expired", None, tasks[t].auth, None)
  /\ End(t)
  /\ UNCHANGED <<store, queue, logins, starts, now, history>>

\* Mutant: the error of the refresh is not caught.
Throws(t) == UNCHANGED <<jwt, user>>

\* The token that was read is used as long as it is valid.
UsesStored(t) == Restores("authenticated", tasks[t].auth, tasks[t].auth, tasks[t].roles)

StoredValid(t) ==
  /\ HasRead(t) /\ tasks[t].auth # None /\ ~Expired(tasks[t].auth) /\ ~Soon(tasks[t].auth)
  /\ UsesStored(t)
  /\ End(t)
  /\ UNCHANGED <<store, queue, logins, starts, now, history>>

\* The refresh is sent before setJwt: with the JWT the service happens to have.
StoredExpiresSoon(t) ==
  /\ HasRead(t) /\ tasks[t].auth # None /\ Soon(tasks[t].auth)
  /\ tasks' = [tasks EXCEPT ![t] = [@ EXCEPT !.pc = "refresh", !.sent = jwt]]
  /\ UNCHANGED <<store, queue, jwt, user, logins, starts, now, history>>

\* Mutant: the fresh token is written to storage only in part.
RefreshedInPart(token) == Append(queue, Set("auth", [token EXCEPT !.login = None], None))

\* setAuthorization of the new token is not awaited.
RefreshedStored(token) == Append(queue, Set("auth", token, None))

Refreshed(t) ==
  /\ tasks[t].pc = "refresh" /\ tasks[t].sent # None /\ ~Expired(tasks[t].sent)
  /\ LET token == [login |-> tasks[t].sent.login, exp |-> now + Life] IN
       /\ queue' = RefreshedStored(token)
       /\ Restores("authenticated", token, token, tasks[t].roles)
  /\ End(t)
  /\ UNCHANGED <<store, logins, starts, now, history>>

\* Mutant: a token that cannot be refreshed is given up.
GivesUp(t) == Append(queue, Set("auth", None, None))

\* Nothing is written when the refresh fails.
KeepsStored(t) == queue

RefreshFails(t) ==
  /\ tasks[t].pc = "refresh"
  /\ queue' = KeepsStored(t)
  /\ UsesStored(t)
  /\ End(t)
  /\ UNCHANGED <<store, logins, starts, now, history>>

-----------------------------------------------------------------------------
(* logIn and logOut                                                        *)

\* The wallet signs, then logInFromDapp is sent.
LogIn(t) ==
  /\ Starts(t)
  /\ tasks' = [tasks EXCEPT ![t] = [Idle EXCEPT !.pc = "login"]]
  /\ left' = FALSE
  /\ UNCHANGED <<store, queue, jwt, user, logins, now, kept>>

\* Mutant: only the authorization is saved.
SavesAuthorization(t, token) == <<Set("auth", token, t)>>

\* _handleLogInResult
SavesResult(t, token) == <<Set("auth", token, t), Set("roles", token.login, t)>>

\* The service takes the token over when the answer is there; userState is left
\* as it is.
LogInAnswered(t) ==
  /\ tasks[t].pc = "login" /\ logins < MaxStarts
  /\ logins' = logins + 1
  /\ LET token == [login |-> logins + 1, exp |-> now + Life] IN
       /\ jwt' = token
       /\ queue' = queue \o SavesResult(t, token)
  /\ Becomes(t, "store")
  /\ kept' = TRUE
  /\ UNCHANGED <<store, user, starts, now, tangled, left, fresh, page>>

\* The user does not sign, or the service refuses.
LogInFails(t) ==
  /\ tasks[t].pc = "login"
  /\ End(t)
  /\ UNCHANGED <<store, queue, jwt, user, logins, starts, now, history>>

\* Both entries are cleared.
ClearsStorage(t) == <<Set("auth", None, t), Set("roles", None, t)>>

\* The JWT is cleared at once, userState not at all.
LogOut(t) ==
  /\ Starts(t)
  /\ Becomes(t, "store")
  /\ queue' = queue \o ClearsStorage(t)
  /\ jwt' = None
  /\ left' = (left \/ Running = {}) /\ kept' = FALSE
  /\ UNCHANGED <<store, user, logins, now>>

\* logIn or logOut returns.
Returns(t) ==
  /\ tasks[t].pc = "store" /\ Done(t)
  /\ End(t)
  /\ fresh' = (kept /\ ~tangled)
  /\ UNCHANGED <<store, queue, jwt, user, logins, starts, now, tangled, left, kept, page>>

-----------------------------------------------------------------------------

\* The page is closed and opened again, with a new client.
Reload ==
  /\ queue' = <<>> /\ jwt' = None /\ user' = NullUser
  /\ tasks' = [t \in Tasks |-> Idle]
  /\ tangled' = (tangled \/ WritesWait)
  /\ left' = (left /\ ~WritesWait) /\ kept' = (kept /\ ~WritesWait)
  /\ fresh' = FALSE /\ page' = 1 - page
  /\ UNCHANGED <<store, logins, starts, now>>

Tick ==
  /\ now < MaxNow /\ now' = now + 1
  /\ UNCHANGED <<store, queue, jwt, user, tasks, logins, starts, history>>

InitializeStep(t) ==
  \/ NothingStored(t) \/ StoredExpired(t) \/ StoredValid(t) \/ StoredExpiresSoon(t)
  \/ Refreshed(t) \/ RefreshFails(t)

Next ==
  \/ StorageStep \/ Reload \/ Tick
  \/ \E t \in Tasks :
       \/ Initialize(t) \/ InitializeStep(t)
       \/ LogIn(t) \/ LogInAnswered(t) \/ LogInFails(t)
       \/ LogOut(t) \/ Returns(t)

Spec == Init /\ [][Next]_vars

\* Storage and service answer in the end.
FairSpec ==
  /\ Spec /\ WF_vars(StorageStep)
  /\ \A t \in Tasks : WF_vars(InitializeStep(t))

-----------------------------------------------------------------------------

\* Every variable keeps to its type (NotifiStorage, UserState).
TypeOK ==
  /\ store \in [auth : Tokens, roles : Roles]
  /\ queue \in Seq(Requests)
  /\ jwt \in Tokens /\ user \in User /\ tasks \in [Tasks -> Task]
  /\ logins \in Logins /\ starts \in 0 .. MaxStarts /\ now \in 0 .. MaxNow
  /\ tangled \in BOOLEAN /\ left \in BOOLEAN /\ kept \in BOOLEAN /\ fresh \in BOOLEAN
  /\ page \in 0 .. 1

\* The user's last word stands. A log-out that was called with nothing else
\* going on is final: until logIn is called again nothing stored is left, no
\* request carries a token, and no initialize, however it overlaps with the
\* log-out or follows a reload, brings the session back. A log-in is not lost:
\* until logOut is called its token, or a newer one, is in storage, whatever
\* initialize does at the same time and however the refresh ends.
LastWordStands ==
  /\ left => jwt = None /\ (queue = <<>> => store.auth = None /\ store.roles = None)
  /\ kept /\ queue = <<>> => store.auth # None

\* Unless calls overlap or a write was lost, the session is of one piece: an
\* authenticated userState has the roles that were granted together with its
\* token, and the service sends the token that a reload would restore, or none.
SessionIsWhole ==
  ~tangled =>
    /\ user.status = "authenticated" => user.roles = user.auth.login
    /\ AtRest => jwt \in {None, store.auth}

\* "client should be authenticated now" (README of the frontend client, after
\* logIn): of a client that was initialized, userState says so when logIn has
\* returned and nothing else goes on.
AuthenticatedAfterLogIn == fresh /\ user.status # "null" => user.status = "authenticated"

\* "User is already logged in" (same place, when userState is authenticated):
\* then requests do carry a token. Not kept by the code: logOut leaves
\* userState as it was (see the README).
AuthenticatedSendsToken == AtRest /\ user.status = "authenticated" => jwt # None

\* Cards wait for userState: it is there some time after initialize was called,
\* also when the refresh fails, unless the page is closed.
InitializeEnds ==
  \A t \in Tasks, p \in 0 .. 1 :
    tasks[t].pc = "read" /\ page = p ~> user.status # "null" \/ page # p
=============================================================================
