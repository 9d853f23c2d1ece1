---------------------------- MODULE HookSession ----------------------------
(***************************************************************************)
(* The session of the React hook useNotifiClient: the effect that restores *)
(* it from local storage when the hook mounts or its wallet changes, log   *)
(* in, log out, and the cached user data they show.                        *)
(*                                                                         *)
(* Every one of them is an async function that goes on after the wallet,   *)
(* the stored token or the JWT of the service has changed: the effect is   *)
(* not cancelled, and the service and the fetch state are shared by all    *)
(* wallets. A storage call takes effect when it is issued (the browser     *)
(* runs them in order) and its result arrives later. The fetch of the user *)
(* data is the one of FetchCache, with one request instead of ten; a       *)
(* forced fetch is not modelled here.                                      *)
(***************************************************************************)
EXTENDS Naturals

CONSTANTS
  Wallets,   \* the wallets (with dapp and environment: storage key prefixes)
  Tasks,     \* activations of the effect, of logIn and of logOut
  MaxStarts, \* bound: activations
  MaxNow,    \* bound: the clock
  Life,      \* for how long a new token is valid
  None, Failed

ASSUME HookSessionAssumption ==
  /\ MaxStarts \in Nat /\ MaxNow \in Nat /\ Life \in Nat \ {0}
  /\ Wallets # {} /\ Tasks # {}
  /\ None \notin Wallets /\ Failed \notin Wallets
  /\ None \notin [of : Wallets, exp : Nat]

VARIABLES
  wallet,  \* config.walletPublicKey of the last render
  oldKey,  \* storage under the key of earlier versions: a bare token
  store,   \* storage under the key now in use: token with expiry
  jwt,     \* the token the service sends along
  cell,    \* fetchDataRef: nothing, a fetch by a token, its data or its failure
  flags,   \* isAuthenticated, isInitialized, isTokenExpired
  shown,   \* internalData: the wallet whose data it is
  tasks,   \* the running activations
  starts,  \* the number of activations
  now,     \* the clock
  mishaps  \* history since the page was loaded: "overlap" of activations, a
           \* log-in that "failed", before or after it got its token; "earlier"
           \* stands for an overlap before the page was loaded

vars == <<wallet, oldKey, store, jwt, cell, flags, shown, tasks, starts, now, mishaps>>

Token == [of : Wallets, exp : 0 .. MaxNow + Life]
Tokens == Token \cup {None}

Cells == [state : {"empty"}, by : {None}] \cup [state : {"pending"}, by : Tokens]
           \cup [state : {"ready"}, by : Token] \cup [state : {"failed"}, by : {None}]
Empty == [state |-> "empty", by |-> None]

Pcs == {"idle", "readOld", "removeOld", "writeNew", "readNew", "refresh", "data",
        "login", "logout"}

Task == [pc : Pcs, kind : {"load", "login", "logout"}, w : Wallets,
         tok : Tokens, res : Wallets \cup {None, Failed}]

Expired(tok) == tok.exp <= now

\* Less than a week remaining.
Soon(tok) == tok.exp = now + 1

Flags == [authenticated : BOOLEAN, initialized : BOOLEAN, expired : BOOLEAN]
Running == {t \in Tasks : tasks[t].pc # "idle"}

\* A page that has just been opened: the effect runs.
Loading(w) == [pc |-> "readOld", kind |-> "load", w |-> w, tok |-> oldKey[w], res |-> None]
Idle(w) == [pc |-> "idle", kind |-> "load", w |-> w, tok |-> None, res |-> None]
NoFlags == [authenticated |-> FALSE, initialized |-> FALSE, expired |-> FALSE]

Init ==
  /\ wallet \in Wallets
  /\ oldKey \in [Wallets -> Tokens] /\ store \in [Wallets -> Tokens]
  /\ \A w \in Wallets :
       /\ oldKey[w] # None => oldKey[w] = [of |-> w, exp |-> 0] /\ store[w] = None
       /\ store[w] # None => store[w].of = w /\ store[w].exp <= Life
  /\ jwt = None /\ cell = Empty /\ flags = NoFlags /\ shown = None
  /\ \E t \in Tasks :
       tasks = [u \in Tasks |-> IF u = t THEN Loading(wallet) ELSE Idle(wallet)]
  /\ starts = 0 /\ now = 0 /\ mishaps = {}

-----------------------------------------------------------------------------
(* Helpers *)

Becomes(t, r) == tasks' = [tasks EXCEPT ![t] = r]

\* Activation t, now r, issues a storage read or a request and waits at pc.
Waits(t, r, pc, tok) == Becomes(t, [r EXCEPT !.pc = pc, !.tok = tok])

End(t) == Becomes(t, Idle(tasks[t].w))

\* Mutants: the token goes to the storage of the wallet of the last render;
\* it is not stored at all.
StoreForCurrent(w, tok) == [store EXCEPT ![wallet] = tok]
StoreNothing(w, tok) == store

\* setAuthorization of the storage of w.
Store(w, tok) == [store EXCEPT ![w] = tok]

\* fetchDataImpl with the token the service has by now: start a fetch, join
\* the one that runs, or take the data or the failure that is there.
FetchData(t, tok) ==
  LET r == [tasks[t] EXCEPT !.pc = "data", !.tok = None] IN
  \/ /\ cell.state = "empty"
     /\ cell' = [state |-> "pending", by |-> tok]
     /\ Becomes(t, r)
  \/ /\ cell.state = "pending" /\ UNCHANGED cell
     /\ Becomes(t, r)
  \/ /\ cell.state = "ready" /\ UNCHANGED cell
     /\ Becomes(t, [r EXCEPT !.res = cell.by.of])
  \/ /\ cell.state = "failed" /\ UNCHANGED cell
     /\ Becomes(t, [r EXCEPT !.res = Failed])

-----------------------------------------------------------------------------
(* Starting *)

Starts(t) ==
  /\ tasks[t].pc = "idle"
  /\ starts < MaxStarts /\ starts' = starts + 1
  /\ mishaps' = IF Running = {} THEN mishaps ELSE mishaps \cup {"overlap"}
  /\ UNCHANGED now

\* The wallet changes: the effect runs again, for the new wallet.
ChangeWallet(t) ==
  /\ Starts(t)
  /\ \E w \in Wallets \ {wallet} :
       /\ wallet' = w
       /\ Becomes(t, Loading(w))
  /\ flags' = [flags EXCEPT !.initialized = FALSE]
  /\ UNCHANGED <<oldKey, store, jwt, cell, shown>>

\* logIn or completeLoginViaTransaction: signature and request.
LogIn(t) ==
  /\ Starts(t)
  /\ Becomes(t, [Idle(wallet) EXCEPT !.kind = "login", !.pc = "login"])
  /\ UNCHANGED <<wallet, oldKey, store, jwt, cell, flags, shown>>

LogOut(t) ==
  /\ Starts(t)
  /\ jwt' = None
  /\ store' = Store(wallet, None)
  /\ Becomes(t, [Idle(wallet) EXCEPT !.kind = "logout", !.pc = "logout"])
  /\ UNCHANGED <<wallet, oldKey, cell, flags, shown>>

\* The page is closed, at any moment, and opened again.
Reload(t) ==
  /\ starts < MaxStarts /\ starts' = starts + 1
  /\ tasks' = [u \in Tasks |-> IF u = t THEN Loading(wallet) ELSE Idle(wallet)]
  /\ jwt' = None /\ cell' = Empty /\ flags' = NoFlags /\ shown' = None
  /\ mishaps' = IF mishaps \cap {"overlap", "earlier"} = {} THEN {} ELSE {"earlier"}
  /\ UNCHANGED <<wallet, oldKey, store, now>>

-----------------------------------------------------------------------------
(* The initial load *)

At(t, pc) ==
  tasks[t].pc = pc /\ UNCHANGED <<wallet, starts, now>>

\* Mutant: the token under the old key is copied, not moved.
OldKeyKept(w) == oldKey

OldKeyRemoved(w) == [oldKey EXCEPT ![w] = None]

\* The old key is read first; what it holds is moved to the new one.
AfterReadOld(t) ==
  LET w == tasks[t].w IN
  /\ At(t, "readOld")
  /\ \/ /\ tasks[t].tok = None
        /\ Waits(t, tasks[t], "readNew", store[w])
        /\ UNCHANGED oldKey
     \/ /\ tasks[t].tok # None
        /\ Waits(t, tasks[t], "removeOld", tasks[t].tok)
        /\ oldKey' = OldKeyRemoved(w)
  /\ UNCHANGED <<store, jwt, cell, flags, shown, mishaps>>

\* Its expiry is unknown and taken to be a minute ago.
AfterRemoveOld(t) ==
  /\ At(t, "removeOld")
  /\ store' = Store(tasks[t].w, [of |-> tasks[t].tok.of, exp |-> 0])
  /\ Waits(t, tasks[t], "writeNew", None)
  /\ UNCHANGED <<oldKey, jwt, cell, flags, shown, mishaps>>

AfterWriteNew(t) ==
  /\ At(t, "writeNew")
  /\ Waits(t, tasks[t], "readNew", store[tasks[t].w])
  /\ UNCHANGED <<oldKey, store, jwt, cell, flags, shown, mishaps>>

\* No token, an expired one, one to refresh, a good one.
AfterReadNew(t) ==
  LET tok == tasks[t].tok IN
  /\ At(t, "readNew")
  /\ jwt' = IF tok = None THEN jwt ELSE tok
  /\ \/ /\ tok = None
        /\ flags' = [authenticated |-> FALSE, initialized |-> TRUE, expired |-> FALSE]
        /\ End(t) /\ UNCHANGED cell
     \/ /\ tok # None /\ Expired(tok)
        /\ flags' = [authenticated |-> FALSE, initialized |-> TRUE, expired |-> TRUE]
        /\ End(t) /\ UNCHANGED cell
     \/ /\ tok # None /\ ~Expired(tok) /\ Soon(tok)
        /\ Waits(t, tasks[t], "refresh", tok)
        /\ UNCHANGED <<cell, flags>>
     \/ /\ tok # None /\ ~Expired(tok) /\ ~Soon(tok)
        /\ flags' = [flags EXCEPT !.authenticated = TRUE]
        /\ FetchData(t, tok)
  /\ UNCHANGED <<oldKey, store, shown, mishaps>>

\* Errors of the refresh are ignored: the token is still good.
NotRefreshed == [flags EXCEPT !.authenticated = TRUE]

\* refreshAuthorization, sent with the token just read.
AfterRefresh(t) ==
  LET new == [of |-> tasks[t].tok.of, exp |-> now + Life] IN
  /\ At(t, "refresh")
  /\ \/ /\ ~Expired(tasks[t].tok)
        /\ jwt' = new
        /\ store' = Store(tasks[t].w, new)
        /\ flags' = [flags EXCEPT !.authenticated = TRUE, !.expired = FALSE]
        /\ FetchData(t, new)
     \/ /\ flags' = NotRefreshed
        /\ FetchData(t, jwt)
        /\ UNCHANGED <<jwt, store>>
  /\ UNCHANGED <<oldKey, shown, mishaps>>

\* Mutants: the result of the fetch is shown whatever it is; the hook is
\* initialized only by a load that got its data.
ShowAny(res) == res
LoadedIfOk(res) == [flags EXCEPT !.initialized = @ \/ res # Failed]

ShowData(res) == IF res = Failed THEN shown ELSE res
Loaded(res) == [flags EXCEPT !.initialized = TRUE]

\* Whether the load ends well or not, the hook is initialized.
AfterLoadData(t) ==
  /\ tasks[t].kind = "load" /\ tasks[t].res # None
  /\ At(t, "data")
  /\ shown' = ShowData(tasks[t].res)
  /\ flags' = Loaded(tasks[t].res)
  /\ End(t)
  /\ UNCHANGED <<oldKey, store, jwt, cell, mishaps>>

-----------------------------------------------------------------------------
(* Log in and log out *)

\* handleLogInResult: the token goes to the service and to the storage of the
\* wallet that logged in, then the data is fetched.
AfterLogIn(t) ==
  LET new == [of |-> tasks[t].w, exp |-> now + Life] IN
  /\ At(t, "login")
  /\ \/ /\ jwt' = new
        /\ store' = Store(tasks[t].w, new)
        /\ FetchData(t, new)
        /\ UNCHANGED <<flags, mishaps>>
     \/ /\ flags' = [flags EXCEPT !.authenticated = FALSE]   \* no signature, or refused
        /\ mishaps' = mishaps \cup {"failed"}
        /\ End(t)
        /\ UNCHANGED <<store, jwt, cell>>
  /\ UNCHANGED <<oldKey, shown>>

AfterLogInData(t) ==
  LET ok == tasks[t].res # Failed IN
  /\ tasks[t].kind = "login" /\ tasks[t].res # None
  /\ At(t, "data")
  /\ shown' = ShowData(tasks[t].res)
  /\ flags' = [flags EXCEPT !.authenticated = ok]
  /\ mishaps' = IF ok THEN mishaps \ {"failed"} ELSE mishaps \cup {"failed"}
  /\ End(t)
  /\ UNCHANGED <<oldKey, store, jwt, cell>>

\* The token and the roles are removed, in two awaits.
AfterLogOut(t) ==
  /\ At(t, "logout")
  /\ flags' = [flags EXCEPT !.authenticated = FALSE]
  /\ shown' = None
  /\ End(t)
  /\ UNCHANGED <<oldKey, store, jwt, cell, mishaps>>

-----------------------------------------------------------------------------
(* The service answers the fetch by the token it was sent with; the data is  *)
(* used for a second, a failure for ever.                                    *)

Settle(res) ==
  /\ tasks' = [t \in Tasks |->
                 IF tasks[t].pc = "data" /\ tasks[t].res = None
                 THEN [tasks[t] EXCEPT !.res = res] ELSE tasks[t]]
  /\ UNCHANGED <<wallet, oldKey, store, jwt, flags, shown, starts, now, mishaps>>

FetchOk ==
  /\ cell.state = "pending" /\ cell.by # None
  /\ ~Expired(cell.by)
  /\ cell' = [cell EXCEPT !.state = "ready"]
  /\ Settle(cell.by.of)

FetchFails ==
  /\ cell.state = "pending"
  /\ cell' = [state |-> "failed", by |-> None]
  /\ Settle(Failed)

CacheExpires ==
  /\ cell.state = "ready" /\ cell' = Empty
  /\ UNCHANGED <<wallet, oldKey, store, jwt, flags, shown, tasks, starts, now, mishaps>>

Tick ==
  /\ now < MaxNow /\ now' = now + 1
  /\ UNCHANGED <<wallet, oldKey, store, jwt, cell, flags, shown, tasks, starts, mishaps>>

LoadStep(t) ==
  \/ AfterReadOld(t) \/ AfterRemoveOld(t) \/ AfterWriteNew(t) \/ AfterReadNew(t)
  \/ AfterRefresh(t) \/ AfterLoadData(t)

Start(t) == ChangeWallet(t) \/ LogIn(t) \/ LogOut(t) \/ Reload(t)

Next ==
  \/ \E t \in Tasks :
       Start(t) \/ LoadStep(t) \/ AfterLogIn(t) \/ AfterLogInData(t) \/ AfterLogOut(t)
  \/ FetchOk \/ FetchFails \/ CacheExpires \/ Tick

Spec == Init /\ [][Next]_vars

-----------------------------------------------------------------------------
(* Properties *)

TypeOK ==
  /\ wallet \in Wallets /\ shown \in Wallets \cup {None}
  /\ oldKey \in [Wallets -> Tokens] /\ store \in [Wallets -> Tokens]
  /\ jwt \in Tokens /\ cell \in Cells /\ flags \in Flags
  /\ tasks \in [Tasks -> Task]
  /\ starts \in 0 .. MaxStarts /\ now \in 0 .. MaxNow
  /\ mishaps \subseteq {"overlap", "failed", "earlier"}

\* Whatever overlaps - a load that outlives its wallet, a refresh or a log-in
\* answered after the wallet has changed - the token stored for a wallet was
\* issued to that wallet: each activation writes to the storage it started with.
StoredTokenIsOwn ==
  \A w \in Wallets :
    /\ store[w] # None => store[w].of = w
    /\ oldKey[w] # None => oldKey[w].of = w

Quiet == Running = {}

\* When nothing runs and, since the page was loaded, no two activations ever
\* overlapped, isAuthenticated means that the service sends the token that is
\* stored for the current wallet: requests and the next page load use one token.
AuthenticatedByStoredToken ==
  Quiet /\ "overlap" \notin mishaps /\ flags.authenticated =>
    jwt # None /\ jwt = store[wallet]

\* Whatever failed and whatever overlapped, once nothing runs the hook is
\* initialized, which is what every card waits for. And if nothing overlapped
\* a stored token that had not expired is used: the user is logged in, unless
\* a log-in failed (also one that got its token and then no data, or that was
\* cancelled by a user who was logged in).
LoadConcludes ==
  Quiet =>
    /\ flags.initialized
    /\ mishaps \subseteq {"earlier"} /\ store[wallet] # None =>
         flags.authenticated \/ Expired(store[wallet])

\* A token is somewhere in storage, or in the hands of a migration.
Kept(w) ==
  \/ oldKey[w] # None \/ store[w] # None
  \/ \E t \in Tasks : tasks[t].pc = "removeOld" /\ tasks[t].w = w

Reloads == \E t \in Tasks : Reload(t)

\* The migration of the old storage key loses no token: only a log-out, or
\* closing the page between its two writes, does. And a stored token is
\* replaced only by one that lives longer, unless two activations overlapped
\* once: a log-in while a load is reading the old key leaves both keys, and
\* that load, or the next one, overwrites the new token by the migrated one.
TokenKept ==
  [][\A w \in Wallets :
       /\ Kept(w) /\ ~Kept(w)' => (w = wallet /\ \E t \in Tasks : LogOut(t)) \/ Reloads
       /\ store[w] # None /\ store'[w] # None /\ store[w] # store'[w]
            /\ mishaps' \cap {"overlap", "earlier"} = {}
          => store'[w].exp > store[w].exp]_vars

\* What the documentation of the hook says of data: the values stored for the
\* user who is logged in.
ShownIsOwn ==
  Quiet /\ "overlap" \notin mishaps /\ flags.authenticated /\ shown # None =>
    shown = wallet

=============================================================================
