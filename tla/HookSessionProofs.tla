------------------------- MODULE HookSessionProofs -------------------------
(***************************************************************************)
(* Proofs about HookSession, for every set of wallets and activations and  *)
(* all bounds: type correctness, that the token stored for a wallet was    *)
(* issued to it, that isAuthenticated means what it says when nothing      *)
(* overlapped, what a load leaves behind, and what becomes of a token.     *)
(*                                                                         *)
(* And about TransactionLogin, the other way in, whose specification is    *)
(* LoginSpec: for any calls and any bound, type correctness and the        *)
(* undisturbed log-in for both clients, and for the frontend client the    *)
(* two promises that its early clearing of the uuid makes possible. The    *)
(* two specifications share no variable.                                   *)
(***************************************************************************)
EXTENDS HookSession, TransactionLogin, TLAPS

\* A token an activation carries was issued to its wallet; a migration and a
\* refresh carry one.
TaskTokens ==
  \A t \in Tasks :
    /\ tasks[t].tok # None => tasks[t].tok.of = tasks[t].w
    /\ tasks[t].pc \in {"removeOld", "refresh"} => tasks[t].tok # None

Inv == TypeOK /\ StoredTokenIsOwn /\ TaskTokens

\* Changing one activation keeps the type and TaskTokens.
LEMMA TaskStep ==
  ASSUME tasks \in [Tasks -> Task], TaskTokens, NEW t \in Tasks, NEW r \in Task,
         r.tok # None => r.tok.of = r.w,
         r.pc \in {"removeOld", "refresh"} => r.tok # None,
         Becomes(t, r)
  PROVE  tasks' \in [Tasks -> Task] /\ TaskTokens'
<1>1. \A u \in Tasks : tasks'[u] = IF u = t THEN r ELSE tasks[u]
  BY DEF Becomes
<1>2. tasks' \in [Tasks -> Task]
  BY <1>1 DEF Becomes
<1> QED
  BY <1>1, <1>2 DEF TaskTokens

\* fetchDataImpl keeps the types, whatever it finds.
LEMMA FetchStep ==
  ASSUME tasks \in [Tasks -> Task], TaskTokens, cell \in Cells,
         NEW t \in Tasks, NEW tok \in Tokens, FetchData(t, tok)
  PROVE  /\ tasks' \in [Tasks -> Task] /\ TaskTokens'
         /\ cell' \in Cells
<1> DEFINE r == [tasks[t] EXCEPT !.pc = "data", !.tok = None]
<1>1. r \in Task /\ r.tok = None /\ r.pc = "data"
  BY DEF Task, Pcs, Tokens
<1>2. \A x \in Wallets \cup {None, Failed} :
        [r EXCEPT !.res = x] \in Task /\ [r EXCEPT !.res = x].tok = None
          /\ [r EXCEPT !.res = x].pc = "data"
  BY <1>1 DEF Task
<1>3. cell.state = "ready" => cell.by.of \in Wallets
  BY DEF Cells, Token
<1>4. \/ Becomes(t, r) /\ (cell' = cell \/ cell' = [state |-> "pending", by |-> tok])
      \/ \E x \in Wallets \cup {None, Failed} : Becomes(t, [r EXCEPT !.res = x]) /\ cell' = cell
  BY <1>3 DEF FetchData
<1>5. cell' \in Cells
  <2>1. cell' = cell \/ cell' = [state |-> "pending", by |-> tok]
    BY <1>4
  <2>2. [state |-> "pending", by |-> tok] \in Cells
    BY DEF Cells
  <2> QED
    BY <2>1, <2>2
<1> HIDE DEF r
<1>6. CASE Becomes(t, r)
  BY <1>1, <1>5, <1>6, TaskStep
<1>7. CASE \E x \in Wallets \cup {None, Failed} : Becomes(t, [r EXCEPT !.res = x])
  <2>1. PICK x \in Wallets \cup {None, Failed} : Becomes(t, [r EXCEPT !.res = x])
    BY <1>7
  <2> QED
    BY <2>1, <1>2, <1>5, TaskStep
<1> QED
  BY <1>4, <1>6, <1>7

\* Storing a wallet's own token, or none, keeps the storage.
LEMMA StoreStep ==
  ASSUME store \in [Wallets -> Tokens], StoredTokenIsOwn,
         NEW w \in Wallets, NEW tok \in Tokens, tok # None => tok.of = w,
         store' = Store(w, tok), UNCHANGED oldKey
  PROVE  store' \in [Wallets -> Tokens] /\ StoredTokenIsOwn'
<1>1. \A v \in Wallets : store'[v] = IF v = w THEN tok ELSE store[v]
  BY DEF Store
<1>2. store' \in [Wallets -> Tokens]
  BY DEF Store
<1> QED
  BY <1>1, <1>2 DEF StoredTokenIsOwn

LEMMA IdleType ==
  ASSUME NEW w \in Wallets
  PROVE  /\ Idle(w) \in Task /\ Idle(w).tok = None /\ Idle(w).pc = "idle" /\ Idle(w).w = w
BY DEF Idle, Task, Pcs, Tokens

LEMMA LoadingType ==
  ASSUME oldKey \in [Wallets -> Tokens], StoredTokenIsOwn, NEW w \in Wallets
  PROVE  /\ Loading(w) \in Task /\ Loading(w).pc = "readOld"
         /\ Loading(w).tok # None => Loading(w).tok.of = Loading(w).w
BY DEF Loading, Task, Pcs, StoredTokenIsOwn

LEMMA NewToken ==
  ASSUME NEW w \in Wallets, now \in 0 .. MaxNow
  PROVE  /\ [of |-> w, exp |-> now + Life] \in Token
         /\ [of |-> w, exp |-> 0] \in Token
BY HookSessionAssumption DEF Token

LEMMA NewIsToken == \A tok \in Token : tok # None
BY HookSessionAssumption DEF Token

-----------------------------------------------------------------------------
(* The invariant *)

LEMMA InitInv == Init => Inv
<1> SUFFICES ASSUME Init PROVE Inv
  OBVIOUS
<1>1. PICK t \in Tasks : tasks = [u \in Tasks |-> IF u = t THEN Loading(wallet) ELSE Idle(wallet)]
  BY DEF Init
<1>2. oldKey \in [Wallets -> Tokens] /\ StoredTokenIsOwn /\ wallet \in Wallets
  BY DEF Init, StoredTokenIsOwn
<1>3. TypeOK
  BY <1>1, <1>2, IdleType, LoadingType, HookSessionAssumption
     DEF Init, TypeOK, Cells, Empty, Flags, NoFlags, Tokens
<1>4. TaskTokens
  BY <1>1, <1>2, IdleType, LoadingType DEF TaskTokens
<1> QED
  BY <1>2, <1>3, <1>4 DEF Inv

LEMMA StartKeepsInv ==
  ASSUME Inv, NEW t \in Tasks, Start(t)
  PROVE  Inv'
<1> USE DEF Inv
<1>1. starts' \in 0 .. MaxStarts
  BY HookSessionAssumption DEF Start, ChangeWallet, LogIn, LogOut, Reload, Starts, TypeOK
<1>2. CASE ChangeWallet(t)
  <2>1. PICK w \in Wallets : wallet' = w /\ Becomes(t, Loading(w))
    BY <1>2 DEF ChangeWallet
  <2>2. tasks' \in [Tasks -> Task] /\ TaskTokens'
    BY <2>1, TaskStep, LoadingType DEF TypeOK
  <2> QED
    BY <1>1, <1>2, <2>1, <2>2 DEF ChangeWallet, Starts, TypeOK, StoredTokenIsOwn, Flags
<1>3. CASE LogIn(t)
  <2> DEFINE r == [Idle(wallet) EXCEPT !.kind = "login", !.pc = "login"]
  <2>1. r \in Task /\ r.tok = None /\ r.pc = "login"
    BY DEF Idle, Task, Pcs, Tokens, TypeOK
  <2>2. Becomes(t, r)
    BY <1>3 DEF LogIn
  <2> HIDE DEF r
  <2>3. tasks' \in [Tasks -> Task] /\ TaskTokens'
    BY <2>1, <2>2, TaskStep DEF TypeOK
  <2> QED
    BY <1>1, <1>3, <2>3 DEF LogIn, Starts, TypeOK, StoredTokenIsOwn
<1>4. CASE LogOut(t)
  <2> DEFINE r == [Idle(wallet) EXCEPT !.kind = "logout", !.pc = "logout"]
  <2>1. r \in Task /\ r.tok = None /\ r.pc = "logout"
    BY DEF Idle, Task, Pcs, Tokens, TypeOK
  <2>2. Becomes(t, r)
    BY <1>4 DEF LogOut
  <2> HIDE DEF r
  <2>3. tasks' \in [Tasks -> Task] /\ TaskTokens'
    BY <2>1, <2>2, TaskStep DEF TypeOK
  <2>4. store' \in [Wallets -> Tokens] /\ StoredTokenIsOwn'
    BY <1>4, StoreStep DEF LogOut, TypeOK, Tokens
  <2> QED
    BY <1>1, <1>4, <2>3, <2>4 DEF LogOut, Starts, TypeOK, Tokens
<1>5. CASE Reload(t)
  <2>1. tasks' = [u \in Tasks |-> IF u = t THEN Loading(wallet) ELSE Idle(wallet)]
    BY <1>5 DEF Reload
  <2>2. tasks' \in [Tasks -> Task] /\ TaskTokens'
    BY <2>1, IdleType, LoadingType DEF TypeOK, TaskTokens
  <2> QED
    BY <1>1, <1>5, <2>2 DEF Reload, TypeOK, StoredTokenIsOwn, Cells, Empty, Flags, NoFlags, Tokens
<1> QED
  BY <1>2, <1>3, <1>4, <1>5 DEF Start

\* An activation that waits at another point, with another token.
LEMMA WaitsStep ==
  ASSUME tasks \in [Tasks -> Task], TaskTokens, NEW t \in Tasks,
         NEW pc \in Pcs, NEW tok \in Tokens, tok # None => tok.of = tasks[t].w,
         pc \in {"removeOld", "refresh"} => tok # None,
         Waits(t, tasks[t], pc, tok)
  PROVE  tasks' \in [Tasks -> Task] /\ TaskTokens'
<1> DEFINE r == [tasks[t] EXCEPT !.pc = pc, !.tok = tok]
<1>1. r \in Task /\ r.pc = pc /\ r.tok = tok /\ r.w = tasks[t].w
  BY DEF Task
<1>2. Becomes(t, r)
  BY DEF Waits
<1> HIDE DEF r
<1> QED
  BY <1>1, <1>2, TaskStep

LEMMA EndStep ==
  ASSUME tasks \in [Tasks -> Task], TaskTokens, NEW t \in Tasks, End(t)
  PROVE  tasks' \in [Tasks -> Task] /\ TaskTokens'
<1>1. tasks[t].w \in Wallets
  BY DEF Task
<1> QED
  BY <1>1, IdleType, TaskStep DEF End

LEMMA LoadStepKeepsInv ==
  ASSUME Inv, NEW t \in Tasks, LoadStep(t)
  PROVE  Inv'
<1> USE DEF Inv
<1>0. /\ tasks[t] \in Task /\ tasks[t].w \in Wallets /\ tasks[t].tok \in Tokens
      /\ tasks[t].tok # None => tasks[t].tok.of = tasks[t].w
      /\ {"readNew", "removeOld", "writeNew", "refresh"} \subseteq Pcs
  BY DEF TypeOK, Task, TaskTokens, Pcs
<1>1. CASE AfterReadOld(t)
  <2>1. /\ store[tasks[t].w] \in Tokens
        /\ store[tasks[t].w] # None => store[tasks[t].w].of = tasks[t].w
    BY <1>0 DEF TypeOK, StoredTokenIsOwn
  <2>2. \/ Waits(t, tasks[t], "readNew", store[tasks[t].w])
        \/ tasks[t].tok # None /\ Waits(t, tasks[t], "removeOld", tasks[t].tok)
    BY <1>1 DEF AfterReadOld
  <2>3. tasks' \in [Tasks -> Task] /\ TaskTokens'
    BY <1>0, <2>1, <2>2, WaitsStep DEF TypeOK
  <2>4. oldKey' = oldKey \/ oldKey' = [oldKey EXCEPT ![tasks[t].w] = None]
    BY <1>1 DEF AfterReadOld, OldKeyRemoved
  <2>5. oldKey' \in [Wallets -> Tokens] /\ StoredTokenIsOwn'
    BY <1>0, <1>1, <2>4 DEF AfterReadOld, TypeOK, StoredTokenIsOwn, Tokens
  <2> QED
    BY <1>1, <2>3, <2>5 DEF AfterReadOld, At, TypeOK
<1>2. CASE AfterRemoveOld(t)
  <2> DEFINE tok == [of |-> tasks[t].tok.of, exp |-> 0]
  <2>1. tasks[t].tok # None
    BY <1>2 DEF AfterRemoveOld, At, TaskTokens
  <2>2. tok \in Tokens /\ tok.of = tasks[t].w
    BY <1>0, <2>1, NewToken DEF TypeOK, Tokens
  <2>3. store' = Store(tasks[t].w, tok) /\ Waits(t, tasks[t], "writeNew", None)
        /\ UNCHANGED oldKey
    BY <1>2 DEF AfterRemoveOld
  <2> HIDE DEF tok
  <2>4. store' \in [Wallets -> Tokens] /\ StoredTokenIsOwn'
    BY <1>0, <2>2, <2>3, StoreStep DEF TypeOK
  <2>5. tasks' \in [Tasks -> Task] /\ TaskTokens'
    BY <1>0, <2>3, WaitsStep DEF TypeOK, Tokens
  <2> QED
    BY <1>2, <2>4, <2>5 DEF AfterRemoveOld, At, TypeOK
<1>3. CASE AfterWriteNew(t)
  <2>1. /\ store[tasks[t].w] \in Tokens
        /\ store[tasks[t].w] # None => store[tasks[t].w].of = tasks[t].w
    BY <1>0 DEF TypeOK, StoredTokenIsOwn
  <2>2. tasks' \in [Tasks -> Task] /\ TaskTokens'
    BY <1>0, <1>3, <2>1, WaitsStep DEF AfterWriteNew, TypeOK
  <2> QED
    BY <1>3, <2>2 DEF AfterWriteNew, At, TypeOK, StoredTokenIsOwn
<1>4. CASE AfterReadNew(t)
  <2>0. \A b, e \in BOOLEAN :
          /\ [authenticated |-> b, initialized |-> TRUE, expired |-> e] \in Flags
          /\ [flags EXCEPT !.authenticated = b] \in Flags
    BY DEF TypeOK, Flags
  <2>1. jwt' \in Tokens /\ flags' \in Flags
    <3>1. jwt' \in Tokens
      BY <1>0, <1>4 DEF AfterReadNew, TypeOK
    <3>2. \/ flags' = [authenticated |-> FALSE, initialized |-> TRUE, expired |-> FALSE]
          \/ flags' = [authenticated |-> FALSE, initialized |-> TRUE, expired |-> TRUE]
          \/ flags' = flags
          \/ flags' = [flags EXCEPT !.authenticated = TRUE]
      BY <1>4 DEF AfterReadNew
    <3> QED
      BY <2>0, <3>1, <3>2 DEF TypeOK
  <2>2. tasks' \in [Tasks -> Task] /\ TaskTokens' /\ cell' \in Cells
    <3>1. \/ End(t) /\ UNCHANGED cell
          \/ tasks[t].tok # None /\ Waits(t, tasks[t], "refresh", tasks[t].tok) /\ UNCHANGED cell
          \/ FetchData(t, tasks[t].tok)
      BY <1>4 DEF AfterReadNew
    <3>2. CASE End(t) /\ UNCHANGED cell
      BY <3>2, EndStep DEF TypeOK
    <3>3. CASE tasks[t].tok # None /\ Waits(t, tasks[t], "refresh", tasks[t].tok) /\ UNCHANGED cell
      BY <1>0, <3>3, WaitsStep DEF TypeOK
    <3>4. CASE FetchData(t, tasks[t].tok)
      BY <1>0, <3>4, FetchStep DEF TypeOK
    <3> QED
      BY <3>1, <3>2, <3>3, <3>4
  <2> QED
    BY <1>4, <2>1, <2>2 DEF AfterReadNew, At, TypeOK, StoredTokenIsOwn
<1>5. CASE AfterRefresh(t)
  <2> DEFINE new == [of |-> tasks[t].tok.of, exp |-> now + Life]
  <2>1. tasks[t].tok # None
    BY <1>5 DEF AfterRefresh, At, TaskTokens
  <2>2. new \in Tokens /\ new.of = tasks[t].w
    BY <1>0, <2>1, NewToken DEF TypeOK, Tokens
  <2>3. flags' \in Flags /\ UNCHANGED oldKey
    BY <1>5 DEF AfterRefresh, NotRefreshed, TypeOK, Flags
  <2>4. \/ jwt' = new /\ store' = Store(tasks[t].w, new) /\ FetchData(t, new)
        \/ FetchData(t, jwt) /\ UNCHANGED <<jwt, store>>
    BY <1>5 DEF AfterRefresh
  <2> HIDE DEF new
  <2>5. store' \in [Wallets -> Tokens] /\ StoredTokenIsOwn'
    BY <1>0, <2>2, <2>3, <2>4, StoreStep DEF TypeOK, StoredTokenIsOwn
  <2>6. tasks' \in [Tasks -> Task] /\ TaskTokens' /\ cell' \in Cells /\ jwt' \in Tokens
    BY <2>2, <2>4, FetchStep DEF TypeOK
  <2> QED
    BY <1>5, <2>3, <2>5, <2>6 DEF AfterRefresh, At, TypeOK
<1>6. CASE AfterLoadData(t)
  <2>1. tasks' \in [Tasks -> Task] /\ TaskTokens'
    BY <1>6, EndStep DEF AfterLoadData, TypeOK
  <2>2. shown' \in Wallets \cup {None} /\ flags' \in Flags
    BY <1>0, <1>6 DEF AfterLoadData, ShowData, Loaded, TypeOK, Task, Flags
  <2> QED
    BY <1>6, <2>1, <2>2 DEF AfterLoadData, At, TypeOK, StoredTokenIsOwn
<1> QED
  BY <1>1, <1>2, <1>3, <1>4, <1>5, <1>6 DEF LoadStep

LEMMA LogStepKeepsInv ==
  ASSUME Inv, NEW t \in Tasks, AfterLogIn(t) \/ AfterLogInData(t) \/ AfterLogOut(t)
  PROVE  Inv'
<1> USE DEF Inv
<1>0. tasks[t] \in Task /\ tasks[t].w \in Wallets
  BY DEF TypeOK, Task
<1>1. CASE AfterLogIn(t)
  <2> DEFINE new == [of |-> tasks[t].w, exp |-> now + Life]
  <2>1. new \in Tokens /\ new.of = tasks[t].w
    BY <1>0, NewToken DEF TypeOK, Tokens
  <2>2. flags' \in Flags /\ UNCHANGED oldKey /\ mishaps' \subseteq {"overlap", "failed", "earlier"}
    BY <1>1 DEF AfterLogIn, TypeOK, Flags
  <2>3. \/ jwt' = new /\ store' = Store(tasks[t].w, new) /\ FetchData(t, new)
        \/ End(t) /\ UNCHANGED <<jwt, store, cell>>
    BY <1>1 DEF AfterLogIn
  <2> HIDE DEF new
  <2>4. store' \in [Wallets -> Tokens] /\ StoredTokenIsOwn'
    BY <1>0, <2>1, <2>2, <2>3, StoreStep DEF TypeOK, StoredTokenIsOwn
  <2>5. tasks' \in [Tasks -> Task] /\ TaskTokens' /\ cell' \in Cells /\ jwt' \in Tokens
    BY <2>1, <2>3, FetchStep, EndStep DEF TypeOK
  <2> QED
    BY <1>1, <2>2, <2>4, <2>5 DEF AfterLogIn, At, TypeOK
<1>2. CASE AfterLogInData(t)
  <2>1. tasks' \in [Tasks -> Task] /\ TaskTokens'
    BY <1>2, EndStep DEF AfterLogInData, TypeOK
  <2>2. shown' \in Wallets \cup {None} /\ flags' \in Flags
    BY <1>0, <1>2 DEF AfterLogInData, ShowData, TypeOK, Task, Flags
  <2> QED
    BY <1>2, <2>1, <2>2 DEF AfterLogInData, At, TypeOK, StoredTokenIsOwn
<1>3. CASE AfterLogOut(t)
  <2>1. tasks' \in [Tasks -> Task] /\ TaskTokens'
    BY <1>3, EndStep DEF AfterLogOut, TypeOK
  <2> QED
    BY <1>3, <2>1 DEF AfterLogOut, At, TypeOK, StoredTokenIsOwn, Flags
<1> QED
  BY <1>1, <1>2, <1>3

LEMMA EnvironmentKeepsInv ==
  ASSUME Inv, FetchOk \/ FetchFails \/ CacheExpires \/ Tick
  PROVE  Inv'
<1> USE DEF Inv
<1>1. ASSUME NEW res \in Wallets \cup {None, Failed}, Settle(res)
      PROVE  tasks' \in [Tasks -> Task] /\ TaskTokens'
  <2>1. \A u \in Tasks :
          /\ tasks'[u] \in Task
          /\ tasks'[u].tok = tasks[u].tok /\ tasks'[u].w = tasks[u].w /\ tasks'[u].pc = tasks[u].pc
    BY <1>1 DEF Settle, TypeOK, Task
  <2> QED
    BY <1>1, <2>1 DEF Settle, TaskTokens
<1>2. CASE FetchOk
  <2>1. cell' \in Cells /\ cell.by.of \in Wallets
    BY <1>2 DEF FetchOk, TypeOK, Cells, Tokens, Token
  <2> QED
    BY <1>1, <1>2, <2>1 DEF FetchOk, Settle, TypeOK, StoredTokenIsOwn
<1>3. CASE FetchFails
  <2>1. cell' \in Cells
    BY <1>3 DEF FetchFails, Cells
  <2> QED
    BY <1>1, <1>3, <2>1 DEF FetchFails, Settle, TypeOK, StoredTokenIsOwn
<1>4. CASE CacheExpires
  BY <1>4 DEF CacheExpires, Empty, Cells, TypeOK, StoredTokenIsOwn, TaskTokens
<1>5. CASE Tick
  BY <1>5, HookSessionAssumption DEF Tick, TypeOK, StoredTokenIsOwn, TaskTokens
<1> QED
  BY <1>2, <1>3, <1>4, <1>5

THEOREM InvHolds == Spec => []Inv
<1>1. Inv /\ [Next]_vars => Inv'
  <2> SUFFICES ASSUME Inv, [Next]_vars PROVE Inv'
    OBVIOUS
  <2>1. CASE UNCHANGED vars
    BY <2>1 DEF vars, Inv, TypeOK, StoredTokenIsOwn, TaskTokens
  <2> QED
    BY <2>1, StartKeepsInv, LoadStepKeepsInv, LogStepKeepsInv, EnvironmentKeepsInv DEF Next
<1> QED
  BY <1>1, InitInv, PTL DEF Spec

\* Type correctness, for all constants.
THEOREM TypeCorrect == Spec => []TypeOK
BY InvHolds, PTL DEF Inv

\* Whatever overlaps, no wallet ever finds another wallet's token in its storage.
THEOREM StoredTokenIsOwnTheorem == Spec => []StoredTokenIsOwn
BY InvHolds, PTL DEF Inv

-----------------------------------------------------------------------------
(* isAuthenticated, when nothing overlapped. The property only speaks of the *)
(* quiet states; in between, the one activation that runs knows something    *)
(* about the JWT and the storage that depends on where it is.                *)

\* What holds of the activation r, of the current wallet w, the flag a, the JWT
\* j and the token s stored for the wallet.
Fits(r, w, a, j, s) ==
  /\ r.pc # "idle" => r.w = w
  /\ r.pc \in {"idle", "login"} => (a => j # None /\ j = s)
  /\ r.pc = "readNew" => r.tok = s
  /\ r.pc = "refresh" => r.tok = s /\ j = s
  /\ r.pc = "data" => j # None /\ j = s

Now(r) == Fits(r, wallet, flags.authenticated, jwt, store[wallet])

Alone(t) == \A u \in Tasks \ {t} : tasks[u].pc = "idle"

Solo == "overlap" \notin mishaps => \E t \in Tasks : Now(tasks[t]) /\ Alone(t)

LEMMA SoloInit == Init => Solo
<1> SUFFICES ASSUME Init PROVE Solo
  OBVIOUS
<1>1. PICK t \in Tasks : tasks = [u \in Tasks |-> IF u = t THEN Loading(wallet) ELSE Idle(wallet)]
  BY DEF Init
<1>2. Alone(t)
  BY <1>1 DEF Alone, Idle
<1>3. Now(tasks[t])
  BY <1>1 DEF Now, Fits, Loading
<1> QED
  BY <1>2, <1>3 DEF Solo

\* The activation that runs is the one Solo speaks of.
LEMMA TheOneRunning ==
  ASSUME Solo, "overlap" \notin mishaps, NEW t \in Tasks, tasks[t].pc # "idle"
  PROVE  Now(tasks[t]) /\ Alone(t)
BY DEF Solo, Alone

LEMMA SoloStep ==
  ASSUME tasks \in [Tasks -> Task], NEW t \in Tasks, NEW r \in Task, Alone(t), Becomes(t, r),
         Fits(r, wallet', flags'.authenticated, jwt', store'[wallet'])
  PROVE  Solo'
<1>1. tasks'[t] = r /\ \A u \in Tasks \ {t} : tasks'[u] = tasks[u]
  BY DEF Becomes
<1>2. Alone(t)'
  BY <1>1 DEF Alone
<1>3. Now(tasks[t])'
  BY <1>1 DEF Now
<1> QED
  BY <1>2, <1>3 DEF Solo

LEMMA FetchBecomes ==
  ASSUME tasks \in [Tasks -> Task], cell \in Cells,
         NEW t \in Tasks, NEW tok \in Tokens, FetchData(t, tok)
  PROVE  \E r \in Task :
           Becomes(t, r) /\ r.pc = "data" /\ r.w = tasks[t].w /\ r.kind = tasks[t].kind
<1> DEFINE r == [tasks[t] EXCEPT !.pc = "data", !.tok = None]
<1>1. r \in Task /\ r.w = tasks[t].w /\ r.pc = "data" /\ r.kind = tasks[t].kind
  BY DEF Task, Pcs, Tokens
<1>2. \A x \in Wallets \cup {None, Failed} :
        [r EXCEPT !.res = x] \in Task /\ [r EXCEPT !.res = x].w = tasks[t].w
          /\ [r EXCEPT !.res = x].pc = "data" /\ [r EXCEPT !.res = x].kind = tasks[t].kind
  BY <1>1 DEF Task
<1>3. cell.state = "ready" => cell.by.of \in Wallets
  BY DEF Cells, Token
<1>4. Becomes(t, r) \/ \E x \in Wallets \cup {None, Failed} : Becomes(t, [r EXCEPT !.res = x])
  BY <1>3 DEF FetchData
<1> QED
  BY <1>1, <1>2, <1>4

LEMMA SoloStart ==
  ASSUME Inv, Solo, NEW t \in Tasks, Start(t)
  PROVE  Solo'
<1> SUFFICES ASSUME "overlap" \notin mishaps' PROVE Solo'
  BY DEF Solo
<1>1. CASE Reload(t)
  <2>1. \A u \in Tasks : tasks'[u] = IF u = t THEN Loading(wallet) ELSE Idle(wallet)
    BY <1>1 DEF Reload
  <2>2. Alone(t)'
    BY <2>1 DEF Alone, Idle
  <2>3. Now(tasks[t])'
    BY <1>1, <2>1 DEF Reload, Now, Fits, Loading
  <2> QED
    BY <2>2, <2>3 DEF Solo
<1>2. CASE Starts(t)
  <2>1. Running = {} /\ "overlap" \notin mishaps
    BY <1>2 DEF Starts
  <2>2. Alone(t) /\ Now(tasks[t])
    <3>1. \A u \in Tasks : tasks[u].pc = "idle"
      BY <2>1 DEF Running
    <3>2. PICK u \in Tasks : Now(tasks[u])
      BY <2>1 DEF Solo
    <3> QED
      BY <3>1, <3>2 DEF Alone, Now, Fits
  <2>3. CASE ChangeWallet(t)
    <3>1. PICK w \in Wallets : wallet' = w /\ Becomes(t, Loading(w))
      BY <2>3 DEF ChangeWallet
    <3>2. Loading(w) \in Task /\ Loading(w).pc = "readOld" /\ Loading(w).w = w
      BY LoadingType DEF Inv, TypeOK, Loading
    <3>3. Fits(Loading(w), wallet', flags'.authenticated, jwt', store'[wallet'])
      BY <3>1, <3>2 DEF Fits
    <3> QED
      BY <2>2, <3>1, <3>2, <3>3, SoloStep DEF Inv, TypeOK
  <2>4. CASE LogIn(t)
    <3> DEFINE r == [Idle(wallet) EXCEPT !.kind = "login", !.pc = "login"]
    <3>1. r \in Task /\ r.w = wallet /\ r.pc = "login"
      BY DEF Idle, Task, Pcs, Tokens, Inv, TypeOK
    <3>2. Becomes(t, r) /\ UNCHANGED <<wallet, flags, jwt, store>>
      BY <2>4 DEF LogIn
    <3> HIDE DEF r
    <3>3. flags.authenticated => jwt # None /\ jwt = store[wallet]
      BY <2>1, <2>2 DEF Now, Fits, Running
    <3>4. Fits(r, wallet', flags'.authenticated, jwt', store'[wallet'])
      BY <3>1, <3>2, <3>3 DEF Fits
    <3> QED
      BY <2>2, <3>1, <3>2, <3>4, SoloStep DEF Inv, TypeOK
  <2>5. CASE LogOut(t)
    <3> DEFINE r == [Idle(wallet) EXCEPT !.kind = "logout", !.pc = "logout"]
    <3>1. r \in Task /\ r.w = wallet /\ r.pc = "logout"
      BY DEF Idle, Task, Pcs, Tokens, Inv, TypeOK
    <3>2. Becomes(t, r) /\ UNCHANGED wallet
      BY <2>5 DEF LogOut
    <3> HIDE DEF r
    <3>3. Fits(r, wallet', flags'.authenticated, jwt', store'[wallet'])
      BY <3>1, <3>2 DEF Fits
    <3> QED
      BY <2>2, <3>1, <3>2, <3>3, SoloStep DEF Inv, TypeOK
  <2> QED
    BY <1>2, <2>3, <2>4, <2>5, <1>1 DEF Start
<1> QED
  BY <1>1, <1>2 DEF Start, ChangeWallet, LogIn, LogOut

\* The activation goes on to wait at pc, or ends, or fetches.
LEMMA SoloMoves ==
  ASSUME Inv, NEW t \in Tasks, Alone(t), tasks[t].w = wallet, UNCHANGED wallet
  PROVE  /\ \A pc \in Pcs, tok \in Tokens :
              /\ Waits(t, tasks[t], pc, tok)
              /\ pc \in {"removeOld", "writeNew", "readNew", "refresh"}
              /\ pc = "readNew" => tok = store'[wallet]
              /\ pc = "refresh" => tok = store'[wallet] /\ jwt' = tok
              => Solo'
         /\ End(t) /\ (flags'.authenticated => jwt' # None /\ jwt' = store'[wallet]) => Solo'
         /\ \A tok \in Tokens :
              FetchData(t, tok) /\ jwt' # None /\ jwt' = store'[wallet] => Solo'
<1> USE DEF Inv, TypeOK
<1>1. ASSUME NEW pc \in Pcs, NEW tok \in Tokens, Waits(t, tasks[t], pc, tok),
             pc \in {"removeOld", "writeNew", "readNew", "refresh"},
             pc = "readNew" => tok = store'[wallet],
             pc = "refresh" => tok = store'[wallet] /\ jwt' = tok
      PROVE  Solo'
  <2> DEFINE r == [tasks[t] EXCEPT !.pc = pc, !.tok = tok]
  <2>1. r \in Task /\ r.pc = pc /\ r.tok = tok /\ r.w = wallet
    BY DEF Task
  <2>2. Becomes(t, r)
    BY <1>1 DEF Waits
  <2> HIDE DEF r
  <2>3. Fits(r, wallet', flags'.authenticated, jwt', store'[wallet'])
    BY <1>1, <2>1 DEF Fits
  <2> QED
    BY <2>1, <2>2, <2>3, SoloStep
<1>2. ASSUME End(t), flags'.authenticated => jwt' # None /\ jwt' = store'[wallet]
      PROVE  Solo'
  <2>1. Idle(tasks[t].w) \in Task /\ Idle(tasks[t].w).pc = "idle" /\ Becomes(t, Idle(tasks[t].w))
    BY <1>2, IdleType DEF End
  <2>2. Fits(Idle(tasks[t].w), wallet', flags'.authenticated, jwt', store'[wallet'])
    BY <1>2, <2>1 DEF Fits
  <2> QED
    BY <2>1, <2>2, SoloStep
<1>3. ASSUME NEW tok \in Tokens, FetchData(t, tok), jwt' # None, jwt' = store'[wallet]
      PROVE  Solo'
  <2>1. PICK r \in Task : Becomes(t, r) /\ r.pc = "data" /\ r.w = tasks[t].w
    BY <1>3, FetchBecomes
  <2>2. Fits(r, wallet', flags'.authenticated, jwt', store'[wallet'])
    BY <1>3, <2>1 DEF Fits
  <2> QED
    BY <2>1, <2>2, SoloStep
<1> QED
  BY <1>1, <1>2, <1>3

LEMMA SoloContinues ==
  ASSUME Inv, Solo, NEW t \in Tasks,
         LoadStep(t) \/ AfterLogIn(t) \/ AfterLogInData(t) \/ AfterLogOut(t)
  PROVE  Solo'
<1> SUFFICES ASSUME "overlap" \notin mishaps' PROVE Solo'
  BY DEF Solo
<1>0. /\ "overlap" \notin mishaps /\ tasks[t].pc # "idle" /\ UNCHANGED wallet
      /\ wallet \in Wallets /\ tasks[t].tok \in Tokens
      /\ {"readNew", "removeOld", "writeNew", "refresh"} \subseteq Pcs
  BY DEF LoadStep, AfterReadOld, AfterRemoveOld, AfterWriteNew, AfterReadNew, AfterRefresh,
         AfterLoadData, AfterLogIn, AfterLogInData, AfterLogOut, At, Inv, TypeOK, Task, Pcs
<1>1. Alone(t) /\ Now(tasks[t]) /\ tasks[t].w = wallet
  BY <1>0, TheOneRunning DEF Now, Fits
<1>2. CASE AfterReadOld(t)
  <2>1. \/ Waits(t, tasks[t], "readNew", store[wallet]) /\ store[wallet] \in Tokens
        \/ Waits(t, tasks[t], "removeOld", tasks[t].tok)
    BY <1>0, <1>1, <1>2 DEF AfterReadOld, Inv, TypeOK
  <2> QED
    BY <1>0, <1>1, <1>2, <2>1, SoloMoves DEF AfterReadOld
<1>3. CASE AfterRemoveOld(t)
  BY <1>0, <1>1, <1>3, SoloMoves DEF AfterRemoveOld, Tokens
<1>4. CASE AfterWriteNew(t)
  <2>1. Waits(t, tasks[t], "readNew", store[wallet]) /\ store[wallet] \in Tokens
    BY <1>0, <1>1, <1>4 DEF AfterWriteNew, Inv, TypeOK
  <2> QED
    BY <1>0, <1>1, <1>4, <2>1, SoloMoves DEF AfterWriteNew
<1>5. CASE AfterReadNew(t)
  <2>1. tasks[t].tok = store[wallet] /\ UNCHANGED store
    BY <1>1, <1>5 DEF AfterReadNew, At, Now, Fits
  <2>2. \/ End(t) /\ ~flags'.authenticated
        \/ /\ Waits(t, tasks[t], "refresh", tasks[t].tok)
           /\ tasks[t].tok # None /\ jwt' = tasks[t].tok
        \/ FetchData(t, tasks[t].tok) /\ tasks[t].tok # None /\ jwt' = tasks[t].tok
    BY <1>5 DEF AfterReadNew
  <2> QED
    BY <1>0, <1>1, <2>1, <2>2, SoloMoves
<1>6. CASE AfterRefresh(t)
  <2> DEFINE new == [of |-> tasks[t].tok.of, exp |-> now + Life]
  <2>1. /\ tasks[t].tok = store[wallet] /\ jwt = tasks[t].tok
        /\ tasks[t].tok # None /\ store \in [Wallets -> Tokens]
    BY <1>1, <1>6 DEF AfterRefresh, At, Now, Fits, Inv, TaskTokens, TypeOK
  <2>2. CASE FetchData(t, jwt) /\ UNCHANGED <<jwt, store>>
    BY <1>0, <1>1, <2>1, <2>2, SoloMoves
  <2>3. CASE jwt' = new /\ store' = Store(tasks[t].w, new) /\ FetchData(t, new)
    <3>1. new \in Tokens /\ new # None
      BY <1>0, <2>1, NewToken, NewIsToken DEF Inv, TypeOK, Tokens, Token
    <3>2. store'[wallet] = new
      BY <1>0, <1>1, <2>1, <2>3 DEF Store
    <3> QED
      BY <1>0, <1>1, <2>3, <3>1, <3>2, SoloMoves
  <2> QED
    BY <1>6, <2>2, <2>3 DEF AfterRefresh
<1>7. CASE AfterLoadData(t)
  <2>1. jwt # None /\ jwt = store[wallet] /\ UNCHANGED <<jwt, store>>
    BY <1>1, <1>7 DEF AfterLoadData, At, Now, Fits
  <2> QED
    BY <1>0, <1>1, <1>7, <2>1, SoloMoves DEF AfterLoadData
<1>8. CASE AfterLogIn(t)
  <2> DEFINE new == [of |-> tasks[t].w, exp |-> now + Life]
  <2>1. CASE jwt' = new /\ store' = Store(tasks[t].w, new) /\ FetchData(t, new)
    <3>1. new \in Tokens /\ new # None
      BY <1>0, <1>1, NewToken, NewIsToken DEF Inv, TypeOK, Tokens
    <3>2. store'[wallet] = new
      BY <1>0, <1>1, <2>1 DEF Store, Inv, TypeOK
    <3> QED
      BY <1>0, <1>1, <2>1, <3>1, <3>2, SoloMoves
  <2>2. CASE End(t) /\ flags' = [flags EXCEPT !.authenticated = FALSE]
    BY <1>0, <1>1, <2>2, SoloMoves DEF Inv, TypeOK, Flags
  <2> QED
    BY <1>8, <2>1, <2>2 DEF AfterLogIn
<1>9. CASE AfterLogInData(t)
  <2>1. jwt # None /\ jwt = store[wallet] /\ UNCHANGED <<jwt, store>>
    BY <1>1, <1>9 DEF AfterLogInData, At, Now, Fits
  <2> QED
    BY <1>0, <1>1, <1>9, <2>1, SoloMoves DEF AfterLogInData
<1>10. CASE AfterLogOut(t)
  BY <1>0, <1>1, <1>10, SoloMoves DEF AfterLogOut, Inv, TypeOK, Flags
<1> QED
  BY <1>2, <1>3, <1>4, <1>5, <1>6, <1>7, <1>8, <1>9, <1>10 DEF LoadStep

LEMMA SoloEnvironment ==
  ASSUME Inv, Solo, FetchOk \/ FetchFails \/ CacheExpires \/ Tick
  PROVE  Solo'
<1>1. UNCHANGED <<wallet, store, jwt, flags, mishaps>>
  BY DEF FetchOk, FetchFails, CacheExpires, Tick, Settle
<1>2. \A u \in Tasks :
        tasks'[u].pc = tasks[u].pc /\ tasks'[u].w = tasks[u].w /\ tasks'[u].tok = tasks[u].tok
  BY DEF FetchOk, FetchFails, CacheExpires, Tick, Settle, Inv, TypeOK, Task
<1> QED
  BY <1>1, <1>2 DEF Solo, Now, Fits, Alone

LEMMA SoloHolds == Spec => []Solo
<1>1. Inv /\ Solo /\ [Next]_vars => Solo'
  <2> SUFFICES ASSUME Inv, Solo, [Next]_vars PROVE Solo'
    OBVIOUS
  <2>1. CASE UNCHANGED vars
    BY <2>1 DEF vars, Solo, Now, Fits, Alone
  <2> QED
    BY <2>1, SoloStart, SoloContinues, SoloEnvironment DEF Next
<1> QED
  BY <1>1, SoloInit, InvHolds, PTL DEF Spec

\* When nothing runs and nothing overlapped, isAuthenticated means that the
\* service sends the token stored for the current wallet.
THEOREM AuthenticatedByStoredTokenTheorem == Spec => []AuthenticatedByStoredToken
<1>1. Solo => AuthenticatedByStoredToken
  BY DEF Solo, Now, Fits, AuthenticatedByStoredToken, Quiet, Running
<1> QED
  BY <1>1, SoloHolds, PTL

-----------------------------------------------------------------------------
(* What a load leaves behind. That the hook is initialized holds whatever    *)
(* overlaps: as long as it is not, some activation of the effect goes on,    *)
(* and every way out of one sets the flag. That a stored token is used is    *)
(* again about the one activation that runs.                                 *)

LoadPcs == {"readOld", "removeOld", "writeNew", "readNew", "refresh"}

\* What an activation does is what it was started for.
KindFits(r) ==
  /\ r.pc \in LoadPcs => r.kind = "load"
  /\ r.pc \in {"login", "logout"} => r.kind = r.pc
  /\ r.pc = "data" => r.kind \in {"load", "login"}

LoadsOn(r) == r.pc # "idle" /\ r.kind = "load"

LoadGoesOn == ~flags.initialized => \E t \in Tasks : LoadsOn(tasks[t])

\* Activation r will still set isAuthenticated, or fail to.
Undecided(r) == r.pc \in LoadPcs \/ (r.pc = "data" /\ r.kind = "login")

\* Without failure or overlap, a stored token that has not expired is in use,
\* or about to be.
TokenUsed ==
  mishaps \subseteq {"earlier"} /\ store[wallet] # None =>
    \/ flags.authenticated \/ Expired(store[wallet])
    \/ \E t \in Tasks : Undecided(tasks[t])

\* A log-out that waits has removed the token.
LogOutRemoves ==
  "overlap" \notin mishaps =>
    \A t \in Tasks : tasks[t].pc = "logout" => store[wallet] = None

Concluding ==
  (\A t \in Tasks : KindFits(tasks[t])) /\ LoadGoesOn /\ TokenUsed /\ LogOutRemoves

LEMMA ConcludingInit == Init => Concluding
<1> SUFFICES ASSUME Init PROVE Concluding
  OBVIOUS
<1>1. PICK t \in Tasks : tasks = [u \in Tasks |-> IF u = t THEN Loading(wallet) ELSE Idle(wallet)]
  BY DEF Init
<1>2. \A u \in Tasks : tasks[u].kind = "load" /\ tasks[u].pc \in {"idle", "readOld"}
  BY <1>1 DEF Loading, Idle
<1>3. tasks[t].pc = "readOld"
  BY <1>1 DEF Loading
<1> QED
  BY <1>2, <1>3 DEF Concluding, KindFits, LoadPcs, LoadGoesOn, LoadsOn, TokenUsed, Undecided,
                    LogOutRemoves

\* Activation t becomes r: a load ends only when the hook is initialized, and
\* t leaves no good token unused.
LEMMA ConcludingStep ==
  ASSUME tasks \in [Tasks -> Task], Concluding, NEW t \in Tasks, NEW r \in Task, Becomes(t, r),
         KindFits(r),
         ~flags'.initialized => LoadsOn(r) \/ (~flags.initialized /\ ~LoadsOn(tasks[t])),
         mishaps' \subseteq {"earlier"} /\ store'[wallet'] # None =>
           flags'.authenticated \/ store'[wallet'].exp <= now' \/ Undecided(r),
         "overlap" \notin mishaps' => Alone(t) /\ (r.pc = "logout" => store'[wallet'] = None)
  PROVE  Concluding'
<1>1. \A u \in Tasks : tasks'[u] = IF u = t THEN r ELSE tasks[u]
  BY DEF Becomes
<1>2. \A u \in Tasks : KindFits(tasks'[u])
  BY <1>1 DEF Concluding
<1>3. LoadGoesOn'
  BY <1>1 DEF Concluding, LoadGoesOn
<1>4. TokenUsed'
  BY <1>1 DEF TokenUsed, Expired
<1>5. LogOutRemoves'
  BY <1>1 DEF LogOutRemoves, Alone
<1> QED
  BY <1>2, <1>3, <1>4, <1>5 DEF Concluding

LEMMA ConcludingStart ==
  ASSUME Inv, Concluding, NEW t \in Tasks, Start(t)
  PROVE  Concluding'
<1> USE DEF Inv, TypeOK
<1>1. CASE Reload(t)
  <2>1. \A u \in Tasks : tasks'[u] = IF u = t THEN Loading(wallet) ELSE Idle(wallet)
    BY <1>1 DEF Reload
  <2>2. \A u \in Tasks : tasks'[u].kind = "load" /\ tasks'[u].pc \in {"idle", "readOld"}
    BY <2>1 DEF Loading, Idle
  <2>3. tasks'[t].pc = "readOld"
    BY <2>1 DEF Loading
  <2> QED
    BY <2>2, <2>3 DEF Concluding, KindFits, LoadPcs, LoadGoesOn, LoadsOn, TokenUsed, Undecided,
                      LogOutRemoves
<1>2. CASE Starts(t)
  <2>1. /\ tasks[t].pc = "idle" /\ now' = now
        /\ "overlap" \notin mishaps' => mishaps' = mishaps /\ \A u \in Tasks : tasks[u].pc = "idle"
    BY <1>2 DEF Starts, Running
  <2>2. "overlap" \notin mishaps' => Alone(t)
    BY <2>1 DEF Alone
  <2>3. CASE ChangeWallet(t)
    <3>1. PICK w \in Wallets : wallet' = w /\ Becomes(t, Loading(w))
      BY <2>3 DEF ChangeWallet
    <3>2. Loading(w) \in Task /\ Loading(w).pc = "readOld" /\ Loading(w).kind = "load"
      BY LoadingType DEF Loading
    <3>3. KindFits(Loading(w)) /\ Undecided(Loading(w)) /\ LoadsOn(Loading(w))
      BY <3>2 DEF KindFits, Undecided, LoadsOn, LoadPcs
    <3> QED
      BY <2>2, <3>1, <3>2, <3>3, ConcludingStep
  <2>4. CASE LogIn(t)
    <3> DEFINE r == [Idle(wallet) EXCEPT !.kind = "login", !.pc = "login"]
    <3>1. r \in Task /\ r.kind = "login" /\ r.pc = "login"
      BY DEF Idle, Task, Pcs, Tokens
    <3>2. Becomes(t, r) /\ UNCHANGED <<wallet, flags, store>>
      BY <2>4 DEF LogIn
    <3> HIDE DEF r
    <3>3. KindFits(r) /\ ~LoadsOn(tasks[t])
      BY <2>1, <3>1 DEF KindFits, LoadPcs, LoadsOn
    <3>4. mishaps' \subseteq {"earlier"} /\ store[wallet] # None =>
            flags.authenticated \/ store[wallet].exp <= now
      BY <2>1 DEF Concluding, TokenUsed, Undecided, Expired, LoadPcs
    <3> QED
      BY <2>1, <2>2, <3>1, <3>2, <3>3, <3>4, ConcludingStep
  <2>5. CASE LogOut(t)
    <3> DEFINE r == [Idle(wallet) EXCEPT !.kind = "logout", !.pc = "logout"]
    <3>1. r \in Task /\ r.kind = "logout" /\ r.pc = "logout"
      BY DEF Idle, Task, Pcs, Tokens
    <3>2. Becomes(t, r) /\ UNCHANGED <<wallet, flags>> /\ store'[wallet] = None
      BY <2>5 DEF LogOut, Store
    <3> HIDE DEF r
    <3>3. KindFits(r) /\ ~LoadsOn(tasks[t])
      BY <2>1, <3>1 DEF KindFits, LoadPcs, LoadsOn
    <3> QED
      BY <2>1, <2>2, <3>1, <3>2, <3>3, ConcludingStep
  <2> QED
    BY <1>2, <2>3, <2>4, <2>5, <1>1 DEF Start
<1> QED
  BY <1>1, <1>2 DEF Start, ChangeWallet, LogIn, LogOut

\* An activation goes on to wait at pc, or ends, or fetches.
LEMMA GoesOn ==
  ASSUME Inv, NEW t \in Tasks
  PROVE  /\ \A pc \in Pcs, tok \in Tokens : Waits(t, tasks[t], pc, tok) =>
              \E r \in Task : Becomes(t, r) /\ r.pc = pc /\ r.kind = tasks[t].kind
         /\ End(t) => \E r \in Task : Becomes(t, r) /\ r.pc = "idle"
         /\ \A tok \in Tokens : FetchData(t, tok) =>
              \E r \in Task : Becomes(t, r) /\ r.pc = "data" /\ r.kind = tasks[t].kind
<1> USE DEF Inv, TypeOK
<1>1. ASSUME NEW pc \in Pcs, NEW tok \in Tokens, Waits(t, tasks[t], pc, tok)
      PROVE  \E r \in Task : Becomes(t, r) /\ r.pc = pc /\ r.kind = tasks[t].kind
  <2>1. [tasks[t] EXCEPT !.pc = pc, !.tok = tok] \in Task
    BY DEF Task
  <2> QED
    BY <1>1, <2>1 DEF Waits, Task
<1>2. End(t) => \E r \in Task : Becomes(t, r) /\ r.pc = "idle"
  BY IdleType DEF End, Task
<1> QED
  BY <1>1, <1>2, FetchBecomes

LEMMA ConcludingContinues ==
  ASSUME Inv, Solo, Concluding, NEW t \in Tasks,
         LoadStep(t) \/ AfterLogIn(t) \/ AfterLogInData(t) \/ AfterLogOut(t)
  PROVE  Concluding'
<1> USE DEF Inv, TypeOK
<1>0. /\ tasks[t].pc # "idle" /\ UNCHANGED <<wallet, now>>
      /\ "overlap" \notin mishaps' => "overlap" \notin mishaps
      /\ wallet \in Wallets /\ tasks[t].tok \in Tokens
      /\ {"readNew", "removeOld", "writeNew", "refresh"} \subseteq Pcs
  BY DEF LoadStep, AfterReadOld, AfterRemoveOld, AfterWriteNew, AfterReadNew, AfterRefresh,
         AfterLoadData, AfterLogIn, AfterLogInData, AfterLogOut, At, Task, Pcs
<1>1. "overlap" \notin mishaps' => Alone(t) /\ Now(tasks[t]) /\ tasks[t].w = wallet
  BY <1>0, TheOneRunning DEF Now, Fits
<1>2. KindFits(tasks[t])
  BY DEF Concluding
<1>3. CASE AfterReadOld(t) \/ AfterRemoveOld(t) \/ AfterWriteNew(t)
  <2>1. \E pc \in Pcs \cap LoadPcs, tok \in Tokens : Waits(t, tasks[t], pc, tok)
    BY <1>0, <1>3 DEF AfterReadOld, AfterRemoveOld, AfterWriteNew, LoadPcs, Tokens, Task
  <2>2. PICK r \in Task : Becomes(t, r) /\ r.pc \in LoadPcs /\ r.kind = tasks[t].kind
    BY <2>1, GoesOn
  <2>3. tasks[t].kind = "load" /\ UNCHANGED flags
    BY <1>2, <1>3 DEF KindFits, LoadPcs, AfterReadOld, AfterRemoveOld, AfterWriteNew, At
  <2>4. KindFits(r) /\ LoadsOn(r) /\ Undecided(r) /\ r.pc # "logout"
    BY <2>2, <2>3 DEF KindFits, LoadPcs, LoadsOn, Undecided
  <2> QED
    BY <1>1, <2>2, <2>4, ConcludingStep
<1>4. CASE AfterReadNew(t)
  <2>1. tasks[t].kind = "load" /\ UNCHANGED <<store, mishaps>>
    BY <1>2, <1>4 DEF KindFits, LoadPcs, AfterReadNew, At
  <2>2. CASE End(t)
    <3>1. PICK r \in Task : Becomes(t, r) /\ r.pc = "idle"
      BY <2>2, GoesOn
    <3>2. KindFits(r) /\ r.pc # "logout"
      BY <3>1 DEF KindFits, LoadPcs
    <3>3. flags'.initialized /\ (tasks[t].tok = None \/ Expired(tasks[t].tok))
      <4>1. ~Waits(t, tasks[t], "refresh", tasks[t].tok) /\ ~FetchData(t, tasks[t].tok)
        <5>1. tasks'[t].pc = "idle"
          BY <3>1 DEF Becomes
        <5>2. tasks'[t].pc # "idle" \/ ~Waits(t, tasks[t], "refresh", tasks[t].tok)
          BY GoesOn, <1>0 DEF Becomes
        <5>3. tasks'[t].pc # "idle" \/ ~FetchData(t, tasks[t].tok)
          BY GoesOn, <1>0 DEF Becomes
        <5> QED
          BY <5>1, <5>2, <5>3
      <4> QED
        BY <1>4, <4>1 DEF AfterReadNew
    <3>4. "overlap" \notin mishaps' => tasks[t].tok = store[wallet]
      BY <1>1, <1>4 DEF AfterReadNew, At, Now, Fits
    <3> QED
      BY <1>0, <1>1, <2>1, <3>1, <3>2, <3>3, <3>4, ConcludingStep DEF Expired
  <2>3. CASE Waits(t, tasks[t], "refresh", tasks[t].tok)
    <3>1. PICK r \in Task : Becomes(t, r) /\ r.pc = "refresh" /\ r.kind = tasks[t].kind
      BY <1>0, <2>3, GoesOn
    <3>2. KindFits(r) /\ LoadsOn(r) /\ Undecided(r)
      BY <2>1, <3>1 DEF KindFits, LoadPcs, LoadsOn, Undecided
    <3> QED
      BY <1>1, <3>1, <3>2, ConcludingStep
  <2>4. CASE FetchData(t, tasks[t].tok) /\ flags' = [flags EXCEPT !.authenticated = TRUE]
    <3>1. PICK r \in Task : Becomes(t, r) /\ r.pc = "data" /\ r.kind = tasks[t].kind
      BY <1>0, <2>4, GoesOn
    <3>2. KindFits(r) /\ LoadsOn(r)
      BY <2>1, <3>1 DEF KindFits, LoadPcs, LoadsOn
    <3>3. flags'.authenticated
      BY <2>4 DEF Flags
    <3> QED
      BY <1>1, <3>1, <3>2, <3>3, ConcludingStep
  <2> QED
    BY <1>4, <2>2, <2>3, <2>4 DEF AfterReadNew
<1>5. CASE AfterRefresh(t)
  <2> DEFINE new == [of |-> tasks[t].tok.of, exp |-> now + Life]
  <2>1. tasks[t].kind = "load"
    BY <1>2, <1>5 DEF KindFits, LoadPcs, AfterRefresh, At
  <2>2. new \in Tokens
    <3>1. tasks[t].tok \in Token
      BY <1>0, <1>5 DEF AfterRefresh, At, TaskTokens, Tokens
    <3> QED
      BY <3>1, NewToken DEF Tokens, Token
  <2>3. FetchData(t, new) \/ FetchData(t, jwt)
    BY <1>5 DEF AfterRefresh
  <2>4. flags'.authenticated
    BY <1>5 DEF AfterRefresh, NotRefreshed, Flags
  <2> HIDE DEF new
  <2>5. PICK r \in Task : Becomes(t, r) /\ r.pc = "data" /\ r.kind = tasks[t].kind
    BY <2>2, <2>3, GoesOn
  <2>6. KindFits(r) /\ LoadsOn(r)
    BY <2>1, <2>5 DEF KindFits, LoadPcs, LoadsOn
  <2> QED
    BY <1>1, <2>4, <2>5, <2>6, ConcludingStep
<1>6. CASE AfterLoadData(t)
  <2>1. /\ tasks[t].kind = "load" /\ tasks[t].pc = "data" /\ UNCHANGED <<store, mishaps>>
        /\ flags'.initialized /\ flags'.authenticated = flags.authenticated
    BY <1>6 DEF AfterLoadData, At, Loaded, Flags
  <2>2. PICK r \in Task : Becomes(t, r) /\ r.pc = "idle"
    BY <1>6, GoesOn DEF AfterLoadData
  <2>3. KindFits(r)
    BY <2>2 DEF KindFits, LoadPcs
  <2>4. "overlap" \notin mishaps => \A u \in Tasks : ~Undecided(tasks[u])
    BY <1>1, <2>1 DEF Alone, Undecided, LoadPcs
  <2>5. mishaps \subseteq {"earlier"} /\ store[wallet] # None =>
          flags.authenticated \/ store[wallet].exp <= now
    BY <2>4 DEF Concluding, TokenUsed, Expired
  <2> QED
    BY <1>0, <1>1, <2>1, <2>2, <2>3, <2>5, ConcludingStep
<1>7. CASE AfterLogIn(t)
  <2> DEFINE new == [of |-> tasks[t].w, exp |-> now + Life]
  <2>1. tasks[t].kind = "login" /\ flags'.initialized = flags.initialized
    BY <1>2, <1>7 DEF KindFits, AfterLogIn, At, Flags
  <2>2. CASE FetchData(t, new)
    <3>1. new \in Tokens
      BY NewToken DEF Tokens, Task
    <3>2. PICK r \in Task : Becomes(t, r) /\ r.pc = "data" /\ r.kind = tasks[t].kind
      BY <2>2, <3>1, GoesOn
    <3>3. KindFits(r) /\ Undecided(r) /\ ~LoadsOn(tasks[t])
      BY <2>1, <3>2 DEF KindFits, LoadPcs, Undecided, LoadsOn
    <3> QED
      BY <1>1, <2>1, <3>2, <3>3, ConcludingStep
  <2>3. CASE End(t) /\ mishaps' = mishaps \cup {"failed"}
    <3>1. PICK r \in Task : Becomes(t, r) /\ r.pc = "idle"
      BY <2>3, GoesOn
    <3>2. KindFits(r) /\ ~LoadsOn(tasks[t]) /\ ~(mishaps' \subseteq {"earlier"})
      BY <2>1, <2>3, <3>1 DEF KindFits, LoadPcs, LoadsOn
    <3> QED
      BY <1>1, <2>1, <3>1, <3>2, ConcludingStep
  <2> QED
    BY <1>7, <2>2, <2>3 DEF AfterLogIn
<1>8. CASE AfterLogInData(t)
  <2>1. /\ tasks[t].kind = "login" /\ flags'.initialized = flags.initialized
        /\ flags'.authenticated \/ ~(mishaps' \subseteq {"earlier"})
    BY <1>8 DEF AfterLogInData, At, Flags
  <2>2. PICK r \in Task : Becomes(t, r) /\ r.pc = "idle"
    BY <1>8, GoesOn DEF AfterLogInData
  <2>3. KindFits(r) /\ ~LoadsOn(tasks[t])
    BY <2>1, <2>2 DEF KindFits, LoadPcs, LoadsOn
  <2> QED
    BY <1>1, <2>1, <2>2, <2>3, ConcludingStep
<1>9. CASE AfterLogOut(t)
  <2>1. /\ tasks[t].pc = "logout" /\ flags'.initialized = flags.initialized
        /\ UNCHANGED <<store, mishaps>>
    BY <1>9 DEF AfterLogOut, At, Flags
  <2>2. PICK r \in Task : Becomes(t, r) /\ r.pc = "idle"
    BY <1>9, GoesOn DEF AfterLogOut
  <2>3. KindFits(r) /\ ~LoadsOn(tasks[t])
    BY <1>2, <2>1, <2>2 DEF KindFits, LoadPcs, LoadsOn
  <2>4. "overlap" \notin mishaps => store[wallet] = None
    BY <2>1 DEF Concluding, LogOutRemoves
  <2> QED
    BY <1>0, <1>1, <2>1, <2>2, <2>3, <2>4, ConcludingStep
<1> QED
  BY <1>3, <1>4, <1>5, <1>6, <1>7, <1>8, <1>9 DEF LoadStep

LEMMA ConcludingEnvironment ==
  ASSUME Inv, Concluding, FetchOk \/ FetchFails \/ CacheExpires \/ Tick
  PROVE  Concluding'
<1>1. UNCHANGED <<wallet, store, flags, mishaps>> /\ now' \in {now, now + 1}
  BY DEF FetchOk, FetchFails, CacheExpires, Tick, Settle
<1>2. \A u \in Tasks : tasks'[u].pc = tasks[u].pc /\ tasks'[u].kind = tasks[u].kind
  BY DEF FetchOk, FetchFails, CacheExpires, Tick, Settle, Inv, TypeOK, Task
<1>3. store[wallet] # None => store[wallet].exp \in Nat /\ now \in Nat
  BY HookSessionAssumption DEF Inv, TypeOK, Tokens, Token
<1>4. Expired(store[wallet]) /\ store[wallet] # None => Expired(store[wallet])'
  BY <1>1, <1>3 DEF Expired
<1>5. \A u \in Tasks : KindFits(tasks'[u])
  BY <1>2 DEF Concluding, KindFits
<1>6. LoadGoesOn' /\ LogOutRemoves'
  BY <1>1, <1>2 DEF Concluding, LoadGoesOn, LoadsOn, LogOutRemoves
<1>7. TokenUsed'
  BY <1>1, <1>2, <1>4 DEF Concluding, TokenUsed, Undecided
<1> QED
  BY <1>5, <1>6, <1>7 DEF Concluding

\* Once nothing runs the hook is initialized, whatever failed and whatever
\* overlapped; and if nothing did, a stored token that is good is in use.
THEOREM LoadConcludesTheorem == Spec => []LoadConcludes
<1>1. Inv /\ Solo /\ Concluding /\ [Next]_vars => Concluding'
  <2> SUFFICES ASSUME Inv, Solo, Concluding, [Next]_vars PROVE Concluding'
    OBVIOUS
  <2>1. CASE UNCHANGED vars
    BY <2>1 DEF vars, Concluding, KindFits, LoadGoesOn, LoadsOn, TokenUsed, Undecided, Expired,
                LogOutRemoves
  <2> QED
    BY <2>1, ConcludingStart, ConcludingContinues, ConcludingEnvironment DEF Next
<1>2. Concluding => LoadConcludes
  BY DEF Concluding, LoadGoesOn, LoadsOn, TokenUsed, Undecided, LoadPcs, LoadConcludes, Quiet,
         Running
<1> QED
  BY <1>1, <1>2, ConcludingInit, SoloHolds, InvHolds, PTL DEF Spec

-----------------------------------------------------------------------------
(* What becomes of a stored token. A token that is stored lives for Life at  *)
(* most. Without overlaps the old key is moved before anything else is       *)
(* written: whoever comes to write a token finds the old key empty.          *)

LivesOn == \A w \in Wallets : store[w] # None => store[w].exp <= now + Life

Calm == mishaps \cap {"overlap", "earlier"} = {}

MovedFirst ==
  Calm =>
    /\ \A w \in Wallets : oldKey[w] # None => store[w] = None
    /\ oldKey[wallet] # None => \E t \in Tasks : tasks[t].pc = "readOld"
    /\ \A t \in Tasks : tasks[t].pc = "readOld" => tasks[t].tok = oldKey[wallet]
    /\ \A t \in Tasks : tasks[t].pc = "removeOld" => store[wallet] = None /\ oldKey[wallet] = None

Keeping == LivesOn /\ MovedFirst

LEMMA KeepingInit == Init => Keeping
<1> SUFFICES ASSUME Init PROVE Keeping
  OBVIOUS
<1>1. PICK t \in Tasks : tasks = [u \in Tasks |-> IF u = t THEN Loading(wallet) ELSE Idle(wallet)]
  BY DEF Init
<1>2. \A u \in Tasks : tasks[u].pc \in {"idle", "readOld"} /\ (tasks[u].pc = "readOld" => tasks[u].tok = oldKey[wallet])
  BY <1>1 DEF Loading, Idle
<1>3. tasks[t].pc = "readOld"
  BY <1>1 DEF Loading
<1>4. LivesOn
  BY HookSessionAssumption DEF Init, LivesOn, Tokens, Token
<1>5. MovedFirst
  BY <1>2, <1>3 DEF Init, MovedFirst
<1> QED
  BY <1>4, <1>5 DEF Keeping

LEMMA KeepingStart ==
  ASSUME Inv, Solo, Keeping, NEW t \in Tasks, Start(t)
  PROVE  Keeping'
<1> USE DEF Inv, TypeOK
<1>0. oldKey' = oldKey /\ now' = now
  BY DEF Start, ChangeWallet, LogIn, LogOut, Reload, Starts
<1>1. LivesOn'
  <2>1. store' = store \/ store' = Store(wallet, None)
    BY DEF Start, ChangeWallet, LogIn, LogOut, Reload
  <2> QED
    BY <1>0, <2>1 DEF Keeping, LivesOn, Store
<1>2. ASSUME Calm' PROVE Calm
  BY <1>2 DEF Calm, Start, ChangeWallet, LogIn, LogOut, Reload, Starts
<1>3. CASE Reload(t)
  <2>1. \A u \in Tasks : tasks'[u] = IF u = t THEN Loading(wallet) ELSE Idle(wallet)
    BY <1>3 DEF Reload
  <2>2. \A u \in Tasks : tasks'[u].pc \in {"idle", "readOld"} /\ (tasks'[u].pc = "readOld" => tasks'[u].tok = oldKey[wallet])
    BY <2>1 DEF Loading, Idle
  <2>3. tasks'[t].pc = "readOld"
    BY <2>1 DEF Loading
  <2>4. wallet' = wallet /\ store' = store
    BY <1>3 DEF Reload
  <2> QED
    BY <1>0, <1>1, <1>2, <2>2, <2>3, <2>4 DEF Keeping, MovedFirst
<1>4. CASE Starts(t)
  <2>0. SUFFICES ASSUME Calm' PROVE MovedFirst'
    BY <1>1 DEF Keeping, MovedFirst
  <2>1. \A u \in Tasks : tasks[u].pc = "idle"
    BY <1>4, <2>0 DEF Starts, Running, Calm
  <2>2. oldKey[wallet] = None /\ \A w \in Wallets : oldKey[w] # None => store[w] = None
    BY <1>2, <2>0, <2>1 DEF Keeping, MovedFirst
  <2>3. CASE ChangeWallet(t)
    <3>1. PICK w \in Wallets : wallet' = w /\ Becomes(t, Loading(w))
      BY <2>3 DEF ChangeWallet
    <3>2. tasks'[t] = Loading(w) /\ \A u \in Tasks : u # t => tasks'[u].pc = "idle"
      BY <2>1, <3>1 DEF Becomes
    <3>3. tasks'[t].pc = "readOld" /\ tasks'[t].tok = oldKey[w]
      BY <3>2 DEF Loading
    <3>4. store' = store
      BY <2>3 DEF ChangeWallet
    <3> QED
      BY <1>0, <2>2, <3>1, <3>2, <3>3, <3>4 DEF MovedFirst
  <2>4. CASE LogIn(t) \/ LogOut(t)
    <3>1. wallet' = wallet /\ \A w \in Wallets : store[w] = None => store'[w] = None
      BY <2>4 DEF LogIn, LogOut, Store
    <3>2. \A u \in Tasks : tasks'[u].pc \in {"idle", "login", "logout"}
      BY <2>1, <2>4 DEF LogIn, LogOut, Becomes, Idle
    <3> QED
      BY <1>0, <2>2, <3>1, <3>2 DEF MovedFirst
  <2> QED
    BY <1>3, <2>3, <2>4 DEF Start, Keeping
<1> QED
  BY <1>3, <1>4 DEF Start, ChangeWallet, LogIn, LogOut

\* A token that has just been given out, or taken from the old key.
NewTok(t) == [of |-> tasks[t].w, exp |-> now + Life]

\* What an activation that goes on does to the storage.
Stores(t) ==
  LET w == tasks[t].w IN
  \/ /\ UNCHANGED <<oldKey, store>> /\ tasks[t].pc # "removeOld"
     /\ tasks[t].pc = "readOld" => tasks[t].tok = None
  \/ /\ tasks[t].pc = "readOld" /\ tasks[t].tok # None
     /\ oldKey' = OldKeyRemoved(w) /\ store' = store /\ tasks'[t].pc = "removeOld"
     /\ tasks'[t].w = w
  \/ /\ tasks[t].pc = "removeOld"
     /\ oldKey' = oldKey /\ store' = Store(w, [of |-> w, exp |-> 0])
  \/ /\ tasks[t].pc \notin {"readOld", "removeOld"}
     /\ oldKey' = oldKey /\ store' = Store(w, NewTok(t))

LEMMA ContinuesStore ==
  ASSUME Inv, NEW t \in Tasks,
         LoadStep(t) \/ AfterLogIn(t) \/ AfterLogInData(t) \/ AfterLogOut(t)
  PROVE  /\ tasks[t].pc # "idle" /\ UNCHANGED <<wallet, now>> /\ Stores(t)
         /\ \A u \in Tasks \ {t} : tasks'[u] = tasks[u]
         /\ tasks'[t].pc # "readOld"
         /\ tasks'[t].pc = "removeOld" => tasks[t].pc = "readOld" /\ tasks[t].tok # None
         /\ Calm' => Calm
<1> USE DEF Inv, TypeOK
<1>0. tasks[t] \in Task /\ tasks[t].tok \in Tokens
  BY DEF Task
<1>1. CASE AfterReadOld(t)
  <2>1. /\ At(t, "readOld") /\ UNCHANGED <<store, mishaps>>
        /\ \/ /\ tasks[t].tok = None /\ UNCHANGED oldKey
              /\ Becomes(t, [tasks[t] EXCEPT !.pc = "readNew", !.tok = store[tasks[t].w]])
           \/ /\ tasks[t].tok # None /\ oldKey' = OldKeyRemoved(tasks[t].w)
              /\ Becomes(t, [tasks[t] EXCEPT !.pc = "removeOld", !.tok = tasks[t].tok])
    BY <1>1 DEF AfterReadOld, Waits
  <2>2. /\ [tasks[t] EXCEPT !.pc = "readNew", !.tok = store[tasks[t].w]].pc = "readNew"
        /\ [tasks[t] EXCEPT !.pc = "removeOld", !.tok = tasks[t].tok].pc = "removeOld"
        /\ [tasks[t] EXCEPT !.pc = "removeOld", !.tok = tasks[t].tok].w = tasks[t].w
    BY <1>0 DEF Task
  <2>3. CASE tasks[t].tok = None
    <3>1. tasks'[t].pc = "readNew" /\ \A u \in Tasks \ {t} : tasks'[u] = tasks[u]
      BY <2>1, <2>2, <2>3 DEF Becomes
    <3> QED
      BY <2>1, <2>3, <3>1 DEF At, Stores, Calm
  <2>4. CASE tasks[t].tok # None
    <3>1. /\ tasks'[t].pc = "removeOld" /\ tasks'[t].w = tasks[t].w
          /\ \A u \in Tasks \ {t} : tasks'[u] = tasks[u]
      BY <2>1, <2>2, <2>4 DEF Becomes
    <3> QED
      BY <2>1, <2>4, <3>1 DEF At, Stores, Calm
  <2> QED
    BY <2>3, <2>4
<1>2. CASE AfterRemoveOld(t)
  <2>1. /\ At(t, "removeOld") /\ UNCHANGED <<oldKey, mishaps>>
        /\ store' = Store(tasks[t].w, [of |-> tasks[t].tok.of, exp |-> 0])
        /\ Becomes(t, [tasks[t] EXCEPT !.pc = "writeNew", !.tok = None])
    BY <1>2 DEF AfterRemoveOld, Waits
  <2>2. tasks[t].tok.of = tasks[t].w
    BY <2>1 DEF At, TaskTokens
  <2> QED
    BY <1>0, <2>1, <2>2 DEF At, Stores, Becomes, Task, Calm
<1>3. CASE AfterWriteNew(t) \/ AfterReadNew(t) \/ AfterLoadData(t) \/ AfterLogInData(t) \/ AfterLogOut(t)
  <2>1. /\ tasks[t].pc \in {"writeNew", "readNew", "data", "logout"}
        /\ UNCHANGED <<wallet, now, store, oldKey>> /\ (Calm' => Calm)
    BY <1>3 DEF AfterWriteNew, AfterReadNew, AfterLoadData, AfterLogInData, AfterLogOut, At, Calm
  <2>2. \E pc \in {"readNew", "refresh"}, tok \in Tokens : Waits(t, tasks[t], pc, tok)
        \/ End(t) \/ FetchData(t, tok)
    BY <1>0, <1>3 DEF AfterWriteNew, AfterReadNew, AfterLoadData, AfterLogInData, AfterLogOut, Task
  <2>3. {"readNew", "refresh"} \subseteq Pcs
    BY DEF Pcs
  <2>4. PICK r \in Task : Becomes(t, r) /\ r.pc \in {"readNew", "refresh", "idle", "data"}
    BY <2>2, <2>3, GoesOn
  <2> QED
    BY <2>1, <2>4 DEF Becomes, Stores
<1>4. CASE AfterRefresh(t)
  <2> DEFINE new == [of |-> tasks[t].tok.of, exp |-> now + Life]
  <2>1. tasks[t].pc = "refresh" /\ UNCHANGED <<wallet, now, oldKey, mishaps>>
        /\ (store' = store \/ store' = Store(tasks[t].w, new))
    BY <1>4 DEF AfterRefresh, At
  <2>2. new = NewTok(t)
    BY <2>1 DEF TaskTokens, NewTok
  <2>3. new \in Tokens
    BY <2>2, NewToken DEF NewTok, Tokens, Task
  <2>4. FetchData(t, new) \/ FetchData(t, jwt)
    BY <1>4 DEF AfterRefresh
  <2> HIDE DEF new
  <2>5. PICK r \in Task : Becomes(t, r) /\ r.pc = "data"
    BY <2>3, <2>4, GoesOn
  <2> QED
    BY <2>1, <2>2, <2>5 DEF Becomes, Stores, Calm
<1>5. CASE AfterLogIn(t)
  <2>1. tasks[t].pc = "login" /\ UNCHANGED <<wallet, now, oldKey>> /\ (Calm' => Calm)
        /\ (store' = store \/ store' = Store(tasks[t].w, NewTok(t)))
    BY <1>5 DEF AfterLogIn, At, NewTok, Calm
  <2>2. NewTok(t) \in Tokens
    BY NewToken DEF NewTok, Tokens, Task
  <2>3. FetchData(t, NewTok(t)) \/ End(t)
    BY <1>5 DEF AfterLogIn, NewTok
  <2>4. PICK r \in Task : Becomes(t, r) /\ r.pc \in {"data", "idle"}
    BY <2>2, <2>3, GoesOn
  <2> QED
    BY <2>1, <2>4 DEF Becomes, Stores
<1> QED
  BY <1>1, <1>2, <1>3, <1>4, <1>5 DEF LoadStep

LEMMA StoreValue ==
  ASSUME store \in [Wallets -> Tokens], NEW w \in Wallets, NEW tok, store' = Store(w, tok)
  PROVE  \A v \in Wallets : store'[v] = IF v = w THEN tok ELSE store[v]
BY DEF Store

LEMMA OldKeyValue ==
  ASSUME oldKey \in [Wallets -> Tokens], NEW w \in Wallets, oldKey' = OldKeyRemoved(w)
  PROVE  \A v \in Wallets : oldKey'[v] = IF v = w THEN None ELSE oldKey[v]
BY DEF OldKeyRemoved

\* An activation that goes on without overlaps works for the current wallet.
LEMMA CalmRunner ==
  ASSUME Solo, Calm, NEW t \in Tasks, tasks[t].pc # "idle"
  PROVE  tasks[t].w = wallet /\ Alone(t)
<1>1. "overlap" \notin mishaps
  BY DEF Calm
<1> QED
  BY <1>1, TheOneRunning DEF Now, Fits

LEMMA StoresLivesOn ==
  ASSUME Inv, Keeping, NEW t \in Tasks, Stores(t), now' = now
  PROVE  LivesOn'
<1>0. /\ store \in [Wallets -> Tokens] /\ tasks[t].w \in Wallets /\ now \in Nat /\ LivesOn
  BY DEF Inv, TypeOK, Task, Keeping
<1>1. CASE store' = store
  BY <1>0, <1>1 DEF LivesOn
<1>2. CASE store' = Store(tasks[t].w, [of |-> tasks[t].w, exp |-> 0])
  <2>1. \A v \in Wallets : store'[v] = IF v = tasks[t].w THEN [of |-> tasks[t].w, exp |-> 0] ELSE store[v]
    BY <1>0, <1>2, StoreValue
  <2>2. 0 <= now + Life
    BY <1>0, HookSessionAssumption
  <2> QED
    BY <1>0, <2>1, <2>2 DEF LivesOn
<1>3. CASE store' = Store(tasks[t].w, NewTok(t))
  <2>1. \A v \in Wallets : store'[v] = IF v = tasks[t].w THEN NewTok(t) ELSE store[v]
    BY <1>0, <1>3, StoreValue
  <2>2. NewTok(t).exp <= now + Life
    BY <1>0, HookSessionAssumption DEF NewTok
  <2> QED
    BY <1>0, <2>1, <2>2 DEF LivesOn
<1> QED
  BY <1>1, <1>2, <1>3 DEF Stores

LEMMA KeepingContinues ==
  ASSUME Inv, Solo, Keeping, NEW t \in Tasks,
         LoadStep(t) \/ AfterLogIn(t) \/ AfterLogInData(t) \/ AfterLogOut(t)
  PROVE  Keeping'
<1>0. /\ tasks[t].pc # "idle" /\ UNCHANGED <<wallet, now>> /\ Stores(t)
      /\ \A u \in Tasks \ {t} : tasks'[u] = tasks[u]
      /\ tasks'[t].pc # "readOld"
      /\ tasks'[t].pc = "removeOld" => tasks[t].pc = "readOld" /\ tasks[t].tok # None
      /\ Calm' => Calm
  BY ContinuesStore
<1>1. LivesOn'
  BY <1>0, StoresLivesOn
<1>2. SUFFICES ASSUME Calm' PROVE MovedFirst'
  BY <1>1 DEF Keeping, MovedFirst
<1>3. /\ Calm /\ tasks[t].w = wallet /\ Alone(t)
      /\ oldKey \in [Wallets -> Tokens] /\ store \in [Wallets -> Tokens] /\ wallet \in Wallets
  BY <1>0, <1>2, CalmRunner DEF Inv, TypeOK
<1>4. /\ \A w \in Wallets : oldKey[w] # None => store[w] = None
      /\ tasks[t].pc # "readOld" => oldKey[wallet] = None
      /\ tasks[t].pc = "readOld" => tasks[t].tok = oldKey[wallet]
  <2>1. oldKey[wallet] # None => \E u \in Tasks : tasks[u].pc = "readOld"
    BY <1>3 DEF Keeping, MovedFirst
  <2>2. \A u \in Tasks : tasks[u].pc = "readOld" => u = t
    BY <1>3 DEF Alone
  <2> QED
    BY <1>3, <2>1, <2>2 DEF Keeping, MovedFirst
<1>5. \A u \in Tasks \ {t} : tasks'[u].pc = "idle"
  BY <1>0, <1>3 DEF Alone
<1>6. oldKey'[wallet] = None /\ \A v \in Wallets \ {wallet} : oldKey'[v] = oldKey[v] /\ store'[v] = store[v]
  BY <1>0, <1>3, <1>4, StoreValue, OldKeyValue DEF Stores
<1>7. tasks'[t].pc = "removeOld" => store'[wallet] = None
  BY <1>0, <1>3, <1>4 DEF Stores
<1> QED
  BY <1>0, <1>3, <1>4, <1>5, <1>6, <1>7 DEF MovedFirst

LEMMA KeepingEnvironment ==
  ASSUME Inv, Keeping, FetchOk \/ FetchFails \/ CacheExpires \/ Tick
  PROVE  Keeping'
<1>1. UNCHANGED <<wallet, store, oldKey, mishaps>> /\ now' \in {now, now + 1}
  BY DEF FetchOk, FetchFails, CacheExpires, Tick, Settle
<1>2. \A u \in Tasks : tasks'[u].pc = tasks[u].pc /\ tasks'[u].tok = tasks[u].tok
  BY DEF FetchOk, FetchFails, CacheExpires, Tick, Settle, Inv, TypeOK, Task
<1>3. \A w \in Wallets : store[w] # None => store[w].exp \in Nat /\ now \in Nat
  BY HookSessionAssumption DEF Inv, TypeOK, Tokens, Token
<1>4. LivesOn'
  BY <1>1, <1>3, HookSessionAssumption DEF Keeping, LivesOn
<1>5. MovedFirst'
  BY <1>1, <1>2 DEF Keeping, MovedFirst, Calm
<1> QED
  BY <1>4, <1>5 DEF Keeping

\* A token that is stored or in the hands of a migration stays so.
LEMMA KeptStays ==
  ASSUME Inv, NEW w \in Wallets, Kept(w), Next
  PROVE  Kept(w)' \/ (w = wallet /\ \E t \in Tasks : LogOut(t)) \/ Reloads
<1> USE DEF Inv, TypeOK
<1>1. ASSUME NEW t \in Tasks, ChangeWallet(t) \/ LogIn(t) \/ LogOut(t), w # wallet \/ ~LogOut(t)
      PROVE  Kept(w)'
  <2>1. oldKey' = oldKey /\ store'[w] = store[w] /\ tasks[t].pc = "idle"
    BY <1>1 DEF ChangeWallet, LogIn, LogOut, Starts, Store
  <2>2. \A u \in Tasks \ {t} : tasks'[u] = tasks[u]
    BY <1>1 DEF ChangeWallet, LogIn, LogOut, Becomes
  <2> QED
    BY <2>1, <2>2 DEF Kept
<1>2. ASSUME NEW t \in Tasks,
             LoadStep(t) \/ AfterLogIn(t) \/ AfterLogInData(t) \/ AfterLogOut(t)
      PROVE  Kept(w)'
  <2>1. Stores(t) /\ \A u \in Tasks \ {t} : tasks'[u] = tasks[u]
    BY <1>2, ContinuesStore
  <2>2. tasks[t].w \in Wallets /\ NewTok(t) # None /\ [of |-> tasks[t].w, exp |-> 0] # None
    <3>1. tasks[t].w \in Wallets
      BY DEF Task
    <3> QED
      BY <3>1, NewToken, NewIsToken DEF NewTok
  <2>3. CASE tasks[t].pc # "removeOld" /\ UNCHANGED <<oldKey, store>>
    BY <2>1, <2>3 DEF Kept
  <2>4. CASE /\ oldKey' = OldKeyRemoved(tasks[t].w) /\ store' = store
             /\ tasks[t].pc = "readOld" /\ tasks'[t].pc = "removeOld" /\ tasks'[t].w = tasks[t].w
    <3>1. \A v \in Wallets : oldKey'[v] = IF v = tasks[t].w THEN None ELSE oldKey[v]
      BY <2>2, <2>4, OldKeyValue
    <3> QED
      BY <2>1, <2>4, <3>1 DEF Kept
  <2>5. CASE /\ oldKey' = oldKey
             /\ \/ store' = Store(tasks[t].w, NewTok(t)) /\ tasks[t].pc # "removeOld"
                \/ store' = Store(tasks[t].w, [of |-> tasks[t].w, exp |-> 0])
    <3>1. store'[tasks[t].w] # None /\ \A v \in Wallets \ {tasks[t].w} : store'[v] = store[v]
      BY <2>2, <2>5, StoreValue
    <3> QED
      BY <2>1, <2>5, <3>1 DEF Kept
  <2> QED
    BY <2>1, <2>3, <2>4, <2>5 DEF Stores
<1>3. CASE FetchOk \/ FetchFails \/ CacheExpires \/ Tick
  <2>1. UNCHANGED <<store, oldKey>>
    BY <1>3 DEF FetchOk, FetchFails, CacheExpires, Tick, Settle
  <2>2. \A u \in Tasks : tasks'[u].pc = tasks[u].pc /\ tasks'[u].w = tasks[u].w
    BY <1>3 DEF FetchOk, FetchFails, CacheExpires, Tick, Settle, Task
  <2> QED
    BY <2>1, <2>2 DEF Kept
<1> QED
  BY <1>1, <1>2, <1>3 DEF Next, Start, Reloads

\* A stored token is replaced by one that lives longer.
LEMMA LongerLife ==
  ASSUME Inv, Solo, Keeping, Next, Inv', NEW w \in Wallets,
         store[w] # None, store'[w] # None, store[w] # store'[w], Calm'
  PROVE  store'[w].exp > store[w].exp
<1> USE DEF Inv, TypeOK
<1>1. PICK t \in Tasks : LoadStep(t) \/ AfterLogIn(t) \/ AfterLogInData(t) \/ AfterLogOut(t)
  <2>1. ASSUME NEW t \in Tasks, Start(t) PROVE FALSE
    BY <2>1 DEF Start, ChangeWallet, LogIn, LogOut, Reload, Store
  <2>2. CASE FetchOk \/ FetchFails \/ CacheExpires \/ Tick
    BY <2>2 DEF FetchOk, FetchFails, CacheExpires, Tick, Settle
  <2> QED
    BY <2>1, <2>2 DEF Next
<1>2. tasks[t].pc # "idle" /\ Stores(t) /\ Calm
  BY <1>1, ContinuesStore
<1>3. tasks[t].w = wallet
  BY <1>2, CalmRunner
<1>4. tasks[t].pc # "removeOld"
  <2>1. tasks[t].pc = "removeOld" => store[wallet] = None
    BY <1>2 DEF Keeping, MovedFirst
  <2>2. tasks[t].pc = "removeOld" => store'[w] = store[w] \/ w = wallet
    BY <1>2, <1>3, StoreValue DEF Stores
  <2> QED
    BY <2>1, <2>2
<1>5. store'[w] = NewTok(t) /\ w = wallet
  BY <1>2, <1>3, <1>4, StoreValue DEF Stores
<1>6. store[w] \in Token /\ store[w].of = w /\ store[w].exp <= now + Life
  BY DEF Tokens, StoredTokenIsOwn, Keeping, LivesOn
<1>7. store[w] = [of |-> w, exp |-> store[w].exp] /\ store[w].exp \in Nat
  BY <1>6, HookSessionAssumption DEF Token
<1>8. NewTok(t) = [of |-> w, exp |-> now + Life]
  BY <1>3, <1>5 DEF NewTok
<1>9. store[w].exp # now + Life
  BY <1>5, <1>7, <1>8
<1> QED
  BY <1>5, <1>6, <1>7, <1>8, <1>9, HookSessionAssumption

\* Moving the token from the old key loses none: only a log-out and a reload in
\* the middle of it do; and without overlaps a token is only replaced by one that
\* lives longer.
THEOREM TokenKeptTheorem == Spec => TokenKept
<1>1. Inv /\ Solo /\ Keeping /\ [Next]_vars => Keeping'
  <2> SUFFICES ASSUME Inv, Solo, Keeping, [Next]_vars PROVE Keeping'
    OBVIOUS
  <2>1. CASE UNCHANGED vars
    BY <2>1 DEF vars, Keeping, LivesOn, MovedFirst, Calm
  <2> QED
    BY <2>1, KeepingStart, KeepingContinues, KeepingEnvironment DEF Next
<1>2. Spec => []Keeping
  BY <1>1, KeepingInit, InvHolds, SoloHolds, PTL DEF Spec
<1>3. Inv /\ Solo /\ Keeping /\ Inv' /\ [Next]_vars =>
        [\A w \in Wallets :
           /\ Kept(w) /\ ~Kept(w)' => (w = wallet /\ \E t \in Tasks : LogOut(t)) \/ Reloads
           /\ store[w] # None /\ store'[w] # None /\ store[w] # store'[w]
                /\ mishaps' \cap {"overlap", "earlier"} = {}
              => store'[w].exp > store[w].exp]_vars
  BY KeptStays, LongerLife DEF Calm
<1> QED
  BY <1>2, <1>3, InvHolds, SoloHolds, PTL DEF Spec, TokenKept

-----------------------------------------------------------------------------

(***************************************************************************)
(* TransactionLogin.                                                       *)
(***************************************************************************)

Beginning == {c \in Calls : calls[c].pc \in {"nonce", "digest"}}

\* Nothing knows of a begin that has not been called, and no two calls work for
\* the same begin.
Numbered ==
  /\ \A c \in Beginning : calls[c].b \in Begins /\ calls[c].b <= called
  /\ \A n \in returned \cup quiet : n <= called
  /\ uuid # NoUuid => uuid <= called
  /\ \A n \in Begins : sent[n] > 0 => n <= called
  /\ \A c \in Calls : calls[c].pc = "complete" => calls[c].b \in returned /\ calls[c].uuid \in Begins
  /\ \A c, d \in Beginning : calls[c].b = calls[d].b => c = d

\* A uuid that waits, or is still to be made up, has not been sent.
Unsent ==
  /\ uuid # NoUuid => sent[uuid] = 0
  /\ \A c \in CallsAt("nonce") : sent[calls[c].b] = 0 /\ uuid # calls[c].b

\* A begin since whose call no complete was called: its uuid, or a later one,
\* waits as soon as its nonce is here.
Remembered ==
  /\ BeginNotForgotten
  /\ \A c \in CallsAt("digest") : calls[c].b \in quiet => uuid # NoUuid

\* The begin that nothing has disturbed is the only one under way, then the one
\* whose uuid waits.
Undisturbed ==
  alone # NoUuid =>
    /\ alone <= called
    /\ \A c \in Beginning : calls[c].b = alone /\ alone \notin returned
    /\ client = "hook" /\ Beginning # {} => CallsAt("complete") = {}
    /\ client = "frontend" /\ CallsAt("digest") # {} => uuid = alone
    /\ alone \in returned => uuid \in {alone, NoUuid}

LoginInv == LoginTypeOK /\ Numbered
UndisturbedInv == Undisturbed /\ UndisturbedLoginMatches
FrontendInv == client = "frontend" => Unsent /\ UuidSentOnce /\ Remembered

-----------------------------------------------------------------------------

LEMMA InitLoginInv == LoginInit => LoginInv
BY TransactionLoginAssumption, SMT DEF TransactionLoginAssumption, LoginInit, LoginInv, LoginTypeOK, Numbered, Begins, Call, IdleCall, Beginning

LEMMA NextLoginInv == LoginInv /\ [LoginNext]_loginVars => LoginInv'
<1> SUFFICES ASSUME LoginInv, [LoginNext]_loginVars PROVE LoginInv'
  OBVIOUS
<1> USE TransactionLoginAssumption DEF TransactionLoginAssumption, LoginInv, LoginTypeOK, Numbered, Begins, Call, IdleCall, Beginning
<1>1. CASE UNCHANGED loginVars
  BY <1>1 DEF loginVars
<1>2. ASSUME NEW c \in Calls, Begin(c) PROVE LoginInv'
  <2>1. LoginTypeOK'
    <3>1. called + 1 \in Begins /\ called' = called + 1 /\ called' \in 0 .. MaxCalls
      BY <1>2 DEF Begin
    <3>2. [IdleCall EXCEPT !.pc = "nonce", !.b = called + 1] \in Call
      BY <3>1
    <3>3. calls' \in [Calls -> Call]
      BY <1>2, <3>2 DEF Begin
    <3>4. quiet' \subseteq Begins /\ alone' \in Begins \cup {NoUuid}
      BY <1>2, <3>1 DEF Begin
    <3> QED BY <1>2, <3>1, <3>3, <3>4 DEF Begin
  <2>2. Numbered'
    BY <1>2 DEF Begin
  <2> QED BY <2>1, <2>2
<1>3. ASSUME NEW c \in Calls, NonceAnswered(c) PROVE LoginInv'
  <2>1. LoginTypeOK'
    BY <1>3 DEF NonceAnswered, RememberAtNonce
  <2>2. Numbered'
    BY <1>3 DEF NonceAnswered, RememberAtNonce
  <2> QED BY <2>1, <2>2
<1>4. ASSUME NEW c \in Calls, BeginFails(c) PROVE LoginInv'
  <2>1. LoginTypeOK'
    BY <1>4 DEF BeginFails
  <2>2. Numbered'
    BY <1>4 DEF BeginFails
  <2> QED BY <2>1, <2>2
<1>5. ASSUME NEW c \in Calls, BeginReturns(c) PROVE LoginInv'
  <2>1. LoginTypeOK'
    BY <1>5 DEF BeginReturns, RememberAtReturn
  <2>2. Numbered'
    BY <1>5 DEF BeginReturns, RememberAtReturn
  <2> QED BY <2>1, <2>2
<1>6. ASSUME NEW c \in Calls, NEW b \in Begins, Complete(c, b) PROVE LoginInv'
  <2>1. LoginTypeOK'
    BY <1>6 DEF Complete, UuidWhileCompleting
  <2>2. Numbered'
    BY <1>6 DEF Complete, UuidWhileCompleting
  <2> QED BY <2>1, <2>2
<1>7. ASSUME NEW c \in Calls, NEW b \in Begins, NotBegun(c, b) PROVE LoginInv'
  BY <1>7 DEF NotBegun
<1>8. ASSUME NEW c \in Calls, CompleteEnds(c) PROVE LoginInv'
  <2>1. LoginTypeOK'
    BY <1>8 DEF CompleteEnds, UuidAfterCompleting
  <2>2. Numbered'
    BY <1>8 DEF CompleteEnds, UuidAfterCompleting
  <2> QED BY <2>1, <2>2
<1> QED BY <1>1, <1>2, <1>3, <1>4, <1>5, <1>6, <1>7, <1>8 DEF LoginNext

\* Type correctness, for both clients.
THEOREM LoginTypeCorrect == LoginSpec => []LoginTypeOK
<1>1. LoginInv => LoginTypeOK
  BY DEF LoginInv
<1> QED BY <1>1, InitLoginInv, NextLoginInv, PTL DEF LoginSpec

-----------------------------------------------------------------------------

LEMMA InitAlone == LoginInit => UndisturbedInv
BY SMT DEF LoginInit, UndisturbedInv, Undisturbed, UndisturbedLoginMatches, Beginning, CallsAt, IdleCall, Begins

LEMMA NextAlone == LoginInv /\ LoginInv' /\ UndisturbedInv /\ [LoginNext]_loginVars => UndisturbedInv'
<1> SUFFICES ASSUME LoginInv, LoginInv', UndisturbedInv, [LoginNext]_loginVars PROVE UndisturbedInv'
  OBVIOUS
<1> USE TransactionLoginAssumption
    DEF TransactionLoginAssumption, LoginInv, LoginTypeOK, Numbered, Begins, Call, IdleCall, Beginning, CallsAt,
        UndisturbedInv, Undisturbed, UndisturbedLoginMatches
<1>1. CASE UNCHANGED loginVars
  BY <1>1 DEF loginVars
<1>2. ASSUME NEW c \in Calls, Begin(c) PROVE UndisturbedInv'
  <2>1. Undisturbed'
    BY <1>2 DEF Begin, Spoilers
  <2>2. UndisturbedLoginMatches'
    BY <1>2 DEF Begin, Spoilers
  <2> QED BY <2>1, <2>2
<1>3. ASSUME NEW c \in Calls, NonceAnswered(c) PROVE UndisturbedInv'
  <2>1. Undisturbed'
    BY <1>3 DEF NonceAnswered, RememberAtNonce
  <2>2. UndisturbedLoginMatches'
    BY <1>3 DEF NonceAnswered, RememberAtNonce
  <2> QED BY <2>1, <2>2
<1>4. ASSUME NEW c \in Calls, BeginFails(c) PROVE UndisturbedInv'
  <2>1. Undisturbed'
    BY <1>4 DEF BeginFails
  <2>2. UndisturbedLoginMatches'
    BY <1>4 DEF BeginFails
  <2> QED BY <2>1, <2>2
<1>5. ASSUME NEW c \in Calls, BeginReturns(c) PROVE UndisturbedInv'
  <2>1. Undisturbed'
    BY <1>5 DEF BeginReturns, RememberAtReturn
  <2>2. UndisturbedLoginMatches'
    BY <1>5 DEF BeginReturns, RememberAtReturn
  <2> QED BY <2>1, <2>2
<1>6. ASSUME NEW c \in Calls, NEW b \in Begins, Complete(c, b) PROVE UndisturbedInv'
  <2>1. Undisturbed'
    BY <1>6 DEF Complete, UuidWhileCompleting
  <2>2. UndisturbedLoginMatches'
    BY <1>6 DEF Complete, UuidWhileCompleting
  <2> QED BY <2>1, <2>2
<1>7. ASSUME NEW c \in Calls, NEW b \in Begins, NotBegun(c, b) PROVE UndisturbedInv'
  <2>1. Undisturbed'
    BY <1>7 DEF NotBegun
  <2>2. UndisturbedLoginMatches'
    BY <1>7 DEF NotBegun
  <2> QED BY <2>1, <2>2
<1>8. ASSUME NEW c \in Calls, CompleteEnds(c) PROVE UndisturbedInv'
  <2>1. Undisturbed'
    BY <1>8 DEF CompleteEnds, UuidAfterCompleting
  <2>2. UndisturbedLoginMatches'
    BY <1>8 DEF CompleteEnds, UuidAfterCompleting
  <2> QED BY <2>1, <2>2
<1> QED BY <1>1, <1>2, <1>3, <1>4, <1>5, <1>6, <1>7, <1>8 DEF LoginNext

LEMMA InitFrontend == LoginInit => FrontendInv
BY SMT DEF LoginInit, FrontendInv, Unsent, UuidSentOnce, Remembered, BeginNotForgotten, Beginning,
  CallsAt, IdleCall, Begins

LEMMA NextFrontend == LoginInv /\ LoginInv' /\ FrontendInv /\ [LoginNext]_loginVars => FrontendInv'
<1> SUFFICES ASSUME LoginInv, LoginInv', FrontendInv, [LoginNext]_loginVars, client' = "frontend"
             PROVE Unsent' /\ UuidSentOnce' /\ Remembered'
  BY DEF FrontendInv
<1>0. client = "frontend"
  BY DEF LoginNext, loginVars, Begin, NonceAnswered, BeginFails, BeginReturns, Complete, NotBegun, CompleteEnds
<1> USE <1>0, TransactionLoginAssumption
    DEF TransactionLoginAssumption, LoginInv, LoginTypeOK, Numbered, Begins, Call, IdleCall, Beginning, CallsAt,
        FrontendInv, Unsent, UuidSentOnce, Remembered, BeginNotForgotten
<1>1. CASE UNCHANGED loginVars
  BY <1>1 DEF loginVars
<1>2. ASSUME NEW c \in Calls, Begin(c) PROVE Unsent' /\ UuidSentOnce' /\ Remembered'
  <2>1. Unsent'
    BY <1>2 DEF Begin, Spoilers
  <2>2. UuidSentOnce'
    BY <1>2 DEF Begin, Spoilers
  <2>3. Remembered'
    BY <1>2 DEF Begin, Spoilers
  <2> QED BY <2>1, <2>2, <2>3
<1>3. ASSUME NEW c \in Calls, NonceAnswered(c) PROVE Unsent' /\ UuidSentOnce' /\ Remembered'
  <2>1. Unsent'
    BY <1>3 DEF NonceAnswered, RememberAtNonce
  <2>2. UuidSentOnce'
    BY <1>3 DEF NonceAnswered, RememberAtNonce
  <2>3. Remembered'
    BY <1>3 DEF NonceAnswered, RememberAtNonce
  <2> QED BY <2>1, <2>2, <2>3
<1>4. ASSUME NEW c \in Calls, BeginFails(c) PROVE Unsent' /\ UuidSentOnce' /\ Remembered'
  <2>1. Unsent'
    BY <1>4 DEF BeginFails
  <2>2. UuidSentOnce'
    BY <1>4 DEF BeginFails
  <2>3. Remembered'
    BY <1>4 DEF BeginFails
  <2> QED BY <2>1, <2>2, <2>3
<1>5. ASSUME NEW c \in Calls, BeginReturns(c) PROVE Unsent' /\ UuidSentOnce' /\ Remembered'
  <2>1. Unsent'
    BY <1>5 DEF BeginReturns, RememberAtReturn
  <2>2. UuidSentOnce'
    BY <1>5 DEF BeginReturns, RememberAtReturn
  <2>3. Remembered'
    BY <1>5 DEF BeginReturns, RememberAtReturn
  <2> QED BY <2>1, <2>2, <2>3
<1>6. ASSUME NEW c \in Calls, NEW b \in Begins, Complete(c, b) PROVE Unsent' /\ UuidSentOnce' /\ Remembered'
  <2>1. Unsent'
    BY <1>6 DEF Complete, UuidWhileCompleting
  <2>2. UuidSentOnce'
    BY <1>6 DEF Complete, UuidWhileCompleting
  <2>3. Remembered'
    BY <1>6 DEF Complete, UuidWhileCompleting
  <2> QED BY <2>1, <2>2, <2>3
<1>7. ASSUME NEW c \in Calls, NEW b \in Begins, NotBegun(c, b) PROVE Unsent' /\ UuidSentOnce' /\ Remembered'
  <2>1. Unsent'
    BY <1>7 DEF NotBegun
  <2>2. UuidSentOnce'
    BY <1>7 DEF NotBegun
  <2>3. Remembered'
    BY <1>7 DEF NotBegun
  <2> QED BY <2>1, <2>2, <2>3
<1>8. ASSUME NEW c \in Calls, CompleteEnds(c) PROVE Unsent' /\ UuidSentOnce' /\ Remembered'
  <2>1. Unsent'
    BY <1>8 DEF CompleteEnds, UuidAfterCompleting
  <2>2. UuidSentOnce'
    BY <1>8 DEF CompleteEnds, UuidAfterCompleting
  <2>3. Remembered'
    BY <1>8 DEF CompleteEnds, UuidAfterCompleting
  <2> QED BY <2>1, <2>2, <2>3
<1> QED BY <1>1, <1>2, <1>3, <1>4, <1>5, <1>6, <1>7, <1>8 DEF LoginNext

LEMMA LoginInvariant == LoginSpec => [](LoginInv /\ UndisturbedInv /\ FrontendInv)
<1>1. LoginInit => LoginInv /\ UndisturbedInv /\ FrontendInv
  BY InitLoginInv, InitAlone, InitFrontend
<1>2. (LoginInv /\ UndisturbedInv /\ FrontendInv) /\ [LoginNext]_loginVars => (LoginInv /\ UndisturbedInv /\ FrontendInv)'
  BY NextLoginInv, NextAlone, NextFrontend
<1> QED BY <1>1, <1>2, PTL DEF LoginSpec

\* The frontend client sends each one-time uuid at most once.
THEOREM UuidSentOnceTheorem == LoginSpec => []UuidSentOnce
<1>1. LoginInv /\ UndisturbedInv /\ FrontendInv => UuidSentOnce
  BY DEF FrontendInv, UuidSentOnce
<1> QED BY <1>1, LoginInvariant, PTL

\* The frontend client does not forget a begin before a complete is called.
THEOREM BeginNotForgottenTheorem == LoginSpec => []BeginNotForgotten
<1>1. LoginInv /\ UndisturbedInv /\ FrontendInv => BeginNotForgotten
  BY DEF FrontendInv, Remembered, BeginNotForgotten
<1> QED BY <1>1, LoginInvariant, PTL

\* A log-in of either client that nothing disturbs sends the uuid of its
\* own transaction.
THEOREM UndisturbedLoginTheorem == LoginSpec => []UndisturbedLoginMatches
<1>1. LoginInv /\ UndisturbedInv /\ FrontendInv => UndisturbedLoginMatches
  BY DEF UndisturbedInv
<1> QED BY <1>1, LoginInvariant, PTL
=============================================================================
