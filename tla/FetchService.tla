---------------------------- MODULE FetchService ----------------------------
(***************************************************************************)
(* What fetchData of the React hook SDK promises the components that call  *)
(* it, with no promise, cell or clock in sight: a service that answers     *)
(* each call with a snapshot of the user's collections, from what it       *)
(* fetched last or from a newer fetch.  FetchCache implements it.          *)
(***************************************************************************)
EXTENDS Naturals

CONSTANTS
  Callers,      \* the activations of fetchData
  Collections,  \* what a snapshot consists of
  MaxVersion,   \* bound: how often a collection changes on the server
  MaxEpoch,     \* bound: how often a fetch is forced
  None

VARIABLES
  version,  \* server: the version of every collection
  epoch,    \* how many fetches were forced so far
  fetched,  \* the last snapshot fetched in this epoch, or None
  calls,    \* the calls: pc, the epoch they belong to, their answer
  shown,    \* the snapshot the page shows
  loading   \* the page's loading flag

vars == <<version, epoch, fetched, calls, shown, loading>>

\* A snapshot may mix versions: its collections are read in parallel.
Snapshots == [Collections -> 0 .. MaxVersion]

NotOlder(s, t) == \A k \in Collections : s[k] >= t[k]

IdleCall == [pc |-> "idle", epoch |-> 0, data |-> None, forced |-> FALSE,
             asOf |-> None]

\* A call that begins.
Begin(pc, e, data, forced) ==
  [pc |-> pc, epoch |-> e, data |-> data, forced |-> forced, asOf |-> version]

Init ==
  /\ version = [k \in Collections |-> 0]
  /\ epoch = 0
  /\ fetched = None
  /\ calls = [c \in Callers |-> IdleCall]
  /\ shown = None
  /\ loading = FALSE

\* A call waits for an answer.
Ask(c) ==
  /\ calls[c].pc = "idle"
  /\ calls' = [calls EXCEPT ![c] = Begin("waiting", epoch, None, FALSE)]
  /\ loading' = TRUE
  /\ UNCHANGED <<version, epoch, fetched, shown>>

\* A call is answered at once with what was fetched last.
Serve(c) ==
  /\ calls[c].pc = "idle"
  /\ fetched # None
  /\ calls' = [calls EXCEPT ![c] = Begin("answered", epoch, fetched, FALSE)]
  /\ loading' = TRUE
  /\ UNCHANGED <<version, epoch, fetched, shown>>

\* A forced call forgets what was fetched and begins an epoch.
Force(c) ==
  /\ calls[c].pc = "idle"
  /\ epoch < MaxEpoch
  /\ epoch' = epoch + 1
  /\ fetched' = None
  /\ calls' = [calls EXCEPT ![c] = Begin("waiting", epoch + 1, None, TRUE)]
  /\ loading' = TRUE
  /\ UNCHANGED <<version, shown>>

\* An answer is never from the future; to a forced call it is no older than
\* the call; to a call of the current epoch it is no older than what this
\* epoch fetched, and becomes what was fetched. A call a forced one overtook
\* gets its answer too, and leaves no trace in the epoch.
Answer(c) ==
  /\ calls[c].pc = "waiting"
  /\ \E d \in Snapshots :
       /\ NotOlder(version, d)
       /\ calls[c].forced => NotOlder(d, calls[c].asOf)
       /\ \/ /\ calls[c].epoch = epoch
             /\ fetched # None => NotOlder(d, fetched)
             /\ fetched' = d
          \/ /\ calls[c].epoch < epoch
             /\ UNCHANGED fetched
       /\ calls' = [calls EXCEPT ![c] = [@ EXCEPT !.pc = "answered", !.data = d]]
  /\ UNCHANGED <<version, epoch, shown, loading>>

Reject(c) ==
  /\ calls[c].pc = "waiting"
  /\ calls' = [calls EXCEPT ![c] = [@ EXCEPT !.pc = "rejected"]]
  /\ UNCHANGED <<version, epoch, fetched, shown, loading>>

\* The answer reaches the page. Until a fetch was forced the page never goes
\* back to an older snapshot; an overtaken answer may set it back.
Deliver(c) ==
  /\ \/ /\ calls[c].pc = "answered"
        /\ epoch = 0 /\ shown # None => NotOlder(calls[c].data, shown)
        /\ shown' = calls[c].data
     \/ /\ calls[c].pc = "rejected"
        /\ UNCHANGED shown
  /\ calls' = [calls EXCEPT ![c] = IdleCall]
  /\ loading' = FALSE
  /\ UNCHANGED <<version, epoch, fetched>>

Write(k) ==
  /\ version[k] < MaxVersion
  /\ version' = [version EXCEPT ![k] = @ + 1]
  /\ UNCHANGED <<epoch, fetched, calls, shown, loading>>

Next ==
  \/ \E c \in Callers : Ask(c) \/ Serve(c) \/ Force(c)
                        \/ Answer(c) \/ Reject(c) \/ Deliver(c)
  \/ \E k \in Collections : Write(k)

Spec == Init /\ [][Next]_vars

=============================================================================
