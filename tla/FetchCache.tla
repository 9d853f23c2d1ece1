----------------------------- MODULE FetchCache -----------------------------
(***************************************************************************)
(* The read path of the React hook SDK: fetchDataImpl and the fetchData    *)
(* callback of useNotifiClient that drives it.                             *)
(*                                                                         *)
(* Any number of calls of fetchData overlap on one FetchDataState object   *)
(* ("cell"): they share the pending promise, are served the last result    *)
(* for DataTtlMs, or start a new fetch of all the user's collections.      *)
(* A forced fetch replaces the cell, so that fetches begun on the old one  *)
(* keep running and report into a cell nobody reads any more.              *)
(*                                                                         *)
(* JavaScript runs one continuation at a time and drains the continuations *)
(* of settled promises before it takes the next event from the network:    *)
(* Settled continuations are separate steps here, and replies arrive only  *)
(* when none of them is due (Quiet).                                       *)
(***************************************************************************)
EXTENDS Naturals

CONSTANTS
  Callers,      \* the activations of fetchData
  Collections,  \* the collections doFetchData reads in parallel
  Fetches,      \* identities of doFetchData promises
  Ttl,          \* DataTtlMs, in ticks
  MaxVersion,   \* bound: how often a collection changes on the server
  MaxCell,      \* bound: how often a fetch is forced
  None          \* undefined / null

ASSUME FetchCacheAssumption ==
  /\ Ttl \in Nat /\ MaxVersion \in Nat /\ MaxCell \in Nat
  /\ None \notin Fetches
  /\ None \notin Nat
  /\ None \notin [Collections -> Nat]

VARIABLES
  version,  \* server: the version of every collection
  cells,    \* every FetchDataState object ever held by fetchDataRef
  current,  \* the one fetchDataRef.current holds
  fetches,  \* the doFetchData promises
  calls,    \* the running activations of fetchData
  shown,    \* the internalData React state
  loading   \* the loading React state

vars == <<version, cells, current, fetches, calls, shown, loading>>

Cells == 0 .. MaxCell
Snapshot == [Collections -> Nat]

\* age counts the ticks since lastSuccessTime; beyond Ttl all ages are alike.
EmptyCell == [pending |-> None, data |-> None, age |-> 0]
NoFetch == [status |-> "unused", got |-> [k \in Collections |-> None]]

\* forced and asOf (the server's versions when the call was made) are history
\* variables: the code keeps neither, the properties speak of both.
IdleCall == [pc |-> "idle", cell |-> 0, fetch |-> None, data |-> None,
             forced |-> FALSE, asOf |-> None]

Init ==
  /\ version = [k \in Collections |-> 0]
  /\ cells = [g \in Cells |-> EmptyCell]
  /\ current = 0
  /\ fetches = [f \in Fetches |-> NoFetch]
  /\ calls = [c \in Callers |-> IdleCall]
  /\ shown = None
  /\ loading = FALSE

-----------------------------------------------------------------------------
(* Continuations *)

Settled(f) == fetches[f].status \in {"ok", "failed"}

\* The call that created the promise awaited it first, so its continuation is
\* first in line: nobody who joined later resumes before it.
OwnerDone(f) == \A c \in Callers : ~(calls[c].pc = "owner" /\ calls[c].fetch = f)

Due(c) ==
  \/ calls[c].pc \in {"owner", "joiner"} /\ Settled(calls[c].fetch)
  \/ calls[c].pc \in {"answered", "rejected"}

Quiet == \A c \in Callers : ~Due(c)

-----------------------------------------------------------------------------
(* fetchData and fetchDataImpl *)

\* A promise identity is free when no cell and no call refers to it.
Unreferenced(f) ==
  /\ \A g \in Cells : cells[g].pending # f
  /\ \A c \in Callers : calls[c].fetch # f

Begin(c, g, forced) ==
  [IdleCall EXCEPT !.cell = g, !.forced = forced, !.asOf = version]

\* A fetch is pending on the cell: await the same promise.
JoinPending(c, g) ==
  /\ cells[g].pending # None
  /\ calls' = [calls EXCEPT ![c] = [Begin(c, g, FALSE) EXCEPT
                 !.pc = "joiner", !.fetch = cells[g].pending]]
  /\ UNCHANGED <<cells, fetches>>

\* currentTime <= lastSuccessTime + DataTtlMs: answer from the cell.
ServeCached(c, g) ==
  /\ cells[g].pending = None
  /\ cells[g].data # None
  /\ cells[g].age <= Ttl
  /\ calls' = [calls EXCEPT ![c] = [Begin(c, g, FALSE) EXCEPT
                 !.pc = "answered", !.data = cells[g].data]]
  /\ UNCHANGED <<cells, fetches>>

\* Mutant of StartFetch: the promise is not published in the cell.
UnpublishedFetch(c, g, forced) ==
  \E f \in Fetches :
    /\ Unreferenced(f)
    /\ fetches' = [fetches EXCEPT ![f] = [NoFetch EXCEPT !.status = "inflight"]]
    /\ calls' = [calls EXCEPT ![c] = [Begin(c, g, forced) EXCEPT
                   !.pc = "owner", !.fetch = f]]
    /\ UNCHANGED cells

\* Nothing usable in the cell: start doFetchData and publish its promise.
StartFetch(c, g, forced) ==
  \E f \in Fetches :
    /\ Unreferenced(f)
    /\ fetches' = [fetches EXCEPT ![f] = [NoFetch EXCEPT !.status = "inflight"]]
    /\ cells' = [cells EXCEPT ![g] = [@ EXCEPT !.pending = f]]
    /\ calls' = [calls EXCEPT ![c] = [Begin(c, g, forced) EXCEPT
                   !.pc = "owner", !.fetch = f]]

FetchData(c) ==
  /\ calls[c].pc = "idle"
  /\ \/ JoinPending(c, current)
     \/ ServeCached(c, current)
     \/ /\ cells[current].pending = None
        /\ cells[current].data = None \/ cells[current].age > Ttl
        /\ StartFetch(c, current, FALSE)
  /\ loading' = TRUE
  /\ UNCHANGED <<version, current, shown>>

\* Mutant of ForceFetchData: a fetch already pending is good enough.
ForceJoins(c) ==
  /\ calls[c].pc = "idle"
  /\ current < MaxCell
  /\ \/ /\ cells[current].pending # None
        /\ calls' = [calls EXCEPT ![c] = [Begin(c, current, TRUE) EXCEPT
                       !.pc = "joiner", !.fetch = cells[current].pending]]
        /\ UNCHANGED <<cells, current, fetches>>
     \/ /\ cells[current].pending = None
        /\ current' = current + 1
        /\ StartFetch(c, current + 1, TRUE)
  /\ loading' = TRUE
  /\ UNCHANGED <<version, shown>>

\* fetchData(true): a new, empty FetchDataState, which is then fetched into.
ForceFetchData(c) ==
  /\ calls[c].pc = "idle"
  /\ current < MaxCell
  /\ current' = current + 1
  /\ StartFetch(c, current + 1, TRUE)
  /\ loading' = TRUE
  /\ UNCHANGED <<version, shown>>

\* Mutant of OwnerResume: the result goes into fetchDataRef.current, not into
\* the FetchDataState the call was made with.
OwnerFillsCurrent(c) ==
  LET f == calls[c].fetch IN
  /\ calls[c].pc = "owner"
  /\ \/ /\ fetches[f].status = "ok"
        /\ cells' = [cells EXCEPT ![current] =
                       [pending |-> None, data |-> fetches[f].got, age |-> 0]]
        /\ calls' = [calls EXCEPT ![c] = [@ EXCEPT
                       !.pc = "answered", !.fetch = None, !.data = fetches[f].got]]
     \/ /\ fetches[f].status = "failed"
        /\ calls' = [calls EXCEPT ![c] = [@ EXCEPT
                       !.pc = "rejected", !.fetch = None]]
        /\ UNCHANGED cells
  /\ UNCHANGED <<version, current, fetches, shown, loading>>

\* The continuation of "const results = await promise" in the creating call.
\* A rejection propagates past the assignments: the promise stays pending.
OwnerResume(c) ==
  LET f == calls[c].fetch
      g == calls[c].cell
  IN
  /\ calls[c].pc = "owner"
  /\ \/ /\ fetches[f].status = "ok"
        /\ cells' = [cells EXCEPT ![g] =
                       [pending |-> None, data |-> fetches[f].got, age |-> 0]]
        /\ calls' = [calls EXCEPT ![c] = [@ EXCEPT
                       !.pc = "answered", !.fetch = None, !.data = fetches[f].got]]
     \/ /\ fetches[f].status = "failed"
        /\ calls' = [calls EXCEPT ![c] = [@ EXCEPT
                       !.pc = "rejected", !.fetch = None]]
        /\ UNCHANGED cells
  /\ UNCHANGED <<version, current, fetches, shown, loading>>

\* Mutant of JoinerResume: a rejection of the shared promise is not passed on.
JoinerWaitsForOk(c) ==
  LET f == calls[c].fetch IN
  /\ calls[c].pc = "joiner"
  /\ OwnerDone(f)
  /\ fetches[f].status = "ok"
  /\ calls' = [calls EXCEPT ![c] = [@ EXCEPT
                 !.pc = "answered", !.fetch = None, !.data = fetches[f].got]]
  /\ UNCHANGED <<version, cells, current, fetches, shown, loading>>

\* The continuation of "return await state.pendingPromise".
JoinerResume(c) ==
  LET f == calls[c].fetch IN
  /\ calls[c].pc = "joiner"
  /\ OwnerDone(f)
  /\ \/ /\ fetches[f].status = "ok"
        /\ calls' = [calls EXCEPT ![c] = [@ EXCEPT
                       !.pc = "answered", !.fetch = None, !.data = fetches[f].got]]
     \/ /\ fetches[f].status = "failed"
        /\ calls' = [calls EXCEPT ![c] = [@ EXCEPT
                       !.pc = "rejected", !.fetch = None]]
  /\ UNCHANGED <<version, cells, current, fetches, shown, loading>>

\* The rest of fetchData: internalData, the catch and the finally blocks.
Deliver(c) ==
  /\ \/ calls[c].pc = "answered" /\ shown' = calls[c].data
     \/ calls[c].pc = "rejected" /\ UNCHANGED shown
  /\ calls' = [calls EXCEPT ![c] = IdleCall]
  /\ loading' = FALSE
  /\ UNCHANGED <<version, cells, current, fetches>>

-----------------------------------------------------------------------------
(* The ten reads of doFetchData under Promise.all *)

\* Mutant of Complete: Promise.race in place of Promise.all.
CompleteAtFirst(got) == \E k \in Collections : got[k] # None

Complete(got) == \A k \in Collections : got[k] # None

ReadReplies(f, k) ==
  LET got == [fetches[f].got EXCEPT ![k] = version[k]] IN
  /\ Quiet
  /\ fetches[f].status = "inflight"
  /\ fetches[f].got[k] = None
  /\ fetches' = [fetches EXCEPT ![f] =
       [status |-> IF Complete(got) THEN "ok" ELSE "inflight", got |-> got]]
  /\ UNCHANGED <<version, cells, current, calls, shown, loading>>

\* The first rejection rejects the whole fetch.
ReadFails(f, k) ==
  /\ Quiet
  /\ fetches[f].status = "inflight"
  /\ fetches[f].got[k] = None
  /\ fetches' = [fetches EXCEPT ![f] = [@ EXCEPT !.status = "failed"]]
  /\ UNCHANGED <<version, cells, current, calls, shown, loading>>

-----------------------------------------------------------------------------
(* The environment *)

\* Some client of the same user changes a collection.
ServerWrites(k) ==
  /\ version[k] < MaxVersion
  /\ version' = [version EXCEPT ![k] = @ + 1]
  /\ UNCHANGED <<cells, current, fetches, calls, shown, loading>>

Tick ==
  /\ cells' = [g \in Cells |->
                 IF cells[g].data # None /\ cells[g].age <= Ttl
                 THEN [cells[g] EXCEPT !.age = @ + 1]
                 ELSE cells[g]]
  /\ UNCHANGED <<version, current, fetches, calls, shown, loading>>

Continue(c) == OwnerResume(c) \/ JoinerResume(c) \/ Deliver(c)

Network(f) == \E k \in Collections : ReadReplies(f, k) \/ ReadFails(f, k)

Next ==
  \/ \E c \in Callers : FetchData(c) \/ ForceFetchData(c) \/ Continue(c)
  \/ \E f \in Fetches : Network(f)
  \/ \E k \in Collections : ServerWrites(k)
  \/ Tick

Spec == Init /\ [][Next]_vars

\* The JavaScript engine runs every due continuation, and the HTTP client
\* settles every request (with an answer or an error). The event loop takes a
\* reply only between continuations, again and again: strong fairness.
Fairness ==
  /\ \A c \in Callers : WF_vars(Continue(c))
  /\ \A f \in Fetches : SF_vars(Network(f))

LiveSpec == Spec /\ Fairness

-----------------------------------------------------------------------------
(* Properties *)

CellRecord == [pending : Fetches \cup {None}, data : Snapshot \cup {None},
               age : 0 .. Ttl + 1]
FetchRecord == [status : {"unused", "inflight", "ok", "failed"},
                got : [Collections -> Nat \cup {None}]]
CallRecord == [pc : {"idle", "owner", "joiner", "answered", "rejected"},
               cell : Cells, fetch : Fetches \cup {None},
               data : Snapshot \cup {None}, forced : BOOLEAN,
               asOf : Snapshot \cup {None}]

TypeOK ==
  /\ version \in Snapshot
  /\ cells \in [Cells -> CellRecord]
  /\ current \in Cells
  /\ fetches \in [Fetches -> FetchRecord]
  /\ calls \in [Callers -> CallRecord]
  /\ shown \in Snapshot \cup {None}
  /\ loading \in BOOLEAN

NotOlder(s, t) == \A k \in Collections : s[k] >= t[k]

\* However many components call fetchData at once, at most one of them has a
\* fetch of its own running on a given cell; the others share its promise
\* (the promise is published in the same synchronous block as the check).
SingleFlight ==
  \A c, d \in Callers :
    /\ calls[c].pc = "owner" /\ calls[d].pc = "owner"
    /\ calls[c].cell = calls[d].cell
    => c = d

\* A forced fetch answers with data no older, collection by collection, than
\* the moment it was called: neither an older request still in flight nor
\* the cache can answer it.
ForcedIsFresh ==
  \A c \in Callers :
    calls[c].pc = "answered" /\ calls[c].forced
      => NotOlder(calls[c].data, calls[c].asOf)

\* The data of a cell never goes back to an older version of any collection:
\* a fetch that was overtaken by a forced one cannot write over newer data.
CacheNeverRegresses ==
  [][\A g \in Cells :
       cells[g].data # None /\ cells'[g].data # None
         => NotOlder(cells'[g].data, cells[g].data)]_vars

\* The loading flag does not stick: when no fetchData is running it is off.
NoStuckLoading == (\A c \in Callers : calls[c].pc = "idle") => ~loading

\* Every call of fetchData is eventually answered or rejected.
CallsReturn == \A c \in Callers : calls[c].pc # "idle" ~> calls[c].pc = "idle"

-----------------------------------------------------------------------------
(* The abstract specification *)

\* A call as its caller sees it: whose promise it awaits does not matter.
SeenCall(c) ==
  [pc |-> IF calls[c].pc \in {"owner", "joiner"} THEN "waiting" ELSE calls[c].pc,
   epoch |-> calls[c].cell, data |-> calls[c].data,
   forced |-> calls[c].forced, asOf |-> calls[c].asOf]

Service == INSTANCE FetchService WITH
  MaxEpoch <- MaxCell,
  epoch <- current,
  fetched <- cells[current].data,
  calls <- [c \in Callers |-> SeenCall(c)]

\* fetchData with its cells, shared promises and expiry is a FetchService:
\* forced calls get fresh data; within the life of a FetchDataState answers
\* never get older, whoever asked first; an overtaken fetch changes nothing
\* the next caller is served; and until a fetch is forced the page never goes
\* back to older data.
ServiceRefined == Service!Spec

=============================================================================
