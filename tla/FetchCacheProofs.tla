-------------------------- MODULE FetchCacheProofs --------------------------
(* Theorems about FetchCache, for any set of callers, collections and        *)
(* promise identities and any bounds.                                        *)
EXTENDS FetchCache, TLAPS

-----------------------------------------------------------------------------
(* The inductive invariant *)

\* A call that runs a fetch is the one whose promise its cell publishes.
OwnerPublished ==
  \A c \in Callers : calls[c].pc = "owner" =>
    /\ calls[c].fetch \in Fetches
    /\ cells[calls[c].cell].pending = calls[c].fetch

\* A promise was created by one call.
OneOwner ==
  \A c, d \in Callers :
    /\ calls[c].pc = "owner" /\ calls[d].pc = "owner"
    /\ calls[c].fetch = calls[d].fetch
    => c = d

\* The cells later forced fetches will install are empty and unknown.
FutureCellsEmpty ==
  /\ \A g \in Cells : g > current => cells[g] = EmptyCell
  /\ \A c \in Callers : calls[c].cell <= current

\* What a call read or waits for is no older than what its cell holds.
FetchAboveCell ==
  \A c \in Callers : calls[c].pc = "owner" =>
    \A k \in Collections :
      /\ cells[calls[c].cell].data # None
      /\ fetches[calls[c].fetch].got[k] # None
      => fetches[calls[c].fetch].got[k] >= cells[calls[c].cell].data[k]

CellBelowVersion ==
  \A g \in Cells : cells[g].data # None => NotOlder(version, cells[g].data)

\* Nothing is read before the server has it.
ReadBelowVersion ==
  \A f \in Fetches, k \in Collections :
    fetches[f].got[k] # None => version[k] >= fetches[f].got[k]

\* A forced call runs its own fetch, all of whose reads come after the call.
ForcedReads ==
  \A c \in Callers : calls[c].forced =>
    /\ calls[c].pc # "joiner"
    /\ calls[c].asOf \in Snapshot
    /\ NotOlder(version, calls[c].asOf)
    /\ calls[c].pc = "owner" =>
         \A k \in Collections :
           fetches[calls[c].fetch].got[k] # None
             => fetches[calls[c].fetch].got[k] >= calls[c].asOf[k]

\* A promise is fulfilled only when every read was answered.
OkIsComplete ==
  \A f \in Fetches : fetches[f].status = "ok" => fetches[f].got \in Snapshot

\* Whoever awaits a promise awaits one that exists.
AwaitsPromise ==
  \A c \in Callers :
    calls[c].pc \in {"owner", "joiner"} => calls[c].fetch \in Fetches

\* The type invariant is not inductive alone: a result has its type because
\* Promise.all is fulfilled only when complete.
TypeInv == TypeOK /\ OkIsComplete /\ AwaitsPromise

IInv ==
  /\ TypeInv
  /\ OwnerPublished
  /\ OneOwner
  /\ FutureCellsEmpty
  /\ SingleFlight
  /\ FetchAboveCell
  /\ CellBelowVersion
  /\ ReadBelowVersion
  /\ ForcedReads
  /\ ForcedIsFresh

-----------------------------------------------------------------------------
(* Type correctness *)

LEMMA IdleCallType == IdleCall \in CallRecord
BY FetchCacheAssumption DEF IdleCall, CallRecord, Cells

LEMMA NoFetchType == NoFetch \in FetchRecord
BY DEF NoFetch, FetchRecord

LEMMA EmptyCellType == EmptyCell \in CellRecord
BY FetchCacheAssumption DEF EmptyCell, CellRecord

LEMMA BeginType ==
  ASSUME TypeOK, NEW c \in Callers, NEW g \in Cells, NEW forced \in BOOLEAN
  PROVE  Begin(c, g, forced) \in CallRecord
BY IdleCallType DEF Begin, CallRecord, TypeOK

\* Moving one call to another record of its type keeps everybody's type.
LEMMA MoveCall ==
  ASSUME TypeOK, AwaitsPromise, NEW c \in Callers, NEW r \in CallRecord,
         r.pc \in {"owner", "joiner"} => r.fetch \in Fetches,
         calls' = [calls EXCEPT ![c] = r]
  PROVE  calls' \in [Callers -> CallRecord] /\ AwaitsPromise'
<1>1. calls \in [Callers -> CallRecord]
  BY DEF TypeOK
<1>2. \A d \in Callers : calls'[d] = IF d = c THEN r ELSE calls[d]
  BY <1>1
<1>3. QED BY <1>1, <1>2 DEF AwaitsPromise

LEMMA StartFetchType ==
  ASSUME TypeInv, NEW c \in Callers, NEW g \in Cells, NEW forced \in BOOLEAN,
         StartFetch(c, g, forced)
  PROVE  /\ cells' \in [Cells -> CellRecord]
         /\ fetches' \in [Fetches -> FetchRecord]
         /\ calls' \in [Callers -> CallRecord]
         /\ OkIsComplete'
         /\ AwaitsPromise'
<1> DEFINE new == [NoFetch EXCEPT !.status = "inflight"]
<1>1. PICK f \in Fetches :
        /\ fetches' = [fetches EXCEPT ![f] = new]
        /\ cells' = [cells EXCEPT ![g] = [@ EXCEPT !.pending = f]]
        /\ calls' = [calls EXCEPT ![c] = [Begin(c, g, forced) EXCEPT
                       !.pc = "owner", !.fetch = f]]
  BY DEF StartFetch
<1>2. cells' \in [Cells -> CellRecord]
  BY <1>1 DEF TypeInv, TypeOK, CellRecord
<1>3. new \in FetchRecord /\ new.status = "inflight"
  BY DEF NoFetch, FetchRecord
<1>4. fetches' \in [Fetches -> FetchRecord] /\ OkIsComplete'
  BY <1>1, <1>3 DEF TypeInv, TypeOK, OkIsComplete
<1> DEFINE r == [Begin(c, g, forced) EXCEPT !.pc = "owner", !.fetch = f]
<1>5. r \in CallRecord /\ r.fetch = f
  <2>1. Begin(c, g, forced) \in CallRecord
    BY BeginType DEF TypeInv
  <2>2. QED BY <2>1 DEF CallRecord
<1>6. calls' \in [Callers -> CallRecord] /\ AwaitsPromise'
  <2>1. calls' = [calls EXCEPT ![c] = r]
    BY <1>1
  <2> HIDE DEF r
  <2>2. QED BY <1>5, <2>1, MoveCall DEF TypeInv
<1>7. QED BY <1>2, <1>4, <1>6

\* Every step keeps the type invariant.
LEMMA TypeStep == TypeInv /\ [Next]_vars => TypeInv'
<1> SUFFICES ASSUME TypeInv, [Next]_vars PROVE TypeInv'
  OBVIOUS
<1> USE FetchCacheAssumption
<1>1. ASSUME NEW c \in Callers, FetchData(c) PROVE TypeInv'
  <2>1. current \in Cells /\ current' = current /\ loading' = TRUE
        /\ UNCHANGED <<version, shown>>
    BY <1>1 DEF FetchData, TypeInv, TypeOK
  <2> DEFINE b == Begin(c, current, FALSE)
  <2>2. b \in CallRecord
    BY <2>1, BeginType DEF TypeInv
  <2>3. CASE JoinPending(c, current)
    <3>1. cells[current].pending \in Fetches
      BY <2>1, <2>3 DEF JoinPending, TypeInv, TypeOK, CellRecord
    <3>2. [b EXCEPT !.pc = "joiner", !.fetch = cells[current].pending]
            \in CallRecord
      BY <2>2, <3>1 DEF CallRecord
    <3>3. calls' \in [Callers -> CallRecord] /\ AwaitsPromise'
      BY <2>3, <3>1, <3>2, MoveCall DEF JoinPending, TypeInv, CallRecord
    <3>4. QED
      BY <2>1, <2>3, <3>3 DEF JoinPending, TypeInv, TypeOK, OkIsComplete
  <2>4. CASE ServeCached(c, current)
    <3>1. cells[current].data \in Snapshot
      BY <2>1, <2>4 DEF ServeCached, TypeInv, TypeOK, CellRecord
    <3>2. [b EXCEPT !.pc = "answered", !.data = cells[current].data]
            \in CallRecord
      BY <2>2, <3>1 DEF CallRecord
    <3>3. calls' \in [Callers -> CallRecord] /\ AwaitsPromise'
      BY <2>4, <3>2, MoveCall DEF ServeCached, TypeInv, CallRecord
    <3>4. QED
      BY <2>1, <2>4, <3>3 DEF ServeCached, TypeInv, TypeOK, OkIsComplete
  <2>5. CASE StartFetch(c, current, FALSE)
    BY <2>1, <2>5, StartFetchType DEF TypeInv, TypeOK
  <2>6. QED BY <1>1, <2>3, <2>4, <2>5 DEF FetchData
<1>2. ASSUME NEW c \in Callers, ForceFetchData(c) PROVE TypeInv'
  <2>1. current + 1 \in Cells /\ current' = current + 1
    BY <1>2 DEF ForceFetchData, TypeInv, TypeOK, Cells
  <2>2. QED
    BY <1>2, <2>1, StartFetchType DEF ForceFetchData, TypeInv, TypeOK
<1>3. ASSUME NEW c \in Callers, OwnerResume(c) PROVE TypeInv'
  <2> DEFINE f == calls[c].fetch
             g == calls[c].cell
  <2>1. /\ f \in Fetches /\ g \in Cells /\ calls[c] \in CallRecord
        /\ UNCHANGED <<version, current, fetches, shown, loading>>
    BY <1>3 DEF OwnerResume, TypeInv, TypeOK, CallRecord, AwaitsPromise
  <2>2. OkIsComplete'
    BY <2>1 DEF TypeInv, OkIsComplete
  <2>3. CASE fetches[f].status = "ok"
    <3>1. fetches[f].got \in Snapshot
      BY <2>1, <2>3 DEF TypeInv, OkIsComplete
    <3>2. [calls[c] EXCEPT !.pc = "answered", !.fetch = None,
                           !.data = fetches[f].got] \in CallRecord
      BY <2>1, <3>1 DEF CallRecord
    <3>3. calls' \in [Callers -> CallRecord] /\ AwaitsPromise'
      BY <1>3, <2>3, <3>2, MoveCall DEF OwnerResume, TypeInv, CallRecord
    <3>4. cells' \in [Cells -> CellRecord]
      BY <1>3, <2>1, <2>3, <3>1 DEF OwnerResume, TypeInv, TypeOK, CellRecord
    <3>5. QED BY <2>1, <2>2, <3>3, <3>4 DEF TypeInv, TypeOK
  <2>4. CASE fetches[f].status = "failed"
    <3>1. [calls[c] EXCEPT !.pc = "rejected", !.fetch = None] \in CallRecord
      BY <2>1 DEF CallRecord
    <3>2. calls' \in [Callers -> CallRecord] /\ AwaitsPromise'
      BY <1>3, <2>4, <3>1, MoveCall DEF OwnerResume, TypeInv, CallRecord
    <3>3. UNCHANGED cells
      BY <1>3, <2>4 DEF OwnerResume
    <3>4. QED BY <2>1, <2>2, <3>2, <3>3 DEF TypeInv, TypeOK
  <2>5. QED BY <1>3, <2>3, <2>4 DEF OwnerResume
<1>4. ASSUME NEW c \in Callers, JoinerResume(c) PROVE TypeInv'
  <2> DEFINE f == calls[c].fetch
  <2>1. /\ f \in Fetches /\ calls[c] \in CallRecord
        /\ UNCHANGED <<version, cells, current, fetches, shown, loading>>
    BY <1>4 DEF JoinerResume, TypeInv, TypeOK, AwaitsPromise
  <2>2. CASE fetches[f].status = "ok"
    <3>1. fetches[f].got \in Snapshot
      BY <2>1, <2>2 DEF TypeInv, OkIsComplete
    <3>2. [calls[c] EXCEPT !.pc = "answered", !.fetch = None,
                           !.data = fetches[f].got] \in CallRecord
      BY <2>1, <3>1 DEF CallRecord
    <3>3. calls' \in [Callers -> CallRecord] /\ AwaitsPromise'
      BY <1>4, <2>2, <3>2, MoveCall DEF JoinerResume, TypeInv, CallRecord
    <3>4. QED BY <2>1, <3>3 DEF TypeInv, TypeOK, OkIsComplete
  <2>3. CASE fetches[f].status = "failed"
    <3>1. [calls[c] EXCEPT !.pc = "rejected", !.fetch = None] \in CallRecord
      BY <2>1 DEF CallRecord
    <3>2. calls' \in [Callers -> CallRecord] /\ AwaitsPromise'
      BY <1>4, <2>3, <3>1, MoveCall DEF JoinerResume, TypeInv, CallRecord
    <3>3. QED BY <2>1, <3>2 DEF TypeInv, TypeOK, OkIsComplete
  <2>4. QED BY <1>4, <2>2, <2>3 DEF JoinerResume
<1>5. ASSUME NEW c \in Callers, Deliver(c) PROVE TypeInv'
  <2>1. calls' \in [Callers -> CallRecord] /\ AwaitsPromise'
    BY <1>5, IdleCallType, MoveCall DEF Deliver, TypeInv, IdleCall
  <2>2. shown' \in Snapshot \cup {None}
    BY <1>5 DEF Deliver, TypeInv, TypeOK, CallRecord
  <2>3. QED BY <1>5, <2>1, <2>2 DEF Deliver, TypeInv, TypeOK, OkIsComplete
<1>6. ASSUME NEW f \in Fetches, NEW k \in Collections, ReadReplies(f, k)
      PROVE  TypeInv'
  <2> DEFINE got == [fetches[f].got EXCEPT ![k] = version[k]]
             r == [status |-> IF Complete(got) THEN "ok" ELSE "inflight",
                   got |-> got]
  <2>1. got \in [Collections -> Nat \cup {None}]
    BY DEF TypeInv, TypeOK, FetchRecord, Snapshot
  <2>2. Complete(got) => got \in Snapshot
    BY <2>1 DEF Complete, Snapshot
  <2>3. r \in FetchRecord
    BY <2>1 DEF FetchRecord
  <2>4. fetches' \in [Fetches -> FetchRecord]
    BY <1>6, <2>3 DEF ReadReplies, TypeInv, TypeOK
  <2>5. OkIsComplete'
    BY <1>6, <2>2 DEF ReadReplies, TypeInv, TypeOK, OkIsComplete
  <2>6. QED
    BY <1>6, <2>4, <2>5 DEF ReadReplies, TypeInv, TypeOK, AwaitsPromise
<1>7. ASSUME NEW f \in Fetches, NEW k \in Collections, ReadFails(f, k)
      PROVE  TypeInv'
  <2>1. fetches' \in [Fetches -> FetchRecord] /\ OkIsComplete'
    BY <1>7 DEF ReadFails, TypeInv, TypeOK, FetchRecord, OkIsComplete
  <2>2. QED BY <1>7, <2>1 DEF ReadFails, TypeInv, TypeOK, AwaitsPromise
<1>8. ASSUME NEW k \in Collections, ServerWrites(k) PROVE TypeInv'
  <2>1. version' \in Snapshot
    BY <1>8 DEF ServerWrites, TypeInv, TypeOK, Snapshot
  <2>2. QED BY <1>8, <2>1 DEF ServerWrites, TypeInv, TypeOK, OkIsComplete, AwaitsPromise
<1>9. CASE Tick
  <2>1. \A g \in Cells :
          cells[g].age <= Ttl => [cells[g] EXCEPT !.age = @ + 1] \in CellRecord
    BY DEF TypeInv, TypeOK, CellRecord
  <2>2. cells' \in [Cells -> CellRecord]
    BY <1>9, <2>1 DEF Tick, TypeInv, TypeOK
  <2>3. QED BY <1>9, <2>2 DEF Tick, TypeInv, TypeOK, OkIsComplete, AwaitsPromise
<1>10. CASE UNCHANGED vars
  BY <1>10 DEF vars, TypeInv, TypeOK, OkIsComplete, AwaitsPromise
<1>11. QED
  BY <1>1, <1>2, <1>3, <1>4, <1>5, <1>6, <1>7, <1>8, <1>9, <1>10
     DEF Next, Continue, Network

\* The initial state has the types.
LEMMA TypeInit == Init => TypeInv
<1> SUFFICES ASSUME Init PROVE TypeInv
  OBVIOUS
<1>1. TypeOK
  <2>1. current \in Cells /\ version \in Snapshot
    BY FetchCacheAssumption DEF Init, Cells, Snapshot
  <2>2. QED
    BY <2>1, IdleCallType, NoFetchType, EmptyCellType DEF Init, TypeOK
<1>2. OkIsComplete /\ AwaitsPromise
  BY DEF Init, OkIsComplete, AwaitsPromise, NoFetch, IdleCall
<1>3. QED BY <1>1, <1>2 DEF TypeInv

\* The model's state always has its types: fetchDataImpl never publishes
\* anything but a promise or a complete snapshot.
THEOREM TypeCorrect == Spec => []TypeOK
<1>1. TypeInv => TypeOK
  BY DEF TypeInv
<1>2. QED BY <1>1, TypeInit, TypeStep, PTL DEF Spec

-----------------------------------------------------------------------------
(* The inductive step *)

\* Starting a fetch on the current cell, when nothing is pending on it.
LEMMA StartFetchStep ==
  ASSUME IInv, NEW c \in Callers, NEW g \in Cells, NEW forced \in BOOLEAN,
         g >= current, current' = g, cells[g].pending = None,
         UNCHANGED <<version, shown>>, loading' = TRUE,
         StartFetch(c, g, forced)
  PROVE  IInv'
<1> DEFINE new == [NoFetch EXCEPT !.status = "inflight"]
           r == [Begin(c, g, forced) EXCEPT !.pc = "owner"]
<1> USE FetchCacheAssumption
<1>1. PICK f \in Fetches :
        /\ Unreferenced(f)
        /\ fetches' = [fetches EXCEPT ![f] = new]
        /\ cells' = [cells EXCEPT ![g] = [@ EXCEPT !.pending = f]]
        /\ calls' = [calls EXCEPT ![c] = [Begin(c, g, forced) EXCEPT
                       !.pc = "owner", !.fetch = f]]
  BY DEF StartFetch
<1>2. TypeInv'
  BY StartFetchType DEF IInv, TypeInv, TypeOK
<1>3. /\ calls'[c].pc = "owner" /\ calls'[c].cell = g /\ calls'[c].fetch = f
      /\ calls'[c].forced = forced /\ calls'[c].asOf = version
      /\ \A d \in Callers : d # c => calls'[d] = calls[d]
  BY <1>1 DEF IInv, TypeInv, TypeOK, Begin, IdleCall
<1>4. /\ \A x \in Fetches : x # f => fetches'[x] = fetches[x]
      /\ \A k \in Collections : fetches'[f].got[k] = None
  BY <1>1 DEF IInv, TypeInv, TypeOK, NoFetch
<1>5. /\ cells'[g].pending = f
      /\ \A h \in Cells : cells'[h].data = cells[h].data
      /\ \A h \in Cells : h # g => cells'[h] = cells[h]
  BY <1>1 DEF IInv, TypeInv, TypeOK, CellRecord
<1>6. \A d \in Callers : calls[d].fetch # f /\ calls[d].cell \in Cells
  BY <1>1 DEF Unreferenced, IInv, TypeInv, TypeOK, CallRecord
<1>7. \A d \in Callers : calls[d].pc = "owner" => calls[d].cell # g
  BY DEF IInv, OwnerPublished
<1>8. OwnerPublished'
  BY <1>1, <1>3, <1>5, <1>6, <1>7 DEF IInv, OwnerPublished
<1>9. OneOwner' /\ SingleFlight'
  BY <1>3, <1>6, <1>7 DEF IInv, OneOwner, SingleFlight
<1>10. FutureCellsEmpty'
  <2>1. /\ current \in Nat /\ g \in Nat /\ Cells \subseteq Nat
        /\ \A d \in Callers : calls[d].cell \in Nat /\ calls[d].cell <= current
    BY DEF IInv, FutureCellsEmpty, TypeInv, TypeOK, CallRecord, Cells
  <2>2. \A h \in Cells : h > g => h > current /\ h # g
    BY <2>1
  <2>3. \A d \in Callers : calls'[d].cell <= g
    BY <1>3, <2>1
  <2>4. QED BY <1>5, <2>2, <2>3 DEF IInv, FutureCellsEmpty
<1>11. FetchAboveCell'
  BY <1>3, <1>4, <1>5, <1>6 DEF IInv, OwnerPublished, FetchAboveCell
<1>12. CellBelowVersion' /\ ReadBelowVersion'
  BY <1>4, <1>5 DEF IInv, CellBelowVersion, ReadBelowVersion, NotOlder
<1>13. version \in Snapshot /\ NotOlder(version, version)
  BY DEF IInv, TypeInv, TypeOK, Snapshot, NotOlder
<1>14. ForcedReads'
  BY <1>3, <1>4, <1>6, <1>13 DEF IInv, OwnerPublished, ForcedReads, NotOlder
<1>15. ForcedIsFresh'
  BY <1>3 DEF IInv, ForcedIsFresh
<1>16. QED
  BY <1>2, <1>8, <1>9, <1>10, <1>11, <1>12, <1>14, <1>15 DEF IInv

\* A step that changes nothing but one call, which neither runs a fetch
\* afterwards nor was forced and answered with older data.
LEMMA CallOnlyStep ==
  ASSUME IInv, TypeInv', NEW c \in Callers,
         UNCHANGED <<version, cells, current, fetches>>,
         \A d \in Callers : d # c => calls'[d] = calls[d],
         calls'[c].pc # "owner",
         calls'[c].cell <= current,
         calls'[c].forced => /\ calls[c].forced
                             /\ calls'[c].asOf = calls[c].asOf
                             /\ calls'[c].pc # "joiner"
                             /\ calls'[c].pc = "answered" =>
                                   NotOlder(calls'[c].data, calls'[c].asOf)
  PROVE  IInv'
<1>1. OwnerPublished' /\ OneOwner' /\ SingleFlight' /\ FetchAboveCell'
  BY DEF IInv, OwnerPublished, OneOwner, SingleFlight, FetchAboveCell
<1>2. FutureCellsEmpty' /\ CellBelowVersion' /\ ReadBelowVersion'
  BY DEF IInv, FutureCellsEmpty, CellBelowVersion, ReadBelowVersion, NotOlder
<1>3. ForcedReads' /\ ForcedIsFresh'
  BY DEF IInv, ForcedReads, ForcedIsFresh, NotOlder
<1>4. QED BY <1>1, <1>2, <1>3 DEF IInv

\* Every step of the model keeps the inductive invariant.
LEMMA InvStep == IInv /\ [Next]_vars => IInv'
<1> SUFFICES ASSUME IInv, [Next]_vars PROVE IInv'
  OBVIOUS
<1> USE FetchCacheAssumption
<1>0. TypeInv'
  BY TypeStep DEF IInv
<1>1. ASSUME NEW c \in Callers, FetchData(c) PROVE IInv'
  <2>1. /\ current \in Cells /\ current' = current /\ loading' = TRUE
        /\ calls[c].pc = "idle" /\ UNCHANGED <<version, shown>>
    BY <1>1 DEF FetchData, IInv, TypeInv, TypeOK
  <2>2. current <= current /\ current >= current
    BY <2>1 DEF Cells
  <2>3. CASE JoinPending(c, current)
    BY <1>0, <2>1, <2>2, <2>3, CallOnlyStep
       DEF JoinPending, Begin, IdleCall, IInv, TypeInv, TypeOK
  <2>4. CASE ServeCached(c, current)
    BY <1>0, <2>1, <2>2, <2>4, CallOnlyStep
       DEF ServeCached, Begin, IdleCall, IInv, TypeInv, TypeOK
  <2>5. CASE cells[current].pending = None /\ StartFetch(c, current, FALSE)
    BY <2>1, <2>2, <2>5, StartFetchStep
  <2>6. QED BY <1>1, <2>3, <2>4, <2>5 DEF FetchData
<1>2. ASSUME NEW c \in Callers, ForceFetchData(c) PROVE IInv'
  <2>1. /\ current + 1 \in Cells /\ current' = current + 1
        /\ current + 1 > current /\ current + 1 >= current
    BY <1>2 DEF ForceFetchData, IInv, TypeInv, TypeOK, Cells
  <2>2. cells[current + 1].pending = None
    BY <2>1 DEF IInv, FutureCellsEmpty, EmptyCell
  <2>3. QED
    BY <1>2, <2>1, <2>2, StartFetchStep DEF ForceFetchData
<1>3. ASSUME NEW c \in Callers, OwnerResume(c) PROVE IInv'
  <2> DEFINE f == calls[c].fetch
             g == calls[c].cell
  <2>1. /\ f \in Fetches /\ g \in Cells /\ calls[c].pc = "owner"
        /\ UNCHANGED <<version, current, fetches, shown, loading>>
        /\ g <= current /\ current \in Cells
    BY <1>3 DEF OwnerResume, IInv, TypeInv, TypeOK, CallRecord, AwaitsPromise,
                FutureCellsEmpty
  <2>2. CASE fetches[f].status = "ok"
    <3>1. fetches[f].got \in Snapshot
      BY <2>1, <2>2 DEF IInv, TypeInv, OkIsComplete
    <3>2. /\ calls'[c].pc = "answered" /\ calls'[c].data = fetches[f].got
          /\ calls'[c].forced = calls[c].forced
          /\ calls'[c].asOf = calls[c].asOf /\ calls'[c].cell = g
          /\ \A d \in Callers : d # c => calls'[d] = calls[d]
      <4>1. calls' = [calls EXCEPT ![c] = [@ EXCEPT
                        !.pc = "answered", !.fetch = None, !.data = fetches[f].got]]
        BY <1>3, <2>2 DEF OwnerResume
      <4>2. QED BY <4>1 DEF IInv, TypeInv, TypeOK, CallRecord
    <3>3. /\ cells'[g].data = fetches[f].got
          /\ \A h \in Cells : h # g => cells'[h] = cells[h]
      BY <1>3, <2>1, <2>2 DEF OwnerResume, IInv, TypeInv, TypeOK
    <3>4. \A d \in Callers : d # c /\ calls[d].pc = "owner" =>
            calls[d].cell # g /\ calls[d].cell \in Cells
      BY <2>1 DEF IInv, SingleFlight, TypeInv, TypeOK, CallRecord
    <3>5. \A k \in Collections : fetches[f].got[k] \in Nat /\ fetches[f].got[k] # None
      BY <3>1 DEF Snapshot
    <3>6. OwnerPublished' /\ OneOwner' /\ SingleFlight' /\ FetchAboveCell'
      BY <2>1, <3>2, <3>3, <3>4
         DEF IInv, OwnerPublished, OneOwner, SingleFlight, FetchAboveCell
    <3>7. FutureCellsEmpty'
      BY <2>1, <3>2, <3>3 DEF IInv, FutureCellsEmpty, Cells
    <3>8. CellBelowVersion' /\ ReadBelowVersion'
      BY <2>1, <3>3, <3>5 DEF IInv, CellBelowVersion, NotOlder, ReadBelowVersion
    <3>9. ForcedReads'
      BY <2>1, <3>2 DEF IInv, ForcedReads, NotOlder
    <3>10. ForcedIsFresh'
      BY <2>1, <3>2, <3>5 DEF IInv, ForcedReads, ForcedIsFresh, NotOlder
    <3>11. QED
      BY <1>0, <3>6, <3>7, <3>8, <3>9, <3>10 DEF IInv
  <2>3. CASE fetches[f].status = "failed"
    <3>1. /\ calls' = [calls EXCEPT ![c] = [@ EXCEPT
                         !.pc = "rejected", !.fetch = None]]
          /\ UNCHANGED cells
      BY <1>3, <2>3 DEF OwnerResume
    <3>2. /\ calls'[c].pc = "rejected" /\ calls'[c].cell = g
          /\ calls'[c].forced = calls[c].forced
          /\ calls'[c].asOf = calls[c].asOf
          /\ \A d \in Callers : d # c => calls'[d] = calls[d]
      BY <3>1 DEF IInv, TypeInv, TypeOK, CallRecord
    <3>3. QED BY <1>0, <2>1, <3>1, <3>2, CallOnlyStep
  <2>4. QED BY <1>3, <2>2, <2>3 DEF OwnerResume
<1>4. ASSUME NEW c \in Callers, JoinerResume(c) PROVE IInv'
  <2>1. /\ calls[c].pc = "joiner" /\ ~calls[c].forced
        /\ calls[c].cell <= current
        /\ UNCHANGED <<version, cells, current, fetches>>
    BY <1>4 DEF JoinerResume, IInv, ForcedReads, FutureCellsEmpty
  <2>2. /\ calls'[c].pc # "owner" /\ calls'[c].forced = calls[c].forced
        /\ calls'[c].cell = calls[c].cell
        /\ \A d \in Callers : d # c => calls'[d] = calls[d]
    <3>1. calls[c] \in CallRecord /\ calls \in [Callers -> CallRecord]
      BY DEF IInv, TypeInv, TypeOK
    <3>2. CASE calls' = [calls EXCEPT ![c] = [@ EXCEPT
                 !.pc = "answered", !.fetch = None,
                 !.data = fetches[calls[c].fetch].got]]
      BY <3>1, <3>2 DEF CallRecord
    <3>3. CASE calls' = [calls EXCEPT ![c] = [@ EXCEPT
                 !.pc = "rejected", !.fetch = None]]
      BY <3>1, <3>3 DEF CallRecord
    <3>4. QED BY <1>4, <3>2, <3>3 DEF JoinerResume
  <2>3. QED BY <1>0, <2>1, <2>2, CallOnlyStep
<1>5. ASSUME NEW c \in Callers, Deliver(c) PROVE IInv'
  <2>1. 0 <= current
    BY DEF IInv, TypeInv, TypeOK, Cells
  <2>2. QED
    BY <1>0, <1>5, <2>1, CallOnlyStep
       DEF Deliver, IdleCall, IInv, TypeInv, TypeOK
<1>6. ASSUME NEW f \in Fetches, NEW k \in Collections, ReadReplies(f, k)
      PROVE  IInv'
  <2>1. /\ UNCHANGED <<version, cells, current, calls>>
        /\ \A x \in Fetches, j \in Collections :
             fetches'[x].got[j] =
               IF x = f /\ j = k THEN version[k] ELSE fetches[x].got[j]
    BY <1>6 DEF ReadReplies, IInv, TypeInv, TypeOK, FetchRecord
  <2>2. version[k] \in Nat /\ version[k] >= version[k]
    BY DEF IInv, TypeInv, TypeOK, Snapshot
  <2>3. \A c \in Callers : calls[c].cell \in Cells
    BY DEF IInv, TypeInv, TypeOK, CallRecord
  <2>4. OwnerPublished' /\ OneOwner' /\ FutureCellsEmpty' /\ SingleFlight'
    BY <2>1 DEF IInv, OwnerPublished, OneOwner, FutureCellsEmpty, SingleFlight
  <2>5. FetchAboveCell'
    BY <2>1, <2>3 DEF IInv, FetchAboveCell, OwnerPublished, CellBelowVersion, NotOlder
  <2>6. CellBelowVersion' /\ ReadBelowVersion'
    BY <2>1, <2>2 DEF IInv, CellBelowVersion, ReadBelowVersion, NotOlder
  <2>7. ForcedReads' /\ ForcedIsFresh'
    BY <2>1 DEF IInv, ForcedReads, OwnerPublished, ForcedIsFresh, NotOlder
  <2>8. QED BY <1>0, <2>4, <2>5, <2>6, <2>7 DEF IInv
<1>7. ASSUME NEW f \in Fetches, NEW k \in Collections, ReadFails(f, k)
      PROVE  IInv'
  <2>1. /\ UNCHANGED <<version, cells, current, calls>>
        /\ \A x \in Fetches : fetches'[x].got = fetches[x].got
    BY <1>7 DEF ReadFails, IInv, TypeInv, TypeOK, FetchRecord
  <2>2. OwnerPublished' /\ OneOwner' /\ FutureCellsEmpty' /\ SingleFlight'
    BY <2>1 DEF IInv, OwnerPublished, OneOwner, FutureCellsEmpty, SingleFlight
  <2>3. FetchAboveCell' /\ CellBelowVersion' /\ ReadBelowVersion'
    BY <2>1 DEF IInv, FetchAboveCell, OwnerPublished, CellBelowVersion,
                ReadBelowVersion, NotOlder
  <2>4. ForcedReads' /\ ForcedIsFresh'
    BY <2>1 DEF IInv, ForcedReads, OwnerPublished, ForcedIsFresh, NotOlder
  <2>5. QED BY <1>0, <2>2, <2>3, <2>4 DEF IInv
<1>8. ASSUME NEW k \in Collections, ServerWrites(k) PROVE IInv'
  <2>1. /\ UNCHANGED <<cells, current, fetches, calls>>
        /\ \A j \in Collections : version[j] \in Nat /\ version'[j] \in Nat
                                  /\ version'[j] >= version[j]
    BY <1>8 DEF ServerWrites, IInv, TypeInv, TypeOK, Snapshot
  <2>2. OwnerPublished' /\ OneOwner' /\ FutureCellsEmpty' /\ SingleFlight'
        /\ FetchAboveCell' /\ ForcedIsFresh'
    BY <2>1 DEF IInv, OwnerPublished, OneOwner, FutureCellsEmpty, SingleFlight,
                FetchAboveCell, ForcedIsFresh, NotOlder
  <2>3. \A g \in Cells : cells[g].data # None => cells[g].data \in Snapshot
    BY DEF IInv, TypeInv, TypeOK, CellRecord
  <2>4. CellBelowVersion'
    BY <2>1, <2>3 DEF IInv, CellBelowVersion, NotOlder, Snapshot
  <2>5. \A f \in Fetches, j \in Collections : fetches[f].got[j] \in Nat \cup {None}
    BY DEF IInv, TypeInv, TypeOK, FetchRecord
  <2>6. ReadBelowVersion'
    BY <2>1, <2>5 DEF IInv, ReadBelowVersion
  <2>7. ForcedReads'
    BY <2>1 DEF IInv, ForcedReads, NotOlder, Snapshot
  <2>8. QED BY <1>0, <2>2, <2>4, <2>6, <2>7 DEF IInv
<1>9. CASE Tick
  <2>1. /\ UNCHANGED <<version, current, fetches, calls>>
        /\ \A g \in Cells : /\ cells'[g].pending = cells[g].pending
                            /\ cells'[g].data = cells[g].data
                            /\ cells[g].data = None => cells'[g] = cells[g]
    BY <1>9 DEF Tick, IInv, TypeInv, TypeOK, CellRecord
  <2>2. /\ EmptyCell.data = None
        /\ \A c \in Callers : calls[c].cell \in Cells
    BY DEF EmptyCell, IInv, TypeInv, TypeOK, CallRecord
  <2>3. OwnerPublished' /\ OneOwner' /\ SingleFlight'
    BY <2>1, <2>2 DEF IInv, OwnerPublished, OneOwner, SingleFlight
  <2>4. FutureCellsEmpty'
    BY <2>1, <2>2 DEF IInv, FutureCellsEmpty
  <2>5. FetchAboveCell' /\ CellBelowVersion' /\ ReadBelowVersion'
    BY <2>1, <2>2 DEF IInv, FetchAboveCell, CellBelowVersion, ReadBelowVersion,
                      NotOlder
  <2>6. ForcedReads' /\ ForcedIsFresh'
    BY <2>1 DEF IInv, ForcedReads, ForcedIsFresh, NotOlder
  <2>7. QED BY <1>0, <2>3, <2>4, <2>5, <2>6 DEF IInv
<1>10. CASE UNCHANGED vars
  BY <1>0, <1>10
     DEF vars, IInv, OwnerPublished, OneOwner, FutureCellsEmpty, SingleFlight,
         FetchAboveCell, CellBelowVersion, ReadBelowVersion, ForcedReads,
         ForcedIsFresh, NotOlder
<1>11. QED
  BY <1>1, <1>2, <1>3, <1>4, <1>5, <1>6, <1>7, <1>8, <1>9, <1>10
     DEF Next, Continue, Network

LEMMA InvInit == Init => IInv
<1> SUFFICES ASSUME Init PROVE IInv
  OBVIOUS
<1>1. TypeInv
  BY TypeInit
<1>2. OwnerPublished /\ OneOwner /\ FutureCellsEmpty /\ SingleFlight
  BY FetchCacheAssumption
     DEF Init, IdleCall, OwnerPublished, OneOwner, FutureCellsEmpty, SingleFlight
<1>3. FetchAboveCell /\ CellBelowVersion /\ ReadBelowVersion
  BY DEF Init, IdleCall, EmptyCell, NoFetch, FetchAboveCell, CellBelowVersion,
         ReadBelowVersion
<1>4. ForcedReads /\ ForcedIsFresh
  BY DEF Init, IdleCall, ForcedReads, ForcedIsFresh
<1>5. QED BY <1>1, <1>2, <1>3, <1>4 DEF IInv

LEMMA InvAlways == Spec => []IInv
BY InvInit, InvStep, PTL DEF Spec

-----------------------------------------------------------------------------
(* The theorems *)

\* However many calls overlap, a cell has at most one fetch in flight.
THEOREM SingleFlightTheorem == Spec => []SingleFlight
<1>1. IInv => SingleFlight
  BY DEF IInv
<1>2. QED BY <1>1, InvAlways, PTL

\* A forced fetch is answered with data no older than its call.
THEOREM ForcedIsFreshTheorem == Spec => []ForcedIsFresh
<1>1. IInv => ForcedIsFresh
  BY DEF IInv
<1>2. QED BY <1>1, InvAlways, PTL

\* The only step that gives a cell new data is the continuation of the call
\* that owns its fetch, and what that fetch read is no older than the cell.
LEMMA RegressStep ==
  ASSUME IInv, [Next]_vars, NEW g \in Cells,
         cells[g].data # None, cells'[g].data # None
  PROVE  NotOlder(cells'[g].data, cells[g].data)
<1>0. cells[g].data \in Snapshot /\ NotOlder(cells[g].data, cells[g].data)
  BY DEF IInv, TypeInv, TypeOK, CellRecord, Snapshot, NotOlder
<1>1. CASE cells'[g].data = cells[g].data
  BY <1>0, <1>1
<1>2. ASSUME NEW c \in Callers, OwnerResume(c) PROVE NotOlder(cells'[g].data, cells[g].data)
  <2>1. CASE calls[c].cell # g \/ UNCHANGED cells
    BY <1>0, <1>2, <2>1 DEF OwnerResume, IInv, TypeInv, TypeOK
  <2>2. CASE calls[c].cell = g /\ fetches[calls[c].fetch].status = "ok"
    <3>1. /\ calls[c].pc = "owner" /\ calls[c].fetch \in Fetches
          /\ cells'[g].data = fetches[calls[c].fetch].got
      BY <1>2, <2>2 DEF OwnerResume, IInv, TypeInv, TypeOK, AwaitsPromise
    <3>2. fetches[calls[c].fetch].got \in Snapshot
      BY <2>2, <3>1 DEF IInv, TypeInv, OkIsComplete
    <3>3. \A k \in Collections : fetches[calls[c].fetch].got[k] # None
      BY <3>2, FetchCacheAssumption DEF Snapshot
    <3>4. QED BY <2>2, <3>1, <3>3 DEF IInv, FetchAboveCell, NotOlder
  <2>3. QED BY <1>2, <2>1, <2>2 DEF OwnerResume
<1>3. ASSUME NEW c \in Callers, NEW h \in Cells, NEW forced \in BOOLEAN,
             StartFetch(c, h, forced)
      PROVE  cells'[g].data = cells[g].data
  BY <1>3 DEF StartFetch, IInv, TypeInv, TypeOK, CellRecord
<1>4. ASSUME NEW c \in Callers, FetchData(c) \/ ForceFetchData(c)
      PROVE  cells'[g].data = cells[g].data
  <2>1. current \in Cells /\ (current < MaxCell => current + 1 \in Cells)
    BY FetchCacheAssumption DEF IInv, TypeInv, TypeOK, Cells
  <2>2. QED
    BY <1>3, <1>4, <2>1 DEF FetchData, ForceFetchData, JoinPending, ServeCached
<1>5. ASSUME NEW c \in Callers, JoinerResume(c) \/ Deliver(c)
      PROVE  cells'[g].data = cells[g].data
  BY <1>5 DEF JoinerResume, Deliver
<1>6. ASSUME NEW f \in Fetches, Network(f) PROVE cells'[g].data = cells[g].data
  BY <1>6 DEF Network, ReadReplies, ReadFails
<1>7. CASE Tick
  BY <1>0, <1>7 DEF Tick, IInv, TypeInv, TypeOK, CellRecord
<1>8. CASE \E k \in Collections : ServerWrites(k)
  BY <1>1, <1>8 DEF ServerWrites
<1>9. CASE UNCHANGED vars
  BY <1>1, <1>9 DEF vars
<1>10. QED
  BY <1>1, <1>2, <1>4, <1>5, <1>6, <1>7, <1>8, <1>9 DEF Next, Continue

\* No cell ever goes back to older data.
THEOREM CacheNeverRegressesTheorem == Spec => CacheNeverRegresses
<1>1. IInv /\ [Next]_vars =>
        [\A g \in Cells : cells[g].data # None /\ cells'[g].data # None
           => NotOlder(cells'[g].data, cells[g].data)]_vars
  BY RegressStep
<1>2. QED BY <1>1, InvAlways, PTL DEF Spec, CacheNeverRegresses

\* The loading flag is off whenever no call is running.
THEOREM NoStuckLoadingTheorem == Spec => []NoStuckLoading
<1>1. Init => NoStuckLoading
  BY DEF Init, NoStuckLoading
<1>2. TypeInv /\ NoStuckLoading /\ [Next]_vars => NoStuckLoading'
  <2> SUFFICES ASSUME TypeInv, NoStuckLoading, [Next]_vars PROVE NoStuckLoading'
    OBVIOUS
  <2> DEFINE Idle == \A c \in Callers : calls[c].pc = "idle"
  <2>1. ASSUME NEW c \in Callers, FetchData(c) \/ ForceFetchData(c)
        PROVE  ~Idle'
    <3>1. calls \in [Callers -> CallRecord]
      BY DEF TypeInv, TypeOK
    <3>2. CASE JoinPending(c, current)
      BY <3>1, <3>2 DEF JoinPending, Begin, IdleCall
    <3>3. CASE ServeCached(c, current)
      BY <3>1, <3>3 DEF ServeCached, Begin, IdleCall
    <3>4. ASSUME NEW g, NEW forced, StartFetch(c, g, forced) PROVE ~Idle'
      BY <3>1, <3>4 DEF StartFetch, Begin, IdleCall
    <3>5. QED BY <2>1, <3>2, <3>3, <3>4 DEF FetchData, ForceFetchData
  <2>2. ASSUME NEW c \in Callers, Deliver(c) PROVE ~loading'
    BY <2>2 DEF Deliver
  <2>3. ASSUME NEW c \in Callers, OwnerResume(c) \/ JoinerResume(c)
        PROVE  ~Idle'
    <3>1. calls \in [Callers -> CallRecord] /\ calls[c] \in CallRecord
      BY DEF TypeInv, TypeOK
    <3>2. \/ calls' = [calls EXCEPT ![c] = [@ EXCEPT !.pc = "answered",
                         !.fetch = None, !.data = fetches[calls[c].fetch].got]]
          \/ calls' = [calls EXCEPT ![c] = [@ EXCEPT !.pc = "rejected", !.fetch = None]]
      BY <2>3 DEF OwnerResume, JoinerResume
    <3>3. calls'[c].pc \in {"answered", "rejected"}
      <4>1. CASE calls' = [calls EXCEPT ![c] = [@ EXCEPT !.pc = "answered",
                   !.fetch = None, !.data = fetches[calls[c].fetch].got]]
        BY <3>1, <4>1 DEF CallRecord
      <4>2. CASE calls' = [calls EXCEPT ![c] = [@ EXCEPT !.pc = "rejected", !.fetch = None]]
        BY <3>1, <4>2 DEF CallRecord
      <4>3. QED BY <3>2, <4>1, <4>2
    <3>4. QED BY <3>3
  <2>4. CASE UNCHANGED <<calls, loading>>
    BY <2>4 DEF NoStuckLoading
  <2>5. QED
    BY <2>1, <2>2, <2>3, <2>4
       DEF Next, Continue, Network, ReadReplies, ReadFails, ServerWrites, Tick,
           vars, NoStuckLoading
<1>3. QED BY <1>1, <1>2, TypeInit, TypeStep, PTL DEF Spec

-----------------------------------------------------------------------------
(* What the refinement needs besides IInv *)

\* No continuation that would write to the cell is due.
CellSettled(g) ==
  \A d \in Callers : calls[d].pc = "owner" /\ calls[d].cell = g => ~Settled(calls[d].fetch)

VersionBounded == \A k \in Collections : version[k] <= MaxVersion

\* A promise that a cell publishes has failed, or the call that created it
\* has not resumed yet.
PendingHasOwner ==
  \A g \in Cells :
    cells[g].pending # None /\ fetches[cells[g].pending].status # "failed" =>
      \E c \in Callers :
        /\ calls[c].pc = "owner" /\ calls[c].cell = g
        /\ calls[c].fetch = cells[g].pending

\* Who awaits the promise of another call awaits the one its cell publishes,
\* or one whose result is what its cell holds.
JoinerSees(c) ==
  LET g == calls[c].cell  f == calls[c].fetch IN
  \/ cells[g].pending = f
  \/ fetches[f].status = "ok" /\ cells[g].data = fetches[f].got /\ CellSettled(g)
JoinerSeesCell == \A c \in Callers : calls[c].pc = "joiner" => JoinerSees(c)

\* What a call is answered is still what its cell holds when it is delivered.
AnswerSees(c) ==
  LET g == calls[c].cell IN
  calls[c].data # None /\ cells[g].data = calls[c].data /\ CellSettled(g)
AnswerIsCurrent == \A c \in Callers : calls[c].pc = "answered" => AnswerSees(c)

\* Until a fetch is forced, the page is never ahead of the cell.
PageBehindCell ==
  current = 0 /\ shown # None =>
    cells[0].data # None /\ NotOlder(cells[0].data, shown)

RInv ==
  /\ VersionBounded
  /\ PendingHasOwner
  /\ JoinerSeesCell
  /\ AnswerIsCurrent
  /\ PageBehindCell

\* A step that changes nothing but one call, which does not run a fetch
\* afterwards, and whose fetch has failed if it ran one.
LEMMA CallOnlyRefines ==
  ASSUME IInv, RInv, NEW c \in Callers,
         UNCHANGED <<version, cells, current, fetches>>,
         \A d \in Callers : d # c => calls'[d] = calls[d],
         calls[c].pc = "owner" => fetches[calls[c].fetch].status = "failed",
         calls'[c].pc # "owner",
         calls'[c].pc = "joiner" => cells[calls'[c].cell].pending = calls'[c].fetch,
         calls'[c].pc = "answered" =>
           /\ calls'[c].data # None
           /\ cells[calls'[c].cell].data = calls'[c].data
           /\ CellSettled(calls'[c].cell),
         PageBehindCell'
  PROVE  RInv'
<1>1. VersionBounded'
  BY DEF RInv, VersionBounded
<1>2. \A g : CellSettled(g) => CellSettled(g)'
  BY DEF CellSettled, Settled
<1>3. PendingHasOwner'
  BY DEF RInv, PendingHasOwner
<1>4. JoinerSeesCell'
  BY <1>2 DEF RInv, JoinerSeesCell, JoinerSees
<1>5. AnswerIsCurrent'
  BY <1>2 DEF RInv, AnswerIsCurrent, AnswerSees
<1>6. QED BY <1>1, <1>3, <1>4, <1>5 DEF RInv

LEMMA StartFetchRefines ==
  ASSUME IInv, RInv, NEW c \in Callers, NEW g \in Cells, NEW forced \in BOOLEAN,
         calls[c].pc = "idle", cells[g].pending = None, StartFetch(c, g, forced),
         UNCHANGED version, PageBehindCell'
  PROVE  RInv'
<1>1. PICK f \in Fetches :
        /\ Unreferenced(f)
        /\ fetches' = [fetches EXCEPT ![f] = [NoFetch EXCEPT !.status = "inflight"]]
        /\ cells' = [cells EXCEPT ![g] = [@ EXCEPT !.pending = f]]
        /\ calls' = [calls EXCEPT ![c] = [Begin(c, g, forced) EXCEPT
                       !.pc = "owner", !.fetch = f]]
  BY DEF StartFetch
<1>2. /\ calls'[c].pc = "owner" /\ calls'[c].fetch = f /\ calls'[c].cell = g
      /\ \A d \in Callers : d # c => calls'[d] = calls[d]
  BY <1>1 DEF IInv, TypeInv, TypeOK, Begin, IdleCall
<1>3. /\ cells'[g].pending = f /\ cells'[g].data = cells[g].data
      /\ \A h \in Cells : h # g => cells'[h] = cells[h]
  BY <1>1 DEF IInv, TypeInv, TypeOK, CellRecord
<1>4. /\ fetches'[f].status = "inflight"
      /\ \A x \in Fetches : x # f => fetches'[x] = fetches[x]
  BY <1>1 DEF IInv, TypeInv, TypeOK, NoFetch
<1>5. \A d \in Callers : calls[d].fetch # f /\ calls[d].cell \in Cells
  BY <1>1 DEF Unreferenced, IInv, TypeInv, TypeOK, CallRecord
<1>6. \A h \in Cells : cells[h].pending # f /\ cells[h].pending \in Fetches \cup {None}
  BY <1>1 DEF Unreferenced, IInv, TypeInv, TypeOK, CellRecord
<1>7. VersionBounded'
  BY DEF RInv, VersionBounded
<1>8. \A h : CellSettled(h) => CellSettled(h)'
  BY <1>2, <1>4, <1>5 DEF CellSettled, Settled, IInv, TypeInv, AwaitsPromise
<1>9. PendingHasOwner'
  BY <1>2, <1>3, <1>4, <1>6 DEF RInv, PendingHasOwner
<1>10. JoinerSeesCell'
  <2> SUFFICES ASSUME NEW d \in Callers, calls'[d].pc = "joiner"
               PROVE  JoinerSees(d)'
    BY DEF JoinerSeesCell
  <2>1. d # c /\ calls'[d] = calls[d] /\ calls[d].pc = "joiner"
    BY <1>2
  <2>2. calls[d].fetch \in Fetches \ {f} /\ calls[d].cell \in Cells
    BY <1>5, <2>1 DEF IInv, TypeInv, AwaitsPromise
  <2>3. CASE cells[calls[d].cell].pending = calls[d].fetch
    <3>1. calls[d].cell # g
      BY <2>2, <2>3, FetchCacheAssumption
    <3>2. QED BY <1>3, <2>1, <2>2, <2>3, <3>1 DEF JoinerSees
  <2>4. CASE /\ fetches[calls[d].fetch].status = "ok"
             /\ cells[calls[d].cell].data = fetches[calls[d].fetch].got
             /\ CellSettled(calls[d].cell)
    BY <1>3, <1>4, <1>8, <2>1, <2>2, <2>4 DEF JoinerSees
  <2>5. QED BY <2>1, <2>3, <2>4 DEF RInv, JoinerSeesCell, JoinerSees
<1>11. AnswerIsCurrent'
  BY <1>2, <1>3, <1>5, <1>8 DEF RInv, AnswerIsCurrent, AnswerSees
<1>12. QED BY <1>7, <1>9, <1>10, <1>11 DEF RInv

\* The call that fetched resumes with what it fetched.
LEMMA OwnerRefines ==
  ASSUME IInv, RInv, NEW c \in Callers, OwnerResume(c),
         fetches[calls[c].fetch].status = "ok"
  PROVE  RInv'
<1> DEFINE f == calls[c].fetch
           g == calls[c].cell
<1> USE FetchCacheAssumption
<1>1. /\ f \in Fetches /\ g \in Cells /\ calls[c].pc = "owner"
      /\ UNCHANGED <<version, current, fetches, shown>>
      /\ cells[g].pending = f
  BY DEF OwnerResume, IInv, TypeInv, TypeOK, CallRecord, AwaitsPromise, OwnerPublished
<1>2. fetches[f].got \in Snapshot /\ fetches[f].got # None
  BY <1>1 DEF IInv, TypeInv, OkIsComplete, Snapshot
<1>3. /\ calls'[c].pc = "answered" /\ calls'[c].data = fetches[f].got
      /\ calls'[c].cell = g
      /\ \A d \in Callers : d # c => calls'[d] = calls[d]
  <2>1. calls' = [calls EXCEPT ![c] = [@ EXCEPT
                    !.pc = "answered", !.fetch = None, !.data = fetches[f].got]]
    BY DEF OwnerResume
  <2>2. QED BY <2>1 DEF IInv, TypeInv, TypeOK, CallRecord
<1>4. /\ cells'[g].pending = None /\ cells'[g].data = fetches[f].got
      /\ \A h \in Cells : h # g => cells'[h] = cells[h]
  BY <1>1 DEF OwnerResume, IInv, TypeInv, TypeOK
<1>5. \A d \in Callers : calls[d].cell \in Cells
  BY DEF IInv, TypeInv, TypeOK, CallRecord
<1>6. \A d \in Callers : d # c /\ calls[d].pc = "owner" =>
        calls[d].cell # g /\ calls[d].fetch # f
  BY <1>1 DEF IInv, SingleFlight, OneOwner
<1>7. \A h : h = g \/ CellSettled(h) => CellSettled(h)'
  BY <1>1, <1>3, <1>6 DEF CellSettled, Settled
<1>8. VersionBounded'
  BY <1>1 DEF RInv, VersionBounded
<1>9. PendingHasOwner'
  BY <1>1, <1>3, <1>4 DEF RInv, PendingHasOwner
<1>10. ~CellSettled(g)
  BY <1>1 DEF CellSettled, Settled
<1>11. JoinerSeesCell'
  <2> SUFFICES ASSUME NEW d \in Callers, calls'[d].pc = "joiner"
               PROVE  JoinerSees(d)'
    BY DEF JoinerSeesCell
  <2>1. d # c /\ calls'[d] = calls[d] /\ calls[d].pc = "joiner" /\ calls[d].cell \in Cells
    BY <1>3, <1>5
  <2>2. CASE calls[d].cell = g
    <3>1. calls[d].fetch = f
      BY <1>1, <1>10, <2>1, <2>2 DEF RInv, JoinerSeesCell, JoinerSees
    <3>2. QED BY <1>1, <1>4, <1>7, <2>1, <2>2, <3>1 DEF JoinerSees
  <2>3. CASE calls[d].cell # g
    <3>1. CASE cells[calls[d].cell].pending = calls[d].fetch
      BY <1>4, <2>1, <2>3, <3>1 DEF JoinerSees
    <3>2. CASE /\ fetches[calls[d].fetch].status = "ok"
               /\ cells[calls[d].cell].data = fetches[calls[d].fetch].got
               /\ CellSettled(calls[d].cell)
      BY <1>1, <1>4, <1>7, <2>1, <2>3, <3>2 DEF JoinerSees
    <3>3. QED BY <2>1, <3>1, <3>2 DEF RInv, JoinerSeesCell, JoinerSees
  <2>4. QED BY <2>2, <2>3
<1>12. AnswerIsCurrent'
  <2> SUFFICES ASSUME NEW d \in Callers, calls'[d].pc = "answered"
               PROVE  AnswerSees(d)'
    BY DEF AnswerIsCurrent
  <2>1. CASE d = c
    BY <1>2, <1>3, <1>4, <1>7, <2>1 DEF AnswerSees
  <2>2. CASE d # c
    <3>1. calls'[d] = calls[d] /\ calls[d].cell # g /\ calls[d].cell \in Cells
      BY <1>3, <1>5, <1>10, <2>2 DEF RInv, AnswerIsCurrent, AnswerSees
    <3>2. QED BY <1>4, <1>7, <3>1 DEF RInv, AnswerIsCurrent, AnswerSees
  <2>3. QED BY <2>1, <2>2
<1>13. PageBehindCell'
  <2> SUFFICES ASSUME current = 0, shown # None
               PROVE  cells'[0].data # None /\ NotOlder(cells'[0].data, shown)
    BY <1>1 DEF PageBehindCell
  <2>1. 0 \in Cells /\ cells[0].data # None /\ NotOlder(cells[0].data, shown)
    BY DEF RInv, PageBehindCell, Cells
  <2>2. CASE g # 0
    BY <1>4, <2>1, <2>2
  <2>3. CASE g = 0
    <3>1. \A k \in Collections : fetches[f].got[k] >= cells[0].data[k]
      <4>1. \A k \in Collections : fetches[f].got[k] # None
        BY <1>2 DEF Snapshot
      <4>2. QED BY <1>1, <2>1, <2>3, <4>1 DEF IInv, FetchAboveCell
    <3>2. cells[0].data \in Snapshot /\ shown \in Snapshot
      BY <2>1 DEF IInv, TypeInv, TypeOK, CellRecord
    <3>3. NotOlder(fetches[f].got, shown)
      BY <1>2, <2>1, <3>1, <3>2 DEF NotOlder, Snapshot
    <3>4. QED BY <1>2, <1>4, <2>3, <3>3
  <2>4. QED BY <2>2, <2>3
<1>14. QED BY <1>8, <1>9, <1>11, <1>12, <1>13 DEF RInv

\* A step of the network, the server or the clock: the data of the cells, their
\* promises and the calls stay as they are, and unless a continuation is due
\* no promise that is still to settle is mistaken for one that is.
LEMMA EnvironmentRefines ==
  ASSUME IInv, RInv, UNCHANGED <<calls, current, shown>>, VersionBounded',
         \A g \in Cells : /\ cells'[g].pending = cells[g].pending
                         /\ cells'[g].data = cells[g].data,
         \A f \in Fetches : fetches'[f].status = "failed" \/ fetches[f].status # "failed",
         Quiet \/ UNCHANGED fetches
  PROVE  RInv'
<1>1. \A c \in Callers : calls[c].cell \in Cells
  BY DEF IInv, TypeInv, TypeOK, CallRecord
<1>2. \A g \in Cells : cells[g].pending \in Fetches \cup {None}
  BY DEF IInv, TypeInv, TypeOK, CellRecord
<1>3. PendingHasOwner'
  BY <1>2 DEF RInv, PendingHasOwner
<1>4. PageBehindCell'
  <2>1. 0 \in Cells
    BY FetchCacheAssumption DEF Cells
  <2>2. QED BY <2>1 DEF RInv, PageBehindCell, NotOlder
<1>5. CASE UNCHANGED fetches
  <2>1. \A h : CellSettled(h) => CellSettled(h)'
    BY <1>5 DEF CellSettled, Settled
  <2>2. JoinerSeesCell'
    BY <1>1, <1>5, <2>1 DEF RInv, JoinerSeesCell, JoinerSees
  <2>3. AnswerIsCurrent'
    BY <1>1, <2>1 DEF RInv, AnswerIsCurrent, AnswerSees
  <2>4. QED BY <1>3, <1>4, <2>2, <2>3 DEF RInv
<1>6. CASE Quiet
  <2>1. JoinerSeesCell'
    BY <1>1, <1>6 DEF RInv, JoinerSeesCell, JoinerSees, Quiet, Due, Settled
  <2>2. AnswerIsCurrent'
    BY <1>6 DEF AnswerIsCurrent, Quiet, Due
  <2>3. QED BY <1>3, <1>4, <2>1, <2>2 DEF RInv
<1>7. QED BY <1>5, <1>6

LEMMA RInvStep == IInv /\ RInv /\ [Next]_vars => RInv'
<1> SUFFICES ASSUME IInv, RInv, [Next]_vars PROVE RInv'
  OBVIOUS
<1> USE FetchCacheAssumption
<1>0. current \in Cells /\ calls \in [Callers -> CallRecord]
  BY DEF IInv, TypeInv, TypeOK
<1>1. ASSUME NEW c \in Callers, FetchData(c) PROVE RInv'
  <2>1. /\ calls[c].pc = "idle" /\ PageBehindCell' = PageBehindCell
        /\ UNCHANGED <<version, current, shown>>
    <3>1. UNCHANGED <<version, current, shown>>
      BY <1>1 DEF FetchData
    <3>2. \A g \in Cells : cells'[g].data = cells[g].data
      <4>1. CASE StartFetch(c, current, FALSE)
        BY <1>0, <4>1 DEF StartFetch, IInv, TypeInv, TypeOK, CellRecord
      <4>2. CASE UNCHANGED cells
        BY <4>2
      <4>3. QED BY <1>1, <4>1, <4>2 DEF FetchData, JoinPending, ServeCached
    <3>3. 0 \in Cells
      BY DEF Cells
    <3>4. QED BY <1>1, <3>1, <3>2, <3>3 DEF FetchData, PageBehindCell
  <2>2. CASE JoinPending(c, current)
    BY <1>0, <2>1, <2>2, CallOnlyRefines DEF JoinPending, Begin, IdleCall, RInv
  <2>3. CASE ServeCached(c, current)
    <3>1. CellSettled(current)
      BY <2>3 DEF ServeCached, CellSettled, IInv, OwnerPublished
    <3>2. QED
      BY <1>0, <2>1, <2>3, <3>1, CallOnlyRefines DEF ServeCached, Begin, IdleCall, RInv
  <2>4. CASE cells[current].pending = None /\ StartFetch(c, current, FALSE)
    BY <1>0, <2>1, <2>4, StartFetchRefines DEF RInv
  <2>5. QED BY <1>1, <2>2, <2>3, <2>4 DEF FetchData
<1>2. ASSUME NEW c \in Callers, ForceFetchData(c) PROVE RInv'
  <2>1. /\ current + 1 \in Cells /\ current' = current + 1 /\ current + 1 > current
        /\ current + 1 # 0
    BY <1>2 DEF ForceFetchData, IInv, TypeInv, TypeOK, Cells
  <2>2. cells[current + 1].pending = None
    BY <2>1 DEF IInv, FutureCellsEmpty, EmptyCell
  <2>3. PageBehindCell'
    BY <2>1 DEF PageBehindCell
  <2>4. QED BY <1>2, <2>1, <2>2, <2>3, StartFetchRefines DEF ForceFetchData
<1>3. ASSUME NEW c \in Callers, OwnerResume(c) PROVE RInv'
  <2>1. CASE fetches[calls[c].fetch].status = "ok"
    BY <1>3, <2>1, OwnerRefines
  <2>2. CASE fetches[calls[c].fetch].status = "failed"
    <3>1. /\ calls' = [calls EXCEPT ![c] = [@ EXCEPT !.pc = "rejected", !.fetch = None]]
          /\ UNCHANGED <<version, cells, current, fetches, shown>>
      BY <1>3, <2>2 DEF OwnerResume
    <3>2. calls'[c].pc = "rejected" /\ \A d \in Callers : d # c => calls'[d] = calls[d]
      BY <1>0, <3>1 DEF CallRecord
    <3>3. PageBehindCell'
      BY <3>1 DEF RInv, PageBehindCell
    <3>4. QED BY <2>2, <3>1, <3>2, <3>3, CallOnlyRefines
  <2>3. QED BY <1>3, <2>1, <2>2 DEF OwnerResume
<1>4. ASSUME NEW c \in Callers, JoinerResume(c) PROVE RInv'
  <2> DEFINE f == calls[c].fetch
  <2>1. /\ calls[c].pc = "joiner" /\ OwnerDone(f) /\ f \in Fetches
        /\ UNCHANGED <<version, cells, current, fetches, shown>>
    BY <1>4 DEF JoinerResume, IInv, TypeInv, AwaitsPromise
  <2>2. PageBehindCell'
    BY <2>1 DEF RInv, PageBehindCell
  <2>3. CASE fetches[f].status = "ok"
    <3>1. /\ calls' = [calls EXCEPT ![c] = [@ EXCEPT
                         !.pc = "answered", !.fetch = None, !.data = fetches[f].got]]
      BY <1>4, <2>3 DEF JoinerResume
    <3>2. /\ calls'[c].pc = "answered" /\ calls'[c].data = fetches[f].got
          /\ calls'[c].cell = calls[c].cell
          /\ \A d \in Callers : d # c => calls'[d] = calls[d]
      BY <1>0, <3>1 DEF CallRecord
    <3>3. fetches[f].got # None
      BY <2>1, <2>3 DEF IInv, TypeInv, OkIsComplete, Snapshot
    <3>4. cells[calls[c].cell].data = fetches[f].got /\ CellSettled(calls[c].cell)
      BY <2>1, <2>3, <1>0
         DEF RInv, JoinerSeesCell, JoinerSees, PendingHasOwner, OwnerDone, CallRecord
    <3>5. QED BY <2>1, <2>2, <3>2, <3>3, <3>4, CallOnlyRefines
  <2>4. CASE fetches[f].status = "failed"
    <3>1. /\ calls' = [calls EXCEPT ![c] = [@ EXCEPT !.pc = "rejected", !.fetch = None]]
      BY <1>4, <2>4 DEF JoinerResume
    <3>2. calls'[c].pc = "rejected" /\ \A d \in Callers : d # c => calls'[d] = calls[d]
      BY <1>0, <3>1 DEF CallRecord
    <3>3. QED BY <2>1, <2>2, <3>2, CallOnlyRefines
  <2>5. QED BY <1>4, <2>3, <2>4 DEF JoinerResume
<1>5. ASSUME NEW c \in Callers, Deliver(c) PROVE RInv'
  <2>1. /\ calls'[c].pc = "idle" /\ calls[c].pc \in {"answered", "rejected"}
        /\ \A d \in Callers : d # c => calls'[d] = calls[d]
        /\ UNCHANGED <<version, cells, current, fetches>>
    BY <1>0, <1>5 DEF Deliver, IdleCall
  <2>2. PageBehindCell'
    <3>1. CASE UNCHANGED shown
      BY <2>1, <3>1 DEF RInv, PageBehindCell
    <3>2. CASE /\ calls[c].pc = "answered" /\ shown' = calls[c].data
               /\ current = 0
      <4>1. calls[c].cell = 0
        BY <1>0, <3>2 DEF IInv, FutureCellsEmpty, Cells, CallRecord
      <4>2. cells[0].data # None /\ cells[0].data = shown'
        BY <3>2, <4>1 DEF RInv, AnswerIsCurrent, AnswerSees
      <4>3. cells[0].data \in Snapshot
        BY <4>2, <3>2, <1>0 DEF IInv, TypeInv, TypeOK, CellRecord
      <4>4. QED BY <2>1, <4>2, <4>3 DEF PageBehindCell, NotOlder, Snapshot
    <3>3. CASE current # 0
      BY <2>1, <3>3 DEF PageBehindCell
    <3>4. QED BY <1>5, <3>1, <3>2, <3>3 DEF Deliver
  <2>3. QED BY <2>1, <2>2, CallOnlyRefines
<1>6. ASSUME NEW f \in Fetches, NEW k \in Collections, ReadReplies(f, k) PROVE RInv'
  <2>1. \A x \in Fetches : fetches'[x].status = "failed" \/ fetches[x].status # "failed"
    BY <1>6 DEF ReadReplies, IInv, TypeInv, TypeOK, FetchRecord
  <2>2. QED
    BY <1>6, <2>1, EnvironmentRefines DEF ReadReplies, RInv, VersionBounded
<1>7. ASSUME NEW f \in Fetches, NEW k \in Collections, ReadFails(f, k) PROVE RInv'
  <2>1. \A x \in Fetches : fetches'[x].status = "failed" \/ fetches[x].status # "failed"
    BY <1>7 DEF ReadFails, IInv, TypeInv, TypeOK, FetchRecord
  <2>2. QED
    BY <1>7, <2>1, EnvironmentRefines DEF ReadFails, RInv, VersionBounded
<1>8. ASSUME NEW k \in Collections, ServerWrites(k) PROVE RInv'
  <2>1. VersionBounded'
    BY <1>8 DEF ServerWrites, RInv, VersionBounded, IInv, TypeInv, TypeOK, Snapshot
  <2>2. QED BY <1>8, <2>1, EnvironmentRefines DEF ServerWrites
<1>9. CASE Tick
  <2>1. \A g \in Cells : /\ cells'[g].pending = cells[g].pending
                        /\ cells'[g].data = cells[g].data
    BY <1>9 DEF Tick, IInv, TypeInv, TypeOK, CellRecord
  <2>2. QED BY <1>9, <2>1, EnvironmentRefines DEF Tick, RInv, VersionBounded
<1>10. CASE UNCHANGED vars
  BY <1>10, EnvironmentRefines DEF vars, RInv, VersionBounded
<1>11. QED
  BY <1>1, <1>2, <1>3, <1>4, <1>5, <1>6, <1>7, <1>8, <1>9, <1>10
     DEF Next, Continue, Network

LEMMA RInvInit == Init => RInv
<1> SUFFICES ASSUME Init PROVE RInv
  OBVIOUS
<1>1. VersionBounded
  BY FetchCacheAssumption DEF Init, VersionBounded
<1>2. PendingHasOwner /\ PageBehindCell
  BY DEF Init, EmptyCell, PendingHasOwner, PageBehindCell
<1>3. JoinerSeesCell /\ AnswerIsCurrent
  BY DEF Init, IdleCall, JoinerSeesCell, AnswerIsCurrent
<1>4. QED BY <1>1, <1>2, <1>3 DEF RInv

LEMMA RInvAlways == Spec => []RInv
BY RInvInit, RInvStep, InvAlways, PTL DEF Spec

-----------------------------------------------------------------------------
(* Every step is a step of FetchService, or changes nothing it sees *)

Mapped == [c \in Callers |-> SeenCall(c)]

LEMMA SeenStep ==
  ASSUME NEW c \in Callers, \A d \in Callers : d # c => calls'[d] = calls[d]
  PROVE  Mapped' = [Mapped EXCEPT ![c] = SeenCall(c)']
<1>1. \A d \in Callers : d # c => SeenCall(d)' = SeenCall(d)
  BY DEF SeenCall
<1>2. QED BY <1>1 DEF Mapped

\* A call that waits is answered.
LEMMA SeenAnswered ==
  ASSUME NEW c \in Callers, calls[c].pc \in {"owner", "joiner"}, NEW d,
         calls'[c].pc = "answered", calls'[c].data = d,
         calls'[c].cell = calls[c].cell, calls'[c].forced = calls[c].forced,
         calls'[c].asOf = calls[c].asOf
  PROVE  SeenCall(c)' = [SeenCall(c) EXCEPT !.pc = "answered", !.data = d]
<1> DEFINE e == calls[c].cell
           x == calls[c].data
           f == calls[c].forced
           a == calls[c].asOf
           between == [pc |-> "answered", epoch |-> e, data |-> x, forced |-> f, asOf |-> a]
<1>1. SeenCall(c) = [pc |-> "waiting", epoch |-> e, data |-> x, forced |-> f, asOf |-> a]
  BY DEF SeenCall
<1>2. SeenCall(c)' = [pc |-> "answered", epoch |-> e, data |-> d, forced |-> f, asOf |-> a]
  BY DEF SeenCall
<1> HIDE DEF e, x, f, a
<1>3. [SeenCall(c) EXCEPT !.pc = "answered"] = between
  BY <1>1
<1>4. [between EXCEPT !.data = d] = SeenCall(c)'
  BY <1>2
<1> HIDE DEF between
<1>5. QED BY <1>3, <1>4

LEMMA ServiceInit == Init => Service!Init
<1> SUFFICES ASSUME Init PROVE Service!Init
  OBVIOUS
<1>1. cells[current].data = None
  BY FetchCacheAssumption DEF Init, EmptyCell, Cells
<1>2. \A c \in Callers : SeenCall(c) = Service!IdleCall
  BY DEF Init, IdleCall, SeenCall, Service!IdleCall
<1>3. QED BY <1>1, <1>2 DEF Init, Service!Init

LEMMA StartFetchSeen ==
  ASSUME IInv, NEW c \in Callers, NEW g \in Cells, NEW forced \in BOOLEAN,
         StartFetch(c, g, forced)
  PROVE  /\ SeenCall(c)' = Service!Begin("waiting", g, None, forced)
         /\ \A d \in Callers : d # c => calls'[d] = calls[d]
         /\ \A h \in Cells : cells'[h].data = cells[h].data
<1>1. PICK f \in Fetches :
        /\ cells' = [cells EXCEPT ![g] = [@ EXCEPT !.pending = f]]
        /\ calls' = [calls EXCEPT ![c] = [Begin(c, g, forced) EXCEPT
                       !.pc = "owner", !.fetch = f]]
  BY DEF StartFetch
<1>2. /\ calls'[c].pc = "owner" /\ calls'[c].cell = g /\ calls'[c].data = None
      /\ calls'[c].forced = forced /\ calls'[c].asOf = version
      /\ \A d \in Callers : d # c => calls'[d] = calls[d]
  BY <1>1 DEF IInv, TypeInv, TypeOK, Begin, IdleCall
<1>3. \A h \in Cells : cells'[h].data = cells[h].data
  BY <1>1 DEF IInv, TypeInv, TypeOK, CellRecord
<1>4. QED BY <1>2, <1>3 DEF SeenCall, Service!Begin

LEMMA AskRefines ==
  ASSUME IInv, RInv, NEW c \in Callers, FetchData(c)
  PROVE  Service!Ask(c) \/ Service!Serve(c)
<1>1. current \in Cells /\ calls \in [Callers -> CallRecord]
  BY DEF IInv, TypeInv, TypeOK
<1>2. /\ calls[c].pc = "idle" /\ loading' = TRUE /\ UNCHANGED <<version, current, shown>>
  BY DEF FetchData
<1>3. Mapped[c].pc = "idle"
  BY <1>2 DEF SeenCall, Mapped
<1>4. ASSUME cells'[current].data = cells[current].data,
             SeenCall(c)' = Service!Begin("waiting", current, None, FALSE),
             \A d \in Callers : d # c => calls'[d] = calls[d]
      PROVE  Service!Ask(c)
  BY <1>2, <1>3, <1>4, SeenStep DEF Service!Ask, Mapped
<1>5. CASE JoinPending(c, current)
  <2>1. /\ calls'[c].pc = "joiner" /\ calls'[c].cell = current /\ calls'[c].data = None
        /\ calls'[c].forced = FALSE /\ calls'[c].asOf = version
        /\ \A d \in Callers : d # c => calls'[d] = calls[d]
    BY <1>1, <1>5 DEF JoinPending, Begin, IdleCall
  <2>2. UNCHANGED cells
    BY <1>5 DEF JoinPending
  <2>3. QED BY <1>4, <2>1, <2>2 DEF SeenCall, Service!Begin
<1>6. CASE ServeCached(c, current)
  <2>1. /\ calls'[c].pc = "answered" /\ calls'[c].cell = current
        /\ calls'[c].data = cells[current].data
        /\ calls'[c].forced = FALSE /\ calls'[c].asOf = version
        /\ \A d \in Callers : d # c => calls'[d] = calls[d]
    BY <1>1, <1>6 DEF ServeCached, Begin, IdleCall
  <2>2. SeenCall(c)' = Service!Begin("answered", current, cells[current].data, FALSE)
    BY <2>1 DEF SeenCall, Service!Begin
  <2>3. UNCHANGED cells /\ cells[current].data # None
    BY <1>6 DEF ServeCached
  <2>4. QED BY <1>2, <1>3, <2>1, <2>2, <2>3, SeenStep DEF Service!Serve, Mapped
<1>7. CASE StartFetch(c, current, FALSE)
  BY <1>1, <1>2, <1>4, <1>7, StartFetchSeen
<1>8. QED BY <1>5, <1>6, <1>7 DEF FetchData

LEMMA ForceRefines ==
  ASSUME IInv, RInv, NEW c \in Callers, ForceFetchData(c)
  PROVE  Service!Force(c)
<1>1. /\ current' = current + 1 /\ calls[c].pc = "idle" /\ current < MaxCell
      /\ StartFetch(c, current + 1, TRUE) /\ loading' = TRUE /\ UNCHANGED <<version, shown>>
  BY DEF ForceFetchData
<1>2. current + 1 \in Cells /\ current + 1 > current
  BY <1>1, FetchCacheAssumption DEF IInv, TypeInv, TypeOK, Cells
<1>3. cells[current + 1].data = None
  BY <1>2 DEF IInv, FutureCellsEmpty, EmptyCell
<1>4. cells'[current + 1].data = None
  BY <1>1, <1>2, <1>3, StartFetchSeen
<1>5. Mapped[c].pc = "idle"
  BY <1>1 DEF SeenCall, Mapped
<1>6. /\ SeenCall(c)' = Service!Begin("waiting", current + 1, None, TRUE)
      /\ Mapped' = [Mapped EXCEPT ![c] = SeenCall(c)']
  BY <1>1, <1>2, StartFetchSeen, SeenStep
<1>7. QED
  BY <1>1, <1>4, <1>5, <1>6 DEF Service!Force, Mapped

\* A fetch settles for the call that began it: an answer, or a rejection.
LEMMA OwnerIsAnswered ==
  ASSUME IInv, RInv, NEW c \in Callers, OwnerResume(c)
  PROVE  Service!Answer(c) \/ Service!Reject(c)
<1> DEFINE f == calls[c].fetch
           g == calls[c].cell
<1> USE FetchCacheAssumption
<1>1. /\ f \in Fetches /\ g \in Cells /\ calls[c].pc = "owner"
      /\ calls \in [Callers -> CallRecord] /\ current \in Cells /\ g <= current
      /\ UNCHANGED <<version, current, fetches, shown, loading>>
  BY DEF OwnerResume, IInv, TypeInv, TypeOK, CallRecord, AwaitsPromise, FutureCellsEmpty
<1>2. Mapped[c] = SeenCall(c) /\ Mapped[c].pc = "waiting" /\ Mapped[c].epoch = g
  BY <1>1 DEF SeenCall, Mapped
<1>3. CASE fetches[f].status = "ok"
  <2> DEFINE d == fetches[f].got
  <2>1. /\ calls' = [calls EXCEPT ![c] = [@ EXCEPT
                       !.pc = "answered", !.fetch = None, !.data = d]]
        /\ cells' = [cells EXCEPT ![g] = [pending |-> None, data |-> d, age |-> 0]]
    BY <1>3 DEF OwnerResume
  <2>2. d \in Snapshot
    BY <1>1, <1>3 DEF IInv, TypeInv, OkIsComplete
  <2>3. \A k \in Collections : d[k] # None /\ d[k] \in Nat
    BY <2>2 DEF Snapshot
  <2>4. NotOlder(version, d)
    BY <1>1, <2>3 DEF IInv, ReadBelowVersion, NotOlder
  <2>5. d \in Service!Snapshots
    BY <2>2, <2>3, <2>4 DEF RInv, VersionBounded, NotOlder, Service!Snapshots, Snapshot,
                            IInv, TypeInv, TypeOK
  <2>6. calls[c].forced => NotOlder(d, calls[c].asOf)
    BY <1>1, <2>3 DEF IInv, ForcedReads, NotOlder
  <2>7. cells[g].data # None => NotOlder(d, cells[g].data)
    BY <1>1, <2>3 DEF IInv, FetchAboveCell, NotOlder
  <2>8. Mapped' = [Mapped EXCEPT ![c] = [@ EXCEPT !.pc = "answered", !.data = d]]
    <3>1. SeenCall(c)' = [SeenCall(c) EXCEPT !.pc = "answered", !.data = d]
      <4>1. /\ calls'[c].pc = "answered" /\ calls'[c].data = d
            /\ calls'[c].cell = g /\ calls'[c].forced = calls[c].forced
            /\ calls'[c].asOf = calls[c].asOf
        BY <1>1, <2>1 DEF CallRecord
      <4> HIDE DEF d
      <4>2. QED BY <1>1, <4>1, SeenAnswered
    <3>2. \A x \in Callers : x # c => calls'[x] = calls[x]
      BY <1>1, <2>1
    <3>3. QED BY <1>2, <3>1, <3>2, SeenStep
  <2>9. /\ g = current => cells'[current].data = d
        /\ g # current => g < current /\ cells'[current].data = cells[current].data
    BY <1>1, <2>1 DEF IInv, TypeInv, TypeOK, Cells
  <2>10. Mapped[c].forced = calls[c].forced /\ Mapped[c].asOf = calls[c].asOf
    BY <1>2 DEF SeenCall
  <2> HIDE DEF d
  <2>11. QED
    BY <1>1, <1>2, <2>4, <2>5, <2>6, <2>7, <2>8, <2>9, <2>10
       DEF Service!Answer, Service!NotOlder, NotOlder, Mapped
<1>4. CASE fetches[f].status = "failed"
  <2>1. /\ calls' = [calls EXCEPT ![c] = [@ EXCEPT !.pc = "rejected", !.fetch = None]]
        /\ UNCHANGED cells
    BY <1>4 DEF OwnerResume
  <2>2. SeenCall(c)' = [SeenCall(c) EXCEPT !.pc = "rejected"]
    BY <1>1, <2>1 DEF SeenCall, CallRecord
  <2>3. \A x \in Callers : x # c => calls'[x] = calls[x]
    BY <1>1, <2>1
  <2>4. QED BY <1>1, <1>2, <2>1, <2>2, <2>3, SeenStep DEF Service!Reject, Mapped
<1>5. QED BY <1>3, <1>4 DEF OwnerResume

\* The same for a call that joined: what it is answered is what its cell holds.
LEMMA JoinerIsAnswered ==
  ASSUME IInv, RInv, NEW c \in Callers, JoinerResume(c)
  PROVE  Service!Answer(c) \/ Service!Reject(c)
<1> DEFINE f == calls[c].fetch
           g == calls[c].cell
<1> USE FetchCacheAssumption
<1>1. /\ f \in Fetches /\ g \in Cells /\ calls[c].pc = "joiner" /\ OwnerDone(f)
      /\ calls \in [Callers -> CallRecord] /\ current \in Cells /\ g <= current
      /\ UNCHANGED <<version, cells, current, fetches, shown, loading>>
  BY DEF JoinerResume, IInv, TypeInv, TypeOK, CallRecord, AwaitsPromise, FutureCellsEmpty
<1>2. Mapped[c] = SeenCall(c) /\ Mapped[c].pc = "waiting" /\ Mapped[c].epoch = g
  BY <1>1 DEF SeenCall, Mapped
<1>3. CASE fetches[f].status = "ok"
  <2> DEFINE d == fetches[f].got
  <2>1. calls' = [calls EXCEPT ![c] = [@ EXCEPT
                    !.pc = "answered", !.fetch = None, !.data = d]]
    BY <1>3 DEF JoinerResume
  <2>2. d \in Snapshot
    BY <1>1, <1>3 DEF IInv, TypeInv, OkIsComplete
  <2>3. \A k \in Collections : d[k] # None /\ d[k] \in Nat
    BY <2>2 DEF Snapshot
  <2>4. NotOlder(version, d) /\ NotOlder(d, d)
    BY <1>1, <2>3 DEF IInv, ReadBelowVersion, NotOlder
  <2>5. d \in Service!Snapshots
    BY <2>2, <2>3, <2>4 DEF RInv, VersionBounded, NotOlder, Service!Snapshots, Snapshot,
                            IInv, TypeInv, TypeOK
  <2>6. ~calls[c].forced
    BY <1>1 DEF IInv, ForcedReads
  <2>7. cells[g].data = d
    BY <1>1, <1>3 DEF RInv, JoinerSeesCell, JoinerSees, PendingHasOwner, OwnerDone
  <2>8. Mapped' = [Mapped EXCEPT ![c] = [@ EXCEPT !.pc = "answered", !.data = d]]
    <3>1. SeenCall(c)' = [SeenCall(c) EXCEPT !.pc = "answered", !.data = d]
      <4>1. /\ calls'[c].pc = "answered" /\ calls'[c].data = d
            /\ calls'[c].cell = g /\ calls'[c].forced = calls[c].forced
            /\ calls'[c].asOf = calls[c].asOf
        BY <1>1, <2>1 DEF CallRecord
      <4> HIDE DEF d
      <4>2. QED BY <1>1, <4>1, SeenAnswered
    <3>2. \A x \in Callers : x # c => calls'[x] = calls[x]
      BY <1>1, <2>1
    <3>3. QED BY <1>2, <3>1, <3>2, SeenStep
  <2>9. g # current => g < current
    BY <1>1 DEF Cells
  <2>10. Mapped[c].forced = calls[c].forced
    BY <1>2 DEF SeenCall
  <2> HIDE DEF d
  <2>11. QED
    BY <1>1, <1>2, <2>4, <2>5, <2>6, <2>7, <2>8, <2>9, <2>10
       DEF Service!Answer, Service!NotOlder, NotOlder, Mapped
<1>4. CASE fetches[f].status = "failed"
  <2>1. calls' = [calls EXCEPT ![c] = [@ EXCEPT !.pc = "rejected", !.fetch = None]]
    BY <1>4 DEF JoinerResume
  <2>2. SeenCall(c)' = [SeenCall(c) EXCEPT !.pc = "rejected"]
    BY <1>1, <2>1 DEF SeenCall, CallRecord
  <2>3. \A x \in Callers : x # c => calls'[x] = calls[x]
    BY <1>1, <2>1
  <2>4. QED BY <1>1, <1>2, <2>2, <2>3, SeenStep DEF Service!Reject, Mapped
<1>5. QED BY <1>3, <1>4 DEF JoinerResume

LEMMA DeliverRefines ==
  ASSUME IInv, RInv, NEW c \in Callers, Deliver(c)
  PROVE  Service!Deliver(c)
<1>1. /\ calls \in [Callers -> CallRecord] /\ loading' = FALSE
      /\ calls[c].pc \in {"answered", "rejected"}
      /\ UNCHANGED <<version, cells, current, fetches>>
      /\ calls'[c] = IdleCall /\ \A d \in Callers : d # c => calls'[d] = calls[d]
  BY DEF Deliver, IInv, TypeInv, TypeOK
<1>2. Mapped[c].pc = calls[c].pc /\ Mapped[c].data = calls[c].data
  BY <1>1 DEF SeenCall, Mapped
<1>3. SeenCall(c)' = Service!IdleCall
  BY <1>1 DEF SeenCall, IdleCall, Service!IdleCall
<1>4. Mapped' = [Mapped EXCEPT ![c] = Service!IdleCall]
  BY <1>1, <1>3, SeenStep
<1>5. /\ calls[c].pc = "answered" /\ current = 0 /\ shown # None
      => NotOlder(calls[c].data, shown)
  <2> SUFFICES ASSUME calls[c].pc = "answered", current = 0, shown # None
               PROVE  NotOlder(calls[c].data, shown)
    OBVIOUS
  <2>1. calls[c].cell = 0
    BY <1>1 DEF IInv, FutureCellsEmpty, Cells, CallRecord
  <2>2. QED BY <2>1 DEF RInv, AnswerIsCurrent, AnswerSees, PageBehindCell
<1>6. QED
  BY <1>1, <1>2, <1>4, <1>5 DEF Deliver, Service!Deliver, Service!NotOlder, NotOlder, Mapped

\* A step of the network or the clock is none of FetchService.
LEMMA StutterRefines ==
  ASSUME UNCHANGED <<version, current, calls, shown, loading>>,
         cells'[current].data = cells[current].data
  PROVE  UNCHANGED Service!vars
<1>1. Mapped' = Mapped
  BY DEF Mapped, SeenCall
<1>2. QED BY <1>1 DEF Service!vars, Mapped

LEMMA StepRefines == IInv /\ RInv /\ [Next]_vars => [Service!Next]_(Service!vars)
<1> SUFFICES ASSUME IInv, RInv, [Next]_vars PROVE [Service!Next]_(Service!vars)
  OBVIOUS
<1>0. current \in Cells
  BY DEF IInv, TypeInv, TypeOK
<1>1. ASSUME NEW c \in Callers, FetchData(c) PROVE Service!Next
  BY <1>1, AskRefines DEF Service!Next
<1>2. ASSUME NEW c \in Callers, ForceFetchData(c) PROVE Service!Next
  BY <1>2, ForceRefines DEF Service!Next
<1>3. ASSUME NEW c \in Callers, Continue(c) PROVE Service!Next
  BY <1>3, OwnerIsAnswered, JoinerIsAnswered, DeliverRefines DEF Continue, Service!Next
<1>4. ASSUME NEW f \in Fetches, Network(f) PROVE UNCHANGED Service!vars
  BY <1>4, StutterRefines DEF Network, ReadReplies, ReadFails
<1>5. ASSUME NEW k \in Collections, ServerWrites(k) PROVE Service!Next
  <2>1. Mapped' = Mapped
    BY <1>5 DEF ServerWrites, Mapped, SeenCall
  <2>2. Service!Write(k)
    BY <1>5, <2>1 DEF ServerWrites, Service!Write, Mapped
  <2>3. QED BY <2>2 DEF Service!Next
<1>6. CASE Tick
  <2>1. cells'[current].data = cells[current].data
    BY <1>0, <1>6 DEF Tick, IInv, TypeInv, TypeOK, CellRecord
  <2>2. QED BY <1>6, <2>1, StutterRefines DEF Tick
<1>7. CASE UNCHANGED vars
  BY <1>7, StutterRefines DEF vars
<1>8. QED BY <1>1, <1>2, <1>3, <1>4, <1>5, <1>6, <1>7 DEF Next

\* fetchData, with all its promises, cells and its clock, is a FetchService.
THEOREM ServiceRefinedTheorem == Spec => ServiceRefined
<1>1. QED
  BY ServiceInit, StepRefines, InvAlways, RInvAlways, PTL
     DEF Spec, ServiceRefined, Service!Spec
=============================================================================
