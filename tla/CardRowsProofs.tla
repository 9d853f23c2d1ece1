---------------------------- MODULE CardRowsProofs ----------------------------
(***************************************************************************)
(* Proofs about CardRows, for any number of rows of any kinds, calls and   *)
(* clicks: type correctness, that no toggle is left stuck, and that a      *)
(* toggle tells the truth once all calls are done.                         *)
(*                                                                         *)
(* Three inductive invariants, each with those before it: Inv, with which  *)
(* nothing waits for ever; TruthInv, what fetches, calls and the context   *)
(* know of the service, and the rows that keep a state of their own;       *)
(* RatioInv, the rows with a threshold, which follow the context.          *)
(***************************************************************************)
EXTENDS CardRows, TLAPS

\* The call c will reset the busy flag of the row r.
Waiting(c, r) ==
  /\ calls[c].pc # "idle" /\ calls[c].row = r /\ calls[c].mount = rows[r].mount
  /\ canary => calls[c].pc = "request"

\* A row that is busy waits for a call.
BusyWaits == \A r \in Rows : rows[r].busy => \E c \in Calls : Waiting(c, r)

\* A card that is loading waits for a call: with the hook, any call that has not
\* updated yet; with the frontend client, that of a toggle.
Unloading(c) ==
  IF canary THEN calls[c].pc = "request" /\ Unloads(calls[c])
  ELSE calls[c].pc \in {"login", "enter", "request"}
LoadingWaits == loading => \E c \in Calls : Unloading(c)

CallsHaveRows ==
  \A c \in Calls : calls[c].pc # "idle" => calls[c].row \in Rows /\ calls[c].name \in Names

Inv == TypeOK /\ BusyWaits /\ LoadingWaits /\ CallsHaveRows

-----------------------------------------------------------------------------
(* What becomes of a row                                                   *)

\* The row changes what it shows, and nothing else.
Same(row, new) ==
  /\ new \in RowState /\ new.is = row.is /\ new.ref = row.ref /\ new.mount = row.mount
  /\ new.busy = row.busy

LEMMA SameTransitive ==
  ASSUME NEW a, NEW b, NEW c, Same(a, b), Same(b, c)
  PROVE  Same(a, c)
BY DEF Same

LEMMA SameEnabled ==
  ASSUME NEW row \in RowState, NEW b \in BOOLEAN
  PROVE  /\ Same(row, [row EXCEPT !.enabled = b]) /\ [row EXCEPT !.enabled = b].enabled = b
         /\ [row EXCEPT !.enabled = b].muddled = row.muddled
BY DEF Same, RowState

LEMMA SameTyped ==
  ASSUME NEW row \in RowState, NEW b \in BOOLEAN
  PROVE  /\ Same(row, [row EXCEPT !.typed = b]) /\ [row EXCEPT !.typed = b].enabled = row.enabled
         /\ [row EXCEPT !.typed = b].muddled = row.muddled
BY DEF Same, RowState

LEMMA SameChosen ==
  ASSUME NEW row \in RowState, NEW o \in Options \cup {None}
  PROVE  /\ Same(row, [row EXCEPT !.chosen = o]) /\ [row EXCEPT !.chosen = o].enabled = row.enabled
         /\ [row EXCEPT !.chosen = o].muddled = row.muddled
BY DEF Same, RowState

LEMMA SameMuddled ==
  ASSUME NEW row \in RowState, NEW b \in BOOLEAN
  PROVE  /\ Same(row, [row EXCEPT !.muddled = b])
         /\ [row EXCEPT !.muddled = b].enabled = row.enabled
         /\ [row EXCEPT !.muddled = b].muddled = b
BY DEF Same, RowState

LEMMA SameSelf == ASSUME NEW row \in RowState PROVE Same(row, row)
BY DEF Same

\* A row that has a threshold shows the one of its alert.
LEMMA ShowRatioKeeps ==
  ASSUME NEW row \in RowState, NEW option \in Options \cup {None}
  PROVE  /\ Same(row, ShowRatio(row, option)) /\ ShowRatio(row, option).muddled = row.muddled
         /\ ShowRatio(row, option).enabled = (option # None)
<1>1. CASE option = None
  <2> DEFINE a == [row EXCEPT !.enabled = FALSE]
             b == [a EXCEPT !.chosen = "last"]
  <2>1. Same(row, a) /\ a.enabled = FALSE /\ a.muddled = row.muddled /\ a \in RowState
    BY SameEnabled DEF Same
  <2>2. ShowRatio(row, option) = b
    BY <1>1 DEF ShowRatio, RowState
  <2>3. "last" \in Options \cup {None}
    BY DEF Options, Ratios
  <2> HIDE DEF a
  <2>4. Same(a, b) /\ b.enabled = FALSE /\ b.muddled = row.muddled
    BY <2>1, <2>3, SameChosen
  <2> HIDE DEF b
  <2> QED
    BY <1>1, <2>1, <2>2, <2>4, SameTransitive
<1>2. CASE option # None
  <2> DEFINE a == [row EXCEPT !.enabled = TRUE]
             o == IF row.typed \/ option = "zero" THEN row.chosen ELSE option
             b == [a EXCEPT !.chosen = o]
             t == row.typed \/ option = "custom"
             d == [b EXCEPT !.typed = t]
  <2>1. Same(row, a) /\ a.enabled = TRUE /\ a.muddled = row.muddled /\ a \in RowState
    BY SameEnabled DEF Same
  <2>2. ShowRatio(row, option) = d
    BY <1>2 DEF ShowRatio, RowState
  <2>3. o \in Options \cup {None} /\ t \in BOOLEAN
    BY DEF RowState
  <2> HIDE DEF a, o, t
  <2>4. Same(a, b) /\ b.enabled = TRUE /\ b.muddled = row.muddled /\ b \in RowState
    BY <2>1, <2>3, SameChosen DEF Same
  <2> HIDE DEF b
  <2>5. Same(b, d) /\ d.enabled = TRUE /\ d.muddled = row.muddled
    BY <2>3, <2>4, SameTyped
  <2> HIDE DEF d
  <2> QED
    BY <1>2, <2>1, <2>2, <2>4, <2>5, SameTransitive
<1> QED
  BY <1>1, <1>2

LEMMA RunEffectKeeps ==
  ASSUME NEW row \in RowState, NEW option \in Options \cup {None}, NEW busy
  PROVE  /\ Same(row, RunEffect(row, option, busy))
         /\ RunEffect(row, option, busy).muddled = row.muddled
         /\ row.is.deps = {} => RunEffect(row, option, busy) = row
<1>1. CASE row.is.deps = {} \/ busy \/ row.busy
  <2>1. RunEffect(row, option, busy) = row
    BY <1>1 DEF RunEffect
  <2> QED
    BY <2>1, SameSelf
<1>2. CASE ~(row.is.deps = {} \/ busy \/ row.busy) /\ row.is.follows = "ratio"
  <2>1. RunEffect(row, option, busy) = ShowRatio(row, option)
    BY <1>2 DEF RunEffect
  <2> QED
    BY <1>2, <2>1, ShowRatioKeeps
<1>3. CASE ~(row.is.deps = {} \/ busy \/ row.busy) /\ row.is.follows # "ratio"
  <2>1. RunEffect(row, option, busy) = [row EXCEPT !.enabled = option # None]
    BY <1>3 DEF RunEffect
  <2>2. (option # None) \in BOOLEAN
    OBVIOUS
  <2> QED
    BY <1>3, <2>1, <2>2, SameEnabled
<1> QED
  BY <1>1, <1>2, <1>3

\* An effect changes what its row shows; a row without one stays as it is.
LEMMA FollowKeeps ==
  ASSUME NEW old, NEW new \in RowState, NEW option \in Options \cup {None},
         NEW rendered, NEW was, NEW busy
  PROVE  /\ Same(new, Follow(old, new, option, rendered, was, busy))
         /\ Follow(old, new, option, rendered, was, busy).muddled = new.muddled
         /\ new.is.deps = {} => Follow(old, new, option, rendered, was, busy) = new
<1>1. \/ Follow(old, new, option, rendered, was, busy) = new
      \/ Follow(old, new, option, rendered, was, busy) = RunEffect(new, option, busy)
  BY DEF Follow
<1> QED
  BY <1>1, RunEffectKeeps, SameSelf

LEMMA NamesAre ==
  ASSUME NEW r \in Rows
  PROVE  AlertName(r) \in Names /\ EventName(r) \in Names /\ SubscribeName(r) \in Names
BY DEF AlertName, EventName, SubscribeName, Names, Parts

\* The rows after their effects.
Follows(new, rs) ==
  /\ rs \in [Rows -> RowState]
  /\ \A r \in Rows : /\ Same(new[r], rs[r]) /\ rs[r].muddled = new[r].muddled
                     /\ new[r].is.deps = {} => rs[r] = new[r]

LEMMA FollowedKeeps ==
  ASSUME NEW old, NEW new \in [Rows -> RowState], NEW shown \in AlertsByName,
         NEW rendered, NEW was, NEW busy
  PROVE  Follows(new, Followed(old, new, shown, rendered, was, busy))
<1> DEFINE rs == Followed(old, new, shown, rendered, was, busy)
<1>1. \A r \in Rows : shown[AlertName(r)] \in Options \cup {None}
  BY NamesAre DEF AlertsByName
<1>2. rs = [r \in Rows |-> Follow(old[r], new[r], shown[AlertName(r)], rendered, was, busy)]
  BY DEF Followed
<1> HIDE DEF rs
<1>3. \A r \in Rows : /\ Same(new[r], rs[r]) /\ rs[r].muddled = new[r].muddled
                      /\ new[r].is.deps = {} => rs[r] = new[r]
  <2> TAKE r \in Rows
  <2> DEFINE a == old[r]
             b == new[r]
             o == shown[AlertName(r)]
  <2>1. rs[r] = Follow(a, b, o, rendered, was, busy) /\ b \in RowState /\ o \in Options \cup {None}
    BY <1>1, <1>2
  <2> HIDE DEF a, b, o
  <2>2. /\ Same(b, rs[r]) /\ rs[r].muddled = b.muddled /\ (b.is.deps = {} => rs[r] = b)
    BY <2>1, FollowKeeps
  <2> QED
    BY <2>2 DEF b
<1>4. rs \in [Rows -> RowState]
  BY <1>2, <1>3 DEF Same
<1> QED
  BY <1>3, <1>4 DEF rs, Follows

\* A row that comes on the screen is not busy.
Fresh(row, new) ==
  /\ new \in RowState /\ new.is = row.is /\ new.ref = row.ref /\ new.mount = row.mount
  /\ new.busy = FALSE

LEMMA MountedFresh ==
  ASSUME NEW row \in RowState, NEW option \in Options \cup {None}, NEW busy
  PROVE  /\ Fresh(row, Mounted(row, option, busy)) /\ Mounted(row, option, busy).muddled = row.muddled
         /\ row.is.follows = "once" => Mounted(row, option, busy).enabled = (option # None)
<1> DEFINE a == [row EXCEPT !.enabled = FALSE]
           b == [a EXCEPT !.busy = FALSE]
           d == [b EXCEPT !.chosen = None]
           e == [d EXCEPT !.typed = FALSE]
           on == (option # None)
<1>1. a \in RowState /\ Same(row, a) /\ a.muddled = row.muddled
  BY SameEnabled DEF Same
<1>2. [row EXCEPT !.enabled = FALSE, !.busy = FALSE, !.chosen = None, !.typed = FALSE] = e
  BY DEF RowState
<1> HIDE DEF a
<1>3. b \in RowState /\ Fresh(a, b) /\ b.muddled = a.muddled
  BY <1>1 DEF RowState, Fresh
<1> HIDE DEF b
<1>4. d \in RowState /\ Same(b, d) /\ d.muddled = b.muddled
  BY <1>3, SameChosen DEF Same
<1> HIDE DEF d
<1>5. e \in RowState /\ Same(d, e) /\ e.muddled = d.muddled
  BY <1>4, SameTyped DEF Same
<1>6. Mounted(row, option, busy) =
        IF row.is.follows = "once" THEN [e EXCEPT !.enabled = on] ELSE RunEffect(e, option, busy)
  BY <1>2 DEF Mounted
<1> HIDE DEF e
<1>7. Fresh(row, e) /\ e.muddled = row.muddled /\ e.is = row.is /\ e.busy = FALSE
  BY <1>1, <1>3, <1>4, <1>5 DEF Fresh, Same
<1>8. on \in BOOLEAN
  OBVIOUS
<1>9. Same(e, [e EXCEPT !.enabled = on]) /\ [e EXCEPT !.enabled = on].enabled = on
      /\ [e EXCEPT !.enabled = on].muddled = e.muddled
  BY <1>5, <1>8, SameEnabled
<1>10. \A new : Same(e, new) => Fresh(row, new)
  BY <1>7 DEF Same, Fresh
<1>11. CASE row.is.follows = "once"
  <2> DEFINE f == [e EXCEPT !.enabled = on]
  <2>1. Mounted(row, option, busy) = f
    BY <1>6, <1>11
  <2> HIDE DEF f
  <2>2. Fresh(row, f) /\ f.enabled = on /\ f.muddled = row.muddled
    BY <1>7, <1>9, <1>10 DEF f
  <2> QED
    BY <1>11, <2>1, <2>2
<1>12. CASE row.is.follows # "once"
  <2>1. Mounted(row, option, busy) = RunEffect(e, option, busy)
    BY <1>6, <1>12
  <2>2. Same(e, RunEffect(e, option, busy)) /\ RunEffect(e, option, busy).muddled = e.muddled
    BY <1>5, RunEffectKeeps
  <2> QED
    BY <1>7, <1>10, <1>12, <2>1, <2>2
<1> QED
  BY <1>11, <1>12

\* What the .then and the .catch of a call show.
LEMMA ShowsKeeps ==
  ASSUME NEW row \in RowState, NEW what
  PROVE  /\ Same(row, Shows(row, what)) /\ Shows(row, what).muddled = row.muddled
         /\ Shows(row, what).enabled = IF what = "keep" THEN row.enabled ELSE (what = "on")
<1>1. CASE what = "keep"
  BY <1>1, SameSelf DEF Shows
<1>2. CASE what # "keep"
  <2> DEFINE on == (what = "on")
  <2>1. Shows(row, what) = [row EXCEPT !.enabled = on] /\ on \in BOOLEAN
    BY <1>2 DEF Shows
  <2> HIDE DEF on
  <2>2. Same(row, Shows(row, what)) /\ Shows(row, what).muddled = row.muddled
        /\ Shows(row, what).enabled = on
    BY <2>1, SameEnabled
  <2> QED
    BY <1>2, <2>2 DEF on
<1> QED
  BY <1>1, <1>2

LEMMA AnsweredKeeps ==
  ASSUME NEW row \in RowState, NEW k \in CallRecord, NEW found
  PROVE  Same(row, Answered(row, k, found)) /\ Answered(row, k, found).muddled = row.muddled
<1>1. CASE k.op = "choose"
  <2> DEFINE a == [row EXCEPT !.chosen = k.option]
             b == [a EXCEPT !.typed = FALSE]
  <2>1. Same(row, a) /\ a \in RowState /\ a.muddled = row.muddled
    BY SameChosen DEF CallRecord, Same
  <2>2. Answered(row, k, found) = b
    BY <1>1 DEF Answered, RowState
  <2> HIDE DEF a
  <2>3. Same(a, b) /\ b.muddled = a.muddled
    BY <2>1, SameTyped
  <2> QED
    BY <2>1, <2>2, <2>3, SameTransitive
<1>2. CASE k.op = "custom"
  <2>1. Answered(row, k, found) = [row EXCEPT !.chosen = "custom"]
    BY <1>2 DEF Answered
  <2>2. "custom" \in Options \cup {None}
    BY DEF Options
  <2> QED
    BY <2>1, <2>2, SameChosen
<1>3. CASE k.op = "subscribe"
  <2> DEFINE what == IF row.is.subscribed # "check" THEN row.is.subscribed
                     ELSE IF found THEN "keep" ELSE "off"
  <2>1. Answered(row, k, found) = Shows(row, what)
    BY <1>3 DEF Answered
  <2> HIDE DEF what
  <2> QED
    BY <2>1, ShowsKeeps
<1>4. CASE k.op = "unsubscribe"
  <2> DEFINE what == IF row.is.unsubscribed # "check" THEN row.is.unsubscribed
                     ELSE IF found /\ ~canary THEN "on" ELSE "keep"
             a == Shows(row, what)
  <2>1. Answered(row, k, found) = [a EXCEPT !.typed = FALSE]
    BY <1>4 DEF Answered
  <2> HIDE DEF what
  <2>2. Same(row, a) /\ a.muddled = row.muddled /\ a \in RowState
    BY ShowsKeeps DEF Same
  <2> HIDE DEF a
  <2>3. Same(a, [a EXCEPT !.typed = FALSE]) /\ [a EXCEPT !.typed = FALSE].muddled = a.muddled
    BY <2>2, SameTyped
  <2> QED
    BY <2>1, <2>2, <2>3, SameTransitive
<1>5. CASE k.op \notin {"choose", "custom", "subscribe", "unsubscribe"}
  <2>1. Answered(row, k, found) = row
    BY <1>5 DEF Answered
  <2> QED
    BY <2>1, SameSelf
<1> QED
  BY <1>1, <1>2, <1>3, <1>4, <1>5

LEMMA RefusedKeeps ==
  ASSUME NEW row \in RowState, NEW k \in CallRecord
  PROVE  Same(row, Refused(row, k)) /\ Refused(row, k).muddled = row.muddled
<1>1. CASE k.op = "subscribe"
  BY <1>1, ShowsKeeps DEF Refused
<1>2. CASE k.op = "unsubscribe"
  BY <1>2, ShowsKeeps DEF Refused
<1>3. CASE k.op \notin {"subscribe", "unsubscribe"}
  BY <1>3, SameSelf DEF Refused
<1> QED
  BY <1>1, <1>2, <1>3

\* The row after its call has settled: free, unless it has left the screen since.
After(row, k, new) ==
  /\ new \in RowState /\ new.is = row.is /\ new.ref = row.ref /\ new.mount = row.mount
  /\ new.busy => row.busy /\ row.mount # k.mount

\* The row that the .then or the .catch leaves, before the .finally.
Then(row, k, answered, found) ==
  IF row.mount # k.mount THEN row
  ELSE IF answered THEN Answered(row, k, found)
  ELSE [Refused(row, k) EXCEPT !.muddled = TRUE]

LEMMA ThenKeeps ==
  ASSUME NEW row \in RowState, NEW k \in CallRecord, NEW answered \in BOOLEAN, NEW found
  PROVE  /\ Same(row, Then(row, k, answered, found))
         /\ answered \/ row.mount # k.mount => Then(row, k, answered, found).muddled = row.muddled
         /\ ~answered /\ row.mount = k.mount => Then(row, k, answered, found).muddled = TRUE
<1>1. CASE row.mount # k.mount
  BY <1>1, SameSelf DEF Then
<1>2. CASE row.mount = k.mount /\ answered
  <2>1. Then(row, k, answered, found) = Answered(row, k, found)
    BY <1>2 DEF Then
  <2>2. Same(row, Answered(row, k, found)) /\ Answered(row, k, found).muddled = row.muddled
    BY AnsweredKeeps
  <2> QED
    BY <1>2, <2>1, <2>2
<1>3. CASE row.mount = k.mount /\ ~answered
  <2> DEFINE a == Refused(row, k)
  <2>1. Then(row, k, answered, found) = [a EXCEPT !.muddled = TRUE]
    BY <1>3 DEF Then
  <2>2. Same(row, a) /\ a \in RowState
    BY RefusedKeeps DEF Same
  <2> HIDE DEF a
  <2>3. Same(a, [a EXCEPT !.muddled = TRUE]) /\ [a EXCEPT !.muddled = TRUE].muddled = TRUE
    BY <2>2, SameMuddled
  <2> QED
    BY <1>3, <2>1, <2>2, <2>3, SameTransitive
<1> QED
  BY <1>1, <1>2, <1>3

LEMMA SettledAfter ==
  ASSUME NEW row \in RowState, NEW k \in CallRecord, NEW answered, NEW new, Same(row, new)
  PROVE  /\ After(row, k, Settled(k, new, answered))
         /\ Settled(k, new, answered).muddled = new.muddled
         /\ Settled(k, new, answered).enabled = new.enabled
<1>1. new \in RowState /\ new.mount = row.mount
  BY DEF Same
<1>2. CASE new.mount = k.mount
  <2>1. Settled(k, new, answered) = [new EXCEPT !.busy = FALSE]
    BY <1>2 DEF Settled
  <2>2. /\ [new EXCEPT !.busy = FALSE] \in RowState /\ [new EXCEPT !.busy = FALSE].is = new.is
        /\ [new EXCEPT !.busy = FALSE].ref = new.ref /\ [new EXCEPT !.busy = FALSE].mount = new.mount
        /\ [new EXCEPT !.busy = FALSE].busy = FALSE
        /\ [new EXCEPT !.busy = FALSE].muddled = new.muddled
        /\ [new EXCEPT !.busy = FALSE].enabled = new.enabled
    BY <1>1 DEF RowState
  <2> QED
    BY <2>1, <2>2 DEF After, Same
<1>3. CASE new.mount # k.mount
  BY <1>1, <1>3 DEF Settled, After, Same
<1> QED
  BY <1>2, <1>3

LEMMA ContinuedAfter ==
  ASSUME NEW was \in [Rows -> RowState], NEW k \in CallRecord, k.row \in Rows,
         NEW answered \in BOOLEAN, NEW found
  PROVE  LET rs == Continued(was, k, answered, found)
             row == was[k.row]
             then == Then(row, k, answered, found)
         IN /\ rs \in [Rows -> RowState]
            /\ After(row, k, rs[k.row])
            /\ rs[k.row].muddled = then.muddled /\ rs[k.row].enabled = then.enabled
            /\ \A r \in Rows : r # k.row => rs[r] = was[r]
<1> DEFINE row == was[k.row]
           then == Then(row, k, answered, found)
           new == Settled(k, then, answered)
<1>1. Continued(was, k, answered, found) = [was EXCEPT ![k.row] = new]
  BY DEF Continued, Then
<1>2. row \in RowState
  OBVIOUS
<1> HIDE DEF row
<1>3. Same(row, then)
  BY <1>2, ThenKeeps
<1> HIDE DEF then
<1>4. After(row, k, new) /\ new.muddled = then.muddled /\ new.enabled = then.enabled
  BY <1>2, <1>3, SettledAfter
<1> HIDE DEF new
<1>5. new \in RowState
  BY <1>4 DEF After
<1>6. /\ [was EXCEPT ![k.row] = new] \in [Rows -> RowState]
      /\ [was EXCEPT ![k.row] = new][k.row] = new
      /\ \A r \in Rows : r # k.row => [was EXCEPT ![k.row] = new][r] = was[r]
  BY <1>5
<1> QED
  BY <1>1, <1>4, <1>6 DEF row, then

LEMMA AfterSame ==
  ASSUME NEW a, NEW k, NEW b, NEW c, After(a, k, b), Same(b, c)
  PROVE  After(a, k, c)
BY DEF After, Same

LEMMA SameAfter ==
  ASSUME NEW a, NEW k, NEW b, NEW c, Same(a, b), After(b, k, c)
  PROVE  After(a, k, c)
BY DEF After, Same

\* A row whose call has ended, and the other rows, with all their effects: a row
\* without effect is as the .then or the .catch has left it.
Concludes(k, answered, found, rs) ==
  /\ rs \in [Rows -> RowState]
  /\ After(rows[k.row], k, rs[k.row])
  /\ answered \/ rows[k.row].mount # k.mount => rs[k.row].muddled = rows[k.row].muddled
  /\ ~answered /\ rows[k.row].mount = k.mount => rs[k.row].muddled = TRUE
  /\ rows[k.row].is.deps = {} =>
       rs[k.row].enabled = Then(rows[k.row], k, answered, found).enabled
  /\ \A r \in Rows : r # k.row =>
       /\ Same(rows[r], rs[r]) /\ rs[r].muddled = rows[r].muddled
       /\ rows[r].is.deps = {} => rs[r] = rows[r]

LEMMA ConcludedAfter ==
  ASSUME rows \in [Rows -> RowState], NEW k \in CallRecord, k.row \in Rows,
         NEW answered \in BOOLEAN, NEW found, NEW shown \in AlertsByName, NEW rendered, NEW busy,
         NEW batched
  PROVE  Concludes(k, answered, found,
                   Concluded(k, answered, found, shown, rendered, busy, batched))
<1> DEFINE rs == Concluded(k, answered, found, shown, rendered, busy, batched)
           first == IF batched THEN rows
                    ELSE Followed(rows, rows, shown, rendered, loading, loading)
           last == Continued(first, k, answered, found)
           seen == IF batched THEN first
                   ELSE [r \in Rows |-> [first[r] EXCEPT !.enabled = last[r].enabled]]
           both == batched /\ rendered
<1>0. rows \in [Rows -> RowState]
  OBVIOUS
<1>1. rs = Followed(seen, last, shown, both, loading, busy)
  BY DEF Concluded
<1>2. /\ first \in [Rows -> RowState]
      /\ \A r \in Rows : /\ Same(rows[r], first[r]) /\ first[r].muddled = rows[r].muddled
                         /\ rows[r].is.deps = {} => first[r] = rows[r]
  <2>1. CASE batched
    BY <2>1, SameSelf
  <2>2. CASE ~batched
    <3>1. first = Followed(rows, rows, shown, rendered, loading, loading)
      BY <2>2
    <3> HIDE DEF first
    <3> QED
      BY <1>0, <3>1, FollowedKeeps DEF Follows
  <2> QED
    BY <2>1, <2>2
<1> HIDE DEF rs, first, seen, both
<1> DEFINE then == Then(first[k.row], k, answered, found)
<1>3. /\ last \in [Rows -> RowState] /\ After(first[k.row], k, last[k.row])
      /\ last[k.row].muddled = then.muddled /\ last[k.row].enabled = then.enabled
      /\ \A r \in Rows : r # k.row => last[r] = first[r]
  BY <1>2, ContinuedAfter
<1> HIDE DEF last
<1>4. /\ rs \in [Rows -> RowState]
      /\ \A r \in Rows : /\ Same(last[r], rs[r]) /\ rs[r].muddled = last[r].muddled
                         /\ last[r].is.deps = {} => rs[r] = last[r]
  BY <1>1, <1>3, FollowedKeeps DEF Follows
<1>5. first[k.row] \in RowState /\ first[k.row].mount = rows[k.row].mount
  BY <1>2 DEF Same
<1>6. /\ answered \/ rows[k.row].mount # k.mount => then.muddled = first[k.row].muddled
      /\ ~answered /\ rows[k.row].mount = k.mount => then.muddled = TRUE
  <2> DEFINE p == first[k.row]
  <2>1. p \in RowState /\ p.mount = rows[k.row].mount
    BY <1>5
  <2> HIDE DEF p
  <2>2. /\ answered \/ p.mount # k.mount => Then(p, k, answered, found).muddled = p.muddled
        /\ ~answered /\ p.mount = k.mount => Then(p, k, answered, found).muddled = TRUE
    <3>1. CASE p.mount # k.mount
      BY <3>1 DEF Then
    <3>2. CASE p.mount = k.mount /\ answered
      <4>1. Then(p, k, answered, found) = Answered(p, k, found)
        BY <3>2 DEF Then
      <4>2. Answered(p, k, found).muddled = p.muddled
        BY <2>1, AnsweredKeeps
      <4> QED
        BY <3>2, <4>1, <4>2
    <3>3. CASE p.mount = k.mount /\ ~answered
      <4> DEFINE a == Refused(p, k)
      <4>1. Then(p, k, answered, found) = [a EXCEPT !.muddled = TRUE]
        BY <3>3 DEF Then
      <4>2. Same(p, a)
        BY <2>1, RefusedKeeps
      <4>3. a \in RowState
        BY <4>2 DEF Same
      <4> HIDE DEF a
      <4>4. [a EXCEPT !.muddled = TRUE].muddled = TRUE
        BY <4>3, SameMuddled
      <4> QED
        BY <3>3, <4>1, <4>4
    <3> QED
      BY <3>1, <3>2, <3>3
  <2> QED
    BY <2>1, <2>2 DEF p
<1> HIDE DEF then
<1>7. After(rows[k.row], k, rs[k.row])
  BY <1>2, <1>3, <1>4, SameAfter, AfterSame
<1>8. /\ answered \/ rows[k.row].mount # k.mount => rs[k.row].muddled = rows[k.row].muddled
      /\ ~answered /\ rows[k.row].mount = k.mount => rs[k.row].muddled = TRUE
  BY <1>2, <1>3, <1>4, <1>6
<1>9. last[k.row].is = rows[k.row].is
  BY <1>2, <1>3 DEF After, Same
<1>10. rows[k.row].is.deps = {} =>
         rs[k.row].enabled = Then(rows[k.row], k, answered, found).enabled
  BY <1>2, <1>3, <1>4, <1>9 DEF then
<1>11. ASSUME NEW r \in Rows, r # k.row
       PROVE  /\ Same(rows[r], rs[r]) /\ rs[r].muddled = rows[r].muddled
              /\ rows[r].is.deps = {} => rs[r] = rows[r]
  <2>1. last[r] = first[r] /\ first[r].is = rows[r].is
    BY <1>2, <1>3, <1>11 DEF Same
  <2> QED
    BY <1>2, <1>4, <2>1, SameTransitive
<1> QED
  BY <1>4, <1>7, <1>8, <1>10, <1>11 DEF rs, Concludes

-----------------------------------------------------------------------------
(* What becomes of a call and of the alerts                                *)

SameCall(k, l) ==
  /\ l \in CallRecord /\ l.row = k.row /\ l.mount = k.mount /\ l.op = k.op /\ l.name = k.name
  /\ l.option = k.option

LEMMA Moves ==
  ASSUME NEW k \in CallRecord, NEW pc \in {"idle", "login", "enter", "request", "read", "render"}
  PROVE  SameCall(k, [k EXCEPT !.pc = pc]) /\ [k EXCEPT !.pc = pc].pc = pc
         /\ [k EXCEPT !.pc = pc].data = k.data /\ [k EXCEPT !.pc = pc].replaced = k.replaced
BY DEF CallRecord, SameCall

LEMMA Loads ==
  ASSUME NEW k \in CallRecord, NEW data \in AlertsByName
  PROVE  SameCall(k, [k EXCEPT !.data = data]) /\ [k EXCEPT !.data = data].pc = k.pc
         /\ [k EXCEPT !.data = data].data = data /\ [k EXCEPT !.data = data].replaced = k.replaced
BY DEF CallRecord, SameCall

LEMMA Replaces ==
  ASSUME NEW k \in CallRecord, NEW b \in BOOLEAN
  PROVE  SameCall(k, [k EXCEPT !.replaced = b]) /\ [k EXCEPT !.replaced = b].pc = k.pc
         /\ [k EXCEPT !.replaced = b].data = k.data /\ [k EXCEPT !.replaced = b].replaced = b
BY DEF CallRecord, SameCall

LEMMA SameCallTransitive ==
  ASSUME NEW a, NEW b, NEW c, SameCall(a, b), SameCall(b, c)
  PROVE  SameCall(a, c)
BY DEF SameCall

\* A call and the fetch it begins, or finds.
LEMMA FetchedByType ==
  ASSUME NEW k \in CallRecord, NEW from \in FetchRecord,
         NEW waiting \in {"login", "read"}, NEW ready \in {"enter", "render"}
  PROVE  LET l == FetchedBy(k, from, waiting, ready) IN
         /\ SameCall(k, l) /\ l.replaced = k.replaced
         /\ from.state = "cached" => l.pc = ready /\ l.data = from.data
         /\ from.state # "cached" => l.pc = waiting /\ l.data = k.data
<1>1. CASE from.state = "cached"
  <2> DEFINE a == [k EXCEPT !.pc = ready]
             b == [a EXCEPT !.data = from.data]
  <2> DEFINE pcs == {"idle", "login", "enter", "request", "read", "render"}
  <2>0. ready \in pcs
    OBVIOUS
  <2>1. SameCall(k, a) /\ a.pc = ready /\ a.replaced = k.replaced
    BY <2>0, Moves
  <2>5. a \in CallRecord
    BY <2>1 DEF SameCall
  <2>2. from.data \in AlertsByName
    BY DEF FetchRecord
  <2>3. FetchedBy(k, from, waiting, ready) = b
    BY <1>1 DEF FetchedBy, CallRecord
  <2> HIDE DEF a
  <2>4. SameCall(a, b) /\ b.pc = a.pc /\ b.data = from.data /\ b.replaced = a.replaced
    BY <2>2, <2>5, Loads
  <2> HIDE DEF b
  <2> QED
    BY <1>1, <2>1, <2>3, <2>4, SameCallTransitive
<1>2. CASE from.state # "cached"
  <2> DEFINE a == [k EXCEPT !.pc = waiting]
             pcs == {"idle", "login", "enter", "request", "read", "render"}
  <2>1. FetchedBy(k, from, waiting, ready) = a
    BY <1>2 DEF FetchedBy
  <2>2. waiting \in pcs
    OBVIOUS
  <2>3. SameCall(k, a) /\ a.pc = waiting /\ a.replaced = k.replaced /\ a.data = k.data
    BY <2>2, Moves
  <2> HIDE DEF a
  <2> QED
    BY <1>2, <2>1, <2>3
<1> QED
  BY <1>1, <1>2

\* The states and the data of the fetch.
LEMMA FetchStates ==
  ASSUME NEW from \in FetchRecord
  PROVE  /\ \A s \in {"old", "asked", "answered", "cached", "failed"} :
              [from EXCEPT !.state = s] \in FetchRecord
         /\ \A b \in BOOLEAN : [from EXCEPT !.viewed = b] \in FetchRecord
         /\ \A d \in AlertsByName : [from EXCEPT !.data = d] \in FetchRecord
         /\ Asked(from) \in FetchRecord
BY DEF FetchRecord, Asked

LEMMA IdleType == IdleCall \in CallRecord /\ IdleCall.pc = "idle"
BY DEF IdleCall, CallRecord, AlertsByName, NoAlerts

\* What a call leaves of the alerts of the service.
LEMMA WrittenIs ==
  ASSUME NEW k, NEW s \in Written(k)
  PROVE  \/ k.option # None /\ s = [server EXCEPT ![k.name] = Stored(rows[k.row], k.option)]
         \/ ~canary /\ s = Without(k)
         \/ canary /\ k.option = None /\ \E n \in Deleted(k) : s = [server EXCEPT ![n] = None]
BY DEF Written

LEMMA WithoutIs ==
  ASSUME NEW k
  PROVE  Without(k) = IF k.data[k.name] = None THEN server ELSE [server EXCEPT ![k.name] = None]
BY DEF Without

LEMMA WrittenType ==
  ASSUME server \in AlertsByName, NEW k \in CallRecord, k.name \in Names
  PROVE  /\ \A s \in Written(k) : s \in AlertsByName
         /\ [server EXCEPT ![k.name] = None] \in AlertsByName /\ Without(k) \in AlertsByName
<1>1. \A n \in Names : [server EXCEPT ![n] = None] \in AlertsByName
  BY DEF AlertsByName
<1>2. Without(k) \in AlertsByName
  BY <1>1, WithoutIs
<1>3. ASSUME NEW s \in Written(k) PROVE s \in AlertsByName
  <2>1. CASE k.option # None /\ s = [server EXCEPT ![k.name] = Stored(rows[k.row], k.option)]
    <3> DEFINE o == Stored(rows[k.row], k.option)
    <3>1. k.option \in Options
      BY <2>1 DEF CallRecord
    <3>2. "zero" \in Options /\ "custom" \in Options
      BY DEF Options
    <3>3. o \in Options \cup {None}
      BY <3>1, <3>2 DEF Stored
    <3> HIDE DEF o
    <3> QED
      BY <2>1, <3>3 DEF AlertsByName, o
  <2>2. CASE ~canary /\ s = Without(k)
    BY <1>2, <2>2
  <2>3. CASE \E n \in Deleted(k) : s = [server EXCEPT ![n] = None]
    <3>1. Deleted(k) \subseteq Names
      BY DEF Deleted
    <3> QED
      BY <1>1, <2>3, <3>1
  <2> QED
    BY <2>1, <2>2, <2>3, WrittenIs
<1> QED
  BY <1>1, <1>2, <1>3

\* What the methods of the client have fetched and patched.
LEMMA RefetchedType ==
  ASSUME fetch \in FetchRecord, server \in AlertsByName, NEW held \in Refetched
  PROVE  held \in FetchRecord
<1> DEFINE a == [fetch EXCEPT !.state = "cached"]
           b == [a EXCEPT !.data = server]
<1>1. held = fetch \/ held = b
  BY DEF Refetched, FetchRecord
<1>2. a \in FetchRecord
  BY FetchStates
<1> HIDE DEF a
<1>3. b \in FetchRecord
  BY <1>2, FetchStates
<1> QED
  BY <1>1, <1>3

LEMMA PatchedType ==
  ASSUME NEW held \in FetchRecord, NEW k, server' \in AlertsByName, k.name \in Names,
         NEW from \in Patched(held, k)
  PROVE  from \in FetchRecord
<1> DEFINE d == [held.data EXCEPT ![k.name] = server'[k.name]]
<1>1. from = held \/ from = [held EXCEPT !.data = d]
  BY DEF Patched
<1>2. d \in AlertsByName
  BY DEF FetchRecord, AlertsByName
<1> HIDE DEF d
<1> QED
  BY <1>1, <1>2, FetchStates

-----------------------------------------------------------------------------
(* Steps of the calls                                                      *)

RowsSame == rows' \in [Rows -> RowState] /\ \A r \in Rows : Same(rows[r], rows'[r])

\* The row of the call k has settled.
RowsSettle(k) ==
  /\ rows' \in [Rows -> RowState]
  /\ After(rows[k.row], k, rows'[k.row])
  /\ \A r \in Rows : r # k.row => Same(rows[r], rows'[r])

LEMMA FollowedSame ==
  ASSUME rows \in [Rows -> RowState], NEW shown \in AlertsByName, NEW rendered, NEW was, NEW busy,
         rows' = Followed(rows, rows, shown, rendered, was, busy)
  PROVE  RowsSame
BY FollowedKeeps DEF RowsSame, Follows

\* The row of a call that is muddled in the same step.
Muddles(rs, r0, m, on) ==
  /\ on \in [Rows -> RowState] /\ on[r0].muddled = m
  /\ \A r \in Rows : /\ Same(rs[r], on[r]) /\ on[r].enabled = rs[r].enabled
                     /\ r # r0 => on[r] = rs[r]

LEMMA MuddledSame ==
  ASSUME NEW rs \in [Rows -> RowState], NEW r0 \in Rows, NEW m \in BOOLEAN
  PROVE  Muddles(rs, r0, m, [rs EXCEPT ![r0].muddled = m])
<1> DEFINE new == [rs[r0] EXCEPT !.muddled = m]
           on == [rs EXCEPT ![r0].muddled = m]
<1>1. on = [rs EXCEPT ![r0] = new]
  OBVIOUS
<1>2. Same(rs[r0], new) /\ new.enabled = rs[r0].enabled /\ new.muddled = m
  BY SameMuddled
<1>3. new \in RowState
  BY <1>2 DEF Same
<1> HIDE DEF new, on
<1>4. on \in [Rows -> RowState] /\ on[r0] = new /\ \A r \in Rows : r # r0 => on[r] = rs[r]
  BY <1>1, <1>3
<1>5. \A r \in Rows : Same(rs[r], on[r]) /\ on[r].enabled = rs[r].enabled
  BY <1>2, <1>4, SameSelf
<1> QED
  BY <1>2, <1>4, <1>5 DEF on, Muddles

\* A step that wakes up no row, and after which those that waited wait on.
LEMMA WaitsOn ==
  ASSUME Inv, TypeOK', canary' = canary, \A r \in Rows : rows'[r].is = rows[r].is,
         \A r \in Rows : rows'[r].busy => rows[r].busy /\ rows'[r].mount = rows[r].mount,
         \A r \in Rows, d \in Calls : rows'[r].busy /\ Waiting(d, r) =>
            /\ calls'[d].pc # "idle" /\ calls'[d].row = r /\ calls'[d].mount = calls[d].mount
            /\ canary => calls'[d].pc = "request",
         loading' =>
            /\ loading
            /\ \A d \in Calls : Unloading(d) =>
                 /\ calls'[d].row = calls[d].row /\ calls'[d].op = calls[d].op
                 /\ IF canary THEN calls'[d].pc = "request" ELSE calls'[d].pc \in {"login", "enter", "request"},
         \A d \in Calls : calls'[d].pc # "idle" => calls'[d].row \in Rows /\ calls'[d].name \in Names
  PROVE  Inv'
<1>1. BusyWaits'
  <2>1. ASSUME NEW r \in Rows, rows'[r].busy
        PROVE  \E d \in Calls : /\ calls'[d].pc # "idle" /\ calls'[d].row = r
                                /\ calls'[d].mount = rows'[r].mount
                                /\ canary' => calls'[d].pc = "request"
    <3>1. PICK d \in Calls : Waiting(d, r)
      BY <2>1 DEF Inv, BusyWaits
    <3> QED
      BY <2>1, <3>1 DEF Waiting
  <2> QED
    BY <2>1 DEF BusyWaits, Waiting
<1>2. LoadingWaits'
  <2>1. SUFFICES ASSUME loading' PROVE \E d \in Calls : Unloading(d)'
    BY DEF LoadingWaits
  <2>2. PICK d \in Calls : Unloading(d)
    BY <2>1 DEF Inv, LoadingWaits
  <2>3. canary => calls[d].pc = "request" /\ calls[d].row \in Rows
    BY <2>2 DEF Unloading, Inv, CallsHaveRows
  <2>4. Unloading(d)'
    BY <2>1, <2>2, <2>3 DEF Unloading, Unloads
  <2> QED
    BY <2>4
<1>3. CallsHaveRows'
  BY DEF CallsHaveRows
<1> QED
  BY <1>1, <1>2, <1>3 DEF Inv

LEMMA LogInStep ==
  ASSUME Inv, NEW c \in Calls, LogIn(c)
  PROVE  Inv'
<1> DEFINE m == [calls[c] EXCEPT !.pc = "request"]
           l == [m EXCEPT !.replaced = FALSE]
<1>1. /\ calls[c].pc = "enter" /\ alerts' = calls[c].data
      /\ rows' = Followed(rows, rows, alerts', TRUE, loading, loading)
      /\ UNCHANGED <<canary, loading, server, fetch, clicks, failures, overlap>>
  BY DEF LogIn
<1>2. calls' = [calls EXCEPT ![c] = l]
  BY DEF LogIn, Inv, TypeOK, CallRecord
<1>3. SameCall(calls[c], m) /\ m.pc = "request"
  BY Moves DEF Inv, TypeOK
<1>4. m \in CallRecord
  BY <1>3 DEF SameCall
<1> HIDE DEF m
<1>5. SameCall(m, l) /\ l.pc = "request"
  BY <1>3, <1>4, Replaces
<1> HIDE DEF l
<1>6. SameCall(calls[c], l)
  BY <1>3, <1>5, SameCallTransitive
<1>7. /\ calls' \in [Calls -> CallRecord] /\ calls'[c] = l
      /\ \A d \in Calls : d # c => calls'[d] = calls[d]
  BY <1>2, <1>6 DEF Inv, TypeOK, SameCall
<1>8. alerts' \in AlertsByName
  BY <1>1 DEF Inv, TypeOK, CallRecord
<1>9. RowsSame
  BY <1>1, <1>8, FollowedSame DEF Inv, TypeOK
<1>10. TypeOK'
  BY <1>1, <1>7, <1>8, <1>9 DEF Inv, TypeOK, RowsSame
<1>11. \A r \in Rows : /\ rows'[r].is = rows[r].is /\ rows'[r].busy = rows[r].busy
                      /\ rows'[r].mount = rows[r].mount
  BY <1>9 DEF RowsSame, Same
<1>12. /\ calls'[c].row = calls[c].row /\ calls'[c].op = calls[c].op /\ calls'[c].pc = "request"
      /\ calls'[c].mount = calls[c].mount /\ calls'[c].name = calls[c].name
  BY <1>5, <1>6, <1>7 DEF SameCall
<1>13. calls[c].row \in Rows /\ calls[c].name \in Names
  BY <1>1 DEF Inv, CallsHaveRows
<1>14. \A d \in Calls : calls'[d].pc # "idle" => calls'[d].row \in Rows /\ calls'[d].name \in Names
  BY <1>7, <1>12, <1>13 DEF Inv, CallsHaveRows
<1>15. \A r \in Rows, d \in Calls : Waiting(d, r) =>
         /\ calls'[d].pc # "idle" /\ calls'[d].row = r /\ calls'[d].mount = calls[d].mount
         /\ canary => calls'[d].pc = "request"
  BY <1>7, <1>12 DEF Waiting
<1>16. \A d \in Calls : Unloading(d) =>
         /\ calls'[d].row = calls[d].row /\ calls'[d].op = calls[d].op
         /\ IF canary THEN calls'[d].pc = "request"
            ELSE calls'[d].pc \in {"login", "enter", "request"}
  BY <1>7, <1>12 DEF Unloading
<1> QED
  BY <1>1, <1>10, <1>11, <1>14, <1>15, <1>16, WaitsOn

\* What an update leaves: the fetch, the call and the rows.
Updates(c, held, from) ==
  /\ held \in Refetched /\ from \in Patched(held, calls[c])
  /\ fetch' = Asked(from)
  /\ calls' = [calls EXCEPT ![c] = FetchedBy(calls[c], from, "read", "render")]
  /\ rows' = [Followed(rows, rows, alerts, FALSE, loading, FALSE)
                EXCEPT ![calls[c].row].muddled =
                  @ \/ Stale(calls[c], from)
                    \/ (Blind(calls[c]) /\ server'[calls[c].name] = None)]

LEMMA UpdateDoes ==
  ASSUME NEW c \in Calls, Update(c)
  PROVE  \E held, from : Updates(c, held, from)
<1>1. PICK held \in Refetched : \E from \in Patched(held, calls[c]) :
        /\ fetch' = Asked(from)
        /\ calls' = [calls EXCEPT ![c] = FetchedBy(calls[c], from, "read", "render")]
        /\ rows' = [Followed(rows, rows, alerts, FALSE, loading, FALSE)
                EXCEPT ![calls[c].row].muddled =
                  @ \/ Stale(calls[c], from)
                    \/ (Blind(calls[c]) /\ server'[calls[c].name] = None)]
  BY Zenon DEF Update
<1> QED
  BY <1>1, Zenon DEF Updates

\* The rows after an update: only that of the call may have been muddled.
LEMMA UpdateRows ==
  ASSUME Inv, NEW c \in Calls, calls[c].row \in Rows, NEW held, NEW from, Updates(c, held, from)
  PROVE  /\ RowsSame
         /\ \A r \in Rows : /\ r # calls[c].row => rows'[r].muddled = rows[r].muddled
                            /\ rows[r].is.deps = {} => rows'[r].enabled = rows[r].enabled
         /\ rows'[calls[c].row].muddled =
              (rows[calls[c].row].muddled \/ Stale(calls[c], from)
                 \/ (Blind(calls[c]) /\ server'[calls[c].name] = None))
<1> DEFINE k == calls[c]
           r0 == k.row
           rs == Followed(rows, rows, alerts, FALSE, loading, FALSE)
           bad == Stale(k, from) \/ (Blind(k) /\ server'[k.name] = None)
           m == rs[r0].muddled \/ bad
           on == [rs EXCEPT ![r0].muddled = m]
<1>1. rows' = on
  BY DEF Updates
<1>2. rows \in [Rows -> RowState] /\ alerts \in AlertsByName /\ r0 \in Rows
  BY DEF Inv, TypeOK
<1> HIDE DEF bad, k
<1>3. /\ rs \in [Rows -> RowState]
      /\ \A r \in Rows : /\ Same(rows[r], rs[r]) /\ rs[r].muddled = rows[r].muddled
                         /\ rows[r].is.deps = {} => rs[r] = rows[r]
  <2>1. Follows(rows, rs)
    BY <1>2, FollowedKeeps
  <2> QED
    BY <2>1 DEF Follows
<1> HIDE DEF rs
<1>4. rs[r0].muddled \in BOOLEAN
  BY <1>2, <1>3 DEF RowState
<1>5. m \in BOOLEAN /\ m = (rows[r0].muddled \/ bad)
  BY <1>2, <1>3, <1>4
<1> HIDE DEF m
<1>6. /\ on \in [Rows -> RowState] /\ on[r0].muddled = m
      /\ \A r \in Rows : /\ Same(rs[r], on[r]) /\ on[r].enabled = rs[r].enabled
                         /\ r # r0 => on[r] = rs[r]
  <2> HIDE DEF r0, on
  <2>1. Muddles(rs, r0, m, on)
    BY <1>2, <1>3, <1>5, MuddledSame DEF on
  <2> QED
    BY <2>1 DEF Muddles
<1> HIDE DEF on
<1>7. \A r \in Rows : Same(rows[r], on[r])
  BY <1>3, <1>6, SameTransitive
<1>8. RowsSame
  BY <1>1, <1>6, <1>7 DEF RowsSame
<1>9. \A r \in Rows : /\ r # r0 => rows'[r].muddled = rows[r].muddled
                      /\ rows[r].is.deps = {} => rows'[r].enabled = rows[r].enabled
  BY <1>1, <1>3, <1>6
<1>10. rows'[r0].muddled = (rows[r0].muddled \/ bad)
  BY <1>1, <1>5, <1>6
<1> QED
  BY <1>8, <1>9, <1>10 DEF bad, k

LEMMA UpdateStep ==
  ASSUME Inv, NEW c \in Calls, Update(c)
  PROVE  Inv'
<1>1. /\ ~canary /\ calls[c].pc = "request" /\ server' \in Written(calls[c]) /\ loading' = FALSE
      /\ UNCHANGED <<canary, alerts, clicks, failures, overlap>>
  BY DEF Update
<1>2. PICK held, from : Updates(c, held, from)
  BY UpdateDoes
<1> DEFINE l == FetchedBy(calls[c], from, "read", "render")
<1>3. calls[c].row \in Rows /\ calls[c].name \in Names /\ calls[c] \in CallRecord
      /\ server \in AlertsByName /\ fetch \in FetchRecord
  BY <1>1 DEF Inv, CallsHaveRows, TypeOK
<1>4. server' \in AlertsByName
  BY <1>1, <1>3, WrittenType
<1>5. from \in FetchRecord
  <2>1. held \in FetchRecord
    BY <1>2, <1>3, RefetchedType DEF Updates
  <2> QED
    BY <1>2, <1>3, <1>4, <2>1, PatchedType DEF Updates
<1>6. fetch' \in FetchRecord
  BY <1>2, <1>5, FetchStates DEF Updates
<1>7. SameCall(calls[c], l) /\ l.pc \in {"read", "render"}
  BY <1>3, <1>5, FetchedByType
<1>8. calls' = [calls EXCEPT ![c] = l]
  BY <1>2 DEF Updates
<1> HIDE DEF l
<1>9. /\ calls' \in [Calls -> CallRecord] /\ calls'[c] = l
      /\ \A d \in Calls : d # c => calls'[d] = calls[d]
  BY <1>7, <1>8 DEF Inv, TypeOK, SameCall
<1>10. RowsSame
  BY <1>2, <1>3, UpdateRows
<1>11. TypeOK'
  BY <1>1, <1>4, <1>6, <1>9, <1>10 DEF Inv, TypeOK, RowsSame
<1>12. \A r \in Rows : /\ rows'[r].is = rows[r].is /\ rows'[r].busy = rows[r].busy
                      /\ rows'[r].mount = rows[r].mount
  BY <1>10 DEF RowsSame, Same
<1>13. /\ calls'[c].row = calls[c].row /\ calls'[c].pc # "idle"
      /\ calls'[c].mount = calls[c].mount /\ calls'[c].name = calls[c].name
  BY <1>7, <1>9 DEF SameCall
<1>14. \A d \in Calls : calls'[d].pc # "idle" => calls'[d].row \in Rows /\ calls'[d].name \in Names
  BY <1>3, <1>9, <1>13 DEF Inv, CallsHaveRows
<1>15. \A r \in Rows, d \in Calls : Waiting(d, r) =>
         /\ calls'[d].pc # "idle" /\ calls'[d].row = r /\ calls'[d].mount = calls[d].mount
         /\ canary => calls'[d].pc = "request"
  BY <1>1, <1>9, <1>13 DEF Waiting
<1> QED
  BY <1>1, <1>11, <1>12, <1>14, <1>15, WaitsOn

LEMMA ReadStep ==
  ASSUME Inv, NEW c \in Calls, Read(c)
  PROVE  Inv'
<1> DEFINE l == [calls[c] EXCEPT !.pc = "render"]
           m == [l EXCEPT !.data = server]
<1>1. /\ calls[c].pc = "read" /\ UNCHANGED <<canary, rows, alerts, loading, server, fetch, clicks, failures, overlap>>
      /\ calls' = [calls EXCEPT ![c] = m]
  BY DEF Read, Inv, TypeOK, CallRecord
<1>2. SameCall(calls[c], l) /\ l.pc = "render" /\ l \in CallRecord
  BY Moves DEF Inv, TypeOK, SameCall
<1> HIDE DEF l
<1>3. SameCall(l, m) /\ m.pc = "render" /\ m \in CallRecord
  BY <1>2, Loads DEF Inv, TypeOK, SameCall
<1> HIDE DEF m
<1>4. /\ calls' \in [Calls -> CallRecord] /\ calls'[c] = m
      /\ \A d \in Calls : d # c => calls'[d] = calls[d]
  BY <1>1, <1>3 DEF Inv, TypeOK
<1>5. TypeOK'
  BY <1>1, <1>4 DEF Inv, TypeOK
<1>6. /\ calls'[c].row = calls[c].row /\ calls'[c].pc = "render"
      /\ calls'[c].mount = calls[c].mount /\ calls'[c].name = calls[c].name
  BY <1>2, <1>3, <1>4 DEF SameCall
<1>7. \A d \in Calls : calls'[d].pc # "idle" => calls'[d].row \in Rows /\ calls'[d].name \in Names
  BY <1>1, <1>4, <1>6 DEF Inv, CallsHaveRows
<1>8. \A r \in Rows, d \in Calls : Waiting(d, r) =>
         /\ calls'[d].pc # "idle" /\ calls'[d].row = r /\ calls'[d].mount = calls[d].mount
         /\ canary => calls'[d].pc = "request"
  BY <1>1, <1>4, <1>6 DEF Waiting
<1>9. \A d \in Calls : Unloading(d) =>
         /\ calls'[d].row = calls[d].row /\ calls'[d].op = calls[d].op
         /\ IF canary THEN calls'[d].pc = "request" ELSE calls'[d].pc \in {"login", "enter", "request"}
  BY <1>1, <1>4 DEF Unloading
<1> QED
  BY <1>1, <1>5, <1>7, <1>8, <1>9, WaitsOn

\* A call that settles its row, or that no row waits for.
LEMMA CallEnds ==
  ASSUME Inv, NEW c \in Calls, calls[c].pc # "idle", canary' = canary, TypeOK',
         NEW l \in CallRecord, calls' = [calls EXCEPT ![c] = l],
         l.pc = "idle" \/ (SameCall(calls[c], l) /\ l.pc # "idle"),
         \/ RowsSettle(calls[c])
         \/ RowsSame /\ canary /\ calls[c].pc # "request",
         loading' => loading /\ ~Unloading(c)
  PROVE  Inv'
<1> DEFINE k == calls[c]
<1>1. /\ calls'[c] = l /\ \A d \in Calls : d # c => calls'[d] = calls[d]
  BY DEF Inv, TypeOK
<1>2. k.row \in Rows /\ k.name \in Names
  BY DEF Inv, CallsHaveRows
<1>3. \A r \in Rows : /\ rows'[r].is = rows[r].is /\ rows'[r].mount = rows[r].mount
                      /\ rows'[r].busy => rows[r].busy
                      /\ rows'[r].busy => ~Waiting(c, r)
  <2>1. CASE RowsSettle(calls[c])
    <3> TAKE r \in Rows
    <3>1. CASE r = k.row
      BY <2>1, <3>1 DEF RowsSettle, After, Waiting
    <3>2. CASE r # k.row
      BY <2>1, <3>2 DEF RowsSettle, Same, Waiting
    <3> QED
      BY <3>1, <3>2
  <2>2. CASE RowsSame /\ canary /\ calls[c].pc # "request"
    BY <2>2 DEF RowsSame, Same, Waiting
  <2> QED
    BY <2>1, <2>2
<1>4. \A d \in Calls : calls'[d].pc # "idle" => calls'[d].row \in Rows /\ calls'[d].name \in Names
  BY <1>1, <1>2 DEF Inv, CallsHaveRows, SameCall
<1>5. \A r \in Rows, d \in Calls : rows'[r].busy /\ Waiting(d, r) => calls'[d] = calls[d]
  BY <1>1, <1>3
<1>6. \A r \in Rows, d \in Calls : rows'[r].busy /\ Waiting(d, r) =>
         /\ calls'[d].pc # "idle" /\ calls'[d].row = r /\ calls'[d].mount = calls[d].mount
         /\ canary => calls'[d].pc = "request"
  BY <1>5 DEF Waiting
<1>7. loading' =>
        \A d \in Calls : Unloading(d) =>
         /\ calls'[d].row = calls[d].row /\ calls'[d].op = calls[d].op
         /\ IF canary THEN calls'[d].pc = "request" ELSE calls'[d].pc \in {"login", "enter", "request"}
  <2>1. SUFFICES ASSUME loading', NEW d \in Calls, Unloading(d)
                 PROVE  /\ calls'[d] = calls[d]
                        /\ IF canary THEN calls[d].pc = "request" ELSE calls[d].pc \in {"login", "enter", "request"}
    BY Zenon
  <2> QED
    BY <1>1, <2>1 DEF Unloading
<1> QED
  BY <1>3, <1>4, <1>6, <1>7, WaitsOn

LEMMA RenderStep ==
  ASSUME Inv, NEW c \in Calls, Render(c)
  PROVE  Inv'
<1> DEFINE k == calls[c]
           found == k.data[AlertName(k.row)] # None
<1>1. /\ k.pc = "render" /\ alerts' = k.data /\ loading' = (loading /\ (canary \/ ~Unloads(k)))
      /\ calls' = [calls EXCEPT ![c] = IdleCall]
      /\ UNCHANGED <<canary, server, fetch, clicks, failures, overlap>>
  BY DEF Render
<1>2. k \in CallRecord /\ k.row \in Rows /\ k.data \in AlertsByName /\ rows \in [Rows -> RowState]
  BY <1>1 DEF Inv, CallsHaveRows, TypeOK, CallRecord
<1>3. PICK b \in BOOLEAN : loading' = b
  BY <1>1 DEF Inv, TypeOK
<1>4. calls' \in [Calls -> CallRecord]
  BY <1>1, IdleType DEF Inv, TypeOK
<1>5. CASE canary
  <2>1. rows' = Followed(rows, rows, k.data, TRUE, loading, loading)
    BY <1>5 DEF Render
  <2> HIDE DEF k
  <2>2. RowsSame
    BY <1>2, <2>1, FollowedSame
  <2> QED
    BY <1>1, <1>2, <1>3, <1>4, <1>5, <2>2, IdleType, CallEnds
    DEF Inv, TypeOK, k, RowsSame, Unloading
<1>6. CASE ~canary
  <2>1. PICK batched \in BOOLEAN :
          rows' = Concluded(k, TRUE, found, k.data, TRUE, loading', batched)
    BY <1>6 DEF Render
  <2> HIDE DEF k, found
  <2>2. RowsSettle(k)
    <3>1. Concludes(k, TRUE, found, rows')
      BY <1>2, <2>1, ConcludedAfter
    <3> QED
      BY <3>1 DEF Concludes, RowsSettle
  <2> QED
    BY <1>1, <1>2, <1>3, <1>4, <1>6, <2>2, IdleType, CallEnds
    DEF Inv, TypeOK, k, RowsSettle, Unloading
<1> QED
  BY <1>5, <1>6

\* The rows after an answer of the frontend client.
LEMMA EnsureRows ==
  ASSUME Inv, NEW c \in Calls, calls[c].row \in Rows, Ensure(c)
  PROVE  LET k == calls[c]
             row == rows[k.row]
             then == Then(row, k, TRUE, server'[AlertName(k.row)] # None)
         IN /\ RowsSettle(k)
            /\ rows'[k.row].muddled = (row.muddled \/ Unfetched(k))
            /\ row.is.deps = {} => rows'[k.row].enabled = then.enabled
            /\ \A r \in Rows : r # k.row =>
                 /\ rows'[r].muddled = rows[r].muddled
                 /\ rows[r].is.deps = {} => rows'[r] = rows[r]
<1> DEFINE k == calls[c]
           r0 == k.row
           found == server'[AlertName(k.row)] # None
<1>1. PICK batched \in BOOLEAN :
        rows' = [Concluded(k, TRUE, found, alerts, FALSE, loading', batched)
                   EXCEPT ![k.row].muddled = @ \/ Unfetched(k)]
  BY DEF Ensure
<1> DEFINE rs == Concluded(k, TRUE, found, alerts, FALSE, loading', batched)
           m == rs[r0].muddled \/ Unfetched(k)
           on == [rs EXCEPT ![r0].muddled = m]
           then == Then(rows[r0], k, TRUE, found)
<1>2. rows' = on
  BY <1>1
<1>3. k \in CallRecord /\ r0 \in Rows /\ rows \in [Rows -> RowState] /\ alerts \in AlertsByName
  BY DEF Inv, TypeOK
<1> HIDE DEF k, found
<1>4. /\ rs \in [Rows -> RowState]
      /\ After(rows[r0], k, rs[r0])
      /\ rs[r0].muddled = rows[r0].muddled
      /\ rows[r0].is.deps = {} => rs[r0].enabled = then.enabled
      /\ \A r \in Rows : r # r0 =>
           /\ Same(rows[r], rs[r]) /\ rs[r].muddled = rows[r].muddled
           /\ rows[r].is.deps = {} => rs[r] = rows[r]
  <2>1. Concludes(k, TRUE, found, rs)
    BY <1>3, ConcludedAfter
  <2> QED
    BY <2>1 DEF Concludes
<1> HIDE DEF rs, then
<1>5. rs[r0].muddled \in BOOLEAN
  BY <1>3, <1>4 DEF RowState
<1>6. m \in BOOLEAN /\ m = (rows[r0].muddled \/ Unfetched(k))
  BY <1>4, <1>5
<1> HIDE DEF m
<1>7. /\ on \in [Rows -> RowState] /\ on[r0].muddled = m
      /\ \A r \in Rows : /\ Same(rs[r], on[r]) /\ on[r].enabled = rs[r].enabled
                         /\ r # r0 => on[r] = rs[r]
  <2> HIDE DEF r0, on
  <2>1. Muddles(rs, r0, m, on)
    BY <1>3, <1>4, <1>6, MuddledSame DEF on
  <2> QED
    BY <2>1 DEF Muddles
<1> HIDE DEF on
<1>8. After(rows[r0], k, on[r0])
  BY <1>3, <1>4, <1>7, AfterSame
<1>9. RowsSettle(k)
  BY <1>2, <1>4, <1>7, <1>8 DEF RowsSettle
<1>10. rows[r0].is.deps = {} => rows'[r0].enabled = then.enabled
  BY <1>2, <1>3, <1>4, <1>7
<1>11. rows'[r0].muddled = (rows[r0].muddled \/ Unfetched(k))
  BY <1>2, <1>6, <1>7
<1>12. \A r \in Rows : r # r0 =>
         /\ rows'[r].muddled = rows[r].muddled
         /\ rows[r].is.deps = {} => rows'[r] = rows[r]
  BY <1>2, <1>4, <1>7
<1> QED
  BY <1>9, <1>10, <1>11, <1>12 DEF k, then, found

LEMMA EnsureStep ==
  ASSUME Inv, NEW c \in Calls, Ensure(c)
  PROVE  Inv'
<1> DEFINE k == calls[c]
           l == IF Unfetched(k) THEN IdleCall ELSE [k EXCEPT !.pc = "read"]
<1>1. /\ canary /\ k.pc = "request" /\ server' \in Written(k) /\ loading' = (loading /\ ~Unloads(k))
      /\ calls' = [calls EXCEPT ![c] = l]
      /\ UNCHANGED <<canary, alerts, fetch, clicks, failures, overlap>>
  BY DEF Ensure
<1>2. k \in CallRecord /\ k.row \in Rows /\ k.name \in Names
  BY <1>1 DEF Inv, CallsHaveRows, TypeOK
<1>3. PICK b \in BOOLEAN : loading' = b
  BY <1>1 DEF Inv, TypeOK
<1>4. server' \in AlertsByName
  BY <1>1, <1>2, WrittenType DEF Inv, TypeOK
<1>5. l \in CallRecord /\ (l.pc = "idle" \/ (SameCall(k, l) /\ l.pc # "idle"))
  <2>1. CASE Unfetched(k)
    BY <2>1, IdleType
  <2>2. CASE ~Unfetched(k)
    BY <1>2, <2>2, Moves DEF SameCall
  <2> QED
    BY <2>1, <2>2
<1>6. RowsSettle(k)
  BY <1>2, EnsureRows
<1> HIDE DEF k, l
<1>7. calls' \in [Calls -> CallRecord]
  BY <1>1, <1>5 DEF Inv, TypeOK
<1>8. TypeOK'
  BY <1>1, <1>3, <1>4, <1>6, <1>7 DEF Inv, TypeOK, RowsSettle
<1>9. loading' => loading /\ ~Unloading(c)
  BY <1>1 DEF Unloading, k
<1> QED
  BY <1>1, <1>5, <1>6, <1>8, <1>9, CallEnds DEF k

\* What a failure leaves of the alerts of the service and of the fetch.
LEMMA FailLeaves ==
  ASSUME NEW c \in Calls, Fail(c)
  PROVE  LET k == calls[c] IN
         /\ \/ server' = server \/ server' \in Written(k)
            \/ server' = IF canary THEN [server EXCEPT ![k.name] = None] ELSE Without(k)
         /\ k.pc # "request" => server' = server
         /\ \/ fetch' = fetch /\ (canary \/ k.pc # "request")
            \/ ~canary /\ k.pc = "request"
               /\ \E held \in Refetched : fetch' \in {held} \cup Patched(held, k)
<1>1. \/ server' = server \/ server' \in Written(calls[c])
      \/ server' = IF canary THEN [server EXCEPT ![calls[c].name] = None] ELSE Without(calls[c])
  BY DEF Fail
<1>2. calls[c].pc # "request" => server' = server
  BY DEF Fail
<1>3. \/ fetch' = fetch /\ (canary \/ calls[c].pc # "request")
      \/ ~canary /\ calls[c].pc = "request"
         /\ \E held \in Refetched : fetch' \in {held} \cup Patched(held, calls[c])
  BY DEF Fail
<1> QED
  BY <1>1, <1>2, <1>3

\* The rows after a failure.
LEMMA FailRows ==
  ASSUME Inv, NEW c \in Calls, calls[c].row \in Rows, Fail(c)
  PROVE  LET k == calls[c]
             row == rows[k.row]
         IN /\ \/ RowsSettle(k)
               \/ RowsSame /\ canary /\ k.pc = "read"
            /\ row.mount = k.mount => rows'[k.row].muddled = TRUE
            /\ rows'[k.row].muddled = FALSE => row.muddled = FALSE
            /\ \A r \in Rows : r # k.row =>
                 /\ rows'[r].muddled = rows[r].muddled
                 /\ rows[r].is.deps = {} => rows'[r] = rows[r]
<1> DEFINE k == calls[c]
           r0 == k.row
           refetch == canary /\ k.pc = "read"
<1>1. rows \in [Rows -> RowState] /\ r0 \in Rows /\ k \in CallRecord /\ alerts \in AlertsByName
  BY DEF Inv, TypeOK
<1>2. CASE refetch
  <2> DEFINE rs == [rows EXCEPT ![r0].muddled = TRUE]
  <2>1. rows' = rs
    BY <1>2 DEF Fail
  <2> HIDE DEF k
  <2>2. /\ rs \in [Rows -> RowState] /\ rs[r0].muddled = TRUE
        /\ \A r \in Rows : Same(rows[r], rs[r]) /\ (r # r0 => rs[r] = rows[r])
    <3>1. Muddles(rows, r0, TRUE, rs)
      BY <1>1, MuddledSame
    <3> QED
      BY <3>1 DEF Muddles
  <2> HIDE DEF rs
  <2>3. RowsSame
    BY <2>1, <2>2 DEF RowsSame
  <2> QED
    BY <1>1, <1>2, <2>1, <2>2, <2>3 DEF k
<1>3. CASE ~refetch
  <2>1. PICK batched \in BOOLEAN :
          rows' = Concluded(k, FALSE, FALSE, alerts, FALSE, loading', batched)
    BY <1>3 DEF Fail
  <2> HIDE DEF k
  <2>2. /\ rows' \in [Rows -> RowState] /\ After(rows[r0], k, rows'[r0])
        /\ rows[r0].mount # k.mount => rows'[r0].muddled = rows[r0].muddled
        /\ rows[r0].mount = k.mount => rows'[r0].muddled = TRUE
        /\ \A r \in Rows : r # r0 =>
             /\ Same(rows[r], rows'[r]) /\ rows'[r].muddled = rows[r].muddled
             /\ rows[r].is.deps = {} => rows'[r] = rows[r]
    <3>1. Concludes(k, FALSE, FALSE, rows')
      BY <1>1, <2>1, ConcludedAfter
    <3> QED
      BY <3>1 DEF Concludes
  <2>3. RowsSettle(k)
    BY <2>2 DEF RowsSettle
  <2> QED
    BY <2>2, <2>3 DEF k
<1> QED
  BY <1>2, <1>3

LEMMA FailStep ==
  ASSUME Inv, NEW c \in Calls, Fail(c)
  PROVE  Inv'
<1> DEFINE k == calls[c]
<1>1. /\ k.pc \in {"login", "request", "read"}
      /\ loading' = (loading /\ IF canary THEN k.pc = "read" \/ ~Unloads(k)
                                ELSE k.pc = "read" /\ ~Unloads(k))
      /\ calls' = [calls EXCEPT ![c] = IdleCall]
      /\ UNCHANGED <<canary, alerts, clicks, overlap>>
  BY DEF Fail, FailedFetch
<1>2. k \in CallRecord /\ k.row \in Rows /\ k.name \in Names /\ rows \in [Rows -> RowState]
      /\ server \in AlertsByName /\ fetch \in FetchRecord
  BY <1>1 DEF Inv, CallsHaveRows, TypeOK
<1>3. PICK b \in BOOLEAN : loading' = b
  BY <1>1 DEF Inv, TypeOK
<1>4. server' \in AlertsByName
  BY <1>2, FailLeaves, WrittenType
<1>5. fetch' \in FetchRecord
  <2>1. CASE fetch' = fetch
    BY <1>2, <2>1
  <2>2. ASSUME NEW held \in Refetched, fetch' \in {held} \cup Patched(held, k)
        PROVE  fetch' \in FetchRecord
    <3>1. held \in FetchRecord
      BY <1>2, RefetchedType
    <3> QED
      BY <1>2, <1>4, <2>2, <3>1, PatchedType
  <2> QED
    BY <2>1, <2>2, FailLeaves
<1>6. failures' \in 0 .. MaxFailures
  BY CardRowsAssumption DEF Fail, Inv, TypeOK
<1>7. calls' \in [Calls -> CallRecord]
  BY <1>1, IdleType DEF Inv, TypeOK
<1>8. loading' => loading /\ ~Unloading(c)
  BY <1>1 DEF Unloading, k
<1>9. RowsSettle(k) \/ (RowsSame /\ canary /\ k.pc # "request")
  <2>1. RowsSettle(k) \/ (RowsSame /\ canary /\ k.pc = "read")
    BY <1>2, FailRows
  <2> QED
    BY <2>1
<1>10. rows' \in [Rows -> RowState]
  BY <1>9 DEF RowsSettle, RowsSame
<1>11. TypeOK'
  BY <1>1, <1>3, <1>4, <1>5, <1>6, <1>7, <1>10 DEF Inv, TypeOK
<1>12. IdleCall \in CallRecord /\ IdleCall.pc = "idle" /\ k.pc # "idle" /\ canary' = canary
  BY <1>1, IdleType
<1> HIDE DEF k
<1> QED
  BY <1>1, <1>8, <1>9, <1>11, <1>12, CallEnds DEF k

-----------------------------------------------------------------------------
(* Steps of the fetch                                                      *)

\* A step of the fetch that leaves the calls.
LEMMA FetchMoves ==
  ASSUME Inv, fetch' \in FetchRecord, failures' \in 0 .. MaxFailures,
         UNCHANGED <<canary, rows, alerts, loading, server, calls, clicks, overlap>>
  PROVE  Inv'
<1>1. TypeOK'
  BY DEF Inv, TypeOK
<1>2. \A d \in Calls, r \in Rows : Waiting(d, r)' = Waiting(d, r)
  BY DEF Waiting
<1>3. \A d \in Calls : Unloading(d)' = Unloading(d)
  BY DEF Unloading, Unloads
<1> QED
  BY <1>1, <1>2, <1>3 DEF Inv, BusyWaits, LoadingWaits, CallsHaveRows

LEMMA FetchAloneStep ==
  ASSUME Inv, AnswerFetch \/ FailFetch \/ Expire
  PROVE  Inv'
<1>1. fetch \in FetchRecord /\ server \in AlertsByName
  BY DEF Inv, TypeOK
<1>2. CASE AnswerFetch
  <2> DEFINE a == [fetch EXCEPT !.state = "answered"]
             b == [a EXCEPT !.data = server]
  <2>1. fetch' = b /\ UNCHANGED <<canary, rows, alerts, loading, server, calls, clicks, failures, overlap>>
    BY <1>1, <1>2 DEF AnswerFetch, FetchRecord
  <2>2. a \in FetchRecord
    BY <1>1, FetchStates
  <2> HIDE DEF a
  <2>3. b \in FetchRecord
    BY <1>1, <2>2, FetchStates
  <2> QED
    BY <2>1, <2>3, FetchMoves DEF Inv, TypeOK
<1>3. CASE FailFetch
  <2>1. fetch' = [fetch EXCEPT !.state = "failed"] /\ failures < MaxFailures /\ failures' = failures + 1
        /\ UNCHANGED <<canary, rows, alerts, loading, server, calls, clicks, overlap>>
    BY <1>3 DEF FailFetch
  <2>2. fetch' \in FetchRecord
    BY <1>1, <2>1, FetchStates
  <2>3. failures' \in 0 .. MaxFailures
    BY <2>1, CardRowsAssumption DEF Inv, TypeOK
  <2> QED
    BY <2>1, <2>2, <2>3, FetchMoves
<1>4. CASE Expire
  <2>1. fetch' = [fetch EXCEPT !.state = "old"]
        /\ UNCHANGED <<canary, rows, alerts, loading, server, calls, clicks, failures, overlap>>
    BY <1>4 DEF Expire
  <2>2. fetch' \in FetchRecord
    BY <1>1, <2>1, FetchStates
  <2> QED
    BY <2>1, <2>2, FetchMoves DEF Inv, TypeOK
<1> QED
  BY <1>2, <1>3, <1>4

\* What the end of the fetch does to a call.
Woken(k, l) ==
  /\ SameCall(k, l)
  /\ k.pc = "login" => l.pc = "enter" /\ l.data = fetch.data /\ l.replaced = k.replaced
  /\ k.pc = "read" => l.pc = "render" /\ l.data = fetch.data /\ l.replaced = k.replaced
  /\ k.pc = "request" => l.pc = k.pc /\ l.data = k.data /\ l.replaced = TRUE
  /\ k.pc \notin {"login", "read", "request"} => l = k

LEMMA EndFetchWakes ==
  ASSUME fetch \in FetchRecord, calls \in [Calls -> CallRecord], EndFetch
  PROVE  calls' \in [Calls -> CallRecord] /\ \A c \in Calls : Woken(calls[c], calls'[c])
<1> DEFINE l(k) == CASE k.pc = "login" -> [k EXCEPT !.pc = "enter", !.data = fetch.data]
                     [] k.pc = "read" -> [k EXCEPT !.pc = "render", !.data = fetch.data]
                     [] k.pc = "request" -> [k EXCEPT !.replaced = TRUE]
                     [] OTHER -> k
<1>1. calls' = [c \in Calls |-> l(calls[c])]
  BY DEF EndFetch
<1>2. fetch.data \in AlertsByName
  BY DEF FetchRecord
<1>3. ASSUME NEW k \in CallRecord PROVE Woken(k, l(k))
  <2>1. CASE k.pc = "login"
    <3> DEFINE a == [k EXCEPT !.pc = "enter"]
               b == [a EXCEPT !.data = fetch.data]
    <3>1. l(k) = b
      BY <2>1 DEF CallRecord
    <3>2. SameCall(k, a) /\ a.pc = "enter" /\ a.replaced = k.replaced
      BY Moves
    <3>3. a \in CallRecord
      BY <3>2 DEF SameCall
    <3> HIDE DEF a
    <3>4. SameCall(a, b) /\ b.pc = "enter" /\ b.data = fetch.data /\ b.replaced = k.replaced
      BY <1>2, <3>2, <3>3, Loads
    <3>5. SameCall(k, b)
      BY <3>2, <3>4, SameCallTransitive
    <3> HIDE DEF b, l
    <3> QED
      BY <2>1, <3>1, <3>4, <3>5 DEF Woken
  <2>2. CASE k.pc = "read"
    <3> DEFINE a == [k EXCEPT !.pc = "render"]
               b == [a EXCEPT !.data = fetch.data]
    <3>1. l(k) = b
      BY <2>2 DEF CallRecord
    <3>2. SameCall(k, a) /\ a.pc = "render" /\ a.replaced = k.replaced
      BY Moves
    <3>3. a \in CallRecord
      BY <3>2 DEF SameCall
    <3> HIDE DEF a
    <3>4. SameCall(a, b) /\ b.pc = "render" /\ b.data = fetch.data /\ b.replaced = k.replaced
      BY <1>2, <3>2, <3>3, Loads
    <3>5. SameCall(k, b)
      BY <3>2, <3>4, SameCallTransitive
    <3> HIDE DEF b, l
    <3> QED
      BY <2>2, <3>1, <3>4, <3>5 DEF Woken
  <2>3. CASE k.pc = "request"
    <3> DEFINE b == [k EXCEPT !.replaced = TRUE]
    <3>1. l(k) = b
      BY <2>3
    <3>2. SameCall(k, b) /\ b.pc = k.pc /\ b.data = k.data /\ b.replaced = TRUE
      BY Replaces
    <3> HIDE DEF b, l
    <3> QED
      BY <2>3, <3>1, <3>2 DEF Woken
  <2>4. CASE k.pc \notin {"login", "read", "request"}
    <3>1. l(k) = k
      BY <2>4
    <3> HIDE DEF l
    <3> QED
      BY <2>4, <3>1 DEF Woken, SameCall
  <2> QED
    BY <2>1, <2>2, <2>3, <2>4
<1> HIDE DEF l
<1>4. \A c \in Calls : calls'[c] = l(calls[c])
  BY <1>1
<1>5. \A c \in Calls : Woken(calls[c], calls'[c])
  BY <1>3, <1>4
<1>6. \A c \in Calls : l(calls[c]) \in CallRecord
  BY <1>4, <1>5 DEF Woken, SameCall
<1> QED
  BY <1>1, <1>5, <1>6

\* And what it leaves of the fetch, the alerts and the rows.
LEMMA EndFetchLeaves ==
  ASSUME Inv, EndFetch
  PROVE  /\ fetch.state = "answered" /\ fetch' \in FetchRecord
         /\ fetch'.state = "cached" /\ fetch'.data = fetch.data /\ fetch'.viewed = FALSE
         /\ alerts' \in AlertsByName /\ alerts' = IF fetch.viewed THEN fetch.data ELSE alerts
         /\ Follows(rows, rows') /\ RowsSame
<1> DEFINE a == [fetch EXCEPT !.state = "cached"]
           b == [a EXCEPT !.viewed = FALSE]
<1>1. fetch \in FetchRecord /\ rows \in [Rows -> RowState] /\ alerts \in AlertsByName
  BY DEF Inv, TypeOK
<1>2. fetch.data \in AlertsByName /\ fetch' = b
  BY <1>1 DEF EndFetch, FetchRecord
<1>3. a \in FetchRecord /\ a.state = "cached" /\ a.data = fetch.data
  BY <1>1 DEF FetchRecord
<1> HIDE DEF a
<1>4. b \in FetchRecord /\ b.state = "cached" /\ b.data = fetch.data /\ b.viewed = FALSE
  BY <1>3 DEF FetchRecord
<1> HIDE DEF b
<1>5. alerts' = (IF fetch.viewed THEN fetch.data ELSE alerts) /\ fetch.state = "answered"
  BY DEF EndFetch
<1>6. alerts' \in AlertsByName
  BY <1>1, <1>2, <1>5
<1>7. rows' = Followed(rows, rows, alerts', fetch.viewed, loading, loading)
  BY DEF EndFetch
<1>8. Follows(rows, rows')
  BY <1>1, <1>6, <1>7, FollowedKeeps
<1>9. RowsSame
  BY <1>8 DEF Follows, RowsSame
<1> QED
  BY <1>2, <1>4, <1>5, <1>6, <1>8, <1>9

LEMMA EndFetchStep ==
  ASSUME Inv, EndFetch
  PROVE  Inv'
<1>1. UNCHANGED <<canary, loading, server, clicks, failures, overlap>>
  BY DEF EndFetch
<1>2. fetch' \in FetchRecord /\ alerts' \in AlertsByName /\ RowsSame
  BY EndFetchLeaves
<1>3. calls' \in [Calls -> CallRecord] /\ \A c \in Calls : Woken(calls[c], calls'[c])
  BY EndFetchWakes DEF Inv, TypeOK
<1>4. TypeOK'
  BY <1>1, <1>2, <1>3 DEF Inv, TypeOK, RowsSame
<1>5. \A r \in Rows : /\ rows'[r].is = rows[r].is /\ rows'[r].busy = rows[r].busy
                      /\ rows'[r].mount = rows[r].mount
  BY <1>2 DEF RowsSame, Same
<1>6. \A d \in Calls :
        /\ calls'[d].row = calls[d].row /\ calls'[d].op = calls[d].op
        /\ calls'[d].mount = calls[d].mount /\ calls'[d].name = calls[d].name
        /\ (calls'[d].pc = "idle") = (calls[d].pc = "idle")
        /\ calls[d].pc = "request" => calls'[d].pc = "request"
        /\ calls[d].pc \in {"login", "enter"} => calls'[d].pc = "enter"
  <2> TAKE d \in Calls
  <2> DEFINE k == calls[d]
             l == calls'[d]
  <2>1. Woken(k, l)
    BY <1>3
  <2> HIDE DEF k, l
  <2>2. SameCall(k, l)
    BY <2>1 DEF Woken
  <2>3. /\ (l.pc = "idle") = (k.pc = "idle")
        /\ k.pc = "request" => l.pc = "request"
        /\ k.pc \in {"login", "enter"} => l.pc = "enter"
    BY <2>1 DEF Woken
  <2> QED
    BY <2>2, <2>3 DEF SameCall, k, l
<1>7. \A d \in Calls : calls'[d].pc # "idle" => calls'[d].row \in Rows /\ calls'[d].name \in Names
  BY <1>6 DEF Inv, CallsHaveRows
<1>8. \A r \in Rows, d \in Calls : Waiting(d, r) =>
         /\ calls'[d].pc # "idle" /\ calls'[d].row = r /\ calls'[d].mount = calls[d].mount
         /\ canary => calls'[d].pc = "request"
  BY <1>6 DEF Waiting
<1>9. \A d \in Calls : Unloading(d) =>
         /\ calls'[d].row = calls[d].row /\ calls'[d].op = calls[d].op
         /\ IF canary THEN calls'[d].pc = "request"
            ELSE calls'[d].pc \in {"login", "enter", "request"}
  BY <1>6 DEF Unloading
<1> QED
  BY <1>1, <1>4, <1>5, <1>7, <1>8, <1>9, WaitsOn

-----------------------------------------------------------------------------
(* Steps of the user                                                       *)

\* A call that begins for its row: the row may become busy, and the card loading.
LEMMA BeginStep ==
  ASSUME Inv, NEW c \in Calls, NEW row \in RowState, NEW call \in CallRecord, NEW flag \in BOOLEAN,
         call.row \in Rows, call.name \in Names, call.mount = rows[call.row].mount,
         row.is = rows[call.row].is, row.mount = rows[call.row].mount,
         flag => row.is.flag = "context" /\ call.op \in {"subscribe", "unsubscribe"},
         Begin(c, row, call, flag)
  PROVE  Inv'
<1> DEFINE l == IF canary THEN [call EXCEPT !.pc = "request"]
                ELSE FetchedBy(call, fetch, "login", "enter")
           r0 == call.row
           m == row.muddled \/ \E other \in InFlight : calls[other].row = call.row
           new == [row EXCEPT !.muddled = m]
<1>1. /\ clicks < MaxClicks /\ clicks' = clicks + 1 /\ calls[c].pc = "idle"
      /\ calls' = [calls EXCEPT ![c] = l] /\ rows' = [rows EXCEPT ![r0] = new]
      /\ fetch' = IF canary THEN fetch ELSE Asked(fetch)
      /\ loading' = (loading \/ flag \/ ~canary) /\ overlap' = (overlap \/ InFlight # {})
      /\ UNCHANGED <<canary, alerts, server, failures>>
  BY DEF Begin
<1>0. fetch \in FetchRecord /\ fetch' \in FetchRecord
  BY <1>1, FetchStates DEF Inv, TypeOK
<1>2. /\ SameCall(call, l) /\ l \in CallRecord
      /\ IF canary THEN l.pc = "request" ELSE l.pc \in {"login", "enter"}
  <2>1. CASE canary
    BY <2>1, Moves DEF SameCall
  <2>2. CASE ~canary
    <3>1. SameCall(call, l) /\ l.pc \in {"login", "enter"}
      BY <1>0, <2>2, FetchedByType
    <3> QED
      BY <2>2, <3>1 DEF SameCall
  <2> QED
    BY <2>1, <2>2
<1>3. new \in RowState /\ new.is = row.is /\ new.mount = row.mount
  <2>1. m \in BOOLEAN
    BY DEF RowState
  <2> HIDE DEF m
  <2> QED
    BY <2>1, SameMuddled DEF Same
<1> HIDE DEF l, new
<1>4. /\ calls' \in [Calls -> CallRecord] /\ calls'[c] = l
      /\ \A d \in Calls : d # c => calls'[d] = calls[d]
  BY <1>1, <1>2 DEF Inv, TypeOK
<1>5. /\ rows' \in [Rows -> RowState] /\ rows'[r0] = new
      /\ \A r \in Rows : r # r0 => rows'[r] = rows[r]
  BY <1>1, <1>3 DEF Inv, TypeOK
<1>6. TypeOK'
  <2>1. overlap' \in BOOLEAN /\ loading' \in BOOLEAN /\ clicks' \in 0 .. MaxClicks
    BY <1>1, CardRowsAssumption DEF Inv, TypeOK
  <2> QED
    BY <1>0, <1>1, <1>4, <1>5, <2>1 DEF Inv, TypeOK
<1>7. /\ l.row = r0 /\ l.mount = rows'[r0].mount /\ l.op = call.op /\ l.name = call.name
      /\ \A r \in Rows : rows'[r].is = rows[r].is /\ rows'[r].mount = rows[r].mount
  BY <1>2, <1>3, <1>5 DEF SameCall
<1>8. BusyWaits'
  <2>1. ASSUME NEW r \in Rows, rows'[r].busy
        PROVE  \E d \in Calls : /\ calls'[d].pc # "idle" /\ calls'[d].row = r
                                /\ calls'[d].mount = rows'[r].mount
                                /\ canary' => calls'[d].pc = "request"
    <3>1. CASE r = r0
      BY <1>1, <1>2, <1>4, <1>7, <3>1
    <3>2. CASE r # r0
      <4>1. PICK d \in Calls : Waiting(d, r)
        BY <1>5, <2>1, <3>2 DEF Inv, BusyWaits
      <4>2. d # c
        BY <1>1, <4>1 DEF Waiting
      <4> QED
        BY <1>1, <1>4, <1>5, <3>2, <4>1, <4>2 DEF Waiting
    <3> QED
      BY <3>1, <3>2
  <2> QED
    BY <2>1 DEF BusyWaits, Waiting
<1>9. LoadingWaits'
  <2>1. SUFFICES ASSUME loading' PROVE \E d \in Calls : Unloading(d)'
    BY DEF LoadingWaits
  <2>2. CASE ~canary
    <3>1. Unloading(c)'
      BY <1>1, <1>2, <1>4, <2>2 DEF Unloading
    <3> QED
      BY <3>1
  <2>3. CASE canary /\ flag
    <3>1. calls'[c].pc = "request" /\ calls'[c].row = r0 /\ calls'[c].op \in {"subscribe", "unsubscribe"}
      BY <1>2, <1>4, <1>7, <2>3
    <3>2. rows'[r0].is.flag = "context"
      BY <1>7, <2>3
    <3>3. Unloading(c)'
      BY <1>1, <2>3, <3>1, <3>2 DEF Unloading, Unloads
    <3> QED
      BY <3>3
  <2>4. CASE canary /\ ~flag
    <3>1. loading
      BY <1>1, <2>1, <2>4
    <3>2. PICK d \in Calls : Unloading(d)
      BY <3>1 DEF Inv, LoadingWaits
    <3>3. d # c /\ calls[d].row \in Rows
      BY <1>1, <2>4, <3>2 DEF Unloading, Inv, CallsHaveRows
    <3>4. Unloading(d)'
      BY <1>1, <1>4, <1>7, <2>4, <3>2, <3>3 DEF Unloading, Unloads
    <3> QED
      BY <3>4
  <2> QED
    BY <2>2, <2>3, <2>4
<1>10. CallsHaveRows'
  BY <1>4, <1>7 DEF Inv, CallsHaveRows
<1> QED
  BY <1>6, <1>8, <1>9, <1>10 DEF Inv

LEMMA CallOfType ==
  ASSUME rows \in [Rows -> RowState], NEW r \in Rows, NEW name \in Names, NEW option \in Options \cup {None},
         NEW op \in {"subscribe", "unsubscribe", "choose", "custom", "save", "delete"}
  PROVE  LET call == CallOf(r, op, name, option) IN
         /\ call \in CallRecord /\ call.row = r /\ call.mount = rows[r].mount /\ call.name = name
         /\ call.op = op /\ call.option = option
<1>1. rows[r].mount \in Nat
  BY DEF RowState
<1> QED
  BY <1>1 DEF CallOf, IdleCall, CallRecord, AlertsByName, NoAlerts

\* What the kinds of rows have in common.
LEMMA KindsAre ==
  ASSUME NEW t \in DOMAIN RowOf
  PROVE  RowOf[t].ratio = None \/ RowOf[t].ratio \in Options
BY DEF RowOf, BroadcastRow, FusionToggleRow, PriceChangeRow, CustomToggleRow, XMTPRow, WalletBalanceRow,
       DirectPushRow, HealthCheckRow, CustomHealthCheckRow, FusionHealthCheckRow, TradingPairsRow,
       Toggles, Options, Ratios

LEMMA SameBusy ==
  ASSUME NEW row \in RowState, NEW b \in BOOLEAN
  PROVE  LET new == [row EXCEPT !.busy = b] IN
         /\ new \in RowState /\ new.is = row.is /\ new.mount = row.mount /\ new.enabled = row.enabled
         /\ new.muddled = row.muddled
BY DEF RowState

\* The row after the click that changes what it shows.
Clicked(row, shown, busy) == [row EXCEPT !.enabled = shown, !.busy = busy]

LEMMA ClickedType ==
  ASSUME NEW row \in RowState, NEW shown \in BOOLEAN, NEW busy \in BOOLEAN
  PROVE  LET new == Clicked(row, shown, busy) IN
         /\ new \in RowState /\ new.is = row.is /\ new.mount = row.mount /\ new.enabled = shown
         /\ new.muddled = row.muddled
<1> DEFINE a == [row EXCEPT !.enabled = shown]
<1>1. a \in RowState /\ a.is = row.is /\ a.mount = row.mount /\ a.enabled = shown /\ a.muddled = row.muddled
  BY DEF RowState
<1>2. Clicked(row, shown, busy) = [a EXCEPT !.busy = busy]
  BY DEF Clicked, RowState
<1> HIDE DEF a
<1> QED
  BY <1>1, <1>2, SameBusy

LEMMA ToggleStep ==
  ASSUME Inv, NEW c \in Calls, NEW r \in Rows, Toggle(c, r)
  PROVE  Inv'
<1> DEFINE row == rows[r]
           op == IF row.enabled THEN "unsubscribe" ELSE "subscribe"
           shown == IF op \in row.is.early THEN ~row.enabled ELSE row.enabled
           busy == (row.is.flag = "row")
           flag == (row.is.flag = "context")
           name == IF op = "unsubscribe" THEN EventName(r) ELSE SubscribeName(r)
           option == IF op = "unsubscribe" THEN None
                     ELSE IF row.is.ratio = None THEN "on" ELSE row.is.ratio
           new == Clicked(row, shown, busy)
           call == CallOf(r, op, name, option)
<1>1. Begin(c, new, call, flag)
  <2>1. CASE row.enabled
    BY <2>1 DEF Toggle, Clicked
  <2>2. CASE ~row.enabled
    BY <2>2 DEF Toggle, Clicked
  <2> QED
    BY <2>1, <2>2
<1>2. rows \in [Rows -> RowState] /\ row \in RowState
  BY DEF Inv, TypeOK
<1>3. shown \in BOOLEAN
  BY <1>2 DEF RowState
<1>4. busy \in BOOLEAN /\ flag \in BOOLEAN
  OBVIOUS
<1>5. name \in Names
  BY NamesAre
<1>6. option \in Options \cup {None}
  <2>1. row.is.ratio = None \/ row.is.ratio \in Options
    BY <1>2, KindsAre DEF RowState
  <2>2. "on" \in Options
    BY DEF Options
  <2> QED
    BY <2>1, <2>2
<1>7. op \in {"subscribe", "unsubscribe"}
  OBVIOUS
<1>8. flag => row.is.flag = "context"
  OBVIOUS
<1> HIDE DEF shown, busy, flag, name, option, op
<1>9. new \in RowState /\ new.is = row.is /\ new.mount = row.mount
  BY <1>2, <1>3, <1>4, ClickedType
<1>10. call \in CallRecord /\ call.row = r /\ call.mount = row.mount /\ call.name = name /\ call.op = op
  BY <1>2, <1>5, <1>6, <1>7, CallOfType
<1> HIDE DEF new, call
<1> QED
  BY <1>1, <1>4, <1>5, <1>7, <1>8, <1>9, <1>10, BeginStep

LEMMA ChooseStep ==
  ASSUME Inv, NEW c \in Calls, NEW r \in Rows, NEW ratio \in Ratios, Choose(c, r, ratio)
  PROVE  Inv'
<1> DEFINE busy == (rows[r].is.flag = "row")
           new == [rows[r] EXCEPT !.busy = busy]
           name == SubscribeName(r)
           call == CallOf(r, "choose", name, ratio)
<1>1. Begin(c, new, call, FALSE)
  BY DEF Choose
<1>2. rows \in [Rows -> RowState] /\ rows[r] \in RowState /\ name \in Names
      /\ ratio \in Options \cup {None}
  BY NamesAre DEF Inv, TypeOK, Options
<1>3. busy \in BOOLEAN
  OBVIOUS
<1> HIDE DEF busy, name
<1>4. new \in RowState /\ new.is = rows[r].is /\ new.mount = rows[r].mount
  BY <1>2, <1>3, SameBusy
<1>5. call \in CallRecord /\ call.row = r /\ call.mount = rows[r].mount /\ call.name = name
  BY <1>2, CallOfType
<1> HIDE DEF new, call
<1> QED
  BY <1>1, <1>2, <1>4, <1>5, BeginStep

LEMMA ChooseCustomStep ==
  ASSUME Inv, NEW c \in Calls, NEW r \in Rows, ChooseCustom(c, r)
  PROVE  Inv'
<1> DEFINE busy == (rows[r].is.flag = "row")
           a == [rows[r] EXCEPT !.busy = busy]
           new == [a EXCEPT !.typed = TRUE]
           name == SubscribeName(r)
           call == CallOf(r, "custom", name, "custom")
<1>1. rows \in [Rows -> RowState] /\ rows[r] \in RowState /\ name \in Names
      /\ "custom" \in Options \cup {None}
  BY NamesAre DEF Inv, TypeOK, Options
<1>2. Begin(c, new, call, FALSE)
  BY <1>1 DEF ChooseCustom, RowState
<1>3. busy \in BOOLEAN
  OBVIOUS
<1> HIDE DEF busy, name
<1>4. a \in RowState /\ a.is = rows[r].is /\ a.mount = rows[r].mount
  BY <1>1, <1>3, SameBusy
<1> HIDE DEF a
<1>5. new \in RowState /\ new.is = rows[r].is /\ new.mount = rows[r].mount
  BY <1>4, SameTyped DEF Same
<1>6. call \in CallRecord /\ call.row = r /\ call.mount = rows[r].mount /\ call.name = name
  BY <1>1, CallOfType
<1> HIDE DEF new, call
<1> QED
  BY <1>1, <1>2, <1>5, <1>6, BeginStep

LEMMA PairStep ==
  ASSUME Inv, NEW c \in Calls, NEW r \in Rows, NEW pair \in Pairs,
         SavePair(c, r, pair) \/ DeletePair(c, r, pair)
  PROVE  Inv'
<1> DEFINE name == <<r, pair>>
<1>1. rows \in [Rows -> RowState] /\ rows[r] \in RowState /\ name \in Names
      /\ "on" \in Options \cup {None} /\ None \in Options \cup {None}
  BY DEF Inv, TypeOK, Options, Names, Parts
<1> HIDE DEF name
<1>2. CASE SavePair(c, r, pair)
  <2> DEFINE call == CallOf(r, "save", name, "on")
  <2>1. Begin(c, rows[r], call, FALSE)
    BY <1>2 DEF SavePair, name
  <2>2. call \in CallRecord /\ call.row = r /\ call.mount = rows[r].mount /\ call.name = name
    BY <1>1, CallOfType
  <2> HIDE DEF call
  <2> QED
    BY <1>1, <2>1, <2>2, BeginStep
<1>3. CASE DeletePair(c, r, pair)
  <2> DEFINE call == CallOf(r, "delete", name, None)
  <2>1. Begin(c, rows[r], call, FALSE)
    BY <1>3 DEF DeletePair, name
  <2>2. call \in CallRecord /\ call.row = r /\ call.mount = rows[r].mount /\ call.name = name
    BY <1>1, CallOfType
  <2> HIDE DEF call
  <2> QED
    BY <1>1, <2>1, <2>2, BeginStep
<1> QED
  BY <1>2, <1>3

\* The rows that come back are new ones; no call resets their flags, and none need.
Reborn(r) ==
  /\ rows'[r].is = rows[r].is /\ rows'[r].ref = rows[r].ref /\ ~rows'[r].busy
  /\ rows'[r].mount = rows[r].mount + 1
  /\ rows[r].is.follows = "once" /\ rows[r].is.deps = {} =>
       rows'[r].enabled = (alerts[AlertName(r)] # None)
  /\ ~rows'[r].muddled =>
       /\ ~rows[r].muddled /\ ~(canary /\ overlap)
       /\ ~(loading /\ rows[r].is.follows = "alerts")
       /\ \A c \in InFlight : calls[c].row # r

LEMMA Remounts ==
  ASSUME Inv, Remount
  PROVE  rows' \in [Rows -> RowState] /\ \A r \in Rows : Reborn(r)
<1> DEFINE a(r) == Mounted(rows[r], alerts[AlertName(r)], loading)
           m(r) == \/ a(r).muddled \/ (canary /\ overlap)
                   \/ loading /\ rows[r].is.follows = "alerts"
                   \/ \E c \in InFlight : calls[c].row = r
           n(r) == a(r).mount + 1
           new(r) == [a(r) EXCEPT !.mount = n(r), !.muddled = m(r)]
           on == [r \in Rows |-> new(r)]
           seen == ~canary /\ fetch.state = "cached"
<1>1. /\ rows \in [Rows -> RowState] /\ alerts \in AlertsByName /\ fetch \in FetchRecord
      /\ loading \in BOOLEAN /\ overlap \in BOOLEAN /\ canary \in BOOLEAN
  BY DEF Inv, TypeOK
<1>2. rows' = Followed(on, on, alerts', seen, loading, loading)
  BY DEF Remount
<1>3. alerts' \in AlertsByName
  BY <1>1 DEF Remount, FetchRecord
<1>4. ASSUME NEW r \in Rows
      PROVE  /\ new(r) \in RowState /\ new(r).is = rows[r].is /\ new(r).ref = rows[r].ref
             /\ ~new(r).busy /\ new(r).mount = rows[r].mount + 1
             /\ rows[r].is.follows = "once" => new(r).enabled = (alerts[AlertName(r)] # None)
             /\ ~new(r).muddled =>
                  /\ ~rows[r].muddled /\ ~(canary /\ overlap)
                  /\ ~(loading /\ rows[r].is.follows = "alerts")
                  /\ \A c \in InFlight : calls[c].row # r
  <2> DEFINE row == rows[r]
             b == a(r)
             option == alerts[AlertName(r)]
             k == n(r)
             p == m(r)
             d == [b EXCEPT !.mount = k]
  <2>1. row \in RowState /\ option \in Options \cup {None}
    BY <1>1, NamesAre DEF AlertsByName
  <2>2. Fresh(row, b) /\ b.muddled = row.muddled
        /\ (row.is.follows = "once" => b.enabled = (option # None))
    BY <2>1, MountedFresh
  <2>3. p \in BOOLEAN
    BY <1>1, <2>2 DEF Fresh, RowState
  <2>4. ~p => /\ ~row.muddled /\ ~(canary /\ overlap)
              /\ ~(loading /\ row.is.follows = "alerts")
              /\ \A c \in InFlight : calls[c].row # r
    BY <2>2
  <2>5. k \in Nat /\ k = row.mount + 1
    BY <2>2 DEF Fresh, RowState
  <2>6. new(r) = [d EXCEPT !.muddled = p]
    BY <2>2 DEF Fresh, RowState
  <2> HIDE DEF new, a, m, n, b, k, p
  <2>7. d \in RowState /\ d.is = row.is /\ d.ref = row.ref /\ ~d.busy /\ d.mount = k
        /\ d.enabled = b.enabled
    BY <2>2, <2>5 DEF Fresh, RowState
  <2> HIDE DEF d
  <2>8. Same(d, new(r)) /\ new(r).enabled = d.enabled /\ new(r).muddled = p
    BY <2>3, <2>6, <2>7, SameMuddled
  <2> HIDE DEF option, row
  <2>9. /\ new(r) \in RowState /\ new(r).is = row.is /\ new(r).ref = row.ref
        /\ ~new(r).busy /\ new(r).mount = row.mount + 1
        /\ row.is.follows = "once" => new(r).enabled = (option # None)
        /\ ~new(r).muddled => ~p
    BY <2>2, <2>5, <2>7, <2>8 DEF Same
  <2> QED
    BY <2>4, <2>9 DEF row, option
<1>5. on \in [Rows -> RowState] /\ \A r \in Rows : on[r] = new(r)
  BY <1>4
<1> HIDE DEF on, new, seen
<1>6. Follows(on, rows')
  BY <1>2, <1>3, <1>5, FollowedKeeps
<1>7. ASSUME NEW r \in Rows PROVE Reborn(r)
  <2>1. Same(new(r), rows'[r]) /\ rows'[r].muddled = new(r).muddled
        /\ (new(r).is.deps = {} => rows'[r] = new(r))
    BY <1>5, <1>6 DEF Follows
  <2> QED
    BY <1>4, <2>1 DEF Same, Reborn
<1> QED
  BY <1>6, <1>7 DEF Follows

LEMMA RemountStep ==
  ASSUME Inv, Remount
  PROVE  Inv'
<1>1. rows' \in [Rows -> RowState] /\ \A r \in Rows : rows'[r].is = rows[r].is /\ ~rows'[r].busy
  BY Remounts DEF Reborn
<1>2. clicks < MaxClicks /\ clicks' = clicks + 1
      /\ UNCHANGED <<canary, loading, server, calls, failures, overlap>>
  BY DEF Remount
<1>3. alerts' \in AlertsByName
  BY DEF Remount, Inv, TypeOK, FetchRecord
<1>4. fetch' \in FetchRecord
  <2>1. fetch' = fetch \/ fetch' = [Asked(fetch) EXCEPT !.viewed = TRUE]
    BY DEF Remount
  <2>2. fetch \in FetchRecord /\ Asked(fetch) \in FetchRecord
    BY FetchStates DEF Inv, TypeOK
  <2> QED
    BY <2>1, <2>2, FetchStates
<1>5. TypeOK'
  BY <1>1, <1>2, <1>3, <1>4, CardRowsAssumption DEF Inv, TypeOK
<1>6. \A q \in Rows, d \in Calls : Waiting(d, q) =>
            /\ calls'[d].pc # "idle" /\ calls'[d].row = q /\ calls'[d].mount = calls[d].mount
            /\ canary => calls'[d].pc = "request"
  BY <1>2 DEF Waiting
<1>7. \A d \in Calls : Unloading(d) =>
         /\ calls'[d].row = calls[d].row /\ calls'[d].op = calls[d].op
         /\ IF canary THEN calls'[d].pc = "request"
            ELSE calls'[d].pc \in {"login", "enter", "request"}
  BY <1>2 DEF Unloading
<1>8. \A d \in Calls : calls'[d].pc # "idle" => calls'[d].row \in Rows /\ calls'[d].name \in Names
  BY <1>2 DEF Inv, CallsHaveRows
<1> QED
  BY <1>1, <1>2, <1>5, <1>6, <1>7, <1>8, WaitsOn

-----------------------------------------------------------------------------
(* The invariant and what follows from it                                  *)

LEMMA InitInv == Init => Inv
<1> SUFFICES ASSUME Init PROVE Inv
  OBVIOUS
<1>1. PICK types \in Cards, refs \in SUBSET Rows, stored \in [Rows -> Options \cup {None}] :
        /\ server = [n \in Names |->
             IF n[2] = "event" /\ RowOf[types[n[1]]].follows # "pairs" THEN stored[n[1]] ELSE None]
        /\ rows = [r \in Rows |->
             Mounted(NewRow(RowOf[types[r]], r \in refs),
                     server[<<r, IF r \in refs THEN "ref" ELSE "event">>], FALSE)]
  BY DEF Init
<1>2. types \in [Rows -> DOMAIN RowOf]
  BY CardsAssumption
<1>3. server \in AlertsByName
  BY <1>1 DEF AlertsByName, Names
<1>4. \A r \in Rows : Fresh(NewRow(RowOf[types[r]], r \in refs), rows[r])
  <2> TAKE r \in Rows
  <2> DEFINE name == <<r, IF r \in refs THEN "ref" ELSE "event">>
             new == NewRow(RowOf[types[r]], r \in refs)
  <2>1. name \in Names
    BY DEF Names, Parts
  <2>2. server[name] \in Options \cup {None}
    BY <1>3, <2>1 DEF AlertsByName
  <2>3. new \in RowState
    BY <1>2 DEF NewRow, RowState
  <2>4. rows[r] = Mounted(new, server[name], FALSE)
    BY <1>1
  <2> HIDE DEF name, new
  <2>5. Fresh(new, rows[r])
    BY <2>2, <2>3, <2>4, MountedFresh
  <2> QED
    BY <2>5 DEF new
<1>5. rows \in [Rows -> RowState] /\ \A r \in Rows : ~rows[r].busy
  BY <1>1, <1>4 DEF Fresh
<1>6. calls \in [Calls -> CallRecord] /\ \A c \in Calls : calls[c].pc = "idle"
  BY IdleType DEF Init
<1>7. /\ canary \in BOOLEAN /\ alerts = server /\ loading = FALSE /\ overlap = FALSE
      /\ clicks = 0 /\ failures = 0
  BY DEF Init
<1>9. fetch \in FetchRecord
  BY <1>3 DEF Init, FetchRecord
<1>8. TypeOK
  <2>1. loading \in BOOLEAN /\ overlap \in BOOLEAN
    BY <1>7
  <2>2. clicks \in 0 .. MaxClicks /\ failures \in 0 .. MaxFailures
    BY <1>7, CardRowsAssumption
  <2>3. alerts \in AlertsByName
    BY <1>3, <1>7
  <2> QED
    BY <1>3, <1>5, <1>6, <1>7, <1>9, <2>1, <2>2, <2>3, Zenon DEF TypeOK
<1> QED
  BY <1>5, <1>6, <1>7, <1>8 DEF Inv, BusyWaits, LoadingWaits, CallsHaveRows

LEMMA NextInv == Inv /\ [Next]_vars => Inv'
<1> SUFFICES ASSUME Inv, [Next]_vars PROVE Inv'
  OBVIOUS
<1>1. CASE UNCHANGED vars
  <2>1. UNCHANGED <<canary, rows, alerts, loading, server, fetch, calls, clicks, failures, overlap>>
    BY <1>1 DEF vars
  <2>2. TypeOK'
    BY <2>1 DEF Inv, TypeOK
  <2>3. BusyWaits' /\ CallsHaveRows'
    BY <2>1 DEF Inv, BusyWaits, CallsHaveRows, Waiting
  <2>4. LoadingWaits'
    BY <2>1 DEF Inv, LoadingWaits, Unloading, Unloads
  <2> QED
    BY <2>2, <2>3, <2>4 DEF Inv
<1>2. ASSUME NEW r \in Rows, Act(r)
      PROVE  Inv'
  BY <1>2, ToggleStep, ChooseStep, ChooseCustomStep, PairStep DEF Act
<1>3. ASSUME NEW c \in Calls, Progress(c)
      PROVE  Inv'
  BY <1>3, LogInStep, UpdateStep, EnsureStep, ReadStep, RenderStep, FailStep DEF Progress
<1>4. CASE Remount
  BY <1>4, RemountStep
<1>5. CASE FetchStep
  BY <1>5, FetchAloneStep, EndFetchStep DEF FetchStep
<1> QED
  BY <1>1, <1>2, <1>3, <1>4, <1>5 DEF Next

\* What every state of every behaviour satisfies.
THEOREM Invariance == Spec => []Inv
BY InitInv, NextInv, PTL DEF Spec

\* Type correctness: the rows, the calls in flight and the alerts, with their
\* options, keep to their types.
THEOREM TypeCorrect == Spec => []TypeOK
<1>1. Inv => TypeOK
  BY DEF Inv
<1> QED
  BY <1>1, Invariance, PTL

\* No toggle is left waiting and no card loading, for any rows, and however many
\* calls overlap, fail or outlive their rows.
THEOREM NoStuckToggleTheorem == Spec => []NoStuckToggle
<1>1. Inv => NoStuckToggle
  <2> SUFFICES ASSUME Inv, Quiet PROVE ~loading /\ \A r \in Rows : ~rows[r].busy
    BY DEF NoStuckToggle
  <2>1. \A c \in Calls : calls[c].pc = "idle"
    BY DEF Quiet, InFlight
  <2> QED
    BY <2>1 DEF Inv, BusyWaits, LoadingWaits, Waiting, Unloading
<1> QED
  BY <1>1, Invariance, PTL

-----------------------------------------------------------------------------
(* What the fetches, the calls and the context know of the service         *)

\* The call c belongs to the row r.
Own(c, r) == calls[c].pc # "idle" /\ calls[c].row = r
Owners(r) == {c \in Calls : Own(c, r)}

\* A call that has not changed the service yet.
Before == {"login", "enter", "request"}

\* All that is held of the alert n is what the service has, but for what a call of S
\* has changed and not rendered yet.
Agrees(n, S) ==
  /\ fetch.state \in {"answered", "cached"} => fetch.data[n] = server[n]
  /\ \A c \in Calls : calls[c].pc \in {"enter", "render"} => calls[c].data[n] = server[n]
  /\ \A c \in S : ~canary /\ calls[c].pc = "request" => calls[c].data[n] = server[n]
  /\ (\A c \in S : calls[c].pc \in Before \cup {"idle"}) => alerts[n] = server[n]

LEMMA AgreesFetch ==
  ASSUME Inv, NEW n \in Names, NEW S \in SUBSET Calls, Agrees(n, S),
         AnswerFetch \/ FailFetch \/ Expire
  PROVE  Agrees(n, S)'
<1>1. UNCHANGED <<canary, alerts, server, calls>>
  BY DEF AnswerFetch, FailFetch, Expire
<1>2. fetch \in FetchRecord
  BY DEF Inv, TypeOK
<1>3. fetch'.state \in {"answered", "cached"} => fetch'.data[n] = server[n]
  <2>1. CASE AnswerFetch
    BY <1>2, <2>1 DEF AnswerFetch, FetchRecord
  <2>2. CASE FailFetch \/ Expire
    <3>1. fetch'.state \in {"failed", "old"}
      BY <1>2, <2>2 DEF FailFetch, Expire, FetchRecord
    <3> QED
      BY <3>1
  <2> QED
    BY <2>1, <2>2
<1> QED
  BY <1>1, <1>3 DEF Agrees

LEMMA AgreesEndFetch ==
  ASSUME Inv, NEW n \in Names, NEW S \in SUBSET Calls, Agrees(n, S), EndFetch
  PROVE  Agrees(n, S)'
<1>1. UNCHANGED <<canary, server>>
  BY DEF EndFetch
<1>2. /\ fetch.state = "answered" /\ fetch'.data = fetch.data
      /\ alerts' = IF fetch.viewed THEN fetch.data ELSE alerts
  BY EndFetchLeaves
<1>3. \A c \in Calls : Woken(calls[c], calls'[c])
  BY EndFetchWakes DEF Inv, TypeOK
<1>4. fetch.data[n] = server[n]
  BY <1>2 DEF Agrees
<1>5. ASSUME NEW c \in Calls
      PROVE  /\ calls'[c].pc \in {"enter", "render"} => calls'[c].data[n] = server[n]
             /\ c \in S /\ ~canary /\ calls'[c].pc = "request" => calls'[c].data[n] = server[n]
             /\ calls'[c].pc \in Before \cup {"idle"} => calls[c].pc \in Before \cup {"idle"}
  <2> DEFINE k == calls[c]
             l == calls'[c]
  <2>1. Woken(k, l)
    BY <1>3
  <2>2. /\ k.pc \in {"enter", "render"} => k.data[n] = server[n]
        /\ c \in S /\ ~canary /\ k.pc = "request" => k.data[n] = server[n]
    BY DEF Agrees
  <2> HIDE DEF k, l
  <2>3. /\ l.pc \in {"enter", "render"} => l.data[n] = server[n]
        /\ c \in S /\ ~canary /\ l.pc = "request" => l.data[n] = server[n]
        /\ l.pc \in Before \cup {"idle"} => k.pc \in Before \cup {"idle"}
    <3>1. CASE k.pc = "login"
      BY <1>4, <2>1, <3>1 DEF Woken, Before
    <3>2. CASE k.pc = "read"
      BY <1>4, <2>1, <3>2 DEF Woken, Before
    <3>3. CASE k.pc = "request"
      BY <2>1, <2>2, <3>3 DEF Woken, Before
    <3>4. CASE k.pc \notin {"login", "read", "request"}
      BY <2>1, <2>2, <3>4 DEF Woken
    <3> QED
      BY <3>1, <3>2, <3>3, <3>4
  <2> QED
    BY <2>3 DEF k, l
<1>6. (\A c \in S : calls'[c].pc \in Before \cup {"idle"}) => alerts'[n] = server[n]
  BY <1>2, <1>4, <1>5 DEF Agrees
<1> QED
  BY <1>1, <1>2, <1>4, <1>5, <1>6 DEF Agrees, Before

LEMMA AgreesLogIn ==
  ASSUME Inv, NEW n \in Names, NEW S \in SUBSET Calls, Agrees(n, S), NEW c \in Calls, LogIn(c)
  PROVE  Agrees(n, S)'
<1>1. /\ calls[c].pc = "enter" /\ alerts' = calls[c].data /\ UNCHANGED <<canary, server, fetch>>
      /\ \A d \in Calls : d # c => calls'[d] = calls[d]
      /\ calls'[c].pc = "request" /\ calls'[c].data = calls[c].data
  BY DEF LogIn, Inv, TypeOK, CallRecord
<1>2. calls[c].data[n] = server[n]
  BY <1>1 DEF Agrees
<1>3. \A d \in Calls : calls'[d].pc \in {"enter", "render"} => calls'[d].data[n] = server[n]
  BY <1>1 DEF Agrees
<1>4. \A d \in S : ~canary /\ calls'[d].pc = "request" => calls'[d].data[n] = server[n]
  BY <1>1, <1>2 DEF Agrees
<1> QED
  BY <1>1, <1>2, <1>3, <1>4 DEF Agrees

\* With the hook nothing happens while an answer waits to be rendered.
Calm == \A c \in Calls : calls[c].pc \notin {"enter", "render"}

LEMMA ReadyCalm == Ready /\ ~canary => Calm
BY DEF Ready, Calm

\* What the methods of the client hold after a request of the call k.
LEMMA HeldAgrees ==
  ASSUME Inv, NEW n \in Names, NEW S \in SUBSET Calls, Agrees(n, S), NEW k, k.name \in Names,
         server' \in AlertsByName, n # k.name => server'[n] = server[n],
         NEW held \in Refetched, NEW from \in {held} \cup Patched(held, k)
  PROVE  /\ from.state = held.state
         /\ from.state \in {"answered", "cached"} =>
              /\ server'[n] = server[n] => from.data[n] = server'[n]
              /\ n = k.name /\ from \in Patched(held, k) /\ ~Stale(k, from) =>
                   from.data[n] = server'[n]
<1> DEFINE new == [held.data EXCEPT ![k.name] = server'[k.name]]
           patched == [held EXCEPT !.data = new]
<1>1. fetch \in FetchRecord /\ server \in AlertsByName
  BY DEF Inv, TypeOK
<1>2. held \in FetchRecord
  BY <1>1, RefetchedType
<1>3. held.state \in {"answered", "cached"} => held.data[n] = server[n]
  <2>1. CASE held = fetch
    BY <2>1 DEF Agrees
  <2>2. CASE held # fetch
    <3>1. held = [fetch EXCEPT !.state = "cached", !.data = server]
      BY <2>2 DEF Refetched
    <3>2. held.data = server
      BY <1>1, <3>1 DEF FetchRecord
    <3> QED
      BY <3>2
  <2> QED
    BY <2>1, <2>2
<1>4. /\ new \in AlertsByName /\ new[k.name] = server'[k.name]
      /\ n # k.name => new[n] = held.data[n]
  BY <1>2 DEF FetchRecord, AlertsByName
<1>5. patched.data = new /\ patched.state = held.state
  BY <1>2, <1>4 DEF FetchRecord
<1>6. Patched(held, k) = CASE held.state # "cached" -> {held}
                           [] k.replaced -> {held, patched}
                           [] OTHER -> {patched}
  BY DEF Patched
<1> HIDE DEF new, patched
<1>11. ASSUME NEW x \in Patched(held, k)
       PROVE  (x = held \/ x = patched) /\ (held.state = "cached" /\ ~k.replaced => x = patched)
  <2>1. CASE held.state # "cached"
    BY <1>6, <1>11, <2>1
  <2>2. CASE held.state = "cached" /\ k.replaced
    BY <1>6, <1>11, <2>2
  <2>3. CASE held.state = "cached" /\ ~k.replaced
    BY <1>6, <1>11, <2>3
  <2> QED
    BY <2>1, <2>2, <2>3
<1>7. from = held \/ from = patched
  BY <1>11
<1>8. from.state = held.state
  BY <1>5, <1>7
<1>9. ASSUME n = k.name, from \in Patched(held, k), ~Stale(k, from),
             from.state \in {"answered", "cached"}
      PROVE  from.data[n] = server'[n]
  <2>1. from.state = "cached" /\ ~k.replaced
    BY <1>9 DEF Stale
  <2>2. from = patched
    BY <1>8, <1>9, <1>11, <2>1
  <2> QED
    BY <1>4, <1>5, <1>9, <2>2
<1>10. from.state \in {"answered", "cached"} /\ server'[n] = server[n] => from.data[n] = server'[n]
  BY <1>3, <1>4, <1>5, <1>7, <1>8
<1> QED
  BY <1>8, <1>9, <1>10

LEMMA AgreesUpdate ==
  ASSUME Inv, NEW n \in Names, NEW S \in SUBSET Calls, Agrees(n, S),
         NEW c \in Calls, Update(c), NEW held, NEW from, Updates(c, held, from),
         \/ server'[n] = server[n] /\ (c \in S \/ calls[c].name # n)
         \/ c \in S /\ calls[c].name = n /\ ~Stale(calls[c], from) /\ \A d \in S : d = c \/ calls[d].pc = "idle"
  PROVE  Agrees(n, S)'
<1> DEFINE k == calls[c]
           l == FetchedBy(k, from, "read", "render")
<1>1. /\ ~canary /\ canary' = canary /\ alerts' = alerts /\ k.pc = "request"
      /\ server' \in Written(k) /\ Ready
  BY DEF Update
<1>2. /\ k \in CallRecord /\ k.name \in Names /\ server \in AlertsByName /\ fetch \in FetchRecord
      /\ calls \in [Calls -> CallRecord]
  BY <1>1 DEF Inv, CallsHaveRows, TypeOK
<1>3. server' \in AlertsByName
  BY <1>1, <1>2, WrittenType
<1>4. n # k.name => server'[n] = server[n]
  <2>1. k.name \in Names /\ n \in Names
    BY <1>2
  <2>2. server' = Without(k) \/ server' = [server EXCEPT ![k.name] = Stored(rows[k.row], k.option)]
    BY <1>1, WrittenIs
  <2> HIDE DEF k
  <2>3. server' = server \/ server' = [server EXCEPT ![k.name] = None]
        \/ server' = [server EXCEPT ![k.name] = Stored(rows[k.row], k.option)]
    BY <2>2, WithoutIs
  <2> QED
    BY <1>2, <2>1, <2>3 DEF AlertsByName
<1>5. held \in Refetched /\ from \in Patched(held, k) /\ fetch' = Asked(from)
      /\ calls' = [calls EXCEPT ![c] = l]
  BY DEF Updates
<1>6. held \in FetchRecord /\ from \in FetchRecord
  <2>1. held \in FetchRecord
    BY <1>2, <1>5, RefetchedType
  <2> QED
    BY <1>2, <1>3, <1>5, <2>1, PatchedType
<1> HIDE DEF k
<1>7. from.state \in {"answered", "cached"} => from.data[n] = server'[n]
  <2>1. from.state \in {"answered", "cached"} =>
              /\ server'[n] = server[n] => from.data[n] = server'[n]
              /\ n = k.name /\ from \in Patched(held, k) /\ ~Stale(k, from) =>
                   from.data[n] = server'[n]
    BY <1>2, <1>3, <1>4, <1>5, HeldAgrees
  <2> QED
    BY <1>5, <2>1 DEF k
<1>8. fetch'.state \in {"answered", "cached"} => fetch'.data[n] = server'[n]
  <2>1. fetch'.state \in {"answered", "cached"} => fetch' = from
    BY <1>5, <1>6 DEF Asked, FetchRecord
  <2> QED
    BY <1>7, <2>1
<1>9. /\ l.pc \in {"read", "render"}
      /\ l.pc = "render" => l.data[n] = server'[n]
  <2>1. /\ from.state = "cached" => l.pc = "render" /\ l.data = from.data
        /\ from.state # "cached" => l.pc = "read"
    BY <1>2, <1>6, FetchedByType
  <2> HIDE DEF l
  <2> QED
    BY <1>7, <2>1
<1> HIDE DEF l
<1>10. calls'[c] = l /\ \A d \in Calls : d # c => calls'[d] = calls[d]
  BY <1>2, <1>5
<1>11. Calm
  BY <1>1, ReadyCalm
<1>12. \A d \in Calls : calls'[d].pc \in {"enter", "render"} => calls'[d].data[n] = server'[n]
  BY <1>9, <1>10, <1>11 DEF Calm
<1>13. \A d \in S : calls'[d].pc = "request" => calls'[d].data[n] = server'[n]
  <2> SUFFICES ASSUME NEW d \in S, calls'[d].pc = "request" PROVE calls'[d].data[n] = server'[n]
    OBVIOUS
  <2>1. d # c /\ calls'[d] = calls[d]
    BY <1>9, <1>10
  <2>2. server'[n] = server[n]
    BY <2>1
  <2>3. calls[d].data[n] = server[n]
    BY <1>1, <2>1 DEF Agrees
  <2> QED
    BY <2>1, <2>2, <2>3
<1>14. (\A d \in S : calls'[d].pc \in Before \cup {"idle"}) => alerts'[n] = server'[n]
  <2>1. c \in S => calls'[c].pc \notin Before \cup {"idle"}
    BY <1>9, <1>10 DEF Before
  <2>2. c \notin S => server'[n] = server[n] /\ \A d \in S : calls'[d] = calls[d]
    BY <1>10
  <2> QED
    BY <1>1, <2>1, <2>2 DEF Agrees
<1> QED
  BY <1>1, <1>8, <1>12, <1>13, <1>14 DEF Agrees

\* A step of the frontend client that changes nothing of the alert n, or that of the
\* only call.
LEMMA AgreesEnsure ==
  ASSUME Inv, NEW n \in Names, NEW S \in SUBSET Calls, Agrees(n, S), fetch.state = "old",
         NEW c \in Calls, Ensure(c),
         \/ server'[n] = server[n] /\ calls[c].pc # "idle"
         \/ c \in S /\ ~Unfetched(calls[c]) /\ \A d \in Calls : d = c \/ calls[d].pc = "idle"
  PROVE  Agrees(n, S)'
<1> DEFINE k == calls[c]
           l == IF Unfetched(k) THEN IdleCall ELSE [k EXCEPT !.pc = "read"]
<1>1. canary /\ canary' = canary /\ alerts' = alerts /\ k.pc = "request" /\ fetch' = fetch
      /\ calls' = [calls EXCEPT ![c] = l]
  BY DEF Ensure
<1>2. k \in CallRecord /\ calls \in [Calls -> CallRecord]
  BY DEF Inv, TypeOK
<1>3. l.pc \in {"idle", "read"} /\ (~Unfetched(k) => l.pc = "read")
  BY <1>2, IdleType DEF CallRecord
<1> HIDE DEF l
<1>4. calls'[c] = l /\ \A d \in Calls : d # c => calls'[d] = calls[d]
  BY <1>1, <1>2
<1>5. CASE server'[n] = server[n]
  <2>1. \A d \in Calls : calls'[d].pc \in {"enter", "render"} => calls'[d].data[n] = server'[n]
    BY <1>3, <1>4, <1>5 DEF Agrees
  <2>2. (\A d \in S : calls'[d].pc \in Before \cup {"idle"}) => alerts'[n] = server'[n]
    <3>1. ASSUME NEW d \in S, calls'[d].pc \in Before \cup {"idle"}
          PROVE  calls[d].pc \in Before \cup {"idle"}
      BY <1>1, <1>4, <3>1 DEF Before
    <3> QED
      BY <1>1, <1>5, <3>1 DEF Agrees
  <2> QED
    BY <1>1, <1>5, <2>1, <2>2 DEF Agrees
<1>6. CASE c \in S /\ ~Unfetched(k) /\ \A d \in Calls : d = c \/ calls[d].pc = "idle"
  <2>1. \A d \in Calls : calls'[d].pc \notin {"enter", "render"}
    BY <1>3, <1>4, <1>6
  <2>2. calls'[c].pc \notin Before \cup {"idle"}
    BY <1>3, <1>4, <1>6 DEF Before
  <2> QED
    BY <1>1, <1>6, <2>1, <2>2 DEF Agrees
<1> QED
  BY <1>5, <1>6

LEMMA AgreesRead ==
  ASSUME Inv, NEW n \in Names, NEW S \in SUBSET Calls, Agrees(n, S), NEW c \in Calls, Read(c)
  PROVE  Agrees(n, S)'
<1>1. /\ canary /\ calls[c].pc = "read" /\ UNCHANGED <<canary, alerts, server, fetch>>
      /\ \A d \in Calls : d # c => calls'[d] = calls[d]
      /\ calls'[c].pc = "render" /\ calls'[c].data = server
  BY DEF Read, Inv, TypeOK, CallRecord
<1>2. \A d \in Calls : calls'[d].pc \in {"enter", "render"} => calls'[d].data[n] = server[n]
  BY <1>1 DEF Agrees
<1>3. \A d \in Calls : calls'[d].pc \in Before \cup {"idle"} => calls[d].pc \in Before \cup {"idle"}
  BY <1>1 DEF Before
<1> QED
  BY <1>1, <1>2, <1>3 DEF Agrees

LEMMA AgreesRender ==
  ASSUME Inv, NEW n \in Names, NEW S \in SUBSET Calls, Agrees(n, S), NEW c \in Calls, Render(c)
  PROVE  Agrees(n, S)'
<1>1. /\ calls[c].pc = "render" /\ UNCHANGED <<canary, server, fetch>> /\ alerts' = calls[c].data
      /\ calls' = [calls EXCEPT ![c] = IdleCall]
  BY DEF Render
<1>2. calls'[c].pc = "idle" /\ \A d \in Calls : d # c => calls'[d] = calls[d]
  BY <1>1, IdleType DEF Inv, TypeOK
<1>3. alerts'[n] = server[n]
  BY <1>1 DEF Agrees
<1> QED
  BY <1>1, <1>2, <1>3 DEF Agrees

LEMMA AgreesFail ==
  ASSUME Inv, NEW n \in Names, NEW S \in SUBSET Calls, Agrees(n, S),
         NEW c \in Calls, Fail(c), server'[n] = server[n], c \notin S
  PROVE  Agrees(n, S)'
<1> DEFINE k == calls[c]
<1>1. /\ UNCHANGED <<canary, alerts>> /\ calls' = [calls EXCEPT ![c] = IdleCall]
      /\ k.pc \in {"login", "request", "read"}
  BY DEF Fail, FailedFetch
<1>2. calls'[c].pc = "idle" /\ \A d \in Calls : d # c => calls'[d] = calls[d]
  BY <1>1, IdleType DEF Inv, TypeOK
<1>3. k \in CallRecord /\ k.name \in Names /\ server \in AlertsByName /\ fetch \in FetchRecord
  BY <1>1 DEF Inv, CallsHaveRows, TypeOK
<1>4. server' \in AlertsByName
  BY <1>3, FailLeaves, WrittenType
<1>5. fetch'.state \in {"answered", "cached"} => fetch'.data[n] = server'[n]
  <2>1. CASE fetch' = fetch
    BY <2>1 DEF Agrees
  <2>2. ASSUME NEW held \in Refetched, fetch' \in {held} \cup Patched(held, k)
        PROVE  fetch'.state \in {"answered", "cached"} => fetch'.data[n] = server'[n]
    <3> DEFINE from == fetch'
    <3>1. from.state \in {"answered", "cached"} =>
              /\ server'[n] = server[n] => from.data[n] = server'[n]
              /\ n = k.name /\ from \in Patched(held, k) /\ ~Stale(k, from) =>
                   from.data[n] = server'[n]
      <4> HIDE DEF from, k
      <4>1. from \in {held} \cup Patched(held, k)
        BY <2>2 DEF from
      <4> QED
        BY <1>3, <1>4, <4>1, HeldAgrees
    <3> QED
      BY <3>1
  <2> QED
    BY <2>1, <2>2, FailLeaves
<1>6. \A d \in Calls : calls'[d].pc \in {"enter", "render"} => calls'[d].data[n] = server'[n]
  BY <1>2 DEF Agrees
<1>7. \A d \in S : calls'[d] = calls[d]
  BY <1>2
<1> QED
  BY <1>1, <1>5, <1>6, <1>7 DEF Agrees

LEMMA AgreesBegin ==
  ASSUME Inv, NEW n \in Names, NEW S \in SUBSET Calls, Agrees(n, S),
         NEW c \in Calls, NEW row, NEW call \in CallRecord, NEW flag, Begin(c, row, call, flag)
  PROVE  Agrees(n, S)' /\ Agrees(n, S \cup {c})'
<1> DEFINE l == IF canary THEN [call EXCEPT !.pc = "request"]
                ELSE FetchedBy(call, fetch, "login", "enter")
<1>1. /\ UNCHANGED <<canary, alerts, server>> /\ calls[c].pc = "idle"
      /\ calls' = [calls EXCEPT ![c] = l] /\ fetch' = IF canary THEN fetch ELSE Asked(fetch)
  BY DEF Begin
<1>2. fetch \in FetchRecord /\ calls \in [Calls -> CallRecord]
  BY DEF Inv, TypeOK
<1>3. /\ canary => l.pc = "request"
      /\ ~canary => l.pc \in {"login", "enter"}
      /\ l.pc = "enter" => l.data[n] = server[n]
  <2>1. CASE canary
    BY <2>1 DEF CallRecord
  <2>2. CASE ~canary
    <3>1. /\ fetch.state = "cached" => l.pc = "enter" /\ l.data = fetch.data
          /\ fetch.state # "cached" => l.pc = "login"
      BY <1>2, <2>2, FetchedByType
    <3> HIDE DEF l
    <3> QED
      BY <2>2, <3>1 DEF Agrees
  <2> QED
    BY <2>1, <2>2
<1> HIDE DEF l
<1>4. calls'[c] = l /\ \A d \in Calls : d # c => calls'[d] = calls[d]
  BY <1>1, <1>2
<1>5. fetch'.state \in {"answered", "cached"} => fetch'.data[n] = server[n]
  <2>1. fetch'.state \in {"answered", "cached"} => fetch' = fetch
    BY <1>1, <1>2 DEF Asked, FetchRecord
  <2> QED
    BY <2>1 DEF Agrees
<1>6. \A d \in Calls : calls'[d].pc \in {"enter", "render"} => calls'[d].data[n] = server[n]
  BY <1>3, <1>4 DEF Agrees
<1>7. \A d \in S \cup {c} : ~canary /\ calls'[d].pc = "request" => calls'[d].data[n] = server[n]
  BY <1>3, <1>4 DEF Agrees
<1>8. (\A d \in S : calls'[d].pc \in Before \cup {"idle"}) => alerts'[n] = server[n]
  <2>1. \A d \in S : calls'[d].pc \in Before \cup {"idle"} => calls[d].pc \in Before \cup {"idle"}
    BY <1>1, <1>4
  <2> QED
    BY <1>1, <2>1 DEF Agrees
<1> QED
  BY <1>1, <1>5, <1>6, <1>7, <1>8 DEF Agrees

LEMMA AgreesRemount ==
  ASSUME Inv, NEW n \in Names, NEW S \in SUBSET Calls, Agrees(n, S), Remount
  PROVE  Agrees(n, S)'
<1>1. /\ UNCHANGED <<canary, server, calls>>
      /\ alerts' = IF ~canary /\ fetch.state = "cached" THEN fetch.data ELSE alerts
  BY DEF Remount
<1>4. fetch \in FetchRecord
  BY DEF Inv, TypeOK
<1>2. fetch'.state \in {"answered", "cached"} => fetch'.data[n] = server[n]
  <2>1. fetch' = fetch \/ fetch' = [Asked(fetch) EXCEPT !.viewed = TRUE]
    BY DEF Remount
  <2>2. fetch'.state \in {"answered", "cached"} => fetch'.state = fetch.state /\ fetch'.data = fetch.data
    BY <1>4, <2>1 DEF Asked, FetchRecord
  <2> QED
    BY <2>2 DEF Agrees
<1>3. alerts'[n] = alerts[n] \/ alerts'[n] = server[n]
  BY <1>1 DEF Agrees
<1> QED
  BY <1>1, <1>2, <1>3 DEF Agrees

-----------------------------------------------------------------------------
(* Toggles that tell the truth                                             *)

\* A row shows what it did, or what its effect made of the alert it looks up.
Turned(row, new, option, rendered) ==
  \/ new.enabled = row.enabled
  \/ /\ row.is.deps # {} /\ (row.is.deps = {"alerts"} => rendered)
     /\ new.enabled = (option # None)

LEMMA RunEffectTurns ==
  ASSUME NEW row \in RowState, NEW option \in Options \cup {None}, NEW busy
  PROVE  \/ RunEffect(row, option, busy).enabled = row.enabled
         \/ RunEffect(row, option, busy).enabled = (option # None)
<1>1. CASE row.is.deps = {} \/ busy \/ row.busy
  BY <1>1 DEF RunEffect
<1>2. CASE ~(row.is.deps = {} \/ busy \/ row.busy) /\ row.is.follows = "ratio"
  <2>1. RunEffect(row, option, busy) = ShowRatio(row, option)
    BY <1>2 DEF RunEffect
  <2> QED
    BY <2>1, ShowRatioKeeps
<1>3. CASE ~(row.is.deps = {} \/ busy \/ row.busy) /\ row.is.follows # "ratio"
  <2> DEFINE on == (option # None)
  <2>1. RunEffect(row, option, busy) = [row EXCEPT !.enabled = on]
    BY <1>3 DEF RunEffect
  <2>2. on \in BOOLEAN
    OBVIOUS
  <2>3. [row EXCEPT !.enabled = on].enabled = on
    BY <2>2, SameEnabled
  <2> QED
    BY <2>1, <2>3
<1> QED
  BY <1>1, <1>2, <1>3

LEMMA FollowTurns ==
  ASSUME NEW old, NEW new \in RowState, NEW option \in Options \cup {None},
         NEW rendered, NEW was, NEW busy
  PROVE  Turned(new, Follow(old, new, option, rendered, was, busy), option, rendered)
<1> DEFINE changed == {d \in new.is.deps :
                         \/ d = "alerts" /\ rendered
                         \/ d = "loading" /\ was # busy
                         \/ d = "enabled" /\ old.enabled # new.enabled
                         \/ d = "busy" /\ old.busy # new.busy}
<1>1. Follow(old, new, option, rendered, was, busy) =
        IF changed = {} THEN new ELSE RunEffect(new, option, busy)
  BY DEF Follow
<1>2. changed # {} => new.is.deps # {} /\ (new.is.deps = {"alerts"} => rendered)
  OBVIOUS
<1> HIDE DEF changed
<1>3. CASE changed = {}
  BY <1>1, <1>3 DEF Turned
<1>4. CASE changed # {}
  BY <1>1, <1>2, <1>4, RunEffectTurns DEF Turned
<1> QED
  BY <1>3, <1>4

\* All rows after their effects.
AllTurned(new, rs, shown, rendered) ==
  \A r \in Rows : Turned(new[r], rs[r], shown[AlertName(r)], rendered)

LEMMA FollowedTurns ==
  ASSUME NEW old, NEW new \in [Rows -> RowState], NEW shown \in AlertsByName,
         NEW rendered, NEW was, NEW busy
  PROVE  AllTurned(new, Followed(old, new, shown, rendered, was, busy), shown, rendered)
<1> DEFINE rs == Followed(old, new, shown, rendered, was, busy)
<1>1. \A r \in Rows : shown[AlertName(r)] \in Options \cup {None}
  BY NamesAre DEF AlertsByName
<1>2. rs = [r \in Rows |-> Follow(old[r], new[r], shown[AlertName(r)], rendered, was, busy)]
  BY DEF Followed
<1> HIDE DEF rs
<1>3. ASSUME NEW r \in Rows PROVE Turned(new[r], rs[r], shown[AlertName(r)], rendered)
  <2> DEFINE a == old[r]
             b == new[r]
             o == shown[AlertName(r)]
  <2>1. rs[r] = Follow(a, b, o, rendered, was, busy) /\ b \in RowState /\ o \in Options \cup {None}
    BY <1>1, <1>2
  <2> HIDE DEF a, b, o
  <2>2. Turned(b, rs[r], o, rendered)
    BY <2>1, FollowTurns
  <2> QED
    BY <2>2 DEF b, o
<1> QED
  BY <1>3 DEF rs, AllTurned

\* The rows after the end of the call k: row0 is its row before the .then.
Ends(k, answered, found, shown, rendered, rs, row0) ==
  /\ Same(rows[k.row], row0) /\ (rows[k.row].is.deps = {} => row0 = rows[k.row])
  /\ Turned(Then(row0, k, answered, found), rs[k.row], shown[AlertName(k.row)], rendered)
  /\ \A r \in Rows : r # k.row => Turned(rows[r], rs[r], shown[AlertName(r)], rendered)

LEMMA ConcludedTurns ==
  ASSUME rows \in [Rows -> RowState], NEW k \in CallRecord, k.row \in Rows,
         NEW answered \in BOOLEAN, NEW found, NEW shown \in AlertsByName, NEW rendered \in BOOLEAN,
         NEW busy, NEW batched \in BOOLEAN
  PROVE  \E row0 : Ends(k, answered, found, shown, rendered,
                     Concluded(k, answered, found, shown, rendered, busy, batched), row0)
<1> DEFINE rs == Concluded(k, answered, found, shown, rendered, busy, batched)
           first == IF batched THEN rows
                    ELSE Followed(rows, rows, shown, rendered, loading, loading)
           last == Continued(first, k, answered, found)
           seen == IF batched THEN first
                   ELSE [r \in Rows |-> [first[r] EXCEPT !.enabled = last[r].enabled]]
           both == batched /\ rendered
           row0 == first[k.row]
           then == Then(row0, k, answered, found)
<1>0. rows \in [Rows -> RowState]
  OBVIOUS
<1>1. rs = Followed(seen, last, shown, both, loading, busy)
  BY DEF Concluded
<1>2. /\ first \in [Rows -> RowState]
      /\ \A r \in Rows : /\ Same(rows[r], first[r]) /\ (rows[r].is.deps = {} => first[r] = rows[r])
                         /\ IF batched THEN first[r] = rows[r]
                            ELSE Turned(rows[r], first[r], shown[AlertName(r)], rendered)
  <2>1. CASE batched
    BY <2>1, SameSelf
  <2>2. CASE ~batched
    <3>1. first = Followed(rows, rows, shown, rendered, loading, loading)
      BY <2>2
    <3> HIDE DEF first
    <3>2. Follows(rows, first) /\ AllTurned(rows, first, shown, rendered)
      BY <1>0, <3>1, FollowedKeeps, FollowedTurns
    <3> QED
      BY <2>2, <3>2 DEF Follows, AllTurned
  <2> QED
    BY <2>1, <2>2
<1> HIDE DEF rs, first, seen
<1>3. /\ last \in [Rows -> RowState]
      /\ last[k.row].enabled = then.enabled /\ After(first[k.row], k, last[k.row])
      /\ \A r \in Rows : r # k.row => last[r] = first[r]
  BY <1>2, ContinuedAfter
<1> HIDE DEF last
<1>4. AllTurned(last, rs, shown, both)
  BY <1>1, <1>3, FollowedTurns
<1>5. row0 \in RowState /\ Same(rows[k.row], row0) /\ (rows[k.row].is.deps = {} => row0 = rows[k.row])
  BY <1>2
<1>6. Same(row0, then)
  <2> HIDE DEF row0
  <2> QED
    BY <1>5, ThenKeeps
<1>7. last[k.row].is = then.is
  BY <1>3, <1>6 DEF After, Same
<1>8. Turned(then, rs[k.row], shown[AlertName(k.row)], rendered)
  BY <1>3, <1>4, <1>7 DEF AllTurned, Turned
<1>9. ASSUME NEW r \in Rows, r # k.row
      PROVE  Turned(rows[r], rs[r], shown[AlertName(r)], rendered)
  <2>1. Turned(last[r], rs[r], shown[AlertName(r)], both) /\ last[r] = first[r]
    BY <1>3, <1>4, <1>9 DEF AllTurned
  <2>2. first[r].is = rows[r].is
    BY <1>2 DEF Same
  <2>3. CASE batched
    BY <1>2, <2>1, <2>3 DEF Turned
  <2>4. CASE ~batched
    BY <1>2, <2>1, <2>2, <2>4 DEF Turned
  <2> QED
    BY <2>3, <2>4
<1>10. Ends(k, answered, found, shown, rendered, rs, row0)
  BY <1>5, <1>8, <1>9 DEF Ends
<1> QED
  BY <1>10 DEF rs

\* The kinds of rows: those that read the alerts once, those that follow them, and
\* those that have a threshold.
LEMMA FollowsAre ==
  /\ BroadcastRow.follows = "once" /\ CustomToggleRow.follows = "once"
  /\ XMTPRow.follows = "once" /\ FusionToggleRow.follows = "once"
  /\ PriceChangeRow.follows = "once" /\ WalletBalanceRow.follows = "once"
  /\ DirectPushRow.follows = "alerts" /\ TradingPairsRow.follows = "pairs"
  /\ HealthCheckRow.follows = "ratio" /\ CustomHealthCheckRow.follows = "ratio"
  /\ FusionHealthCheckRow.follows = "ratio"
<1>1. \A f : Toggles(f).follows = "once"
  BY DEF Toggles
<1>2. /\ BroadcastRow.follows = "once" /\ CustomToggleRow.follows = "once"
      /\ XMTPRow.follows = "once" /\ FusionToggleRow.follows = "once"
      /\ PriceChangeRow.follows = "once"
  BY <1>1 DEF BroadcastRow, CustomToggleRow, XMTPRow, FusionToggleRow, PriceChangeRow
<1>3. WalletBalanceRow.follows = "once" /\ TradingPairsRow.follows = "pairs"
  BY DEF WalletBalanceRow, TradingPairsRow
<1>4. DirectPushRow.follows = "alerts"
  BY DEF DirectPushRow
<1>5. HealthCheckRow.follows = "ratio" /\ CustomHealthCheckRow.follows = "ratio"
      /\ FusionHealthCheckRow.follows = "ratio"
  BY DEF HealthCheckRow, CustomHealthCheckRow, FusionHealthCheckRow
<1> QED
  BY <1>2, <1>3, <1>4, <1>5

\* What the rows that read the alerts once have in common.
OnceTraits(is) ==
  /\ is.ratio = None /\ ~is.alertName /\ is.deps = {} /\ "unsubscribe" \in is.early
  /\ is.subscribed \in {"check", "on"} /\ is.unsubscribed \in {"check", "keep"}
  /\ is.subscribed = "check" => "subscribe" \in is.early

LEMMA OnceKinds ==
  ASSUME NEW t \in DOMAIN RowOf, RowOf[t].follows = "once"
  PROVE  OnceTraits(RowOf[t])
<1>1. RowOf[t] \in {BroadcastRow, FusionToggleRow, PriceChangeRow, CustomToggleRow, XMTPRow,
                    WalletBalanceRow}
  BY FollowsAre DEF RowOf
<1>2. \A f : OnceTraits(Toggles(f))
  <2> TAKE f
  <2>1. /\ Toggles(f).ratio = None /\ Toggles(f).deps = {}
        /\ Toggles(f).early = {"subscribe", "unsubscribe"}
    BY DEF Toggles
  <2>2. ~Toggles(f).alertName
    BY DEF Toggles
  <2>3. Toggles(f).subscribed = "check" /\ Toggles(f).unsubscribed = "check"
    BY DEF Toggles
  <2> QED
    BY <2>1, <2>2, <2>3 DEF OnceTraits
<1>3. OnceTraits(WalletBalanceRow)
  <2>1. /\ WalletBalanceRow.ratio = None /\ WalletBalanceRow.deps = {}
        /\ WalletBalanceRow.early = {"unsubscribe"}
    BY DEF WalletBalanceRow
  <2>2. ~WalletBalanceRow.alertName
    BY DEF WalletBalanceRow
  <2>3. WalletBalanceRow.subscribed = "on" /\ WalletBalanceRow.unsubscribed = "keep"
    BY DEF WalletBalanceRow
  <2> QED
    BY <2>1, <2>2, <2>3 DEF OnceTraits
<1> QED
  BY <1>1, <1>2, <1>3 DEF BroadcastRow, FusionToggleRow, PriceChangeRow, CustomToggleRow, XMTPRow

LEMMA AlertsKinds ==
  ASSUME NEW t \in DOMAIN RowOf, RowOf[t].follows = "alerts"
  PROVE  RowOf[t] = DirectPushRow
BY FollowsAre DEF RowOf

LEMMA DirectPushKind ==
  /\ DirectPushRow.follows = "alerts" /\ DirectPushRow.deps = {"alerts"} /\ DirectPushRow.early = {}
  /\ DirectPushRow.ratio = None /\ ~DirectPushRow.alertName
  /\ DirectPushRow.subscribed = "on" /\ DirectPushRow.unsubscribed = "off"
<1>1. DirectPushRow.follows = "alerts" /\ DirectPushRow.deps = {"alerts"} /\ DirectPushRow.early = {}
  BY DEF DirectPushRow
<1>2. DirectPushRow.ratio = None /\ ~DirectPushRow.alertName
  BY DEF DirectPushRow
<1>3. DirectPushRow.subscribed = "on" /\ DirectPushRow.unsubscribed = "off"
  BY DEF DirectPushRow
<1> QED
  BY <1>1, <1>2, <1>3

LEMMA RatioKinds ==
  ASSUME NEW t \in DOMAIN RowOf, RowOf[t].follows = "ratio"
  PROVE  RowOf[t] \in {HealthCheckRow, CustomHealthCheckRow, FusionHealthCheckRow}
BY FollowsAre DEF RowOf

\* A row whose alert the context or the fetch may know: with the frontend client,
\* as long as no calls have overlapped.
Sees(r) == Plain(r) /\ (canary => ~overlap)
Known(r) == Sees(r) => Agrees(EventName(r), Owners(r))

\* A row that shows what the service has, or will have.
Watched(r) ==
  /\ Plain(r)
  /\ rows[r].is.follows = "once" \/ (rows[r].is.follows = "alerts" /\ Sees(r))

\* What a row shows while its call is in flight.
Shown(row, op) == IF op \in row.is.early THEN op = "subscribe" ELSE op = "unsubscribe"

\* The call k of the row, from the click to its end; on tells whether the service has
\* the alert of the row.
Foretold(row, k, on) ==
  /\ \/ k.op = "subscribe" /\ k.option = "on"
     \/ k.op = "unsubscribe" /\ k.option = None
  /\ k.pc \in Before => on = (k.op = "unsubscribe") /\ row.enabled = Shown(row, k.op)
  /\ k.pc \in {"read", "render"} /\ ~canary =>
       /\ on => k.op = "subscribe"
       /\ ~on => k.op = "unsubscribe" \/ row.is.subscribed = "check"
       /\ row.is.follows = "once" => row.enabled = Shown(row, k.op)
  /\ k.pc \in {"read", "render"} /\ canary => row.enabled = on

Kept(r) ==
  Watched(r) =>
    /\ (\A c \in Calls : ~Own(c, r)) => rows[r].enabled = InService(r)
    /\ \A c \in Calls : Own(c, r) => Foretold(rows[r], calls[c], InService(r))

\* A row that was not muddled has one call at most, made since it was mounted.
OneCall ==
  \A r \in Rows : ~rows[r].muddled =>
    \A c \in Calls : Own(c, r) =>
      calls[c].mount = rows[r].mount /\ \A d \in Calls : Own(d, r) => d = c

\* A call works on an alert of its row, the one that the row looks up.
Named ==
  \A c \in Calls : calls[c].pc # "idle" =>
    /\ calls[c].name[1] = calls[c].row
    /\ rows[calls[c].row].is.follows # "pairs" =>
         \/ rows[calls[c].row].ref /\ rows[calls[c].row].is.alertName
         \/ calls[c].name = EventName(calls[c].row)

\* Calls that do not overlap: there is one at most.
Alone == ~overlap => \A c, d \in Calls : calls[c].pc # "idle" /\ calls[d].pc # "idle" => c = d

\* The frontend client has no use for the fetch of the hook.
FetchOld == canary => fetch.state = "old"

\* The alerts of direct push rows have the names of their event types.
Unnamed == \A n \in Names : rows[n[1]].is = DirectPushRow /\ server[n] # None => n = EventName(n[1])

\* Nothing has gone wrong yet, and no calls have overlapped.
Orderly ==
  ~overlap /\ (\A r \in Rows : ~rows[r].muddled) => \A n \in Names : Agrees(n, InFlight)

Truth ==
  /\ OneCall /\ Named /\ Alone /\ FetchOld /\ Unnamed /\ Orderly
  /\ \A r \in Rows : Known(r) /\ Kept(r)
TruthInv == Inv /\ Truth

-----------------------------------------------------------------------------
(* What every step leaves                                                  *)

\* The rows keep their kinds, and what is muddled stays so.
Grows ==
  /\ canary' = canary /\ (overlap => overlap') /\ overlap' \in BOOLEAN
  /\ \A r \in Rows : /\ rows'[r].is = rows[r].is /\ rows'[r].ref = rows[r].ref
                     /\ rows[r].muddled = TRUE => rows'[r].muddled = TRUE

LEMMA PlainBack ==
  ASSUME Inv, Grows, NEW r \in Rows
  PROVE  /\ Plain(r)' => Plain(r)
         /\ Sees(r)' => Sees(r)
         /\ Watched(r)' => Watched(r)
<1>1. rows[r].muddled \in BOOLEAN /\ overlap \in BOOLEAN
  BY DEF Inv, TypeOK, RowState
<1>2. Confused(r)' = Confused(r)
  BY DEF Grows, Confused
<1>3. Plain(r)' => Plain(r)
  BY <1>1, <1>2 DEF Grows, Plain
<1>4. Sees(r)' => Sees(r)
  BY <1>1, <1>3 DEF Grows, Sees
<1>5. Watched(r)' => Watched(r)
  BY <1>3, <1>4 DEF Grows, Watched
<1> QED
  BY <1>3, <1>4, <1>5

\* The calls go on, or end.
Continues ==
  \A d \in Calls : calls'[d].pc = "idle" \/ (calls[d].pc # "idle" /\ SameCall(calls[d], calls'[d]))

LEMMA OwnBack ==
  ASSUME Continues, NEW d \in Calls, NEW r \in Rows, Own(d, r)'
  PROVE  Own(d, r) /\ SameCall(calls[d], calls'[d])
BY DEF Continues, Own, SameCall

LEMMA CallsContinue ==
  ASSUME TruthInv, Grows, Continues, overlap' = overlap, \A r \in Rows : rows'[r].mount = rows[r].mount
  PROVE  OneCall' /\ Named' /\ Alone'
<1>1. OneCall'
  <2> SUFFICES ASSUME NEW r \in Rows, ~rows'[r].muddled, NEW c \in Calls, Own(c, r)'
               PROVE  calls'[c].mount = rows'[r].mount /\ \A d \in Calls : Own(d, r)' => d = c
    BY DEF OneCall
  <2>1. Own(c, r) /\ SameCall(calls[c], calls'[c])
    BY OwnBack
  <2>2. ~rows[r].muddled
    BY DEF Grows, TruthInv, Inv, TypeOK, RowState
  <2>3. calls[c].mount = rows[r].mount /\ \A d \in Calls : Own(d, r) => d = c
    BY <2>1, <2>2 DEF TruthInv, Truth, OneCall
  <2>4. calls'[c].mount = rows'[r].mount
    BY <2>1, <2>3 DEF SameCall
  <2>5. \A d \in Calls : Own(d, r)' => d = c
    BY <2>3, OwnBack
  <2> QED
    BY <2>4, <2>5
<1>2. Named'
  <2> SUFFICES ASSUME NEW c \in Calls, calls'[c].pc # "idle"
               PROVE  /\ calls'[c].name[1] = calls'[c].row
                      /\ rows'[calls'[c].row].is.follows # "pairs" =>
                           \/ rows'[calls'[c].row].ref /\ rows'[calls'[c].row].is.alertName
                           \/ calls'[c].name = EventName(calls'[c].row)
    BY DEF Named, EventName
  <2>1. calls[c].pc # "idle" /\ calls'[c].row = calls[c].row /\ calls'[c].name = calls[c].name
    BY DEF Continues, SameCall
  <2>2. calls[c].row \in Rows
    BY <2>1 DEF TruthInv, Inv, CallsHaveRows
  <2>3. /\ calls[c].name[1] = calls[c].row
        /\ rows[calls[c].row].is.follows # "pairs" =>
             \/ rows[calls[c].row].ref /\ rows[calls[c].row].is.alertName
             \/ calls[c].name = EventName(calls[c].row)
    BY <2>1 DEF TruthInv, Truth, Named
  <2> QED
    BY <2>1, <2>2, <2>3 DEF Grows
<1>3. Alone'
  <2>1. \A d \in Calls : calls'[d].pc # "idle" => calls[d].pc # "idle"
    BY DEF Continues
  <2> QED
    BY <2>1 DEF TruthInv, Truth, Alone
<1> QED
  BY <1>1, <1>2, <1>3

LEMMA KnownStays ==
  ASSUME Inv, Grows, Continues, NEW r \in Rows, NEW n \in Names, n = EventName(r),
         NEW S \in SUBSET Calls, S = Owners(r), Sees(r)' => Agrees(n, S)'
  PROVE  Known(r)'
<1> DEFINE T == Owners(r)'
<1>1. \A d \in T : d \in S
  BY OwnBack DEF Owners
<1>2. \A d \in S : d \in T \/ calls'[d].pc = "idle"
  BY DEF Owners, Own, Continues, SameCall
<1>3. T \in SUBSET Calls
  BY DEF Owners
<1>4. Agrees(n, S)' => /\ fetch'.state \in {"answered", "cached"} => fetch'.data[n] = server'[n]
                       /\ \A c \in Calls : calls'[c].pc \in {"enter", "render"} => calls'[c].data[n] = server'[n]
                       /\ \A c \in T : ~canary' /\ calls'[c].pc = "request" => calls'[c].data[n] = server'[n]
                       /\ (\A c \in T : calls'[c].pc \in Before \cup {"idle"}) => alerts'[n] = server'[n]
  <2> HIDE DEF T
  <2> QED
    BY <1>1, <1>2, <1>3 DEF Agrees
<1>5. Sees(r)' => /\ fetch'.state \in {"answered", "cached"} => fetch'.data[EventName(r)] = server'[EventName(r)]
                  /\ \A c \in Calls : calls'[c].pc \in {"enter", "render"} =>
                       calls'[c].data[EventName(r)] = server'[EventName(r)]
                  /\ \A c \in T : ~canary' /\ calls'[c].pc = "request" =>
                       calls'[c].data[EventName(r)] = server'[EventName(r)]
                  /\ (\A c \in T : calls'[c].pc \in Before \cup {"idle"}) =>
                       alerts'[EventName(r)] = server'[EventName(r)]
  BY <1>4
<1> QED
  BY <1>5 DEF Known, Agrees, EventName

LEMMA OrderlyStays ==
  ASSUME Inv, Continues, NEW S \in SUBSET Calls, S = InFlight,
         ~overlap' /\ (\A r \in Rows : ~rows'[r].muddled) => \A n \in Names : Agrees(n, S)'
  PROVE  Orderly'
<1> DEFINE T == InFlight'
<1>1. \A d \in T : d \in S
  BY DEF InFlight, Continues
<1>2. \A d \in S : d \in T \/ calls'[d].pc = "idle"
  BY DEF InFlight
<1>3. T \in SUBSET Calls
  BY DEF InFlight
<1>4. ASSUME NEW n \in Names, Agrees(n, S)'
      PROVE  /\ fetch'.state \in {"answered", "cached"} => fetch'.data[n] = server'[n]
             /\ \A c \in Calls : calls'[c].pc \in {"enter", "render"} => calls'[c].data[n] = server'[n]
             /\ \A c \in T : ~canary' /\ calls'[c].pc = "request" => calls'[c].data[n] = server'[n]
             /\ (\A c \in T : calls'[c].pc \in Before \cup {"idle"}) => alerts'[n] = server'[n]
  <2> HIDE DEF T
  <2> QED
    BY <1>1, <1>2, <1>3, <1>4 DEF Agrees
<1>5. ASSUME NEW n \in Names, Agrees(n, S)' PROVE Agrees(n, InFlight)'
  BY <1>4, <1>5 DEF Agrees
<1> QED
  BY <1>5 DEF Orderly

\* A step that does not concern the row r: its alert and its calls stay, and the row
\* only follows the alerts.
Elsewhere(r) ==
  /\ server'[EventName(r)] = server[EventName(r)]
  /\ Turned(rows[r], rows'[r], alerts'[AlertName(r)], TRUE)
  /\ \A c \in Calls : Own(c, r) =>
       /\ calls'[c].pc # "idle"
       /\ (calls'[c].pc \in Before) = (calls[c].pc \in Before)
       /\ canary /\ calls[c].pc \notin Before /\ Sees(r) => rows'[r].enabled = rows[r].enabled

LEMMA OwnPlace ==
  ASSUME NEW c \in Calls, NEW r \in Rows, Inv
  PROVE  /\ Own(c, r) => calls[c] \in CallRecord
         /\ Own(c, r) /\ calls[c].pc \notin Before => calls[c].pc \in {"read", "render"}
BY DEF Inv, TypeOK, CallRecord, Own, Before

LEMMA KeptElsewhere ==
  ASSUME TruthInv, Inv', Grows, Continues, NEW r \in Rows, Known(r)', Watched(r)' => Elsewhere(r)
  PROVE  Kept(r)'
<1> SUFFICES ASSUME Watched(r)'
             PROVE  /\ (\A c \in Calls : ~Own(c, r)') => rows'[r].enabled = InService(r)'
                    /\ \A c \in Calls : Own(c, r)' => Foretold(rows[r], calls[c], InService(r))'
  BY DEF Kept
<1>1. Watched(r) /\ Plain(r) /\ Inv /\ Known(r) /\ (Sees(r)' => Sees(r))
  BY PlainBack DEF TruthInv, Truth, Watched
<1>2. /\ (\A c \in Calls : ~Own(c, r)) => rows[r].enabled = InService(r)
      /\ \A c \in Calls : Own(c, r) => Foretold(rows[r], calls[c], InService(r))
  BY <1>1 DEF TruthInv, Truth, Kept
<1>3. Elsewhere(r) /\ InService(r)' = InService(r)
  BY DEF Elsewhere, InService, EventName
<1>4. \A c \in Calls : Own(c, r)' => Own(c, r) /\ SameCall(calls[c], calls'[c])
  BY OwnBack
<1>5. \A c \in Calls : Own(c, r) => Own(c, r)'
  BY <1>3 DEF Elsewhere, Continues, Own, SameCall
<1>6. rows'[r].is = rows[r].is /\ canary' = canary /\ rows[r] \in RowState /\ ~rows[r].ref
  BY <1>1 DEF Grows, Inv, TypeOK, Plain, Confused
<1>7. rows[r].is \in {RowOf[t] : t \in DOMAIN RowOf}
  BY <1>6 DEF RowState
<1>8. AlertName(r) = EventName(r)
  BY <1>6 DEF AlertName
<1>9. CASE rows[r].is.follows = "once"
  <2>1. rows'[r].enabled = rows[r].enabled
    BY <1>3, <1>7, <1>9, OnceKinds DEF Elsewhere, Turned, OnceTraits
  <2>2. (\A c \in Calls : ~Own(c, r)') => rows'[r].enabled = InService(r)'
    BY <1>2, <1>3, <1>5, <2>1
  <2>3. ASSUME NEW c \in Calls, Own(c, r)'
        PROVE  Foretold(rows[r], calls[c], InService(r))'
    <3>1. /\ Own(c, r) /\ SameCall(calls[c], calls'[c]) /\ Foretold(rows[r], calls[c], InService(r))
          /\ (calls'[c].pc \in Before) = (calls[c].pc \in Before)
      BY <1>2, <1>3, <1>4, <2>3 DEF Elsewhere
    <3>2. /\ calls[c].pc \notin Before => calls[c].pc \in {"read", "render"}
          /\ calls'[c].pc \in {"read", "render"} => calls'[c].pc \notin Before
      BY <1>1, <3>1, OwnPlace DEF Before
    <3>3. /\ calls'[c].pc \in Before => calls[c].pc \in Before
          /\ calls'[c].pc \in {"read", "render"} => calls[c].pc \in {"read", "render"}
      BY <3>1, <3>2
    <3>4. calls'[c].op = calls[c].op /\ calls'[c].option = calls[c].option
      BY <3>1 DEF SameCall
    <3> QED
      BY <1>3, <1>6, <2>1, <3>1, <3>3, <3>4 DEF Foretold, Shown
  <2> QED
    BY <2>2, <2>3
<1>10. CASE rows[r].is.follows = "alerts" /\ Sees(r)'
  <2>1. rows[r].is = DirectPushRow /\ rows[r].is.early = {}
    BY <1>7, <1>10, AlertsKinds, DirectPushKind
  <2>2. /\ (\A c \in Calls : Own(c, r)' => calls'[c].pc \in Before) =>
             alerts'[EventName(r)] = server'[EventName(r)]
    BY <1>10 DEF Known, Agrees, Owners, EventName
  <2>3. \/ rows'[r].enabled = rows[r].enabled
        \/ rows'[r].enabled = (alerts'[EventName(r)] # None)
    BY <1>3, <1>8 DEF Elsewhere, Turned
  <2>4. (\A c \in Calls : ~Own(c, r)') => rows'[r].enabled = InService(r)'
    BY <1>2, <1>3, <1>5, <2>2, <2>3 DEF InService, EventName
  <2>5. ASSUME NEW c \in Calls, Own(c, r)'
        PROVE  Foretold(rows[r], calls[c], InService(r))'
    <3>1. /\ Own(c, r) /\ SameCall(calls[c], calls'[c]) /\ Foretold(rows[r], calls[c], InService(r))
          /\ (calls'[c].pc \in Before) = (calls[c].pc \in Before)
          /\ canary /\ calls[c].pc \notin Before => rows'[r].enabled = rows[r].enabled
      BY <1>1, <1>2, <1>3, <1>4, <1>10, <2>5 DEF Elsewhere
    <3>2. /\ calls[c].pc \notin Before => calls[c].pc \in {"read", "render"}
          /\ calls'[c].pc \in {"read", "render"} => calls'[c].pc \notin Before
      BY <1>1, <3>1, OwnPlace DEF Before
    <3>3. /\ calls'[c].pc \in Before => calls[c].pc \in Before
          /\ calls'[c].pc \in {"read", "render"} => calls[c].pc \in {"read", "render"}
      BY <3>1, <3>2
    <3>4. calls'[c].op = calls[c].op /\ calls'[c].option = calls[c].option
      BY <3>1 DEF SameCall
    <3>5. \A d \in Calls : Own(d, r)' => d = c
      <4>1. ~rows[r].muddled
        BY <1>1 DEF Plain
      <4> QED
        BY <1>4, <3>1, <4>1 DEF TruthInv, Truth, OneCall
    <3>6. ASSUME calls'[c].pc \in Before
          PROVE  /\ InService(r)' = (calls'[c].op = "unsubscribe")
                 /\ rows'[r].enabled = (calls'[c].op = "unsubscribe")
      <4>1. InService(r) = (calls[c].op = "unsubscribe") /\ rows[r].enabled = (calls[c].op = "unsubscribe")
        BY <2>1, <3>1, <3>3, <3>6 DEF Foretold, Shown
      <4>2. alerts'[EventName(r)] = server'[EventName(r)]
        BY <2>2, <3>5, <3>6
      <4> QED
        BY <1>3, <2>3, <3>4, <4>1, <4>2 DEF InService, EventName
    <3>7. ASSUME calls'[c].pc \in {"read", "render"}
          PROVE  canary' => rows'[r].enabled = InService(r)'
      <4>1. calls[c].pc \in {"read", "render"} /\ calls[c].pc \notin Before
        BY <3>3, <3>7 DEF Before
      <4> QED
        BY <1>3, <1>6, <3>1, <4>1 DEF Foretold
    <3>8. calls'[c].pc \in {"read", "render"} /\ ~canary' =>
            /\ InService(r)' => calls'[c].op = "subscribe"
            /\ ~InService(r)' => calls'[c].op = "unsubscribe" \/ rows'[r].is.subscribed = "check"
      BY <1>3, <1>6, <3>1, <3>3, <3>4 DEF Foretold
    <3>9. rows'[r].is.follows # "once" /\ rows'[r].is.early = {}
      BY <1>6, <1>10, <2>1
    <3> QED
      BY <3>1, <3>4, <3>6, <3>7, <3>8, <3>9 DEF Foretold, Shown
  <2> QED
    BY <2>4, <2>5
<1> QED
  BY <1>6, <1>9, <1>10 DEF Watched

\* Another row has another alert.
LEMMA EventNames ==
  /\ \A q, r : EventName(q) = EventName(r) => q = r
  /\ \A r : EventName(r)[1] = r
BY DEF EventName

\* What the alerts of the service may be after a request of the call k, or its failure.
Outcomes(k) ==
  {server, IF canary THEN [server EXCEPT ![k.name] = None] ELSE Without(k)} \cup Written(k)

LEMMA WritesOnly ==
  ASSUME TruthInv, NEW c \in Calls, calls[c].pc # "idle", NEW s \in Outcomes(calls[c])
  PROVE  /\ \A r \in Rows : r # calls[c].row /\ Plain(r) => s[EventName(r)] = server[EventName(r)]
         /\ \A n \in Names : rows[n[1]].is = DirectPushRow /\ s[n] # None => n = EventName(n[1])
         /\ ~canary => \A n \in Names : n # calls[c].name => s[n] = server[n]
<1> DEFINE k == calls[c]
<1>1. /\ k \in CallRecord /\ k.row \in Rows /\ k.name \in Names /\ server \in AlertsByName
      /\ rows \in [Rows -> RowState]
  BY DEF TruthInv, Inv, TypeOK, CallsHaveRows
<1>2. /\ k.name[1] = k.row
      /\ rows[k.row].is = DirectPushRow => k.name = EventName(k.row)
  BY DirectPushKind DEF TruthInv, Truth, Named
<1>3. \A n \in Names : n[1] \in Rows
  BY DEF Names
<1>4. \A n \in Names : rows[n[1]].is = DirectPushRow /\ server[n] # None => n = EventName(n[1])
  BY DEF TruthInv, Truth, Unnamed
<1>5. \/ s = server
      \/ \E v : s = [server EXCEPT ![k.name] = v]
      \/ /\ canary /\ \E n \in Deleted(k) : s = [server EXCEPT ![n] = None]
  <2> HIDE DEF k
  <2>1. \A x \in Written(k) :
          \/ \E v : x = [server EXCEPT ![k.name] = v]
          \/ x = Without(k)
          \/ canary /\ \E n \in Deleted(k) : x = [server EXCEPT ![n] = None]
    BY WrittenIs
  <2>2. Without(k) = server \/ Without(k) = [server EXCEPT ![k.name] = None]
    BY WithoutIs
  <2>3. s = server \/ s = [server EXCEPT ![k.name] = None] \/ s = Without(k) \/ s \in Written(k)
    BY DEF Outcomes, k
  <2> QED
    BY <2>1, <2>2, <2>3
<1> HIDE DEF k
<1>6. CASE s = server
  BY <1>4, <1>6
<1>7. ASSUME NEW v, s = [server EXCEPT ![k.name] = v]
      PROVE  /\ \A r \in Rows : r # k.row => s[EventName(r)] = server[EventName(r)]
             /\ \A n \in Names : rows[n[1]].is = DirectPushRow /\ s[n] # None => n = EventName(n[1])
             /\ \A n \in Names : n # k.name => s[n] = server[n]
  <2>1. \A n \in Names : n # k.name => s[n] = server[n]
    BY <1>1, <1>7 DEF AlertsByName
  <2>2. \A r \in Rows : r # k.row => EventName(r) \in Names /\ EventName(r) # k.name
    BY <1>2, EventNames, NamesAre
  <2>3. \A n \in Names : rows[n[1]].is = DirectPushRow /\ s[n] # None => n = EventName(n[1])
    BY <1>2, <1>4, <2>1
  <2> QED
    BY <2>1, <2>2, <2>3
<1>8. ASSUME canary, NEW n0 \in Deleted(k), s = [server EXCEPT ![n0] = None]
      PROVE  /\ \A r \in Rows : r # k.row /\ Plain(r) => s[EventName(r)] = server[EventName(r)]
             /\ \A n \in Names : rows[n[1]].is = DirectPushRow /\ s[n] # None => n = EventName(n[1])
  <2>1. n0 \in Names /\ (n0 = k.name \/ (/\ rows[k.row].is = DirectPushRow
                                         /\ rows[n0[1]].is \in {DirectPushRow, TradingPairsRow}))
    BY <1>1 DEF Deleted
  <2>2. \A n \in Names : n # n0 => s[n] = server[n]
    BY <1>1, <1>8, <2>1 DEF AlertsByName
  <2>3. s[n0] = None
    BY <1>1, <1>8, <2>1 DEF AlertsByName
  <2>4. ASSUME NEW r \in Rows, r # k.row, Plain(r) PROVE EventName(r) # n0
    <3> SUFFICES ASSUME EventName(r) = n0 PROVE FALSE
      OBVIOUS
    <3>1. n0[1] = r
      BY EventNames
    <3>2. n0 # k.name
      BY <1>2, <2>4, <3>1
    <3>3. rows[k.row].is = DirectPushRow /\ rows[r].is \in {DirectPushRow, TradingPairsRow}
      BY <2>1, <3>1, <3>2
    <3>4. rows[r].is # TradingPairsRow
      BY <2>4, FollowsAre DEF Plain
    <3>5. Confused(r)
      BY <1>1, <1>8, <2>4, <3>3, <3>4 DEF Confused
    <3> QED
      BY <2>4, <3>5 DEF Plain
  <2>5. \A r \in Rows : r # k.row /\ Plain(r) => s[EventName(r)] = server[EventName(r)]
    BY <2>2, <2>4, NamesAre
  <2>6. \A n \in Names : rows[n[1]].is = DirectPushRow /\ s[n] # None => n = EventName(n[1])
    BY <1>4, <2>2, <2>3
  <2> QED
    BY <2>5, <2>6
<1>9. CASE \E v : s = [server EXCEPT ![k.name] = v]
  BY <1>7, <1>9 DEF k
<1>10. CASE canary /\ \E n \in Deleted(k) : s = [server EXCEPT ![n] = None]
  BY <1>8, <1>10 DEF k
<1> QED
  BY <1>5, <1>6, <1>9, <1>10 DEF k

\* What a step of a call leaves of the truth, but for what concerns its row.
LEMMA TruthAgain ==
  ASSUME TruthInv, Inv', Grows, Continues, overlap' = overlap,
         \A r \in Rows : rows'[r].mount = rows[r].mount,
         FetchOld', Unnamed', Orderly', \A r \in Rows : Known(r)' /\ Kept(r)'
  PROVE  TruthInv'
<1>1. OneCall' /\ Named' /\ Alone'
  BY CallsContinue
<1> QED
  BY <1>1 DEF TruthInv, Truth

\* The first of a few steps that leave the service as it is.
LEMMA UnnamedStays ==
  ASSUME TruthInv, Grows, server' = server
  PROVE  Unnamed'
<1>1. \A n \in Names : n[1] \in Rows
  BY DEF Names
<1> QED
  BY <1>1 DEF TruthInv, Truth, Unnamed, Grows, EventName
-----------------------------------------------------------------------------
(* Steps and the truth                                                     *)

LEMMA ContinuesSame ==
  ASSUME Inv, calls' = calls
  PROVE  Continues
BY DEF Inv, TypeOK, Continues, SameCall

\* The calls but one stay as they are.
LEMMA ContinuesOne ==
  ASSUME Inv, NEW c \in Calls, NEW l \in CallRecord, calls' = [calls EXCEPT ![c] = l],
         l.pc = "idle" \/ (calls[c].pc # "idle" /\ SameCall(calls[c], l))
  PROVE  Continues /\ calls'[c] = l /\ \A d \in Calls : d # c => calls'[d] = calls[d]
<1>1. calls'[c] = l /\ \A d \in Calls : d # c => calls'[d] = calls[d]
  BY DEF Inv, TypeOK
<1>2. \A d \in Calls : calls[d] \in CallRecord
  BY DEF Inv, TypeOK
<1> QED
  BY <1>1, <1>2 DEF Continues, SameCall

\* The rows stay, but for what they show.
LEMMA GrowsRows ==
  ASSUME Inv, rows' \in [Rows -> RowState], canary' = canary, overlap' = overlap,
         \A r \in Rows : /\ rows'[r].is = rows[r].is /\ rows'[r].ref = rows[r].ref
                         /\ rows[r].muddled = TRUE => rows'[r].muddled = TRUE
  PROVE  Grows
BY DEF Grows, Inv, TypeOK

LEMMA FetchAloneTruth ==
  ASSUME TruthInv, Inv', AnswerFetch \/ FailFetch \/ Expire
  PROVE  TruthInv'
<1>1. /\ UNCHANGED <<canary, rows, alerts, loading, server, calls, overlap>> /\ ~canary
  BY DEF AnswerFetch, FailFetch, Expire, TruthInv, Truth, FetchOld
<1>2. Inv /\ rows \in [Rows -> RowState]
  BY DEF TruthInv, Inv, TypeOK
<1>3. Grows /\ Continues
  BY <1>1, <1>2, ContinuesSame, GrowsRows
<1>4. ASSUME NEW r \in Rows PROVE Known(r)'
  <2> DEFINE n == EventName(r)
  <2>1. n \in Names
    BY NamesAre
  <2>2. PICK S \in SUBSET Calls : S = Owners(r)
    BY DEF Owners
  <2>3. Sees(r)' => Agrees(n, S)
    BY <1>2, <1>3, <2>2, PlainBack DEF TruthInv, Truth, Known
  <2> HIDE DEF n
  <2>4. Agrees(n, S) => Agrees(n, S)'
    BY <1>2, <2>1, AgreesFetch
  <2> QED
    BY <1>2, <1>3, <2>1, <2>2, <2>3, <2>4, KnownStays DEF n
<1>5. ASSUME NEW r \in Rows PROVE Kept(r)'
  <2>1. rows'[r] = rows[r] /\ calls' = calls /\ server' = server
    BY <1>1
  <2>2. Turned(rows[r], rows'[r], alerts'[AlertName(r)], TRUE)
    BY <2>1 DEF Turned
  <2>3. Elsewhere(r)
    BY <2>1, <2>2 DEF Elsewhere, Own
  <2> QED
    BY <1>3, <1>4, <2>3, KeptElsewhere
<1>6. Orderly'
  <2>1. PICK S \in SUBSET Calls : S = InFlight
    BY DEF InFlight
  <2>2. ~overlap' /\ (\A r \in Rows : ~rows'[r].muddled) => \A n \in Names : Agrees(n, S)
    BY <1>1, <2>1 DEF TruthInv, Truth, Orderly
  <2>3. \A n \in Names : Agrees(n, S) => Agrees(n, S)'
    BY <1>2, AgreesFetch
  <2> QED
    BY <1>2, <1>3, <2>1, <2>2, <2>3, OrderlyStays
<1>7. FetchOld' /\ Unnamed'
  BY <1>1, <1>3, UnnamedStays DEF FetchOld
<1> QED
  BY <1>1, <1>3, <1>4, <1>5, <1>6, <1>7, TruthAgain

LEMMA EndFetchTruth ==
  ASSUME TruthInv, Inv', EndFetch
  PROVE  TruthInv'
<1>1. /\ UNCHANGED <<canary, loading, server, overlap>> /\ ~canary
      /\ rows' = Followed(rows, rows, alerts', fetch.viewed, loading, loading)
  BY DEF EndFetch, TruthInv, Truth, FetchOld
<1>2. Inv /\ rows \in [Rows -> RowState]
  BY DEF TruthInv, Inv, TypeOK
<1>3. Follows(rows, rows') /\ RowsSame /\ alerts' \in AlertsByName
  BY <1>2, EndFetchLeaves
<1>4. \A c \in Calls : Woken(calls[c], calls'[c])
  BY <1>2, EndFetchWakes DEF Inv, TypeOK
<1>5. \A r \in Rows : /\ rows'[r].is = rows[r].is /\ rows'[r].ref = rows[r].ref
                      /\ rows'[r].muddled = rows[r].muddled /\ rows'[r].mount = rows[r].mount
  BY <1>3 DEF Follows, Same
<1>6. Grows
  BY <1>1, <1>2, <1>3, <1>5, GrowsRows DEF RowsSame
<1>7. \A c \in Calls : /\ SameCall(calls[c], calls'[c])
                       /\ calls'[c].pc = "idle" <=> calls[c].pc = "idle"
                       /\ (calls'[c].pc \in Before) = (calls[c].pc \in Before)
  <2> TAKE c \in Calls
  <2> DEFINE k == calls[c]
             l == calls'[c]
  <2>1. Woken(k, l)
    BY <1>4
  <2> HIDE DEF k, l
  <2>2. /\ SameCall(k, l) /\ (l.pc = "idle" <=> k.pc = "idle")
        /\ (l.pc \in Before) = (k.pc \in Before)
    BY <2>1 DEF Woken, Before
  <2> QED
    BY <2>2 DEF k, l
<1>8. Continues
  BY <1>7 DEF Continues
<1>9. ASSUME NEW r \in Rows PROVE Known(r)'
  <2> DEFINE n == EventName(r)
  <2>1. n \in Names
    BY NamesAre
  <2>2. PICK S \in SUBSET Calls : S = Owners(r)
    BY DEF Owners
  <2>3. Sees(r)' => Agrees(n, S)
    BY <1>2, <1>6, <2>2, PlainBack DEF TruthInv, Truth, Known
  <2> HIDE DEF n
  <2>4. Agrees(n, S) => Agrees(n, S)'
    BY <1>2, <2>1, AgreesEndFetch
  <2> QED
    BY <1>2, <1>6, <1>8, <2>1, <2>2, <2>3, <2>4, KnownStays DEF n
<1>10. AllTurned(rows, rows', alerts', fetch.viewed)
  BY <1>1, <1>2, <1>3, FollowedTurns
<1>11. ASSUME NEW r \in Rows PROVE Kept(r)'
  <2>1. Turned(rows[r], rows'[r], alerts'[AlertName(r)], TRUE)
    BY <1>10 DEF AllTurned, Turned
  <2>2. Elsewhere(r)
    BY <1>1, <1>7, <2>1 DEF Elsewhere, Own
  <2> QED
    BY <1>6, <1>8, <1>9, <2>2, KeptElsewhere
<1>12. Orderly'
  <2>1. PICK S \in SUBSET Calls : S = InFlight
    BY DEF InFlight
  <2>2. ~overlap' /\ (\A r \in Rows : ~rows'[r].muddled) => \A n \in Names : Agrees(n, S)
    BY <1>1, <1>5, <2>1 DEF TruthInv, Truth, Orderly
  <2>3. \A n \in Names : Agrees(n, S) => Agrees(n, S)'
    BY <1>2, AgreesEndFetch
  <2> QED
    BY <1>2, <1>8, <2>1, <2>2, <2>3, OrderlyStays
<1>13. FetchOld' /\ Unnamed'
  BY <1>1, <1>6, UnnamedStays DEF FetchOld
<1> QED
  BY <1>1, <1>5, <1>6, <1>8, <1>9, <1>11, <1>12, <1>13, TruthAgain

LEMMA LogInTruth ==
  ASSUME TruthInv, Inv', NEW c \in Calls, LogIn(c)
  PROVE  TruthInv'
<1> DEFINE m == [calls[c] EXCEPT !.pc = "request"]
           l == [m EXCEPT !.replaced = FALSE]
<1>1. /\ UNCHANGED <<canary, loading, server, fetch, overlap>> /\ calls[c].pc = "enter"
      /\ rows' = Followed(rows, rows, alerts', TRUE, loading, loading) /\ alerts' = calls[c].data
  BY DEF LogIn
<1>2. Inv /\ rows \in [Rows -> RowState] /\ calls[c] \in CallRecord
  BY DEF TruthInv, Inv, TypeOK
<1>3. alerts' \in AlertsByName /\ Follows(rows, rows')
  BY <1>1, <1>2, FollowedKeeps DEF CallRecord
<1>4. SameCall(calls[c], l) /\ l.pc = "request"
  <2>1. SameCall(calls[c], m) /\ m.pc = "request"
    BY <1>2, Moves
  <2>2. m \in CallRecord
    BY <2>1 DEF SameCall
  <2> HIDE DEF m
  <2>3. SameCall(m, l) /\ l.pc = m.pc
    BY <2>2, Replaces
  <2> QED
    BY <2>1, <2>3, SameCallTransitive
<1>5. calls' = [calls EXCEPT ![c] = l]
  BY <1>2 DEF LogIn, CallRecord
<1> HIDE DEF l
<1>6. l \in CallRecord
  BY <1>4 DEF SameCall
<1>7. Continues /\ calls'[c] = l /\ \A d \in Calls : d # c => calls'[d] = calls[d]
  BY <1>1, <1>2, <1>4, <1>5, <1>6, ContinuesOne
<1>8. \A r \in Rows : /\ rows'[r].is = rows[r].is /\ rows'[r].ref = rows[r].ref
                      /\ rows'[r].muddled = rows[r].muddled /\ rows'[r].mount = rows[r].mount
  BY <1>3 DEF Follows, Same
<1>9. Grows
  BY <1>1, <1>2, <1>3, <1>8, GrowsRows DEF Follows
<1>10. ASSUME NEW r \in Rows PROVE Known(r)'
  <2> DEFINE n == EventName(r)
  <2>1. n \in Names
    BY NamesAre
  <2>2. PICK S \in SUBSET Calls : S = Owners(r)
    BY DEF Owners
  <2>3. Sees(r)' => Agrees(n, S)
    BY <1>2, <1>9, <2>2, PlainBack DEF TruthInv, Truth, Known
  <2> HIDE DEF n
  <2>4. Agrees(n, S) => Agrees(n, S)'
    BY <1>2, <2>1, AgreesLogIn
  <2> QED
    BY <1>2, <1>7, <1>9, <2>1, <2>2, <2>3, <2>4, KnownStays DEF n
<1>11. AllTurned(rows, rows', alerts', TRUE)
  BY <1>1, <1>2, <1>3, FollowedTurns
<1>12. ASSUME NEW r \in Rows PROVE Kept(r)'
  <2>1. Turned(rows[r], rows'[r], alerts'[AlertName(r)], TRUE)
    BY <1>11 DEF AllTurned
  <2>2. ASSUME NEW d \in Calls, Own(d, r)
        PROVE  /\ calls'[d].pc # "idle"
               /\ (calls'[d].pc \in Before) = (calls[d].pc \in Before)
               /\ canary /\ calls[d].pc \notin Before /\ Sees(r) => rows'[r].enabled = rows[r].enabled
    <3>1. CASE d = c
      <4>1. calls[d].pc = "enter" /\ calls'[d].pc = "request"
        BY <1>1, <1>4, <1>7, <3>1
      <4> QED
        BY <4>1 DEF Before
    <3>2. CASE d # c
      <4>1. Sees(r) => ~canary
        BY <1>1, <2>2, <3>2 DEF Sees, TruthInv, Truth, Alone, Own
      <4> QED
        BY <1>7, <2>2, <3>2, <4>1 DEF Own
    <3> QED
      BY <3>1, <3>2
  <2>3. Elsewhere(r)
    BY <1>1, <2>1, <2>2 DEF Elsewhere
  <2> QED
    BY <1>7, <1>9, <1>10, <2>3, KeptElsewhere
<1>13. Orderly'
  <2>1. PICK S \in SUBSET Calls : S = InFlight
    BY DEF InFlight
  <2>2. ~overlap' /\ (\A r \in Rows : ~rows'[r].muddled) => \A n \in Names : Agrees(n, S)
    BY <1>1, <1>8, <2>1 DEF TruthInv, Truth, Orderly
  <2>3. \A n \in Names : Agrees(n, S) => Agrees(n, S)'
    BY <1>2, AgreesLogIn
  <2> QED
    BY <1>2, <1>7, <2>1, <2>2, <2>3, OrderlyStays
<1>14. FetchOld' /\ Unnamed'
  BY <1>1, <1>9, UnnamedStays DEF FetchOld, TruthInv, Truth
<1> QED
  BY <1>1, <1>7, <1>8, <1>9, <1>10, <1>12, <1>13, <1>14, TruthAgain

LEMMA ReadTruth ==
  ASSUME TruthInv, Inv', NEW c \in Calls, Read(c)
  PROVE  TruthInv'
<1> DEFINE m == [calls[c] EXCEPT !.pc = "render"]
           l == [m EXCEPT !.data = server]
<1>1. UNCHANGED <<canary, rows, alerts, loading, server, fetch, overlap>> /\ calls[c].pc = "read"
  BY DEF Read
<1>2. /\ Inv /\ rows \in [Rows -> RowState] /\ calls[c] \in CallRecord /\ server \in AlertsByName
  BY DEF TruthInv, Inv, TypeOK
<1>4. SameCall(calls[c], l) /\ l.pc = "render"
  <2>1. SameCall(calls[c], m) /\ m.pc = "render"
    BY <1>2, Moves
  <2>2. m \in CallRecord
    BY <2>1 DEF SameCall
  <2> HIDE DEF m
  <2>3. SameCall(m, l) /\ l.pc = m.pc
    BY <1>2, <2>2, Loads
  <2> QED
    BY <2>1, <2>3, SameCallTransitive
<1>5. calls' = [calls EXCEPT ![c] = l]
  BY <1>2 DEF Read, CallRecord
<1> HIDE DEF l
<1>6. l \in CallRecord
  BY <1>4 DEF SameCall
<1>7. Continues /\ calls'[c] = l /\ \A d \in Calls : d # c => calls'[d] = calls[d]
  BY <1>1, <1>2, <1>4, <1>5, <1>6, ContinuesOne
<1>9. Grows
  BY <1>1, <1>2, GrowsRows
<1>10. ASSUME NEW r \in Rows PROVE Known(r)'
  <2> DEFINE n == EventName(r)
  <2>1. n \in Names
    BY NamesAre
  <2>2. PICK S \in SUBSET Calls : S = Owners(r)
    BY DEF Owners
  <2>3. Sees(r)' => Agrees(n, S)
    BY <1>2, <1>9, <2>2, PlainBack DEF TruthInv, Truth, Known
  <2> HIDE DEF n
  <2>4. Agrees(n, S) => Agrees(n, S)'
    BY <1>2, <2>1, AgreesRead
  <2> QED
    BY <1>2, <1>7, <1>9, <2>1, <2>2, <2>3, <2>4, KnownStays DEF n
<1>12. ASSUME NEW r \in Rows PROVE Kept(r)'
  <2>1. \A d \in Calls : Own(d, r) => /\ calls'[d].pc # "idle"
                                      /\ (calls'[d].pc \in Before) = (calls[d].pc \in Before)
    BY <1>1, <1>4, <1>7 DEF Own, Before
  <2>3. Elsewhere(r)
    BY <1>1, <2>1 DEF Elsewhere, Turned
  <2> QED
    BY <1>7, <1>9, <1>10, <2>3, KeptElsewhere
<1>13. Orderly'
  <2>1. PICK S \in SUBSET Calls : S = InFlight
    BY DEF InFlight
  <2>2. ~overlap' /\ (\A r \in Rows : ~rows'[r].muddled) => \A n \in Names : Agrees(n, S)
    BY <1>1, <2>1 DEF TruthInv, Truth, Orderly
  <2>3. \A n \in Names : Agrees(n, S) => Agrees(n, S)'
    BY <1>2, AgreesRead
  <2> QED
    BY <1>2, <1>7, <2>1, <2>2, <2>3, OrderlyStays
<1>14. FetchOld' /\ Unnamed'
  BY <1>1, <1>9, UnnamedStays DEF FetchOld, TruthInv, Truth
<1> QED
  BY <1>1, <1>7, <1>9, <1>10, <1>12, <1>13, <1>14, TruthAgain
LEMMA UpdateMoves ==
  ASSUME Inv, NEW c \in Calls, Update(c), NEW held, NEW from, Updates(c, held, from)
  PROVE  /\ Continues /\ SameCall(calls[c], calls'[c]) /\ calls'[c].pc \in {"read", "render"}
         /\ \A d \in Calls : d # c => calls'[d] = calls[d]
<1> DEFINE k == calls[c]
           l == FetchedBy(k, from, "read", "render")
<1>1. k.pc = "request" /\ server' \in Written(k)
  BY DEF Update
<1>2. k \in CallRecord /\ k.name \in Names /\ server \in AlertsByName /\ fetch \in FetchRecord
  BY <1>1 DEF Inv, CallsHaveRows, TypeOK
<1>3. server' \in AlertsByName
  BY <1>1, <1>2, WrittenType
<1>4. held \in Refetched /\ from \in Patched(held, k) /\ calls' = [calls EXCEPT ![c] = l]
  BY DEF Updates
<1> HIDE DEF k
<1>5. from \in FetchRecord
  <2>1. held \in FetchRecord
    BY <1>2, <1>4, RefetchedType
  <2> QED
    BY <1>2, <1>3, <1>4, <2>1, PatchedType
<1>6. SameCall(k, l) /\ l.pc \in {"read", "render"}
  <2>1. /\ SameCall(k, l)
        /\ from.state = "cached" => l.pc = "render"
        /\ from.state # "cached" => l.pc = "read"
    BY <1>2, <1>5, FetchedByType
  <2> QED
    BY <2>1
<1> HIDE DEF l
<1>7. l \in CallRecord
  BY <1>6 DEF SameCall
<1>8. Continues /\ calls'[c] = l /\ \A d \in Calls : d # c => calls'[d] = calls[d]
  <2>1. calls[c].pc # "idle" /\ SameCall(calls[c], l)
    BY <1>1, <1>6 DEF k
  <2> QED
    BY <1>4, <1>7, <2>1, ContinuesOne
<1> QED
  BY <1>6, <1>8 DEF k

LEMMA UpdateTurns ==
  ASSUME Inv, NEW c \in Calls, calls[c].row \in Rows, NEW held, NEW from, Updates(c, held, from)
  PROVE  \A r \in Rows : Turned(rows[r], rows'[r], alerts[AlertName(r)], FALSE)
<1> DEFINE k == calls[c]
           r0 == k.row
           rs == Followed(rows, rows, alerts, FALSE, loading, FALSE)
           bad == Stale(k, from) \/ (Blind(k) /\ server'[k.name] = None)
           m == rs[r0].muddled \/ bad
           on == [rs EXCEPT ![r0].muddled = m]
<1>1. rows' = on
  BY DEF Updates
<1>2. rows \in [Rows -> RowState] /\ alerts \in AlertsByName /\ r0 \in Rows
  BY DEF Inv, TypeOK
<1>3. Follows(rows, rs) /\ AllTurned(rows, rs, alerts, FALSE)
  BY <1>2, FollowedKeeps, FollowedTurns
<1>4. rs \in [Rows -> RowState]
  BY <1>3 DEF Follows
<1>5. m \in BOOLEAN
  <2>1. rs[r0].muddled \in BOOLEAN
    BY <1>2, <1>4 DEF RowState
  <2> HIDE DEF bad
  <2> QED
    BY <2>1
<1> HIDE DEF rs, m, r0
<1>6. Muddles(rs, r0, m, on)
  BY <1>2, <1>4, <1>5, MuddledSame
<1> HIDE DEF on
<1>7. \A r \in Rows : rows'[r].enabled = rs[r].enabled
  BY <1>1, <1>6 DEF Muddles
<1> QED
  BY <1>3, <1>7 DEF AllTurned, Turned

LEMMA StoredOn ==
  ASSUME NEW row
  PROVE  Stored(row, "on") = "on" /\ "on" # None
BY CardRowsAssumption DEF Stored

\* What is true of a row whose own call takes a step.
LEMMA OwnCall ==
  ASSUME TruthInv, NEW c \in Calls, calls[c].pc # "idle", NEW r \in Rows, calls[c].row = r, Watched(r)
  PROVE  /\ Foretold(rows[r], calls[c], InService(r))
         /\ calls[c].mount = rows[r].mount /\ (\A d \in Calls : Own(d, r) => d = c)
         /\ calls[c].name = EventName(r) /\ AlertName(r) = EventName(r)
         /\ OnceTraits(rows[r].is) \/ (rows[r].is = DirectPushRow /\ Sees(r))
         /\ rows[r].is.follows = "once" => OnceTraits(rows[r].is)
         /\ rows[r] \in RowState /\ Own(c, r)
<1>1. Own(c, r) /\ Inv
  BY DEF Own, TruthInv
<1>2. Plain(r) /\ ~rows[r].muddled /\ ~rows[r].ref /\ rows[r].is.follows # "pairs"
  BY DEF Watched, Plain, Confused
<1>3. Foretold(rows[r], calls[c], InService(r))
  BY <1>1 DEF TruthInv, Truth, Kept
<1>4. calls[c].mount = rows[r].mount /\ \A d \in Calls : Own(d, r) => d = c
  BY <1>1, <1>2 DEF TruthInv, Truth, OneCall
<1>5. calls[c].name = EventName(r)
  BY <1>2 DEF TruthInv, Truth, Named
<1>6. AlertName(r) = EventName(r)
  BY <1>2 DEF AlertName
<1>7. rows[r] \in RowState /\ rows[r].is \in {RowOf[t] : t \in DOMAIN RowOf}
  BY <1>1 DEF Inv, TypeOK, RowState
<1>8. rows[r].is.follows = "once" => OnceTraits(rows[r].is)
  BY <1>7, OnceKinds
<1>9. rows[r].is.follows = "alerts" => rows[r].is = DirectPushRow
  BY <1>7, AlertsKinds
<1> QED
  BY <1>1, <1>3, <1>4, <1>5, <1>6, <1>7, <1>8, <1>9 DEF Watched

LEMMA OwnUpdate ==
  ASSUME TruthInv, Grows, NEW c \in Calls, Update(c), NEW held, NEW from, Updates(c, held, from),
         NEW r \in Rows, calls[c].row = r, Watched(r)'
  PROVE  /\ (\A d \in Calls : ~Own(d, r)') => rows'[r].enabled = InService(r)'
         /\ \A d \in Calls : Own(d, r)' => Foretold(rows[r], calls[d], InService(r))'
<1> DEFINE k == calls[c]
           N == EventName(r)
<1>1. ~canary /\ canary' = canary /\ k.pc = "request" /\ server' \in Written(k) /\ Inv
  BY DEF Update, TruthInv
<1>2. Watched(r) /\ Plain(r)' /\ N \in Names
  BY <1>1, PlainBack, NamesAre DEF Watched
<1>3. /\ Foretold(rows[r], k, InService(r)) /\ Own(c, r)
      /\ k.mount = rows[r].mount /\ (\A d \in Calls : Own(d, r) => d = c)
      /\ k.name = N /\ (OnceTraits(rows[r].is) \/ rows[r].is = DirectPushRow)
      /\ rows[r].is.follows = "once" => OnceTraits(rows[r].is)
  BY <1>1, <1>2, OwnCall
<1>4. k.data[N] = server[N]
  <2>1. Sees(r)
    BY <1>1, <1>2 DEF Watched, Sees
  <2> QED
    BY <1>1, <1>3, <2>1 DEF TruthInv, Truth, Known, Agrees, Owners
<1>5. server \in AlertsByName
  BY <1>1 DEF Inv, TypeOK
<1>6. /\ Continues /\ SameCall(k, calls'[c]) /\ calls'[c].pc \in {"read", "render"}
      /\ \A d \in Calls : d # c => calls'[d] = calls[d]
  BY <1>1, UpdateMoves
<1>7. /\ rows[r].is.deps = {} => rows'[r].enabled = rows[r].enabled
      /\ ~(Blind(k) /\ server'[k.name] = None)
  <2>1. ~rows'[r].muddled
    BY <1>2 DEF Plain
  <2> QED
    BY <1>1, <2>1, UpdateRows
<1>8. InService(r)' = (server'[N] # None) /\ InService(r) = (server[N] # None)
  BY DEF InService, EventName
<1>9. \/ k.op = "subscribe" /\ k.option = "on" /\ server[N] = None
      \/ k.op = "unsubscribe" /\ k.option = None /\ server[N] # None
  BY <1>1, <1>3, <1>8 DEF Foretold, Before
<1> HIDE DEF k, N
<1>10. Without(k)[N] = None
  <2>1. Without(k) = IF k.data[k.name] = None THEN server ELSE [server EXCEPT ![k.name] = None]
    BY WithoutIs
  <2>2. k.name = N
    BY <1>3
  <2>3. [server EXCEPT ![N] = None][N] = None
    BY <1>2, <1>5 DEF AlertsByName
  <2> QED
    BY <1>4, <2>1, <2>2, <2>3
<1>11. \/ k.op = "subscribe" /\ InService(r)' = FALSE /\ server'[N] = None
       \/ k.op = "subscribe" /\ InService(r)' = TRUE
       \/ k.op = "unsubscribe" /\ InService(r)' = FALSE
  <2>1. CASE k.op = "subscribe" /\ k.option = "on"
    BY <1>8, <2>1
  <2>2. CASE k.op = "unsubscribe" /\ k.option = None
    <3>1. server' = Without(k)
      BY <1>1, <2>2, WrittenIs
    <3>2. server'[N] = None
      BY <1>10, <3>1
    <3> QED
      BY <1>8, <2>2, <3>2
  <2> QED
    BY <1>9, <2>1, <2>2
<1>12. ~InService(r)' => k.op = "unsubscribe" \/ rows[r].is.subscribed = "check"
  <2> SUFFICES ASSUME ~InService(r)', k.op # "unsubscribe" PROVE rows[r].is.subscribed = "check"
    OBVIOUS
  <2>1. k.op = "subscribe" /\ server'[N] = None
    BY <1>9, <1>8
  <2>2. rows[r].is.subscribed # "on"
    <3>1. k.row = r
      BY DEF k
    <3> QED
      BY <1>3, <1>7, <2>1, <3>1 DEF Blind
  <2> QED
    BY <1>3, <2>2, DirectPushKind DEF OnceTraits
<1>13. rows[r].is.follows = "once" => rows'[r].enabled = Shown(rows[r], k.op)
  BY <1>1, <1>3, <1>7 DEF Foretold, OnceTraits, Before
<1>14. Own(c, r)' /\ \A d \in Calls : Own(d, r)' => d = c
  <2>1. calls'[c].row = r
    BY <1>6 DEF SameCall, k
  <2> QED
    BY <1>3, <1>6, <2>1 DEF Own
<1>15. rows'[r].is = rows[r].is
  BY DEF Grows
<1>16. calls'[c].op = k.op /\ calls'[c].option = k.option
  BY <1>6 DEF SameCall
<1>17. Foretold(rows[r], calls[c], InService(r))'
  BY <1>1, <1>6, <1>9, <1>11, <1>12, <1>13, <1>15, <1>16 DEF Foretold, Shown, Before
<1> QED
  BY <1>14, <1>17

LEMMA UpdateTruth ==
  ASSUME TruthInv, Inv', NEW c \in Calls, Update(c)
  PROVE  TruthInv'
<1> DEFINE k == calls[c]
<1>1. /\ UNCHANGED <<canary, alerts, overlap>> /\ ~canary /\ k.pc = "request" /\ server' \in Written(k)
  BY DEF Update
<1>2. /\ Inv /\ rows \in [Rows -> RowState] /\ k \in CallRecord /\ k.row \in Rows
      /\ k.name[1] = k.row
  BY <1>1 DEF TruthInv, Inv, TypeOK, CallsHaveRows, Truth, Named
<1>3. PICK held, from : Updates(c, held, from)
  BY UpdateDoes
<1>4. /\ Continues /\ SameCall(k, calls'[c]) /\ calls'[c].pc \in {"read", "render"}
      /\ \A d \in Calls : d # c => calls'[d] = calls[d]
  BY <1>2, <1>3, UpdateMoves
<1>5. /\ RowsSame
      /\ \A r \in Rows : r # k.row => rows'[r].muddled = rows[r].muddled
      /\ rows'[k.row].muddled =
              (rows[k.row].muddled \/ Stale(k, from) \/ (Blind(k) /\ server'[k.name] = None))
  BY <1>2, <1>3, UpdateRows
<1>6. \A r \in Rows : Turned(rows[r], rows'[r], alerts[AlertName(r)], FALSE)
  BY <1>2, <1>3, UpdateTurns
<1>7. \A r \in Rows : /\ rows'[r].is = rows[r].is /\ rows'[r].ref = rows[r].ref
                      /\ rows[r].muddled = TRUE => rows'[r].muddled = TRUE
                      /\ rows'[r].mount = rows[r].mount
  BY <1>5 DEF RowsSame, Same
<1>8. Grows
  BY <1>1, <1>2, <1>5, <1>7, GrowsRows DEF RowsSame
<1>9. server' \in Outcomes(k)
  BY <1>1 DEF Outcomes
<1>10. /\ \A r \in Rows : r # k.row /\ Plain(r) => server'[EventName(r)] = server[EventName(r)]
       /\ \A n \in Names : rows[n[1]].is = DirectPushRow /\ server'[n] # None => n = EventName(n[1])
       /\ \A n \in Names : n # k.name => server'[n] = server[n]
  BY <1>1, <1>9, WritesOnly
<1>11. ASSUME NEW r \in Rows PROVE Known(r)'
  <2> DEFINE n == EventName(r)
  <2>1. n \in Names
    BY NamesAre
  <2>2. PICK S \in SUBSET Calls : S = Owners(r)
    BY DEF Owners
  <2>3. Sees(r)' => Agrees(n, S) /\ Plain(r) /\ ~rows'[r].muddled
    BY <1>2, <1>8, <2>2, PlainBack DEF TruthInv, Truth, Known, Sees, Plain
  <2>4. Sees(r)' => \/ server'[n] = server[n] /\ (c \in S \/ k.name # n)
                    \/ c \in S /\ k.name = n /\ ~Stale(k, from) /\ \A d \in S : d = c \/ calls[d].pc = "idle"
    <3>1. CASE r # k.row
      BY <1>2, <1>10, <2>3, <3>1, EventNames
    <3>2. ASSUME r = k.row, Sees(r)'
          PROVE  c \in S /\ k.name = n /\ ~Stale(k, from) /\ \A d \in S : d = c \/ calls[d].pc = "idle"
      <4>1. ~rows[r].muddled /\ ~rows[r].ref /\ rows[r].is.follows # "pairs"
        BY <2>3, <3>2 DEF Plain, Confused
      <4>2. Own(c, r)
        BY <1>1, <3>2 DEF Own
      <4>3. k.name = n
        BY <3>2, <4>1, <4>2 DEF TruthInv, Truth, Named, Own
      <4>4. \A d \in S : d = c
        BY <2>2, <4>1, <4>2 DEF TruthInv, Truth, OneCall, Owners
      <4>5. ~Stale(k, from)
        BY <1>5, <2>3, <3>2
      <4> QED
        BY <2>2, <4>2, <4>3, <4>4, <4>5 DEF Owners
    <3> QED
      BY <3>1, <3>2
  <2> HIDE DEF n
  <2>5. Sees(r)' => Agrees(n, S)'
    BY <1>2, <1>3, <2>1, <2>3, <2>4, AgreesUpdate
  <2> QED
    BY <1>2, <1>4, <1>8, <2>1, <2>2, <2>5, KnownStays DEF n
<1>12. ASSUME NEW r \in Rows PROVE Kept(r)'
  <2>1. CASE r # k.row
    <3>1. Watched(r)' => Plain(r)
      BY <1>2, <1>8, PlainBack DEF Watched
    <3>2. Turned(rows[r], rows'[r], alerts'[AlertName(r)], TRUE)
      BY <1>1, <1>6 DEF Turned
    <3>3. \A d \in Calls : Own(d, r) => calls'[d] = calls[d] /\ calls'[d].pc # "idle"
      BY <1>4, <2>1 DEF Own
    <3>4. Watched(r)' => Elsewhere(r)
      BY <1>1, <1>10, <2>1, <3>1, <3>2, <3>3 DEF Elsewhere
    <3> QED
      BY <1>4, <1>8, <1>11, <3>4, KeptElsewhere
  <2>2. CASE r = k.row
    <3>1. Watched(r)' => /\ (\A d \in Calls : ~Own(d, r)') => rows'[r].enabled = InService(r)'
                         /\ \A d \in Calls : Own(d, r)' => Foretold(rows[r], calls[d], InService(r))'
      BY <1>3, <1>8, <2>2, OwnUpdate
    <3> QED
      BY <3>1 DEF Kept
  <2> QED
    BY <2>1, <2>2
<1>13. Orderly'
  <2>1. PICK S \in SUBSET Calls : S = InFlight
    BY DEF InFlight
  <2>2. ASSUME ~overlap', \A r \in Rows : ~rows'[r].muddled, NEW n \in Names
        PROVE  Agrees(n, S)'
    <3>1. Agrees(n, S)
      BY <1>1, <1>7, <2>1, <2>2, <1>2 DEF TruthInv, Truth, Orderly, RowState
    <3>2. c \in S /\ (\A d \in S : d = c) /\ ~Stale(k, from)
      BY <1>1, <1>2, <1>5, <2>1, <2>2 DEF TruthInv, Truth, Alone, InFlight
    <3> HIDE DEF k
    <3>3. \/ server'[n] = server[n] /\ (c \in S \/ calls[c].name # n)
          \/ c \in S /\ calls[c].name = n /\ ~Stale(calls[c], from) /\ \A d \in S : d = c \/ calls[d].pc = "idle"
      BY <1>10, <3>2 DEF k
    <3> QED
      BY <1>2, <1>3, <3>1, <3>3, AgreesUpdate
  <2> QED
    BY <1>2, <1>4, <2>1, <2>2, OrderlyStays
<1>14. FetchOld'
  BY <1>1 DEF FetchOld
<1>15. Unnamed'
  <2>1. \A n \in Names : n[1] \in Rows
    BY DEF Names
  <2> QED
    BY <1>7, <1>10, <2>1 DEF Unnamed, EventName
<1> QED
  BY <1>1, <1>4, <1>7, <1>8, <1>11, <1>12, <1>13, <1>14, <1>15, TruthAgain
\* The answer to a call that its row waits for shows what the service has.
LEMMA AnsweredTells ==
  ASSUME NEW row0 \in RowState, NEW k \in CallRecord, NEW on \in BOOLEAN, row0.mount = k.mount,
         OnceTraits(row0.is) \/ row0.is = DirectPushRow,
         \/ k.op = "subscribe" /\ (on \/ row0.is.subscribed = "check")
         \/ k.op = "unsubscribe" /\ ~on,
         OnceTraits(row0.is) => row0.enabled = Shown(row0, k.op)
  PROVE  Then(row0, k, TRUE, on).enabled = on
<1>1. Then(row0, k, TRUE, on) = Answered(row0, k, on)
  BY DEF Then
<1>2. CASE k.op = "subscribe"
  <2> DEFINE what == IF row0.is.subscribed # "check" THEN row0.is.subscribed
                     ELSE IF on THEN "keep" ELSE "off"
  <2>1. Answered(row0, k, on) = Shows(row0, what)
    BY <1>2 DEF Answered
  <2>2. Shows(row0, what).enabled = IF what = "keep" THEN row0.enabled ELSE (what = "on")
    BY ShowsKeeps
  <2>3. CASE row0.is.subscribed = "check"
    <3>1. OnceTraits(row0.is)
      BY <2>3, DirectPushKind
    <3>2. row0.enabled = TRUE
      BY <1>2, <2>3, <3>1 DEF OnceTraits, Shown
    <3>3. CASE on
      <4>1. what = "keep"
        BY <2>3, <3>3
      <4> HIDE DEF what
      <4> QED
        BY <1>1, <2>1, <2>2, <3>2, <3>3, <4>1
    <3>4. CASE ~on
      <4>1. what = "off"
        BY <2>3, <3>4
      <4> HIDE DEF what
      <4> QED
        BY <1>1, <2>1, <2>2, <3>4, <4>1
    <3> QED
      BY <3>3, <3>4
  <2>4. CASE row0.is.subscribed # "check"
    <3>1. row0.is.subscribed = "on" /\ on = TRUE
      BY <1>2, <2>4, DirectPushKind DEF OnceTraits
    <3>2. what = "on"
      BY <3>1
    <3> HIDE DEF what
    <3> QED
      BY <1>1, <2>1, <2>2, <3>1, <3>2
  <2> QED
    BY <2>3, <2>4
<1>3. CASE k.op = "unsubscribe" /\ ~on
  <2> DEFINE what == IF row0.is.unsubscribed # "check" THEN row0.is.unsubscribed
                     ELSE IF on /\ ~canary THEN "on" ELSE "keep"
             a == Shows(row0, what)
  <2>1. Answered(row0, k, on) = [a EXCEPT !.typed = FALSE]
    BY <1>3 DEF Answered
  <2>2. Same(row0, a) /\ a.enabled = IF what = "keep" THEN row0.enabled ELSE (what = "on")
    BY ShowsKeeps
  <2>3. (what = "keep" /\ OnceTraits(row0.is)) \/ what = "off"
    BY <1>3, DirectPushKind DEF OnceTraits
  <2> HIDE DEF what
  <2>4. OnceTraits(row0.is) => row0.enabled = FALSE
    BY <1>3 DEF OnceTraits, Shown
  <2>5. a.enabled = FALSE
    BY <2>2, <2>3, <2>4
  <2>6. a \in RowState
    BY <2>2 DEF Same
  <2> HIDE DEF a
  <2>7. [a EXCEPT !.typed = FALSE].enabled = a.enabled
    BY <2>6, SameTyped
  <2> QED
    BY <1>1, <1>3, <2>1, <2>5, <2>7
<1> QED
  BY <1>2, <1>3

LEMMA EnsureMoves ==
  ASSUME Inv, NEW c \in Calls, Ensure(c)
  PROVE  /\ Continues
         /\ ~Unfetched(calls[c]) => SameCall(calls[c], calls'[c]) /\ calls'[c].pc = "read"
         /\ \A d \in Calls : d # c => calls'[d] = calls[d]
<1> DEFINE k == calls[c]
           m == [k EXCEPT !.pc = "read"]
           l == IF Unfetched(k) THEN IdleCall ELSE m
<1>1. calls' = [calls EXCEPT ![c] = l] /\ k.pc = "request"
  BY DEF Ensure
<1>2. k \in CallRecord
  BY DEF Inv, TypeOK
<1>3. SameCall(k, m) /\ m.pc = "read"
  <2> HIDE DEF k
  <2> QED
    BY <1>2, Moves
<1> HIDE DEF m
<1>4. /\ l \in CallRecord /\ (l.pc = "idle" \/ SameCall(k, l))
      /\ ~Unfetched(k) => SameCall(k, l) /\ l.pc = "read"
  BY <1>3, IdleType DEF SameCall
<1> HIDE DEF l
<1>5. l.pc = "idle" \/ (calls[c].pc # "idle" /\ SameCall(calls[c], l))
  BY <1>1, <1>4
<1>6. Continues /\ calls'[c] = l /\ \A d \in Calls : d # c => calls'[d] = calls[d]
  BY <1>1, <1>4, <1>5, ContinuesOne
<1> QED
  BY <1>4, <1>6

LEMMA EnsureTurns ==
  ASSUME Inv, NEW c \in Calls, calls[c].row \in Rows, Ensure(c)
  PROVE  \E row0 : Ends(calls[c], TRUE, server'[AlertName(calls[c].row)] # None, alerts, FALSE, rows', row0)
<1> DEFINE k == calls[c]
           r0 == k.row
           found == server'[AlertName(k.row)] # None
<1>1. PICK batched \in BOOLEAN :
        rows' = [Concluded(k, TRUE, found, alerts, FALSE, loading', batched)
                   EXCEPT ![k.row].muddled = @ \/ Unfetched(k)]
  BY DEF Ensure
<1> DEFINE rs == Concluded(k, TRUE, found, alerts, FALSE, loading', batched)
           m == rs[r0].muddled \/ Unfetched(k)
           on == [rs EXCEPT ![r0].muddled = m]
<1>2. rows' = on
  BY <1>1
<1>3. rows \in [Rows -> RowState] /\ alerts \in AlertsByName /\ k \in CallRecord /\ r0 \in Rows
  BY DEF Inv, TypeOK
<1> HIDE DEF found, k
<1>4. Concludes(k, TRUE, found, rs)
  BY <1>3, ConcludedAfter
<1>5. \E row0 : Ends(k, TRUE, found, alerts, FALSE, rs, row0)
  BY <1>3, ConcludedTurns
<1> HIDE DEF rs
<1>6. rs \in [Rows -> RowState]
  BY <1>4 DEF Concludes
<1>7. m \in BOOLEAN
  <2>1. rs[r0].muddled \in BOOLEAN
    BY <1>3, <1>6 DEF RowState
  <2> QED
    BY <2>1
<1> HIDE DEF m
<1>8. \A r \in Rows : on[r].enabled = rs[r].enabled
  <2> HIDE DEF r0
  <2>1. Muddles(rs, r0, m, on)
    BY <1>3, <1>6, <1>7, MuddledSame
  <2> QED
    BY <2>1 DEF Muddles
<1> HIDE DEF on
<1>9. \A r \in Rows : rows'[r].enabled = rs[r].enabled
  BY <1>2, <1>8
<1>10. PICK row0 : Ends(k, TRUE, found, alerts, FALSE, rs, row0)
  BY <1>5
<1>11. Ends(k, TRUE, found, alerts, FALSE, rows', row0)
  BY <1>3, <1>9, <1>10 DEF Ends, Turned
<1> QED
  BY <1>11 DEF k, found

\* The call k and its row, when the service has or has not what it asked for, and the
\* alerts shown tell the same if they have been rendered.
Telling(k, r, on, shown, rendered) ==
  /\ k \in CallRecord /\ k.row = r /\ r \in Rows /\ rows[r].mount = k.mount /\ on \in BOOLEAN
  /\ OnceTraits(rows[r].is) \/ rows[r].is = DirectPushRow
  /\ \/ k.op = "subscribe" /\ (on \/ rows[r].is.subscribed = "check")
     \/ k.op = "unsubscribe" /\ ~on
  /\ OnceTraits(rows[r].is) => rows[r].enabled = Shown(rows[r], k.op)
  /\ rendered => (shown[AlertName(r)] # None) = on

\* The row after the answer, when its effect has nothing new to show.
LEMMA EndsTelling ==
  ASSUME rows \in [Rows -> RowState], NEW k, NEW r, NEW on, NEW shown, NEW rendered, NEW rs, NEW row0,
         Telling(k, r, on, shown, rendered), Ends(k, TRUE, on, shown, rendered, rs, row0)
  PROVE  rs[r].enabled = on
<1>0. /\ k \in CallRecord /\ k.row = r /\ r \in Rows /\ rows[r].mount = k.mount /\ on \in BOOLEAN
      /\ OnceTraits(rows[r].is) \/ rows[r].is = DirectPushRow
      /\ \/ k.op = "subscribe" /\ (on \/ rows[r].is.subscribed = "check")
         \/ k.op = "unsubscribe" /\ ~on
      /\ OnceTraits(rows[r].is) => rows[r].enabled = Shown(rows[r], k.op)
      /\ rendered => (shown[AlertName(r)] # None) = on
  BY DEF Telling
<1>1. /\ Same(rows[r], row0) /\ (rows[r].is.deps = {} => row0 = rows[r])
      /\ Turned(Then(row0, k, TRUE, on), rs[r], shown[AlertName(r)], rendered)
  BY <1>0 DEF Ends
<1>2. row0 \in RowState /\ row0.is = rows[r].is /\ row0.mount = k.mount
  BY <1>0, <1>1 DEF Same
<1>3. OnceTraits(row0.is) => row0.enabled = Shown(row0, k.op)
  BY <1>0, <1>1, <1>2 DEF OnceTraits, Shown
<1>4. Then(row0, k, TRUE, on).enabled = on
  BY <1>0, <1>2, <1>3, AnsweredTells
<1>5. Then(row0, k, TRUE, on).is = row0.is
  <2>1. Same(row0, Then(row0, k, TRUE, on))
    BY <1>0, <1>2, ThenKeeps
  <2> QED
    BY <2>1 DEF Same
<1>6. row0.is.deps = {} \/ row0.is.deps = {"alerts"}
  BY <1>0, <1>2, DirectPushKind DEF OnceTraits
<1> QED
  BY <1>0, <1>1, <1>4, <1>5, <1>6 DEF Turned

LEMMA OwnEnsure ==
  ASSUME TruthInv, Grows, NEW c \in Calls, Ensure(c),
         NEW r \in Rows, calls[c].row = r, Watched(r)'
  PROVE  /\ (\A d \in Calls : ~Own(d, r)') => rows'[r].enabled = InService(r)'
         /\ \A d \in Calls : Own(d, r)' => Foretold(rows[r], calls[d], InService(r))'
<1> DEFINE k == calls[c]
           N == EventName(r)
<1>1. canary /\ canary' = canary /\ k.pc = "request" /\ server' \in Written(k) /\ Inv
  BY DEF Ensure, TruthInv
<1>2. Watched(r) /\ Plain(r) /\ N \in Names
  BY <1>1, PlainBack, NamesAre DEF Watched
<1>3. /\ Foretold(rows[r], k, InService(r)) /\ Own(c, r)
      /\ k.mount = rows[r].mount /\ (\A d \in Calls : Own(d, r) => d = c)
      /\ k.name = N /\ (OnceTraits(rows[r].is) \/ rows[r].is = DirectPushRow)
      /\ AlertName(r) = N
      /\ rows[r].is.follows = "once" => OnceTraits(rows[r].is)
  BY <1>1, <1>2, OwnCall
<1>5. server \in AlertsByName /\ rows \in [Rows -> RowState] /\ k \in CallRecord
  BY <1>1 DEF Inv, TypeOK
<1>8. InService(r)' = (server'[N] # None) /\ InService(r) = (server[N] # None)
  BY DEF InService, EventName
<1>9. /\ \/ k.op = "subscribe" /\ k.option = "on"
         \/ k.op = "unsubscribe" /\ k.option = None
      /\ rows[r].enabled = Shown(rows[r], k.op)
  BY <1>1, <1>3, <1>8 DEF Foretold, Before
<1>10. k.row = r
  OBVIOUS
<1>6. ~Unfetched(k)
  BY <1>9 DEF Unfetched
<1>7. /\ Continues /\ SameCall(k, calls'[c]) /\ calls'[c].pc = "read"
      /\ \A d \in Calls : d # c => calls'[d] = calls[d]
  BY <1>1, <1>6, EnsureMoves
<1>4. PICK row0 : Ends(k, TRUE, server'[N] # None, alerts, FALSE, rows', row0)
  BY <1>1, <1>3, EnsureTurns
<1> HIDE DEF k, N
<1>11. InService(r)' = (k.op = "subscribe")
  <2>1. CASE k.op = "subscribe" /\ k.option = "on"
    <3>1. k.option # None
      BY <2>1, StoredOn
    <3>2. server' = [server EXCEPT ![k.name] = Stored(rows[k.row], k.option)]
      BY <1>1, <3>1, WrittenIs
    <3>3. server'[N] = "on" /\ "on" # None
      BY <1>2, <1>3, <1>5, <2>1, <3>2, StoredOn DEF AlertsByName
    <3> QED
      BY <1>8, <2>1, <3>3
  <2>2. CASE k.op = "unsubscribe" /\ k.option = None
    <3>1. PICK n \in Deleted(k) : server' = [server EXCEPT ![n] = None]
      BY <1>1, <2>2, WrittenIs
    <3>2. n \in Names
      BY <1>2, <1>3, <3>1 DEF Deleted
    <3>3. n = N
      <4>1. CASE rows[r].is = DirectPushRow
        <5>1. server[n] # None /\ rows[n[1]].is \in {DirectPushRow, TradingPairsRow}
          BY <1>10, <2>2, <3>1, <4>1 DEF Deleted
        <5>2. n[1] \in Rows
          BY <3>2 DEF Names
        <5>3. n[1] = r
          BY <1>1, <1>2, <4>1, <5>1, <5>2 DEF Plain, Confused
        <5>4. n = EventName(n[1])
          BY <3>2, <4>1, <5>1, <5>3 DEF TruthInv, Truth, Unnamed
        <5> QED
          BY <5>3, <5>4 DEF N
      <4>2. CASE rows[r].is # DirectPushRow
        BY <1>3, <1>10, <3>1, <4>2 DEF Deleted
      <4> QED
        BY <4>1, <4>2
    <3>4. server'[N] = None
      BY <1>2, <1>5, <3>1, <3>3 DEF AlertsByName
    <3> QED
      BY <1>8, <2>2, <3>4
  <2> QED
    BY <1>9, <2>1, <2>2
<1>12. rows'[r].enabled = InService(r)'
  <2> DEFINE on == server'[N] # None
             rs == rows'
  <2>1. on \in BOOLEAN /\ InService(r)' = on /\ Ends(k, TRUE, on, alerts, FALSE, rs, row0)
    BY <1>4, <1>8
  <2>2. \/ k.op = "subscribe" /\ (on \/ rows[r].is.subscribed = "check")
        \/ k.op = "unsubscribe" /\ ~on
    BY <1>9, <1>11, <2>1
  <2> HIDE DEF on, rs
  <2>4. Telling(k, r, on, alerts, FALSE)
    BY <1>3, <1>5, <1>9, <1>10, <2>1, <2>2 DEF Telling
  <2>3. rs[r].enabled = on
    BY <1>5, <2>1, <2>4, EndsTelling
  <2> QED
    BY <2>1, <2>3 DEF rs
<1>14. Own(c, r)' /\ \A d \in Calls : Own(d, r)' => d = c
  <2>1. calls'[c].row = r
    BY <1>7, <1>10 DEF SameCall
  <2> QED
    BY <1>3, <1>7, <2>1 DEF Own
<1>16. calls'[c].op = k.op /\ calls'[c].option = k.option
  BY <1>7 DEF SameCall
<1>17. Foretold(rows[r], calls[c], InService(r))'
  BY <1>1, <1>7, <1>9, <1>12, <1>16 DEF Foretold, Before
<1> QED
  BY <1>14, <1>17

LEMMA EnsureTruth ==
  ASSUME TruthInv, Inv', NEW c \in Calls, Ensure(c)
  PROVE  TruthInv'
<1> DEFINE k == calls[c]
<1>1. /\ UNCHANGED <<canary, alerts, fetch, overlap>> /\ canary /\ k.pc = "request"
      /\ server' \in Written(k)
  BY DEF Ensure
<1>2. /\ Inv /\ rows \in [Rows -> RowState] /\ k \in CallRecord /\ k.row \in Rows
      /\ k.name[1] = k.row /\ fetch.state = "old"
  BY <1>1 DEF TruthInv, Inv, TypeOK, CallsHaveRows, Truth, Named, FetchOld
<1>4. /\ Continues
      /\ ~Unfetched(k) => SameCall(k, calls'[c]) /\ calls'[c].pc = "read"
      /\ \A d \in Calls : d # c => calls'[d] = calls[d]
  BY <1>2, EnsureMoves
<1>5. /\ RowsSettle(k)
      /\ \A r \in Rows : r # k.row => rows'[r].muddled = rows[r].muddled
      /\ rows'[k.row].muddled = (rows[k.row].muddled \/ Unfetched(k))
  BY <1>2, EnsureRows
<1>6. \A r \in Rows : r # k.row => Turned(rows[r], rows'[r], alerts[AlertName(r)], FALSE)
  BY <1>2, EnsureTurns DEF Ends
<1>7. \A r \in Rows : /\ rows'[r].is = rows[r].is /\ rows'[r].ref = rows[r].ref
                      /\ rows[r].muddled = TRUE => rows'[r].muddled = TRUE
                      /\ rows'[r].mount = rows[r].mount
  BY <1>5 DEF RowsSettle, After, Same
<1>8. Grows
  BY <1>1, <1>2, <1>5, <1>7, GrowsRows DEF RowsSettle
<1>9. server' \in Outcomes(k)
  BY <1>1 DEF Outcomes
<1>10. /\ \A r \in Rows : r # k.row /\ Plain(r) => server'[EventName(r)] = server[EventName(r)]
       /\ \A n \in Names : rows[n[1]].is = DirectPushRow /\ server'[n] # None => n = EventName(n[1])
  BY <1>1, <1>9, WritesOnly
<1>3. ~overlap => \A d \in Calls : d = c \/ calls[d].pc = "idle"
  BY <1>1 DEF TruthInv, Truth, Alone
<1>11. ASSUME NEW r \in Rows PROVE Known(r)'
  <2> DEFINE n == EventName(r)
  <2>1. n \in Names
    BY NamesAre
  <2>2. PICK S \in SUBSET Calls : S = Owners(r)
    BY DEF Owners
  <2>3. Sees(r)' => Agrees(n, S) /\ Plain(r) /\ ~rows'[r].muddled /\ ~overlap
    BY <1>1, <1>2, <1>8, <2>2, PlainBack DEF TruthInv, Truth, Known, Sees, Plain
  <2>4. Sees(r)' => \/ server'[n] = server[n] /\ k.pc # "idle"
                    \/ c \in S /\ ~Unfetched(k) /\ \A d \in Calls : d = c \/ calls[d].pc = "idle"
    <3>1. CASE r # k.row
      BY <1>1, <1>10, <2>3, <3>1
    <3>2. CASE r = k.row
      BY <1>1, <1>3, <1>5, <2>2, <2>3, <3>2 DEF Owners, Own
    <3> QED
      BY <3>1, <3>2
  <2> HIDE DEF n
  <2>5. Sees(r)' => Agrees(n, S)'
    BY <1>2, <2>1, <2>3, <2>4, AgreesEnsure
  <2> QED
    BY <1>2, <1>4, <1>8, <2>1, <2>2, <2>5, KnownStays DEF n
<1>12. ASSUME NEW r \in Rows PROVE Kept(r)'
  <2>1. CASE r # k.row
    <3>1. Watched(r)' => Plain(r)
      BY <1>2, <1>8, PlainBack DEF Watched
    <3>2. Turned(rows[r], rows'[r], alerts'[AlertName(r)], TRUE)
      BY <1>1, <1>6, <2>1 DEF Turned
    <3>3. \A d \in Calls : Own(d, r) => d # c /\ calls'[d] = calls[d] /\ calls'[d].pc # "idle"
      BY <1>4, <2>1 DEF Own
    <3>4. \A d \in Calls : Own(d, r) => ~Sees(r)
      BY <1>1, <1>3, <3>3 DEF Sees
    <3>5. Watched(r)' => Elsewhere(r)
      BY <1>1, <1>10, <2>1, <3>1, <3>2, <3>3, <3>4 DEF Elsewhere
    <3> QED
      BY <1>4, <1>8, <1>11, <3>5, KeptElsewhere
  <2>2. CASE r = k.row
    <3>1. Watched(r)' => /\ (\A d \in Calls : ~Own(d, r)') => rows'[r].enabled = InService(r)'
                         /\ \A d \in Calls : Own(d, r)' => Foretold(rows[r], calls[d], InService(r))'
      BY <1>8, <2>2, OwnEnsure
    <3> QED
      BY <3>1 DEF Kept
  <2> QED
    BY <2>1, <2>2
<1>13. Orderly'
  <2>1. PICK S \in SUBSET Calls : S = InFlight
    BY DEF InFlight
  <2>2. ASSUME ~overlap', \A r \in Rows : ~rows'[r].muddled, NEW n \in Names
        PROVE  Agrees(n, S)'
    <3>1. Agrees(n, S)
      BY <1>1, <1>7, <2>1, <2>2, <1>2 DEF TruthInv, Truth, Orderly, RowState
    <3>2. c \in S /\ (\A d \in Calls : d = c \/ calls[d].pc = "idle") /\ ~Unfetched(k)
      BY <1>1, <1>2, <1>3, <1>5, <2>1, <2>2 DEF InFlight
    <3> HIDE DEF k
    <3>3. c \in S /\ ~Unfetched(calls[c]) /\ \A d \in Calls : d = c \/ calls[d].pc = "idle"
      BY <3>2 DEF k
    <3> QED
      BY <1>2, <3>1, <3>3, AgreesEnsure
  <2> QED
    BY <1>2, <1>4, <2>1, <2>2, OrderlyStays
<1>14. FetchOld'
  BY <1>1, <1>2 DEF FetchOld
<1>15. Unnamed'
  <2>1. \A n \in Names : n[1] \in Rows
    BY DEF Names
  <2> QED
    BY <1>7, <1>10, <2>1 DEF Unnamed, EventName
<1> QED
  BY <1>1, <1>4, <1>7, <1>8, <1>11, <1>12, <1>13, <1>14, <1>15, TruthAgain
\* The end of a call leaves the other calls.
LEMMA EndsCall ==
  ASSUME Inv, NEW c \in Calls, calls' = [calls EXCEPT ![c] = IdleCall]
  PROVE  Continues /\ calls'[c].pc = "idle" /\ \A d \in Calls : d # c => calls'[d] = calls[d]
BY IdleType, ContinuesOne

\* The rows when an answer is rendered.
LEMMA RenderRows ==
  ASSUME Inv, NEW c \in Calls, calls[c].row \in Rows, Render(c)
  PROVE  LET k == calls[c]
             found == k.data[AlertName(k.row)] # None
         IN
         /\ rows' \in [Rows -> RowState]
         /\ \A r \in Rows : /\ rows'[r].is = rows[r].is /\ rows'[r].ref = rows[r].ref
                            /\ rows'[r].muddled = rows[r].muddled /\ rows'[r].mount = rows[r].mount
                            /\ canary \/ r # k.row =>
                                 Turned(rows[r], rows'[r], k.data[AlertName(r)], TRUE)
         /\ ~canary => \E row0 : Ends(k, TRUE, found, k.data, TRUE, rows', row0)
<1> DEFINE k == calls[c]
           found == k.data[AlertName(k.row)] # None
<1>1. rows \in [Rows -> RowState] /\ k \in CallRecord /\ k.data \in AlertsByName /\ k.row \in Rows
  BY DEF Inv, TypeOK, CallRecord
<1>2. CASE canary
  <2>1. rows' = Followed(rows, rows, k.data, TRUE, loading, loading)
    BY <1>2 DEF Render
  <2> HIDE DEF k, found
  <2>2. Follows(rows, rows') /\ AllTurned(rows, rows', k.data, TRUE)
    BY <1>1, <2>1, FollowedKeeps, FollowedTurns
  <2> QED
    BY <1>2, <2>2 DEF Follows, AllTurned, Same, k
<1>3. CASE ~canary
  <2>1. PICK batched \in BOOLEAN :
          rows' = Concluded(k, TRUE, found, k.data, TRUE, loading', batched)
    BY <1>3 DEF Render
  <2> HIDE DEF k, found
  <2>2. Concludes(k, TRUE, found, rows')
    BY <1>1, <2>1, ConcludedAfter
  <2>3. \E row0 : Ends(k, TRUE, found, k.data, TRUE, rows', row0)
    BY <1>1, <2>1, ConcludedTurns
  <2>4. \A r \in Rows : r # k.row => Turned(rows[r], rows'[r], k.data[AlertName(r)], TRUE)
    BY <2>3 DEF Ends
  <2>5. /\ rows' \in [Rows -> RowState]
        /\ \A r \in Rows : /\ rows'[r].is = rows[r].is /\ rows'[r].ref = rows[r].ref
                           /\ rows'[r].muddled = rows[r].muddled /\ rows'[r].mount = rows[r].mount
    BY <2>2 DEF Concludes, After, Same
  <2> QED
    BY <1>3, <2>3, <2>4, <2>5 DEF k, found
<1> QED
  BY <1>2, <1>3

LEMMA OwnRender ==
  ASSUME TruthInv, Grows, NEW c \in Calls, Render(c),
         NEW r \in Rows, calls[c].row = r, Watched(r)'
  PROVE  /\ (\A d \in Calls : ~Own(d, r)') => rows'[r].enabled = InService(r)'
         /\ \A d \in Calls : Own(d, r)' => Foretold(rows[r], calls[d], InService(r))'
<1> DEFINE k == calls[c]
           N == EventName(r)
<1>1. /\ canary' = canary /\ k.pc = "render" /\ server' = server /\ Inv
      /\ calls' = [calls EXCEPT ![c] = IdleCall]
  BY DEF Render, TruthInv
<1>2. Watched(r) /\ Plain(r) /\ N \in Names
  BY <1>1, PlainBack, NamesAre DEF Watched
<1>3. /\ Foretold(rows[r], k, InService(r)) /\ Own(c, r)
      /\ k.mount = rows[r].mount /\ (\A d \in Calls : Own(d, r) => d = c)
      /\ (OnceTraits(rows[r].is) \/ (rows[r].is = DirectPushRow /\ Sees(r)))
      /\ AlertName(r) = N
      /\ rows[r].is.follows = "once" => OnceTraits(rows[r].is)
  BY <1>1, <1>2, OwnCall
<1>4. Sees(r) => k.data[N] = server[N]
  BY <1>1 DEF TruthInv, Truth, Known, Agrees
<1>5. rows \in [Rows -> RowState] /\ k \in CallRecord
  BY <1>1 DEF Inv, TypeOK
<1>6. \A d \in Calls : ~Own(d, r)'
  <2>1. \A d \in Calls : Own(d, r)' => Own(d, r) /\ d # c
    BY <1>1, EndsCall, OwnBack DEF Own
  <2> QED
    BY <1>3, <2>1
<1>7. InService(r)' = InService(r) /\ InService(r) = (server[N] # None)
  BY <1>1 DEF InService, EventName
<1>8. \A q \in Rows : canary => Turned(rows[q], rows'[q], k.data[AlertName(q)], TRUE)
  BY <1>1, <1>3, RenderRows
<1>9. CASE canary
  <2>1. rows[r].enabled = InService(r)
    BY <1>1, <1>3, <1>9 DEF Foretold
  <2>2. OnceTraits(rows[r].is) => rows[r].is.deps = {}
    BY DEF OnceTraits
  <2> QED
    BY <1>3, <1>4, <1>6, <1>7, <1>8, <1>9, <2>1, <2>2 DEF Turned
<1>10. CASE ~canary
  <2>1. PICK row0 : Ends(k, TRUE, k.data[N] # None, k.data, TRUE, rows', row0)
    BY <1>1, <1>3, <1>10, RenderRows
  <2>2. Sees(r)
    BY <1>2, <1>10 DEF Sees
  <2>3. (k.data[N] # None) = InService(r)
    BY <1>4, <1>7, <2>2
  <2> DEFINE on == k.data[N] # None
             rs == rows'
  <2>4. on \in BOOLEAN /\ Ends(k, TRUE, on, k.data, TRUE, rs, row0) /\ on = InService(r)
    BY <2>1, <2>3
  <2>5. k.row = r
    OBVIOUS
  <2>6. (k.data[AlertName(r)] # None) = on
    BY <1>3
  <2> HIDE DEF on, rs, k
  <2>7. OnceTraits(rows[r].is) => rows[r].is.follows = "once" \/ rows[r].is.follows = "alerts"
    BY <1>2 DEF Watched
  <2>8. OnceTraits(rows[r].is) => rows[r].enabled = Shown(rows[r], k.op)
    <3>1. OnceTraits(rows[r].is) => rows[r].is.follows # "alerts"
      <4>1. rows[r].is \in {RowOf[t] : t \in DOMAIN RowOf}
        BY <1>5 DEF RowState
      <4> QED
        BY <4>1, AlertsKinds, DirectPushKind DEF OnceTraits
    <3> QED
      BY <1>1, <1>3, <1>10, <2>7, <3>1 DEF Foretold, k
  <2>9. \/ k.op = "subscribe" /\ (on \/ rows[r].is.subscribed = "check")
        \/ k.op = "unsubscribe" /\ ~on
    BY <1>1, <1>3, <1>10, <2>4 DEF Foretold, k
  <2>10. Telling(k, r, on, k.data, TRUE)
    BY <1>3, <1>5, <2>4, <2>5, <2>6, <2>8, <2>9 DEF Telling, k
  <2>11. rs[r].enabled = on
    BY <1>5, <2>4, <2>10, EndsTelling
  <2> QED
    BY <1>6, <1>7, <2>4, <2>11 DEF rs
<1> QED
  BY <1>9, <1>10

LEMMA RenderTruth ==
  ASSUME TruthInv, Inv', NEW c \in Calls, Render(c)
  PROVE  TruthInv'
<1> DEFINE k == calls[c]
<1>1. /\ UNCHANGED <<canary, server, fetch, overlap>> /\ alerts' = k.data /\ k.pc = "render"
      /\ calls' = [calls EXCEPT ![c] = IdleCall]
  BY DEF Render
<1>2. Inv /\ rows \in [Rows -> RowState] /\ k.row \in Rows
  BY <1>1 DEF TruthInv, Inv, TypeOK, CallsHaveRows
<1>3. Continues /\ calls'[c].pc = "idle" /\ \A d \in Calls : d # c => calls'[d] = calls[d]
  BY <1>1, <1>2, EndsCall
<1>4. /\ rows' \in [Rows -> RowState]
      /\ \A r \in Rows : /\ rows'[r].is = rows[r].is /\ rows'[r].ref = rows[r].ref
                         /\ rows'[r].muddled = rows[r].muddled /\ rows'[r].mount = rows[r].mount
                         /\ canary \/ r # k.row =>
                                 Turned(rows[r], rows'[r], k.data[AlertName(r)], TRUE)
  BY <1>2, RenderRows
<1>5. Grows
  BY <1>1, <1>2, <1>4, GrowsRows
<1>6. ASSUME NEW r \in Rows PROVE Known(r)'
  <2> DEFINE n == EventName(r)
  <2>1. n \in Names
    BY NamesAre
  <2>2. PICK S \in SUBSET Calls : S = Owners(r)
    BY DEF Owners
  <2>3. Sees(r)' => Agrees(n, S)
    BY <1>2, <1>5, <2>2, PlainBack DEF TruthInv, Truth, Known
  <2> HIDE DEF n
  <2>4. Agrees(n, S) => Agrees(n, S)'
    BY <1>2, <2>1, AgreesRender
  <2> QED
    BY <1>2, <1>3, <1>5, <2>1, <2>2, <2>3, <2>4, KnownStays DEF n
<1>7. ASSUME NEW r \in Rows PROVE Kept(r)'
  <2>1. CASE r # k.row
    <3>1. Turned(rows[r], rows'[r], alerts'[AlertName(r)], TRUE)
      BY <1>1, <1>4, <2>1
    <3>2. \A d \in Calls : Own(d, r) => d # c /\ calls'[d] = calls[d] /\ calls'[d].pc # "idle"
      BY <1>3, <2>1 DEF Own
    <3>3. \A d \in Calls : Own(d, r) /\ Sees(r) => ~canary
      BY <1>1, <3>2 DEF Sees, TruthInv, Truth, Alone
    <3>4. Elsewhere(r)
      BY <1>1, <3>1, <3>2, <3>3 DEF Elsewhere
    <3> QED
      BY <1>3, <1>5, <1>6, <3>4, KeptElsewhere
  <2>2. CASE r = k.row
    <3>1. Watched(r)' => /\ (\A d \in Calls : ~Own(d, r)') => rows'[r].enabled = InService(r)'
                         /\ \A d \in Calls : Own(d, r)' => Foretold(rows[r], calls[d], InService(r))'
      BY <1>5, <2>2, OwnRender
    <3> QED
      BY <3>1 DEF Kept
  <2> QED
    BY <2>1, <2>2
<1>8. Orderly'
  <2>1. PICK S \in SUBSET Calls : S = InFlight
    BY DEF InFlight
  <2>2. ~overlap' /\ (\A r \in Rows : ~rows'[r].muddled) => \A n \in Names : Agrees(n, S)
    BY <1>1, <1>4, <2>1 DEF TruthInv, Truth, Orderly
  <2>3. \A n \in Names : Agrees(n, S) => Agrees(n, S)'
    BY <1>2, AgreesRender
  <2> QED
    BY <1>2, <1>3, <2>1, <2>2, <2>3, OrderlyStays
<1>9. FetchOld' /\ Unnamed'
  BY <1>1, <1>5, UnnamedStays DEF FetchOld, TruthInv, Truth
<1> QED
  BY <1>1, <1>3, <1>4, <1>5, <1>6, <1>7, <1>8, <1>9, TruthAgain

\* The other rows after a failure.
LEMMA FailTurns ==
  ASSUME Inv, NEW c \in Calls, calls[c].row \in Rows, Fail(c)
  PROVE  \A r \in Rows : r # calls[c].row => Turned(rows[r], rows'[r], alerts[AlertName(r)], FALSE)
<1> DEFINE k == calls[c]
<1>1. rows \in [Rows -> RowState] /\ k \in CallRecord /\ alerts \in AlertsByName /\ k.row \in Rows
  BY DEF Inv, TypeOK
<1>2. CASE canary /\ k.pc = "read"
  <2>1. rows' = [rows EXCEPT ![k.row].muddled = TRUE]
    BY <1>2 DEF Fail
  <2>2. \A r \in Rows : r # k.row => rows'[r] = rows[r]
    BY <1>1, <2>1
  <2> QED
    BY <2>2 DEF Turned
<1>3. CASE ~(canary /\ k.pc = "read")
  <2>1. PICK batched \in BOOLEAN :
          rows' = Concluded(k, FALSE, FALSE, alerts, FALSE, loading', batched)
    BY <1>3 DEF Fail
  <2> HIDE DEF k
  <2>2. \E row0 : Ends(k, FALSE, FALSE, alerts, FALSE, rows', row0)
    BY <1>1, <2>1, ConcludedTurns
  <2>3. \A r \in Rows : r # k.row => Turned(rows[r], rows'[r], alerts[AlertName(r)], FALSE)
    BY <2>2 DEF Ends
  <2> QED
    BY <2>3 DEF k
<1> QED
  BY <1>2, <1>3

LEMMA FailTruth ==
  ASSUME TruthInv, Inv', NEW c \in Calls, Fail(c)
  PROVE  TruthInv'
<1> DEFINE k == calls[c]
<1>1. /\ UNCHANGED <<canary, alerts, overlap>> /\ calls' = [calls EXCEPT ![c] = IdleCall]
      /\ k.pc \in {"login", "request", "read"}
  BY DEF Fail, FailedFetch
<1>2. /\ Inv /\ rows \in [Rows -> RowState] /\ k.row \in Rows /\ k.name[1] = k.row /\ k.pc # "idle"
      /\ rows' \in [Rows -> RowState]
  BY <1>1 DEF TruthInv, Inv, TypeOK, CallsHaveRows, Truth, Named
<1>3. Continues /\ calls'[c].pc = "idle" /\ \A d \in Calls : d # c => calls'[d] = calls[d]
  BY <1>1, <1>2, EndsCall
<1>4. /\ RowsSettle(k) \/ RowsSame
      /\ rows[k.row].mount = k.mount => rows'[k.row].muddled = TRUE
      /\ rows'[k.row].muddled = FALSE => rows[k.row].muddled = FALSE
      /\ \A r \in Rows : r # k.row => rows'[r].muddled = rows[r].muddled
  BY <1>2, FailRows
<1>5. \A r \in Rows : /\ rows'[r].is = rows[r].is /\ rows'[r].ref = rows[r].ref
                      /\ rows'[r].mount = rows[r].mount
  BY <1>4 DEF RowsSettle, RowsSame, After, Same
<1>6. rows'[k.row].muddled = TRUE
  <2>1. rows[k.row].muddled \in BOOLEAN /\ rows'[k.row].muddled \in BOOLEAN
    BY <1>2 DEF RowState
  <2>2. rows[k.row].muddled = FALSE => rows[k.row].mount = k.mount
    BY <1>2 DEF TruthInv, Truth, OneCall, Own
  <2> QED
    BY <1>4, <2>1, <2>2
<1>7. Grows
  <2>1. \A r \in Rows : rows[r].muddled = TRUE => rows'[r].muddled = TRUE
    BY <1>4, <1>6
  <2> QED
    BY <1>1, <1>2, <1>5, <2>1, GrowsRows
<1>8. server' \in Outcomes(k)
  BY FailLeaves DEF Outcomes
<1>9. /\ \A r \in Rows : r # k.row /\ Plain(r) => server'[EventName(r)] = server[EventName(r)]
      /\ \A n \in Names : rows[n[1]].is = DirectPushRow /\ server'[n] # None => n = EventName(n[1])
  BY <1>2, <1>8, WritesOnly
<1>10. ASSUME NEW r \in Rows PROVE Known(r)'
  <2> DEFINE n == EventName(r)
  <2>1. n \in Names
    BY NamesAre
  <2>2. PICK S \in SUBSET Calls : S = Owners(r)
    BY DEF Owners
  <2>3. Sees(r)' => Agrees(n, S) /\ Plain(r) /\ r # k.row
    BY <1>2, <1>6, <1>7, <2>2, PlainBack DEF TruthInv, Truth, Known, Sees, Plain
  <2>4. Sees(r)' => server'[n] = server[n] /\ c \notin S
    BY <1>9, <2>2, <2>3 DEF Owners, Own
  <2> HIDE DEF n
  <2>5. Sees(r)' => Agrees(n, S)'
    BY <1>2, <2>1, <2>3, <2>4, AgreesFail
  <2> QED
    BY <1>2, <1>3, <1>7, <2>1, <2>2, <2>5, KnownStays DEF n
<1>11. ASSUME NEW r \in Rows PROVE Kept(r)'
  <2>1. CASE r # k.row
    <3>1. Watched(r)' => Plain(r)
      BY <1>2, <1>7, PlainBack DEF Watched
    <3>2. Turned(rows[r], rows'[r], alerts'[AlertName(r)], TRUE)
      BY <1>1, <1>2, <2>1, FailTurns DEF Turned
    <3>3. \A d \in Calls : Own(d, r) => d # c /\ calls'[d] = calls[d] /\ calls'[d].pc # "idle"
      BY <1>3, <2>1 DEF Own
    <3>4. \A d \in Calls : Own(d, r) /\ Sees(r) => ~canary
      BY <1>2, <3>3 DEF Sees, TruthInv, Truth, Alone
    <3>5. Watched(r)' => Elsewhere(r)
      BY <1>9, <2>1, <3>1, <3>2, <3>3, <3>4 DEF Elsewhere
    <3> QED
      BY <1>3, <1>7, <1>10, <3>5, KeptElsewhere
  <2>2. CASE r = k.row
    BY <1>6, <2>2 DEF Kept, Watched, Plain
  <2> QED
    BY <2>1, <2>2
<1>12. Orderly'
  BY <1>2, <1>6 DEF Orderly
<1>13. FetchOld'
  <2>1. canary => fetch' = fetch
    BY FailLeaves
  <2> QED
    BY <1>1, <2>1 DEF FetchOld, TruthInv, Truth
<1>14. Unnamed'
  <2>1. \A n \in Names : n[1] \in Rows
    BY DEF Names
  <2> QED
    BY <1>5, <1>9, <2>1 DEF Unnamed, EventName
<1> QED
  BY <1>1, <1>3, <1>5, <1>7, <1>10, <1>11, <1>12, <1>13, <1>14, TruthAgain
\* A click, as far as the row r knows: the row and the call that it makes.
Clicks(r, row, call) ==
  /\ r \in Rows /\ row \in RowState /\ call \in CallRecord /\ call.row = r
  /\ call.mount = rows[r].mount /\ call.name[1] = r
  /\ row.is = rows[r].is /\ row.ref = rows[r].ref /\ row.mount = rows[r].mount
  /\ row.muddled = rows[r].muddled
  /\ row.is.follows # "pairs" => (row.ref /\ row.is.alertName) \/ call.name = EventName(r)
  /\ Watched(r) /\ (\A d \in Calls : ~Own(d, r)) =>
       /\ \/ call.op = "subscribe" /\ call.option = "on"
          \/ call.op = "unsubscribe" /\ call.option = None
       /\ InService(r) = (call.op = "unsubscribe")
       /\ row.enabled = Shown(row, call.op)

\* What the beginning of a call changes.
Begins(c, r, row, call) ==
  /\ calls[c].pc = "idle" /\ SameCall(call, calls'[c]) /\ calls'[c].pc \in Before
  /\ \A d \in Calls : d # c => calls'[d] = calls[d]
  /\ Same(row, rows'[r]) /\ rows'[r].enabled = row.enabled
  /\ rows'[r].muddled = (row.muddled \/ \E d \in Calls : Own(d, r))
  /\ \A q \in Rows : q # r => rows'[q] = rows[q]
  /\ rows' \in [Rows -> RowState]

LEMMA BeginDoes ==
  ASSUME Inv, NEW c \in Calls, NEW r, NEW row, NEW call, NEW flag, Clicks(r, row, call),
         Begin(c, row, call, flag)
  PROVE  Begins(c, r, row, call)
<1> DEFINE l == IF canary THEN [call EXCEPT !.pc = "request"]
                ELSE FetchedBy(call, fetch, "login", "enter")
           m == row.muddled \/ \E other \in InFlight : calls[other].row = r
           new == [row EXCEPT !.muddled = m]
<1>0. r \in Rows /\ row \in RowState /\ call \in CallRecord /\ call.row = r
  BY DEF Clicks
<1>1. /\ calls[c].pc = "idle" /\ calls' = [calls EXCEPT ![c] = l] /\ rows' = [rows EXCEPT ![r] = new]
  BY <1>0 DEF Begin
<1>2. fetch \in FetchRecord /\ calls \in [Calls -> CallRecord] /\ rows \in [Rows -> RowState]
  BY DEF Inv, TypeOK
<1>3. SameCall(call, l) /\ l.pc \in Before
  <2>1. CASE canary
    BY <1>0, <2>1, Moves DEF Before
  <2>2. CASE ~canary
    <3>1. SameCall(call, l) /\ l.pc \in {"login", "enter"}
      BY <1>0, <1>2, <2>2, FetchedByType
    <3> QED
      BY <3>1 DEF Before
  <2> QED
    BY <2>1, <2>2
<1> HIDE DEF l
<1>4. calls'[c] = l /\ \A d \in Calls : d # c => calls'[d] = calls[d]
  BY <1>1, <1>2
<1>5. m \in BOOLEAN
  BY <1>0 DEF RowState
<1>6. m = (row.muddled \/ \E d \in Calls : Own(d, r))
  BY DEF Own, InFlight
<1> HIDE DEF m
<1>7. Same(row, new) /\ new.enabled = row.enabled /\ new.muddled = m
  BY <1>0, <1>5, SameMuddled
<1>8. new \in RowState
  BY <1>7 DEF Same
<1> HIDE DEF new
<1>9. /\ rows'[r] = new /\ rows' \in [Rows -> RowState]
      /\ \A q \in Rows : q # r => rows'[q] = rows[q]
  BY <1>0, <1>1, <1>2, <1>8
<1>10. rows'[r].muddled = (row.muddled \/ \E d \in Calls : Own(d, r))
  BY <1>6, <1>7, <1>9
<1> QED
  BY <1>1, <1>3, <1>4, <1>7, <1>9, <1>10 DEF Begins

LEMMA BeginTruth ==
  ASSUME TruthInv, Inv', NEW c \in Calls, NEW r, NEW row, NEW call, NEW flag, Clicks(r, row, call),
         Begin(c, row, call, flag)
  PROVE  TruthInv'
<1>1. Inv /\ call \in CallRecord /\ r \in Rows /\ rows \in [Rows -> RowState]
  BY DEF TruthInv, Inv, TypeOK, Clicks
<1>2. UNCHANGED <<canary, alerts, server>> /\ (canary => fetch' = fetch)
      /\ overlap' = (overlap \/ InFlight # {})
  BY DEF Begin
<1>3. Begins(c, r, row, call)
  BY <1>1, BeginDoes
<1>4. /\ calls[c].pc = "idle" /\ SameCall(call, calls'[c]) /\ calls'[c].pc \in Before
      /\ \A d \in Calls : d # c => calls'[d] = calls[d]
      /\ Same(row, rows'[r]) /\ rows'[r].enabled = row.enabled
      /\ rows'[r].muddled = (row.muddled \/ \E d \in Calls : Own(d, r))
      /\ \A q \in Rows : q # r => rows'[q] = rows[q]
      /\ rows' \in [Rows -> RowState]
  BY <1>3 DEF Begins
<1>5. /\ call.row = r /\ call.mount = rows[r].mount /\ call.name[1] = r
      /\ row.is = rows[r].is /\ row.ref = rows[r].ref /\ row.mount = rows[r].mount
      /\ row.muddled = rows[r].muddled
      /\ row.is.follows # "pairs" => (row.ref /\ row.is.alertName) \/ call.name = EventName(r)
      /\ Watched(r) /\ (\A d \in Calls : ~Own(d, r)) =>
           /\ \/ call.op = "subscribe" /\ call.option = "on"
              \/ call.op = "unsubscribe" /\ call.option = None
           /\ InService(r) = (call.op = "unsubscribe")
           /\ row.enabled = Shown(row, call.op)
  BY DEF Clicks
<1>6. /\ rows'[r].is = rows[r].is /\ rows'[r].ref = rows[r].ref /\ rows'[r].mount = rows[r].mount
      /\ calls'[c].row = r /\ calls'[c].mount = rows'[r].mount /\ calls'[c].name = call.name
      /\ calls'[c].op = call.op /\ calls'[c].option = call.option /\ calls'[c].pc # "idle"
  BY <1>4, <1>5 DEF Same, SameCall, Before
<1>7. Grows
  <2>1. overlap' \in BOOLEAN
    BY DEF Inv, TypeOK
  <2>2. \A q \in Rows : rows[q].muddled = TRUE => rows'[q].muddled = TRUE
    BY <1>4, <1>5
  <2> QED
    BY <1>2, <1>4, <1>6, <2>1, <2>2 DEF Grows
<1>8. /\ \A d \in Calls, q \in Rows : q # r => (Own(d, q)' <=> Own(d, q))
      /\ \A d \in Calls : Own(d, r)' <=> d = c \/ Own(d, r)
      /\ ~Own(c, r)
  BY <1>4, <1>6 DEF Own
<1>9. ~rows'[r].muddled => ~rows[r].muddled /\ \A d \in Calls : ~Own(d, r)
  BY <1>4, <1>5
<1>10. OneCall'
  <2> SUFFICES ASSUME NEW q \in Rows, ~rows'[q].muddled, NEW e \in Calls, Own(e, q)'
               PROVE  calls'[e].mount = rows'[q].mount /\ \A d \in Calls : Own(d, q)' => d = e
    BY DEF OneCall
  <2>1. CASE q = r
    BY <1>6, <1>8, <1>9, <2>1
  <2>2. CASE q # r
    <3>1. Own(e, q) /\ rows'[q] = rows[q] /\ e # c /\ calls'[e] = calls[e]
      BY <1>4, <1>6, <1>8, <2>2 DEF Own
    <3>2. calls[e].mount = rows[q].mount /\ \A d \in Calls : Own(d, q) => d = e
      BY <3>1 DEF TruthInv, Truth, OneCall
    <3> QED
      BY <1>8, <2>2, <3>1, <3>2
  <2> QED
    BY <2>1, <2>2
<1>11. Named'
  <2> SUFFICES ASSUME NEW d \in Calls, calls'[d].pc # "idle"
               PROVE  /\ calls'[d].name[1] = calls'[d].row
                      /\ rows'[calls'[d].row].is.follows # "pairs" =>
                           \/ rows'[calls'[d].row].ref /\ rows'[calls'[d].row].is.alertName
                           \/ calls'[d].name = EventName(calls'[d].row)
    BY DEF Named, EventName
  <2>1. CASE d = c
    BY <1>5, <1>6, <2>1
  <2>2. CASE d # c
    <3>1. calls'[d] = calls[d] /\ calls[d].pc # "idle" /\ calls[d].row \in Rows
      BY <1>1, <1>4, <2>2 DEF Inv, CallsHaveRows
    <3>2. /\ rows'[calls[d].row].is = rows[calls[d].row].is
          /\ rows'[calls[d].row].ref = rows[calls[d].row].ref
      BY <1>7, <3>1 DEF Grows
    <3>3. /\ calls[d].name[1] = calls[d].row
          /\ rows[calls[d].row].is.follows # "pairs" =>
                           \/ rows[calls[d].row].ref /\ rows[calls[d].row].is.alertName
                           \/ calls[d].name = EventName(calls[d].row)
      BY <3>1 DEF TruthInv, Truth, Named
    <3> QED
      BY <3>1, <3>2, <3>3
  <2> QED
    BY <2>1, <2>2
<1>12. ~overlap' => ~overlap /\ \A d \in Calls : calls[d].pc = "idle"
  BY <1>2 DEF InFlight
<1>13. Alone'
  <2>1. ~overlap' => \A d \in Calls : calls'[d].pc # "idle" => d = c
    BY <1>4, <1>12
  <2> QED
    BY <2>1 DEF Alone
<1>14. FetchOld' /\ Unnamed'
  BY <1>2, <1>7, UnnamedStays DEF FetchOld, TruthInv, Truth
<1>15. ASSUME NEW q \in Rows PROVE Known(q)'
  <2> DEFINE n == EventName(q)
             T == Owners(q)'
  <2>1. n \in Names
    BY NamesAre
  <2>2. PICK S \in SUBSET Calls : S = Owners(q)
    BY DEF Owners
  <2>3. Sees(q)' => Agrees(n, S)
    BY <1>1, <1>7, <2>2, PlainBack DEF TruthInv, Truth, Known
  <2>4. T = S \/ T = S \cup {c}
    <3>1. CASE q # r
      BY <1>8, <2>2, <3>1 DEF Owners
    <3>2. CASE q = r
      BY <1>8, <2>2, <3>2 DEF Owners
    <3> QED
      BY <3>1, <3>2
  <2> HIDE DEF n
  <2>5. Agrees(n, S) => Agrees(n, S)' /\ Agrees(n, S \cup {c})'
    BY <1>1, <2>1, AgreesBegin
  <2> DEFINE Holds(U) == /\ fetch'.state \in {"answered", "cached"} => fetch'.data[n] = server'[n]
                         /\ \A d \in Calls : calls'[d].pc \in {"enter", "render"} => calls'[d].data[n] = server'[n]
                         /\ \A d \in U : ~canary' /\ calls'[d].pc = "request" => calls'[d].data[n] = server'[n]
                         /\ (\A d \in U : calls'[d].pc \in Before \cup {"idle"}) => alerts'[n] = server'[n]
  <2>6. Sees(q)' => Holds(S) /\ Holds(S \cup {c})
    BY <2>3, <2>5 DEF Agrees
  <2> HIDE DEF T, Holds
  <2>7. Sees(q)' => Holds(T)
    BY <2>4, <2>6
  <2> QED
    BY <2>7 DEF Holds, T, n, Known, Agrees, EventName
<1>16. ASSUME NEW q \in Rows PROVE Kept(q)'
  <2> SUFFICES ASSUME Watched(q)'
               PROVE  /\ (\A d \in Calls : ~Own(d, q)') => rows'[q].enabled = InService(q)'
                      /\ \A d \in Calls : Own(d, q)' => Foretold(rows[q], calls[d], InService(q))'
    BY DEF Kept
  <2>1. Watched(q) /\ ~rows'[q].muddled /\ InService(q)' = InService(q)
    BY <1>1, <1>2, <1>7, PlainBack DEF Watched, Plain, InService, EventName
  <2>2. /\ (\A d \in Calls : ~Own(d, q)) => rows[q].enabled = InService(q)
        /\ \A d \in Calls : Own(d, q) => Foretold(rows[q], calls[d], InService(q))
    BY <2>1 DEF TruthInv, Truth, Kept
  <2>3. CASE q # r
    <3>1. rows'[q] = rows[q] /\ \A d \in Calls : Own(d, q)' <=> Own(d, q)
      BY <1>4, <1>8, <2>3
    <3>2. \A d \in Calls : Own(d, q) => calls'[d] = calls[d]
      BY <1>4 DEF Own
    <3>3. \A d \in Calls : Own(d, q) => Foretold(rows[q], calls[d], InService(q))'
      BY <1>2, <2>1, <2>2, <3>1, <3>2 DEF Foretold
    <3> QED
      BY <2>1, <2>2, <3>1, <3>3
  <2>4. CASE q = r
    <3>1. /\ \/ call.op = "subscribe" /\ call.option = "on"
             \/ call.op = "unsubscribe" /\ call.option = None
          /\ InService(r) = (call.op = "unsubscribe")
          /\ row.enabled = Shown(row, call.op)
      BY <1>5, <1>9, <2>1, <2>4
    <3>2. \A d \in Calls : Own(d, r)' <=> d = c
      BY <1>8, <1>9, <2>1, <2>4
    <3>3. rows'[r].is = row.is /\ rows'[r].enabled = row.enabled
      BY <1>4, <1>5, <1>6
    <3>4. Foretold(rows[r], calls[c], InService(r))'
      BY <1>4, <1>6, <2>1, <2>4, <3>1, <3>3 DEF Foretold, Shown, Before
    <3> QED
      BY <2>4, <3>2, <3>4
  <2> QED
    BY <2>3, <2>4
<1>17. Orderly'
  <2> DEFINE T == InFlight'
  <2>1. PICK S \in SUBSET Calls : S = InFlight
    BY DEF InFlight
  <2>2. ASSUME ~overlap', \A q \in Rows : ~rows'[q].muddled, NEW n \in Names
        PROVE  Agrees(n, InFlight)'
    <3>1. \A q \in Rows : ~rows[q].muddled
      BY <1>1, <1>7, <2>2 DEF Grows, RowState
    <3>2. Agrees(n, S)
      BY <1>12, <2>1, <2>2, <3>1 DEF TruthInv, Truth, Orderly
    <3>3. Agrees(n, S \cup {c})'
      BY <1>1, <3>2, AgreesBegin
    <3>4. \A d \in S \cup {c} : d \in T
      BY <1>4, <1>6, <1>12, <2>1, <2>2 DEF InFlight
    <3>5. \A d \in T : d \in S \cup {c}
      BY <1>4, <2>1 DEF InFlight
    <3> QED
      BY <3>3, <3>4, <3>5 DEF Agrees
  <2> QED
    BY <2>2 DEF Orderly
<1> QED
  BY <1>10, <1>11, <1>13, <1>14, <1>15, <1>16, <1>17 DEF TruthInv, Truth

-----------------------------------------------------------------------------
(* Clicks                                                                  *)

LEMMA RatioDeps ==
  /\ {"alerts", "loading"} \subseteq HealthCheckRow.deps
  /\ {"alerts", "loading", "busy"} \subseteq CustomHealthCheckRow.deps
  /\ {"alerts", "loading"} \subseteq FusionHealthCheckRow.deps
<1>1. {"alerts", "loading"} \subseteq HealthCheckRow.deps
  BY DEF HealthCheckRow
<1>2. {"alerts", "loading", "busy"} \subseteq CustomHealthCheckRow.deps
  BY DEF CustomHealthCheckRow
<1>3. {"alerts", "loading"} \subseteq FusionHealthCheckRow.deps
  BY DEF FusionHealthCheckRow
<1> QED
  BY <1>1, <1>2, <1>3

LEMMA RatioAnswers ==
  /\ HealthCheckRow.subscribed = "keep" /\ HealthCheckRow.unsubscribed = "keep"
  /\ CustomHealthCheckRow.subscribed = "check" /\ CustomHealthCheckRow.unsubscribed = "check"
  /\ FusionHealthCheckRow.subscribed = "check" /\ FusionHealthCheckRow.unsubscribed = "check"
<1>1. HealthCheckRow.subscribed = "keep" /\ HealthCheckRow.unsubscribed = "keep"
  BY DEF HealthCheckRow
<1>2. CustomHealthCheckRow.subscribed = "check" /\ CustomHealthCheckRow.unsubscribed = "check"
  BY DEF CustomHealthCheckRow
<1>3. FusionHealthCheckRow.subscribed = "check" /\ FusionHealthCheckRow.unsubscribed = "check"
  BY DEF FusionHealthCheckRow
<1> QED
  BY <1>1, <1>2, <1>3

LEMMA RatioClicks ==
  /\ HealthCheckRow.flag = "context" /\ CustomHealthCheckRow.flag = "row"
  /\ FusionHealthCheckRow.flag = "row" /\ FusionHealthCheckRow.early = {"subscribe", "unsubscribe"}
<1>1. HealthCheckRow.flag = "context"
  BY DEF HealthCheckRow
<1>2. CustomHealthCheckRow.flag = "row"
  BY DEF CustomHealthCheckRow
<1>3. FusionHealthCheckRow.flag = "row" /\ FusionHealthCheckRow.early = {"subscribe", "unsubscribe"}
  BY DEF FusionHealthCheckRow
<1> QED
  BY <1>1, <1>2, <1>3

\* What the rows that have a threshold have in common.
RatioTraits(is) ==
  /\ is \in {HealthCheckRow, CustomHealthCheckRow, FusionHealthCheckRow}
  /\ {"alerts", "loading"} \subseteq is.deps /\ is.follows = "ratio"
  /\ is.subscribed \in {"check", "keep"} /\ is.unsubscribed \in {"check", "keep"}
  /\ is = CustomHealthCheckRow => "busy" \in is.deps
  /\ is = HealthCheckRow => is.flag = "context"
  /\ is # HealthCheckRow => is.flag = "row"

LEMMA RatioRows ==
  ASSUME Inv, NEW r \in Rows, rows[r].is.follows = "ratio"
  PROVE  RatioTraits(rows[r].is)
<1>1. PICK t \in DOMAIN RowOf : rows[r].is = RowOf[t]
  BY DEF Inv, TypeOK, RowState
<1>2. RowOf[t] \in {HealthCheckRow, CustomHealthCheckRow, FusionHealthCheckRow}
  BY <1>1, RatioKinds
<1> QED
  BY <1>1, <1>2, RatioDeps, RatioAnswers, RatioClicks DEF RatioTraits

\* A busy row shows what its call k is to achieve: its effect does not see the flag.
Promised(row, k, on) ==
  /\ row.busy = TRUE
  /\ \/ k.op = "subscribe" /\ row.enabled = TRUE
     \/ k.op = "unsubscribe" /\ row.enabled = FALSE
     \/ k.op \in {"choose", "custom"} /\ row.enabled = TRUE
  /\ k.op \in {"choose", "custom"} /\ k.pc \in {"read", "render"} => on

\* A click on a row with a threshold: what it shows while it waits.
Presses(r, row, call, flag) ==
  /\ row.is = HealthCheckRow => ~row.busy
  /\ row.is.follows = "ratio" =>
       \/ row.busy = TRUE \/ flag
       \/ ~rows[r].busy /\ ~loading /\ row.enabled = rows[r].enabled
  /\ row.is = FusionHealthCheckRow => Promised(row, call, TRUE)

Pressed(c, r) ==
  \E row, call, flag : Clicks(r, row, call) /\ Presses(r, row, call, flag) /\ Begin(c, row, call, flag)

\* The row after a click, and the name of the alert that it works on.
LEMMA ClickedKeeps ==
  ASSUME NEW row \in RowState, NEW shown \in BOOLEAN, NEW busy \in BOOLEAN
  PROVE  /\ Clicked(row, shown, busy).ref = row.ref /\ [row EXCEPT !.busy = busy].ref = row.ref
         /\ Clicked(row, shown, busy).enabled = shown /\ Clicked(row, shown, busy).busy = busy
         /\ [row EXCEPT !.busy = busy].busy = busy
<1>1. Clicked(row, shown, busy).ref = row.ref
  BY DEF Clicked, RowState
<1>2. Clicked(row, shown, busy).enabled = shown
  BY ClickedType
<1>3. Clicked(row, shown, busy).busy = busy
  BY DEF Clicked, RowState
<1> QED
  BY <1>1, <1>2, <1>3 DEF RowState

LEMMA SubscribeNamed ==
  ASSUME NEW r \in Rows
  PROVE  /\ SubscribeName(r) \in Names /\ SubscribeName(r)[1] = r
         /\ (rows[r].ref /\ rows[r].is.alertName) \/ SubscribeName(r) = EventName(r)
         /\ EventName(r)[1] = r
BY NamesAre DEF SubscribeName, AlertName, EventName

LEMMA WatchedKinds ==
  ASSUME Inv, NEW r \in Rows, Watched(r)
  PROVE  /\ rows[r].is.ratio = None /\ ~rows[r].is.alertName /\ rows[r].is.follows # "pairs"
         /\ ~rows[r].ref
<1>1. PICK t \in DOMAIN RowOf : rows[r].is = RowOf[t]
  BY DEF Inv, TypeOK, RowState
<1>2. rows[r].is.ratio = None /\ ~rows[r].is.alertName
  <2>1. CASE rows[r].is.follows = "once"
    BY <1>1, <2>1, OnceKinds DEF OnceTraits
  <2>2. CASE rows[r].is.follows = "alerts"
    BY <1>1, <2>2, AlertsKinds, DirectPushKind
  <2> QED
    BY <2>1, <2>2 DEF Watched
<1> QED
  BY <1>2 DEF Watched, Plain, Confused

LEMMA TogglePresses ==
  ASSUME TruthInv, NEW c \in Calls, NEW r \in Rows, Toggle(c, r)
  PROVE  Pressed(c, r)
<1> DEFINE row == rows[r]
           op == IF row.enabled THEN "unsubscribe" ELSE "subscribe"
           shown == IF op \in row.is.early THEN ~row.enabled ELSE row.enabled
           busy == (row.is.flag = "row")
           flag == (row.is.flag = "context")
           name == IF op = "unsubscribe" THEN EventName(r) ELSE SubscribeName(r)
           option == IF op = "unsubscribe" THEN None
                     ELSE IF row.is.ratio = None THEN "on" ELSE row.is.ratio
           new == Clicked(row, shown, busy)
           call == CallOf(r, op, name, option)
<1>1. Begin(c, new, call, flag)
  <2>1. CASE row.enabled
    BY <2>1 DEF Toggle, Clicked
  <2>2. CASE ~row.enabled
    BY <2>2 DEF Toggle, Clicked
  <2> QED
    BY <2>1, <2>2
<1>2. Inv /\ Inv'
  BY ToggleStep DEF TruthInv
<1>3. rows \in [Rows -> RowState] /\ row \in RowState /\ row.enabled \in BOOLEAN
  BY <1>2 DEF Inv, TypeOK, RowState
<1>4. shown \in BOOLEAN /\ busy \in BOOLEAN /\ op \in {"subscribe", "unsubscribe"}
  BY <1>3
<1>5. name \in Names /\ name[1] = r /\ ((row.ref /\ row.is.alertName) \/ name = EventName(r))
  BY NamesAre, SubscribeNamed
<1>6. option \in Options \cup {None}
  <2>1. row.is.ratio = None \/ row.is.ratio \in Options
    BY <1>3, KindsAre DEF RowState
  <2>2. "on" \in Options
    BY DEF Options
  <2> QED
    BY <2>1, <2>2
<1>7. /\ op = "unsubscribe" <=> row.enabled
      /\ op = "unsubscribe" => option = None
      /\ op = "subscribe" /\ row.is.ratio = None => option = "on"
      /\ shown = Shown(row, op)
  BY <1>3 DEF Shown
<1> HIDE DEF shown, busy, flag, name, option, op
<1>8. /\ new \in RowState /\ new.is = row.is /\ new.mount = row.mount /\ new.muddled = row.muddled
      /\ new.enabled = shown
  BY <1>3, <1>4, ClickedType
<1>9. new.ref = row.ref /\ new.busy = busy
  BY <1>3, <1>4, ClickedKeeps
<1>10. /\ call \in CallRecord /\ call.row = r /\ call.mount = row.mount /\ call.name = name /\ call.op = op
       /\ call.option = option
  BY <1>3, <1>4, <1>5, <1>6, CallOfType
<1>11. Watched(r) /\ (\A d \in Calls : ~Own(d, r)) =>
         row.enabled = InService(r) /\ row.is.ratio = None
  BY <1>2, WatchedKinds DEF TruthInv, Truth, Kept
<1> HIDE DEF new, call
<1>12. Watched(r) /\ (\A d \in Calls : ~Own(d, r)) =>
         /\ \/ call.op = "subscribe" /\ call.option = "on"
            \/ call.op = "unsubscribe" /\ call.option = None
         /\ InService(r) = (call.op = "unsubscribe")
         /\ new.enabled = Shown(new, call.op)
  BY <1>4, <1>7, <1>8, <1>10, <1>11 DEF Shown, InService
<1>13. Clicks(r, new, call)
  BY <1>5, <1>8, <1>9, <1>10, <1>12 DEF Clicks
<1>14. Presses(r, new, call, flag)
  <2>1. row.is.follows = "ratio" => RatioTraits(row.is)
    BY <1>2, RatioRows
  <2>2. row.is = HealthCheckRow => ~busy
    BY RatioClicks DEF busy
  <2>3. row.is.follows = "ratio" => busy = TRUE \/ flag
    BY <2>1 DEF RatioTraits, busy, flag
  <2>4. ASSUME row.is = FusionHealthCheckRow PROVE Promised(new, call, TRUE)
    <3>1. busy = TRUE /\ shown = (op = "subscribe")
      BY <1>4, <1>7, <2>4, RatioClicks DEF Shown, busy
    <3> QED
      BY <1>4, <1>8, <1>9, <1>10, <3>1 DEF Promised
  <2> QED
    BY <1>8, <1>9, <2>2, <2>3, <2>4 DEF Presses
<1> QED
  BY <1>1, <1>13, <1>14 DEF Pressed

LEMMA ChoosePresses ==
  ASSUME TruthInv, NEW c \in Calls, NEW r \in Rows, NEW ratio \in Ratios, Choose(c, r, ratio)
  PROVE  Pressed(c, r)
<1> DEFINE busy == (rows[r].is.flag = "row")
           new == [rows[r] EXCEPT !.busy = busy]
           name == SubscribeName(r)
           call == CallOf(r, "choose", name, ratio)
<1>1. Begin(c, new, call, FALSE) /\ rows[r].is.ratio # None
      /\ rows[r].enabled /\ ~loading /\ ~rows[r].busy
  BY DEF Choose
<1>2. Inv /\ Inv'
  BY ChooseStep DEF TruthInv
<1>3. rows \in [Rows -> RowState] /\ rows[r] \in RowState /\ ratio \in Options \cup {None}
  BY <1>2 DEF Inv, TypeOK, Options
<1>4. busy \in BOOLEAN
  OBVIOUS
<1>5. name \in Names /\ name[1] = r
      /\ ((rows[r].ref /\ rows[r].is.alertName) \/ name = EventName(r))
  BY SubscribeNamed
<1> HIDE DEF busy, name
<1>6. /\ new \in RowState /\ new.is = rows[r].is /\ new.mount = rows[r].mount
      /\ new.muddled = rows[r].muddled /\ new.enabled = rows[r].enabled
  BY <1>3, <1>4, SameBusy
<1>7. new.ref = rows[r].ref /\ new.busy = busy
  BY <1>3, <1>4, ClickedKeeps
<1>8. call \in CallRecord /\ call.row = r /\ call.mount = rows[r].mount /\ call.name = name
      /\ call.op = "choose"
  BY <1>3, <1>5, CallOfType
<1> HIDE DEF new, call
<1>9. ~Watched(r)
  BY <1>1, <1>2, WatchedKinds
<1>10. Clicks(r, new, call)
  BY <1>5, <1>6, <1>7, <1>8, <1>9 DEF Clicks
<1>11. Presses(r, new, call, FALSE)
  <2>1. rows[r].is = HealthCheckRow => ~busy
    BY RatioClicks DEF busy
  <2>2. ASSUME rows[r].is = FusionHealthCheckRow PROVE Promised(new, call, TRUE)
    <3>1. busy = TRUE /\ new.enabled = TRUE
      BY <1>1, <1>3, <1>6, <2>2, RatioClicks DEF busy, RowState
    <3> QED
      BY <1>7, <1>8, <3>1 DEF Promised
  <2> QED
    BY <1>1, <1>6, <1>7, <2>1, <2>2 DEF Presses
<1> QED
  BY <1>1, <1>10, <1>11 DEF Pressed

LEMMA ChooseCustomPresses ==
  ASSUME TruthInv, NEW c \in Calls, NEW r \in Rows, ChooseCustom(c, r)
  PROVE  Pressed(c, r)
<1> DEFINE busy == (rows[r].is.flag = "row")
           a == [rows[r] EXCEPT !.busy = busy]
           new == [a EXCEPT !.typed = TRUE]
           name == SubscribeName(r)
           call == CallOf(r, "custom", name, "custom")
<1>1. Inv /\ Inv'
  BY ChooseCustomStep DEF TruthInv
<1>2. rows \in [Rows -> RowState] /\ rows[r] \in RowState /\ "custom" \in Options \cup {None}
  BY <1>1 DEF Inv, TypeOK, Options
<1>3. Begin(c, new, call, FALSE) /\ rows[r].is.ratio # None
      /\ rows[r].enabled /\ ~loading /\ ~rows[r].busy
  BY <1>2 DEF ChooseCustom, RowState
<1>4. busy \in BOOLEAN
  OBVIOUS
<1>5. name \in Names /\ name[1] = r
      /\ ((rows[r].ref /\ rows[r].is.alertName) \/ name = EventName(r))
  BY SubscribeNamed
<1> HIDE DEF busy, name
<1>6. /\ a \in RowState /\ a.is = rows[r].is /\ a.mount = rows[r].mount /\ a.ref = rows[r].ref
      /\ a.muddled = rows[r].muddled /\ a.enabled = rows[r].enabled /\ a.busy = busy
  BY <1>2, <1>4, SameBusy, ClickedKeeps
<1> HIDE DEF a
<1>7. /\ new \in RowState /\ new.is = rows[r].is /\ new.mount = rows[r].mount
      /\ new.ref = rows[r].ref /\ new.muddled = rows[r].muddled
      /\ new.enabled = rows[r].enabled /\ new.busy = busy
  BY <1>6, SameTyped DEF Same
<1>8. call \in CallRecord /\ call.row = r /\ call.mount = rows[r].mount /\ call.name = name
      /\ call.op = "custom"
  BY <1>2, <1>5, CallOfType
<1> HIDE DEF new, call
<1>9. ~Watched(r)
  BY <1>1, <1>3, WatchedKinds
<1>10. Clicks(r, new, call)
  BY <1>5, <1>7, <1>8, <1>9 DEF Clicks
<1>11. Presses(r, new, call, FALSE)
  <2>1. rows[r].is = HealthCheckRow => ~busy
    BY RatioClicks DEF busy
  <2>2. ASSUME rows[r].is = FusionHealthCheckRow PROVE Promised(new, call, TRUE)
    <3>1. busy = TRUE /\ new.enabled = TRUE
      BY <1>2, <1>3, <1>7, <2>2, RatioClicks DEF busy, RowState
    <3> QED
      BY <1>7, <1>8, <3>1 DEF Promised
  <2> QED
    BY <1>3, <1>7, <2>1, <2>2 DEF Presses
<1> QED
  BY <1>3, <1>10, <1>11 DEF Pressed

LEMMA PairPresses ==
  ASSUME TruthInv, NEW c \in Calls, NEW r \in Rows, NEW pair \in Pairs,
         SavePair(c, r, pair) \/ DeletePair(c, r, pair)
  PROVE  Pressed(c, r)
<1> DEFINE name == <<r, pair>>
<1>1. Inv /\ Inv'
  BY PairStep DEF TruthInv
<1>2. rows \in [Rows -> RowState] /\ rows[r] \in RowState /\ name \in Names /\ name[1] = r
      /\ "on" \in Options \cup {None} /\ None \in Options \cup {None}
  BY <1>1 DEF Inv, TypeOK, Options, Names, Parts
<1>3. rows[r].is.follows = "pairs"
  BY DEF SavePair, DeletePair
<1>4. ~Watched(r)
  BY <1>1, <1>3, WatchedKinds
<1> HIDE DEF name
<1>5. ASSUME NEW call, call \in CallRecord, call.row = r, call.mount = rows[r].mount, call.name = name,
             Begin(c, rows[r], call, FALSE)
      PROVE  Pressed(c, r)
  <2>1. Clicks(r, rows[r], call)
    BY <1>2, <1>3, <1>4, <1>5 DEF Clicks
  <2>2. Presses(r, rows[r], call, FALSE)
    BY <1>3, FollowsAre DEF Presses
  <2> QED
    BY <1>5, <2>1, <2>2 DEF Pressed
<1>6. CASE SavePair(c, r, pair)
  <2> DEFINE call == CallOf(r, "save", name, "on")
  <2>1. Begin(c, rows[r], call, FALSE)
    BY <1>6 DEF SavePair, name
  <2>2. call \in CallRecord /\ call.row = r /\ call.mount = rows[r].mount /\ call.name = name
    BY <1>2, CallOfType
  <2> HIDE DEF call
  <2> QED
    BY <1>5, <2>1, <2>2
<1>7. CASE DeletePair(c, r, pair)
  <2> DEFINE call == CallOf(r, "delete", name, None)
  <2>1. Begin(c, rows[r], call, FALSE)
    BY <1>7 DEF DeletePair, name
  <2>2. call \in CallRecord /\ call.row = r /\ call.mount = rows[r].mount /\ call.name = name
    BY <1>2, CallOfType
  <2> HIDE DEF call
  <2> QED
    BY <1>5, <2>1, <2>2
<1> QED
  BY <1>6, <1>7

\* Whatever the user does with a row begins a call of it.
LEMMA ActPresses ==
  ASSUME TruthInv, NEW r \in Rows, Act(r)
  PROVE  \E c \in Calls : Pressed(c, r)
BY TogglePresses, ChoosePresses, ChooseCustomPresses, PairPresses DEF Act

-----------------------------------------------------------------------------
(* The list of alerts comes back                                           *)

\* The effect of a row that waits for nothing shows what its alert is.
LEMMA RunEffectShows ==
  ASSUME NEW row \in RowState, NEW option \in Options \cup {None}, NEW busy,
         row.is.deps # {}, ~busy, ~row.busy
  PROVE  RunEffect(row, option, busy).enabled = (option # None)
<1>1. CASE row.is.follows = "ratio"
  <2>1. RunEffect(row, option, busy) = ShowRatio(row, option)
    BY <1>1 DEF RunEffect
  <2> QED
    BY <2>1, ShowRatioKeeps
<1>2. CASE row.is.follows # "ratio"
  <2> DEFINE on == (option # None)
  <2>1. RunEffect(row, option, busy) = [row EXCEPT !.enabled = on]
    BY <1>2 DEF RunEffect
  <2>2. on \in BOOLEAN
    OBVIOUS
  <2>3. [row EXCEPT !.enabled = on].enabled = on
    BY <2>2, SameEnabled
  <2> QED
    BY <2>1, <2>3
<1> QED
  BY <1>1, <1>2

LEMMA MountedShows ==
  ASSUME NEW row \in RowState, NEW option \in Options \cup {None}, NEW busy,
         row.is.follows # "once", row.is.deps # {}, ~busy
  PROVE  Mounted(row, option, busy).enabled = (option # None)
<1> DEFINE e == [row EXCEPT !.enabled = FALSE, !.busy = FALSE, !.chosen = None, !.typed = FALSE]
<1>1. e \in RowState /\ e.is = row.is /\ ~e.busy
  BY DEF RowState
<1>2. Mounted(row, option, busy) = RunEffect(e, option, busy)
  BY DEF Mounted
<1> HIDE DEF e
<1> QED
  BY <1>1, <1>2, RunEffectShows

\* A row that follows the alerts and comes back while the card is not loading.
LEMMA RebornShows ==
  ASSUME Inv, Remount, NEW r \in Rows, ~loading, rows[r].is.follows # "once",
         "alerts" \in rows[r].is.deps
  PROVE  rows'[r].enabled = (alerts'[AlertName(r)] # None)
<1> DEFINE a(q) == Mounted(rows[q], alerts[AlertName(q)], loading)
           m(q) == \/ a(q).muddled \/ (canary /\ overlap)
                   \/ loading /\ rows[q].is.follows = "alerts"
                   \/ \E c \in InFlight : calls[c].row = q
           new(q) == [a(q) EXCEPT !.mount = @ + 1, !.muddled = m(q)]
           on == [q \in Rows |-> new(q)]
           seen == ~canary /\ fetch.state = "cached"
           row == rows[r]
           option == alerts[AlertName(r)]
           shown == alerts'[AlertName(r)]
           b == a(r)
           p == m(r)
           k == b.mount + 1
           d == [b EXCEPT !.mount = k]
           f == new(r)
<1>1. /\ rows \in [Rows -> RowState] /\ alerts \in AlertsByName /\ fetch \in FetchRecord
      /\ loading \in BOOLEAN /\ overlap \in BOOLEAN /\ canary \in BOOLEAN
  BY DEF Inv, TypeOK
<1>2. rows' = Followed(on, on, alerts', seen, loading, loading)
      /\ alerts' = IF seen THEN fetch.data ELSE alerts
  BY DEF Remount
<1>3. alerts' \in AlertsByName
  BY <1>1, <1>2 DEF FetchRecord
<1>4. row \in RowState /\ option \in Options \cup {None} /\ shown \in Options \cup {None}
  BY <1>1, <1>3, NamesAre DEF AlertsByName
<1>5. /\ Fresh(row, b) /\ b.muddled = row.muddled /\ b.enabled = (option # None)
  BY <1>4, MountedFresh, MountedShows
<1>6. p \in BOOLEAN
  BY <1>1, <1>5, <1>4 DEF RowState
<1>7. k \in Nat
  BY <1>5 DEF Fresh, RowState
<1>8. f = [d EXCEPT !.muddled = p]
  BY <1>5 DEF Fresh, RowState
<1>9. rows'[r] = Follow(f, f, shown, seen, loading, loading)
  BY <1>2 DEF Followed
<1>10. shown = IF seen THEN shown ELSE option
  BY <1>2
<1> HIDE DEF a, m, new, on, b, p, k, option, shown
<1>11. d \in RowState /\ d.is = row.is /\ ~d.busy /\ d.enabled = b.enabled
  BY <1>5, <1>7 DEF Fresh, RowState
<1> HIDE DEF d
<1>12. f \in RowState /\ f.is = row.is /\ ~f.busy /\ f.enabled = (option # None)
  BY <1>5, <1>6, <1>8, <1>11, SameMuddled DEF Same
<1> HIDE DEF f
<1> DEFINE changed == {e \in f.is.deps :
                         \/ e = "alerts" /\ seen
                         \/ e = "loading" /\ loading # loading
                         \/ e = "enabled" /\ f.enabled # f.enabled
                         \/ e = "busy" /\ f.busy # f.busy}
<1>13. rows'[r] = IF changed = {} THEN f ELSE RunEffect(f, shown, loading)
  BY <1>9 DEF Follow
<1>14. (changed = {}) = ~seen
  BY <1>12
<1> HIDE DEF changed, seen
<1>15. CASE seen
  <2>1. RunEffect(f, shown, loading).enabled = (shown # None)
    BY <1>4, <1>12, RunEffectShows
  <2> QED
    BY <1>13, <1>14, <1>15, <2>1 DEF shown
<1>16. CASE ~seen
  BY <1>10, <1>12, <1>13, <1>14, <1>16 DEF shown
<1> QED
  BY <1>15, <1>16

LEMMA RemountTruth ==
  ASSUME TruthInv, Remount
  PROVE  TruthInv'
<1>1. Inv /\ Inv'
  BY RemountStep DEF TruthInv
<1>2. UNCHANGED <<canary, loading, server, calls, overlap>> /\ (canary => fetch' = fetch)
  BY DEF Remount
<1>3. \A r \in Rows : Reborn(r)
  BY <1>1, Remounts
<1>4. Grows
  <2>1. overlap' \in BOOLEAN
    BY <1>1 DEF Inv, TypeOK
  <2>2. ASSUME NEW r \in Rows
        PROVE  /\ rows'[r].is = rows[r].is /\ rows'[r].ref = rows[r].ref
               /\ rows[r].muddled = TRUE => rows'[r].muddled = TRUE
    <3>1. rows'[r].muddled \in BOOLEAN
      BY <1>1 DEF Inv, TypeOK, RowState
    <3> QED
      BY <1>3, <3>1 DEF Reborn
  <2> QED
    BY <1>2, <2>1, <2>2 DEF Grows
<1>5. Continues
  <2>1. \A d \in Calls : SameCall(calls[d], calls[d])
    BY <1>1 DEF Inv, TypeOK, SameCall
  <2> QED
    BY <1>2, <2>1 DEF Continues
<1>6. \A r \in Rows : ~rows'[r].muddled => \A d \in Calls : ~Own(d, r) /\ ~Own(d, r)'
  BY <1>2, <1>3 DEF Reborn, Own, InFlight
<1>7. OneCall'
  BY <1>6 DEF OneCall
<1>8. Named'
  <2> SUFFICES ASSUME NEW d \in Calls, calls'[d].pc # "idle"
               PROVE  /\ calls'[d].name[1] = calls'[d].row
                      /\ rows'[calls'[d].row].is.follows # "pairs" =>
                           \/ rows'[calls'[d].row].ref /\ rows'[calls'[d].row].is.alertName
                           \/ calls'[d].name = EventName(calls'[d].row)
    BY DEF Named, EventName
  <2>1. calls'[d] = calls[d] /\ calls[d].row \in Rows
    BY <1>1, <1>2 DEF Inv, CallsHaveRows
  <2>2. /\ calls[d].name[1] = calls[d].row
        /\ rows[calls[d].row].is.follows # "pairs" =>
                           \/ rows[calls[d].row].ref /\ rows[calls[d].row].is.alertName
                           \/ calls[d].name = EventName(calls[d].row)
    BY <1>2 DEF TruthInv, Truth, Named
  <2> QED
    BY <1>4, <2>1, <2>2 DEF Grows
<1>9. Alone' /\ FetchOld' /\ Unnamed'
  BY <1>2, <1>4, UnnamedStays DEF TruthInv, Truth, Alone, FetchOld
<1>10. ASSUME NEW r \in Rows PROVE Known(r)'
  <2>1. PICK S \in SUBSET Calls : S = Owners(r)
    BY DEF Owners
  <2>2. PICK n \in Names : n = EventName(r)
    BY NamesAre
  <2>3. Sees(r)' => Agrees(n, S)
    BY <1>1, <1>4, <2>1, <2>2, PlainBack DEF TruthInv, Truth, Known
  <2>4. Sees(r)' => Agrees(n, S)'
    BY <1>1, <2>3, AgreesRemount
  <2> QED
    BY <1>1, <1>4, <1>5, <2>1, <2>2, <2>4, KnownStays
<1>11. ASSUME NEW r \in Rows PROVE Kept(r)'
  <2> SUFFICES ASSUME Watched(r)' PROVE rows'[r].enabled = InService(r)'
    BY <1>6 DEF Kept, Watched, Plain
  <2>1. Watched(r) /\ ~rows'[r].muddled /\ ~rows[r].ref /\ (Sees(r)' => Sees(r))
    BY <1>1, <1>4, PlainBack, WatchedKinds DEF Watched, Plain
  <2>2. ~(canary /\ overlap) /\ ~(loading /\ rows[r].is.follows = "alerts")
    BY <1>3, <2>1 DEF Reborn
  <2>3. Sees(r)' /\ Sees(r)
    BY <1>2, <2>1, <2>2 DEF Sees, Watched
  <2>4. \A d \in Calls : ~Own(d, r) /\ ~Own(d, r)'
    BY <1>6, <2>1
  <2>5. Owners(r) = {} /\ Owners(r)' = {}
    BY <2>4 DEF Owners
  <2>6. alerts[EventName(r)] = server[EventName(r)]
    BY <2>3, <2>5 DEF TruthInv, Truth, Known, Agrees
  <2>7. alerts'[EventName(r)] = server'[EventName(r)]
    BY <1>10, <2>3, <2>5 DEF Known, Agrees, EventName
  <2>8. AlertName(r) = EventName(r) /\ AlertName(r)' = EventName(r)
    BY <1>4, <2>1 DEF AlertName, Grows, EventName
  <2>9. PICK t \in DOMAIN RowOf : rows[r].is = RowOf[t]
    BY <1>1 DEF Inv, TypeOK, RowState
  <2>10. CASE rows[r].is.follows = "once"
    <3>1. rows[r].is.deps = {}
      BY <2>9, <2>10, OnceKinds DEF OnceTraits
    <3>2. rows'[r].enabled = (alerts[AlertName(r)] # None)
      BY <1>3, <2>10, <3>1 DEF Reborn
    <3> QED
      BY <1>2, <2>6, <2>8, <3>2 DEF InService, EventName
  <2>11. CASE rows[r].is.follows = "alerts"
    <3>1. "alerts" \in rows[r].is.deps
      BY <2>9, <2>11, AlertsKinds, DirectPushKind
    <3>2. rows'[r].enabled = (alerts'[AlertName(r)] # None)
      BY <1>1, <2>2, <2>11, <3>1, RebornShows
    <3> QED
      BY <2>7, <2>8, <3>2 DEF InService, EventName
  <2> QED
    BY <2>1, <2>10, <2>11 DEF Watched
<1>12. Orderly'
  <2>1. PICK S \in SUBSET Calls : S = InFlight
    BY DEF InFlight
  <2>2. ASSUME ~overlap', \A q \in Rows : ~rows'[q].muddled, NEW n \in Names
        PROVE  Agrees(n, S)'
    <3>1. \A q \in Rows : ~rows[q].muddled
      BY <1>3, <2>2 DEF Reborn
    <3>2. Agrees(n, S)
      BY <1>2, <2>1, <2>2, <3>1 DEF TruthInv, Truth, Orderly
    <3> QED
      BY <1>1, <3>2, AgreesRemount
  <2> QED
    BY <1>1, <1>5, <2>1, <2>2, OrderlyStays
<1> QED
  BY <1>1, <1>7, <1>8, <1>9, <1>10, <1>11, <1>12 DEF TruthInv, Truth

-----------------------------------------------------------------------------
(* The truth of the toggles follows from what has been kept                *)

LEMMA InitTruth == Init => TruthInv
<1> SUFFICES ASSUME Init PROVE TruthInv
  OBVIOUS
<1>1. PICK types \in Cards, refs \in SUBSET Rows, stored \in [Rows -> Options \cup {None}] :
        /\ server = [n \in Names |->
             IF n[2] = "event" /\ RowOf[types[n[1]]].follows # "pairs" THEN stored[n[1]] ELSE None]
        /\ rows = [r \in Rows |->
             Mounted(NewRow(RowOf[types[r]], r \in refs),
                     server[<<r, IF r \in refs THEN "ref" ELSE "event">>], FALSE)]
  BY DEF Init
<1>2. Inv
  BY InitInv
<1>3. types \in [Rows -> DOMAIN RowOf]
  BY CardsAssumption
<1>4. /\ alerts = server /\ overlap = FALSE /\ fetch.data = server /\ (canary => fetch.state = "old")
      /\ server \in AlertsByName
  BY <1>2 DEF Init, Inv, TypeOK
<1>5. \A c \in Calls : calls[c].pc = "idle"
  BY IdleType DEF Init
<1>6. \A c \in Calls, r \in Rows : ~Own(c, r)
  BY <1>5 DEF Own
<1>7. ASSUME NEW r \in Rows, Watched(r)
      PROVE  rows[r].enabled = InService(r)
  <2> DEFINE name == <<r, IF r \in refs THEN "ref" ELSE "event">>
             is == RowOf[types[r]]
             new == NewRow(is, r \in refs)
  <2>1. name \in Names
    BY DEF Names, Parts
  <2>2. server[name] \in Options \cup {None}
    BY <1>4, <2>1 DEF AlertsByName
  <2>3. new \in RowState /\ new.is = is /\ new.ref = (r \in refs)
    BY <1>3 DEF NewRow, RowState
  <2>4. rows[r] = Mounted(new, server[name], FALSE)
    BY <1>1
  <2>5. types[r] \in DOMAIN RowOf
    BY <1>3
  <2>6. name = EventName(r) \/ r \in refs
    BY DEF EventName
  <2> DEFINE option == server[name]
             made == Mounted(new, option, FALSE)
  <2>12. option \in Options \cup {None} /\ rows[r] = made
    BY <2>2, <2>4
  <2> HIDE DEF name, new, option
  <2>13. Fresh(new, made) /\ (new.is.follows = "once" => made.enabled = (option # None))
    BY <2>3, <2>12, MountedFresh
  <2>14. new.is.follows # "once" /\ new.is.deps # {} => made.enabled = (option # None)
    BY <2>3, <2>12, MountedShows
  <2> HIDE DEF made, is
  <2>7. Fresh(new, rows[r]) /\ (is.follows = "once" => rows[r].enabled = (server[name] # None))
    BY <2>3, <2>12, <2>13 DEF option
  <2>8. name = EventName(r) /\ rows[r].is = is
    BY <1>2, <1>7, <2>3, <2>6, <2>7, WatchedKinds DEF Fresh
  <2>9. CASE is.follows = "once"
    BY <2>7, <2>8, <2>9 DEF InService
  <2>10. CASE is.follows = "alerts"
    <3>1. is.deps # {}
      BY <2>5, <2>10, AlertsKinds, DirectPushKind DEF is
    <3>2. rows[r].enabled = (server[name] # None)
      BY <2>3, <2>10, <2>12, <2>14, <3>1 DEF option
    <3> QED
      BY <2>8, <3>2 DEF InService
  <2> QED
    BY <1>7, <2>8, <2>9, <2>10 DEF Watched
<1>8. \A n \in Names, S \in SUBSET Calls : Agrees(n, S)
  BY <1>4, <1>5 DEF Agrees
<1>9. \A r \in Rows : Known(r)
  BY <1>8, NamesAre DEF Known, Owners
<1>10. \A r \in Rows : Kept(r)
  BY <1>6, <1>7 DEF Kept
<1>11. OneCall /\ Named /\ Alone /\ FetchOld
  BY <1>4, <1>5, <1>6 DEF OneCall, Named, Alone, FetchOld
<1>12. Unnamed
  <2>1. ASSUME NEW n \in Names, server[n] # None PROVE n = EventName(n[1])
    <3>1. n[2] = "event"
      BY <1>1, <2>1
    <3> QED
      BY <3>1 DEF Names, EventName
  <2> QED
    BY <2>1 DEF Unnamed
<1>13. Orderly
  BY <1>8 DEF Orderly, InFlight
<1> QED
  BY <1>2, <1>9, <1>10, <1>11, <1>12, <1>13 DEF TruthInv, Truth

LEMMA NextTruth == TruthInv /\ [Next]_vars => TruthInv'
<1> SUFFICES ASSUME TruthInv, [Next]_vars PROVE TruthInv'
  OBVIOUS
<1>1. Inv /\ Inv'
  BY NextInv DEF TruthInv
<1>2. CASE UNCHANGED vars
  <2>1. UNCHANGED <<canary, rows, alerts, loading, server, fetch, calls, clicks, failures, overlap>>
    BY <1>2 DEF vars
  <2>2. Grows /\ Continues /\ overlap' = overlap
    <3>1. \A d \in Calls : SameCall(calls[d], calls[d])
      BY <1>1 DEF Inv, TypeOK, SameCall
    <3> QED
      BY <1>1, <2>1, <3>1 DEF Grows, Continues, Inv, TypeOK
  <2>3. \A n \in Names, S \in SUBSET Calls : Agrees(n, S) => Agrees(n, S)'
    BY <2>1 DEF Agrees
  <2>4. ASSUME NEW r \in Rows PROVE Known(r)' /\ Kept(r)'
    <3>1. Known(r)'
      BY <2>1 DEF TruthInv, Truth, Known, Sees, Plain, Confused, Agrees, Owners, Own, EventName
    <3>2. Kept(r)'
      <4>1. Watched(r)' = Watched(r) /\ InService(r)' = InService(r)
        BY <2>1 DEF Watched, Sees, Plain, Confused, InService, EventName
      <4>2. \A c \in Calls : Own(c, r)' = Own(c, r)
        BY <2>1 DEF Own
      <4>3. \A c \in Calls : Foretold(rows[r], calls[c], InService(r))
                => Foretold(rows[r], calls[c], InService(r))'
        BY <2>1, <4>1 DEF Foretold, Shown
      <4> QED
        BY <2>1, <4>1, <4>2, <4>3 DEF TruthInv, Truth, Kept
    <3> QED
      BY <3>1, <3>2
  <2>5. FetchOld' /\ Unnamed' /\ Orderly'
    <3>1. Orderly'
      BY <2>1 DEF TruthInv, Truth, Orderly, Agrees, InFlight
    <3> QED
      BY <2>1, <2>2, <3>1, UnnamedStays DEF TruthInv, Truth, FetchOld
  <2> QED
    BY <1>1, <2>1, <2>2, <2>4, <2>5, TruthAgain
<1>3. ASSUME NEW r \in Rows, Act(r)
      PROVE  TruthInv'
  BY <1>1, <1>3, ActPresses, BeginTruth DEF Pressed
<1>4. ASSUME NEW c \in Calls, Progress(c)
      PROVE  TruthInv'
  BY <1>1, <1>4, LogInTruth, UpdateTruth, EnsureTruth, ReadTruth, RenderTruth, FailTruth DEF Progress
<1>5. CASE Remount
  BY <1>5, RemountTruth
<1>6. CASE FetchStep
  BY <1>1, <1>6, FetchAloneTruth, EndFetchTruth DEF FetchStep
<1> QED
  BY <1>2, <1>3, <1>4, <1>5, <1>6 DEF Next

\* What every state of every behaviour satisfies.
THEOREM TruthInvariance == Spec => []TruthInv
BY InitTruth, NextTruth, PTL DEF Spec

LEMMA QuietOwners ==
  ASSUME Quiet
  PROVE  /\ InFlight = {} /\ \A r \in Rows : Owners(r) = {}
         /\ \A c \in Calls, r \in Rows : ~Own(c, r)
BY DEF Quiet, InFlight, Owners, Own

\* When nothing is in flight, the context has the alerts of the service.
LEMMA QuietSees ==
  ASSUME TruthInv, Quiet
  PROVE  SeenTruth /\ \A r \in Rows : Sees(r) => alerts[EventName(r)] = server[EventName(r)]
<1>1. ASSUME NEW r \in Rows, Sees(r) PROVE alerts[EventName(r)] = server[EventName(r)]
  BY <1>1, QuietOwners DEF TruthInv, Truth, Known, Agrees
<1> QED
  BY <1>1 DEF SeenTruth, Sees

\* A row that keeps a state of its own is on exactly when the service has its alert,
\* whichever calls of other rows overlapped with its own.
THEOREM OwnTruthTheorem == Spec => []OwnTruth
<1>1. TruthInv => OwnTruth
  BY QuietOwners DEF OwnTruth, TruthInv, Truth, Kept, Watched
<1> QED
  BY <1>1, TruthInvariance, PTL

\* With the hook, the context has the alert of every row that nothing went wrong for,
\* although its calls share fetches that others began.
THEOREM SeenTruthTheorem == Spec => []SeenTruth
<1>1. TruthInv => SeenTruth
  <2>1. CASE Quiet
    BY <2>1, QuietSees
  <2>2. CASE ~Quiet
    BY <2>2 DEF SeenTruth
  <2> QED
    BY <2>1, <2>2
<1> QED
  BY <1>1, TruthInvariance, PTL

\* Where nothing has gone wrong and no calls have overlapped, the alerts of the
\* context are those of the service.
LEMMA QuietContext ==
  ASSUME TruthInv
  PROVE  ContextTruth
<1> SUFFICES ASSUME Quiet, ~overlap, \A r \in Rows : ~rows[r].muddled PROVE alerts = server
  BY DEF ContextTruth
<1>1. \A n \in Names : alerts[n] = server[n]
  BY QuietOwners DEF TruthInv, Truth, Orderly, Agrees
<1>2. alerts \in [Names -> Options \cup {None}] /\ server \in [Names -> Options \cup {None}]
  BY DEF TruthInv, Inv, TypeOK, AlertsByName
<1> QED
  BY <1>1, <1>2

-----------------------------------------------------------------------------
(* Rows that have a threshold                                              *)

\* The effect does nothing while the row is busy, or when nothing has changed.
LEMMA FollowBusy ==
  ASSUME NEW old, NEW new, NEW option, NEW rendered, NEW was, NEW busy, new.busy
  PROVE  Follow(old, new, option, rendered, was, busy) = new
<1>1. RunEffect(new, option, busy) = new
  BY DEF RunEffect
<1> QED
  BY <1>1 DEF Follow

LEMMA FollowStill ==
  ASSUME NEW old, NEW new, NEW option, NEW rendered, NEW was, NEW busy,
         ~rendered, was = busy, old.enabled = new.enabled, old.busy = new.busy
  PROVE  Follow(old, new, option, rendered, was, busy) = new
BY DEF Follow

\* It shows what the alert is when one of its dependencies has changed, or when the
\* row showed that already.
LEMMA FollowShows ==
  ASSUME NEW old, NEW new \in RowState, NEW option \in Options \cup {None}, NEW rendered, NEW was, NEW busy,
         ~busy, ~new.busy,
         \/ "alerts" \in new.is.deps /\ rendered
         \/ "loading" \in new.is.deps /\ was # busy
         \/ "busy" \in new.is.deps /\ old.busy # new.busy
         \/ new.enabled = (option # None)
  PROVE  Follow(old, new, option, rendered, was, busy).enabled = (option # None)
<1> DEFINE changed == {d \in new.is.deps :
                         \/ d = "alerts" /\ rendered
                         \/ d = "loading" /\ was # busy
                         \/ d = "enabled" /\ old.enabled # new.enabled
                         \/ d = "busy" /\ old.busy # new.busy}
<1>1. Follow(old, new, option, rendered, was, busy) =
        IF changed = {} THEN new ELSE RunEffect(new, option, busy)
  BY DEF Follow
<1>2. \/ changed # {} /\ new.is.deps # {}
      \/ changed = {} /\ new.enabled = (option # None)
  <2>1. changed # {} => new.is.deps # {}
    OBVIOUS
  <2>2. CASE new.enabled = (option # None)
    BY <2>1, <2>2
  <2>3. CASE \/ "alerts" \in new.is.deps /\ rendered
             \/ "loading" \in new.is.deps /\ was # busy
             \/ "busy" \in new.is.deps /\ old.busy # new.busy
    <3>1. changed # {}
      BY <2>3
    <3> QED
      BY <2>1, <3>1
  <2> QED
    BY <2>2, <2>3
<1> HIDE DEF changed
<1>3. CASE changed = {}
  BY <1>1, <1>2, <1>3
<1>4. CASE changed # {}
  BY <1>1, <1>2, <1>4, RunEffectShows
<1> QED
  BY <1>3, <1>4

\* What a commit does to a row with a threshold that did not change by itself.
Told(row, new, option, rendered, was, busy) ==
  /\ Same(row, new) /\ (row.busy => new = row)
  /\ ~row.busy /\ ~busy /\ (rendered \/ was # busy) => new.enabled = (option # None)
  /\ ~rendered /\ was = busy => new.enabled = row.enabled

Followers(is) == {"alerts", "loading"} \subseteq is.deps

LEMMA FollowTold ==
  ASSUME NEW old, NEW row \in RowState, NEW option \in Options \cup {None}, NEW rendered \in BOOLEAN,
         NEW was \in BOOLEAN, NEW busy \in BOOLEAN, Followers(row.is),
         old.enabled = row.enabled, old.busy = row.busy
  PROVE  Told(row, Follow(old, row, option, rendered, was, busy), option, rendered, was, busy)
<1> DEFINE new == Follow(old, row, option, rendered, was, busy)
<1>1. Same(row, new)
  BY FollowKeeps
<1>2. row.busy => new = row
  BY FollowBusy
<1>3. ~row.busy /\ ~busy /\ (rendered \/ was # busy) => new.enabled = (option # None)
  BY FollowShows DEF Followers
<1>4. ~rendered /\ was = busy => new = row
  BY FollowStill
<1> HIDE DEF new
<1>5. Told(row, new, option, rendered, was, busy)
  BY <1>1, <1>2, <1>3, <1>4 DEF Told
<1> QED
  BY <1>5 DEF new

\* All rows that follow the alerts, the other ones of rs aside.
AllTold(rs, shown, rendered, was, busy) ==
  \A r \in Rows : Followers(rows[r].is) => Told(rows[r], rs[r], shown[AlertName(r)], rendered, was, busy)

LEMMA FollowedTold ==
  ASSUME rows \in [Rows -> RowState], NEW shown \in AlertsByName, NEW rendered \in BOOLEAN,
         NEW was \in BOOLEAN, NEW busy \in BOOLEAN
  PROVE  AllTold(Followed(rows, rows, shown, rendered, was, busy), shown, rendered, was, busy)
<1> DEFINE rs == Followed(rows, rows, shown, rendered, was, busy)
<1>1. ASSUME NEW r \in Rows, Followers(rows[r].is)
      PROVE  Told(rows[r], rs[r], shown[AlertName(r)], rendered, was, busy)
  <2> DEFINE row == rows[r]
             option == shown[AlertName(r)]
  <2>1. rs[r] = Follow(row, row, option, rendered, was, busy)
    BY DEF Followed
  <2>2. row \in RowState /\ option \in Options \cup {None} /\ Followers(row.is)
    BY <1>1, NamesAre DEF AlertsByName
  <2> HIDE DEF rs, row, option
  <2>3. Told(row, rs[r], option, rendered, was, busy)
    BY <2>1, <2>2, FollowTold
  <2> QED
    BY <2>3 DEF row, option
<1> QED
  BY <1>1 DEF AllTold

\* The other rows, when a call ends.
LEMMA ConcludedTold ==
  ASSUME rows \in [Rows -> RowState], loading \in BOOLEAN, NEW k \in CallRecord, k.row \in Rows,
         NEW answered \in BOOLEAN, NEW found, NEW shown \in AlertsByName, NEW rendered \in BOOLEAN,
         NEW busy \in BOOLEAN, NEW batched \in BOOLEAN, NEW r \in Rows, r # k.row, Followers(rows[r].is)
  PROVE  Told(rows[r], Concluded(k, answered, found, shown, rendered, busy, batched)[r],
              shown[AlertName(r)], rendered, loading, busy)
<1> DEFINE rs == Concluded(k, answered, found, shown, rendered, busy, batched)
           first == IF batched THEN rows
                    ELSE Followed(rows, rows, shown, rendered, loading, loading)
           last == Continued(first, k, answered, found)
           seen == IF batched THEN first
                   ELSE [q \in Rows |-> [first[q] EXCEPT !.enabled = last[q].enabled]]
           both == batched /\ rendered
           option == shown[AlertName(r)]
           row == rows[r]
           a == first[r]
           b == seen[r]
<1>0. rows \in [Rows -> RowState]
  OBVIOUS
<1>1. rs = Followed(seen, last, shown, both, loading, busy)
  BY DEF Concluded
<1>2. option \in Options \cup {None}
  BY NamesAre DEF AlertsByName
<1>3. first \in [Rows -> RowState] /\ (batched => first = rows)
      /\ (~batched => Told(row, a, option, rendered, loading, loading))
  <2>1. CASE batched
    BY <2>1
  <2>2. CASE ~batched
    <3>1. first = Followed(rows, rows, shown, rendered, loading, loading)
      BY <2>2
    <3> HIDE DEF first
    <3>2. Follows(rows, first) /\ AllTold(first, shown, rendered, loading, loading)
      BY <1>0, <3>1, FollowedKeeps, FollowedTold
    <3> QED
      BY <2>2, <3>2 DEF Follows, AllTold
  <2> QED
    BY <2>1, <2>2
<1>4. last[r] = a
  <2> HIDE DEF first
  <2> QED
    BY <1>3, ContinuedAfter
<1>5. rs[r] = Follow(b, a, option, both, loading, busy)
  BY <1>1, <1>4 DEF Followed
<1>6. a \in RowState /\ Followers(a.is)
  <2>1. CASE batched
    BY <1>3, <2>1
  <2>2. CASE ~batched
    BY <1>3, <2>2 DEF Told, Same
  <2> QED
    BY <2>1, <2>2
<1>7. b.enabled = a.enabled /\ b.busy = a.busy
  <2>1. CASE batched
    BY <2>1
  <2>2. CASE ~batched
    <3>1. b = [a EXCEPT !.enabled = a.enabled]
      BY <1>4, <2>2
    <3> HIDE DEF a, b
    <3> QED
      BY <1>6, <3>1 DEF RowState
  <2> QED
    BY <2>1, <2>2
<1>8. both \in BOOLEAN /\ (batched => both = rendered /\ a = row) /\ (~batched => both = FALSE)
  OBVIOUS
<1> HIDE DEF rs, first, last, seen, both, a, b, option, row
<1>9. Told(a, rs[r], option, both, loading, busy)
  BY <1>2, <1>5, <1>6, <1>7, <1>8, FollowTold
<1>10. Told(row, rs[r], option, rendered, loading, busy)
  <2>1. CASE batched
    <3>1. both = rendered /\ a = row
      BY <1>8, <2>1
    <3> QED
      BY <1>9, <3>1
  <2>2. CASE ~batched
    <3>1. Told(a, rs[r], option, FALSE, loading, busy)
      <4>1. both = FALSE
        BY <1>8, <2>2
      <4> QED
        BY <1>9, <4>1
    <3>2. Told(row, a, option, rendered, loading, loading)
      BY <1>3, <2>2
    <3> DEFINE e == rs[r]
               was == loading
    <3>3. was \in BOOLEAN /\ Told(row, a, option, rendered, was, was) /\ Told(a, e, option, FALSE, was, busy)
      BY <3>1, <3>2
    <3> HIDE DEF e, was
    <3>4. Told(row, e, option, rendered, was, busy)
      <4>1. Same(row, a) /\ Same(a, e)
        BY <3>3 DEF Told
      <4>2. Same(row, e) /\ a.busy = row.busy
        BY <4>1 DEF Same
      <4>3. /\ row.busy => a = row
            /\ ~row.busy /\ ~was /\ rendered => a.enabled = (option # None)
            /\ ~rendered => a.enabled = row.enabled
        BY <3>3 DEF Told
      <4>4. /\ a.busy => e = a
            /\ ~a.busy /\ ~busy /\ was # busy => e.enabled = (option # None)
            /\ was = busy => e.enabled = a.enabled
        BY <3>3 DEF Told
      <4> QED
        BY <3>3, <4>2, <4>3, <4>4 DEF Told
    <3> QED
      BY <3>4 DEF e, was
  <2> QED
    BY <2>1, <2>2
<1> QED
  BY <1>10 DEF rs, row, option

\* The answer to a call of a row that shows what the answer says, or will.
LEMMA AnsweredShows ==
  ASSUME NEW row \in RowState, NEW k \in CallRecord, NEW found \in BOOLEAN, ~canary, row.mount = k.mount,
         row.is.subscribed \in {"check", "keep"}, row.is.unsubscribed \in {"check", "keep"},
         \/ row.enabled = found
         \/ /\ row.is.subscribed = "check" /\ row.is.unsubscribed = "check"
            /\ \/ k.op = "subscribe" /\ row.enabled = TRUE
               \/ k.op = "unsubscribe" /\ row.enabled = FALSE
  PROVE  Then(row, k, TRUE, found).enabled = found
<1> DEFINE new == Then(row, k, TRUE, found)
<1>1. CASE row.mount = k.mount /\ k.op = "subscribe"
  <2> DEFINE what == IF row.is.subscribed # "check" THEN row.is.subscribed
                     ELSE IF found THEN "keep" ELSE "off"
  <2>1. new = Shows(row, what)
    BY <1>1 DEF Then, Answered
  <2>2. Shows(row, what).enabled = IF what = "keep" THEN row.enabled ELSE (what = "on")
    BY ShowsKeeps
  <2>3. \/ what = "keep" /\ row.enabled = found
        \/ what = "off" /\ found = FALSE
    BY <1>1
  <2> HIDE DEF what, new
  <2>4. new.enabled = found
    BY <2>1, <2>2, <2>3
  <2> QED
    BY <2>4 DEF new
<1>2. CASE row.mount = k.mount /\ k.op = "unsubscribe"
  <2> DEFINE what == IF row.is.unsubscribed # "check" THEN row.is.unsubscribed
                     ELSE IF found /\ ~canary THEN "on" ELSE "keep"
             a == Shows(row, what)
  <2>1. new = [a EXCEPT !.typed = FALSE]
    BY <1>2 DEF Then, Answered
  <2>2. Same(row, a) /\ a.enabled = IF what = "keep" THEN row.enabled ELSE (what = "on")
    BY ShowsKeeps
  <2>3. \/ what = "keep" /\ row.enabled = found
        \/ what = "on" /\ found = TRUE
    BY <1>2
  <2> HIDE DEF what, new
  <2>4. a.enabled = found
    BY <2>2, <2>3
  <2>5. a \in RowState
    BY <2>2 DEF Same
  <2> HIDE DEF a
  <2>6. new.enabled = found
    BY <2>1, <2>4, <2>5, SameTyped
  <2> QED
    BY <2>6 DEF new
<1>3. CASE row.mount = k.mount /\ k.op = "choose"
  <2> DEFINE a == [row EXCEPT !.chosen = k.option]
  <2>1. new = [a EXCEPT !.typed = FALSE]
    BY <1>3 DEF Then, Answered, RowState
  <2>2. a \in RowState /\ a.enabled = row.enabled
    BY SameChosen DEF CallRecord, Same
  <2> HIDE DEF a, new
  <2>3. new.enabled = row.enabled
    BY <2>1, <2>2, SameTyped
  <2> QED
    BY <1>3, <2>3 DEF new
<1>4. CASE row.mount = k.mount /\ k.op = "custom"
  <2> DEFINE a == [row EXCEPT !.chosen = "custom"]
  <2>1. new = a
    BY <1>4 DEF Then, Answered
  <2>2. "custom" \in Options \cup {None}
    BY DEF Options
  <2>3. a.enabled = row.enabled
    BY <2>2, SameChosen
  <2> HIDE DEF a, new
  <2> QED
    BY <1>4, <2>1, <2>3 DEF new
<1>5. CASE k.op \notin {"subscribe", "unsubscribe", "choose", "custom"}
  <2>1. new = row
    BY <1>5 DEF Then, Answered
  <2> QED
    BY <1>5, <2>1
<1> QED
  BY <1>1, <1>2, <1>3, <1>4, <1>5

\* The row with a threshold whose call the hook has answered.
Answerable(k, found, shown, busy) ==
  /\ ~canary /\ RatioTraits(rows[k.row].is) /\ rows[k.row].mount = k.mount /\ ~busy
  /\ found = (shown[AlertName(k.row)] # None)
  /\ rows[k.row].is = HealthCheckRow => ~rows[k.row].busy
  /\ rows[k.row].is = FusionHealthCheckRow /\ rows[k.row].busy =>
       \/ rows[k.row].enabled = found
       \/ k.op = "subscribe" /\ rows[k.row].enabled = TRUE
       \/ k.op = "unsubscribe" /\ rows[k.row].enabled = FALSE

OwnShows(k, found, shown, busy, batched) ==
  Concluded(k, TRUE, found, shown, TRUE, busy, batched)[k.row].enabled = found

LEMMA OwnConcluded ==
  ASSUME rows \in [Rows -> RowState], loading \in BOOLEAN, NEW k \in CallRecord, k.row \in Rows,
         NEW found \in BOOLEAN, NEW shown \in AlertsByName, NEW busy \in BOOLEAN, NEW batched \in BOOLEAN,
         Answerable(k, found, shown, busy)
  PROVE  OwnShows(k, found, shown, busy, batched)
<1> DEFINE rs == Concluded(k, TRUE, found, shown, TRUE, busy, batched)
           first == IF batched THEN rows
                    ELSE Followed(rows, rows, shown, TRUE, loading, loading)
           last == Continued(first, k, TRUE, found)
           seen == IF batched THEN first
                   ELSE [q \in Rows |-> [first[q] EXCEPT !.enabled = last[q].enabled]]
           both == batched /\ TRUE
           r == k.row
           option == shown[AlertName(r)]
           row == rows[r]
           a == first[r]
           b == seen[r]
           e == last[r]
<1>0. rows \in [Rows -> RowState] /\ r \in Rows
  OBVIOUS
<1>1. rs = Followed(seen, last, shown, both, loading, busy)
  BY DEF Concluded
<1>2. option \in Options \cup {None}
  BY NamesAre DEF AlertsByName
<1>3. /\ ~canary /\ RatioTraits(row.is) /\ row.mount = k.mount /\ ~busy /\ found = (option # None)
      /\ row.is = HealthCheckRow => ~row.busy
      /\ row.is = FusionHealthCheckRow /\ row.busy =>
           \/ row.enabled = found
           \/ k.op = "subscribe" /\ row.enabled = TRUE
           \/ k.op = "unsubscribe" /\ row.enabled = FALSE
  BY DEF Answerable
<1>4. first \in [Rows -> RowState] /\ (batched => first = rows)
      /\ (~batched => Told(row, a, option, TRUE, loading, loading))
  <2>1. CASE batched
    BY <2>1
  <2>2. CASE ~batched
    <3>1. first = Followed(rows, rows, shown, TRUE, loading, loading)
      BY <2>2
    <3>2. Followers(row.is)
      BY <1>3 DEF RatioTraits, Followers
    <3> HIDE DEF first
    <3>3. Follows(rows, first) /\ AllTold(first, shown, TRUE, loading, loading)
      BY <1>0, <3>1, FollowedKeeps, FollowedTold
    <3> QED
      BY <2>2, <3>2, <3>3 DEF Follows, AllTold
  <2> QED
    BY <2>1, <2>2
<1>5. Same(row, a) /\ a \in RowState /\ (batched => a = row)
  <2>1. CASE batched
    BY <1>0, <1>4, <2>1, SameSelf
  <2>2. CASE ~batched
    BY <1>4, <2>2 DEF Told, Same
  <2> QED
    BY <2>1, <2>2
<1>6. After(a, k, e) /\ e.enabled = Then(a, k, TRUE, found).enabled
  <2> DEFINE then == Then(first[k.row], k, TRUE, found)
             answered == TRUE
  <2>1. answered \in BOOLEAN /\ last = Continued(first, k, answered, found)
        /\ then = Then(first[k.row], k, answered, found)
    OBVIOUS
  <2> HIDE DEF first, rs, seen, both, row, option, b, answered, then, last
  <2>2. last[k.row].enabled = then.enabled /\ After(first[k.row], k, last[k.row])
    BY <1>4, <2>1, ContinuedAfter
  <2> QED
    BY <2>2 DEF then
<1>7. e \in RowState /\ e.is = row.is /\ ~e.busy /\ a.mount = k.mount /\ a.is = row.is /\ a.busy = row.busy
  BY <1>3, <1>5, <1>6 DEF After, Same
<1>8. ~batched => b.busy = a.busy
  <2>1. ~batched => b = [a EXCEPT !.enabled = e.enabled]
    OBVIOUS
  <2> HIDE DEF first, a, b, e
  <2>2. ~batched => b.busy = a.busy
    BY <1>5, <1>6, <2>1, SameEnabled DEF Same, After, RowState
  <2> QED
    BY <2>2
<1>9. rs[r] = Follow(b, e, option, both, loading, busy)
  BY <1>1 DEF Followed
<1>10. (batched => both = TRUE) /\ {"alerts", "loading"} \subseteq e.is.deps
       /\ e.is.subscribed \in {"check", "keep"} /\ e.is.unsubscribed \in {"check", "keep"}
  BY <1>3, <1>7 DEF RatioTraits
<1>11. Then(a, k, TRUE, found).enabled = found
          \/ batched \/ loading
          \/ ("busy" \in e.is.deps /\ b.busy # e.busy)
  <2> SUFFICES ASSUME ~batched, ~loading 
               PROVE  \/ Then(a, k, TRUE, found).enabled = found
                      \/ ("busy" \in e.is.deps /\ b.busy # e.busy)
    OBVIOUS
  <2> HIDE DEF rs, first, last, seen, both, a, b, e, row, option
  <2>1. a.is.subscribed \in {"check", "keep"} /\ a.is.unsubscribed \in {"check", "keep"}
    BY <1>7, <1>10
  <2>2. CASE ~row.busy
    <3>1. a.enabled = found
      BY <1>3, <1>4, <2>2 DEF Told
    <3>2. a \in RowState /\ a.mount = k.mount /\ ~canary
      BY <1>3, <1>5, <1>7
    <3>3. Then(a, k, TRUE, found).enabled = found
      BY <2>1, <3>1, <3>2, AnsweredShows
    <3> QED
      BY <3>3
  <2>3. CASE row.busy /\ row.is = FusionHealthCheckRow
    <3>1. a = row
      BY <1>4, <2>3 DEF Told
    <3>2. a.is.subscribed = "check" /\ a.is.unsubscribed = "check"
      BY <1>7, <2>3, RatioAnswers
    <3>3. a \in RowState /\ a.mount = k.mount /\ ~canary
      BY <1>3, <1>5, <1>7
    <3>4. \/ a.enabled = found
          \/ k.op = "subscribe" /\ a.enabled = TRUE
          \/ k.op = "unsubscribe" /\ a.enabled = FALSE
      BY <1>3, <2>3, <3>1
    <3>5. Then(a, k, TRUE, found).enabled = found
      BY <2>1, <3>2, <3>3, <3>4, AnsweredShows
    <3> QED
      BY <3>5
  <2>4. CASE row.busy /\ row.is = CustomHealthCheckRow
    <3>1. "busy" \in e.is.deps
      BY <1>3, <1>7, <2>4 DEF RatioTraits
    <3> QED
      BY <1>7, <1>8, <2>4, <3>1
  <2>5. row.busy => row.is \in {FusionHealthCheckRow, CustomHealthCheckRow}
    BY <1>3 DEF RatioTraits
  <2> QED
    BY <2>2, <2>3, <2>4, <2>5
<1> HIDE DEF rs, first, last, seen, both, a, b, e, row, option, r
<1>12. \/ "alerts" \in e.is.deps /\ both
       \/ "loading" \in e.is.deps /\ loading # busy
       \/ "busy" \in e.is.deps /\ b.busy # e.busy
       \/ e.enabled = (option # None)
  <2>1. CASE batched
    BY <1>10, <2>1
  <2>2. CASE loading
    BY <1>3, <1>10, <2>2
  <2>3. CASE "busy" \in e.is.deps /\ b.busy # e.busy
    BY <2>3
  <2>4. CASE Then(a, k, TRUE, found).enabled = found
    <3>1. e.enabled = found
      BY <1>6, <2>4
    <3> QED
      BY <1>3, <3>1
  <2> QED
    BY <1>11, <2>1, <2>2, <2>3, <2>4
<1>13. rs[r].enabled = (option # None)
  <2> DEFINE new == Follow(b, e, option, both, loading, busy)
  <2>1. ~busy /\ ~e.busy /\ e \in RowState
    BY <1>3, <1>7
  <2>2. new.enabled = (option # None)
    BY <1>2, <1>12, <2>1, FollowShows
  <2>3. rs[r] = new
    BY <1>9
  <2> HIDE DEF new
  <2> QED
    BY <2>2, <2>3
<1>14. rs[r].enabled = found
  BY <1>3, <1>13
<1> QED
  BY <1>14 DEF rs, r, OwnShows

-----------------------------------------------------------------------------
(* What is kept of the rows that have a threshold                          *)

Rated(r) == Plain(r) /\ rows[r].is.follows = "ratio"

\* The row waits for the fetch that follows its call.
Reading(r) == canary /\ \E c \in Calls : Own(c, r) /\ calls[c].pc \in {"read", "render"}

\* A row that waits for nothing shows what the context has.
Minds(r) ==
  Rated(r) /\ ~loading /\ ~rows[r].busy /\ ~Reading(r) => rows[r].enabled = Seen(r)

Promises(r) ==
  Rated(r) /\ rows[r].is = FusionHealthCheckRow /\ ~canary =>
    \A c \in Calls : Own(c, r) => Promised(rows[r], calls[c], InService(r))

\* The loading flag of the card is all that a health check row waits with.
FlagKept == \A r \in Rows : rows[r].is = HealthCheckRow => ~rows[r].busy

RatioInv == TruthInv /\ FlagKept /\ \A r \in Rows : Minds(r) /\ Promises(r)

\* A step that is not of the row: it stays as it is, or shows what the context has.
Steady(r) ==
  /\ Same(rows[r], rows'[r])
  /\ rows[r].busy => rows'[r].enabled = rows[r].enabled
  /\ ~rows[r].busy /\ ~loading' =>
       \/ rows'[r].enabled = (alerts'[AlertName(r)] # None)
       \/ /\ ~loading /\ alerts' = alerts /\ rows'[r].enabled = rows[r].enabled
          /\ Reading(r) => Reading(r)'

\* Its calls do not get ahead of the service.
Onward(r) ==
  /\ InService(r)' = InService(r)
  /\ \A d \in Calls : Own(d, r) /\ calls'[d].pc \in {"read", "render"} => calls[d].pc \in {"read", "render"}

LEMMA RatedBack ==
  ASSUME Inv, Grows, NEW r \in Rows, Rated(r)'
  PROVE  Rated(r) /\ Plain(r) /\ ~rows'[r].muddled /\ rows[r].is.follows = "ratio"
         /\ AlertName(r)' = EventName(r) /\ AlertName(r) = EventName(r)
<1>1. Plain(r)
  BY PlainBack DEF Rated
<1>2. rows'[r].is = rows[r].is /\ rows'[r].ref = rows[r].ref /\ ~rows[r].ref
  BY <1>1 DEF Grows, Plain, Confused
<1>3. AlertName(r)' = EventName(r) /\ AlertName(r) = EventName(r)
  BY <1>2 DEF AlertName, EventName
<1>4. rows[r].is.follows = "ratio" /\ ~rows'[r].muddled
  BY <1>2 DEF Rated, Plain
<1> QED
  BY <1>1, <1>3, <1>4 DEF Rated

LEMMA MindsStay ==
  ASSUME RatioInv, Grows, NEW r \in Rows, Rated(r)' => Steady(r)
  PROVE  Minds(r)'
<1> SUFFICES ASSUME Rated(r)', ~loading', ~rows'[r].busy, ~Reading(r)'
             PROVE  rows'[r].enabled = Seen(r)'
  BY DEF Minds
<1>1. Rated(r) /\ AlertName(r) = EventName(r)
  BY RatedBack DEF RatioInv, TruthInv
<1>2. ~rows[r].busy
  BY DEF Steady, Same
<1>3. CASE rows'[r].enabled = (alerts'[AlertName(r)] # None)
  BY <1>1, <1>3 DEF Seen, EventName
<1>4. CASE ~loading /\ alerts' = alerts /\ rows'[r].enabled = rows[r].enabled /\ ~Reading(r)
  <2>1. rows[r].enabled = Seen(r)
    BY <1>1, <1>2, <1>4 DEF RatioInv, Minds
  <2> QED
    BY <1>4, <2>1 DEF Seen, EventName
<1> QED
  BY <1>2, <1>3, <1>4 DEF Steady

LEMMA PromisesStay ==
  ASSUME RatioInv, Grows, Continues, NEW r \in Rows, Rated(r)' => Steady(r) /\ Onward(r)
  PROVE  Promises(r)'
<1> SUFFICES ASSUME Rated(r)', rows'[r].is = FusionHealthCheckRow, ~canary', NEW d \in Calls, Own(d, r)'
             PROVE  Promised(rows'[r], calls'[d], InService(r)')
  BY DEF Promises, Promised
<1>1. Rated(r) /\ rows[r].is = FusionHealthCheckRow /\ ~canary
  BY RatedBack DEF RatioInv, TruthInv, Grows
<1>2. Own(d, r) /\ SameCall(calls[d], calls'[d])
  BY OwnBack
<1>3. Promised(rows[r], calls[d], InService(r))
  BY <1>1, <1>2 DEF RatioInv, Promises
<1>4. rows'[r].busy = TRUE /\ rows'[r].enabled = rows[r].enabled
  BY <1>3 DEF Promised, Steady, Same
<1>5. calls'[d].op = calls[d].op /\ InService(r)' = InService(r)
      /\ (calls'[d].pc \in {"read", "render"} => calls[d].pc \in {"read", "render"})
  BY <1>2 DEF SameCall, Onward
<1> QED
  BY <1>3, <1>4, <1>5 DEF Promised

\* A row with a threshold after a commit.
LEMMA ToldSteady ==
  ASSUME Inv, Inv', NEW r \in Rows, NEW mid, NEW rendered \in BOOLEAN,
         Told(rows[r], mid, alerts'[AlertName(r)], rendered, loading, loading'),
         Same(mid, rows'[r]), rows'[r].enabled = mid.enabled,
         ~rendered => alerts' = alerts /\ (Reading(r) => Reading(r)')
  PROVE  Steady(r)
<1>1. loading \in BOOLEAN /\ loading' \in BOOLEAN /\ Same(rows[r], rows'[r])
  BY SameTransitive DEF Inv, TypeOK, Told
<1>2. rows[r].busy => rows'[r].enabled = rows[r].enabled
  BY DEF Told
<1>3. CASE rendered \/ loading # loading'
  BY <1>1, <1>2, <1>3 DEF Told, Steady
<1>4. CASE ~rendered /\ loading = loading'
  BY <1>1, <1>2, <1>4 DEF Told, Steady
<1> QED
  BY <1>3, <1>4

LEMMA RatedFollows ==
  ASSUME Inv, NEW r \in Rows, rows[r].is.follows = "ratio"
  PROVE  Followers(rows[r].is)
BY RatioRows DEF RatioTraits, Followers

LEMMA RatioAgain ==
  ASSUME RatioInv, TruthInv',
         \A r \in Rows : /\ rows'[r].is = rows[r].is
                         /\ rows[r].is = HealthCheckRow /\ rows'[r].busy => rows[r].busy,
         \A r \in Rows : Minds(r)' /\ Promises(r)'
  PROVE  RatioInv'
<1>1. FlagKept'
  <2> SUFFICES ASSUME NEW r \in Rows, rows'[r].is = HealthCheckRow PROVE ~rows'[r].busy
    BY DEF FlagKept
  <2>1. rows[r].is = HealthCheckRow
    OBVIOUS
  <2>2. ~rows[r].busy
    BY <2>1 DEF RatioInv, FlagKept
  <2> QED
    BY <2>1, <2>2
<1> QED
  BY <1>1 DEF RatioInv

\* All rows have followed.
LEMMA FollowedRatio ==
  ASSUME RatioInv, TruthInv', Grows, Continues, NEW rendered \in BOOLEAN,
         rows' = Followed(rows, rows, alerts', rendered, loading, loading), loading' = loading,
         ~rendered => alerts' = alerts,
         \A r \in Rows : (Reading(r) => Reading(r)' \/ rendered) /\ (Rated(r)' => Onward(r))
  PROVE  RatioInv'
<1>1. Inv /\ Inv' /\ rows \in [Rows -> RowState] /\ alerts' \in AlertsByName /\ loading \in BOOLEAN
  BY DEF RatioInv, TruthInv, Inv, TypeOK
<1>2. AllTold(rows', alerts', rendered, loading, loading) /\ Follows(rows, rows')
  <2> DEFINE shown == alerts'
             was == loading
  <2>1. shown \in AlertsByName /\ was \in BOOLEAN
        /\ rows' = Followed(rows, rows, shown, rendered, was, was)
    BY <1>1
  <2> HIDE DEF shown, was
  <2>2. AllTold(rows', shown, rendered, was, was) /\ Follows(rows, rows')
    BY <1>1, <2>1, FollowedTold, FollowedKeeps
  <2> QED
    BY <2>2 DEF shown, was
<1>3. ASSUME NEW r \in Rows, Rated(r)' PROVE Steady(r)
  <2>1. Followers(rows[r].is)
    BY <1>1, <1>3, RatedBack, RatedFollows
  <2>2. AlertName(r)' = AlertName(r)
    BY <1>1, <1>3, RatedBack
  <2>3. Told(rows[r], rows'[r], alerts'[AlertName(r)], rendered, loading, loading')
    BY <1>2, <2>1 DEF AllTold
  <2>4. Same(rows'[r], rows'[r])
    BY <1>1, SameSelf DEF Inv, TypeOK
  <2> QED
    BY <1>1, <2>3, <2>4, ToldSteady
<1>4. \A r \in Rows : Minds(r)' /\ Promises(r)'
  BY <1>3, MindsStay, PromisesStay
<1>5. \A r \in Rows : rows'[r].is = rows[r].is /\ rows'[r].busy = rows[r].busy
  BY <1>2 DEF Follows, Same
<1> QED
  BY <1>4, <1>5, RatioAgain

\* Nothing has changed that a row shows.
LEMMA StillRatio ==
  ASSUME RatioInv, TruthInv', Grows, Continues, UNCHANGED <<rows, alerts, loading>>,
         \A r \in Rows : (Reading(r) => Reading(r)') /\ (Rated(r)' => Onward(r))
  PROVE  RatioInv'
<1>1. Inv /\ rows \in [Rows -> RowState]
  BY DEF RatioInv, TruthInv, Inv, TypeOK
<1>2. ASSUME NEW r \in Rows PROVE Steady(r)
  BY <1>1, SameSelf DEF Steady
<1>3. \A r \in Rows : Minds(r)' /\ Promises(r)'
  BY <1>2, MindsStay, PromisesStay
<1> QED
  BY <1>3, RatioAgain

LEMMA FetchAloneRatio ==
  ASSUME RatioInv, TruthInv', AnswerFetch \/ FailFetch \/ Expire
  PROVE  RatioInv'
<1>1. UNCHANGED <<canary, rows, alerts, loading, server, calls, overlap>>
  BY DEF AnswerFetch, FailFetch, Expire
<1>2. Inv /\ rows \in [Rows -> RowState]
  BY DEF RatioInv, TruthInv, Inv, TypeOK
<1>3. Grows /\ Continues
  BY <1>1, <1>2, ContinuesSame, GrowsRows
<1>4. \A r \in Rows : (Reading(r) => Reading(r)') /\ Onward(r)
  BY <1>1 DEF Reading, Own, Onward, InService, EventName
<1> QED
  BY <1>1, <1>3, <1>4, StillRatio

LEMMA ReadRatio ==
  ASSUME RatioInv, TruthInv', NEW c \in Calls, Read(c)
  PROVE  RatioInv'
<1> DEFINE m == [calls[c] EXCEPT !.pc = "render"]
           l == [m EXCEPT !.data = server]
<1>1. UNCHANGED <<canary, rows, alerts, loading, server, fetch, overlap>> /\ calls[c].pc = "read"
  BY DEF Read
<1>2. /\ Inv /\ rows \in [Rows -> RowState] /\ calls[c] \in CallRecord /\ server \in AlertsByName
  BY DEF RatioInv, TruthInv, Inv, TypeOK
<1>4. SameCall(calls[c], l) /\ l.pc = "render"
  <2>1. SameCall(calls[c], m) /\ m.pc = "render"
    BY <1>2, Moves
  <2>2. m \in CallRecord
    BY <2>1 DEF SameCall
  <2> HIDE DEF m
  <2>3. SameCall(m, l) /\ l.pc = m.pc
    BY <1>2, <2>2, Loads
  <2> QED
    BY <2>1, <2>3, SameCallTransitive
<1>5. calls' = [calls EXCEPT ![c] = l]
  BY <1>2 DEF Read, CallRecord
<1> HIDE DEF l
<1>6. l \in CallRecord
  BY <1>4 DEF SameCall
<1>7. Continues /\ calls'[c] = l /\ \A d \in Calls : d # c => calls'[d] = calls[d]
  BY <1>1, <1>2, <1>4, <1>5, <1>6, ContinuesOne
<1>8. Grows
  BY <1>1, <1>2, GrowsRows
<1>9. ASSUME NEW r \in Rows PROVE (Reading(r) => Reading(r)') /\ Onward(r)
  <2>1. \A d \in Calls : Own(d, r) => Own(d, r)' /\ (calls'[d].pc \in {"read", "render"} <=>
                                                     calls[d].pc \in {"read", "render"})
    BY <1>1, <1>4, <1>7 DEF Own, SameCall
  <2> QED
    BY <1>1, <2>1 DEF Reading, Onward, InService, EventName
<1> QED
  BY <1>1, <1>7, <1>8, <1>9, StillRatio

LEMMA EndFetchRatio ==
  ASSUME RatioInv, TruthInv', EndFetch
  PROVE  RatioInv'
<1>1. /\ UNCHANGED <<canary, loading, server, overlap>> /\ ~canary
      /\ rows' = Followed(rows, rows, alerts', fetch.viewed, loading, loading)
      /\ ~fetch.viewed => alerts' = alerts
  BY DEF EndFetch, RatioInv, TruthInv, Truth, FetchOld
<1>2. Inv /\ rows \in [Rows -> RowState] /\ fetch.viewed \in BOOLEAN
  BY DEF RatioInv, TruthInv, Inv, TypeOK, FetchRecord
<1>3. Follows(rows, rows') /\ RowsSame /\ alerts' \in AlertsByName
  BY <1>2, EndFetchLeaves
<1>4. \A c \in Calls : Woken(calls[c], calls'[c])
  BY <1>2, EndFetchWakes DEF Inv, TypeOK
<1>5. \A r \in Rows : /\ rows'[r].is = rows[r].is /\ rows'[r].ref = rows[r].ref
                      /\ rows'[r].muddled = rows[r].muddled /\ rows'[r].mount = rows[r].mount
  BY <1>3 DEF Follows, Same
<1>6. Grows
  BY <1>1, <1>2, <1>3, <1>5, GrowsRows DEF RowsSame
<1>7. \A c \in Calls : /\ SameCall(calls[c], calls'[c])
                       /\ calls'[c].pc = "idle" <=> calls[c].pc = "idle"
                       /\ calls'[c].pc \in {"read", "render"} => calls[c].pc \in {"read", "render"}
  <2> TAKE c \in Calls
  <2> DEFINE k == calls[c]
             l == calls'[c]
  <2>1. Woken(k, l)
    BY <1>4
  <2> HIDE DEF k, l
  <2>2. /\ SameCall(k, l) /\ (l.pc = "idle" <=> k.pc = "idle")
        /\ l.pc \in {"read", "render"} => k.pc \in {"read", "render"}
    BY <2>1 DEF Woken
  <2> QED
    BY <2>2 DEF k, l
<1>8. Continues
  BY <1>7 DEF Continues
<1>9. \A r \in Rows : ~Reading(r) /\ Onward(r)
  BY <1>1, <1>7 DEF Reading, Onward, InService, EventName
<1> DEFINE viewed == fetch.viewed
<1>10. viewed \in BOOLEAN /\ rows' = Followed(rows, rows, alerts', viewed, loading, loading)
       /\ (~viewed => alerts' = alerts)
  BY <1>1, <1>2
<1> HIDE DEF viewed
<1> QED
  BY <1>1, <1>6, <1>8, <1>9, <1>10, FollowedRatio

LEMMA LogInRatio ==
  ASSUME RatioInv, TruthInv', NEW c \in Calls, LogIn(c)
  PROVE  RatioInv'
<1> DEFINE m == [calls[c] EXCEPT !.pc = "request"]
           l == [m EXCEPT !.replaced = FALSE]
<1>1. /\ UNCHANGED <<canary, loading, server, fetch, overlap>> /\ calls[c].pc = "enter"
      /\ rows' = Followed(rows, rows, alerts', TRUE, loading, loading) /\ alerts' = calls[c].data
  BY DEF LogIn
<1>2. Inv /\ rows \in [Rows -> RowState] /\ calls[c] \in CallRecord
  BY DEF RatioInv, TruthInv, Inv, TypeOK
<1>3. alerts' \in AlertsByName /\ Follows(rows, rows')
  BY <1>1, <1>2, FollowedKeeps DEF CallRecord
<1>4. SameCall(calls[c], l) /\ l.pc = "request"
  <2>1. SameCall(calls[c], m) /\ m.pc = "request"
    BY <1>2, Moves
  <2>2. m \in CallRecord
    BY <2>1 DEF SameCall
  <2> HIDE DEF m
  <2>3. SameCall(m, l) /\ l.pc = m.pc
    BY <2>2, Replaces
  <2> QED
    BY <2>1, <2>3, SameCallTransitive
<1>5. calls' = [calls EXCEPT ![c] = l]
  BY <1>2 DEF LogIn, CallRecord
<1> HIDE DEF l
<1>6. l \in CallRecord
  BY <1>4 DEF SameCall
<1>7. Continues /\ calls'[c] = l /\ \A d \in Calls : d # c => calls'[d] = calls[d]
  BY <1>1, <1>2, <1>4, <1>5, <1>6, ContinuesOne
<1>8. \A r \in Rows : /\ rows'[r].is = rows[r].is /\ rows'[r].ref = rows[r].ref
                      /\ rows'[r].muddled = rows[r].muddled /\ rows'[r].mount = rows[r].mount
  BY <1>3 DEF Follows, Same
<1>9. Grows
  BY <1>1, <1>2, <1>3, <1>8, GrowsRows DEF Follows
<1>10. \A r \in Rows : Onward(r)
  BY <1>1, <1>4, <1>7 DEF Onward, InService, EventName, Own
<1> QED
  BY <1>1, <1>7, <1>9, <1>10, FollowedRatio

\* The other rows after the update of a call, and its own row.
LEMMA UpdateTold ==
  ASSUME Inv, Inv', NEW c \in Calls, Update(c), NEW held, NEW from, Updates(c, held, from),
         calls[c].row \in Rows, NEW r \in Rows, Rated(r), Rated(r)', AlertName(r)' = AlertName(r)
  PROVE  Steady(r)
<1> DEFINE k == calls[c]
           rs == Followed(rows, rows, alerts, FALSE, loading, FALSE)
           r0 == k.row
           bad == Stale(k, from) \/ (Blind(k) /\ server'[k.name] = None)
           m == rs[r0].muddled \/ bad
           on == [rs EXCEPT ![r0].muddled = m]
           was == loading
           no == FALSE
<1>1. rows' = [rs EXCEPT ![r0].muddled = @ \/ bad]
  BY DEF Updates
<1>2. rows \in [Rows -> RowState] /\ alerts \in AlertsByName /\ loading' = FALSE /\ alerts' = alerts /\ ~canary
      /\ was \in BOOLEAN /\ no \in BOOLEAN
  BY DEF Inv, TypeOK, Update
<1>3. rs = Followed(rows, rows, alerts, no, was, no)
  OBVIOUS
<1> HIDE DEF rs, was, no
<1>4. Follows(rows, rs) /\ AllTold(rs, alerts, no, was, no)
  BY <1>2, <1>3, FollowedKeeps, FollowedTold
<1>5. rs \in [Rows -> RowState] /\ r0 \in Rows
  BY <1>4 DEF Follows
<1>6. rows' = on
  BY <1>1, <1>5
<1>7. m \in BOOLEAN
  <2> HIDE DEF bad
  <2>1. bad \in BOOLEAN
    BY DEF bad, Stale, Blind
  <2> QED
    BY <1>5, <2>1 DEF RowState
<1> HIDE DEF m, bad
<1>8. Muddles(rs, r0, m, on)
  BY <1>5, <1>7, MuddledSame
<1>9. Same(rs[r], rows'[r]) /\ rows'[r].enabled = rs[r].enabled
  BY <1>6, <1>8 DEF Muddles
<1>10. Followers(rows[r].is)
  BY RatedFollows DEF Rated
<1>11. Told(rows[r], rs[r], alerts[AlertName(r)], no, was, no)
  BY <1>4, <1>10 DEF AllTold
<1>12. Told(rows[r], rs[r], alerts'[AlertName(r)], FALSE, loading, loading')
  BY <1>2, <1>11 DEF was, no
<1>13. ~Reading(r)
  BY <1>2 DEF Reading
<1> DEFINE mid == rs[r]
<1>14. Told(rows[r], mid, alerts'[AlertName(r)], FALSE, loading, loading')
       /\ Same(mid, rows'[r]) /\ rows'[r].enabled = mid.enabled
  BY <1>9, <1>12
<1> HIDE DEF mid
<1> QED
  BY <1>2, <1>13, <1>14, ToldSteady

LEMMA UpdateRatio ==
  ASSUME RatioInv, TruthInv', NEW c \in Calls, Update(c)
  PROVE  RatioInv'
<1> DEFINE k == calls[c]
<1>1. /\ UNCHANGED <<canary, alerts, overlap>> /\ ~canary /\ k.pc = "request" /\ server' \in Written(k)
  BY DEF Update
<1>2. /\ Inv /\ Inv' /\ rows \in [Rows -> RowState] /\ k \in CallRecord /\ k.row \in Rows
      /\ k.name[1] = k.row /\ TruthInv
  BY <1>1 DEF RatioInv, TruthInv, Inv, TypeOK, CallsHaveRows, Truth, Named
<1>3. PICK held, from : Updates(c, held, from)
  BY UpdateDoes
<1>4. /\ Continues /\ SameCall(k, calls'[c]) /\ calls'[c].pc \in {"read", "render"}
      /\ \A d \in Calls : d # c => calls'[d] = calls[d]
  BY <1>2, <1>3, UpdateMoves
<1>5. /\ RowsSame
      /\ \A r \in Rows : r # k.row => rows'[r].muddled = rows[r].muddled
      /\ rows'[k.row].muddled =
              (rows[k.row].muddled \/ Stale(k, from) \/ (Blind(k) /\ server'[k.name] = None))
  BY <1>2, <1>3, UpdateRows
<1>7. \A r \in Rows : /\ rows'[r].is = rows[r].is /\ rows'[r].ref = rows[r].ref
                      /\ rows[r].muddled = TRUE => rows'[r].muddled = TRUE
                      /\ rows'[r].busy = rows[r].busy
  BY <1>5 DEF RowsSame, Same
<1>8. Grows
  BY <1>1, <1>2, <1>5, <1>7, GrowsRows DEF RowsSame
<1>9. server' \in Outcomes(k)
  BY <1>1 DEF Outcomes
<1>10. \A r \in Rows : r # k.row /\ Plain(r) => server'[EventName(r)] = server[EventName(r)]
  BY <1>1, <1>2, <1>9, WritesOnly
<1>11. ASSUME NEW r \in Rows, Rated(r)' PROVE Rated(r) /\ Steady(r)
  <2>1. Rated(r) /\ AlertName(r)' = AlertName(r)
    BY <1>2, <1>8, <1>11, RatedBack
  <2> QED
    BY <1>2, <1>3, <1>11, <2>1, UpdateTold
<1>12. \A r \in Rows : Minds(r)'
  BY <1>8, <1>11, MindsStay
<1>13. ASSUME NEW r \in Rows PROVE Promises(r)'
  <2>1. CASE r # k.row
    <3>1. \A d \in Calls : Own(d, r) => d # c /\ calls'[d] = calls[d]
      BY <1>4, <2>1 DEF Own
    <3>2. Rated(r)' => Onward(r)
      BY <1>10, <1>11, <2>1, <3>1 DEF Onward, Rated, InService, EventName
    <3> QED
      BY <1>4, <1>8, <1>11, <3>2, PromisesStay
  <2>2. CASE r = k.row
    <3> SUFFICES ASSUME Rated(r)', rows'[r].is = FusionHealthCheckRow, ~canary', NEW d \in Calls, Own(d, r)'
                 PROVE  Promised(rows'[r], calls'[d], InService(r)')
      BY DEF Promises, Promised
    <3>1. Rated(r) /\ Steady(r) /\ rows[r].is = FusionHealthCheckRow /\ ~rows'[r].muddled /\ ~rows[r].muddled
          /\ ~rows[r].ref /\ r \in Rows
      BY <1>2, <1>7, <1>8, <1>11, RatedBack DEF Plain, Confused, Rated
    <3>2. Own(c, r) /\ Own(d, r)
      BY <1>1, <1>4, <2>2, OwnBack DEF Own
    <3>3. d = c
      BY <1>2, <3>1, <3>2 DEF TruthInv, Truth, OneCall
    <3>4. Promised(rows[r], k, InService(r))
      BY <1>1, <3>1, <3>2 DEF RatioInv, Promises
    <3>5. rows'[r].busy = TRUE /\ rows'[r].enabled = rows[r].enabled
      BY <1>7, <3>1, <3>4 DEF Promised, Steady
    <3>6. k.op \in {"choose", "custom"} => InService(r)'
      <4>1. k.name = EventName(r)
        BY <1>2, <2>2, <3>1, <3>2 DEF TruthInv, Truth, Named, Own, Rated
      <4>2. k.op \in {"choose", "custom"} => Blind(k)
        BY <2>2, <3>1 DEF Blind
      <4>3. ~(Blind(k) /\ server'[k.name] = None)
        BY <1>5, <2>2, <3>1
      <4> QED
        BY <4>1, <4>2, <4>3 DEF InService, EventName
    <3>7. calls'[d].op = k.op
      BY <1>4, <3>3 DEF SameCall
    <3> QED
      BY <3>4, <3>5, <3>6, <3>7 DEF Promised
  <2> QED
    BY <2>1, <2>2
<1> QED
  BY <1>7, <1>12, <1>13, RatioAgain

\* The other rows when a call ends.
LEMMA EndsSteady ==
  ASSUME Inv, Inv', NEW k \in CallRecord, k.row \in Rows, NEW answered \in BOOLEAN, NEW found,
         NEW rendered \in BOOLEAN, NEW batched \in BOOLEAN,
         NEW rs, rs = Concluded(k, answered, found, alerts', rendered, loading', batched),
         NEW r \in Rows, r # k.row, rows'[r] = rs[r], Rated(r), AlertName(r)' = AlertName(r),
         ~rendered => alerts' = alerts /\ (Reading(r) => Reading(r)')
  PROVE  Steady(r)
<1> DEFINE shown == alerts'
           busy == loading'
           mid == rs[r]
<1>1. rows \in [Rows -> RowState] /\ shown \in AlertsByName /\ busy \in BOOLEAN /\ loading \in BOOLEAN
      /\ rows' \in [Rows -> RowState]
  BY DEF Inv, TypeOK
<1>2. Followers(rows[r].is)
  BY RatedFollows DEF Rated
<1>3. rs = Concluded(k, answered, found, shown, rendered, busy, batched)
  OBVIOUS
<1> HIDE DEF shown, busy
<1>4. Told(rows[r], mid, shown[AlertName(r)], rendered, loading, busy)
  BY <1>1, <1>2, <1>3, ConcludedTold
<1>5. Same(mid, rows'[r])
  BY <1>1, SameSelf
<1> HIDE DEF mid
<1> QED
  BY <1>4, <1>5, ToldSteady DEF shown, busy, mid

LEMMA EnsureRatio ==
  ASSUME RatioInv, TruthInv', NEW c \in Calls, Ensure(c)
  PROVE  RatioInv'
<1> DEFINE k == calls[c]
           found == server'[AlertName(k.row)] # None
           answered == TRUE
           rendered == FALSE
<1>1. UNCHANGED <<canary, alerts, overlap>> /\ canary /\ k.pc = "request"
  BY DEF Ensure
<1>2. Inv /\ Inv' /\ rows \in [Rows -> RowState] /\ alerts' \in AlertsByName /\ k \in CallRecord /\ k.row \in Rows
      /\ answered \in BOOLEAN /\ rendered \in BOOLEAN
  BY <1>1 DEF RatioInv, TruthInv, Inv, TypeOK, CallsHaveRows
<1>3. PICK batched \in BOOLEAN :
        rows' = [Concluded(k, TRUE, found, alerts, FALSE, loading', batched)
                   EXCEPT ![k.row].muddled = @ \/ Unfetched(k)]
  BY DEF Ensure
<1>4. PICK rs : rs = Concluded(k, answered, found, alerts', rendered, loading', batched)
  OBVIOUS
<1>5. rows' = [rs EXCEPT ![k.row].muddled = @ \/ Unfetched(k)]
  BY <1>1, <1>3, <1>4
<1> HIDE DEF found, answered, rendered
<1>6. rs \in [Rows -> RowState]
  <2> DEFINE shown == alerts'
             busy == loading'
  <2>1. shown \in AlertsByName /\ rs = Concluded(k, answered, found, shown, rendered, busy, batched)
    BY <1>2, <1>4
  <2> HIDE DEF shown, busy, k
  <2>2. Concludes(k, answered, found, rs)
    BY <1>2, <2>1, ConcludedAfter
  <2> QED
    BY <2>2 DEF Concludes
<1>7. \A r \in Rows : r # k.row => rows'[r] = rs[r]
  BY <1>2, <1>5, <1>6
<1>8. /\ RowsSettle(k)
      /\ rows'[k.row].muddled = (rows[k.row].muddled \/ Unfetched(k))
      /\ \A r \in Rows : r # k.row => rows'[r].muddled = rows[r].muddled
  BY <1>2, EnsureRows
<1>9. /\ Continues
      /\ ~Unfetched(k) => SameCall(k, calls'[c]) /\ calls'[c].pc = "read"
      /\ \A d \in Calls : d # c => calls'[d] = calls[d]
  BY <1>2, EnsureMoves
<1>10. \A r \in Rows : /\ rows'[r].is = rows[r].is /\ rows'[r].ref = rows[r].ref
                       /\ rows[r].muddled = TRUE => rows'[r].muddled = TRUE
                       /\ rows'[r].busy => rows[r].busy
  <2> TAKE r \in Rows
  <2>1. CASE r = k.row
    BY <1>8, <2>1 DEF RowsSettle, After
  <2>2. CASE r # k.row
    BY <1>8, <2>2 DEF RowsSettle, Same
  <2> QED
    BY <2>1, <2>2
<1>11. Grows
  BY <1>1, <1>2, <1>8, <1>10, GrowsRows DEF RowsSettle
<1>12. ASSUME NEW r \in Rows PROVE Minds(r)'
  <2>1. CASE r # k.row
    <3>1. ASSUME Rated(r)' PROVE Steady(r)
      <4>1. Rated(r) /\ AlertName(r)' = AlertName(r)
        BY <1>2, <1>11, <3>1, RatedBack
      <4>2. Reading(r) => Reading(r)'
        <5>1. \A d \in Calls : Own(d, r) => d # c /\ calls'[d] = calls[d]
          BY <1>9, <2>1 DEF Own
        <5> QED
          BY <1>1, <5>1 DEF Reading, Own
      <4>3. k.row \in Rows /\ k \in CallRecord /\ rows'[r] = rs[r]
        BY <1>2, <1>7, <2>1
      <4>4. ~rendered => alerts' = alerts /\ (Reading(r) => Reading(r)')
        BY <1>1, <4>2
      <4> HIDE DEF k
      <4> QED
        BY <1>2, <1>4, <2>1, <4>1, <4>3, <4>4, EndsSteady
    <3> QED
      BY <1>11, <3>1, MindsStay
  <2>2. CASE r = k.row /\ Unfetched(k)
    <3>1. ~Rated(r)'
      BY <1>8, <2>2 DEF Rated, Plain
    <3> QED
      BY <3>1 DEF Minds
  <2>3. CASE r = k.row /\ ~Unfetched(k)
    <3>1. Reading(r)'
      BY <1>1, <1>9, <2>3 DEF Reading, Own, SameCall
    <3> QED
      BY <3>1 DEF Minds
  <2> QED
    BY <2>1, <2>2, <2>3
<1>13. \A r \in Rows : Promises(r)'
  BY <1>1 DEF Promises
<1> QED
  BY <1>10, <1>12, <1>13, RatioAgain

\* What the row with a threshold shows when its call is answered.
LEMMA RenderedOwn ==
  ASSUME RatioInv, TruthInv', NEW c \in Calls, Render(c), ~canary, NEW r \in Rows, r = calls[c].row, Rated(r),
         AlertName(r)' = AlertName(r), AlertName(r) = EventName(r)
  PROVE  ~loading' => rows'[r].enabled = Seen(r)'
<1> DEFINE k == calls[c]
           found == k.data[AlertName(k.row)] # None
           shown == k.data
           busy == loading'
<1>1. k.pc = "render" /\ alerts' = shown
  BY DEF Render
<1>2. Inv /\ rows \in [Rows -> RowState] /\ shown \in AlertsByName /\ k \in CallRecord /\ k.row \in Rows
      /\ busy \in BOOLEAN /\ loading \in BOOLEAN /\ found \in BOOLEAN /\ Truth
  BY DEF RatioInv, TruthInv, Inv, TypeOK, CallRecord
<1>3. PICK batched \in BOOLEAN :
        rows' = Concluded(k, TRUE, found, shown, TRUE, busy, batched)
  BY DEF Render
<1>4. Own(c, r)
  BY <1>1 DEF Own
<1>5. rows[r].mount = k.mount
  BY <1>2, <1>4 DEF Rated, Plain, Truth, OneCall
<1>6. RatioTraits(rows[r].is)
  BY <1>2, RatioRows DEF Rated
<1>7. k.data[EventName(r)] = server[EventName(r)]
  <2>1. Sees(r)
    BY DEF Sees, Rated
  <2> QED
    BY <1>1, <1>2, <2>1 DEF Truth, Known, Agrees
<1>8. rows[r].is = HealthCheckRow => ~rows[r].busy
  BY DEF RatioInv, FlagKept
<1>9. rows[r].is = FusionHealthCheckRow =>
        \/ rows[r].enabled = found
        \/ k.op = "subscribe" /\ rows[r].enabled = TRUE
        \/ k.op = "unsubscribe" /\ rows[r].enabled = FALSE
  <2> SUFFICES ASSUME rows[r].is = FusionHealthCheckRow
               PROVE  \/ rows[r].enabled = found
                      \/ k.op = "subscribe" /\ rows[r].enabled = TRUE
                      \/ k.op = "unsubscribe" /\ rows[r].enabled = FALSE
    OBVIOUS
  <2>1. Promised(rows[r], k, InService(r))
    BY <1>4 DEF RatioInv, Promises
  <2>2. InService(r) => found = TRUE
    BY <1>7 DEF InService
  <2> QED
    BY <1>1, <2>1, <2>2 DEF Promised
<1>10. ~busy => Answerable(k, found, shown, busy)
  BY <1>5, <1>6, <1>8, <1>9 DEF Answerable
<1>11. Seen(r)' = found
  BY <1>1 DEF Seen, EventName
<1> HIDE DEF found, shown, busy, k
<1>12. ASSUME ~busy PROVE rows'[k.row].enabled = found
  <2>1. rows \in [Rows -> RowState] /\ loading \in BOOLEAN /\ k \in CallRecord /\ k.row \in Rows
        /\ found \in BOOLEAN /\ shown \in AlertsByName /\ busy \in BOOLEAN
    BY <1>2
  <2>2. Answerable(k, found, shown, busy)
    BY <1>10, <1>12
  <2>3. OwnShows(k, found, shown, busy, batched)
    BY <2>1, <2>2, OwnConcluded
  <2> QED
    BY <1>3, <2>3 DEF OwnShows
<1> QED
  BY <1>11, <1>12 DEF busy, k

LEMMA RenderRatio ==
  ASSUME RatioInv, TruthInv', NEW c \in Calls, Render(c)
  PROVE  RatioInv'
<1> DEFINE k == calls[c]
           found == k.data[AlertName(k.row)] # None
           answered == TRUE
           rendered == TRUE
<1>1. UNCHANGED <<canary, server, overlap>> /\ k.pc = "render" /\ alerts' = k.data
  BY DEF Render
<1>2. Inv /\ Inv' /\ rows \in [Rows -> RowState] /\ k \in CallRecord /\ k.row \in Rows
      /\ answered \in BOOLEAN /\ rendered \in BOOLEAN /\ TruthInv
  BY <1>1 DEF RatioInv, TruthInv, Inv, TypeOK, CallsHaveRows
<1>3. Continues /\ calls'[c].pc = "idle" /\ \A d \in Calls : d # c => calls'[d] = calls[d]
  BY <1>2, EndsCall DEF Render
<1>4. /\ rows' \in [Rows -> RowState]
      /\ \A r \in Rows : /\ rows'[r].is = rows[r].is /\ rows'[r].ref = rows[r].ref
                         /\ rows'[r].muddled = rows[r].muddled
  BY <1>2, RenderRows
<1>5. Grows
  BY <1>1, <1>2, <1>4, GrowsRows
<1>6. \A r \in Rows : Onward(r)
  BY <1>1, <1>3 DEF Onward, InService, EventName, Own
<1>7. CASE canary
  <2>1. /\ rows' = Followed(rows, rows, alerts', rendered, loading, loading) /\ loading' = loading
    BY <1>1, <1>2, <1>7 DEF Render, Inv, TypeOK
  <2> HIDE DEF rendered
  <2>2. \A r \in Rows : (Reading(r) => Reading(r)' \/ rendered) /\ (Rated(r)' => Onward(r))
    BY <1>6 DEF rendered
  <2>3. ~rendered => alerts' = alerts
    BY DEF rendered
  <2> QED
    BY <1>2, <1>3, <1>5, <2>1, <2>2, <2>3, FollowedRatio
<1>8. CASE ~canary
  <2>1. PICK batched \in BOOLEAN :
          rows' = Concluded(k, TRUE, found, k.data, TRUE, loading', batched)
    BY <1>8 DEF Render
  <2>2. PICK rs : rs = Concluded(k, answered, found, alerts', rendered, loading', batched)
    OBVIOUS
  <2>3. rows' = rs
    BY <1>1, <2>1, <2>2
  <2> HIDE DEF found, answered
  <2>4. ASSUME NEW r \in Rows, r # k.row, Rated(r)' PROVE Steady(r)
    <3>1. Rated(r) /\ AlertName(r)' = AlertName(r)
      BY <1>2, <1>5, <2>4, RatedBack
    <3>2. ~rendered => alerts' = alerts /\ (Reading(r) => Reading(r)')
      OBVIOUS
    <3> HIDE DEF k, rendered
    <3> QED
      BY <1>2, <2>2, <2>3, <2>4, <3>1, <3>2, EndsSteady
  <2>5. ASSUME NEW r \in Rows PROVE Minds(r)' /\ Promises(r)'
    <3>1. CASE r # k.row
      BY <1>3, <1>5, <1>6, <2>4, <3>1, MindsStay, PromisesStay
    <3>2. CASE r = k.row
      <4>1. Rated(r)' => Rated(r) /\ AlertName(r)' = AlertName(r) /\ AlertName(r) = EventName(r)
        BY <1>2, <1>5, RatedBack
      <4>2. Minds(r)'
        <5>1. Rated(r)' /\ ~loading' => rows'[r].enabled = Seen(r)'
          BY <1>8, <3>2, <4>1, RenderedOwn
        <5> QED
          BY <5>1 DEF Minds
      <4>3. Promises(r)'
        <5>1. ASSUME Rated(r)', NEW d \in Calls, Own(d, r)' PROVE FALSE
          <6>1. Own(d, r) /\ Own(c, r) /\ d # c
            BY <1>1, <1>3, <3>2, <5>1, OwnBack DEF Own
          <6>2. ~rows[r].muddled
            BY <4>1, <5>1 DEF Rated, Plain
          <6> QED
            BY <1>2, <6>1, <6>2 DEF TruthInv, Truth, OneCall
        <5> QED
          BY <5>1 DEF Promises
      <4> QED
        BY <4>2, <4>3
    <3> QED
      BY <3>1, <3>2
  <2>6. \A r \in Rows : rows'[r].busy => rows[r].busy
    <3> DEFINE shown == alerts'
               busy == loading'
    <3>1. shown \in AlertsByName /\ rs = Concluded(k, answered, found, shown, rendered, busy, batched)
      BY <1>2, <2>2 DEF Inv, TypeOK
    <3> HIDE DEF shown, busy, k, rendered
    <3>2. Concludes(k, answered, found, rs)
      BY <1>2, <3>1, ConcludedAfter
    <3> QED
      BY <2>3, <3>2 DEF Concludes, After, Same
  <2> QED
    BY <1>4, <2>5, <2>6, RatioAgain
<1> QED
  BY <1>7, <1>8

LEMMA FailRatio ==
  ASSUME RatioInv, TruthInv', NEW c \in Calls, Fail(c)
  PROVE  RatioInv'
<1> DEFINE k == calls[c]
           answered == FALSE
           rendered == FALSE
           refetch == canary /\ k.pc = "read"
<1>1. /\ UNCHANGED <<canary, alerts, overlap>> /\ calls' = [calls EXCEPT ![c] = IdleCall]
      /\ k.pc \in {"login", "request", "read"}
      /\ refetch => loading' = loading /\ rows' = [rows EXCEPT ![k.row].muddled = TRUE]
      /\ ~refetch => \E batched \in BOOLEAN :
           rows' = Concluded(k, FALSE, FALSE, alerts, FALSE, loading', batched)
  <2>1. /\ UNCHANGED <<canary, alerts, overlap>> /\ calls' = [calls EXCEPT ![c] = IdleCall]
        /\ k.pc \in {"login", "request", "read"}
    BY DEF Fail, FailedFetch
  <2>2. /\ refetch => loading' = (loading /\ TRUE) /\ rows' = [rows EXCEPT ![k.row].muddled = TRUE]
        /\ ~refetch => \E batched \in BOOLEAN :
             rows' = Concluded(k, FALSE, FALSE, alerts, FALSE, loading', batched)
    BY DEF Fail
  <2>3. loading \in BOOLEAN
    BY DEF RatioInv, TruthInv, Inv, TypeOK
  <2> QED
    BY <2>1, <2>2, <2>3
<1>2. /\ Inv /\ Inv' /\ rows \in [Rows -> RowState] /\ k \in CallRecord /\ k.row \in Rows /\ k.pc # "idle"
      /\ rows' \in [Rows -> RowState] /\ answered \in BOOLEAN /\ rendered \in BOOLEAN /\ TruthInv
  BY <1>1 DEF RatioInv, TruthInv, Inv, TypeOK, CallsHaveRows
<1>3. Continues /\ calls'[c].pc = "idle" /\ \A d \in Calls : d # c => calls'[d] = calls[d]
  BY <1>1, <1>2, EndsCall
<1>4. /\ RowsSettle(k) \/ RowsSame
      /\ rows[k.row].mount = k.mount => rows'[k.row].muddled = TRUE
      /\ rows'[k.row].muddled = FALSE => rows[k.row].muddled = FALSE
      /\ \A r \in Rows : r # k.row => rows'[r].muddled = rows[r].muddled
  BY <1>2, FailRows
<1>5. \A r \in Rows : /\ rows'[r].is = rows[r].is /\ rows'[r].ref = rows[r].ref
                      /\ rows'[r].busy => rows[r].busy
  <2> TAKE r \in Rows
  <2>1. CASE RowsSame
    BY <2>1 DEF RowsSame, Same
  <2>2. CASE RowsSettle(k) /\ r = k.row
    BY <2>2 DEF RowsSettle, After
  <2>3. CASE RowsSettle(k) /\ r # k.row
    BY <2>3 DEF RowsSettle, Same
  <2> QED
    BY <1>4, <2>1, <2>2, <2>3
<1>6. rows'[k.row].muddled = TRUE
  <2>1. rows[k.row].muddled \in BOOLEAN /\ rows'[k.row].muddled \in BOOLEAN
    BY <1>2 DEF RowState
  <2>2. rows[k.row].muddled = FALSE => rows[k.row].mount = k.mount
    BY <1>2 DEF TruthInv, Truth, OneCall, Own
  <2> QED
    BY <1>4, <2>1, <2>2
<1>7. Grows
  <2>1. \A r \in Rows : rows[r].muddled = TRUE => rows'[r].muddled = TRUE
    BY <1>4, <1>6
  <2> QED
    BY <1>1, <1>2, <1>5, <2>1, GrowsRows
<1>8. \A r \in Rows : r # k.row /\ Plain(r) => server'[EventName(r)] = server[EventName(r)]
  <2>1. server' \in Outcomes(k)
    BY FailLeaves DEF Outcomes
  <2> QED
    BY <1>2, <2>1, WritesOnly
<1>9. ASSUME NEW r \in Rows, r # k.row, Rated(r)' PROVE Steady(r) /\ Onward(r)
  <2>1. Rated(r) /\ Plain(r) /\ AlertName(r)' = AlertName(r)
    BY <1>2, <1>7, <1>9, RatedBack
  <2>2. \A d \in Calls : Own(d, r) => d # c /\ calls'[d] = calls[d]
    BY <1>3, <1>9 DEF Own
  <2>3. Onward(r)
    BY <1>8, <1>9, <2>1, <2>2 DEF Onward, InService, EventName
  <2>4. Reading(r) => Reading(r)'
    BY <1>1, <2>2 DEF Reading, Own
  <2>5. CASE refetch
    <3>1. rows'[r] = rows[r] /\ loading' = loading
      BY <1>1, <1>2, <1>9, <2>5
    <3>2. Same(rows[r], rows'[r])
      BY <1>2, <3>1, SameSelf
    <3>3. Steady(r)
      BY <1>1, <2>4, <3>1, <3>2 DEF Steady
    <3> QED
      BY <2>3, <3>3
  <2>6. CASE ~refetch
    <3>1. PICK batched \in BOOLEAN :
            rows' = Concluded(k, FALSE, FALSE, alerts, FALSE, loading', batched)
      BY <1>1, <2>6
    <3> DEFINE found == FALSE
    <3>2. PICK rs : rs = Concluded(k, answered, found, alerts', rendered, loading', batched)
      OBVIOUS
    <3>3. rows' = rs
      BY <1>1, <3>1, <3>2
    <3>4. ~rendered => alerts' = alerts /\ (Reading(r) => Reading(r)')
      BY <1>1, <2>4
    <3> HIDE DEF k, answered, rendered, found
    <3>5. Steady(r)
      BY <1>2, <1>9, <2>1, <3>2, <3>3, <3>4, EndsSteady
    <3> QED
      BY <2>3, <3>5
  <2> QED
    BY <2>5, <2>6
<1>10. ASSUME NEW r \in Rows PROVE Minds(r)' /\ Promises(r)'
  <2>1. CASE r # k.row
    BY <1>3, <1>7, <1>9, <2>1, MindsStay, PromisesStay
  <2>2. CASE r = k.row
    <3>1. ~Rated(r)'
      BY <1>6, <2>2 DEF Rated, Plain
    <3> QED
      BY <3>1 DEF Minds, Promises
  <2> QED
    BY <2>1, <2>2
<1> QED
  BY <1>5, <1>10, RatioAgain

LEMMA BeginRatio ==
  ASSUME RatioInv, TruthInv', NEW c \in Calls, NEW r \in Rows, NEW row, NEW call, NEW flag,
         Clicks(r, row, call), Presses(r, row, call, flag), Begin(c, row, call, flag)
  PROVE  RatioInv'
<1>1. /\ Inv /\ Inv' /\ rows \in [Rows -> RowState] /\ call \in CallRecord /\ loading \in BOOLEAN
      /\ overlap' \in BOOLEAN
  BY DEF RatioInv, TruthInv, Inv, TypeOK, Clicks
<1>2. UNCHANGED <<canary, alerts, server>> /\ overlap' = (overlap \/ InFlight # {})
      /\ loading' = (loading \/ flag \/ ~canary)
  BY DEF Begin
<1>3. Begins(c, r, row, call)
  BY <1>1, BeginDoes
<1>4. /\ calls[c].pc = "idle" /\ SameCall(call, calls'[c]) /\ calls'[c].pc \in Before
      /\ \A d \in Calls : d # c => calls'[d] = calls[d]
      /\ Same(row, rows'[r]) /\ rows'[r].enabled = row.enabled
      /\ rows'[r].muddled = (row.muddled \/ \E d \in Calls : Own(d, r))
      /\ \A q \in Rows : q # r => rows'[q] = rows[q]
  BY <1>3 DEF Begins
<1>5. /\ call.row = r /\ row.is = rows[r].is /\ row.ref = rows[r].ref /\ row.muddled = rows[r].muddled
  BY DEF Clicks
<1>6. /\ rows'[r].is = rows[r].is /\ rows'[r].ref = rows[r].ref /\ rows'[r].busy = row.busy
      /\ calls'[c].row = r /\ calls'[c].op = call.op
  BY <1>4, <1>5 DEF Same, SameCall
<1>7. Grows
  <2>1. \A q \in Rows : rows[q].muddled = TRUE => rows'[q].muddled = TRUE
    BY <1>4, <1>5
  <2> QED
    BY <1>1, <1>2, <1>4, <1>6, <2>1 DEF Grows
<1>8. /\ \A d \in Calls, q \in Rows : q # r /\ Own(d, q)' => Own(d, q) /\ calls'[d] = calls[d]
      /\ \A d \in Calls : Own(d, r)' => d = c \/ Own(d, r)
  BY <1>4, <1>6 DEF Own
<1>9. \A q \in Rows : Reading(q) => Reading(q)'
  <2>1. \A d \in Calls, q \in Rows : Own(d, q) => Own(d, q)' /\ calls'[d] = calls[d]
    BY <1>4 DEF Own
  <2> QED
    BY <1>2, <2>1 DEF Reading
<1>10. ASSUME NEW q \in Rows, q # r PROVE Minds(q)' /\ Promises(q)'
  <2>1. rows'[q] = rows[q] /\ Same(rows[q], rows'[q])
    BY <1>1, <1>4, <1>10, SameSelf
  <2>2. Steady(q)
    BY <1>2, <1>9, <2>1 DEF Steady
  <2>3. Minds(q)'
    BY <1>7, <2>2, MindsStay
  <2>4. Promises(q)'
    <3> SUFFICES ASSUME Rated(q)', rows'[q].is = FusionHealthCheckRow, ~canary', NEW d \in Calls, Own(d, q)'
                 PROVE  Promised(rows'[q], calls'[d], InService(q)')
      BY DEF Promises, Promised
    <3>1. Rated(q) /\ rows[q].is = FusionHealthCheckRow /\ ~canary /\ Own(d, q) /\ calls'[d] = calls[d]
      BY <1>1, <1>2, <1>7, <1>8, <1>10, <2>1, RatedBack
    <3>2. Promised(rows[q], calls[d], InService(q))
      BY <3>1 DEF RatioInv, Promises
    <3>3. InService(q)' = InService(q)
      BY <1>2 DEF InService, EventName
    <3> QED
      BY <2>1, <3>1, <3>2, <3>3
  <2> QED
    BY <2>3, <2>4
<1>11. ASSUME Rated(r)'
       PROVE  Rated(r) /\ AlertName(r) = EventName(r) /\ \A d \in Calls : ~Own(d, r)
  BY <1>1, <1>4, <1>5, <1>7, <1>11, RatedBack
<1>12. Minds(r)'
  <2> SUFFICES ASSUME Rated(r)', ~loading', ~rows'[r].busy PROVE rows'[r].enabled = Seen(r)'
    BY DEF Minds
  <2>1. Rated(r) /\ row.is.follows = "ratio" /\ ~Reading(r)
    BY <1>5, <1>11 DEF Rated, Reading
  <2>2. ~rows[r].busy /\ ~loading /\ row.enabled = rows[r].enabled
    BY <1>2, <1>6, <2>1 DEF Presses
  <2>3. rows[r].enabled = Seen(r)
    BY <2>1, <2>2 DEF RatioInv, Minds
  <2> QED
    BY <1>2, <1>4, <2>2, <2>3 DEF Seen, EventName
<1>13. Promises(r)'
  <2> SUFFICES ASSUME Rated(r)', rows'[r].is = FusionHealthCheckRow, ~canary', NEW d \in Calls, Own(d, r)'
               PROVE  Promised(rows'[r], calls'[d], InService(r)')
    BY DEF Promises, Promised
  <2>1. d = c
    BY <1>8, <1>11
  <2>2. Promised(row, call, TRUE)
    BY <1>5, <1>6 DEF Presses
  <2> QED
    BY <1>4, <1>6, <2>1, <2>2 DEF Promised, Before
<1>14. \A q \in Rows : /\ rows'[q].is = rows[q].is
                       /\ rows[q].is = HealthCheckRow /\ rows'[q].busy => rows[q].busy
  <2> TAKE q \in Rows
  <2>1. CASE q = r
    BY <1>5, <1>6, <2>1 DEF Presses
  <2>2. CASE q # r
    BY <1>4, <2>2
  <2> QED
    BY <2>1, <2>2
<1>15. \A q \in Rows : Minds(q)' /\ Promises(q)'
  BY <1>10, <1>12, <1>13
<1> QED
  BY <1>14, <1>15, RatioAgain

LEMMA RemountRatio ==
  ASSUME RatioInv, TruthInv', Remount
  PROVE  RatioInv'
<1>1. UNCHANGED <<canary, loading, server, calls, overlap>>
  BY DEF Remount
<1>2. Inv /\ Inv' /\ rows \in [Rows -> RowState] /\ overlap \in BOOLEAN
  BY DEF RatioInv, TruthInv, Inv, TypeOK
<1>3. rows' \in [Rows -> RowState] /\ \A r \in Rows : Reborn(r)
  BY <1>2, Remounts
<1>4. \A r \in Rows : /\ rows'[r].is = rows[r].is /\ rows'[r].ref = rows[r].ref /\ ~rows'[r].busy
                      /\ ~rows'[r].muddled => ~rows[r].muddled /\ \A d \in Calls : ~Own(d, r)
  BY <1>3 DEF Reborn, InFlight, Own
<1>5. Grows
  <2>1. \A r \in Rows : rows[r].muddled = TRUE => rows'[r].muddled = TRUE
    BY <1>3, <1>4 DEF RowState
  <2> QED
    BY <1>1, <1>2, <1>3, <1>4, <2>1, GrowsRows
<1>6. ASSUME NEW r \in Rows PROVE Minds(r)' /\ Promises(r)'
  <2>1. ASSUME Rated(r)'
        PROVE  /\ Rated(r) /\ rows[r].is.follows = "ratio" /\ AlertName(r) = EventName(r)
               /\ \A d \in Calls : ~Own(d, r)
    BY <1>2, <1>4, <1>5, <2>1, RatedBack
  <2>2. Minds(r)'
    <3> SUFFICES ASSUME Rated(r)', ~loading' PROVE rows'[r].enabled = Seen(r)'
      BY DEF Minds
    <3>1. "alerts" \in rows[r].is.deps /\ rows[r].is.follows # "once" /\ ~loading
      BY <1>1, <1>2, <2>1, RatioRows DEF RatioTraits
    <3>2. rows'[r].enabled = (alerts'[AlertName(r)] # None)
      BY <1>2, <3>1, RebornShows
    <3> QED
      BY <2>1, <3>2 DEF Seen, EventName
  <2>3. Promises(r)'
    <3>1. Rated(r)' => \A d \in Calls : ~Own(d, r)'
      BY <1>1, <2>1 DEF Own
    <3> QED
      BY <3>1 DEF Promises
  <2> QED
    BY <2>2, <2>3
<1>7. \A r \in Rows : /\ rows'[r].is = rows[r].is
                      /\ rows[r].is = HealthCheckRow /\ rows'[r].busy => rows[r].busy
  BY <1>4
<1> QED
  BY <1>6, <1>7, RatioAgain

LEMMA InitRatio == Init => RatioInv
<1> SUFFICES ASSUME Init PROVE RatioInv
  OBVIOUS
<1>1. PICK types \in Cards, refs \in SUBSET Rows :
        rows = [r \in Rows |->
          Mounted(NewRow(RowOf[types[r]], r \in refs),
                  server[<<r, IF r \in refs THEN "ref" ELSE "event">>], FALSE)]
  BY DEF Init
<1>2. TruthInv
  BY InitTruth
<1>3. types \in [Rows -> DOMAIN RowOf] /\ server \in AlertsByName /\ Inv
  BY <1>2, CardsAssumption DEF TruthInv, Inv, TypeOK
<1>4. alerts = server /\ \A c \in Calls, r \in Rows : ~Own(c, r)
  BY IdleType DEF Init, Own
<1>5. ASSUME NEW r \in Rows
      PROVE  ~rows[r].busy /\ (Rated(r) => rows[r].enabled = Seen(r))
  <2> DEFINE name == <<r, IF r \in refs THEN "ref" ELSE "event">>
             is == RowOf[types[r]]
             new == NewRow(is, r \in refs)
             option == server[name]
             made == Mounted(new, option, FALSE)
  <2>1. name \in Names /\ (name = EventName(r) \/ r \in refs)
    BY DEF Names, Parts, EventName
  <2>2. new \in RowState /\ new.is = is /\ new.ref = (r \in refs)
    BY <1>3 DEF NewRow, RowState
  <2>3. rows[r] = made
    BY <1>1
  <2>4. option \in Options \cup {None}
    BY <1>3, <2>1 DEF AlertsByName
  <2>5. option = server[name]
    OBVIOUS
  <2> HIDE DEF name, new, option
  <2>6. Fresh(new, made)
    BY <2>2, <2>4, MountedFresh
  <2>7. new.is.follows # "once" /\ new.is.deps # {} => made.enabled = (option # None)
    BY <2>2, <2>4, MountedShows
  <2> HIDE DEF made, is
  <2>8. ~rows[r].busy /\ rows[r].is = new.is /\ rows[r].ref = (r \in refs)
    BY <2>2, <2>3, <2>6 DEF Fresh
  <2>9. ASSUME Rated(r) PROVE rows[r].enabled = Seen(r)
    <3>1. name = EventName(r)
      BY <2>1, <2>8, <2>9 DEF Rated, Plain, Confused
    <3>2. RatioTraits(rows[r].is)
      BY <1>3, <2>9, RatioRows DEF Rated
    <3>3. new.is.follows # "once" /\ new.is.deps # {}
      BY <2>8, <3>2 DEF RatioTraits
    <3> QED
      BY <1>4, <2>3, <2>5, <2>7, <3>1, <3>3 DEF Seen
  <2> QED
    BY <2>8, <2>9
<1>6. FlagKept /\ \A r \in Rows : Minds(r) /\ Promises(r)
  BY <1>4, <1>5 DEF FlagKept, Minds, Promises
<1> QED
  BY <1>2, <1>6 DEF RatioInv

LEMMA NextRatio == RatioInv /\ [Next]_vars => RatioInv'
<1> SUFFICES ASSUME RatioInv, [Next]_vars PROVE RatioInv'
  OBVIOUS
<1>1. TruthInv /\ TruthInv' /\ Inv /\ rows \in [Rows -> RowState]
  BY NextTruth DEF RatioInv, TruthInv, Inv, TypeOK
<1>2. CASE UNCHANGED vars
  <2>1. UNCHANGED <<canary, rows, alerts, loading, server, fetch, calls, clicks, failures, overlap>>
    BY <1>2 DEF vars
  <2>2. Grows /\ Continues
    BY <1>1, <2>1, GrowsRows, ContinuesSame
  <2>3. \A r \in Rows : (Reading(r) => Reading(r)') /\ Onward(r)
    BY <2>1 DEF Reading, Own, Onward, InService, EventName
  <2> QED
    BY <1>1, <2>1, <2>2, <2>3, StillRatio
<1>3. ASSUME NEW r \in Rows, Act(r)
      PROVE  RatioInv'
  <2>1. PICK c \in Calls : Pressed(c, r)
    BY <1>1, <1>3, ActPresses
  <2>2. PICK row, call, flag : Clicks(r, row, call) /\ Presses(r, row, call, flag) /\ Begin(c, row, call, flag)
    BY <2>1 DEF Pressed
  <2> QED
    BY <1>1, <2>2, BeginRatio
<1>4. ASSUME NEW c \in Calls, Progress(c)
      PROVE  RatioInv'
  BY <1>1, <1>4, LogInRatio, UpdateRatio, EnsureRatio, ReadRatio, RenderRatio, FailRatio DEF Progress
<1>5. CASE Remount
  BY <1>1, <1>5, RemountRatio
<1>6. CASE FetchStep
  BY <1>1, <1>6, FetchAloneRatio, EndFetchRatio DEF FetchStep
<1> QED
  BY <1>2, <1>3, <1>4, <1>5, <1>6 DEF Next

\* What every state of every behaviour satisfies, of the rows with a threshold too.
THEOREM RatioInvariance == Spec => []RatioInv
BY InitRatio, NextRatio, PTL DEF Spec

\* When no call is in flight, a row that follows the alerts says what they say.
LEMMA QuietFollows ==
  ASSUME RatioInv
  PROVE  FollowTruth
<1> SUFFICES ASSUME Quiet, NEW r \in Rows, Plain(r), rows[r].is.follows \in {"alerts", "ratio"}
             PROVE  \/ rows[r].enabled = InService(r)
                    \/ canary /\ overlap /\ (rows[r].is.follows = "alerts" \/ rows[r].enabled = Seen(r))
  BY DEF FollowTruth
<1>1. Inv /\ TruthInv /\ overlap \in BOOLEAN /\ \A c \in Calls : ~Own(c, r)
  BY QuietOwners DEF RatioInv, TruthInv, Inv, TypeOK
<1>2. (canary /\ overlap) \/ Sees(r)
  BY <1>1 DEF Sees
<1>3. CASE rows[r].is.follows = "alerts"
  <2>1. Sees(r) => rows[r].enabled = InService(r)
    BY <1>1, <1>3 DEF TruthInv, Truth, Kept, Watched
  <2> QED
    BY <1>2, <1>3, <2>1
<1>4. CASE rows[r].is.follows = "ratio"
  <2>1. ~loading /\ ~rows[r].busy /\ ~Reading(r)
    BY <1>1 DEF Quiet, InFlight, Inv, BusyWaits, LoadingWaits, Waiting, Unloading, Reading
  <2>2. rows[r].enabled = Seen(r)
    BY <1>4, <2>1 DEF RatioInv, Minds, Rated
  <2>3. Sees(r) => Seen(r) = InService(r)
    BY <1>1, QuietSees DEF Seen, InService
  <2> QED
    BY <1>2, <2>2, <2>3
<1> QED
  BY <1>3, <1>4

\* Once all calls are done, every toggle that nothing went wrong for tells whether
\* the service has its alert, however the calls of the rows and their shared fetches
\* have overlapped, and the context has the alerts of the service.
THEOREM ToggleTruthTheorem == Spec => []ToggleTruth
<1>1. RatioInv => FollowTruth /\ ContextTruth
  BY QuietFollows, QuietContext DEF RatioInv
<1> QED
  BY <1>1, RatioInvariance, OwnTruthTheorem, SeenTruthTheorem, PTL DEF ToggleTruth
=============================================================================
