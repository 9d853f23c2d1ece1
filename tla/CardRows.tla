------------------------------- MODULE CardRows -------------------------------
(***************************************************************************)
(* The alert toggles of the subscription card: every EventType...Row of    *)
(* notifi-react-card in the AlertsPanel, over the alerts and the loading   *)
(* flag of the subscription context.                                       *)
(*                                                                         *)
(* A row has a state of its own (is it on, is a call in flight). Most show *)
(* the change before the service has answered, and read the alerts of the  *)
(* context once; others follow them. With the hook a call goes through     *)
(* instantSubscribe, which logs in, updates the alert, fetches and renders, *)
(* and all fetches are those of one FetchCache: shared while they last and *)
(* kept for a second. With the frontend client (canary) a call ensures or  *)
(* deletes the alert, and the row fetches and renders after it.            *)
(*                                                                         *)
(* A row differs from another by the traits below, one record per file. An *)
(* alert is its name and the threshold it has, if any.                     *)
(***************************************************************************)
EXTENDS Naturals, FiniteSets

CONSTANTS
  Rows,         \* the event types of the card
  Cards,        \* the cards: which event type each row has, a name of RowOf
  Calls,        \* slots for calls in flight
  MaxClicks,    \* bound: what the user does
  MaxFailures,  \* bound: requests refused or replies lost
  None

ASSUME CardRowsAssumption ==
  /\ MaxClicks \in Nat /\ MaxFailures \in Nat
  /\ None \notin Rows \cup Calls \cup {"first", "last", "custom", "zero", "on"}

VARIABLES
  canary,    \* the card uses the frontend client instead of the hook
  rows,      \* the rows
  alerts,    \* the alerts of the context, by name
  loading,   \* the loading flag of the context
  server,    \* the alerts of the service, by name
  fetch,     \* the fetch of the hook: its state, its data, a view waits for it
  calls,     \* the calls in flight
  clicks, failures,
  overlap    \* history: two calls were in flight at once

vars == <<canary, rows, alerts, loading, server, fetch, calls, clicks, failures, overlap>>

-----------------------------------------------------------------------------
(* The rows *)

\* flag: what keeps the user from a second call (a flag of the row, the loading
\* flag of the context, or nothing). early: what is shown before the answer.
\* follows: the alerts are read "once", or whenever they change. Then what is
\* shown after an answer or a failure: "check" looks the alert up in the answer.
\* deps: what the effect that follows the alerts runs after a change of.
Toggles(unsubscribeFails) ==
  [flag |-> "row", early |-> {"subscribe", "unsubscribe"}, follows |-> "once",
   deps |-> {}, subscribed |-> "check", unsubscribed |-> "check",
   subscribeFails |-> "off", unsubscribeFails |-> unsubscribeFails,
   alertName |-> FALSE, ratio |-> None]

BroadcastRow == Toggles("off")

FusionToggleRow == Toggles("off")

PriceChangeRow == Toggles("off")

CustomToggleRow == Toggles("on")

XMTPRow == Toggles("on")

WalletBalanceRow ==
  [flag |-> "context", early |-> {"unsubscribe"}, follows |-> "once", deps |-> {},
   subscribed |-> "on", unsubscribed |-> "keep",
   subscribeFails |-> "off", unsubscribeFails |-> "on",
   alertName |-> FALSE, ratio |-> None]

DirectPushRow ==
  [flag |-> "context", early |-> {}, follows |-> "alerts", deps |-> {"alerts"},
   subscribed |-> "on", unsubscribed |-> "off",
   subscribeFails |-> "off", unsubscribeFails |-> "on",
   alertName |-> FALSE, ratio |-> None]

\* ratio: the threshold that the toggle itself subscribes with.
HealthCheckRow ==
  [flag |-> "context", early |-> {}, follows |-> "ratio",
   deps |-> {"alerts", "loading"},
   subscribed |-> "keep", unsubscribed |-> "keep",
   subscribeFails |-> "keep", unsubscribeFails |-> "keep",
   alertName |-> FALSE, ratio |-> "first"]

CustomHealthCheckRow ==
  [flag |-> "row", early |-> {}, follows |-> "ratio",
   deps |-> {"alerts", "loading", "enabled", "busy"},
   subscribed |-> "check", unsubscribed |-> "check",
   subscribeFails |-> "off", unsubscribeFails |-> "on",
   alertName |-> FALSE, ratio |-> "last"]

\* alertName: with the hook, it subscribes under the name that it looks up.
FusionHealthCheckRow ==
  [flag |-> "row", early |-> {"subscribe", "unsubscribe"}, follows |-> "ratio",
   deps |-> {"alerts", "loading", "enabled"},
   subscribed |-> "check", unsubscribed |-> "check",
   subscribeFails |-> "off", unsubscribeFails |-> "on",
   alertName |-> TRUE, ratio |-> "last"]

\* No toggle: a list of pairs, each with a button to delete it.
TradingPairsRow ==
  [flag |-> "none", early |-> {}, follows |-> "pairs", deps |-> {},
   subscribed |-> "keep", unsubscribed |-> "keep",
   subscribeFails |-> "keep", unsubscribeFails |-> "keep",
   alertName |-> FALSE, ratio |-> None]

\* AlertsPanel: the row of an event type.
RowOf ==
  [broadcast |-> BroadcastRow, custom |-> CustomToggleRow,
   customHealthCheck |-> CustomHealthCheckRow, directPush |-> DirectPushRow,
   XMTP |-> XMTPRow, healthCheck |-> HealthCheckRow, tradingPair |-> TradingPairsRow,
   walletBalance |-> WalletBalanceRow, fusion |-> FusionToggleRow,
   fusionHealthCheck |-> FusionHealthCheckRow, priceChange |-> PriceChangeRow]

ASSUME CardsAssumption == Cards \subseteq [Rows -> DOMAIN RowOf]

\* The event types whose row resolves an id that may be given as an input.
RefTypes == {"broadcast", "directPush", "fusion", "fusionHealthCheck"}

Ratios == {"first", "last"}
Pairs == {"pair1"}
Parts == {"event", "ref"} \cup Pairs

\* Names of alerts: that of the event type, the one with the resolved id in it,
\* and those of trading pairs.
Names == Rows \X Parts
Options == Ratios \cup {"custom", "zero", "on"}
NoAlerts == [n \in Names |-> None]

EventName(r) == <<r, "event">>

\* The name under which the row looks for its alert.
AlertName(r) == IF rows[r].ref THEN <<r, "ref">> ELSE EventName(r)

\* The name that it subscribes under.
SubscribeName(r) ==
  IF rows[r].is.alertName /\ ~canary THEN AlertName(r) ELSE EventName(r)

-----------------------------------------------------------------------------
(* What a row shows *)

\* The effect of a health check row on the option its alert has.
ShowRatio(row, option) ==
  IF option = None
  THEN [row EXCEPT !.enabled = FALSE, !.chosen = "last"]
  ELSE [row EXCEPT
          !.enabled = TRUE,
          !.chosen = IF row.typed \/ option = "zero" THEN @ ELSE option,
          !.typed = @ \/ option = "custom"]

\* The effect of a row that follows the alerts.
RunEffect(row, option, busy) ==
  IF row.is.deps = {} \/ busy \/ row.busy THEN row
  ELSE IF row.is.follows = "ratio" THEN ShowRatio(row, option)
  ELSE [row EXCEPT !.enabled = option # None]

\* A row that was old and is new, in one commit: the effect runs if one of its
\* dependencies has changed, the alerts by having been rendered.
Follow(old, new, option, rendered, was, busy) ==
  LET changed == {d \in new.is.deps :
        \/ d = "alerts" /\ rendered
        \/ d = "loading" /\ was # busy
        \/ d = "enabled" /\ old.enabled # new.enabled
        \/ d = "busy" /\ old.busy # new.busy}
  IN IF changed = {} THEN new ELSE RunEffect(new, option, busy)

\* The same, for all rows.
Followed(old, new, shown, rendered, was, busy) ==
  [r \in Rows |-> Follow(old[r], new[r], shown[AlertName(r)], rendered, was, busy)]

\* A row that comes on the screen.
Mounted(row, option, busy) ==
  LET new == [row EXCEPT !.enabled = FALSE, !.busy = FALSE, !.chosen = None,
                         !.typed = FALSE]
  IN IF row.is.follows = "once" THEN [new EXCEPT !.enabled = option # None]
     ELSE RunEffect(new, option, busy)

IdleCall == [pc |-> "idle", row |-> None, mount |-> 0, op |-> None, name |-> None,
             option |-> None, data |-> NoAlerts, replaced |-> FALSE]

InFlight == {c \in Calls : calls[c].pc # "idle"}

\* A stored alert: one of its names, and a threshold if the row has one.
StoredOptions(is) == IF is.ratio = None THEN {"on"} ELSE {"first"}

NewRow(is, ref) ==
  [is |-> is, ref |-> ref, mount |-> 0, enabled |-> FALSE, busy |-> FALSE,
   chosen |-> None, typed |-> FALSE, muddled |-> FALSE]

\* The card comes up with the alerts that the first fetch has rendered.
Init ==
  /\ canary \in BOOLEAN
  /\ \E types \in Cards, refs \in SUBSET Rows :
       /\ \A r \in refs : types[r] \in RefTypes
       /\ \E stored \in [Rows -> Options \cup {None}] :
            /\ \A r \in Rows : stored[r] \in StoredOptions(RowOf[types[r]]) \cup {None}
            /\ server = [n \in Names |->
                 IF n[2] = "event" /\ RowOf[types[n[1]]].follows # "pairs"
                 THEN stored[n[1]] ELSE None]
            /\ rows = [r \in Rows |->
                 Mounted(NewRow(RowOf[types[r]], r \in refs),
                         server[<<r, IF r \in refs THEN "ref" ELSE "event">>], FALSE)]
  /\ alerts = server
  /\ fetch = [state |-> IF canary THEN "old" ELSE "cached", data |-> server,
              viewed |-> FALSE]
  /\ loading = FALSE
  /\ calls = [c \in Calls |-> IdleCall]
  /\ clicks = 0
  /\ failures = 0
  /\ overlap = FALSE

-----------------------------------------------------------------------------
(* The fetches of the hook *)

\* A call fetches: it goes on at once with data of the last second, or waits for
\* the fetch that is on its way, which may have been begun long before.
FetchedBy(k, from, waiting, ready) ==
  IF from.state = "cached" THEN [k EXCEPT !.pc = ready, !.data = from.data]
  ELSE [k EXCEPT !.pc = waiting]

Asked(from) == IF from.state = "old" THEN [from EXCEPT !.state = "asked"] ELSE from

\* What waits for nothing but its turn runs before the next event.
Ready == canary \/ \A c \in Calls : calls[c].pc \notin {"enter", "render"}

\* The service answers the fetch.
AnswerFetch ==
  /\ Ready
  /\ fetch.state = "asked"
  /\ fetch' = [fetch EXCEPT !.state = "answered", !.data = server]
  /\ UNCHANGED <<canary, rows, alerts, loading, server, calls, clicks, failures, overlap>>

\* The answer arrives: all that wait for it go on, and what a call between its
\* two fetches holds is no longer the data that later fetches return.
EndFetch ==
  /\ Ready
  /\ fetch.state = "answered"
  /\ fetch' = [fetch EXCEPT !.state = "cached", !.viewed = FALSE]
  /\ calls' = [c \in Calls |->
       CASE calls[c].pc = "login" -> [calls[c] EXCEPT !.pc = "enter", !.data = fetch.data]
         [] calls[c].pc = "read" -> [calls[c] EXCEPT !.pc = "render", !.data = fetch.data]
         [] calls[c].pc = "request" -> [calls[c] EXCEPT !.replaced = TRUE]
         [] OTHER -> calls[c]]
  /\ alerts' = IF fetch.viewed THEN fetch.data ELSE alerts
  /\ rows' = Followed(rows, rows, alerts', fetch.viewed, loading, loading)
  /\ UNCHANGED <<canary, loading, server, clicks, failures, overlap>>

\* A fetch fails: it stays where it is, and fails all that join it from then on.
FailFetch ==
  /\ Ready
  /\ fetch.state \in {"asked", "answered"}
  /\ failures < MaxFailures
  /\ failures' = failures + 1
  /\ fetch' = [fetch EXCEPT !.state = "failed"]
  /\ UNCHANGED <<canary, rows, alerts, loading, server, calls, clicks, overlap>>

\* A second has gone by.
Expire ==
  /\ Ready
  /\ ~canary /\ fetch.state = "cached"
  /\ fetch' = [fetch EXCEPT !.state = "old"]
  /\ UNCHANGED <<canary, rows, alerts, loading, server, calls, clicks, failures, overlap>>

-----------------------------------------------------------------------------
(* What the user does *)

\* A call begins: instantSubscribe sets the loading flag at once, and fetches.
Begin(c, row, call, flag) ==
  /\ Ready
  /\ clicks < MaxClicks
  /\ clicks' = clicks + 1
  /\ calls[c].pc = "idle"
  /\ calls' = [calls EXCEPT ![c] = IF canary THEN [call EXCEPT !.pc = "request"]
                                   ELSE FetchedBy(call, fetch, "login", "enter")]
  /\ fetch' = IF canary THEN fetch ELSE Asked(fetch)
  /\ rows' = [rows EXCEPT ![call.row] =
       [row EXCEPT !.muddled = @ \/ \E other \in InFlight : calls[other].row = call.row]]
  /\ loading' = (loading \/ flag \/ ~canary)
  /\ overlap' = (overlap \/ InFlight # {})
  /\ UNCHANGED <<canary, alerts, server, failures>>

CallOf(r, op, name, option) ==
  [IdleCall EXCEPT !.row = r, !.mount = rows[r].mount, !.op = op, !.name = name,
                   !.option = option]

\* The toggle, which is disabled while the flag of the row or loading is set.
Toggle(c, r) ==
  LET row == rows[r]
      op == IF row.enabled THEN "unsubscribe" ELSE "subscribe"
      shown == IF op \in row.is.early THEN ~row.enabled ELSE row.enabled
  IN
  /\ row.is.follows # "pairs"
  /\ ~loading /\ ~row.busy
  /\ Begin(c, [row EXCEPT !.enabled = shown, !.busy = row.is.flag = "row"],
           IF op = "unsubscribe" THEN CallOf(r, op, EventName(r), None)
           ELSE CallOf(r, op, SubscribeName(r),
                       IF row.is.ratio = None THEN "on" ELSE row.is.ratio),
           row.is.flag = "context")

\* A button with a threshold of a health check: there while its toggle is on.
Choose(c, r, ratio) ==
  LET row == rows[r] IN
  /\ row.is.ratio # None
  /\ row.enabled /\ ~loading /\ ~row.busy
  /\ Begin(c, [row EXCEPT !.busy = row.is.flag = "row"],
           CallOf(r, "choose", SubscribeName(r), ratio), FALSE)

\* A threshold typed in, a valid one; another only gives an error message.
ChooseCustom(c, r) ==
  LET row == rows[r] IN
  /\ row.is.ratio # None
  /\ row.enabled /\ ~loading /\ ~row.busy
  /\ Begin(c, [row EXCEPT !.busy = row.is.flag = "row", !.typed = TRUE],
           CallOf(r, "custom", SubscribeName(r), "custom"), FALSE)

\* Save a trading pair, or delete one: nothing keeps the user from a second call.
SavePair(c, r, pair) ==
  /\ rows[r].is.follows = "pairs"
  /\ Begin(c, rows[r], CallOf(r, "save", <<r, pair>>, "on"), FALSE)

DeletePair(c, r, pair) ==
  /\ rows[r].is.follows = "pairs"
  /\ alerts[<<r, pair>>] # None
  /\ Begin(c, rows[r], CallOf(r, "delete", <<r, pair>>, None), FALSE)

\* The user leaves the list of alerts and comes back. With the hook, each row
\* fetches and renders when it is mounted.
Remount ==
  LET new == [r \in Rows |->
        [Mounted(rows[r], alerts[AlertName(r)], loading) EXCEPT
           !.mount = @ + 1,
           !.muddled = \/ @
                       \/ canary /\ overlap
                       \/ loading /\ rows[r].is.follows = "alerts"
                       \/ \E c \in InFlight : calls[c].row = r]]
      seen == ~canary /\ fetch.state = "cached"
  IN
  /\ Ready
  /\ clicks < MaxClicks
  /\ clicks' = clicks + 1
  /\ alerts' = IF seen THEN fetch.data ELSE alerts
  /\ rows' = Followed(new, new, alerts', seen, loading, loading)
  /\ fetch' = IF canary \/ seen THEN fetch ELSE [Asked(fetch) EXCEPT !.viewed = TRUE]
  /\ UNCHANGED <<canary, loading, server, calls, failures, overlap>>

-----------------------------------------------------------------------------
(* What becomes of a call *)

\* Mutant of Stored: the index itself becomes the threshold of the alert.
StoredIndex(row, option) ==
  IF row.is = HealthCheckRow /\ ~canary THEN "index" ELSE option

\* With the hook, HealthCheckRow hands the index of a button over as the ratio.
Stored(row, option) ==
  IF row.is = HealthCheckRow /\ ~canary
  THEN CASE option = "first" -> "zero" [] option = "last" -> "custom" [] OTHER -> option
  ELSE option

\* The alert that an unsubscribe of the frontend client deletes: by name, but for
\* a direct push event type any alert with the filter of tenant messages, which
\* trading pair alerts have too.
Deleted(k) ==
  IF k.op = "unsubscribe" /\ rows[k.row].is = DirectPushRow
  THEN {n \in Names : server[n] # None /\ rows[n[1]].is \in {DirectPushRow, TradingPairsRow}}
  ELSE {n \in {k.name} : server[n] # None}

\* What the hook leaves of the alert it found in its data.
Without(k) ==
  IF k.data[k.name] = None THEN server ELSE [server EXCEPT ![k.name] = None]

\* What the alerts of the service are after the call k. The hook deletes the alert
\* and succeeds when the source or the filter for a new one is not found.
Written(k) ==
  LET made == IF k.option = None THEN {}
              ELSE {[server EXCEPT ![k.name] = Stored(rows[k.row], k.option)]}
  IN IF ~canary THEN made \cup {Without(k)}
     ELSE IF k.option # None THEN made
     ELSE {[server EXCEPT ![n] = None] : n \in Deleted(k)}

\* A request that throws without any failure: the frontend client has no alert to
\* delete, or the data of the hook, from a fetch that others share, has an alert
\* that is gone (Unknown alert id) or lacks one that is there (Name must be unique).
Throws(k) ==
  IF canary THEN k.option = None /\ Deleted(k) = {}
  ELSE \/ k.data[k.name] # None /\ server[k.name] = None
       \/ k.option # None /\ k.data[k.name] = None /\ server[k.name] # None

Shows(row, what) ==
  IF what = "keep" THEN row ELSE [row EXCEPT !.enabled = what = "on"]

\* The .then of a call: found tells whether the answer has the alert. The
\* frontend client answers an unsubscribe with nothing.
Answered(row, k, found) ==
  CASE k.op = "choose" -> [row EXCEPT !.chosen = k.option, !.typed = FALSE]
    [] k.op = "custom" -> [row EXCEPT !.chosen = "custom"]
    [] k.op = "subscribe" ->
         Shows(row, IF row.is.subscribed # "check" THEN row.is.subscribed
                    ELSE IF found THEN "keep" ELSE "off")
    [] k.op = "unsubscribe" ->
         [Shows(row, IF row.is.unsubscribed # "check" THEN row.is.unsubscribed
                     ELSE IF found /\ ~canary THEN "on" ELSE "keep")
            EXCEPT !.typed = FALSE]
    [] OTHER -> row

\* The .catch.
Refused(row, k) ==
  CASE k.op = "subscribe" -> Shows(row, row.is.subscribeFails)
    [] k.op = "unsubscribe" -> Shows(row, row.is.unsubscribeFails)
    [] OTHER -> row

\* Mutant of Settled: the flag of the row is reset by the .then only.
KeepsFlag(k, row, answered) ==
  IF row.mount = k.mount /\ answered THEN [row EXCEPT !.busy = FALSE] ELSE row

\* The .finally; setting the state of a row that is gone does nothing.
Settled(k, row, answered) ==
  IF row.mount = k.mount THEN [row EXCEPT !.busy = FALSE] ELSE row

\* The rows after the answer or the failure of the call of one.
Continued(rs, k, answered, found) ==
  LET row == rs[k.row]
      then == IF row.mount # k.mount THEN row
              ELSE IF answered THEN Answered(row, k, found)
              ELSE [Refused(row, k) EXCEPT !.muddled = TRUE]
  IN [rs EXCEPT ![k.row] = Settled(k, then, answered)]

\* The same with the alerts shown, which have been rendered just before it or not,
\* and with the effects. React 18 commits all of it at once. React 17 commits the
\* alerts, then the .then, during which the row is busy, then the .finally.
Concluded(k, answered, found, shown, rendered, busy, batched) ==
  LET first == IF batched THEN rows
               ELSE Followed(rows, rows, shown, rendered, loading, loading)
      last == Continued(first, k, answered, found)
      seen == IF batched THEN first
              ELSE [r \in Rows |-> [first[r] EXCEPT !.enabled = last[r].enabled]]
  IN Followed(seen, last, shown, batched /\ rendered, loading, busy)

\* The toggles that set loading reset it in their .finally.
Unloads(k) == rows[k.row].is.flag = "context" /\ k.op \in {"subscribe", "unsubscribe"}

\* logIn of instantSubscribe renders what was fetched.
LogIn(c) ==
  /\ calls[c].pc = "enter"
  /\ alerts' = calls[c].data
  /\ rows' = Followed(rows, rows, alerts', TRUE, loading, loading)
  /\ calls' = [calls EXCEPT ![c].pc = "request", ![c].replaced = FALSE]
  /\ UNCHANGED <<canary, loading, server, fetch, clicks, failures, overlap>>

\* The methods of the client fetch for themselves, when the last data is too old.
Refetched ==
  {fetch} \cup IF fetch.state # "old" THEN {}
               ELSE {[fetch EXCEPT !.state = "cached", !.data = server]}

\* Mutant of Patched: the methods leave the data as it was.
NotPatched(from, k) == {from}

\* They patch the data they have, which may have been replaced meanwhile.
Patched(from, k) ==
  LET patched == [from EXCEPT !.data[k.name] = server'[k.name]]
  IN CASE from.state # "cached" -> {from}
       [] k.replaced -> {from, patched}
       [] OTHER -> {patched}

\* The fetch that follows was served before the alert was written, and its data is
\* not what was patched.
Stale(k, from) == from.state = "answered" \/ (from.state = "cached" /\ k.replaced)

\* A row that turns on, or stays on, without looking whether there is an alert.
Blind(k) ==
  LET is == rows[k.row].is IN
  \/ k.op = "subscribe" /\ is.subscribed = "on"
  \/ k.op \in {"choose", "custom"} /\ is = FusionHealthCheckRow

\* updateAlertInternal has done its part: loading is reset before the last fetch.
Update(c) ==
  LET k == calls[c] IN
  /\ ~canary /\ Ready
  /\ k.pc = "request" /\ ~Throws(k)
  /\ server' \in Written(k)
  /\ \E held \in Refetched : \E from \in Patched(held, k) :
       /\ fetch' = Asked(from)
       /\ calls' = [calls EXCEPT ![c] = FetchedBy(k, from, "read", "render")]
       /\ rows' = [Followed(rows, rows, alerts, FALSE, loading, FALSE) EXCEPT ![k.row].muddled =
            @ \/ Stale(k, from) \/ (Blind(k) /\ server'[k.name] = None)]
  /\ loading' = FALSE
  /\ UNCHANGED <<canary, alerts, clicks, failures, overlap>>

\* The custom threshold of CustomHealthCheckRow is not fetched again.
Unfetched(k) == canary /\ k.op = "custom" /\ rows[k.row].is = CustomHealthCheckRow

\* The frontend client has ensured or deleted the alert, and fetched once to
\* answer a subscribe: the row goes on, and fetches again.
Ensure(c) ==
  LET k == calls[c]
      found == server'[AlertName(k.row)] # None
  IN
  /\ canary
  /\ k.pc = "request" /\ ~Throws(k)
  /\ server' \in Written(k)
  /\ loading' = (loading /\ ~Unloads(k))
  /\ \E batched \in BOOLEAN :
       rows' = [Concluded(k, TRUE, found, alerts, FALSE, loading', batched)
                  EXCEPT ![k.row].muddled = @ \/ Unfetched(k)]
  /\ calls' = [calls EXCEPT ![c] = IF Unfetched(k) THEN IdleCall
                                   ELSE [@ EXCEPT !.pc = "read"]]
  /\ UNCHANGED <<canary, alerts, fetch, clicks, failures, overlap>>

\* The service answers a fetch of the frontend client, which nobody shares.
Read(c) ==
  /\ canary
  /\ calls[c].pc = "read"
  /\ calls' = [calls EXCEPT ![c].pc = "render", ![c].data = server]
  /\ UNCHANGED <<canary, rows, alerts, loading, server, fetch, clicks, failures, overlap>>

\* The answer arrives and is rendered. With the hook, the row goes on.
Render(c) ==
  LET k == calls[c] IN
  /\ k.pc = "render"
  /\ alerts' = k.data
  /\ loading' = (loading /\ (canary \/ ~Unloads(k)))
  /\ IF canary THEN rows' = Followed(rows, rows, k.data, TRUE, loading, loading)
     ELSE \E batched \in BOOLEAN :
            rows' = Concluded(k, TRUE, k.data[AlertName(k.row)] # None, k.data, TRUE,
                              loading', batched)
  /\ calls' = [calls EXCEPT ![c] = IdleCall]
  /\ UNCHANGED <<canary, server, fetch, clicks, failures, overlap>>

\* The fetch that a call of the hook has joined has failed, now or long ago.
FailedFetch(c) == ~canary /\ fetch.state = "failed" /\ calls[c].pc \in {"login", "read"}

\* Name must be unique: the create has a fetch that was served before the delete.
Clashes(k) == ~canary /\ k.option # None /\ k.data[k.name] # None /\ Stale(k, fetch)

\* A call fails without any failed request, or a request of it fails: nothing was
\* done, all was, or the old alert is gone and the new one not there. A refetch of
\* the frontend client that fails changes nothing.
Fail(c) ==
  LET k == calls[c]
      requests == k.pc = "request" /\ ~Throws(k)
      refetch == canary /\ k.pc = "read"
      gone == IF canary THEN [server EXCEPT ![k.name] = None] ELSE Without(k)
  IN
  /\ Ready
  /\ \/ /\ FailedFetch(c) \/ (k.pc = "request" /\ Throws(k))
        /\ UNCHANGED <<server, failures>>
     \/ /\ requests /\ Clashes(k)
        /\ server' = gone
        /\ UNCHANGED failures
     \/ /\ requests \/ refetch
        /\ failures < MaxFailures /\ failures' = failures + 1
        /\ server' \in {server} \cup IF requests THEN Written(k) \cup {gone} ELSE {}
  /\ IF canary \/ k.pc # "request" THEN UNCHANGED fetch
     ELSE \E held \in Refetched : fetch' \in {held} \cup Patched(held, k)
  /\ loading' = (loading /\ IF canary THEN refetch \/ ~Unloads(k)
                            ELSE k.pc = "read" /\ ~Unloads(k))
  /\ IF refetch
     THEN rows' = [rows EXCEPT ![k.row].muddled = TRUE]
     ELSE \E batched \in BOOLEAN :
            rows' = Concluded(k, FALSE, FALSE, alerts, FALSE, loading', batched)
  /\ calls' = [calls EXCEPT ![c] = IdleCall]
  /\ UNCHANGED <<canary, alerts, clicks, overlap>>

Act(r) ==
  \E c \in Calls :
    \/ Toggle(c, r)
    \/ \E ratio \in Ratios : Choose(c, r, ratio)
    \/ ChooseCustom(c, r)
    \/ \E pair \in Pairs : SavePair(c, r, pair) \/ DeletePair(c, r, pair)

Progress(c) == LogIn(c) \/ Update(c) \/ Ensure(c) \/ Read(c) \/ Render(c) \/ Fail(c)

FetchStep == AnswerFetch \/ EndFetch \/ FailFetch \/ Expire

Next ==
  \/ \E r \in Rows : Act(r)
  \/ Remount
  \/ FetchStep
  \/ \E c \in Calls : Progress(c)

Spec == Init /\ [][Next]_vars

-----------------------------------------------------------------------------
(* Properties *)

RowState ==
  [is : {RowOf[t] : t \in DOMAIN RowOf}, ref : BOOLEAN, mount : Nat, enabled : BOOLEAN,
   busy : BOOLEAN, chosen : Options \cup {None}, typed : BOOLEAN, muddled : BOOLEAN]

AlertsByName == [Names -> Options \cup {None}]

CallRecord ==
  [pc : {"idle", "login", "enter", "request", "read", "render"}, row : Rows \cup {None}, mount : Nat,
   op : {"subscribe", "unsubscribe", "choose", "custom", "save", "delete", None},
   name : Names \cup {None}, option : Options \cup {None}, data : AlertsByName,
   replaced : BOOLEAN]

FetchRecord ==
  [state : {"old", "asked", "answered", "cached", "failed"}, data : AlertsByName,
   viewed : BOOLEAN]

\* The rows, the calls and the alerts of the context and of the service.
TypeOK ==
  /\ canary \in BOOLEAN /\ loading \in BOOLEAN /\ overlap \in BOOLEAN
  /\ fetch \in FetchRecord
  /\ rows \in [Rows -> RowState] /\ calls \in [Calls -> CallRecord]
  /\ alerts \in AlertsByName /\ server \in AlertsByName
  /\ clicks \in 0 .. MaxClicks /\ failures \in 0 .. MaxFailures

Quiet == InFlight = {}

\* Whatever fails, whichever calls overlap and whenever the user leaves the list:
\* when no call is in flight, no toggle is left waiting and the card is not left
\* loading, which would disable all of its toggles for good.
NoStuckToggle == Quiet => ~loading /\ \A r \in Rows : ~rows[r].busy

\* A row whose name has a resolved id in it looks for an alert nobody creates. And
\* on a canary card direct push events and trading pairs delete each other's alerts.
Confused(r) ==
  \/ rows[r].ref
  \/ /\ canary /\ rows[r].is = DirectPushRow
     /\ \E q \in Rows \ {r} : rows[q].is \in {DirectPushRow, TradingPairsRow}

\* A toggle none of whose own calls failed, overlapped with each other or joined a
\* fetch begun before it wrote, and that was not left meanwhile.
Plain(r) == ~rows[r].muddled /\ ~Confused(r) /\ rows[r].is.follows # "pairs"

InService(r) == server[EventName(r)] # None
Seen(r) == alerts[EventName(r)] # None

\* A row that keeps a state of its own is on exactly when the service has its
\* alert, however its calls overlapped with those of other rows.
OwnTruth ==
  Quiet => \A r \in Rows :
    Plain(r) /\ rows[r].is.follows = "once" => rows[r].enabled = InService(r)

\* With the hook the alerts of the context are those of the service, whichever
\* fetches the calls have shared.
SeenTruth ==
  Quiet /\ ~canary => \A r \in Rows :
    Plain(r) => alerts[EventName(r)] = server[EventName(r)]

\* A row that follows the alerts of the context is on exactly when the service has
\* its alert. On a canary card where calls have overlapped, answers overtake each
\* other: a health check may say what the alerts of the context say, and a direct
\* push row may say neither. It looks at them only when they are rendered, and not
\* while the card is loading: an answer that was overtaken turns it, and the next
\* one may find the card loading and not turn it back.
FollowTruth ==
  Quiet => \A r \in Rows :
    Plain(r) /\ rows[r].is.follows \in {"alerts", "ratio"} =>
      \/ rows[r].enabled = InService(r)
      \/ canary /\ overlap /\ (rows[r].is.follows = "alerts" \/ rows[r].enabled = Seen(r))

\* Without overlaps, failures, joined fetches or a threshold typed on a canary card,
\* which is not fetched again, the alerts of the context are those of the service.
ContextTruth ==
  Quiet /\ ~overlap /\ (\A r \in Rows : ~rows[r].muddled) => alerts = server

\* The toggles tell the truth once all calls are done.
ToggleTruth == OwnTruth /\ SeenTruth /\ FollowTruth /\ ContextTruth

=============================================================================
