# Verification of the Notifi TypeScript SDK

This directory holds TLA+ models of the client-side logic of the Notifi SDK
(`packages/*`), the TLC configurations that check them on small instances, and
TLAPS proofs of their main invariants for every instance.

## 1. The system

The SDK lets a web page (or a server) manage a user's notifications: the
*alerts* of the user, the *sources* and *filters* that trigger them, the
*targets* (e-mail, SMS, Telegram, ...) and *target groups* they are sent to.
All durable state but the login token lives in the Notifi service; what the SDK
keeps, and can get wrong, is the state between it and the page.

| Component | Code | State | Operations |
|---|---|---|---|
| Cached user data | `notifi-react-hooks/lib/utils/fetchDataImpl.ts`, `fetchData` in `hooks/useNotifiClient.ts` | pending promise, last result and its time; `internalData`, `loading` | fetch, forced fetch |
| Write operations | `createAlert`, `updateAlert`, `deleteAlert`, `ensureTargetGroup`, `ensureSourceGroup`, `createSource`, `createDiscordTarget`, `connectWallet` in `useNotifiClient.ts`; `utils/ensure*.ts` | the cached arrays, mutated in place and shared by all calls; what the page shows of them | create, update, delete, ensure, connect |
| Hook session | initial load, `logIn`, `logOut`, `completeLoginViaTransaction` in `useNotifiClient.ts`; `utils/storage.ts` | React auth state, the service's JWT, the stored token | load, refresh, log in, log out, migrate storage |
| Transaction login | `beginLoginViaTransaction`, `completeLoginViaTransaction` in both clients | the client's random UUID | begin, complete |
| Frontend client session | `notifi-frontend-client/lib/client/NotifiFrontendClient.ts`, `lib/storage` | `_userState`, storage, JWT | initialize, log in, log out |
| Frontend ensure operations | `NotifiFrontendClient.ts`, `ensureTarget.ts`, `ensureSource.ts` | none (reads the service each time) | ensure target group, source group, alert; delete alert |
| GraphQL service | `notifi-graphql/lib/NotifiService.ts` | the JWT every request carries | one method per GraphQL operation |
| Axios service | `notifi-axios-adapter`, `notifi-axios-utils` | the JWT, read by a request interceptor | one method per operation |
| Node client | `notifi-node/lib/client/NotifiClient.ts`, `notifi-node-sample/lib/index.ts` | the JWT of a service, shared or made for one HTTP request | tenant operations, each given a JWT; HTTP handlers |
| Card: alert toggles | the `EventType...Row.tsx` files and `AlertsPanel.tsx` of `notifi-react-card` | `enabled` and an in-flight flag per row; `alerts` and `loading` of the card | subscribe and unsubscribe one event type |
| Card: signing up | `useNotifiSubscribe.ts`, `AlertConfiguration.ts`, the subscribe button, the views for wallets and an expired session, `NotifiSubscriptionContext.tsx` | form, view, loading, the context as rendered | log in, subscribe, update targets, connect wallets, move between views |
| Chat | `useIntercomChat.ts`, `IntercomCard.tsx` and the views of the chat | message list, cursor, in-flight requests, the view | start, poll, page, send, settings |
| History and card loader | `HistoryCardView.tsx`, `useSubscriptionCard.ts` | entries and cursor; the card's configuration | page; load |
| Types, wallets, samples | `notifi-core`, `notifi-solana-hw-login`, `notifi-node-sample`, `notifi-react-example` | none of their own | type declarations, wallet glue, demos |

How they interact:

- A page uses either the hook (`useNotifiClient`) or the frontend client; the
  card uses the hook, and the frontend client as well in its *canary* mode.
  Both talk to one GraphQL service object, whose JWT is shared by everything
  that runs on the page, and both keep their token in browser storage, which
  survives the page.
- Everything is an `async` function. JavaScript runs one at a time, but every
  `await` lets the others run: what such a function captured before an `await`
  (the cached arrays, the wallet, the stored token, the list of messages) may be
  out of date after it. Nothing is locked and nothing is cancelled.
- The service is shared with the user's other pages and devices, so the server
  state changes without the client knowing.

What is hard here, and what the properties are about (each at its line under
`hazards` in `PROJECT.json`):

- *interleaving* of activations of the same or of different operations on one
  client (a double click, two components, a wallet that changes during a load);
- *stale state*: values read before an `await` and used after it; a cache that
  outlives the user it was filled for;
- *partial failure*: operations of several requests of which one fails, or of
  which one is carried out but its reply is lost;
- *crash*: the page is closed between two writes to storage or two requests;
- *expiry and refresh* of tokens, racing with log-in and log-out;
- *liveness*: every card waits for "initialized" and "loading".

What makes each component correct:

| Component | Properties |
|---|---|
| Cached user data | one fetch at a time; forced means fresh; data never goes back; every call returns; callers see a plain service of snapshots |
| Write operations | the patched cache is what the service has; the page shows the cache; names stay unique; nothing is lost |
| Hook session | a token belongs to its wallet; authenticated means by the stored token; a valid token is used and never lost |
| Transaction login | the one-time UUID is sent once, is the one hashed in the transaction, and is there when it is needed |
| Frontend client session | the user's last word stands; token, roles, JWT, storage and `userState` agree; `initialize` ends |
| Frontend ensure operations | an undisturbed ensure brings about what was asked for, whatever was left behind before; no twins; no alert lost |
| Node client | each request carries the JWT it was called with; a balance alert that was reported made does deliver |
| Alert toggles | no toggle is left waiting; a toggle tells whether the alert exists |
| Signing up | a subscription is complete; a failure costs one alert at most; the card shows what the service has |
| Chat | no message is skipped, dropped or listed twice as long as answers do not overtake each other; the newest are listed in the end |

## 2. The modules

| Module | Models | Takes as given |
|---|---|---|
| `FetchCache` | cached user data | the service: one version number per collection |
| `FetchService` | what callers of `fetchData` rely on; `FetchCache` implements it | - |
| `AlertOps` | write operations of the hook | `FetchCache`: a refetch that installs a new data object |
| `HookSession` | session of the hook | `FetchCache`: one cell with one request |
| `TransactionLogin` | transaction login of both clients | the service's answer: the call ends |
| `FrontendSession` | session of the frontend client | the service: it grants numbered log-ins |
| `FrontendEnsure` | ensure operations of the frontend client, unsubscribe of the cards | - |
| `TenantClient` | node client, its HTTP server, the JWT of `NotifiService` | the service: one account per tenant |
| `CardRows` | alert toggles of the card, in both modes, over the fetches that the hook's calls share | `AlertOps`, `FrontendEnsure`: one request writes or deletes an alert; `FetchCache`: one cell, answered as a whole |
| `CardSubscribe` | signing up on the card, in both modes | the same, and `HookSession.LogIn`, `FrontendSession.LogIn`: one request |
| `CardChat` | the chat card and its window | `CardSubscribe`: `instantSubscribe` as one request and a fetch |

`MC<module>` adds symmetry for TLC; `<module>Proofs` holds the theorems, those
of both modules about logging in to the hook in `HookSessionProofs`. To be read
side by side there, `TransactionLogin` names its specification `LoginSpec`. The
modules meet where one component uses another. `AlertOps`, `HookSession` and
`CardRows` each contain the part of `FetchCache` that matters to them; the card modules
contain the operations of the clients as requests, each of which may fail, or
be carried out and its reply be lost, which the client modules show they may.

Conventions. An activation of an operation is a model value of `Callers`,
`Ops`, `Tasks`, `Calls` or `Flows` (in `CardChat`: an element of the sequence
`requests`), with a record that holds where it is (`pc`) and its
local variables; a step goes from one `await` to the next. Variables that the
code does not have are called *history* in their comment: they record what has
gone on (an overlap, a lost reply), so that a property can say "unless ...".
They are never read by a guard, with one exception: `AlertOps` counts a lost
reply in `mishaps` and so bounds it. A bound on what is in flight guards what
the user or a timer starts, never an answer. Operators commented as *mutant* are wrong
variants of the definition they precede; no action uses them. They show that
the property named in `PROJECT.json` tells the difference.

### FetchCache

`cells` are the `FetchDataState` objects that `fetchDataRef` has held: an
unforced `fetchData` uses the current one (`JoinPending`, `ServeCached`,
`StartFetch` are the three branches of `fetchDataImpl`), `fetchData(true)`
installs a new one (`ForceFetchData`). `fetches` are the promises of
`doFetchData`: its ten parallel reads are `Collections`, each answered
(`ReadReplies`) or rejected (`ReadFails`) on its own, with server writes
(`ServerWrites`) between them; one rejection rejects the fetch. Continuations
(`OwnerResume`, `JoinerResume`, `Deliver`) run before the next reply is taken
(`Quiet`), the creator's first: that is how JavaScript orders microtasks.
`ForceFetchData` never finds a usable cell, so it always starts a fetch.

`FetchService` is the promise without promises: a call is answered with a
snapshot, from what was fetched last in this *epoch* (since the last forced
fetch) or newer; a forced call begins an epoch, and its answer is no older than
the call; a call of an earlier epoch is answered too, but leaves nothing to the
epoch. The refinement (`Service`, `ServiceRefined`) maps the current cell to the
epoch, its data to what was fetched, and an owner or a joiner to a waiting call
(`SeenCall`).

### AlertOps

`objs` are the data objects `fetchDataImpl` has returned, `current` the cached
one. An operation takes the current object when it starts and patches its
arrays with each reply, as the eight operations of the hook do (the three that
create a source are one action). A delete replaces an array by a filtered copy;
`sgen`, `tgen` and `agen` tell the copy from the array a helper has captured
before its `await`, or the page shows. `shown` follows React: setting the very
same object does not render. `connectWallet` alone fetches nothing and writes
back a copy of the `internalData` its callback captured (`page`). The service
may serve, refuse, or serve and lose the reply (`Serve`, `Refuse`, `LoseReply`).
Arrays are sets; an operation has one target where the code has up to five
kinds, which are ensured by the same helper, and one source. Filters, forced
filter options and `setLoading` are left out.

### HookSession

A task is an activation of the effect (kind `load`), of `logIn` or of `logOut`.
`ChangeWallet` starts another load without ending the one before, as the effect
does, and `Reload` ends all of them and starts anew. The migration of the old
storage key, the refresh of a token that expires soon, the fetch and its cache
(`cell`, shared by all wallets, with a failed fetch that stays) are steps of
their own. A storage call takes effect when it is issued, in the order of
issue, and answers later.

### TransactionLogin

Both clients have one variable for the random UUID, set by begin and used by
complete. The frontend client sets it before the digest is computed and takes it
out when complete starts; the hook sets it after the digest and clears it when
complete ends. `client` chooses one of them in the initial state, and
`RememberAtNonce`, `RememberAtReturn`, `UuidWhileCompleting` and
`UuidAfterCompleting` are where they differ. A UUID is the number of the call
of begin that made it up.

### FrontendSession

`queue` holds the storage requests of `NotifiFrontendStorage` in the order they
were issued; the page may be closed with requests still in it, which are then
lost. The write of a refreshed token is not awaited. `store`, `jwt` and `user`
are the three places the session lives in. The service answers a refresh only
if the request carried a valid token; a log-in that is answered carries
authorization and roles.

### FrontendEnsure

A task is an activation of `ensureTargetGroup`, `ensureAlert` or
`unsubscribeAlertByFrontendClient`, in any page of the user. `waits` are the
branches of its `Promise.all`: the reads, one `ensureTarget` per channel, and
the chain of `ensureSourceAndFilters` at its step `chain` (look up sources,
create missing ones, look up the source group, create or update it). When a
branch is rejected the others go on. `create` and `rest` tell apart the two ways
in which missing sources are created, one after the other or all at once.
An event type is its kind and its source addresses (`Configs`); `FoundOnly`,
`AnyAddress`, `Several` and `WithInputs` say what the `ensure...Source` and
`get...Filter` functions of each kind do. An address stands for everything that
identifies a source of its kind. A request is carried out and answered in one
step, or fails, or is carried out and its reply is lost.

### TenantClient

Every method of the node client but two sets the JWT of its service and then
sends its requests, each with the JWT the service holds at that moment. `logIn`
sets none when it is called, and the one of its answer when that comes
(`AnswerLogIn`); `getSourceConnection` sets none. The single-request methods
differ in nothing else, so one action, `Call`, stands for them.
`createTenantBalanceChangeAlert` is a chain with one action step per request
(`Served`), on a webhook, source group, target group and alert; ids are the
tenant and a counter. `Handler` is an HTTP handler of the sample server: it
checks the token (`Unauthorized`) and the body (`RefuseBody`, with the answers
of one verdict operator per route; what a log-in lacks is taken from the
`Environment`) and makes a service of its own.

### CardRows

The eleven rows share one shape: what guards a second click, what is shown
before the answer, what after it and after a failure, and whether the row
follows the alerts of the context. That is a record of traits per file
(`BroadcastRow`, ...), and the actions read the traits; `deps` are the
dependencies of the effect that follows the alerts, so that the rows differ in
what makes it run. A call is `login`, `enter`, `request`, `read` and `render`
with the hook, and the last three with the frontend client.

All calls of the hook fetch through one cell (`fetch`): a call goes on with data
of the last second, joins the fetch that is on its way, or begins one
(`FetchedBy`, `Asked`). So the fetch after a call may be one that another row
began before the alert was written. The methods of the client patch the data
they hold, which may no longer be the data that is fetched (`Patched`,
`replaced`); a name check by such data throws without a failure (`Throws`,
`Clashes`). A fetch that failed stays and fails all that join it. The fetches
of the frontend client are nobody else's. `Ready`: what waits for nothing but
its turn runs before the next event. A subscribe of the hook whose source or
filter is not found deletes the alert and succeeds (`Written`). React commits
the changes of one continuation together or one by one, depending on its
version (`batched`).

`muddled` is the history of a row: its own calls failed, overlapped, were left
by it, or joined a fetch older than what they wrote.

### CardSubscribe

A handler is a chain of requests: a flow holds what is left of it (`todo`) and
what the handler captured when it was clicked. The chains of
`useNotifiSubscribe` and of the frontend client are written down as sequences
(`subscribe`, `instantSubscribe`, `subscribeWallet`, ...), and one action per
kind of link carries them out. `updateAlertInternal` is `Requests`: for one
alert it deletes, creates, updates or does nothing, by the data the handler
fetched before. `Rendered` puts an answer on the card, over what is typed in.
One email stands for all contacts.

A request may fail: carried out or not, or in its middle (`Halfway`). What the
client refuses by a check of its own (`Refused`: the name of a new alert is
taken, an alert to be deleted is gone), and what the frontend client refuses for
want of a target group, is no failure. An operation that throws by data older
than what its handler has written is counted as a failed one.

Each component that uses the hook fetches once by itself when it is mounted, so
that every view brings a `FetchOnce` (`Mounting`); with the frontend client the
context does, once. These fetches render when they arrive: `overlap` tells of
two handlers, `beside` of a first fetch next to anything else. Logging in to the
frontend client leaves its `userState` as it was (as `frontend_session_login`
shows), so that each further click of the button logs in again and goes by what
it fetches. The alerts of the frontend client have source groups named after
their event types, also those on wallets (`GroupOf`), with the wallets the user
has at that time (`SourcesOf`); the hook puts those on wallets into the group
"User Wallets", which is the one that `updateWallets` of both maintains. The
inputs of the card name no threshold and no trading pair: `ensureAlert` throws
for those event types, after it has made their source group (`FrontendOptIn`,
`Ensured`).

### CardChat

`requests` are what is in flight, the oldest first; answers may come in any
order. Each request of the window captures the messages listed when it is made,
as the closures of `useIntercomChat` do, and its answer sets the list to those
and what it brings. `Shows` carries the effects of entering and leaving the
window (its state starts anew, answers are no longer heard), `Effect` is the
effect of `IntercomCard` that opens the conversation. Changes of state between
two awaits are rendered together, as React 18 does under `createRoot`, which the
example application uses.

## 3. The runs

All bounds are constants of the configuration or, where a variable counts,
guards of an action. `CHECK_DEADLOCK FALSE` is set where the number of
activations and the clock are bounded, because then the model must stop.
`FetchCache` has no such bound on calls and is checked for deadlock as well.

| Run | Instance | Shows | States, time |
|---|---|---|---|
| `fetch_cache` | 2 callers, 2 collections, 2 promises, 1 forced fetch, 1 change per collection | single flight, freshness, monotonicity, that every call returns, and that it is a `FetchService` | 358 000, 3:30 |
| `alert_ops` | 2 operations on 2 names and 2 addresses, 1 refetch, 1 lost reply | the cache mirrors the service, also after failures; nothing is lost | 1 404 000, 1:15 |
| `hook_session` | 2 wallets, 2 at a time, 3 activations, clock to 2 | what is stored, what authenticated means, and how loads end | 654 000, 0:30 |
| `hook_session_own` | 2 activations | *violation*: the data of the previous wallet | |
| `transaction_login` | 3 calls at a time, 5 in all, either client | the UUID protocol | 13 000, 0:02 |
| `frontend_session` | 2 at a time, 4 activations, clock to 2 | the session in its three places, and that `initialize` ends | 207 000, 1:00 |
| `frontend_session_login` | 1 at a time | *violation*: `userState` after `logIn` | |
| `frontend_ensure` | 1 event type of any of 5 kinds, 2 addresses, 4 operations of which the last 2 overlap and may fail | an undisturbed ensure repairs; no twins; no alert lost | 645 000, 0:55 |
| `tenant_client` | 2 tenants, 1 alert name, 2 headers, 3 calls of which 2 at a time, 1 failure | which token a request carries; a balance alert delivers | 428 000, 0:35 |
| `card_rows` | 2 rows, every kind paired with a custom toggle and with direct push, 2 calls at a time, 3 clicks, 1 failure, either client | toggles settle and tell the truth | 1 345 000, 2:00 |
| `card_subscribe` | 2 cards of 2 event types, one without the filter of an event, on 7 pages, 2 handlers at a time, 2 clicks, 1 failure, either client, new and returning users | a subscription is complete, a failure bounded, the card true | 1 770 000, 2:00 |
| `card_chat` | 4 messages, pages of 2, polls of 3, 2 clicks, 1 failure | the list of messages, and that it catches up | 767 000, 1:45 |

Why the bounds are enough to be interesting:

- `fetch_cache`. Two overlapping callers show every sharing case: a joiner and
  an owner on one cell, owners on an old and a new cell. Two collections are
  needed for a fetch that mixes versions. `Ttl` 0 still distinguishes fresh,
  and expired.
- `alert_ops`. Two operations are every pair of the eight kinds, one after the
  other or interleaved at each `await`; the initial alert, groups, source and
  target give the update and the delete something to work on.
- `hook_session`. `Life` 2 and a clock to 2 let a token be new, expire soon and
  expire. Three activations are a load with two others overlapping or following
  it; the second wallet is for stale loads.
- `transaction_login`. Five calls are two begins and three completes, so one of
  each can be spoiled by the others.
- `frontend_session`. Four activations with reloads between them: log in, reload
  and restore, refresh while logging out or in.
- `frontend_ensure`. `Calm` 2 lets one operation or two prepare the state
  (a target group is needed before an alert), then two overlap with one failure.
  The kinds are one of each way to get sources: found only, one created, several
  in sequence, several in parallel, unsupported.

- `tenant_client`. Three calls are a pair that overlaps and one that finds what
  it left; a second pair of headers makes a webhook be replaced, a second tenant
  makes the wrong token visible.
- `card_rows`. Every kind is next to a row that keeps a state of its own
  (a custom toggle) and next to one that follows the alerts and shares the
  loading flag (direct push): what another row can do to a row goes through
  the alerts, that flag and the fetches it begins. Three clicks are a toggle on
  and off with a call of the other row in between, whose fetch each of them may
  join.
- `card_subscribe`. The cards pair the configurations that differ in kind:
  several sources or one, a source group of its own name, one that is to be
  maintained, opted out of by default, refused by the frontend client, and, on
  the second card, one whose filter the service lacks. A page is for one wallet or for
  several; with the hook, where the states are many, the first card is on a page for
  several and the second on a page for one. Two handlers may overlap,
  or one with a first fetch of any view; a first fetch does not fit in beside two
  handlers, after which the properties say nothing but that the card is not left
  loading and that losses are bounded: both are proved for any number at a time.
- `card_chat`. Polls longer than a page but shorter than the conversation are
  what the code has (polls of 50, pages of 5): a poll can bring messages older
  than the cursor, and can fail to reach back to what was listed.

Fairness. `FetchCache.LiveSpec`: due continuations run (weak fairness), and a
request is answered or fails (strong fairness for each fetch, since the event
loop takes a reply only between continuations, but does so again and again).
`FrontendSession.FairSpec`: storage requests are carried out and `initialize`
goes on; nothing is assumed of log-ins, for a user may never sign.
`CardChat.FairSpec`: the interval passes again and again (`Tick`; it is cleared
only to be set anew, or when the window is left), and the oldest request in
flight is answered or fails (`AnswerOldest`). Nothing is assumed of the user. The
code has no timeouts of its own: the HTTP client settles every request, and the
browser runs what is ready. That a promise never settles is the one thing ruled
out. `HookSession` needs no fairness: that a load concludes is said of states in
which nothing runs, whatever failed.

### What the violations say

- `hook_session_own`: the fetch cache is not reset when the wallet changes, so
  within its second of life, or while a fetch is pending, one wallet's data is
  shown for the other.
- `frontend_session_login`: only `initialize` assigns `userState`. After `logIn`
  it does not say authenticated, contrary to what the README of the frontend
  client tells applications to rely on.

### Known deviations

Met while modelling. The models follow the code in each; the properties are
stated with the exception that the code makes, and where a definition states
what one would expect instead, it is kept in the module with a comment, outside
of the runs.

- `AlertOps.NameMustBeUnique`: `createAlert` checks the name three requests
  before it creates the alert; two overlapping calls both pass
  (`useNotifiClient.ts:945`).
- `connectWallet` writes back the data its callback captured, so that what other
  operations have shown meanwhile is taken back, and never tells the cache
  (`useNotifiClient.ts:885`; `CardSubscribe.FetchReturnsStored`).
  `createDiscordTarget` looks a name up among ids and so creates another target
  each time (`ensureTarget.ts:104`). `ensureSource` compares names alone.
  `createSource` pushes the filters the cache has, not those it lacks
  (`useNotifiClient.ts:1154`).
- A rejected fetch stays published: until a fetch is forced every caller is
  answered with the error (`fetchDataImpl.ts:133`).
- `HookSession`: a migration that overlaps with a log-in overwrites the new
  token; closing the page inside the migration loses the token (`storage.ts:45`).
  `isTokenExpired` is set at the load alone.
- `FrontendSession.AuthenticatedSendsToken`: `logOut` leaves `userState`
  authenticated (`NotifiFrontendClient.ts:244`).
- Overlapping ensures of the frontend client make twins of what each has looked up
  in vain (`ensureTarget.ts:34`).
- `FrontendEnsure.UnsubscribedByName`: unsubscribing a direct push event deletes
  the first alert with the filter of direct pushes, which all direct push and
  trading pair events have (`frontendClient.ts:61`).
- `TenantClient`: on a shared service a chain of requests goes on under the
  token that another call, or the answer of a log-in, has left; a call for one alert may delete the webhook of
  another (`NotifiClient.ts:418`). The sample server refuses a source id alone
  (`index.ts:474`).
- `CardRows`: after a failed unsubscribe some rows show off though the alert
  exists; on a canary card, direct push and trading pair rows delete each other's
  alerts, and after an overlap a direct push row may show neither what the service nor
  what the context has, since its effect runs on new alerts only and not while
  the card loads (`EventTypeDirectPushRow.tsx:117`); the typed threshold of
  `CustomHealthCheckRow` is not followed by a fetch. With the hook, the fetch after a
  call may be the one another row began before the alert was written: then the toggle
  goes off though the alert exists, and `createAlert` may find the name of the alert it
  has just deleted (`fetchDataImpl.ts:119`). A row that turns on without looking says so
  also when no source was found.
- `CardSubscribe`: a first-time user's wallet balance alert is not created, and a
  returning one's is deleted, because the configurations are made before the
  log-in has brought the wallets; `isFirstTimeUser` looks at the hook even on a
  canary card; an alert whose options are the same keeps its old source; the
  canary views for wallets and for an expired session do not render; the error
  view has no way out. On a canary card, `updateWallets` maintains the group "User
  Wallets" (`NotifiFrontendClient.ts:703`), but the wallet balance alert is on the group
  named after its event (`ensureSource.ts:905`): wallets connected later are not
  watched by it. The button of the view for an expired session may be clicked
  again while it works, and the first to end resets `loading` for the others
  (`ExpiredTokenViewCard.tsx:31`): then a handler that was asked to delete an alert may
  delete it after another has created it anew. That alert is not counted as lost.
- `CardChat.ListedOnce`: polls bring messages older than the cursor, and the page
  that follows brings them again (`useIntercomChat.ts:91`). Overlapping answers
  drop messages, for good those outside of the newest 50. A page that fails
  leaves the window loading. The effect and the click both open the conversation
  and then show the window, whatever the user has gone to.

## 4. The theorems

Each holds for every value of the constants that satisfies the module's
assumptions: natural number bounds, nonempty sets where the code has at least
one, and `None` distinct from the values it stands beside (for `AlertOps`: no
kind, name, id or entry of the service is `None` or `Failed`; for
`FrontendEnsure`: no event type, id or entry of the service; for
`FrontendSession`: no token and no number; for `TenantClient` and `CardRows`: no name, row, call or
threshold; for `CardSubscribe`: no link, option, configuration or set of sources). Channels of
`FrontendEnsure` are not named like the other branches of a `Promise.all`, and no
event type of `CardSubscribe` like the source group of the wallets. No theorem
assumes fairness.

The invariants that the runs check are not inductive: they speak of quiet
states, or of what was read long before it is used. Each proof adds what is true
in between.

**`FetchCacheProofs`**: `TypeCorrect`, `SingleFlightTheorem`,
`ForcedIsFreshTheorem`, `CacheNeverRegressesTheorem`, `NoStuckLoadingTheorem`,
`ServiceRefinedTheorem`. That two owners on a cell are one caller follows from
*the cell publishes the owner's promise* (`OwnerPublished`) and *a promise has
one creator* (`OneOwner`); that a forced answer is fresh, from *all its reads
came after the call* (`ForcedReads`) and *a fulfilled promise is complete*
(`OkIsComplete`); that a cell never goes back, from *what an owner has read is
no older than what its cell holds* (`FetchAboveCell`), which itself needs that
nothing is ahead of the server (`CellBelowVersion`, `ReadBelowVersion`) and that
cells of later forced fetches are untouched (`FutureCellsEmpty`). `IInv` is
their conjunction. `CacheNeverRegresses` is a property of steps and follows from
`IInv` step by step (`RegressStep`).

The refinement takes one lemma per action: it maps to an action of
`FetchService` or to a stutter. `IInv` does not suffice for it, since the
service answers a call from what it holds when it answers, and the code from a
promise that was fulfilled some steps before. `RInv` adds that a published
promise has a living creator (`PendingHasOwner`), that a joiner's promise is the
published one, or is fulfilled and what its cell still holds (`JoinerSeesCell`),
the same for a call whose answer waits to be delivered (`AnswerIsCurrent`), and
that the page is not ahead of the cell until a fetch is forced
(`PageBehindCell`).

**`AlertOpsProofs`**: `TypeCorrect`, `NoLostAlertTheorem`,
`CacheMirrorsServerTheorem`. Each action is first described once, by what it
does to the operation, to the arrays and to the service (the lemmas `...Does`);
then come four layers, each of which uses those before it.
- `Whole`: types; ids are unique and have been given out, references of the
  service are intact, and what the client holds was once there (`Known`).
- `Kept`: as long as no operation saw its object replaced and no reply was lost,
  every alert of the service is in the cached list or is the answer some
  `createAlert` has yet to store (`Listed`). It is inductive because every
  operation works on the cached object (`WorksOn`), and because an alert whose
  deletion was answered is gone from the service before the list forgets it
  (`Gone`), whoever else has replaced the list meanwhile.
- `PageTold`: the page shows the list of its object, or the delete that has
  replaced that list still goes on and will show it.
- `Level`: without overlaps one operation runs at most, and the service is the
  cache with that operation's unstored answer put in or taken out (`Mirrors`,
  array by array). To stay so it needs `Knows`: what the operation has found in
  the cache before its `await` (the group, the alert to patch, that the name is
  free, the array itself) is still true after it; and `Sound`: the cached alerts
  name groups by the names these have, and no name is there twice.

**`HookSessionProofs`**: `TypeCorrect` and `StoredTokenIsOwnTheorem` from `Inv`,
which adds that the token an activation carries was issued to the wallet it
started with (`TaskTokens`). `AuthenticatedByStoredTokenTheorem` speaks of quiet
states; in between, the one activation that runs knows, depending on where it
is, how JWT, stored token and what it has read relate (`Fits`). `Solo` says that
there is such an activation, that all others are idle, and that it fits.
`LoadConcludesTheorem` has two halves. That the hook is initialized holds under
every overlap: as long as it is not, some activation of the effect goes on
(`LoadGoesOn`), because a `ChangeWallet` that clears the flag starts one and
every way out of one sets it. That a stored token is used is about the one
activation that runs: it has not decided yet, or the flag is set or the token
expired (`TokenUsed`), and a log-out that waits has removed the token
(`LogOutRemoves`). `TokenKeptTheorem` is about steps. It needs that no stored
token outlives `Life` (`LivesOn`), and that without overlaps the old key is
moved before anything else is written (`MovedFirst`).

In the same module, about `TransactionLogin`: `LoginTypeCorrect`,
`UuidSentOnceTheorem`, `BeginNotForgottenTheorem`, `UndisturbedLoginTheorem`. All
rest on `Numbered`: nothing knows a begin that was not called, no two calls work
for the same one. Sent at most once needs `Unsent` (a UUID that waits has not been sent), not
forgotten needs `Remembered` (the UUID waits as soon as the nonce is there),
and matching needs `Undisturbed` (a begin nothing has disturbed is the only one
under way, then the one whose UUID waits).

**`FrontendSessionProofs`**: `TypeCorrect`, `LastWordStandsTheorem`,
`SessionIsWholeTheorem`. What is in storage says little while requests wait, so
the invariant is about what will be there. `EndsIn(key, V)`: once the queue has
been worked off, the entry has a value of `V`. `FoundIn(key, V)`: so has what
whoever reads it will read. After a log-out nobody carries, or will find, a
token (`LoggedOut`); after a log-in one is stored in the end (`LoggedIn`).
`Whole(a, r)` says of one token and its roles that JWT, storage in the end, and
what an `initialize` under way has read or will read are these; `Alone`, that
without overlaps reads wait behind the writes.

**`FrontendEnsureProofs`**: `TypeCorrect`, `AlertNotLostTheorem`,
`NoTwinsAloneTheorem`, `EnsureKeepsPromiseTheorem`. The longest: an operation is
gathering from several branches at once, and what it writes rests on reads that
lie any number of steps back. Each layer of the invariant uses those before it.
- `Well`: what an operation is about at each point (`Protocol`, `InChain`), that
  what it has gathered is still at the service (`Known`), and that a chain that
  ended well has a source group and valid inputs (`ChainDone`). From it,
  `TypeOK`: no action reads a field of what was not found.
- `AlertsWell`: ids are unique; an alert that was found may be gone but not
  changed (`AlertKnown`), as alerts are immutable. An operation that nothing
  overlaps is the only one (`OnlyOne`) and knows of its alert that it is there,
  or that none is (`AloneAlert`).
- `StandsWell`: an event type that was ensured, or of which an operation holds
  the alert, has an alert, is excused, or some operation is about to create it
  anew. The disjunct about holders is what makes it inductive: an operation
  whose alert another one has deleted meanwhile is rejected only when it deletes
  it, and until then the other one answers for the alert.
- `TargetsWell`: what was gathered of targets is what was asked for, as far as
  the branches have ended (`Ready`). `ChainWell`: the gathered sources cover
  the addresses of the event type that are not missing (`Covers`).
- `AloneWell`: what was read is still so, and what was missing still is, for an
  operation that nothing overlaps: its target group, its targets, its sources
  and its source group.
- `Twinless`: as long as nothing has overlapped, whatever runs is alone, and
  nothing is there twice.
- `PromiseWell`: what is claimed is claimed while nothing runs (`ClaimRests`)
  and is true.

**`TenantClientProofs`**: `TypeCorrect`, `RequestCarriesTokenTheorem`,
`BalanceAlertDeliversTheorem`. A chain uses the shared service and that service
holds its token, unless it was mixed up (`Shapes`, `ChainHasToken`). How far a
chain that is alone has come with its tenant's webhooks, groups and alerts is
`Progress`, request by request; that it finds the oldest alert of the name again
needs that a set of numbers has a least one, and that alerts that bear a balance
filter have an id (`BalanceHasId`).

**`CardRowsProofs`**: `TypeCorrect`, `NoStuckToggleTheorem`,
`ToggleTruthTheorem`. A row that is busy, and a card that is loading, wait for a
call that will reset the flag (`BusyWaits`, `LoadingWaits`), also when the row
was unmounted and mounted anew. `ToggleTruth` has four parts, which take two
more layers.
- `Truth`, for `OwnTruthTheorem` and `SeenTruthTheorem`. A row that was not muddled
  has one call at most (`OneCall`), which works on the alert of that row, so that no
  other call changes it (`Named`). Of that alert everything that is held, the
  fetch, what the calls carry and what the context shows, is what the service has, but
  for what the row's own call has changed and not rendered yet (`Agrees`, `Known`):
  that is why it does no harm to share a fetch that others began, as long as it was
  served after one's own write. A row with a state of its own shows what the
  service has or, depending on where its call is, will have (`Kept`, `Foretold`).
  Without overlaps `Agrees` holds of all alerts (`Orderly`).
- `RatioInv`, for the rows with a threshold, which follow the alerts but wait with
  flags of several kinds: one that waits for nothing shows what the context has
  (`Minds`), and the one whose effect does not see its flag shows what its call is to
  achieve (`Promises`).

**`CardSubscribeProofs`**: `TypeCorrect`, `LossIsBoundedTheorem`,
`SubscriptionCompleteTheorem`, `CardTellsTruthTheorem`. A handler is a chain of
links of eighteen kinds, built by joining pieces; most of what is true of it is
in which order these kinds follow each other. Four such orders (`After`, `Never`,
`Before`, `Directly`), each with lemmas on joining two chains and on what is left
after the first link, carry what every handler starts with through its run.
- `Typed`: data are fetched before they are used; an alert is deleted right before
  it is created, or because that was asked for (`Rewriting`); what else a handler
  must not or has to do is `Chained`. From it, `TypeOK`: no link reads what is not there.
- `LossInv`: an alert that is missing is about to be created by the handler that
  has deleted it, or a request has failed for it. Without "about to" it would not
  be inductive: the deletion alone loses the alert. It holds under all overlaps.
- `ConfiguredInv`: every configuration in use is that of its row, made with some
  set of wallets, or null (`Fits`), and the service has no sources for an alert
  but those of its row or of an earlier visit (`GroupsWell`). It is what makes
  the hook's update, which leaves the sources alone, leave the right ones.
- `LoadingInv`: while the card is loading some handler runs that resets it also
  when it throws (`Resets`).
- `ServeInv`: without overlaps and failures one handler runs at most, and what
  its end will bring to the service is either still on its chain or so (`Promise`):
  the contacts (`Contacted`), each alert (`Settles`) and the sources of the wallets
  (`Grouped`). One promise for all handlers suffices, since it is about the links
  that are left. With no link left it is `Result`, which stays true of the handler
  that ended last until another one starts. First fetches may run meanwhile: they
  write nothing, and the promise does not speak of the card (`ServeBeside`). That the
  source group of another alert is left alone (`OthersStand`) is where it matters how
  groups are named.
- `ShowInv`: with nothing beside it, what a handler has fetched is what the service
  has once it has no further write, and so is the card when it has nothing more
  to render (`Showing`, `Seen`).

Only model-checked:
- liveness (`CallsReturn`, `InitializeEnds`, `ChatCatchesUp`), out of the
  prover's reach, as is ENABLED;
- `CardChat`: its lists are sorted and filtered sequences, and what `SortSeq` and
  `SelectSeq` yield for every input needs induction over data;
- the two properties that the code does not keep.

No module declares a RECURSIVE operator.

## 5. What is not modelled

- Operations that are one request and touch no state but the loading flag:
  getters, broadcasts, topics, verification mails. Formatting, wording, logging,
  styles; the signing of messages per chain.
- The notification history: cursor paging like that of the chat, with a flag
  that a failed request leaves set for good; the configuration loader of the
  card: one request behind a state of three values, whose answers for two card
  ids are not told apart. Both are small and their defects plain from the code.
- Subscriptions over web sockets (`subscribeTenantEntityUpdated`): the library's.
- Pure data handling: filter options, references to inputs, ids and addresses;
  they are model values in the modules that use them.
- Generated GraphQL documents, type declarations, samples of front ends.
- In the modelled parts: `copyAuthorization` of the frontend client; storage that
  fails; roles in the hook; filters in `AlertOps`; the form that chooses contacts
  in the chat's settings. `components` in `PROJECT.json` has the list.

## 6. Status

The modules of section 2 are written and checked. Nine of the ten specifications
have proofs of every invariant that a run checks of them (and, for `FetchCache`,
of a step property and the refinement); the two properties that the code does
not keep are shown violated. `CardChat` stays with TLC, whole. What could follow:
the notification history as a second instance of the chat's paging, and lemmas on
sorted sequences once a prover can carry out the induction they need.
