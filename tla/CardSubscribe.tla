---------------------------- MODULE CardSubscribe ----------------------------
(***************************************************************************)
(* Signing up on the subscription card: useNotifiSubscribe with the alert  *)
(* configurations it is given, the render of the subscription context, the *)
(* subscribe button, the views for wallets and for an expired session, and *)
(* what they show one after another.                                       *)
(*                                                                         *)
(* A handler is a chain of requests, one awaited after the other, with     *)
(* changes of the card in between. A flow holds what is left of its chain, *)
(* next to what the handler has captured: the form, the configurations,    *)
(* the data it has fetched. The chains are written down as they are in the *)
(* code; one action per kind of link carries them out.                     *)
(*                                                                         *)
(* The email stands for every field of the form. keepSubscriptionData has  *)
(* its default. The operations of the clients are one request here: their  *)
(* own modules are AlertOps and FrontendEnsure, and HookSession for logIn. *)
(***************************************************************************)
EXTENDS Naturals, Sequences, FiniteSets

CONSTANTS
  Order,       \* the names of the event types, in the order of the card
  Cards,       \* the pages: what they ask the card to be, the kind of event of
               \* every name, and the names whose filter the service offers
  Wallets,     \* further wallets of the user, besides the one to log in with
  Emails,
  Flows,       \* slots for running handlers
  MaxClicks,   \* bound: what the user starts
  MaxFailures, \* bound: requests refused or replies lost
  None

Names == {Order[i] : i \in DOMAIN Order}
Kinds == {"broadcast", "custom", "customHealthCheck", "directPush", "walletBalance",
          "priceChange", "fusion", "fusionHealthCheck", "healthCheck", "tradingPair",
          "XMTP", "label"}

ASSUME CardSubscribeAssumption ==
  /\ Order \in Seq(Names)
  /\ Cards \subseteq [canary : BOOLEAN, multi : BOOLEAN,
                     events : [Names -> Kinds], offered : SUBSET Names]
  /\ MaxClicks \in Nat /\ MaxFailures \in Nat
  /\ "own" \notin Wallets /\ None \notin Names \cup Wallets \cup Emails
  /\ "userWallets" \notin Names

VARIABLES
  setup,    \* the page: frontend client or hook (canary), several wallets or one
            \* (multi), the event types, and those whose filter the service offers
  session,  \* of both clients; known: client.data of the hook has target groups
  server,   \* what the service has
  card,     \* view, form, loading, and the context as last rendered
  flows,    \* the running handlers
  clicks,
  failures, \* operations that have failed
  kept,     \* history: the alerts that are there or that no handler which was
            \* asked to has deleted
  done,     \* history: what the last handler has achieved, if it was alone
  overlap,  \* history: two handlers ran at once
  beside,   \* history: the same, or a first fetch ran beside something else
  cached    \* history: a fetch was answered with wallets of an earlier one

history == <<kept, done, overlap, beside, cached>>
vars == <<setup, session, server, card, flows, clicks, failures, history>>

-----------------------------------------------------------------------------
(* Alert configurations. Options: null, {}, a threshold, or others.          *)

\* Alerts on all wallets share a group, "User Wallets".
Groups == Names \cup {"userWallets"}
Sources == {"here", "there", "push", "topic", "token"} \cup {"own"} \cup Wallets
Options == {"empty", "ratio", "other"}
Configuration ==
  [multiple : BOOLEAN, sources : SUBSET Sources, options : Options \cup {"null"},
   group : {None, "userWallets"}, maintain : BOOLEAN]
ServerState ==
  [alerts : [Names -> Options \cup {None}], targets : Emails \cup {None},
   wallets : SUBSET (Wallets \cup {"own"}), groups : [Groups -> (SUBSET Sources) \cup {None}]]
Handlers == {"fetchOnce", "button", "verifyonboarding", "verify", "wallet", "toggle", "expired"}

ASSUME NoneAssumption ==
  /\ None \notin Options \cup {"null", "userWallets"} \cup Handlers
  /\ None \notin {"login", "read", "render", "show", "idle", "try", "alert"}
  /\ None \notin {"delete", "create", "update", "targets", "targetsUnlessMade", "ensure",
                  "wallets", "ensureWallets", "connect", "take", "adopt"}
  /\ \A S \in SUBSET Sources : None # S
  /\ None \notin Configuration
  /\ None \notin ServerState

Single(source, options) ==
  [multiple |-> FALSE, sources |-> {source}, options |-> options, group |-> None,
   maintain |-> FALSE]

Multiple(sources, options) ==
  [multiple |-> TRUE, sources |-> sources, options |-> options, group |-> None,
   maintain |-> FALSE]

broadcastMessageConfiguration == Single("topic", "empty")
customThresholdConfiguration == Single("here", "ratio")
customToggleConfiguration == Single("here", "other")
XMTPToggleConfiguration == Multiple({"topic"}, "empty")
fusionToggleConfiguration == [Single("here", "empty") EXCEPT !.maintain = TRUE]
fusionHealthCheckConfiguration == [Single("here", "ratio") EXCEPT !.maintain = TRUE]
directMessageConfiguration == Single("push", "other")
healthThresholdConfiguration == Single("push", "ratio")
tradingPairConfiguration == Single("push", "other")
priceChangeConfiguration == Multiple({"token"}, "null")
walletBalanceConfiguration(wallets) ==
  [Multiple(wallets, "null") EXCEPT !.group = "userWallets"]

\* What the row of an event type subscribes to.
RowConfiguration(kind, wallets) ==
  CASE kind = "broadcast" -> broadcastMessageConfiguration
    [] kind = "customHealthCheck" -> customThresholdConfiguration
    [] kind = "custom" -> customToggleConfiguration
    [] kind = "directPush" -> directMessageConfiguration
    [] kind = "walletBalance" -> walletBalanceConfiguration(wallets)
    [] kind = "priceChange" -> priceChangeConfiguration
    [] kind = "fusion" -> fusionToggleConfiguration
    [] kind = "fusionHealthCheck" -> fusionHealthCheckConfiguration
    [] kind = "healthCheck" -> healthThresholdConfiguration
    [] kind = "tradingPair" -> tradingPairConfiguration
    [] kind = "XMTP" -> XMTPToggleConfiguration
    [] kind = "label" -> None

\* null: the alert is to be deleted.
nullConfiguration == Multiple({}, "null")

\* Kinds that nobody is subscribed to by default.
OptIn == {"healthCheck", "tradingPair", "XMTP", "label"}
\* Those for which the frontend client throws, once it has made their source
\* group, as the inputs name no threshold and no pair.
FrontendOptIn == {"customHealthCheck", "tradingPair"}

createConfigurations(wallets) ==
  [n \in Names |-> IF setup.events[n] \in OptIn THEN None
                   ELSE RowConfiguration(setup.events[n], wallets)]

\* With the frontend client: what ensureAlert makes of an event type; it looks
\* the wallets up itself.
FrontendConfigurations == [n \in Names |-> RowConfiguration(setup.events[n], {})]

NoConfigurations == [n \in Names |-> None]

\* The frontend client names every group after its event type.
GroupOf(n, config) == IF setup.canary \/ config.group = None THEN n ELSE config.group

SourcesOf(n, config) ==
  IF setup.canary /\ setup.events[n] = "walletBalance" THEN server.wallets
  ELSE config.sources

\* Mutant of Stored: null is sent as it is.
SentAsItIs(options) == options

\* The options as the service keeps them.
Stored(options) == IF options = "null" THEN "empty" ELSE options

\* A filter is found among those of the sources, with options for it.
HasFilter(n, config) ==
  /\ SourcesOf(n, config) # {} /\ n \in setup.offered
  /\ setup.canary => setup.events[n] \notin FrontendOptIn

-----------------------------------------------------------------------------
(* Flows *)

NoFlow == [by |-> None, todo |-> <<>>, tried |-> FALSE, form |-> None,
           configs |-> NoConfigurations, data |-> None, made |-> FALSE]

Running == {f \in Flows : flows[f].by # None}
Handling == {f \in Running : flows[f].by # "fetchOnce"}
Authenticated == IF setup.canary THEN session.frontend = "valid" ELSE session.hook
Head1(f) == IF flows[f].todo = <<>> THEN None ELSE Head(flows[f].todo)[1]
Arg(f) == Head(flows[f].todo)[2]

Link(kind) == <<kind, None>>
Links(kinds) == [i \in DOMAIN kinds |-> Link(kinds[i])]

\* logIn of useNotifiSubscribe; handlers call it when not authenticated.
LogInLinks == IF session.hook THEN <<>> ELSE Links(<<"login">>)
logIn == LogInLinks \o Links(<<"read", "render">>)
EnsureLoggedIn == IF session.hook THEN <<>> ELSE logIn

AlertLinks == [i \in DOMAIN Order |-> <<"alert", Order[i]>>]

subscribe ==
  EnsureLoggedIn \o Links(<<"read">>) \o AlertLinks
    \o Links(<<"targetsUnlessMade", "read", "render">>)

updateTargetGroups == EnsureLoggedIn \o Links(<<"targets", "read", "render">>)

instantSubscribe(n) ==
  logIn \o Links(<<"read">>) \o <<<<"alert", n>>>>
    \o Links(<<"targetsUnlessMade", "idle", "read", "render">>)

subscribeWallet(w, technique) ==
  EnsureLoggedIn \o <<<<technique, w>>>>
    \o Links(<<"read", "wallets", "read", "render">>)

updateWallets == EnsureLoggedIn \o Links(<<"read", "wallets", "read", "render">>)

\* subscribeAlertsByFrontendClient
subscribeAlerts ==
  Links(<<"targets">>) \o [i \in DOMAIN Order |-> <<"ensure", Order[i]>>]
    \o Links(<<"read", "adopt">>)

\* onClick of the button, from its try on.
ButtonLinks(firstTime) ==
  LET firsts == firstTime /\ ~setup.multi IN
  (CASE firsts /\ setup.canary -> subscribeAlerts
     [] firsts /\ ~setup.canary -> subscribe
     [] ~firsts /\ setup.canary -> Links(<<"targets">>)
     [] ~firsts /\ ~setup.canary -> updateTargetGroups)
    \o (IF setup.canary THEN Links(<<"read", "render">>) ELSE <<>>)
    \o <<<<"show", CASE ~setup.multi -> "preview"
                     [] setup.multi /\ card.view = "signup" -> "verifyonboarding"
                     [] OTHER -> "verify">>>>

\* The configurations with which the button and the onboarding subscribe.
Defaults == IF setup.canary THEN FrontendConfigurations
            ELSE createConfigurations(card.wallets)

-----------------------------------------------------------------------------
(* The first load *)

NoAlerts == [n \in Names |-> None]
NewAccount == [alerts |-> NoAlerts, targets |-> None, wallets |-> {},
               groups |-> [g \in Groups |-> None]]

\* A returning user has the alerts of an earlier visit, when the page was given
\* another address for them.
Account(alerts, email) ==
  [alerts |-> alerts, targets |-> email, wallets |-> {"own"},
   groups |-> [g \in Groups |->
     IF g \in Names /\ alerts[g] # None THEN {"there"} ELSE None]]

Init ==
  /\ setup \in Cards
  /\ \/ /\ server = NewAccount
        /\ session = [hook |-> FALSE, frontend |-> "none", known |-> FALSE,
                      fetched |-> FALSE]
     \/ \E stored \in SUBSET Names, email \in Emails, state \in {"none", "valid", "expired"} :
          /\ server = Account([n \in Names |->
               IF n \in stored /\ RowConfiguration(setup.events[n], {}) # None
               THEN Stored(RowConfiguration(setup.events[n], {}).options) ELSE None], email)
          /\ session = [hook |-> ~setup.canary /\ state = "valid", frontend |-> state,
                        known |-> ~setup.canary /\ state = "valid", fetched |-> FALSE]
  /\ card = [view |-> "loading", form |-> None, loading |-> FALSE, email |-> None,
             alerts |-> NoAlerts, wallets |-> {}, elsewhere |-> {}]
  /\ flows = [f \in Flows |-> NoFlow]
  /\ clicks = 0
  /\ failures = 0
  /\ kept = {n \in Names : server.alerts[n] # None}
  /\ done = None
  /\ overlap = FALSE
  /\ beside = FALSE
  /\ cached = FALSE

\* A handler starts: flow is what it captures.
Start(f, flow) ==
  /\ flows[f].by = None
  /\ flows' = [flows EXCEPT ![f] = flow]
  /\ beside' = (beside \/ Running # {})
  /\ IF flow.by = "fetchOnce" THEN UNCHANGED <<done, overlap>>
     ELSE done' = None /\ overlap' = (overlap \/ Handling # {})

Captured(by, todo, configs) ==
  [NoFlow EXCEPT !.by = by, !.todo = todo, !.form = card.form, !.configs = configs,
                 !.tried = TRUE]

\* The effect that fetches once there is a session: of the context, on a card of
\* the frontend client, and otherwise of each component that uses the hook.
FetchOnce(f) ==
  /\ Authenticated /\ ~session.fetched
  /\ session' = [session EXCEPT !.fetched = TRUE]
  /\ Start(f, Captured("fetchOnce", Links(<<"read", "render">>), NoConfigurations))
  /\ UNCHANGED <<setup, server, card, clicks, failures, kept, cached>>

\* The components of a view that use the hook fetch when they are mounted.
Mounting(view) ==
  [session EXCEPT !.fetched =
     @ /\ (setup.canary \/ view \in {card.view, "history", "error"})]

\* The card shows its first view when its configuration and the session are
\* loaded, be the data of the user there or not. It uses the hook itself.
FirstView ==
  /\ card.view = "loading"
  /\ session' = [session EXCEPT !.fetched = @ /\ setup.canary]
  /\ card' = [card EXCEPT !.view =
       CASE card.email # None -> "history"
         [] card.email = None /\ session.frontend = "expired" -> "expired"
         [] OTHER -> "signup"]
  /\ UNCHANGED <<setup, server, flows, clicks, failures, history>>

-----------------------------------------------------------------------------
(* What the user does *)

Inputs(form, view) ==
  /\ card' = [card EXCEPT !.form = form, !.view = view]
  /\ session' = Mounting(view)
  /\ UNCHANGED <<setup, server, flows, clicks, failures, history>>

\* The fields are hidden while the card is loading.
Type(email) ==
  /\ card.view \in {"signup", "edit"} /\ ~card.loading
  /\ email # card.form
  /\ Inputs(email, card.view)

\* The buttons of the headings, and the one to edit; leaving the edit view
\* brings back what was rendered last.
Settings == card.view = "history" /\ Inputs(card.form, "preview")
Edit == card.view = "preview" /\ Inputs(card.form, "edit")
Back ==
  \/ card.view = "edit" /\ Inputs(card.email, "preview")
  \/ card.view = "verifyonboarding" /\ Inputs(card.form, "signup")
  \/ card.view = "verify" /\ Inputs(card.form, "preview")
  \/ card.view = "preview" /\ Inputs(card.form, "history")

\* A click that starts a handler.
Click(f, flow, busy) ==
  /\ clicks < MaxClicks
  /\ clicks' = clicks + 1
  /\ Start(f, flow)
  /\ card' = [card EXCEPT !.loading = @ \/ busy]
  /\ UNCHANGED <<setup, session, server, failures, kept, cached>>

\* onClick of NotifiSubscribeButton. A frontend client that found no session when
\* the page was loaded logs in and fetches before loading is set, outside of the
\* try, on each click: logIn leaves its userState as it is.
Subscribe(f) ==
  /\ card.view \in {"signup", "edit"} /\ ~card.loading
  /\ card.form # None
  /\ IF setup.canary /\ session.frontend # "valid"
     THEN Click(f, [Captured("button", Links(<<"login", "read", "try">>), NoConfigurations)
                      EXCEPT !.tried = FALSE], FALSE)
     ELSE Click(f, Captured("button", ButtonLinks(~session.known),
                            IF ~session.known /\ ~setup.multi THEN Defaults
                            ELSE NoConfigurations), TRUE)

\* onClick of VerifyWalletView.
Verify(f) ==
  /\ card.view \in {"verifyonboarding", "verify"} /\ ~card.loading
  /\ LET links == CASE card.view = "verifyonboarding" /\ setup.canary -> subscribeAlerts
                    [] card.view = "verifyonboarding" /\ ~setup.canary -> subscribe
                    [] card.view = "verify" /\ setup.canary -> Links(<<"ensureWallets">>)
                    [] card.view = "verify" /\ ~setup.canary -> updateWallets
     IN Click(f, Captured(card.view, links \o <<<<"show", "preview">>>>,
                          IF card.view = "verifyonboarding" THEN Defaults
                          ELSE NoConfigurations), TRUE)

\* ConnectWalletRow: verify another wallet, or verify it anyway. It goes through
\* the hook, also on a card of the frontend client.
ConnectWallet(f, w) ==
  /\ card.view \in {"verifyonboarding", "verify"} /\ ~card.loading
  /\ w \notin card.wallets
  /\ Click(f, Captured("wallet",
                subscribeWallet(w, IF w \in card.elsewhere THEN "take" ELSE "connect"),
                NoConfigurations), TRUE)

\* A toggle of the preview, with the hook.
Toggle(f, n) ==
  /\ ~setup.canary
  /\ card.view = "preview" /\ ~card.loading
  /\ LET config == IF card.alerts[n] # None THEN nullConfiguration
                   ELSE RowConfiguration(setup.events[n], card.wallets)
     IN /\ setup.events[n] # "label"
        /\ Click(f, Captured("toggle", instantSubscribe(n),
                             [NoConfigurations EXCEPT ![n] = config]), TRUE)

\* The button of ExpiredTokenView: the frontend client does not fetch.
Reconnect(f) ==
  /\ card.view = "expired"
  /\ Click(f, Captured("expired", (IF setup.canary THEN Links(<<"login">>) ELSE logIn)
                                    \o <<<<"show", "preview">>>>, NoConfigurations), FALSE)

-----------------------------------------------------------------------------
(* The links of the chains *)

Next1(f) == [flows[f] EXCEPT !.todo = Tail(@)]
Goes(f, flow) == flows' = [flows EXCEPT ![f] = flow]

\* The writes of a request, when it is carried out.
Writes(f, server1) ==
  /\ server' = server1
  /\ UNCHANGED <<setup, card, clicks, failures, done, overlap, beside, cached>>

Login(f) ==
  /\ Head1(f) = "login"
  /\ Goes(f, Next1(f))
  /\ session' = [session EXCEPT !.hook = @ \/ ~setup.canary \/ flows[f].by = "wallet"]
  /\ Writes(f, [server EXCEPT !.wallets = @ \cup {"own"}])
  /\ UNCHANGED kept

\* A fetch. Within its time to live the hook's cache answers, which has all the
\* changes but those of connectWallet.
Read(f) ==
  /\ Head1(f) = "read"
  /\ \E wallets \in {server.wallets}
        \cup IF ~setup.canary /\ flows[f].by = "wallet" THEN {card.wallets} ELSE {} :
       /\ Goes(f, [Next1(f) EXCEPT !.data = [server EXCEPT !.wallets = wallets]])
       /\ cached' = (cached \/ wallets # server.wallets)
  /\ session' = [session EXCEPT !.known =
       @ \/ (server.targets # None /\ (~setup.canary \/ flows[f].by = "wallet"))]
  /\ UNCHANGED <<setup, server, card, clicks, failures, kept, done, overlap, beside>>

\* Mutant of Rendered: the alerts of the answer are left out.
RenderedContacts(data) ==
  [card EXCEPT !.form = data.targets, !.email = data.targets, !.wallets = data.wallets]

Rendered(data) ==
  [card EXCEPT !.form = data.targets, !.email = data.targets, !.wallets = data.wallets,
               !.alerts = data.alerts]

\* What a handler has achieved when it is through.
Through(f) ==
  IF Len(flows[f].todo) > 1 \/ flows[f].by = "fetchOnce" THEN done
  ELSE [by |-> flows[f].by, form |-> flows[f].form, configs |-> flows[f].configs]

Ends(f) == IF Len(flows[f].todo) > 1 THEN Next1(f) ELSE NoFlow

\* loading after the last link of a handler.
Settled(f, view) == card.loading /\ Len(flows[f].todo) > 1

\* The answer is rendered, over what is typed into the form.
Render(f) ==
  LET seen == Rendered(flows[f].data) IN
  /\ Head1(f) = "render"
  /\ card' = [seen EXCEPT !.loading = IF flows[f].by = "fetchOnce" THEN @ ELSE Settled(f, None)]
  /\ Goes(f, Ends(f))
  /\ done' = Through(f)
  /\ UNCHANGED <<setup, session, server, clicks, failures, kept, overlap, beside, cached>>

Show(f) ==
  /\ Head1(f) = "show"
  /\ card' = [card EXCEPT !.view = Arg(f), !.loading = Settled(f, Arg(f))]
  /\ session' = Mounting(Arg(f))
  /\ Goes(f, Ends(f))
  /\ done' = Through(f)
  /\ UNCHANGED <<setup, server, clicks, failures, kept, overlap, beside, cached>>

\* Links without a request.
Local(f) ==
  LET n == Arg(f)
      config == flows[f].configs[n]
      data == flows[f].data
  IN
  /\ \/ /\ Head1(f) = "try"
        /\ LET firstTime == data.targets = None IN
           Goes(f, [flows[f] EXCEPT !.tried = TRUE, !.todo = ButtonLinks(firstTime),
                      !.configs = IF firstTime /\ ~setup.multi THEN Defaults ELSE @])
        /\ card' = [card EXCEPT !.loading = TRUE]
     \/ /\ Head1(f) = "idle"
        /\ Goes(f, Next1(f))
        /\ card' = [card EXCEPT !.loading = FALSE]
  /\ UNCHANGED <<setup, session, server, clicks, failures, history>>

\* Mutant of Requests: all alerts are deleted before one is created.
DeleteAll(n, config, data) ==
  LET gone == {i \in DOMAIN Order : data.alerts[Order[i]] # None}
      delete == [i \in 1 .. Cardinality(gone) |-> <<"delete", Order[i]>>]
  IN IF config = None THEN <<>>
     ELSE IF ~HasFilter(n, config) THEN delete
     ELSE delete \o <<<<"create", n>>>>

\* updateAlertInternal: the requests for one alert, by the data fetched before.
\* Sources that are missing are created on the way.
Requests(n, config, data) ==
  LET exists == data.alerts[n] # None
      delete == IF exists THEN <<<<"delete", n>>>> ELSE <<>>
  IN IF config = None THEN <<>>
     ELSE IF ~HasFilter(n, config) THEN delete
     ELSE IF exists /\ ~config.multiple /\ config.options = data.alerts[n]
     THEN <<<<"update", n>>>>
     ELSE delete \o <<<<"create", n>>>>

Plan(f) ==
  LET n == Arg(f)
      config == flows[f].configs[n]
      requests == Requests(n, config, flows[f].data)
  IN
  /\ Head1(f) = "alert"
  /\ Goes(f, [flows[f] EXCEPT !.todo = requests \o Tail(@)])
  /\ UNCHANGED <<setup, session, server, card, clicks, failures, history>>

Sourced(n, config, sources) == [server EXCEPT !.groups[GroupOf(n, config)] = sources]

\* A source group that is to be maintained stays as it was.
Maintained(n, config, data) ==
  LET sources == data.groups[GroupOf(n, config)] IN
  Sourced(n, config, IF config.maintain /\ sources # None THEN sources ELSE config.sources)

\* Mutant of Created: contacts that the service has go before those typed in.
KeepsContacts(n, config, data, form) ==
  [Maintained(n, config, data) EXCEPT
     !.alerts[n] = Stored(config.options),
     !.targets = IF server.targets = None THEN form ELSE @]

\* What creating an alert leaves of the service's data.
Created(n, config, data, form) ==
  [Maintained(n, config, data) EXCEPT
     !.alerts[n] = Stored(config.options), !.targets = form]

\* One alert of the frontend client: it throws if there is no target group or no
\* filter, with the source group made.
Ensured(n, config) ==
  LET sourced == Sourced(n, config, SourcesOf(n, config)) IN
  IF config = None THEN server
  ELSE IF server.targets = None \/ ~HasFilter(n, config) THEN sourced
  ELSE [sourced EXCEPT !.alerts[n] = Stored(config.options)]

\* What a link does to the service.
Effect(f) ==
  LET flow == flows[f]
      n == Arg(f)
      config == flow.configs[n]
  IN CASE Head1(f) = "delete" -> [server EXCEPT !.alerts[n] = None]
       [] Head1(f) = "create" -> Created(n, config, flow.data, flow.form)
       [] Head1(f) \in {"update", "targets"} -> [server EXCEPT !.targets = flow.form]
       [] Head1(f) = "targetsUnlessMade" ->
            IF flow.made THEN server ELSE [server EXCEPT !.targets = flow.form]
       [] Head1(f) = "ensure" -> Ensured(n, config)
       [] Head1(f) = "wallets" -> [server EXCEPT !.groups["userWallets"] = flow.data.wallets]
       [] Head1(f) = "ensureWallets" ->
            [server EXCEPT !.groups["userWallets"] = server.wallets]
       [] Head1(f) \in {"connect", "take"} -> [server EXCEPT !.wallets = @ \cup {n}]
       [] OTHER -> server

Requesting(f) ==
  Head1(f) \in {"delete", "create", "update", "targets", "targetsUnlessMade",
                "ensure", "wallets", "ensureWallets", "connect", "take", "adopt"}

\* The alert that the handler was asked to delete, and deletes now.
AskedToDelete(f) ==
  {n \in Names : LET config == flows[f].configs[n] IN
     /\ Head(flows[f].todo) = <<"delete", n>>
     /\ config # None /\ ~HasFilter(n, config)}

Request(f) ==
  LET made == Head1(f) \in {"create", "update"} IN
  /\ Requesting(f)
  /\ Head1(f) = "adopt" => flows[f].data.targets # None
  /\ Goes(f, [Next1(f) EXCEPT !.made = @ \/ made])
  /\ Writes(f, Effect(f))
  /\ session' = [session EXCEPT !.known = @ \/ (~setup.canary /\ server'.targets # None)]
  /\ kept' = (kept \ AskedToDelete(f))
       \cup {n \in Names : server.alerts[n] = None /\ server'.alerts[n] # None}

\* The wallet is of another account: the row now offers to take it over.
Conflict(f) ==
  /\ Head1(f) = "connect"
  /\ card' = [card EXCEPT !.loading = FALSE, !.elsewhere = @ \cup {Arg(f)}]
  /\ Goes(f, NoFlow)
  /\ UNCHANGED <<setup, session, server, clicks, failures, history>>

\* What remains of a handler when a request has failed. The button shows the
\* error once it is in its try; an alert that the frontend client cannot ensure
\* is skipped.
Thrown(f) ==
  [card EXCEPT !.loading = IF flows[f].tried /\ flows[f].by # "fetchOnce" THEN FALSE ELSE @,
               !.view = IF flows[f].tried /\ flows[f].by = "button" THEN "error" ELSE @]

\* What a request that fails in its middle leaves: the groups of the alert.
Halfway(f) ==
  LET flow == flows[f]
      n == Arg(f)
      config == flow.configs[n]
      sourced == Sourced(n, config, SourcesOf(n, config))
      maintained == Maintained(n, config, flow.data)
  IN CASE Head1(f) = "create" ->
            {maintained, [maintained EXCEPT !.targets = flow.form]}
       [] Head1(f) = "ensure" /\ config # None ->
            {sourced, [sourced EXCEPT !.alerts[n] = None]}
       [] OTHER -> {}

\* A client checks its call by a fetch of its own: the name of a new alert must
\* be unique, and an alert to be deleted or updated must be there.
Refused(f) ==
  \/ Head1(f) = "create" /\ server.alerts[Arg(f)] # None
  \/ Head1(f) \in {"delete", "update"} /\ server.alerts[Arg(f)] = None

\* An operation fails: its request was carried out, or not, or in part. To throw
\* on the check of a fetch that is older than what the handler has deleted or
\* created counts as a failure, and on a check of what is there does not.
Fail(f) ==
  /\ Requesting(f) \/ Head1(f) \in {"login", "read"}
  /\ Head1(f) = "adopt" => flows[f].data.targets = None
  /\ IF Head1(f) = "adopt" \/ Refused(f) THEN server' = server /\ UNCHANGED failures
     ELSE /\ failures < MaxFailures /\ failures' = failures + 1
          /\ server' \in {server} \cup Halfway(f) \cup IF Requesting(f) THEN {Effect(f)} ELSE {}
  /\ IF Head1(f) = "ensure" THEN Goes(f, Next1(f)) /\ UNCHANGED card
     ELSE Goes(f, NoFlow) /\ card' = Thrown(f)
  /\ UNCHANGED <<setup, session, clicks, history>>

Step(f) ==
  \/ Login(f) \/ Read(f) \/ Render(f) \/ Show(f) \/ Local(f) \/ Plan(f)
  \/ Request(f) \/ Conflict(f) \/ Fail(f)

Act(f) ==
  \/ FetchOnce(f) \/ Subscribe(f) \/ Verify(f) \/ Reconnect(f)
  \/ \E w \in Wallets : ConnectWallet(f, w)
  \/ \E n \in Names : Toggle(f, n)

Next ==
  \/ FirstView \/ Settings \/ Edit \/ Back
  \/ \E email \in Emails \cup {None} : Type(email)
  \/ \E f \in Flows : Act(f) \/ Step(f)

Spec == Init /\ [][Next]_vars

-----------------------------------------------------------------------------
(* Properties *)

TypeOK ==
  /\ setup \in Cards
  /\ session.frontend \in {"none", "valid", "expired"}
  /\ server \in ServerState
  /\ card.view \in {"loading", "history", "expired", "signup", "preview", "edit",
                    "verifyonboarding", "verify", "error"}
  /\ card.form \in Emails \cup {None} /\ card.wallets \subseteq Wallets \cup {"own"}
  /\ \A f \in Flows : flows[f].by = None => flows[f] = NoFlow

Quiet == Running = {}

\* One failed operation costs at most one alert: the alerts are replaced one after
\* the other, each deleted right before it is created anew, so that all those
\* that were not deleted as asked are there but for one per failure, however
\* handlers overlap.
LossIsBounded ==
  Quiet => Cardinality({n \in kept : server.alerts[n] = None}) <= failures

\* The last handler has come to its end; no other ran at the same time, and
\* nothing has ever failed. A first fetch may have run beside it.
Undisturbed == done # None /\ ~overlap /\ failures = 0

\* The group of an alert has the sources of its configuration, on a card of the
\* frontend client the wallets that the user has; but the hook only updates an
\* alert whose options are the same, and leaves it where it was.
Watches(n, config) ==
  \/ server.groups[GroupOf(n, config)] = SourcesOf(n, config)
  \/ server.groups[GroupOf(n, config)] = {"there"}
     /\ ~config.multiple /\ ~setup.canary

\* A handler that subscribes and comes to its end has done all of it, whatever it
\* found and whatever the first fetches render meanwhile: the contacts are those
\* that were typed in, though logging in on the way has rendered others, and
\* every event type it was to subscribe to and whose filter is there has its
\* alert, with the options asked for and on its sources.
SubscriptionComplete ==
  Undisturbed /\ done.by \in {"button", "verifyonboarding", "toggle"} =>
    /\ server.targets = done.form
    /\ \A n \in Names : LET config == done.configs[n] IN
         config # None /\ HasFilter(n, config) =>
           server.alerts[n] = Stored(config.options) /\ Watches(n, config)

\* A fetch returns the stored wallets: what connectWallet has connected is there
\* when the handler fetches next. Not kept by the code: within a second of a
\* fetch the cache answers, which lacks it (see the README).
FetchReturnsStored == ~cached

\* Whatever fails and overlaps, a card on which nothing runs is not left loading,
\* which would disable every input of it for good, though subscribe and
\* updateTargetGroups do not reset the flag when they throw. After a handler
\* beside which nothing ran, and after the fetches that follow it, the card shows
\* what the service has, in the alerts and in the form. The sources of the
\* wallets are the wallets when they have been brought up to date - unless they
\* were fetched within a second of a fetch before they were connected. The views
\* of the frontend client for wallets and for an expired session do not render.
CardTellsTruth ==
  /\ Quiet => ~card.loading
  /\ Undisturbed =>
       /\ ~beside /\ ~(setup.canary /\ done.by \in {"verifyonboarding", "expired"}) =>
            card.alerts = server.alerts /\ card.email = server.targets
       /\ done.by \in {"wallet", "verify"} /\ ~cached =>
            server.groups["userWallets"] = server.wallets

=============================================================================
