----------------------------- MODULE TenantClient -----------------------------
(***************************************************************************)
(* The SDK for servers: NotifiClient of notifi-node over one NotifiService, *)
(* and the Express server of notifi-node-sample that makes a service of    *)
(* its own for every HTTP request.                                         *)
(*                                                                         *)
(* Every method of NotifiClient is given a token, which it leaves in the   *)
(* service (setJwt); the service reads it back whenever a request goes     *)
(* out. A service may be shared by calls for several tenants.              *)
(* createTenantBalanceChangeAlert is a chain of requests: it looks objects *)
(* up, creates what is missing, and replaces a webhook whose headers       *)
(* differ by deleting it and creating another.                             *)
(*                                                                         *)
(* The webhooks here have one URL and one format; a token stands for its   *)
(* tenant.                                                                 *)
(***************************************************************************)
EXTENDS Naturals, FiniteSets

CONSTANTS
  Calls,        \* activations of methods or HTTP handlers
  Tokens,       \* one per tenant
  Names,        \* names of balance change alerts
  Headers,      \* webhook headers, as a whole
  Environment,  \* what of a log-in the environment of the sample server has
  MaxStarts,    \* bound: calls made
  MaxFailures,  \* bound: requests refused or replies lost
  None

ASSUME TenantAssumption ==
  /\ MaxStarts \in Nat /\ MaxFailures \in Nat
  /\ None \notin Tokens \cup Names \cup Headers \cup Nat \cup (Tokens \X Nat)
  /\ None \notin {"ok", "single", "createTenantBalanceChangeAlert"}
  /\ "shared" \notin Calls
  /\ Environment \subseteq {"sid", "secret"}

VARIABLES
  jwt,       \* the _jwt of every NotifiService
  calls,     \* the activations
  accounts,  \* the tenants' data on the service
  starts,    \* how many calls were made
  failures   \* how many requests failed

vars == <<jwt, calls, accounts, starts, failures>>

\* The service that an application shares, and those of the middleware.
Shared == "shared"
Services == Calls \cup {Shared}

\* Of the methods with one request, only whether they set a token is kept.
\* alone and mixed are history of a chain of requests: no other call ran
\* meanwhile; another token was set on the same service meanwhile.
IdleCall == [pc |-> "idle", op |-> None, token |-> None, svc |-> Shared,
             sent |-> None, name |-> None, headers |-> None, hook |-> None,
             group |-> None, sources |-> None, answer |-> None,
             alone |-> TRUE, mixed |-> FALSE]

\* foreign: alerts of the tenant that bear one of the names but another filter.
EmptyAccount(t, foreign) ==
  [owner |-> t, hooks |-> {}, groups |-> {}, sources |-> {}, next |-> 0,
   alerts |-> {[name |-> n, balance |-> FALSE, group |-> None, id |-> None] :
                 n \in foreign}]

Init ==
  /\ jwt = [s \in Services |-> None]
  /\ calls = [c \in Calls |-> IdleCall]
  /\ \E foreign \in SUBSET Names :
       accounts = [t \in Tokens |-> EmptyAccount(t, foreign)]
  /\ starts = 0
  /\ failures = 0

Running(c) == calls[c].pc # "idle"

-----------------------------------------------------------------------------
(* NotifiService *)

\* _requestHeaders: the token the service holds when the request is made.
RequestHeaders(service, s) == service[s]

\* Mutant of SetJwt: a token that is there already is kept.
SetJwtOnce(service, s, token) ==
  [service EXCEPT ![s] = IF @ = None THEN token ELSE @]

SetJwt(service, s, token) == [service EXCEPT ![s] = token]

-----------------------------------------------------------------------------
(* NotifiClient: one request *)

SendOps == {"sendSimpleHealthThreshold", "sendBroadcastMessage", "sendDirectPush"}

UserOps == {"deleteUserAlert", "createTenantUser", "createDirectPushAlert",
            "deleteDirectPushAlert", "getTenantConnectedWallet", "getTenantUser"}

SourceGroupOps == {"addSourceToSourceGroup", "removeSourceFromSourceGroup"}

\* Methods that are called without a token, which a request goes out with
\* whatever token the service has. logIn leaves one when it is answered.
TokenlessOps == {"logIn", "getSourceConnection"}

Balance == "createTenantBalanceChangeAlert"

SingleOps == SendOps \cup UserOps \cup SourceGroupOps \cup TokenlessOps

\* The service s is left with the token of another than the chain k.
Overtaken(k, s, service) == k.op = Balance /\ k.svc = s /\ service[s] # k.token

\* What the other activations remember of a call that begins, or of one that
\* sets a token later.
Disturb(s, service) ==
  [d \in Calls |->
     [calls[d] EXCEPT
        !.alone = @ /\ calls[d].op # Balance,
        !.mixed = @ \/ Overtaken(calls[d], s, service)]]

\* The first synchronous part of a method: setJwt and the first request.
Invoke(c, op, call, service) ==
  LET s == call.svc
      set == IF op \in TokenlessOps THEN service
             ELSE SetJwt(service, s, call.token)
      begun == [call EXCEPT
        !.pc = IF op = Balance THEN "getWebhookTargets" ELSE "request",
        !.op = IF op \in SingleOps \ TokenlessOps THEN "single" ELSE op,
        !.sent = RequestHeaders(set, s),
        !.alone = \A d \in Calls \ {c} : ~Running(d)]
  IN
  /\ jwt' = set
  /\ calls' = [Disturb(s, set) EXCEPT ![c] = begun]

CanStart(c) == ~Running(c) /\ starts < MaxStarts

\* An application calls a method of the client it shares.
Call(c, op, token) ==
  /\ CanStart(c)
  /\ Invoke(c, op, [IdleCall EXCEPT !.token = token], jwt)
  /\ starts' = starts + 1
  /\ UNCHANGED <<accounts, failures>>

CallBalance(c, token, name, headers) ==
  /\ CanStart(c)
  /\ Invoke(c, Balance, [IdleCall EXCEPT !.token = token, !.name = name,
                                         !.headers = headers], jwt)
  /\ starts' = starts + 1
  /\ UNCHANGED <<accounts, failures>>

\* The call ends before it touches the service.
EndAtOnce(c, answer) ==
  /\ CanStart(c)
  /\ calls' = [calls EXCEPT ![c] = [IdleCall EXCEPT !.answer = answer]]
  /\ starts' = starts + 1
  /\ UNCHANGED <<jwt, accounts, failures>>

\* sendDirectPush with neither a message nor a template.
CallWithoutContent(c) == EndAtOnce(c, "thrown")

-----------------------------------------------------------------------------
(* The HTTP server of notifi-node-sample *)

\* What a handler makes of the fields of the body; a wallet blockchain that
\* is not supported is refused as one that is absent.
Verdict(required, fields) ==
  IF required \subseteq fields THEN "accepted" ELSE "required"

\* What a body lacks is taken from the environment; empty strings are refused.
LoginVerdict(fields) ==
  IF "empty" \in fields THEN "required"
  ELSE Verdict({"sid", "secret"}, fields \cup Environment)

SimpleHealthVerdict(fields) ==
  Verdict({"walletPublicKey", "walletBlockchain", "healthValue"}, fields)

DeleteUserAlertVerdict(fields) == Verdict({"alertId"}, fields)

CreateTenantUserVerdict(fields) ==
  Verdict({"walletPublicKey", "walletBlockchain"}, fields)

BroadcastVerdict(fields) == Verdict({"topicName", "message", "subject"}, fields)

CreateDirectPushVerdict(fields) == Verdict({"userId", "email"}, fields)

SendDirectPushVerdict(fields) ==
  Verdict({"walletPublicKey", "walletBlockchain", "message"}, fields)

\* As written: a sourceId is refused with a wallet address, or without a
\* source type.
AddSourceVerdict(fields) ==
  IF "sourceGroupId" \notin fields THEN "required"
  ELSE IF "sourceId" \notin fields
       THEN Verdict({"walletAddress", "sourceType"}, fields)
       ELSE IF "walletAddress" \in fields \/ "sourceType" \notin fields
            THEN "cannot provide both"
            ELSE "accepted"

\* The handler of removeSourceFromSourceGroup repeats the checks of the other.
RemoveSourceVerdict(fields) == AddSourceVerdict(fields)

VerdictOf(op, fields) ==
  CASE op = "logIn" -> LoginVerdict(fields)
    [] op = "sendSimpleHealthThreshold" -> SimpleHealthVerdict(fields)
    [] op = "deleteUserAlert" -> DeleteUserAlertVerdict(fields)
    [] op = "createTenantUser" -> CreateTenantUserVerdict(fields)
    [] op = "sendBroadcastMessage" -> BroadcastVerdict(fields)
    [] op = "createDirectPushAlert" -> CreateDirectPushVerdict(fields)
    [] op = "sendDirectPush" -> SendDirectPushVerdict(fields)
    [] op = "addSourceToSourceGroup" -> AddSourceVerdict(fields)
    [] op = "removeSourceFromSourceGroup" -> RemoveSourceVerdict(fields)

SourceFields == {"sourceGroupId", "sourceId", "walletAddress", "sourceType"}

\* The bodies that matter to a route: everything it asks for, or nothing.
Bodies(op) ==
  IF op \in SourceGroupOps THEN SUBSET SourceFields
  ELSE {{}, {"empty"}, {"sid", "secret", "walletPublicKey", "walletBlockchain", "healthValue",
             "alertId", "topicName", "message", "subject", "userId", "email"}}

Routes == {"logIn", "sendSimpleHealthThreshold", "deleteUserAlert", "createTenantUser",
           "sendBroadcastMessage", "createDirectPushAlert", "sendDirectPush"}
          \cup SourceGroupOps

\* authorizeMiddleware: no authorization, or no bearer token in it.
Unauthorized(c) == EndAtOnce(c, "unauthorized")

AnswersTo(op) == {VerdictOf(op, fields) : fields \in Bodies(op)}

Refusals == UNION {AnswersTo(op) : op \in Routes} \ {"accepted"}

AcceptingRoutes == {op \in Routes : "accepted" \in AnswersTo(op)}

\* The handler refuses the body before it touches the service.
RefuseBody(c, verdict) == EndAtOnce(c, verdict)

\* A POST with a body that is accepted: notifiServiceMiddleware makes a service,
\* then the route's handler.
Handler(c, op, token) ==
  /\ CanStart(c)
  /\ Invoke(c, op, [IdleCall EXCEPT !.svc = c, !.token = token],
            [jwt EXCEPT ![c] = None])
  /\ starts' = starts + 1
  /\ UNCHANGED <<accounts, failures>>

-----------------------------------------------------------------------------
(* createTenantBalanceChangeAlert: what a served request does to the account *)
(* a of the tenant, and how the call k goes on                               *)

Oldest(S) == CHOOSE x \in S : \A y \in S : x.id[2] <= y.id[2]

\* The id of what the account gets next: no other tenant has it.
NextId(a) == <<a.owner, a.next>>

\* The next request of the chain reads the token anew.
To(k, pc) == [k EXCEPT !.pc = pc, !.sent = RequestHeaders(jwt, k.svc)]

\* A chain that is done keeps what it was asked, for the properties.
Settled(k, answer) ==
  IF k.op = Balance
  THEN [IdleCall EXCEPT !.op = Balance, !.token = k.token, !.name = k.name,
                        !.headers = k.headers, !.alone = k.alone, !.answer = answer]
  ELSE [IdleCall EXCEPT !.answer = answer]

Finish(k) == Settled(k, "ok")

Throw(k) == Settled(k, "thrown")

Outcome(a, k) == [account |-> a, call |-> k]

\* createOrUpdateWebhook: nothing there, the right one, or one to replace.
GetWebhookTargets(a, k) ==
  Outcome(a,
    IF a.hooks = {} THEN To(k, "createWebhookTarget")
    ELSE LET w == Oldest(a.hooks) IN
         To([k EXCEPT !.hook = w.id],
            IF w.headers = k.headers THEN "getAlerts" ELSE "deleteWebhookTarget"))

\* The service refuses ids it does not know.
Known(S, id) == \E x \in S : x.id = id

\* The service takes a deleted target out of the groups that have it.
DeleteWebhookTarget(a, k) ==
  IF Known(a.hooks, k.hook)
  THEN Outcome([a EXCEPT
                  !.hooks = {w \in @ : w.id # k.hook},
                  !.groups = {IF g.hook = k.hook THEN [g EXCEPT !.hook = None] ELSE g :
                                g \in @}],
               To(k, "createWebhookTarget"))
  ELSE Outcome(a, Throw(k))

CreateWebhookTarget(a, k) ==
  Outcome([a EXCEPT !.hooks = @ \cup {[id |-> NextId(a), headers |-> k.headers]},
                    !.next = @ + 1],
          To([k EXCEPT !.hook = NextId(a)], "getAlerts"))

Named(S, n) == {x \in S : x.name = n}

\* The alert exists: of another filter, or with a target group to update.
GetAlerts(a, k) ==
  LET found == {x \in Named(a.alerts, k.name) : x.balance} IN
  Outcome(a,
    IF \E x \in Named(a.alerts, k.name) : ~x.balance THEN Throw(k)
    ELSE IF found = {} THEN To(k, "getFilters")
    ELSE To([k EXCEPT !.group = Oldest(found).group], "updateAlertTargets"))

GetFilters(a, k) == Outcome(a, To(k, "getSourceGroups"))

\* getOrCreateSourceGroup
GetSourceGroups(a, k) ==
  LET found == Named(a.sources, k.name) IN
  Outcome(a,
    IF found = {} THEN To(k, "createSourceGroup")
    ELSE To([k EXCEPT !.sources = Oldest(found).id], "getTargetGroups"))

\* Mutant of CreateSourceGroup: the name is taken for the id.
NameForId(a, k) ==
  Outcome([a EXCEPT !.sources = @ \cup {[id |-> NextId(a), name |-> k.name]},
                    !.next = @ + 1],
          To([k EXCEPT !.sources = k.name], "getTargetGroups"))

CreateSourceGroup(a, k) ==
  Outcome([a EXCEPT !.sources = @ \cup {[id |-> NextId(a), name |-> k.name]},
                    !.next = @ + 1],
          To([k EXCEPT !.sources = NextId(a)], "getTargetGroups"))

\* Mutant of GetTargetGroups: a group that exists is taken as it is.
ExistingGroupDoes(a, k) ==
  LET found == Named(a.groups, k.name) IN
  Outcome(a,
    IF found = {} THEN To(k, "createTargetGroup")
    ELSE To([k EXCEPT !.group = Oldest(found).id], "createAlert"))

\* getOrCreateTargetGroup: update the group that exists, or create one.
GetTargetGroups(a, k) ==
  LET found == Named(a.groups, k.name) IN
  Outcome(a,
    IF found = {} THEN To(k, "createTargetGroup")
    ELSE To([k EXCEPT !.group = Oldest(found).id], "updateTargetGroup"))

\* updateTargetGroup replaces all targets of the group by the webhook.
UpdateTargetGroup(a, k) ==
  IF Known(a.hooks, k.hook) /\ Known(a.groups, k.group)
  THEN Outcome([a EXCEPT !.groups =
                  {IF g.id = k.group THEN [g EXCEPT !.hook = k.hook] ELSE g : g \in @}],
               IF k.pc = "updateAlertTargets" THEN Finish(k) ELSE To(k, "createAlert"))
  ELSE Outcome(a, Throw(k))

CreateTargetGroup(a, k) ==
  IF Known(a.hooks, k.hook)
  THEN Outcome([a EXCEPT
                  !.groups = @ \cup {[id |-> NextId(a), name |-> k.name, hook |-> k.hook]},
                  !.next = @ + 1],
               To([k EXCEPT !.group = NextId(a)], "createAlert"))
  ELSE Outcome(a, Throw(k))

CreateAlert(a, k) ==
  IF Known(a.groups, k.group) /\ Known(a.sources, k.sources)
  THEN Outcome([a EXCEPT
                  !.alerts = @ \cup {[id |-> NextId(a), name |-> k.name, balance |-> TRUE,
                                      group |-> k.group]},
                  !.next = @ + 1],
               Finish(k))
  ELSE Outcome(a, Throw(k))

Served(a, k) ==
  CASE k.pc = "request" -> Outcome(a, Finish(k))
    [] k.pc = "getWebhookTargets" -> GetWebhookTargets(a, k)
    [] k.pc = "deleteWebhookTarget" -> DeleteWebhookTarget(a, k)
    [] k.pc = "createWebhookTarget" -> CreateWebhookTarget(a, k)
    [] k.pc = "getAlerts" -> GetAlerts(a, k)
    [] k.pc = "getFilters" -> GetFilters(a, k)
    [] k.pc = "getSourceGroups" -> GetSourceGroups(a, k)
    [] k.pc = "createSourceGroup" -> CreateSourceGroup(a, k)
    [] k.pc = "getTargetGroups" -> GetTargetGroups(a, k)
    [] k.pc \in {"updateTargetGroup", "updateAlertTargets"} -> UpdateTargetGroup(a, k)
    [] k.pc = "createTargetGroup" -> CreateTargetGroup(a, k)
    [] k.pc = "createAlert" -> CreateAlert(a, k)

-----------------------------------------------------------------------------
(* The network and the service *)

\* logInFromService: the token of the answer is left in the service, under
\* whatever token the request went out.
AnswerLogIn(c) ==
  LET s == calls[c].svc
      set == SetJwt(jwt, s, calls[c].token)
  IN
  /\ Running(c) /\ calls[c].op = "logIn"
  /\ jwt' = set
  /\ calls' = [Disturb(s, set) EXCEPT ![c] = Finish(calls[c])]
  /\ UNCHANGED <<accounts, starts, failures>>

\* The service acts for the tenant whose token the request carries.
Serve(c) ==
  LET t == calls[c].sent
      out == Served(accounts[t], calls[c])
  IN
  /\ Running(c) /\ calls[c].op # "logIn"
  /\ t # None
  /\ accounts' = [accounts EXCEPT ![t] = out.account]
  /\ calls' = [calls EXCEPT ![c] = out.call]
  /\ UNCHANGED <<jwt, starts, failures>>

\* The service refuses a request without a token.
ServeAnonymous(c) ==
  /\ Running(c) /\ calls[c].op # "logIn"
  /\ calls[c].sent = None
  /\ calls' = [calls EXCEPT ![c] = Throw(@)]
  /\ UNCHANGED <<jwt, accounts, starts, failures>>

\* The request fails, or it is served and its reply is lost.
Fail(c) ==
  LET t == calls[c].sent IN
  /\ Running(c)
  /\ failures < MaxFailures
  /\ failures' = failures + 1
  /\ \/ UNCHANGED accounts
     \/ /\ t # None
        /\ accounts' = [accounts EXCEPT ![t] = Served(@, calls[c]).account]
  /\ calls' = [calls EXCEPT ![c] = Throw(@)]
  /\ UNCHANGED <<jwt, starts>>

Start(c) ==
  \/ \E op \in SingleOps, t \in Tokens : Call(c, op, t)
  \/ \E t \in Tokens, n \in Names, h \in Headers : CallBalance(c, t, n, h)
  \/ CallWithoutContent(c)
  \/ Unauthorized(c)
  \/ \E verdict \in Refusals : RefuseBody(c, verdict)
  \/ \E op \in AcceptingRoutes, t \in Tokens : Handler(c, op, t)

Next ==
  \E c \in Calls :
    Start(c) \/ AnswerLogIn(c) \/ Serve(c) \/ ServeAnonymous(c) \/ Fail(c)

Spec == Init /\ [][Next]_vars

-----------------------------------------------------------------------------
(* Properties *)

Ids == Tokens \X Nat

Chain == {"getWebhookTargets", "deleteWebhookTarget", "createWebhookTarget", "getAlerts",
          "getFilters", "getSourceGroups", "createSourceGroup", "getTargetGroups",
          "updateTargetGroup", "updateAlertTargets", "createTargetGroup", "createAlert"}

CallRecord ==
  [pc : {"idle", "request"} \cup Chain, op : TokenlessOps \cup {"single", Balance, None},
   token : Tokens \cup {None}, sent : Tokens \cup {None}, svc : Services,
   name : Names \cup {None}, headers : Headers \cup {None},
   hook : Ids \cup {None}, group : Ids \cup {None}, sources : Ids \cup {None},
   answer : {"ok", "thrown", "unauthorized", None} \cup Refusals,
   alone : BOOLEAN, mixed : BOOLEAN]

Account ==
  [owner : Tokens, next : Nat,
   hooks : SUBSET [id : Ids, headers : Headers],
   groups : SUBSET [id : Ids, name : Names, hook : Ids \cup {None}],
   sources : SUBSET [id : Ids, name : Names],
   alerts : SUBSET [id : Ids \cup {None}, name : Names, balance : BOOLEAN,
                    group : Ids \cup {None}]]

\* The state has its type: tokens, services, calls and the objects of a tenant.
TypeOK ==
  /\ jwt \in [Services -> Tokens \cup {None}]
  /\ calls \in [Calls -> CallRecord]
  /\ accounts \in [Tokens -> Account] /\ \A t \in Tokens : accounts[t].owner = t
  /\ starts \in 0 .. MaxStarts /\ failures \in 0 .. MaxFailures

\* A request on the wire carries the token that its method or HTTP request was
\* given, also when a log-in is answered meanwhile. The exception is a chain of
\* requests on the service that an application shares, after another call or
\* the answer of a log-in has left another token there: its later requests act
\* for the other tenant.
RequestCarriesToken ==
  \A c \in Calls :
    (Running(c) /\ calls[c].op \notin TokenlessOps) =>
      \/ calls[c].sent = calls[c].token
      \/ calls[c].op = Balance /\ calls[c].svc = Shared /\ calls[c].mixed

\* When createTenantBalanceChangeAlert succeeds and nothing else ran meanwhile,
\* the tenant has one alert of that name to notify, and the target group of
\* that alert has a webhook with the headers asked for, whatever was left behind
\* by calls that failed or overlapped before.
BalanceAlertDelivers ==
  \A c \in Calls :
    LET k == calls[c] IN
    (k.op = Balance /\ k.answer = "ok" /\ k.alone) =>
      LET a == accounts[k.token] IN
      \E x \in Named(a.alerts, k.name), g \in a.groups, w \in a.hooks :
        /\ x = Oldest(Named(a.alerts, k.name))
        /\ g.id = x.group /\ g.hook = w.id /\ w.headers = k.headers

=============================================================================
