---------------------------- MODULE FrontendEnsure ----------------------------
(***************************************************************************)
(* The ensure operations of NotifiFrontendClient, and the unsubscribe the  *)
(* cards make of its parts. The client keeps nothing: every operation      *)
(* reads what the service has, in several requests at once, and then       *)
(* creates what is missing, updates what differs or - alerts cannot be     *)
(* changed - deletes and creates.                                          *)
(*                                                                         *)
(* Between the reads and the writes other operations, of this page or of   *)
(* another one of the same user, do the same; a request may fail, its      *)
(* reply may be lost, a page may be closed. When one of the requests of a  *)
(* Promise.all fails the operation is rejected, but the other branches go  *)
(* on: such an operation runs until its last branch has ended.             *)
(*                                                                         *)
(* A request is one step, carried out by the service and answered: what an *)
(* operation sends is fixed when it sends it, and it keeps all it has read *)
(* to itself.                                                              *)
(***************************************************************************)
EXTENDS Naturals, FiniteSets

CONSTANTS
  Tasks,       \* activations of the operations, in any page of the user
  Events,      \* the event types of the card, by name
  Kinds,       \* what types they may have
  Addresses,   \* source addresses: broadcast ids, tokens, topics, wallets
  Options,     \* filter options made from the user's inputs
  Channels,    \* email, sms, telegram, webhook, discord
  Values,      \* addresses of targets
  MaxStarts,   \* bound: operations
  MaxFailures, \* bound: failed requests and closed pages
  Calm,        \* bound: so many operations run one at a time and unharmed, for
               \* the others to find something there
  None

ASSUME FrontendEnsureAssumption ==
  /\ MaxStarts \in Nat /\ MaxFailures \in Nat /\ Calm \in Nat
  /\ Kinds \subseteq {"directPush", "tradingPair", "healthCheck", "broadcast", "fusion",
                      "custom", "createSupportConversation", "priceChange", "XMTP",
                      "walletBalance", "label"}
  /\ Channels \cap {"alerts", "tgroups", "chain"} = {}

VARIABLES
  config,   \* the event types of the card: kind and source addresses
  server,   \* what the service has of the user
  tasks,    \* the running operations
  starts,   \* the number of operations
  failures, \* the number of failures
  overlap,  \* history: two operations have overlapped
  claim,    \* history: what the operation that returned last has promised, if
            \* nothing else ran meanwhile and nothing was started since
  ensured,  \* history: the event types ensureAlert has returned an alert for
  dropped,  \* history: the event types that were unsubscribed
  torn      \* history: the event types of which ensureAlert has deleted the
            \* alert, and then failed to create another

vars == <<config, server, tasks, starts, failures, overlap, claim, ensured, dropped, torn>>
history == <<overlap, claim, ensured, dropped, torn>>

-----------------------------------------------------------------------------
(* What the service keeps: every entry has an id; last is the last one given *)
(* out. All target groups here are named 'Default'.                          *)

Target == [id : Nat, channel : Channels, value : Values]
TargetGroup == [id : Nat, targets : SUBSET Nat]
SourceTypes == {"DIRECT_PUSH", "BROADCAST", "FUSION_SOURCE", "CUSTOM", "NOTIFI_CHAT",
                "COIN_PRICE_CHANGES", "XMTP", "WALLET"}
Source == [id : Nat, type : SourceTypes, address : Addresses \cup {None}]
SourceGroup == [id : Nat, name : Events, sources : SUBSET Nat]
Alert == [id : Nat, name : Events, sgroup : Nat, tgroup : Nat, opt : Options \cup {"empty"}]

Service == [targets : SUBSET Target, tgroups : SUBSET TargetGroup, sources : SUBSET Source,
            sgroups : SUBSET SourceGroup, alerts : SUBSET Alert, last : Nat]

\* None stands for the absence of each of these.
ASSUME NoneAssumption ==
  /\ None \notin Events /\ None \notin Nat
  /\ None \notin Target /\ None \notin TargetGroup /\ None \notin SourceGroup /\ None \notin Alert

Ids(set) == {x.id : x \in set}

\* The service after it has stored x as a new entry.
New == server.last + 1
Numbered == [server EXCEPT !.last = New]
Created(field, x) == [Numbered EXCEPT ![field] = @ \cup {x}]

\* The service after it has replaced the entry with x's id.
Updated(field, x) == [server EXCEPT ![field] = {y \in @ : y.id # x.id} \cup {x}]

-----------------------------------------------------------------------------
(* Event types *)

\* The type of the sources each ensure...Source looks for.
SourceType(kind) ==
  CASE kind \in {"directPush", "tradingPair", "healthCheck"} -> "DIRECT_PUSH"
    [] kind = "broadcast" -> "BROADCAST"
    [] kind = "fusion" -> "FUSION_SOURCE"
    [] kind = "custom" -> "CUSTOM"
    [] kind = "createSupportConversation" -> "NOTIFI_CHAT"
    [] kind = "priceChange" -> "COIN_PRICE_CHANGES"
    [] kind = "XMTP" -> "XMTP"
    [] kind = "walletBalance" -> "WALLET"

\* The filter type of the event type's alerts.
FilterType(kind) ==
  CASE kind \in {"directPush", "tradingPair"} -> "DIRECT_TENANT_MESSAGES"
    [] kind = "broadcast" -> "BROADCAST_MESSAGES"
    [] kind = "fusion" -> "FUSION_SOURCE"
    [] kind = "custom" -> "CUSTOM"
    [] kind = "createSupportConversation" -> "NOTIFI_CHAT_MESSAGES"
    [] kind = "priceChange" -> "COIN_PRICE_CHANGE_EVENTS"
    [] kind = "XMTP" -> "WEB3_CHAT_MESSAGES"
    [] kind = "walletBalance" -> "BALANCE"
    [] kind = "healthCheck" -> "VALUE_THRESHOLD"
    [] kind = "label" -> "none"

\* The service's own source: found, never created.
FoundOnly == {"directPush", "tradingPair", "healthCheck"}
\* Any source of the type will do.
AnyAddress == FoundOnly \cup {"createSupportConversation"}
\* One source for each address of a list, which may be empty.
Several == {"priceChange", "XMTP", "walletBalance"}
\* The filter options are made from the user's inputs, which may be invalid.
WithInputs == {"directPush", "tradingPair", "healthCheck", "fusion", "custom"}

Kind(e) == config[e].kind
OfType(e) == {s \in server.sources : s.type = SourceType(Kind(e))}
Fitting(e, a) == {s \in OfType(e) : Kind(e) \in AnyAddress \/ s.address = a}

\* Mutant: invalid inputs are not noticed.
OnlyNoSource(e, opt, sources) == sources = {}

\* There is no source whose filter could be used, or the inputs are invalid.
FilterThrows(e, opt, sources) == sources = {} \/ (Kind(e) \in WithInputs /\ opt = None)

\* What the user's inputs amount to, for the event type.
Inputs(e) == IF Kind(e) \in WithInputs THEN Options \cup {None} ELSE {None}
\* The packed options; "empty" is the text of no options at all.
PackedOptions(e, opt) == IF Kind(e) \in WithInputs THEN opt ELSE "empty"

\* ids without repetitions, as the service gives them out.
AreIdsEqual(ids, items) == ids = items

-----------------------------------------------------------------------------
(* The operations *)

Targets == [Channels -> Values \cup {None}]

\* waits are the branches of the Promise.all that have not ended: "alerts",
\* "tgroups", the channels, and the chain of ensureSourceAndFilters, which is
\* at its step chain. The other fields hold what has been read so far.
Idle == [op |-> "none", pc |-> "idle", e |-> None, opt |-> None,
         want |-> [c \in Channels |-> None], waits |-> {}, chain |-> "none",
         rejected |-> FALSE, alone |-> FALSE, alert |-> None, tgroup |-> None,
         creating |-> {}, targets |-> {}, missing |-> {}, sources |-> {}, sgroup |-> None]

Pcs == {"idle", "gather", "put", "delete", "create"}
ChainSteps == {"none", "sources", "create", "rest", "groups", "put"}
Operation ==
  [op : {"none", "targetGroup", "alert", "unsubscribe"},
   pc : Pcs,
   e : Events \cup {None}, opt : Options \cup {None}, want : Targets,
   waits : SUBSET ({"alerts", "tgroups", "chain"} \cup Channels),
   chain : ChainSteps,
   rejected : BOOLEAN, alone : BOOLEAN, alert : Alert \cup {None}, tgroup : TargetGroup \cup {None},
   creating : SUBSET Channels, targets : SUBSET Nat, missing : SUBSET (Addresses \cup {None}),
   sources : SUBSET Nat, sgroup : Nat \cup {None}]

Running == {t \in Tasks : tasks[t].pc # "idle"}
Becomes(t, r) == tasks' = [tasks EXCEPT ![t] = r]

\* The branch b of r ends, and the chain with it if it is the one.
Ended(r, b) == [r EXCEPT !.waits = @ \ {b}]
Rejected(r, b) == [r EXCEPT !.waits = @ \ {b}, !.rejected = TRUE]

Fails == failures < MaxFailures /\ starts > Calm /\ failures' = failures + 1

\* The service reads for t, which goes on as r; or the request fails.
Reads(t, r, failed) ==
  /\ \/ Becomes(t, r) /\ UNCHANGED failures
     \/ Fails /\ Becomes(t, failed)
  /\ UNCHANGED <<config, server, starts, history>>

\* The service becomes new; or the request fails, or its reply is lost.
Writes(t, new, r, failed) ==
  /\ \/ server' = new /\ Becomes(t, r) /\ UNCHANGED failures
     \/ Fails /\ server' \in {server, new} /\ Becomes(t, failed)
  /\ UNCHANGED <<config, starts>>

\* t starts as r; the operations that run are not alone any more.
Starts(t, r) ==
  /\ tasks[t].pc = "idle" /\ starts < MaxStarts
  /\ starts <= Calm => Running = {}
  /\ starts' = starts + 1
  /\ tasks' = [u \in Tasks |-> IF u = t THEN [r EXCEPT !.alone = (Running = {})]
                               ELSE [tasks[u] EXCEPT !.alone = FALSE]]
  /\ overlap' = (overlap \/ Running # {})
  /\ claim' = None
  /\ UNCHANGED <<config, server, failures, ensured, torn>>

EnsureTargetGroup(t) ==
  /\ \E want \in Targets :
       Starts(t, [Idle EXCEPT !.op = "targetGroup", !.pc = "gather", !.want = want,
                    !.waits = {"tgroups"} \cup {c \in Channels : want[c] # None}])
  /\ UNCHANGED dropped

\* An event type without sources is rejected at once, after the reads are sent.
EnsureAlert(t) ==
  /\ \E e \in Events : \E opt \in Inputs(e) :
       LET r == [Idle EXCEPT !.op = "alert", !.pc = "gather", !.e = e, !.opt = opt,
                   !.waits = {"alerts", "tgroups", "chain"}, !.chain = "sources"]
       IN Starts(t, IF Kind(e) = "label" THEN Rejected(r, "chain") ELSE r)
  /\ UNCHANGED dropped

\* unsubscribeAlertByFrontendClient
Unsubscribe(t) ==
  \E e \in Events :
    /\ Starts(t, [Idle EXCEPT !.op = "unsubscribe", !.pc = "gather", !.e = e,
                    !.waits = {"alerts"}])
    /\ dropped' = dropped \cup {e}

Waits(t, b) == tasks[t].pc = "gather" /\ b \in tasks[t].waits

\* The alerts ensureAlert and unsubscribe look for; unsubscribing a direct push
\* takes any alert that has the filter of direct pushes.
Existing(r) ==
  IF r.op = "unsubscribe" /\ Kind(r.e) = "directPush"
  THEN {a \in server.alerts : FilterType(Kind(a.name)) = FilterType("directPush")}
  ELSE {a \in server.alerts : a.name = r.e}

\* One of them, if any: find returns the first.
Found(set) == IF set = {} THEN {None} ELSE set

ReadAlerts(t) ==
  LET r == tasks[t] IN
  /\ Waits(t, "alerts")
  /\ \E a \in Found(Existing(r)) :
       Reads(t, [Ended(r, "alerts") EXCEPT !.alert = a], Rejected(r, "alerts"))

ReadTargetGroups(t) ==
  LET r == tasks[t] IN
  /\ Waits(t, "tgroups")
  /\ \E g \in Found(server.tgroups) :
       Reads(t, [Ended(r, "tgroups") EXCEPT !.tgroup = g], Rejected(r, "tgroups"))

-----------------------------------------------------------------------------
(* ensureTarget, for each channel *)

FindTarget(t, c) ==
  LET r == tasks[t] IN
  /\ Waits(t, c) /\ c \notin r.creating
  /\ \E x \in Found({y \in server.targets : y.channel = c /\ y.value = r.want[c]}) :
       Reads(t, IF x = None THEN [r EXCEPT !.creating = @ \cup {c}]
                ELSE [Ended(r, c) EXCEPT !.targets = @ \cup {x.id}],
             Rejected(r, c))

CreateTarget(t, c) ==
  LET r == tasks[t] IN
  /\ Waits(t, c) /\ c \in r.creating
  /\ Writes(t, Created("targets", [id |-> New, channel |-> c, value |-> r.want[c]]),
            [Ended(r, c) EXCEPT !.targets = @ \cup {New}], Rejected(r, c))
  /\ UNCHANGED history

-----------------------------------------------------------------------------
(* ensureSourceAndFilters *)

At(t, step) == Waits(t, "chain") /\ tasks[t].chain = step

\* One source for each address that has one; of the prices, all there are.
Picks(e) ==
  IF Kind(e) = "priceChange" THEN {OfType(e)}
  ELSE {picked \in SUBSET UNION {Fitting(e, a) : a \in config[e].addresses} :
          \A a \in config[e].addresses :
            Fitting(e, a) # {} => Cardinality(picked \cap Fitting(e, a)) = 1}

Lacking(e) == {a \in config[e].addresses : Fitting(e, a) = {}}

ReadSources(t) ==
  LET r == tasks[t] IN
  /\ At(t, "sources")
  /\ \/ /\ Kind(r.e) \in FoundOnly /\ Lacking(r.e) # {}
        /\ Reads(t, Rejected(r, "chain"), Rejected(r, "chain"))
     \/ /\ Kind(r.e) \notin FoundOnly \/ Lacking(r.e) = {}
        /\ \E picked \in Picks(r.e) :
             Reads(t, [r EXCEPT !.sources = Ids(picked), !.missing = Lacking(r.e),
                         !.chain = IF Lacking(r.e) = {} THEN "groups" ELSE "create"],
                   Rejected(r, "chain"))

\* Missing sources are created one after the other for prices, and all at once
\* for topics and wallets: there a failure does not stop the others.
CreateSource(t, a) ==
  LET r == tasks[t]
      left == [r EXCEPT !.missing = @ \ {a}]
      rest == IF left.missing = {} THEN Ended(left, "chain") ELSE [left EXCEPT !.chain = "rest"]
      failed == IF Kind(r.e) = "priceChange" THEN Rejected(r, "chain")
                ELSE [rest EXCEPT !.rejected = TRUE]
  IN
  /\ At(t, "create") \/ At(t, "rest")
  /\ a \in r.missing
  /\ Writes(t, Created("sources", [id |-> New, type |-> SourceType(Kind(r.e)), address |-> a]),
            IF r.chain = "rest" THEN rest
            ELSE [left EXCEPT !.sources = @ \cup {New},
                              !.chain = IF left.missing = {} THEN "groups" ELSE "create"],
            failed)
  /\ UNCHANGED history

\* The source group is there: a filter is looked up and its options are made.
WithGroup(r, id) ==
  IF FilterThrows(r.e, r.opt, r.sources) THEN Rejected(r, "chain")
  ELSE [Ended(r, "chain") EXCEPT !.sgroup = id]

\* The group of the event type's name; it is right, or to be created or updated.
ReadSourceGroups(t) ==
  LET r == tasks[t] IN
  /\ At(t, "groups")
  /\ \E g \in Found({x \in server.sgroups : x.name = r.e}) :
       Reads(t, IF g # None /\ AreIdsEqual(r.sources, g.sources) THEN WithGroup(r, g.id)
                ELSE [r EXCEPT !.chain = "put", !.sgroup = IF g = None THEN None ELSE g.id],
             Rejected(r, "chain"))

PutSourceGroup(t) ==
  LET r == tasks[t]
      id == IF r.sgroup = None THEN New ELSE r.sgroup
      group == [id |-> id, name |-> r.e, sources |-> r.sources]
  IN
  /\ At(t, "put")
  /\ Writes(t, IF r.sgroup = None THEN Created("sgroups", group) ELSE Updated("sgroups", group),
            WithGroup(r, id), Rejected(r, "chain"))
  /\ UNCHANGED history

-----------------------------------------------------------------------------
(* After the Promise.all *)

\* t, that has ensured what it was to, returns.
Returns(t) ==
  LET r == tasks[t] IN
  /\ claim' = IF r.alone THEN [op |-> r.op, e |-> r.e, opt |-> r.opt, want |-> r.want] ELSE claim
  /\ ensured' = IF r.op = "alert" THEN ensured \cup {r.e} ELSE ensured
  /\ torn' = IF r.alone THEN torn \ {r.e} ELSE torn
  /\ UNCHANGED <<overlap, dropped>>

End(t) == Becomes(t, Idle)

\* Mutant: the filter options are not compared.
SameSourceAndTarget(r) == r.alert.sgroup = r.sgroup /\ r.alert.tgroup = r.tgroup.id

\* The alert that exists is the one to be ensured.
Matches(r) ==
  /\ r.alert.sgroup = r.sgroup /\ r.alert.tgroup = r.tgroup.id
  /\ r.alert.opt = PackedOptions(r.e, r.opt)

Gathered(t) == tasks[t].pc = "gather" /\ tasks[t].waits = {}

\* A branch was rejected; there is no target group, or no alert to unsubscribe.
Throws(t) ==
  LET r == tasks[t] IN
  /\ Gathered(t)
  /\ \/ r.rejected
     \/ r.op = "alert" /\ r.tgroup = None
     \/ r.op = "unsubscribe" /\ r.alert = None
  /\ End(t)
  /\ UNCHANGED <<config, server, starts, failures, history>>

GroupMatches(r) == r.tgroup # None /\ AreIdsEqual(r.targets, r.tgroup.targets)

TargetGroupGathered(t) ==
  LET r == tasks[t] IN
  /\ Gathered(t) /\ r.op = "targetGroup" /\ ~r.rejected
  /\ \/ GroupMatches(r) /\ End(t) /\ Returns(t)
     \/ ~GroupMatches(r) /\ Becomes(t, [r EXCEPT !.pc = "put"]) /\ UNCHANGED history
  /\ UNCHANGED <<config, server, starts, failures>>

\* Mutant: a group of that name is not updated, but another one created.
CreateGroup(r) == Created("tgroups", [id |-> New, targets |-> r.targets])

\* createTargetGroup, or updateTargetGroup of the group that was read.
PutGroup(r) ==
  IF r.tgroup = None THEN Created("tgroups", [id |-> New, targets |-> r.targets])
  ELSE Updated("tgroups", [id |-> r.tgroup.id, targets |-> r.targets])

PutTargetGroup(t) ==
  /\ tasks[t].pc = "put"
  /\ Writes(t, PutGroup(tasks[t]), Idle, Idle)
  /\ IF failures' = failures THEN Returns(t) ELSE UNCHANGED history

\* Alerts are immutable: one that does not match is deleted, then created.
NextForAlert(r) ==
  IF r.alert = None THEN "create" ELSE IF Matches(r) THEN "return" ELSE "delete"

AlertGathered(t) ==
  LET r == tasks[t] IN
  /\ Gathered(t) /\ r.op = "alert" /\ ~r.rejected /\ r.tgroup # None
  /\ \/ NextForAlert(r) = "return" /\ End(t) /\ Returns(t)
     \/ /\ NextForAlert(r) # "return"
        /\ Becomes(t, [r EXCEPT !.pc = NextForAlert(r)]) /\ UNCHANGED history
  /\ UNCHANGED <<config, server, starts, failures>>

UnsubscribeGathered(t) ==
  LET r == tasks[t] IN
  /\ Gathered(t) /\ r.op = "unsubscribe" /\ ~r.rejected /\ r.alert # None
  /\ Becomes(t, [r EXCEPT !.pc = "delete"])
  /\ UNCHANGED <<config, server, starts, failures, history>>

\* Mutant: no alert is created in place of the one deleted.
DeleteEnds(r) == Idle

AfterDelete(r) == IF r.op = "unsubscribe" THEN Idle ELSE [r EXCEPT !.pc = "create"]

\* The service knows no alert of that id when another operation deleted it.
DeleteAlert(t) ==
  LET r == tasks[t]
      id == r.alert.id
      without == [server EXCEPT !.alerts = {a \in @ : a.id # id}]
  IN
  /\ tasks[t].pc = "delete"
  /\ \/ /\ id \in Ids(server.alerts)
        /\ Writes(t, without, AfterDelete(r), Idle)
        /\ IF failures' = failures
           THEN IF r.op = "unsubscribe" THEN Returns(t) ELSE UNCHANGED history
           ELSE torn' = torn \cup {r.e} /\ UNCHANGED <<overlap, claim, ensured, dropped>>
     \/ /\ id \notin Ids(server.alerts)
        /\ End(t)
        /\ UNCHANGED <<config, server, starts, failures, history>>

CreateAlert(t) ==
  LET r == tasks[t] IN
  /\ r.pc = "create"
  /\ Writes(t, Created("alerts", [id |-> New, name |-> r.e, sgroup |-> r.sgroup,
                                  tgroup |-> r.tgroup.id, opt |-> PackedOptions(r.e, r.opt)]),
            Idle, Idle)
  /\ IF failures' = failures THEN Returns(t)
     ELSE /\ torn' = IF r.alert = None THEN torn ELSE torn \cup {r.e}
          /\ UNCHANGED <<overlap, claim, ensured, dropped>>

\* The page is closed.
Close(t) ==
  /\ tasks[t].pc # "idle"
  /\ Fails
  /\ End(t)
  /\ torn' = IF tasks[t].pc = "create" /\ tasks[t].alert # None THEN torn \cup {tasks[t].e} ELSE torn
  /\ UNCHANGED <<config, server, starts, overlap, claim, ensured, dropped>>

-----------------------------------------------------------------------------

Configs ==
  [kind : Kinds \cap (AnyAddress \cup {"label"}), addresses : {{None}}]
    \cup [kind : Kinds \cap {"broadcast", "fusion", "custom"}, addresses : {{a} : a \in Addresses}]
    \cup [kind : Kinds \cap Several, addresses : SUBSET Addresses]

\* A user who is new to the service, which may offer its own source.
Own == [id |-> 0, type |-> "DIRECT_PUSH", address |-> None]

Init ==
  /\ config \in [Events -> Configs]
  /\ \E own \in {{Own}} \cup (IF \E e \in Events : Kind(e) \in FoundOnly THEN {{}} ELSE {}) :
       server = [targets |-> {}, tgroups |-> {}, sources |-> own, sgroups |-> {}, alerts |-> {},
                 last |-> 0]
  /\ tasks = [t \in Tasks |-> Idle]
  /\ starts = 0 /\ failures = 0
  /\ overlap = FALSE /\ claim = None /\ ensured = {} /\ dropped = {} /\ torn = {}

Start(t) == EnsureTargetGroup(t) \/ EnsureAlert(t) \/ Unsubscribe(t)

Branch(t) ==
  \/ ReadAlerts(t) \/ ReadTargetGroups(t)
  \/ \E c \in Channels : FindTarget(t, c) \/ CreateTarget(t, c)
  \/ ReadSources(t) \/ \E a \in Addresses \cup {None} : CreateSource(t, a)
  \/ ReadSourceGroups(t) \/ PutSourceGroup(t)

Conclude(t) ==
  \/ Throws(t) \/ TargetGroupGathered(t) \/ AlertGathered(t) \/ UnsubscribeGathered(t)
  \/ PutTargetGroup(t) \/ DeleteAlert(t) \/ CreateAlert(t)

Next == \E t \in Tasks : Start(t) \/ Branch(t) \/ Conclude(t) \/ Close(t)

Spec == Init /\ [][Next]_vars

-----------------------------------------------------------------------------

\* Every variable keeps to its type (the fragments of the GraphQL service, and
\* the locals of the operations); what an operation has gathered is there.
TypeOK ==
  /\ config \in [Events -> Configs] /\ server \in Service /\ tasks \in [Tasks -> Operation]
  /\ starts \in 0 .. MaxStarts /\ failures \in 0 .. MaxFailures
  /\ overlap \in BOOLEAN /\ ensured \subseteq Events /\ dropped \subseteq Events
  /\ torn \subseteq Events
  /\ \A t \in Tasks :
       LET r == tasks[t] IN
       /\ r.sources \subseteq Ids(server.sources) /\ r.targets \subseteq Ids(server.targets)
       /\ r.sgroup # None => r.sgroup \in Ids(server.sgroups)

Valued(ids) == {[channel |-> x.channel, value |-> x.value] : x \in {y \in server.targets : y.id \in ids}}

\* The alert of e sends to the default target group what its sources say.
InPlace(e, opt) ==
  \E a \in server.alerts :
    /\ a.name = e /\ a.opt = PackedOptions(e, opt)
    /\ a.tgroup \in Ids(server.tgroups)
    /\ \E g \in server.sgroups :
         /\ g.id = a.sgroup
         /\ \A d \in config[e].addresses : Ids(Fitting(e, d)) \cap g.sources # {}
         /\ g.sources \subseteq UNION {Ids(Fitting(e, d)) : d \in config[e].addresses}
            \/ Kind(e) = "priceChange"

\* Whatever went wrong before - operations that overlapped, requests that failed
\* half way, pages that were closed - an ensure operation that nothing overlaps
\* repairs it: when it returns, its target group has the targets asked for and
\* no others; its alert is there with the options asked for and the sources of
\* its event type (and no others, but for prices, whose group gets every price
\* source of the user); an unsubscribe has removed the alert, if it has no twin.
EnsureKeepsPromise ==
  claim # None =>
    CASE claim.op = "targetGroup" ->
           \E g \in server.tgroups :
             Valued(g.targets) = {[channel |-> c, value |-> claim.want[c]] :
                                    c \in {d \in Channels : claim.want[d] # None}}
      [] claim.op = "alert" -> InPlace(claim.e, claim.opt)
      [] claim.op = "unsubscribe" ->
           Kind(claim.e) = "directPush" \/ overlap \/ \A a \in server.alerts : a.name # claim.e

\* As long as operations never overlap nothing is created twice, even when replies
\* are lost and the operations tried again: each looks before it creates.
NoTwinsAlone ==
  ~overlap =>
    /\ Cardinality(server.tgroups) <= 1
    /\ \A a, b \in server.alerts : a.name = b.name => a = b
    /\ \A g, h \in server.sgroups : g.name = h.name => g = h
    /\ \A s, u \in server.sources : s.type = u.type /\ s.address = u.address => s = u
    /\ \A x, y \in server.targets : x.channel = y.channel /\ x.value = y.value => x = y

\* Unsubscribing d may delete the alert of e.
MayDrop(d, e) ==
  d = e \/ (Kind(d) = "directPush" /\ Kind(e) \in {"directPush", "tradingPair"})

\* Deleting and creating alerts anew, even by several operations at once, loses
\* none: it is there unless it was unsubscribed, or the operation that deleted it
\* failed before it had created the next.
AlertNotLost ==
  Running = {} =>
    \A e \in ensured \ torn :
      (\E d \in dropped : MayDrop(d, e)) \/ \E a \in server.alerts : a.name = e

\* "We only need alertName to unsubscribe" (EventTypeTradingPairsRow): the alert
\* that is deleted is the one of that name. Not kept by the code for direct push
\* events, whose alert is found by its filter (see the README).
UnsubscribedByName ==
  [][\A t \in Tasks :
       tasks[t].op = "unsubscribe" /\ tasks[t].pc = "delete" /\ tasks'[t].pc = "idle"
         => \A a \in server.alerts \ server'.alerts : a.name = tasks[t].e]_vars

=============================================================================
