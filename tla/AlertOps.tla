------------------------------ MODULE AlertOps ------------------------------
(***************************************************************************)
(* The write path of the React hook SDK: createAlert, updateAlert,         *)
(* deleteAlert, ensureTargetGroup, ensureSourceGroup, createSource (and    *)
(* its Bonfida and Metaplex forms), createDiscordTarget and connectWallet  *)
(* of useNotifiClient with the ensure helpers they call.                   *)
(*                                                                         *)
(* Every call takes the cached data object, then awaits one request after  *)
(* another and patches the arrays of that object with the replies. Calls   *)
(* that overlap share the arrays; a delete replaces an array by a filtered *)
(* copy, so that a call holding the old array patches one nobody reads; a  *)
(* refetch replaces the object itself.                                     *)
(*                                                                         *)
(* Arrays are sets here (with equal names a call may find any of them). An *)
(* array is told from its filtered copy by its generation. The server      *)
(* stamps what it creates or updates with a fresh number, so that two      *)
(* JavaScript objects are the same object exactly when they are equal.     *)
(***************************************************************************)
EXTENDS Naturals, FiniteSets

CONSTANTS
  Ops,       \* the activations of the operations
  Names,     \* alert names, also the default group names, and source names
  Values,    \* target addresses
  MaxStarts, \* bound: operations started
  MaxObj,    \* bound: refetches
  MaxLost,   \* bound: lost replies (0 or 1)
  None, Failed

ASSUME AlertOpsAssumption ==
  /\ MaxStarts \in Nat /\ MaxObj \in Nat /\ MaxLost \in {0, 1}
  /\ Names # {} /\ Values # {}

VARIABLES
  server,  \* what the user has there: targets, sources, groups, alerts, wallets
  stamp,   \* server: the last number given out
  objs,    \* the data objects fetchDataImpl returned, with their arrays
  current, \* the one in the cache
  ops,     \* the running operations
  started, \* the number of operations started
  shown,   \* the projection of internalData on the page: the data object it
           \* was made from, whether internalData is that very object, the
           \* generation of the alerts it shows, and the wallets it shows
  mishaps  \* history: what went on since the last fetch made while nothing
           \* ran: "overlap" of operations, a "refetch" during an operation,
           \* a "lost" reply, a "torn" delete that failed half way, a page
           \* "rewound" by connectWallet; "twins" says that the fetch found
           \* two target groups or two alerts of one name

vars == <<server, stamp, objs, current, ops, started, shown, mishaps>>

Objs == 0 .. MaxObj

\* alert is the alert (or its id) the operation works on; target and source
\* are the ids it has ensured so far; gen is the generation of the array that
\* the helper it is in has captured; page is the internalData that the
\* callback of connectWallet has captured.
Idle == [pc |-> "idle", kind |-> None, name |-> None, group |-> None,
         obj |-> 0, gen |-> 0, alert |-> None, target |-> None,
         source |-> None, keepTarget |-> FALSE, keepSource |-> FALSE,
         page |-> None, req |-> None, res |-> None]

\* An alert as the client holds it: with a copy of its target group.
Held(s, a) == [a EXCEPT !.tgroup = CHOOSE g \in s.tgroups : g.id = a.tgroup]

\* What a fetch returns: fresh arrays holding what the server has.
Fetched(s) == [targets |-> s.targets, discords |-> s.discords, sources |-> s.sources,
               wallets |-> s.wallets, sgroups |-> s.sgroups, tgroups |-> s.tgroups,
               alerts |-> {Held(s, a) : a \in s.alerts},
               sgen |-> 0, tgen |-> 0, agen |-> 0]

NoData == [targets |-> {}, discords |-> {}, sources |-> {}, wallets |-> {},
           sgroups |-> {}, tgroups |-> {}, alerts |-> {},
           sgen |-> 0, tgen |-> 0, agen |-> 0]

Target == [id : Nat, value : Values]
Plain == [id : Nat]        \* a Discord target, a connected wallet
Source == [id : Nat, name : Names]
SourceGroup == [id : Nat, name : Names, source : Nat]
TargetGroup == [id : Nat, name : Names, target : Nat, ver : Nat]
ServerAlert == [id : Nat, name : Names, sgroup : Nat, tgroup : Nat]
Alert == [id : Nat, name : Names, sgroup : Nat, tgroup : TargetGroup]

\* Nothing that the service answers, no id and no operation is taken for None
\* or Failed.
ASSUME NoneAssumption ==
  /\ None # Failed /\ None \notin Nat
  /\ None \notin {"create", "update", "delete", "ensureTargetGroup", "ensureSourceGroup",
                  "createSource", "createDiscordTarget", "connectWallet"}
  /\ \A x \in {None, Failed} :
       /\ x \notin Target /\ x \notin Plain /\ x \notin Source
       /\ x \notin SourceGroup /\ x \notin TargetGroup /\ x \notin ServerAlert

\* The user has one alert, with its source, made by an earlier session.
Init ==
  \E n \in Names, v \in Values :
    /\ server = [targets |-> {[id |-> 1, value |-> v]},
                 discords |-> {}, wallets |-> {},
                 sources |-> {[id |-> 5, name |-> n]},
                 sgroups |-> {[id |-> 2, name |-> n, source |-> 5]},
                 tgroups |-> {[id |-> 3, name |-> n, target |-> 1, ver |-> 3]},
                 alerts |-> {[id |-> 4, name |-> n, sgroup |-> 2, tgroup |-> 3]}]
    /\ stamp = 5
    /\ objs = [d \in Objs |-> IF d = 0 THEN Fetched(server) ELSE NoData]
    /\ current = 0
    /\ ops = [o \in Ops |-> Idle]
    /\ started = 0
    /\ shown = [obj |-> 0, same |-> TRUE, gen |-> 0, wallets |-> {}]
    /\ mishaps = {}

-----------------------------------------------------------------------------
(* Helpers *)

Running == {o \in Ops : ops[o].pc # "idle"}

Data(o) == objs[ops[o].obj]

Becomes(o, r) == ops' = [ops EXCEPT ![o] = r]

\* Operation o, now r, sends a request and awaits its reply at pc.
Await(o, r, pc, req) == Becomes(o, [r EXCEPT !.pc = pc, !.req = req, !.res = None])

\* What the page shows of data object d.
Page(d, same) == [obj |-> d, same |-> same, gen |-> objs'[d].agen, wallets |-> objs'[d].wallets]

\* setInternalData({...newData}) and return.
Finish(o) ==
  /\ Becomes(o, Idle)
  /\ shown' = Page(ops[o].obj, FALSE)

\* setInternalData(newData) and return: React does nothing if it has that
\* very object, and the memoised projection keeps its arrays.
FinishSame(o) ==
  /\ Becomes(o, Idle)
  /\ shown' = IF shown.obj = ops[o].obj /\ shown.same THEN shown
              ELSE Page(ops[o].obj, TRUE)

\* Two elements of one name.
Twins(array) == \E a, b \in array : a # b /\ a.name = b.name

Answered(o, pc) ==
  ops[o].pc = pc /\ ops[o].res # None /\ ops[o].res # Failed

\* Replacing the element with r's id, or pushing r when there is none.
Put(array, r) == {x \in array : x.id # r.id} \cup {r}

\* Mutant: the reply to an update is not stored, only that to a create.
RememberCreated(d, field, x) ==
  IF \E y \in objs[d][field] : y.id = x.id THEN objs
  ELSE [objs EXCEPT ![d][field] = @ \cup {x}]

\* The array field of object d after a helper has stored x in it.
Remember(d, field, x) == [objs EXCEPT ![d][field] = Put(@, x)]

\* The ids an ensure helper may update; None: it creates.
Found(array, name) ==
  LET named == {g.id : g \in {h \in array : h.name = name}} IN
  IF named = {} THEN {None} ELSE named

\* ensureSourceGroupImpl and ensureTargetGroupImpl up to their await.
EnsureSourceGroup(o, r) ==
  \E id \in Found(objs[r.obj].sgroups, r.group) :
    Await(o, [r EXCEPT !.gen = objs[r.obj].sgen], "sourceGroup",
          [call |-> "putSourceGroup", id |-> id, name |-> r.group, source |-> r.source])

EnsureTargetGroup(o, r) ==
  \E id \in Found(objs[r.obj].tgroups, r.group) :
    Await(o, [r EXCEPT !.gen = objs[r.obj].tgen], "targetGroup",
          [call |-> "putTargetGroup", id |-> id, name |-> r.group, target |-> r.target])

-----------------------------------------------------------------------------
(* Starting an operation: the synchronous part, up to the first request *)

Starts(o) ==
  /\ ops[o].pc = "idle"
  /\ started < MaxStarts /\ started' = started + 1
  /\ mishaps' = IF Running = {} THEN mishaps ELSE mishaps \cup {"overlap"}
  /\ UNCHANGED <<server, stamp, objs, current, shown>>

\* fetchDataImpl answers from the cache; ensureTargetIds looks the address up
\* in the cached targets and creates the target if it is missing. Either way
\* an await follows.
EnsureTargets(o, r, value) ==
  LET found == {t \in objs[current].targets : t.value = value} IN
  IF found = {}
  THEN Await(o, r, "targets", [call |-> "createTarget", value |-> value])
  ELSE \E t \in found : Becomes(o, [r EXCEPT !.pc = "targets", !.res = t])

Begin(kind) == [Idle EXCEPT !.kind = kind, !.obj = current]

\* The caller names a source that exists; the cache may lack it.
StartCreate(o) ==
  \E name, group \in Names, value \in Values, source \in server.sources :
    /\ Starts(o)
    /\ EnsureTargets(o, [Begin("create") EXCEPT !.name = name, !.group = group,
                                                !.source = source.id], value)

StartUpdate(o) ==
  \E a \in objs[current].alerts, value \in Values :
    /\ Starts(o)
    /\ EnsureTargets(o, [Begin("update") EXCEPT !.alert = a.id], value)

StartEnsureTargetGroup(o) ==
  \E group \in Names, value \in Values :
    /\ Starts(o)
    /\ EnsureTargets(o, [Begin("ensureTargetGroup") EXCEPT !.group = group], value)

\* ensureSource: it compares names only. Either way an await follows.
EnsureSource(o, r, name) ==
  LET found == {s \in objs[current].sources : s.name = name} IN
  IF found = {}
  THEN Await(o, r, "source", [call |-> "createSource", name |-> name])
  ELSE \E s \in found : Becomes(o, [r EXCEPT !.pc = "source", !.res = s])

\* With one source; ensureSource is called for each in turn.
StartEnsureSourceGroup(o) ==
  \E group, source \in Names :
    /\ Starts(o)
    /\ EnsureSource(o, [Begin("ensureSourceGroup") EXCEPT !.group = group], source)

\* createSource, createBonfidaAuctionSource and createMetaplexAuctionSource.
StartCreateSource(o) ==
  \E source \in Names :
    /\ Starts(o)
    /\ EnsureSource(o, Begin("createSource"), source)

\* A Discord target is looked up by its id, with the name that was given: none
\* is ever found, so that each call creates another.
StartCreateDiscordTarget(o) ==
  /\ Starts(o)
  /\ Await(o, Begin("createDiscordTarget"), "discord", [call |-> "createDiscordTarget"])

\* connectWallet fetches nothing: it works on the internalData of the render
\* its callback belongs to.
StartConnectWallet(o) ==
  /\ Starts(o)
  /\ Await(o, [Begin("connectWallet") EXCEPT !.obj = shown.obj, !.page = shown],
           "wallet", [call |-> "connectWallet"])

StartDelete(o) ==
  \E a \in objs[current].alerts, keepTarget, keepSource \in BOOLEAN :
    /\ Starts(o)
    /\ Await(o, [Begin("delete") EXCEPT !.alert = a, !.keepTarget = keepTarget,
                                        !.keepSource = keepSource],
             "deleteAlert", [call |-> "deleteAlert", id |-> a.id])

-----------------------------------------------------------------------------
(* Continuations: the code between one reply and the next request *)

\* createAlert throws "Name must be unique!" or "Invalid source id".
Throws(o) ==
  \/ \E a \in Data(o).alerts : a.name = ops[o].name
  \/ \A s \in Data(o).sources : s.id # ops[o].source

\* After ensureTargetIds: a created target is in the array by now; each
\* operation makes its check and sends its next request.
AfterTargets(o) ==
  LET t == ops[o].res
      r == [ops[o] EXCEPT !.target = t.id]
      withId == {a \in Data(o).alerts : a.id = ops[o].alert}
  IN
  /\ Answered(o, "targets")
  /\ objs' = Remember(r.obj, "targets", t)
  /\ \/ /\ r.kind = "create"
        /\ IF Throws(o) THEN Becomes(o, Idle) ELSE EnsureSourceGroup(o, r)
     \/ /\ r.kind = "update" /\ withId = {}
        /\ Becomes(o, Idle)          \* throws "Unable to find alert"
     \/ /\ r.kind = "update"
        /\ \E a \in withId :
             EnsureTargetGroup(o, [r EXCEPT !.alert = a, !.group = a.tgroup.name])
     \/ /\ r.kind = "ensureTargetGroup"
        /\ EnsureTargetGroup(o, r)
  /\ UNCHANGED <<server, stamp, current, shown, mishaps, started>>

\* A created source is in the array by now. (The filters of the source go
\* into an array that only holds what the sources hold, and are left out.)
AfterSource(o) ==
  LET s == ops[o].res IN
  /\ Answered(o, "source")
  /\ objs' = Remember(ops[o].obj, "sources", s)
  /\ \/ /\ ops[o].kind = "ensureSourceGroup"
        /\ EnsureSourceGroup(o, [ops[o] EXCEPT !.source = s.id])
        /\ UNCHANGED shown
     \/ /\ ops[o].kind = "createSource"
        /\ FinishSame(o)
  /\ UNCHANGED <<server, stamp, current, mishaps, started>>

\* The id is returned; the page is not told.
AfterDiscordTarget(o) ==
  /\ Answered(o, "discord")
  /\ objs' = Remember(ops[o].obj, "discords", ops[o].res)
  /\ Becomes(o, Idle)
  /\ UNCHANGED <<server, stamp, current, shown, mishaps, started>>

\* A copy of the captured internalData with the wallet in its list. If it is
\* a data object itself, the copy has the arrays that object has by now.
WithWallet(o) ==
  LET p == ops[o].page IN
  [obj |-> p.obj, same |-> FALSE,
   gen |-> IF p.same THEN objs[p.obj].agen ELSE p.gen,
   wallets |-> p.wallets \cup {ops[o].res}]

\* What other operations have shown meanwhile is taken back.
AfterConnectWallet(o) ==
  /\ Answered(o, "wallet")
  /\ shown' = WithWallet(o)
  /\ mishaps' = IF ops[o].page = shown THEN mishaps ELSE mishaps \cup {"rewound"}
  /\ Becomes(o, Idle)
  /\ UNCHANGED <<server, stamp, objs, current, started>>

\* The reply goes into the array the helper captured, which is the object's
\* only if no delete has replaced it since.
AfterSourceGroup(o) ==
  LET d == ops[o].obj
      g == ops[o].res
  IN
  /\ Answered(o, "sourceGroup")
  /\ objs' = IF Data(o).sgen = ops[o].gen THEN Remember(d, "sgroups", g) ELSE objs
  /\ \/ /\ ops[o].kind = "create"
        /\ EnsureTargetGroup(o, [ops[o] EXCEPT !.source = g.id])
        /\ UNCHANGED shown
     \/ /\ ops[o].kind = "ensureSourceGroup"
        /\ FinishSame(o)
  /\ UNCHANGED <<server, stamp, current, mishaps, started>>

\* newData.alerts[indexOf(existingAlert)] = newAlert: when the alert's object
\* is not in the array any more, the index is -1 and no element changes.
Replace(alerts, old, new) ==
  IF old \in alerts THEN (alerts \ {old}) \cup {new} ELSE alerts

AfterTargetGroup(o) ==
  LET d == ops[o].obj
      g == ops[o].res
      patched == IF Data(o).tgen = ops[o].gen THEN Remember(d, "tgroups", g) ELSE objs
  IN
  /\ Answered(o, "targetGroup")
  /\ \/ /\ ops[o].kind = "create"
        /\ objs' = patched
        /\ Await(o, [ops[o] EXCEPT !.alert = g], "alert",
                 [call |-> "createAlert", name |-> ops[o].name,
                  sgroup |-> ops[o].source, tgroup |-> g.id])
        /\ UNCHANGED shown
     \/ /\ ops[o].kind = "update"
        /\ objs' = [patched EXCEPT ![d].alerts =
                      Replace(@, ops[o].alert, [ops[o].alert EXCEPT !.tgroup = g])]
        /\ Finish(o)
     \/ /\ ops[o].kind = "ensureTargetGroup"
        /\ objs' = patched
        /\ FinishSame(o)
  /\ UNCHANGED <<server, stamp, current, mishaps, started>>

\* Mutant: the alert is pushed with the target group the service returned,
\* which lacks its targets.
EmbedReturned(a, g) == [a EXCEPT !.tgroup = [g EXCEPT !.target = None]]

\* The alert the service returned, with the target group that was ensured.
Embed(a, g) == [a EXCEPT !.tgroup = g]

\* Mutant: an alert of that name in the list is replaced.
PushByName(alerts, a) == {b \in alerts : b.name # a.name} \cup {a}

\* newData.alerts.push(newAlert)
Push(alerts, a) == alerts \cup {a}

AfterAlert(o) ==
  /\ Answered(o, "alert")
  /\ objs' = [objs EXCEPT ![ops[o].obj].alerts =
                Push(@, Embed(ops[o].res, ops[o].alert))]
  /\ Finish(o)
  /\ UNCHANGED <<server, stamp, current, mishaps, started>>

\* Unless it is to be kept, the source group goes last.
DeleteSourceGroup(o) ==
  \/ ops[o].keepSource /\ Finish(o)
  \/ /\ ~ops[o].keepSource
     /\ Await(o, ops[o], "deleteSourceGroup",
              [call |-> "deleteSourceGroup", id |-> ops[o].alert.sgroup])
     /\ UNCHANGED shown

\* newData.alerts.filter((a) => a !== alertToDelete)
Without(alerts, a) == alerts \ {a}

\* newData.alerts becomes a filtered copy; a page that shows the old array
\* goes on showing it until the next setInternalData.
AfterDeleteAlert(o) ==
  LET d == ops[o].obj IN
  /\ Answered(o, "deleteAlert")
  /\ objs' = [objs EXCEPT ![d].alerts = Without(@, ops[o].alert), ![d].agen = @ + 1]
  /\ \/ /\ ops[o].keepTarget /\ ops[o].keepSource
        /\ Finish(o)
     \/ /\ ~(ops[o].keepTarget /\ ops[o].keepSource)
        /\ LET kind == IF ops[o].keepTarget THEN "deleteSourceGroup" ELSE "deleteTargetGroup"
               id == IF ops[o].keepTarget THEN ops[o].alert.sgroup ELSE ops[o].alert.tgroup.id
           IN Await(o, ops[o], kind, [call |-> kind, id |-> id])
        /\ UNCHANGED shown
  /\ UNCHANGED <<server, stamp, current, mishaps, started>>

AfterDeleteTargetGroup(o) ==
  LET d == ops[o].obj IN
  /\ Answered(o, "deleteTargetGroup")
  /\ objs' = [objs EXCEPT ![d].tgroups = {g \in @ : g.id # ops[o].alert.tgroup.id},
                          ![d].tgen = @ + 1]
  /\ DeleteSourceGroup(o)
  /\ UNCHANGED <<server, stamp, current, mishaps, started>>

AfterDeleteSourceGroup(o) ==
  LET d == ops[o].obj IN
  /\ Answered(o, "deleteSourceGroup")
  /\ objs' = [objs EXCEPT ![d].sgroups = {g \in @ : g.id # ops[o].alert.sgroup},
                          ![d].sgen = @ + 1]
  /\ Finish(o)
  /\ UNCHANGED <<server, stamp, current, mishaps, started>>

\* A rejected request rejects the operation: neither the catch nor the
\* finally block touches the data.
Reject(o) ==
  /\ ops[o].res = Failed
  /\ Becomes(o, Idle)
  /\ mishaps' = IF ops[o].pc \in {"deleteTargetGroup", "deleteSourceGroup"}
                THEN mishaps \cup {"torn"} ELSE mishaps
  /\ UNCHANGED <<server, stamp, objs, current, shown, started>>

\* A fetchData that finds the cache expired (or is forced): a new object. An
\* operation that finds it expired does the same without showing it. Objects
\* nobody refers to are forgotten.
Refetch ==
  /\ current < MaxObj
  /\ current' = current + 1
  /\ shown' \in {shown, [obj |-> current + 1, same |-> TRUE, gen |-> 0,
                          wallets |-> server.wallets]}
  /\ objs' = [d \in Objs |->
                IF d = current + 1 THEN Fetched(server)
                ELSE IF d \in {shown'.obj} \cup {ops[o].obj : o \in Running} THEN objs[d]
                ELSE NoData]
  /\ mishaps' = IF Running # {} THEN mishaps \cup {"refetch"}
                ELSE (IF shown'.obj = current' THEN {} ELSE mishaps \cap {"torn", "rewound"})
                       \cup (IF Twins(server.tgroups) \/ Twins(server.alerts)
                             THEN {"twins"} ELSE {})
  /\ UNCHANGED <<server, stamp, ops, started>>

-----------------------------------------------------------------------------
(* The Notifi service. It keeps references intact: it refuses to delete a    *)
(* group an alert uses and to create an alert without its groups.            *)

\* The server, its stamp and its reply after request r; none if it refuses.
Outcomes(r) ==
  LET n == stamp + 1
      New(field, x) ==
        {[server |-> [server EXCEPT ![field] = Put(@, x)], stamp |-> n, res |-> x]}
      Delete(field) ==
        {[server |-> [server EXCEPT ![field] = {x \in @ : x.id # r.id}],
          stamp |-> stamp, res |-> [id |-> r.id]]}
      Has(field, id) == \E x \in server[field] : x.id = id
      Used(field, id) == \E a \in server.alerts : a[field] = id
      Bundle(id) == [id |-> id, name |-> r.name, source |-> r.source]
      GroupOf(id) == [id |-> id, name |-> r.name, target |-> r.target, ver |-> n]
  IN
  CASE r.call = "createTarget" -> New("targets", [id |-> n, value |-> r.value])
    [] r.call = "createDiscordTarget" -> New("discords", [id |-> n])
    [] r.call = "createSource" -> New("sources", [id |-> n, name |-> r.name])
    [] r.call = "connectWallet" -> New("wallets", [id |-> n])
    [] r.call = "putSourceGroup" ->
         IF r.id = None THEN New("sgroups", Bundle(n))
         ELSE IF Has("sgroups", r.id) THEN New("sgroups", Bundle(r.id)) ELSE {}
    [] r.call = "putTargetGroup" ->
         IF r.id = None THEN New("tgroups", GroupOf(n))
         ELSE IF Has("tgroups", r.id) THEN New("tgroups", GroupOf(r.id)) ELSE {}
    [] r.call = "createAlert" ->
         IF Has("sgroups", r.sgroup) /\ Has("tgroups", r.tgroup)
         THEN New("alerts", [id |-> n, name |-> r.name, sgroup |-> r.sgroup,
                             tgroup |-> r.tgroup])
         ELSE {}
    [] r.call = "deleteAlert" -> IF Has("alerts", r.id) THEN Delete("alerts") ELSE {}
    [] r.call = "deleteTargetGroup" ->
         IF Has("tgroups", r.id) /\ ~Used("tgroup", r.id) THEN Delete("tgroups") ELSE {}
    [] r.call = "deleteSourceGroup" ->
         IF Has("sgroups", r.id) /\ ~Used("sgroup", r.id) THEN Delete("sgroups") ELSE {}

Sent(o) == ops[o].req # None /\ ops[o].res = None

\* The server carries a request out and its reply arrives.
Serve(o) ==
  /\ Sent(o)
  /\ \E x \in Outcomes(ops[o].req) :
       /\ server' = x.server /\ stamp' = x.stamp
       /\ Becomes(o, [ops[o] EXCEPT !.res = x.res])
  /\ UNCHANGED <<objs, current, shown, mishaps, started>>

\* The request is refused, or never reaches the server.
Refuse(o) ==
  /\ Sent(o)
  /\ Becomes(o, [ops[o] EXCEPT !.res = Failed])
  /\ UNCHANGED <<server, stamp, objs, current, shown, mishaps, started>>

\* The server carries the request out, but the reply is lost.
LoseReply(o) ==
  /\ MaxLost = 1 /\ "lost" \notin mishaps
  /\ Sent(o)
  /\ \E x \in Outcomes(ops[o].req) :
       /\ server' = x.server /\ stamp' = x.stamp
  /\ Becomes(o, [ops[o] EXCEPT !.res = Failed])
  /\ mishaps' = mishaps \cup {"lost"}
  /\ UNCHANGED <<objs, current, shown, started>>

Start(o) ==
  \/ StartCreate(o) \/ StartUpdate(o) \/ StartDelete(o)
  \/ StartEnsureTargetGroup(o) \/ StartEnsureSourceGroup(o)
  \/ StartCreateSource(o) \/ StartCreateDiscordTarget(o) \/ StartConnectWallet(o)

Continue(o) ==
  \/ AfterTargets(o) \/ AfterSourceGroup(o) \/ AfterTargetGroup(o) \/ AfterAlert(o)
  \/ AfterDeleteAlert(o) \/ AfterDeleteTargetGroup(o) \/ AfterDeleteSourceGroup(o)
  \/ AfterSource(o) \/ AfterDiscordTarget(o) \/ AfterConnectWallet(o)
  \/ Reject(o)

Next ==
  \/ \E o \in Ops :
       Start(o) \/ Continue(o) \/ Serve(o) \/ Refuse(o) \/ LoseReply(o)
  \/ Refetch

Spec == Init /\ [][Next]_vars

-----------------------------------------------------------------------------
(* Properties *)

\* The arrays that the server and a data object have both.
ArraysOK(x) ==
  /\ x.targets \subseteq Target /\ x.sources \subseteq Source
  /\ x.discords \subseteq Plain /\ x.wallets \subseteq Plain
  /\ x.sgroups \subseteq SourceGroup /\ x.tgroups \subseteq TargetGroup

TypeOK ==
  /\ ArraysOK(server) /\ server.alerts \subseteq ServerAlert
  /\ \A d \in Objs :
       /\ ArraysOK(objs[d]) /\ objs[d].alerts \subseteq Alert
       /\ objs[d].sgen \in Nat /\ objs[d].tgen \in Nat /\ objs[d].agen \in Nat
  /\ current \in Objs /\ stamp \in Nat /\ started \in 0 .. MaxStarts
  /\ shown.obj \in Objs /\ shown.same \in BOOLEAN
  /\ shown.gen \in Nat /\ shown.wallets \subseteq server.wallets
  /\ mishaps \subseteq {"overlap", "refetch", "lost", "torn", "rewound", "twins"}
  /\ \A o \in Ops :
       /\ ops[o].obj \in Objs /\ ops[o].gen \in Nat
       /\ ops[o].pc \in {"idle", "targets", "source", "sourceGroup", "targetGroup",
                         "alert", "deleteAlert", "deleteTargetGroup",
                         "deleteSourceGroup", "discord", "wallet"}
       /\ ops[o].pc = "idle" <=> ops[o].kind = None

Quiet == Running = {}

Ids(alerts) == {[a EXCEPT !.tgroup = a.tgroup.id] : a \in alerts}

\* When no operation runs and none ever overlapped another or a fetch since
\* the last clean fetch, and no reply was lost, the cached arrays are what the
\* server has, also after operations that were rejected half way, since each
\* patch is applied right after the request that made it true; and no alert
\* has the name of another, since the name was checked in a list that is
\* complete. (The wallets are not: connectWallet tells the page alone.) The
\* page shows a list of alerts that its data object has replaced only after
\* a delete that failed between the alert and its groups, or after a
\* connectWallet during which the page had changed.
CacheMirrorsServer ==
  Quiet =>
    /\ mishaps \subseteq {"torn", "rewound"} =>
         /\ objs[current].targets = server.targets
         /\ objs[current].discords = server.discords
         /\ objs[current].sources = server.sources
         /\ objs[current].sgroups = server.sgroups
         /\ objs[current].tgroups = server.tgroups
         /\ Ids(objs[current].alerts) = server.alerts
         /\ ~Twins(server.alerts)
    /\ mishaps \cap {"torn", "rewound"} = {} => shown.gen = objs[shown.obj].agen

\* Overlapping operations alone never lose an alert from the cached list:
\* each reads the array of alerts from the data object after its awaits, so
\* that a create pushes to the list a delete has installed meanwhile. (Groups
\* can be lost: their array is captured before the await.)
NoLostAlert ==
  Quiet /\ mishaps \subseteq {"overlap", "torn", "rewound"} =>
    {a.id : a \in server.alerts} \subseteq {a.id : a \in objs[current].alerts}

\* What the error of createAlert says, "Name must be unique!". The code does
\* not keep it: two overlapping calls both pass the check (see the README).
NameMustBeUnique == ~Twins(server.alerts)

=============================================================================
