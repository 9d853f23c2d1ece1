--------------------------- MODULE AlertOpsProofs ---------------------------
(***************************************************************************)
(* Proofs about AlertOps, for any number of operations of any kinds, any   *)
(* names and addresses, refetches, refused requests and lost replies: type *)
(* correctness, that the cached list loses no alert to overlapping         *)
(* operations, and that the cache is what the service has when operations  *)
(* follow one another.                                                     *)
(*                                                                         *)
(* First come the types and the layers of the invariant, then what each    *)
(* action does (the lemmas ...Does), then one layer after the other:       *)
(*   Whole     types; ids and references of the service, and what the      *)
(*             client has of it                                            *)
(*   Kept      every alert of the service is listed, or about to be        *)
(*   PageTold  who shows a list of alerts that has been replaced           *)
(*   Level     the cache lags behind the service by one reply at most.     *)
(***************************************************************************)
EXTENDS AlertOps, FiniteSetTheorems, TLAPS

-----------------------------------------------------------------------------
(* Types. The arrays of the server and of a data object, and the fields of   *)
(* an operation, are spoken of by their names: "the others stay".            *)

Arrays == {"targets", "discords", "sources", "wallets", "sgroups", "tgroups"}
ServerFields == Arrays \cup {"alerts"}
DataFields == Arrays \cup {"alerts", "sgen", "tgen", "agen"}
Fields == {"pc", "kind", "name", "group", "obj", "gen", "alert", "target", "source",
           "keepTarget", "keepSource", "page", "req", "res"}

ServerState ==
  [targets : SUBSET Target, discords : SUBSET Plain, sources : SUBSET Source,
   wallets : SUBSET Plain, sgroups : SUBSET SourceGroup, tgroups : SUBSET TargetGroup,
   alerts : SUBSET ServerAlert]

DataObject ==
  [targets : SUBSET Target, discords : SUBSET Plain, sources : SUBSET Source,
   wallets : SUBSET Plain, sgroups : SUBSET SourceGroup, tgroups : SUBSET TargetGroup,
   alerts : SUBSET Alert, sgen : Nat, tgen : Nat, agen : Nat]

Pages == [obj : Objs, same : BOOLEAN, gen : Nat, wallets : SUBSET Plain]

Mishaps == {"overlap", "refetch", "lost", "torn", "rewound", "twins"}

\* A record with the fields of an operation, whatever their values.
Shaped(r) == r = [f \in Fields |-> r[f]]

\* What an operation is about, at each point of it.
Unanswered == {None, Failed}

AboutCreate(r) == r.kind = "create" /\ r.name \in Names /\ r.group \in Names
AboutGroup(r) == r.kind = "ensureTargetGroup" /\ r.group \in Names

AtTargets(r) ==
  /\ r.pc = "targets" /\ r.res \in Target \cup Unanswered
  /\ r.req = None \/ \E v \in Values : r.req = [call |-> "createTarget", value |-> v]
  /\ \/ AboutCreate(r) /\ r.source \in Nat
     \/ r.kind = "update" /\ r.alert \in Nat
     \/ AboutGroup(r)

AtSource(r) ==
  /\ r.pc = "source" /\ r.res \in Source \cup Unanswered
  /\ r.req = None \/ \E n \in Names : r.req = [call |-> "createSource", name |-> n]
  /\ \/ r.kind = "ensureSourceGroup" /\ r.group \in Names
     \/ r.kind = "createSource"

AtDiscord(r) ==
  /\ r.pc = "discord" /\ r.res \in Plain \cup Unanswered
  /\ r.kind = "createDiscordTarget" /\ r.req = [call |-> "createDiscordTarget"]

AtWallet(r) ==
  /\ r.pc = "wallet" /\ r.res \in Plain \cup Unanswered
  /\ r.kind = "connectWallet" /\ r.req = [call |-> "connectWallet"]
  /\ r.page \in Pages /\ r.obj = r.page.obj

AtSourceGroup(r) ==
  /\ r.pc = "sourceGroup" /\ r.res \in SourceGroup \cup Unanswered
  /\ r.group \in Names /\ r.source \in Nat
  /\ r.req = [call |-> "putSourceGroup", id |-> r.req.id, name |-> r.group, source |-> r.source]
  /\ r.req.id \in Nat \cup {None}
  /\ \/ AboutCreate(r) /\ r.target \in Nat
     \/ r.kind = "ensureSourceGroup"

AtTargetGroup(r) ==
  /\ r.pc = "targetGroup" /\ r.res \in TargetGroup \cup Unanswered
  /\ r.group \in Names /\ r.target \in Nat
  /\ r.req = [call |-> "putTargetGroup", id |-> r.req.id, name |-> r.group, target |-> r.target]
  /\ r.req.id \in Nat \cup {None}
  /\ r.res \in TargetGroup => r.res.name = r.group /\ r.req.id \in {None, r.res.id}
  /\ \/ AboutCreate(r) /\ r.source \in Nat
     \/ r.kind = "update" /\ r.alert \in Alert /\ r.group = r.alert.tgroup.name
     \/ AboutGroup(r)

AtAlert(r) ==
  /\ r.pc = "alert" /\ r.res \in ServerAlert \cup Unanswered
  /\ AboutCreate(r) /\ r.source \in Nat /\ r.alert \in TargetGroup
  /\ r.req = [call |-> "createAlert", name |-> r.name, sgroup |-> r.source,
              tgroup |-> r.alert.id]
  /\ r.res \in ServerAlert => r.res.tgroup = r.alert.id

Deleting == {"deleteAlert", "deleteTargetGroup", "deleteSourceGroup"}

\* The id that a request of deleteAlert names.
Doomed(r) ==
  IF r.pc = "deleteAlert" THEN r.alert.id
  ELSE IF r.pc = "deleteTargetGroup" THEN r.alert.tgroup.id ELSE r.alert.sgroup

AtDelete(r) ==
  /\ r.pc \in Deleting /\ r.res \in Plain \cup Unanswered
  /\ r.kind = "delete" /\ r.alert \in Alert
  /\ r.req = [call |-> r.pc, id |-> Doomed(r)]

Fits(r) ==
  /\ Shaped(r) /\ r.obj \in Objs /\ r.gen \in Nat
  /\ \/ r = Idle
     \/ AtTargets(r) \/ AtSource(r) \/ AtDiscord(r) \/ AtWallet(r)
     \/ AtSourceGroup(r) \/ AtTargetGroup(r) \/ AtAlert(r) \/ AtDelete(r)

Typed ==
  /\ server \in ServerState /\ stamp \in Nat
  /\ objs \in [Objs -> DataObject] /\ current \in Objs
  /\ ops = [o \in Ops |-> ops[o]] /\ \A o \in Ops : Fits(ops[o])
  /\ started \in 0 .. MaxStarts /\ shown \in Pages /\ mishaps \subseteq Mishaps

-----------------------------------------------------------------------------
(* The layers of the invariant                                               *)

Unique(array) == \A x, y \in array : x.id = y.id => x = y
Below(array, n) == \A x \in array : x.id <= n

\* The service's ids are its own, and its references are intact.
ServerWhole ==
  /\ \A f \in ServerFields : Unique(server[f]) /\ Below(server[f], stamp)
  /\ \A a \in server.alerts :
       /\ \E g \in server.sgroups : g.id = a.sgroup
       /\ \E g \in server.tgroups : g.id = a.tgroup

Pending(r, pc) == r.pc = pc /\ r.res \notin Unanswered

\* What the client has of the service: alerts that were made (up to number
\* n), wallets that are there, data objects that were fetched (up to c).
Known(r, n, wallets, c) ==
  /\ r.obj <= c
  /\ r.pc = "deleteAlert" => r.alert.id <= n
  /\ r.pc = "targetGroup" /\ r.kind = "update" => r.alert.id <= n
  /\ Pending(r, "alert") => r.res.id <= n
  /\ r.pc = "wallet" =>
       /\ r.page.wallets \subseteq wallets
       /\ Pending(r, "wallet") => r.res \in wallets

ClientWhole ==
  /\ \A d \in Objs : objs[d].wallets \subseteq server.wallets /\ Below(objs[d].alerts, stamp)
  /\ shown.wallets \subseteq server.wallets /\ shown.obj <= current
  /\ \A o \in Ops : Known(ops[o], stamp, server.wallets, current)

Whole == Typed /\ ServerWhole /\ ClientWhole

\* No alert is lost, as long as no operation saw its data object replaced and
\* no reply was lost.
Cached == objs[current]

Listed(a) ==
  \/ \E b \in Cached.alerts : b.id = a.id
  \/ \E o \in Ops : Pending(ops[o], "alert") /\ ops[o].res.id = a.id

WorksOn(r, c) == r.pc \notin {"idle", "wallet"} => r.obj = c

Gone(r, alerts) == Pending(r, "deleteAlert") => \A a \in alerts : a.id # r.alert.id

AllKept ==
  /\ \A a \in server.alerts : Listed(a)
  /\ \A o \in Ops : WorksOn(ops[o], current) /\ Gone(ops[o], server.alerts)

Kept == mishaps \cap {"refetch", "lost"} = {} => AllKept

\* The page shows a list that its data object has replaced only while the
\* delete that replaced it goes on.
DeletesGroups(r) == r.pc \in {"deleteTargetGroup", "deleteSourceGroup"}

Told ==
  \/ shown.gen = objs[shown.obj].agen
  \/ \E o \in Ops : DeletesGroups(ops[o]) /\ ops[o].obj = shown.obj

PageTold == mishaps \cap {"torn", "rewound"} = {} => Told

\* While operations follow one another, the cache c lags behind the service s
\* by the reply that the one running operation r has not stored yet.
Alone == mishaps \subseteq {"torn", "rewound"}

Mirrors(s, c, r) ==
  /\ s.targets = IF Pending(r, "targets") THEN Put(c.targets, r.res) ELSE c.targets
  /\ s.discords = IF Pending(r, "discord") THEN Put(c.discords, r.res) ELSE c.discords
  /\ s.sources = IF Pending(r, "source") THEN Put(c.sources, r.res) ELSE c.sources
  /\ s.sgroups =
       IF Pending(r, "sourceGroup") THEN Put(c.sgroups, r.res)
       ELSE IF Pending(r, "deleteSourceGroup")
       THEN {g \in c.sgroups : g.id # r.alert.sgroup} ELSE c.sgroups
  /\ s.tgroups =
       IF Pending(r, "targetGroup") THEN Put(c.tgroups, r.res)
       ELSE IF Pending(r, "deleteTargetGroup")
       THEN {g \in c.tgroups : g.id # r.alert.tgroup.id} ELSE c.tgroups
  /\ s.alerts =
       IF Pending(r, "alert") THEN Ids(c.alerts) \cup {r.res}
       ELSE IF Pending(r, "deleteAlert")
       THEN {a \in Ids(c.alerts) : a.id # r.alert.id} ELSE Ids(c.alerts)

\* What the running operation has found in the cache is still true.
Knows(s, c, r) ==
  /\ r.pc = "sourceGroup" => r.gen = c.sgen
  /\ r.pc = "targetGroup" =>
       /\ r.gen = c.tgen
       /\ IF r.req.id = None THEN \A g \in c.tgroups : g.name # r.group
          ELSE \E g \in c.tgroups : g.id = r.req.id /\ g.name = r.group
       /\ r.kind = "update" => r.alert \in c.alerts /\ r.req.id = r.alert.tgroup.id
  /\ r.kind = "create" /\ r.pc \in {"sourceGroup", "targetGroup", "alert"} =>
       \A a \in c.alerts : a.name # r.name
  /\ r.pc = "alert" => r.alert \in s.tgroups
  /\ Pending(r, "alert") => \A a \in c.alerts : a.id # r.res.id
  /\ r.pc = "deleteAlert" => r.alert \in c.alerts

\* The alerts of the cache, and the names.
Sound(s, c) ==
  /\ Unique(c.alerts)
  /\ \A a \in c.alerts, g \in s.tgroups : g.id = a.tgroup.id => g.name = a.tgroup.name
  /\ ~Twins(s.tgroups) /\ ~Twins(s.alerts)

InStep ==
  /\ Sound(server, Cached)
  /\ \A o, p \in Running : o = p
  /\ Running = {} => Mirrors(server, Cached, Idle)
  /\ \A o \in Running :
       /\ WorksOn(ops[o], current)
       /\ Mirrors(server, Cached, ops[o]) /\ Knows(server, Cached, ops[o])

Level == Alone => InStep

-----------------------------------------------------------------------------
(* Records                                                                   *)

\* x is r, but for the fields in F.
Same(x, r, F) == \A f \in Fields \ F : x[f] = r[f]

LEMMA SameSame ==
  ASSUME NEW x, NEW y, NEW r, NEW F, NEW G, Same(x, y, F), Same(y, r, G)
  PROVE  Same(x, r, F \cup G)
BY DEF Same

LEMMA SetGen ==
  ASSUME NEW r, Shaped(r), NEW v
  PROVE  LET x == [r EXCEPT !.gen = v] IN
         Shaped(x) /\ x.gen = v /\ Same(x, r, {"gen"})
BY DEF Shaped, Same, Fields

LEMMA SetTarget ==
  ASSUME NEW r, Shaped(r), NEW v
  PROVE  LET x == [r EXCEPT !.target = v] IN
         Shaped(x) /\ x.target = v /\ Same(x, r, {"target"})
BY DEF Shaped, Same, Fields

LEMMA SetSource ==
  ASSUME NEW r, Shaped(r), NEW v
  PROVE  LET x == [r EXCEPT !.source = v] IN
         Shaped(x) /\ x.source = v /\ Same(x, r, {"source"})
BY DEF Shaped, Same, Fields

LEMMA SetAlert ==
  ASSUME NEW r, Shaped(r), NEW v
  PROVE  LET x == [r EXCEPT !.alert = v] IN
         Shaped(x) /\ x.alert = v /\ Same(x, r, {"alert"})
BY DEF Shaped, Same, Fields

LEMMA SetGroup ==
  ASSUME NEW r, Shaped(r), NEW v
  PROVE  LET x == [r EXCEPT !.group = v] IN
         Shaped(x) /\ x.group = v /\ Same(x, r, {"group"})
BY DEF Shaped, Same, Fields

LEMMA SetRes ==
  ASSUME NEW r, Shaped(r), NEW v
  PROVE  LET x == [r EXCEPT !.res = v] IN
         Shaped(x) /\ x.res = v /\ Same(x, r, {"res"})
BY DEF Shaped, Same, Fields

LEMMA SetAlertGroup ==
  ASSUME NEW r, Shaped(r), NEW v, NEW w
  PROVE  LET x == [r EXCEPT !.alert = v, !.group = w] IN
         Shaped(x) /\ x.alert = v /\ x.group = w /\ Same(x, r, {"alert", "group"})
BY DEF Shaped, Same, Fields

LEMMA SetPage ==
  ASSUME NEW r, Shaped(r), NEW v, NEW w
  PROVE  LET x == [r EXCEPT !.obj = v, !.page = w] IN
         Shaped(x) /\ x.obj = v /\ x.page = w /\ Same(x, r, {"obj", "page"})
BY DEF Shaped, Same, Fields

LEMMA SetFound ==
  ASSUME NEW r, Shaped(r), NEW v, NEW w
  PROVE  LET x == [r EXCEPT !.pc = v, !.res = w] IN
         Shaped(x) /\ x.pc = v /\ x.res = w /\ Same(x, r, {"pc", "res"})
BY DEF Shaped, Same, Fields

LEMMA SetCreate ==
  ASSUME NEW r, Shaped(r), NEW v, NEW w, NEW z
  PROVE  LET x == [r EXCEPT !.name = v, !.group = w, !.source = z] IN
         Shaped(x) /\ x.name = v /\ x.group = w /\ x.source = z /\ Same(x, r, {"name", "group", "source"})
BY DEF Shaped, Same, Fields

LEMMA SetAwait ==
  ASSUME NEW r, Shaped(r), NEW v, NEW w, NEW z
  PROVE  LET x == [r EXCEPT !.pc = v, !.req = w, !.res = z] IN
         Shaped(x) /\ x.pc = v /\ x.req = w /\ x.res = z /\ Same(x, r, {"pc", "req", "res"})
BY DEF Shaped, Same, Fields

LEMMA IdleFacts ==
  /\ Shaped(Idle) /\ Fits(Idle) /\ Idle.pc = "idle" /\ Idle.kind = None /\ Idle.obj = 0
  /\ Idle.gen = 0 /\ Idle.res = None /\ Idle.req = None
<1>1. Shaped(Idle)
  BY DEF Shaped, Idle, Fields
<1>2. /\ Idle.pc = "idle" /\ Idle.kind = None /\ Idle.obj = 0 /\ Idle.gen = 0
      /\ Idle.res = None /\ Idle.req = None
  BY DEF Idle
<1> QED
  BY <1>1, <1>2, AlertOpsAssumption DEF Fits, Objs

LEMMA BeginFacts ==
  ASSUME NEW kind
  PROVE  /\ Shaped(Begin(kind)) /\ Begin(kind).kind = kind /\ Begin(kind).obj = current
         /\ Begin(kind).gen = 0 /\ Begin(kind).req = None /\ Begin(kind).res = None
BY DEF Shaped, Begin, Idle, Fields

\* Where an operation is says what it is about.
LEMMA Phases ==
  ASSUME NEW r, Fits(r)
  PROVE  /\ Shaped(r) /\ r.obj \in Objs /\ r.gen \in Nat
         /\ r.pc = "idle" => r = Idle
         /\ r.pc = "targets" => AtTargets(r)
         /\ r.pc = "source" => AtSource(r)
         /\ r.pc = "discord" => AtDiscord(r)
         /\ r.pc = "wallet" => AtWallet(r)
         /\ r.pc = "sourceGroup" => AtSourceGroup(r)
         /\ r.pc = "targetGroup" => AtTargetGroup(r)
         /\ r.pc = "alert" => AtAlert(r)
         /\ r.pc \in Deleting => AtDelete(r)
<1>1. /\ Shaped(r) /\ r.obj \in Objs /\ r.gen \in Nat
      /\ \/ r = Idle
         \/ AtTargets(r) \/ AtSource(r) \/ AtDiscord(r) \/ AtWallet(r)
         \/ AtSourceGroup(r) \/ AtTargetGroup(r) \/ AtAlert(r) \/ AtDelete(r)
  BY DEF Fits
<1>2. r = Idle => r.pc = "idle"
  BY IdleFacts
<1>3. /\ AtTargets(r) => r.pc = "targets"
      /\ AtSource(r) => r.pc = "source"
      /\ AtDiscord(r) => r.pc = "discord"
      /\ AtWallet(r) => r.pc = "wallet"
      /\ AtSourceGroup(r) => r.pc = "sourceGroup"
      /\ AtTargetGroup(r) => r.pc = "targetGroup"
      /\ AtAlert(r) => r.pc = "alert"
      /\ AtDelete(r) => r.pc \in Deleting
  BY DEF AtTargets, AtSource, AtDiscord, AtWallet, AtSourceGroup, AtTargetGroup, AtAlert,
         AtDelete
<1>4. Deleting = {"deleteAlert", "deleteTargetGroup", "deleteSourceGroup"}
  BY DEF Deleting
<1> HIDE DEF Deleting
<1> QED
  BY <1>1, <1>2, <1>3, <1>4

-----------------------------------------------------------------------------
(* What a step does to the operation that takes it                           *)

OpsMove(o) ==
  /\ ops' = [p \in Ops |-> ops'[p]]
  /\ \A p \in Ops \ {o} : ops'[p] = ops[p]

LEMMA BecomesStep ==
  ASSUME Typed, NEW o \in Ops, NEW r, Becomes(o, r)
  PROVE  OpsMove(o) /\ ops'[o] = r
BY DEF Typed, Becomes, OpsMove

LEMMA AwaitStep ==
  ASSUME Typed, NEW o \in Ops, NEW r, Shaped(r), NEW pc, NEW req, Await(o, r, pc, req)
  PROVE  /\ OpsMove(o) /\ Shaped(ops'[o]) /\ ops'[o].pc = pc /\ ops'[o].req = req
         /\ ops'[o].res = None /\ Same(ops'[o], r, {"pc", "req", "res"})
<1> DEFINE x == [r EXCEPT !.pc = pc, !.req = req, !.res = None]
<1>1. Becomes(o, x)
  BY DEF Await
<1>2. /\ Shaped(x) /\ x.pc = pc /\ x.req = req /\ x.res = None
      /\ Same(x, r, {"pc", "req", "res"})
  BY SetAwait
<1> HIDE DEF x
<1> QED
  BY <1>1, <1>2, BecomesStep

LEMMA FoundFacts ==
  ASSUME NEW array, NEW name, NEW id \in Found(array, name)
  PROVE  \/ id = None /\ \A g \in array : g.name # name
         \/ \E g \in array : g.id = id /\ g.name = name
BY DEF Found

AsksSourceGroup(o, r) ==
  LET n == ops'[o] IN
  /\ OpsMove(o) /\ Shaped(n) /\ n.pc = "sourceGroup" /\ n.res = None
  /\ n.gen = objs[r.obj].sgen /\ Same(n, r, {"pc", "req", "res", "gen"})
  /\ n.req = [call |-> "putSourceGroup", id |-> n.req.id, name |-> r.group, source |-> r.source]
  /\ n.req.id \in Found(objs[r.obj].sgroups, r.group)

LEMMA EnsureSourceGroupDoes ==
  ASSUME Typed, NEW o \in Ops, NEW r, Shaped(r), EnsureSourceGroup(o, r)
  PROVE  AsksSourceGroup(o, r)
<1>1. PICK id \in Found(objs[r.obj].sgroups, r.group) :
        Await(o, [r EXCEPT !.gen = objs[r.obj].sgen], "sourceGroup",
              [call |-> "putSourceGroup", id |-> id, name |-> r.group, source |-> r.source])
  BY DEF EnsureSourceGroup
<1> DEFINE x == [r EXCEPT !.gen = objs[r.obj].sgen]
           req == [call |-> "putSourceGroup", id |-> id, name |-> r.group, source |-> r.source]
<1>2. Shaped(x) /\ x.gen = objs[r.obj].sgen /\ Same(x, r, {"gen"})
  BY SetGen
<1>3. Await(o, x, "sourceGroup", req)
  BY <1>1
<1>4. req.id = id
  OBVIOUS
<1> HIDE DEF x, req
<1>5. /\ OpsMove(o) /\ Shaped(ops'[o]) /\ ops'[o].pc = "sourceGroup" /\ ops'[o].req = req
      /\ ops'[o].res = None /\ Same(ops'[o], x, {"pc", "req", "res"})
  BY <1>2, <1>3, AwaitStep
<1>6. Same(ops'[o], r, {"pc", "req", "res", "gen"}) /\ ops'[o].gen = x.gen
  BY <1>2, <1>5 DEF Same, Fields
<1> QED
  BY <1>1, <1>2, <1>4, <1>5, <1>6 DEF AsksSourceGroup, req

AsksTargetGroup(o, r) ==
  LET n == ops'[o] IN
  /\ OpsMove(o) /\ Shaped(n) /\ n.pc = "targetGroup" /\ n.res = None
  /\ n.gen = objs[r.obj].tgen /\ Same(n, r, {"pc", "req", "res", "gen"})
  /\ n.req = [call |-> "putTargetGroup", id |-> n.req.id, name |-> r.group, target |-> r.target]
  /\ n.req.id \in Found(objs[r.obj].tgroups, r.group)

LEMMA EnsureTargetGroupDoes ==
  ASSUME Typed, NEW o \in Ops, NEW r, Shaped(r), EnsureTargetGroup(o, r)
  PROVE  AsksTargetGroup(o, r)
<1>1. PICK id \in Found(objs[r.obj].tgroups, r.group) :
        Await(o, [r EXCEPT !.gen = objs[r.obj].tgen], "targetGroup",
              [call |-> "putTargetGroup", id |-> id, name |-> r.group, target |-> r.target])
  BY DEF EnsureTargetGroup
<1> DEFINE x == [r EXCEPT !.gen = objs[r.obj].tgen]
           req == [call |-> "putTargetGroup", id |-> id, name |-> r.group, target |-> r.target]
<1>2. Shaped(x) /\ x.gen = objs[r.obj].tgen /\ Same(x, r, {"gen"})
  BY SetGen
<1>3. Await(o, x, "targetGroup", req)
  BY <1>1
<1>4. req.id = id
  OBVIOUS
<1> HIDE DEF x, req
<1>5. /\ OpsMove(o) /\ Shaped(ops'[o]) /\ ops'[o].pc = "targetGroup" /\ ops'[o].req = req
      /\ ops'[o].res = None /\ Same(ops'[o], x, {"pc", "req", "res"})
  BY <1>2, <1>3, AwaitStep
<1>6. Same(ops'[o], r, {"pc", "req", "res", "gen"}) /\ ops'[o].gen = x.gen
  BY <1>2, <1>5 DEF Same, Fields
<1> QED
  BY <1>1, <1>2, <1>4, <1>5, <1>6 DEF AsksTargetGroup, req

\* What is asked fits: the group of a name and an id, or a new one.
LEMMA AsksSourceGroupFits ==
  ASSUME Typed, NEW o \in Ops, NEW r, AsksSourceGroup(o, r), r.obj \in Objs,
         r.group \in Names, r.source \in Nat,
         (AboutCreate(r) /\ r.target \in Nat) \/ r.kind = "ensureSourceGroup"
  PROVE  Fits(ops'[o])
<1> DEFINE n == ops'[o]
<1>1. objs[r.obj].sgroups \subseteq SourceGroup /\ objs[r.obj].sgen \in Nat
  BY DEF Typed, DataObject
<1>2. n.req.id \in Nat \cup {None}
  BY <1>1, FoundFacts DEF AsksSourceGroup, SourceGroup
<1>3. /\ n.obj = r.obj /\ n.kind = r.kind /\ n.name = r.name /\ n.group = r.group
      /\ n.source = r.source /\ n.target = r.target
  BY DEF AsksSourceGroup, Same, Fields
<1>4. AtSourceGroup(n)
  BY <1>2, <1>3 DEF AsksSourceGroup, AtSourceGroup, AboutCreate, Unanswered
<1> QED
  BY <1>1, <1>3, <1>4 DEF AsksSourceGroup, Fits

LEMMA AsksTargetGroupFits ==
  ASSUME Typed, NEW o \in Ops, NEW r, AsksTargetGroup(o, r), r.obj \in Objs,
         r.group \in Names, r.target \in Nat,
         \/ AboutCreate(r) /\ r.source \in Nat
         \/ r.kind = "update" /\ r.alert \in Alert /\ r.group = r.alert.tgroup.name
         \/ AboutGroup(r)
  PROVE  Fits(ops'[o])
<1> DEFINE n == ops'[o]
<1>1. objs[r.obj].tgroups \subseteq TargetGroup /\ objs[r.obj].tgen \in Nat
  BY DEF Typed, DataObject
<1>2. n.req.id \in Nat \cup {None}
  BY <1>1, FoundFacts DEF AsksTargetGroup, TargetGroup
<1>3. /\ n.obj = r.obj /\ n.kind = r.kind /\ n.name = r.name /\ n.group = r.group
      /\ n.source = r.source /\ n.target = r.target /\ n.alert = r.alert
  BY DEF AsksTargetGroup, Same, Fields
<1>4. n.res \in Unanswered /\ n.res \notin TargetGroup
  BY NoneAssumption DEF AsksTargetGroup, Unanswered
<1>5. AtTargetGroup(n)
  BY <1>2, <1>3, <1>4 DEF AsksTargetGroup, AtTargetGroup, AboutCreate, AboutGroup
<1> QED
  BY <1>1, <1>3, <1>5 DEF AsksTargetGroup, Fits

-----------------------------------------------------------------------------
(* Starting an operation                                                     *)

\* An operation starts: it looks something up in the cache and finds it, or
\* it sends its first request.
Starting(o) ==
  /\ ops[o].pc = "idle" /\ started' \in 0 .. MaxStarts
  /\ mishaps' = IF Running = {} THEN mishaps ELSE mishaps \cup {"overlap"}
  /\ UNCHANGED <<server, stamp, objs, current, shown>>

LEMMA StartsStep ==
  ASSUME Typed, NEW o \in Ops, Starts(o)
  PROVE  Starting(o)
BY AlertOpsAssumption DEF Typed, Starts, Starting

Opens(o) ==
  LET n == ops'[o] IN
  /\ Starting(o) /\ OpsMove(o) /\ Fits(n)
  /\ n.pc \in {"targets", "source", "discord", "wallet", "deleteAlert"}
  /\ n.obj = IF n.pc = "wallet" THEN shown.obj ELSE current
  /\ \/ n.res = None
     \/ n.pc = "targets" /\ n.res \in objs[current].targets
     \/ n.pc = "source" /\ n.res \in objs[current].sources
  /\ n.pc = "wallet" => n.page = shown
  /\ n.pc = "deleteAlert" => n.alert \in objs[current].alerts

LEMMA EnsureTargetsDoes ==
  ASSUME Typed, NEW o \in Ops, Starting(o), NEW r, Shaped(r), NEW value \in Values,
         EnsureTargets(o, r, value), r.obj = current, r.gen = 0, r.req = None,
         \/ AboutCreate(r) /\ r.source \in Nat
         \/ r.kind = "update" /\ r.alert \in Nat
         \/ AboutGroup(r)
  PROVE  Opens(o)
<1> DEFINE found == {t \in objs[current].targets : t.value = value}
           n == ops'[o]
<1>1. found \subseteq Target /\ current \in Objs
  BY DEF Typed, DataObject
<1>2. /\ OpsMove(o) /\ Shaped(n) /\ n.pc = "targets" /\ Same(n, r, {"pc", "req", "res"})
      /\ n.res \in {None} \cup found
      /\ n.req = None \/ n.req = [call |-> "createTarget", value |-> value]
  <2>1. CASE found = {}
    <3>1. Await(o, r, "targets", [call |-> "createTarget", value |-> value])
      BY <2>1 DEF EnsureTargets
    <3> QED
      BY <3>1, AwaitStep
  <2>2. CASE found # {}
    <3>1. PICK t \in found : Becomes(o, [r EXCEPT !.pc = "targets", !.res = t])
      BY <2>2 DEF EnsureTargets
    <3> DEFINE x == [r EXCEPT !.pc = "targets", !.res = t]
    <3>2. Shaped(x) /\ x.pc = "targets" /\ x.res = t /\ Same(x, r, {"pc", "res"})
      BY SetFound
    <3>3. Becomes(o, x)
      BY <3>1
    <3> HIDE DEF x
    <3>4. OpsMove(o) /\ n = x
      BY <3>3, BecomesStep
    <3>5. Same(x, r, {"pc", "req", "res"}) /\ x.req = r.req
      BY <3>2 DEF Same, Fields
    <3> QED
      BY <3>1, <3>2, <3>4, <3>5
  <2> QED
    BY <2>1, <2>2
<1>3. /\ n.obj = r.obj /\ n.kind = r.kind /\ n.name = r.name /\ n.group = r.group
      /\ n.source = r.source /\ n.alert = r.alert /\ n.gen = r.gen
  BY <1>2 DEF Same, Fields
<1>4. n.res \in Target \cup Unanswered
  BY <1>1, <1>2 DEF Unanswered
<1>5. AtTargets(n)
  BY <1>2, <1>3, <1>4 DEF AtTargets, AboutCreate, AboutGroup
<1>6. Fits(n)
  BY <1>1, <1>2, <1>3, <1>5 DEF Fits
<1> QED
  BY <1>2, <1>3, <1>6 DEF Opens

LEMMA EnsureSourceDoes ==
  ASSUME Typed, NEW o \in Ops, Starting(o), NEW r, Shaped(r), NEW name \in Names,
         EnsureSource(o, r, name), r.obj = current, r.gen = 0, r.req = None,
         (r.kind = "ensureSourceGroup" /\ r.group \in Names) \/ r.kind = "createSource"
  PROVE  Opens(o)
<1> DEFINE found == {s \in objs[current].sources : s.name = name}
           n == ops'[o]
<1>1. found \subseteq Source /\ current \in Objs
  BY DEF Typed, DataObject
<1>2. /\ OpsMove(o) /\ Shaped(n) /\ n.pc = "source" /\ Same(n, r, {"pc", "req", "res"})
      /\ n.res \in {None} \cup found
      /\ n.req = None \/ n.req = [call |-> "createSource", name |-> name]
  <2>1. CASE found = {}
    <3>1. Await(o, r, "source", [call |-> "createSource", name |-> name])
      BY <2>1 DEF EnsureSource
    <3> QED
      BY <3>1, AwaitStep
  <2>2. CASE found # {}
    <3>1. PICK s \in found : Becomes(o, [r EXCEPT !.pc = "source", !.res = s])
      BY <2>2 DEF EnsureSource
    <3> DEFINE x == [r EXCEPT !.pc = "source", !.res = s]
    <3>2. Shaped(x) /\ x.pc = "source" /\ x.res = s /\ Same(x, r, {"pc", "res"})
      BY SetFound
    <3>3. Becomes(o, x)
      BY <3>1
    <3> HIDE DEF x
    <3>4. OpsMove(o) /\ n = x
      BY <3>3, BecomesStep
    <3>5. Same(x, r, {"pc", "req", "res"}) /\ x.req = r.req
      BY <3>2 DEF Same, Fields
    <3> QED
      BY <3>1, <3>2, <3>4, <3>5
  <2> QED
    BY <2>1, <2>2
<1>3. /\ n.obj = r.obj /\ n.kind = r.kind /\ n.group = r.group /\ n.gen = r.gen
  BY <1>2 DEF Same, Fields
<1>4. n.res \in Source \cup Unanswered
  BY <1>1, <1>2 DEF Unanswered
<1>5. AtSource(n)
  BY <1>2, <1>3, <1>4 DEF AtSource
<1>6. Fits(n)
  BY <1>1, <1>2, <1>3, <1>5 DEF Fits
<1> QED
  BY <1>2, <1>3, <1>6 DEF Opens

LEMMA BeginDelete ==
  ASSUME NEW a, NEW v, NEW w
  PROVE  LET r == [Begin("delete") EXCEPT !.alert = a, !.keepTarget = v, !.keepSource = w] IN
         /\ Shaped(r) /\ r.kind = "delete" /\ r.obj = current /\ r.gen = 0 /\ r.alert = a
BY DEF Shaped, Begin, Idle, Fields

LEMMA StartDoes ==
  ASSUME Typed, NEW o \in Ops, Start(o)
  PROVE  Opens(o)
<1>0. /\ server.sources \subseteq Source /\ objs[current].alerts \subseteq Alert
      /\ current \in Objs /\ shown \in Pages
  BY DEF Typed, ServerState, DataObject
<1>1. CASE StartCreate(o)
  <2>1. PICK name \in Names, group \in Names, value \in Values, source \in server.sources :
          /\ Starts(o)
          /\ EnsureTargets(o, [Begin("create") EXCEPT !.name = name, !.group = group,
                                                      !.source = source.id], value)
    BY <1>1 DEF StartCreate
  <2> DEFINE b == Begin("create")
             r == [b EXCEPT !.name = name, !.group = group, !.source = source.id]
  <2>2. EnsureTargets(o, r, value)
    BY <2>1
  <2>3. source.id \in Nat
    BY <1>0 DEF Source
  <2>4. /\ Shaped(b) /\ b.kind = "create" /\ b.obj = current /\ b.gen = 0 /\ b.req = None
    BY BeginFacts
  <2> HIDE DEF b
  <2>5. /\ Shaped(r) /\ r.name = name /\ r.group = group /\ r.source = source.id
        /\ Same(r, b, {"name", "group", "source"})
    BY <2>4, SetCreate
  <2> HIDE DEF r
  <2>6. r.kind = b.kind /\ r.obj = b.obj /\ r.gen = b.gen /\ r.req = b.req
    BY <2>5 DEF Same, Fields
  <2> QED
    BY <2>1, <2>2, <2>3, <2>4, <2>5, <2>6, StartsStep, EnsureTargetsDoes DEF AboutCreate
<1>2. CASE StartUpdate(o)
  <2>1. PICK a \in objs[current].alerts, value \in Values :
          Starts(o) /\ EnsureTargets(o, [Begin("update") EXCEPT !.alert = a.id], value)
    BY <1>2 DEF StartUpdate
  <2> DEFINE b == Begin("update")
             r == [b EXCEPT !.alert = a.id]
  <2>2. EnsureTargets(o, r, value)
    BY <2>1
  <2>3. a.id \in Nat
    BY <1>0 DEF Alert
  <2>4. /\ Shaped(b) /\ b.kind = "update" /\ b.obj = current /\ b.gen = 0 /\ b.req = None
    BY BeginFacts
  <2> HIDE DEF b
  <2>5. Shaped(r) /\ r.alert = a.id /\ Same(r, b, {"alert"})
    BY <2>4, SetAlert
  <2> HIDE DEF r
  <2>6. r.kind = b.kind /\ r.obj = b.obj /\ r.gen = b.gen /\ r.req = b.req
    BY <2>5 DEF Same, Fields
  <2> QED
    BY <2>1, <2>2, <2>3, <2>4, <2>5, <2>6, StartsStep, EnsureTargetsDoes
<1>3. CASE StartEnsureTargetGroup(o)
  <2>1. PICK group \in Names, value \in Values :
          /\ Starts(o)
          /\ EnsureTargets(o, [Begin("ensureTargetGroup") EXCEPT !.group = group], value)
    BY <1>3 DEF StartEnsureTargetGroup
  <2> DEFINE b == Begin("ensureTargetGroup")
             r == [b EXCEPT !.group = group]
  <2>2. EnsureTargets(o, r, value)
    BY <2>1
  <2>4. /\ Shaped(b) /\ b.kind = "ensureTargetGroup" /\ b.obj = current /\ b.gen = 0
        /\ b.req = None
    BY BeginFacts
  <2> HIDE DEF b
  <2>5. Shaped(r) /\ r.group = group /\ Same(r, b, {"group"})
    BY <2>4, SetGroup
  <2> HIDE DEF r
  <2>6. r.kind = b.kind /\ r.obj = b.obj /\ r.gen = b.gen /\ r.req = b.req
    BY <2>5 DEF Same, Fields
  <2> QED
    BY <2>1, <2>2, <2>4, <2>5, <2>6, StartsStep, EnsureTargetsDoes DEF AboutGroup
<1>4. CASE StartEnsureSourceGroup(o)
  <2>1. PICK group \in Names, source \in Names :
          /\ Starts(o)
          /\ EnsureSource(o, [Begin("ensureSourceGroup") EXCEPT !.group = group], source)
    BY <1>4 DEF StartEnsureSourceGroup
  <2> DEFINE b == Begin("ensureSourceGroup")
             r == [b EXCEPT !.group = group]
  <2>2. EnsureSource(o, r, source)
    BY <2>1
  <2>4. /\ Shaped(b) /\ b.kind = "ensureSourceGroup" /\ b.obj = current /\ b.gen = 0
        /\ b.req = None
    BY BeginFacts
  <2> HIDE DEF b
  <2>5. Shaped(r) /\ r.group = group /\ Same(r, b, {"group"})
    BY <2>4, SetGroup
  <2> HIDE DEF r
  <2>6. r.kind = b.kind /\ r.obj = b.obj /\ r.gen = b.gen /\ r.req = b.req
    BY <2>5 DEF Same, Fields
  <2> QED
    BY <2>1, <2>2, <2>4, <2>5, <2>6, StartsStep, EnsureSourceDoes
<1>5. CASE StartCreateSource(o)
  <2>1. PICK source \in Names :
          Starts(o) /\ EnsureSource(o, Begin("createSource"), source)
    BY <1>5 DEF StartCreateSource
  <2> DEFINE r == Begin("createSource")
  <2>2. EnsureSource(o, r, source)
    BY <2>1
  <2>3. /\ Shaped(r) /\ r.kind = "createSource" /\ r.obj = current /\ r.gen = 0
        /\ r.req = None
    BY BeginFacts
  <2> HIDE DEF r
  <2> QED
    BY <2>1, <2>2, <2>3, StartsStep, EnsureSourceDoes
<1>6. CASE StartCreateDiscordTarget(o)
  <2> DEFINE r == Begin("createDiscordTarget")
             n == ops'[o]
  <2>1. Starts(o) /\ Await(o, r, "discord", [call |-> "createDiscordTarget"])
    BY <1>6 DEF StartCreateDiscordTarget
  <2>2. Shaped(r) /\ r.kind = "createDiscordTarget" /\ r.obj = current /\ r.gen = 0
    BY BeginFacts
  <2> HIDE DEF r
  <2>3. /\ OpsMove(o) /\ Shaped(n) /\ n.pc = "discord" /\ n.res = None
        /\ n.req = [call |-> "createDiscordTarget"] /\ Same(n, r, {"pc", "req", "res"})
    BY <2>1, <2>2, AwaitStep
  <2>4. n.kind = r.kind /\ n.obj = r.obj /\ n.gen = r.gen
    BY <2>3 DEF Same, Fields
  <2>5. AtDiscord(n)
    BY <2>2, <2>3, <2>4 DEF AtDiscord, Unanswered
  <2>6. Fits(n)
    BY <1>0, <2>2, <2>3, <2>4, <2>5 DEF Fits
  <2> QED
    BY <2>1, <2>2, <2>3, <2>4, <2>6, StartsStep DEF Opens
<1>7. CASE StartConnectWallet(o)
  <2> DEFINE b == Begin("connectWallet")
             r == [b EXCEPT !.obj = shown.obj, !.page = shown]
             n == ops'[o]
  <2>1. Starts(o) /\ Await(o, r, "wallet", [call |-> "connectWallet"])
    BY <1>7 DEF StartConnectWallet
  <2>2. Shaped(b) /\ b.kind = "connectWallet" /\ b.gen = 0
    BY BeginFacts
  <2> HIDE DEF b
  <2>3. Shaped(r) /\ r.obj = shown.obj /\ r.page = shown /\ Same(r, b, {"obj", "page"})
    BY <2>2, SetPage
  <2> HIDE DEF r
  <2>4. r.kind = b.kind /\ r.gen = b.gen
    BY <2>3 DEF Same, Fields
  <2>5. /\ OpsMove(o) /\ Shaped(n) /\ n.pc = "wallet" /\ n.res = None
        /\ n.req = [call |-> "connectWallet"] /\ Same(n, r, {"pc", "req", "res"})
    BY <2>1, <2>3, AwaitStep
  <2>6. n.kind = r.kind /\ n.obj = r.obj /\ n.gen = r.gen /\ n.page = r.page
    BY <2>5 DEF Same, Fields
  <2>7. AtWallet(n)
    BY <1>0, <2>2, <2>3, <2>4, <2>5, <2>6 DEF AtWallet, Unanswered
  <2>8. Fits(n)
    BY <1>0, <2>2, <2>3, <2>4, <2>5, <2>6, <2>7 DEF Fits, Pages
  <2> QED
    BY <2>1, <2>3, <2>5, <2>6, <2>8, StartsStep DEF Opens
<1>8. CASE StartDelete(o)
  <2>1. PICK a \in objs[current].alerts : \E v, w \in BOOLEAN :
          /\ Starts(o)
          /\ Await(o, [Begin("delete") EXCEPT !.alert = a, !.keepTarget = v,
                                              !.keepSource = w],
                   "deleteAlert", [call |-> "deleteAlert", id |-> a.id])
    BY <1>8, Zenon DEF StartDelete
  <2>2. PICK v, w :
          /\ Starts(o)
          /\ Await(o, [Begin("delete") EXCEPT !.alert = a, !.keepTarget = v,
                                              !.keepSource = w],
                   "deleteAlert", [call |-> "deleteAlert", id |-> a.id])
    BY <2>1, Zenon
  <2> DEFINE r == [Begin("delete") EXCEPT !.alert = a, !.keepTarget = v, !.keepSource = w]
             n == ops'[o]
  <2>3. Await(o, r, "deleteAlert", [call |-> "deleteAlert", id |-> a.id])
    BY <2>2
  <2>4. Shaped(r) /\ r.kind = "delete" /\ r.obj = current /\ r.gen = 0 /\ r.alert = a
    BY BeginDelete, Zenon
  <2> HIDE DEF r
  <2>6. /\ OpsMove(o) /\ Shaped(n) /\ n.pc = "deleteAlert" /\ n.res = None
        /\ n.req = [call |-> "deleteAlert", id |-> a.id]
        /\ Same(n, r, {"pc", "req", "res"})
    BY <2>3, <2>4, AwaitStep
  <2>7. n.kind = r.kind /\ n.obj = r.obj /\ n.gen = r.gen /\ n.alert = r.alert
    BY <2>6 DEF Same, Fields
  <2>8. AtDelete(n)
    BY <1>0, <2>4, <2>6, <2>7 DEF AtDelete, Deleting, Doomed, Unanswered
  <2>9. Fits(n)
    BY <1>0, <2>4, <2>6, <2>7, <2>8 DEF Fits
  <2> QED
    BY <2>2, <2>4, <2>6, <2>7, <2>9, StartsStep DEF Opens
<1> QED
  BY <1>1, <1>2, <1>3, <1>4, <1>5, <1>6, <1>7, <1>8 DEF Start

-----------------------------------------------------------------------------
(* What a step does to the data objects                                      *)

\* The data objects q are p, but for the fields in F of the object d.
Moved(q, p, d, F) ==
  /\ q \in [Objs -> DataObject]
  /\ \A e \in Objs \ {d} : q[e] = p[e]
  /\ \A f \in DataFields \ F : q[d][f] = p[d][f]

LEMMA PutType ==
  ASSUME NEW S, NEW array \in SUBSET S, NEW x \in S
  PROVE  Put(array, x) \in SUBSET S
BY DEF Put

LEMMA SetTargets ==
  ASSUME NEW p \in [Objs -> DataObject], NEW d \in Objs, NEW v \in SUBSET Target
  PROVE  LET q == [p EXCEPT ![d]["targets"] = v] IN
         Moved(q, p, d, {"targets"}) /\ q[d].targets = v
BY DEF Moved, DataObject, DataFields, Arrays

LEMMA SetDiscords ==
  ASSUME NEW p \in [Objs -> DataObject], NEW d \in Objs, NEW v \in SUBSET Plain
  PROVE  LET q == [p EXCEPT ![d]["discords"] = v] IN
         Moved(q, p, d, {"discords"}) /\ q[d].discords = v
BY DEF Moved, DataObject, DataFields, Arrays

LEMMA SetSources ==
  ASSUME NEW p \in [Objs -> DataObject], NEW d \in Objs, NEW v \in SUBSET Source
  PROVE  LET q == [p EXCEPT ![d]["sources"] = v] IN
         Moved(q, p, d, {"sources"}) /\ q[d].sources = v
BY DEF Moved, DataObject, DataFields, Arrays

LEMMA SetSgroups ==
  ASSUME NEW p \in [Objs -> DataObject], NEW d \in Objs, NEW v \in SUBSET SourceGroup
  PROVE  LET q == [p EXCEPT ![d]["sgroups"] = v] IN
         Moved(q, p, d, {"sgroups"}) /\ q[d].sgroups = v
BY DEF Moved, DataObject, DataFields, Arrays

LEMMA SetTgroups ==
  ASSUME NEW p \in [Objs -> DataObject], NEW d \in Objs, NEW v \in SUBSET TargetGroup
  PROVE  LET q == [p EXCEPT ![d]["tgroups"] = v] IN
         Moved(q, p, d, {"tgroups"}) /\ q[d].tgroups = v
BY DEF Moved, DataObject, DataFields, Arrays

LEMMA SetAlerts ==
  ASSUME NEW p \in [Objs -> DataObject], NEW d \in Objs, NEW v \in SUBSET Alert
  PROVE  LET q == [p EXCEPT ![d].alerts = v] IN
         Moved(q, p, d, {"alerts"}) /\ q[d].alerts = v
BY DEF Moved, DataObject, DataFields, Arrays

AlertDropped(q, p, d, v, n) == q = [p EXCEPT ![d].alerts = v, ![d].agen = n]

LEMMA DropAlert ==
  ASSUME NEW p \in [Objs -> DataObject], NEW d \in Objs, NEW v \in SUBSET Alert, NEW n \in Nat,
         NEW q, AlertDropped(q, p, d, v, n)
  PROVE  Moved(q, p, d, {"alerts", "agen"}) /\ q[d].alerts = v /\ q[d].agen = n
<1> DEFINE w == [p[d] EXCEPT !.alerts = v, !.agen = n]
<1>1. w \in DataObject /\ w.alerts = v /\ w.agen = n
  BY DEF DataObject
<1>2. \A f \in DataFields \ {"alerts", "agen"} : w[f] = p[d][f]
  BY DEF DataObject, DataFields, Arrays
<1>3. q = [p EXCEPT ![d] = w]
  BY DEF AlertDropped
<1> HIDE DEF w
<1>4. q \in [Objs -> DataObject] /\ q[d] = w /\ \A e \in Objs \ {d} : q[e] = p[e]
  BY <1>1, <1>3
<1> QED
  BY <1>1, <1>2, <1>4 DEF Moved

TgroupDropped(q, p, d, v, n) == q = [p EXCEPT ![d].tgroups = v, ![d].tgen = n]

LEMMA DropTgroup ==
  ASSUME NEW p \in [Objs -> DataObject], NEW d \in Objs, NEW v \in SUBSET TargetGroup,
         NEW n \in Nat,
         NEW q, TgroupDropped(q, p, d, v, n)
  PROVE  Moved(q, p, d, {"tgroups", "tgen"}) /\ q[d].tgroups = v /\ q[d].tgen = n
<1> DEFINE w == [p[d] EXCEPT !.tgroups = v, !.tgen = n]
<1>1. w \in DataObject /\ w.tgroups = v /\ w.tgen = n
  BY DEF DataObject
<1>2. \A f \in DataFields \ {"tgroups", "tgen"} : w[f] = p[d][f]
  BY DEF DataObject, DataFields, Arrays
<1>3. q = [p EXCEPT ![d] = w]
  BY DEF TgroupDropped
<1> HIDE DEF w
<1>4. q \in [Objs -> DataObject] /\ q[d] = w /\ \A e \in Objs \ {d} : q[e] = p[e]
  BY <1>1, <1>3
<1> QED
  BY <1>1, <1>2, <1>4 DEF Moved

SgroupDropped(q, p, d, v, n) == q = [p EXCEPT ![d].sgroups = v, ![d].sgen = n]

LEMMA DropSgroup ==
  ASSUME NEW p \in [Objs -> DataObject], NEW d \in Objs, NEW v \in SUBSET SourceGroup,
         NEW n \in Nat,
         NEW q, SgroupDropped(q, p, d, v, n)
  PROVE  Moved(q, p, d, {"sgroups", "sgen"}) /\ q[d].sgroups = v /\ q[d].sgen = n
<1> DEFINE w == [p[d] EXCEPT !.sgroups = v, !.sgen = n]
<1>1. w \in DataObject /\ w.sgroups = v /\ w.sgen = n
  BY DEF DataObject
<1>2. \A f \in DataFields \ {"sgroups", "sgen"} : w[f] = p[d][f]
  BY DEF DataObject, DataFields, Arrays
<1>3. q = [p EXCEPT ![d] = w]
  BY DEF SgroupDropped
<1> HIDE DEF w
<1>4. q \in [Objs -> DataObject] /\ q[d] = w /\ \A e \in Objs \ {d} : q[e] = p[e]
  BY <1>1, <1>3
<1> QED
  BY <1>1, <1>2, <1>4 DEF Moved

LEMMA MovedMoved ==
  ASSUME NEW q, NEW p, NEW s, NEW d, NEW F, NEW G, Moved(q, p, d, F), Moved(p, s, d, G)
  PROVE  Moved(q, s, d, F \cup G)
BY DEF Moved

-----------------------------------------------------------------------------
(* Continuing an operation                                                   *)

\* The page is told what the data object of o has by now.
Tells(o) ==
  /\ shown' \in Pages /\ shown'.obj = ops[o].obj
  /\ shown'.gen = objs'[ops[o].obj].agen /\ shown'.wallets = objs'[ops[o].obj].wallets

LEMMA FinishDoes ==
  ASSUME Typed, NEW o \in Ops, objs' \in [Objs -> DataObject], Finish(o)
  PROVE  OpsMove(o) /\ ops'[o] = Idle /\ Tells(o)
<1>1. OpsMove(o) /\ ops'[o] = Idle
  BY BecomesStep DEF Finish
<1>2. ops[o].obj \in Objs
  BY DEF Typed, Fits
<1>3. shown' = Page(ops[o].obj, FALSE)
  BY DEF Finish
<1>4. objs'[ops[o].obj].agen \in Nat /\ objs'[ops[o].obj].wallets \subseteq Plain
  BY <1>2 DEF DataObject
<1> QED
  BY <1>1, <1>2, <1>3, <1>4 DEF Tells, Page, Pages

LEMMA FinishSameDoes ==
  ASSUME Typed, NEW o \in Ops, objs' \in [Objs -> DataObject], FinishSame(o)
  PROVE  OpsMove(o) /\ ops'[o] = Idle /\ (shown' = shown \/ Tells(o))
<1>1. OpsMove(o) /\ ops'[o] = Idle
  BY BecomesStep DEF FinishSame
<1>2. ops[o].obj \in Objs
  BY DEF Typed, Fits
<1>3. shown' = shown \/ shown' = Page(ops[o].obj, TRUE)
  BY DEF FinishSame
<1>4. objs'[ops[o].obj].agen \in Nat /\ objs'[ops[o].obj].wallets \subseteq Plain
  BY <1>2 DEF DataObject
<1>5. shown' = Page(ops[o].obj, TRUE) => Tells(o)
  BY <1>2, <1>4 DEF Tells, Page, Pages
<1> QED
  BY <1>1, <1>3, <1>5

\* The reply has been stored; o goes on with its next request, or it ends.
Goes(o) ==
  /\ OpsMove(o) /\ Fits(ops'[o]) /\ ops'[o].res = None
  /\ \/ ops'[o] = Idle
     \/ ops'[o].obj = ops[o].obj /\ ops'[o].kind = ops[o].kind
  /\ shown' = shown \/ Tells(o)
  /\ UNCHANGED <<server, stamp, current, mishaps, started>>

\* What the next request of an ensure helper was made from.
NextSourceGroup(n) == n.pc = "sourceGroup" /\ n.gen = objs[n.obj].sgen
NextTargetGroup(n) ==
  n.pc = "targetGroup" /\ n.gen = objs[n.obj].tgen /\ n.req.id \in Found(objs[n.obj].tgroups, n.group)

LEMMA AfterTargetsDoes ==
  ASSUME Typed, NEW o \in Ops, AfterTargets(o)
  PROVE  LET r == ops[o]
             n == ops'[o]
         IN
         /\ Pending(r, "targets") /\ r.res \in Target /\ Goes(o) /\ UNCHANGED shown
         /\ Moved(objs', objs, r.obj, {"targets"})
         /\ objs'[r.obj].targets = Put(objs[r.obj].targets, r.res)
         /\ \/ n = Idle
            \/ /\ n.kind = "create" /\ NextSourceGroup(n)
               /\ \A a \in objs[r.obj].alerts : a.name # n.name
            \/ n.kind = "update" /\ NextTargetGroup(n) /\ n.alert \in objs[r.obj].alerts
            \/ n.kind = "ensureTargetGroup" /\ NextTargetGroup(n)
<1> DEFINE r == ops[o]
           t == r.res
           x == [r EXCEPT !.target = t.id]
           n == ops'[o]
           withId == {a \in objs[r.obj].alerts : a.id = r.alert}
<1>0. /\ Fits(r) /\ r.pc = "targets" /\ r.res \notin Unanswered
      /\ UNCHANGED <<server, stamp, current, shown, mishaps, started>>
  BY DEF Typed, AfterTargets, Answered, Unanswered
<1>1. Shaped(r) /\ AtTargets(r) /\ r.obj \in Objs
  BY <1>0, Phases
<1>2. t \in Target /\ t.id \in Nat
  BY <1>0, <1>1 DEF AtTargets, Target
<1>3. objs' = [objs EXCEPT ![r.obj]["targets"] = Put(objs[r.obj]["targets"], t)]
  <2>1. x.obj = r.obj
    BY <1>1, SetTarget DEF Same, Fields
  <2> QED
    BY <2>1 DEF AfterTargets, Remember
<1>4. /\ objs \in [Objs -> DataObject] /\ objs[r.obj].targets \in SUBSET Target
      /\ objs[r.obj].alerts \subseteq Alert
  BY <1>1 DEF Typed, DataObject
<1> DEFINE v == Put(objs[r.obj]["targets"], t)
<1>5. v \in SUBSET Target
  BY <1>2, <1>4, PutType
<1> HIDE DEF v
<1>6. Moved(objs', objs, r.obj, {"targets"}) /\ objs'[r.obj].targets = v
  <2>1. objs' = [objs EXCEPT ![r.obj]["targets"] = v]
    BY <1>3 DEF v
  <2> QED
    BY <2>1, <1>1, <1>4, <1>5, SetTargets
<1>7. /\ Shaped(x) /\ x.target = t.id /\ Same(x, r, {"target"})
  BY <1>1, SetTarget
<1>8. \/ r.kind = "create" /\ Throws(o) /\ Becomes(o, Idle)
      \/ r.kind = "create" /\ ~Throws(o) /\ EnsureSourceGroup(o, x)
      \/ r.kind = "update" /\ Becomes(o, Idle)
      \/ /\ r.kind = "update"
         /\ \E a \in withId :
              EnsureTargetGroup(o, [x EXCEPT !.alert = a, !.group = a.tgroup.name])
      \/ r.kind = "ensureTargetGroup" /\ EnsureTargetGroup(o, x)
  <2>1. x.kind = r.kind
    BY <1>7 DEF Same, Fields
  <2> HIDE DEF r
  <2> QED
    BY <2>1 DEF AfterTargets, Data, r
<1> HIDE DEF x
<1>9. /\ x.obj = r.obj /\ x.kind = r.kind /\ x.name = r.name /\ x.group = r.group
      /\ x.source = r.source
  BY <1>7 DEF Same, Fields
<1>10. Pending(r, "targets") /\ objs'[r.obj].targets = Put(objs[r.obj].targets, r.res)
  BY <1>0, <1>6 DEF Pending, v
<1>11. CASE Becomes(o, Idle)
  <2>1. OpsMove(o) /\ n = Idle
    BY <1>11, BecomesStep
  <2> QED
    BY <2>1, <1>0, <1>2, <1>6, <1>10, IdleFacts DEF Goes
<1>12. CASE r.kind = "create" /\ ~Throws(o) /\ EnsureSourceGroup(o, x)
  <2>1. AsksSourceGroup(o, x)
    BY <1>7, <1>12, EnsureSourceGroupDoes
  <2>2. AboutCreate(x) /\ x.source \in Nat /\ x.target \in Nat
    BY <1>1, <1>2, <1>7, <1>9, <1>12 DEF AtTargets, AboutCreate, AboutGroup
  <2>3. Fits(n)
    BY <2>1, <2>2, <1>1, <1>9, AsksSourceGroupFits DEF AboutCreate
  <2>4. n.obj = r.obj /\ n.kind = r.kind /\ n.name = r.name
    BY <2>1, <1>9 DEF AsksSourceGroup, Same, Fields
  <2>5. \A a \in objs[r.obj].alerts : a.name # n.name
    BY <2>4, <1>12 DEF Throws, Data
  <2>6. NextSourceGroup(n)
    BY <2>1, <2>4, <1>9 DEF NextSourceGroup, AsksSourceGroup
  <2>7. Goes(o)
    BY <2>1, <2>3, <2>4, <1>0 DEF Goes, AsksSourceGroup
  <2> QED
    BY <2>4, <2>5, <2>6, <2>7, <1>0, <1>2, <1>6, <1>10, <1>12
<1>13. CASE r.kind = "update" /\ \E a \in withId :
              EnsureTargetGroup(o, [x EXCEPT !.alert = a, !.group = a.tgroup.name])
  <2>1. PICK a \in withId :
          EnsureTargetGroup(o, [x EXCEPT !.alert = a, !.group = a.tgroup.name])
    BY <1>13
  <2> DEFINE y == [x EXCEPT !.alert = a, !.group = a.tgroup.name]
  <2>2. /\ Shaped(y) /\ y.alert = a /\ y.group = a.tgroup.name
        /\ Same(y, x, {"alert", "group"})
    BY <1>7, SetAlertGroup
  <2>3. EnsureTargetGroup(o, y)
    BY <2>1
  <2> HIDE DEF y
  <2>4. AsksTargetGroup(o, y)
    BY <2>2, <2>3, EnsureTargetGroupDoes
  <2>5. a \in Alert /\ a.tgroup.name \in Names /\ a \in objs[r.obj].alerts
    BY <1>4 DEF Alert, TargetGroup
  <2>6. y.kind = x.kind /\ y.obj = x.obj /\ y.target = x.target
    BY <2>2 DEF Same, Fields
  <2>7. Fits(n)
    BY <2>2, <2>4, <2>5, <2>6, <1>1, <1>2, <1>7, <1>9, <1>13, AsksTargetGroupFits
  <2>8. n.obj = y.obj /\ n.kind = y.kind /\ n.alert = y.alert /\ n.group = y.group
    BY <2>4 DEF AsksTargetGroup, Same, Fields
  <2>9. NextTargetGroup(n)
    BY <2>4, <2>6, <2>8, <1>9 DEF NextTargetGroup, AsksTargetGroup
  <2>10. Goes(o)
    BY <2>4, <2>6, <2>7, <2>8, <1>0, <1>9 DEF Goes, AsksTargetGroup
  <2> QED
    BY <2>2, <2>5, <2>6, <2>8, <2>9, <2>10, <1>0, <1>2, <1>6, <1>9, <1>10, <1>13
<1>14. CASE r.kind = "ensureTargetGroup" /\ EnsureTargetGroup(o, x)
  <2>1. AsksTargetGroup(o, x)
    BY <1>7, <1>14, EnsureTargetGroupDoes
  <2>2. AboutGroup(x) /\ x.target \in Nat /\ x.group \in Names
    BY <1>1, <1>2, <1>7, <1>9, <1>14 DEF AtTargets, AboutCreate, AboutGroup
  <2>3. Fits(n)
    BY <2>1, <2>2, <1>1, <1>9, AsksTargetGroupFits
  <2>4. n.obj = r.obj /\ n.kind = r.kind /\ n.group = x.group
    BY <2>1, <1>9 DEF AsksTargetGroup, Same, Fields
  <2>6. NextTargetGroup(n)
    BY <2>1, <2>4, <1>9 DEF NextTargetGroup, AsksTargetGroup
  <2>7. Goes(o)
    BY <2>1, <2>3, <2>4, <1>0 DEF Goes, AsksTargetGroup
  <2> QED
    BY <2>4, <2>6, <2>7, <1>0, <1>2, <1>6, <1>10, <1>14
<1> QED
  BY <1>8, <1>11, <1>12, <1>13, <1>14

LEMMA AfterSourceDoes ==
  ASSUME Typed, NEW o \in Ops, AfterSource(o)
  PROVE  LET r == ops[o]
             n == ops'[o]
         IN
         /\ Pending(r, "source") /\ r.res \in Source /\ Goes(o)
         /\ Moved(objs', objs, r.obj, {"sources"})
         /\ objs'[r.obj].sources = Put(objs[r.obj].sources, r.res)
         /\ \/ n = Idle
            \/ n.kind = "ensureSourceGroup" /\ NextSourceGroup(n) /\ UNCHANGED shown
<1> DEFINE r == ops[o]
           s == r.res
           x == [r EXCEPT !.source = s.id]
           n == ops'[o]
           v == Put(objs[r.obj]["sources"], s)
<1>0. /\ Fits(r) /\ r.pc = "source" /\ r.res \notin Unanswered
      /\ UNCHANGED <<server, stamp, current, mishaps, started>>
  BY DEF Typed, AfterSource, Answered, Unanswered
<1>1. Shaped(r) /\ AtSource(r) /\ r.obj \in Objs
  BY <1>0, Phases
<1>2. s \in Source /\ s.id \in Nat
  BY <1>0, <1>1 DEF AtSource, Source
<1>3. objs' = [objs EXCEPT ![r.obj]["sources"] = Put(objs[r.obj]["sources"], s)]
  BY DEF AfterSource, Remember
<1>4. objs \in [Objs -> DataObject] /\ objs[r.obj].sources \in SUBSET Source
  BY <1>1 DEF Typed, DataObject
<1>5. v \in SUBSET Source
  BY <1>2, <1>4, PutType
<1> HIDE DEF v
<1>6. Moved(objs', objs, r.obj, {"sources"}) /\ objs'[r.obj].sources = v
  <2>1. objs' = [objs EXCEPT ![r.obj]["sources"] = v]
    BY <1>3 DEF v
  <2> QED
    BY <2>1, <1>1, <1>4, <1>5, SetSources
<1>7. Pending(r, "source") /\ objs'[r.obj].sources = Put(objs[r.obj].sources, r.res)
  BY <1>0, <1>6 DEF Pending, v
<1>8. Shaped(x) /\ x.source = s.id /\ Same(x, r, {"source"})
  BY <1>1, SetSource
<1>9. \/ r.kind = "ensureSourceGroup" /\ EnsureSourceGroup(o, x) /\ UNCHANGED shown
      \/ FinishSame(o)
  BY DEF AfterSource
<1> HIDE DEF x
<1>10. CASE r.kind = "ensureSourceGroup" /\ EnsureSourceGroup(o, x) /\ UNCHANGED shown
  <2>1. AsksSourceGroup(o, x)
    BY <1>8, <1>10, EnsureSourceGroupDoes
  <2>2. x.obj = r.obj /\ x.kind = r.kind /\ x.group = r.group
    BY <1>8 DEF Same, Fields
  <2>3. x.group \in Names /\ x.source \in Nat
    BY <2>2, <1>1, <1>2, <1>8, <1>10 DEF AtSource
  <2>4. Fits(n)
    BY <2>1, <2>2, <2>3, <1>1, <1>10, AsksSourceGroupFits
  <2>5. n.obj = r.obj /\ n.kind = r.kind
    BY <2>1, <2>2 DEF AsksSourceGroup, Same, Fields
  <2>6. NextSourceGroup(n)
    BY <2>1, <2>2, <2>5 DEF NextSourceGroup, AsksSourceGroup
  <2>7. Goes(o)
    BY <2>1, <2>4, <2>5, <1>0, <1>10 DEF Goes, AsksSourceGroup
  <2> QED
    BY <2>5, <2>6, <2>7, <1>2, <1>6, <1>7, <1>10
<1>11. CASE FinishSame(o)
  <2>1. objs' \in [Objs -> DataObject]
    BY <1>6 DEF Moved
  <2>2. OpsMove(o) /\ n = Idle /\ (shown' = shown \/ Tells(o))
    BY <2>1, <1>11, FinishSameDoes
  <2>3. Goes(o)
    BY <2>2, <1>0, IdleFacts DEF Goes
  <2> QED
    BY <2>2, <2>3, <1>2, <1>6, <1>7
<1> QED
  BY <1>9, <1>10, <1>11

LEMMA AfterDiscordTargetDoes ==
  ASSUME Typed, NEW o \in Ops, AfterDiscordTarget(o)
  PROVE  LET r == ops[o] IN
         /\ Pending(r, "discord") /\ r.res \in Plain /\ Goes(o) /\ UNCHANGED shown
         /\ Moved(objs', objs, r.obj, {"discords"})
         /\ objs'[r.obj].discords = Put(objs[r.obj].discords, r.res)
         /\ ops'[o] = Idle
<1> DEFINE r == ops[o]
           v == Put(objs[r.obj]["discords"], r.res)
<1>0. /\ Fits(r) /\ r.pc = "discord" /\ r.res \notin Unanswered /\ Becomes(o, Idle)
      /\ UNCHANGED <<server, stamp, current, shown, mishaps, started>>
  BY DEF Typed, AfterDiscordTarget, Answered, Unanswered
<1>1. AtDiscord(r) /\ r.obj \in Objs
  BY <1>0, Phases
<1>2. r.res \in Plain
  BY <1>0, <1>1 DEF AtDiscord
<1>3. objs' = [objs EXCEPT ![r.obj]["discords"] = Put(objs[r.obj]["discords"], r.res)]
  BY DEF AfterDiscordTarget, Remember
<1>4. objs \in [Objs -> DataObject] /\ objs[r.obj].discords \in SUBSET Plain
  BY <1>1 DEF Typed, DataObject
<1>5. v \in SUBSET Plain
  BY <1>2, <1>4, PutType
<1> HIDE DEF v
<1>6. Moved(objs', objs, r.obj, {"discords"}) /\ objs'[r.obj].discords = v
  <2>1. objs' = [objs EXCEPT ![r.obj]["discords"] = v]
    BY <1>3 DEF v
  <2> QED
    BY <2>1, <1>1, <1>4, <1>5, SetDiscords
<1>7. OpsMove(o) /\ ops'[o] = Idle
  BY <1>0, BecomesStep
<1>8. Goes(o)
  BY <1>0, <1>7, IdleFacts DEF Goes
<1> QED
  BY <1>0, <1>2, <1>6, <1>7, <1>8 DEF Pending, v

LEMMA AfterConnectWalletDoes ==
  ASSUME Typed, NEW o \in Ops, AfterConnectWallet(o)
  PROVE  LET r == ops[o] IN
         /\ Pending(r, "wallet") /\ r.res \in Plain /\ r.page \in Pages
         /\ OpsMove(o) /\ ops'[o] = Idle /\ shown' \in Pages /\ shown'.obj = r.page.obj
         /\ shown'.gen = IF r.page.same THEN objs[r.page.obj].agen ELSE r.page.gen
         /\ shown'.wallets = r.page.wallets \cup {r.res}
         /\ mishaps' = IF r.page = shown THEN mishaps ELSE mishaps \cup {"rewound"}
         /\ UNCHANGED <<server, stamp, objs, current, started>>
<1> DEFINE r == ops[o]
           p == r.page
<1>0. /\ Fits(r) /\ r.pc = "wallet" /\ r.res \notin Unanswered /\ Becomes(o, Idle)
      /\ shown' = WithWallet(o)
      /\ mishaps' = IF r.page = shown THEN mishaps ELSE mishaps \cup {"rewound"}
      /\ UNCHANGED <<server, stamp, objs, current, started>>
  BY DEF Typed, AfterConnectWallet, Answered, Unanswered
<1>1. r.res \in Plain /\ p \in Pages
  BY <1>0, Phases DEF AtWallet
<1>2. p.obj \in Objs /\ p.gen \in Nat /\ p.wallets \subseteq Plain
  BY <1>1 DEF Pages
<1>3. objs[p.obj].agen \in Nat
  BY <1>2 DEF Typed, DataObject
<1>4. /\ shown' \in Pages /\ shown'.obj = p.obj
      /\ shown'.gen = IF p.same THEN objs[p.obj].agen ELSE p.gen
      /\ shown'.wallets = p.wallets \cup {r.res}
  <2> DEFINE gen == IF p.same THEN objs[p.obj].agen ELSE p.gen
             wallets == p.wallets \cup {r.res}
  <2>1. gen \in Nat /\ wallets \subseteq Plain
    BY <1>1, <1>2, <1>3
  <2>2. shown' = [obj |-> p.obj, same |-> FALSE, gen |-> gen, wallets |-> wallets]
    BY <1>0 DEF WithWallet
  <2> HIDE DEF gen, wallets
  <2>3. /\ shown' \in Pages /\ shown'.obj = p.obj /\ shown'.gen = gen
        /\ shown'.wallets = wallets
    BY <2>1, <2>2, <1>2 DEF Pages
  <2> QED
    BY <2>3 DEF gen, wallets
<1>5. OpsMove(o) /\ ops'[o] = Idle
  BY <1>0, BecomesStep
<1> QED
  BY <1>0, <1>1, <1>4, <1>5 DEF Pending

LEMMA AfterSourceGroupDoes ==
  ASSUME Typed, NEW o \in Ops, AfterSourceGroup(o)
  PROVE  LET r == ops[o]
             n == ops'[o]
         IN
         /\ Pending(r, "sourceGroup") /\ r.res \in SourceGroup /\ Goes(o)
         /\ Moved(objs', objs, r.obj, {"sgroups"})
         /\ objs'[r.obj].sgroups = IF objs[r.obj].sgen = r.gen THEN Put(objs[r.obj].sgroups, r.res)
                                   ELSE objs[r.obj].sgroups
         /\ \/ n = Idle
            \/ n.kind = "create" /\ NextTargetGroup(n) /\ n.name = r.name /\ UNCHANGED shown
<1> DEFINE r == ops[o]
           g == r.res
           x == [r EXCEPT !.source = g.id]
           n == ops'[o]
           v == Put(objs[r.obj]["sgroups"], g)
<1>0. /\ Fits(r) /\ r.pc = "sourceGroup" /\ r.res \notin Unanswered
      /\ UNCHANGED <<server, stamp, current, mishaps, started>>
  BY DEF Typed, AfterSourceGroup, Answered, Unanswered
<1>1. Shaped(r) /\ AtSourceGroup(r) /\ r.obj \in Objs
  BY <1>0, Phases
<1>2. g \in SourceGroup /\ g.id \in Nat
  BY <1>0, <1>1 DEF AtSourceGroup, SourceGroup
<1>3. objs' = IF objs[r.obj].sgen = r.gen
              THEN [objs EXCEPT ![r.obj]["sgroups"] = Put(objs[r.obj]["sgroups"], g)] ELSE objs
  BY DEF AfterSourceGroup, Remember, Data
<1>4. objs \in [Objs -> DataObject] /\ objs[r.obj].sgroups \in SUBSET SourceGroup
  BY <1>1 DEF Typed, DataObject
<1>5. v \in SUBSET SourceGroup
  BY <1>2, <1>4, PutType
<1> HIDE DEF v
<1>6. /\ Moved(objs', objs, r.obj, {"sgroups"})
      /\ objs'[r.obj].sgroups = IF objs[r.obj].sgen = r.gen THEN v ELSE objs[r.obj].sgroups
  <2>1. CASE objs[r.obj].sgen = r.gen
    <3>1. objs' = [objs EXCEPT ![r.obj]["sgroups"] = v]
      BY <2>1, <1>3 DEF v
    <3> QED
      BY <3>1, <2>1, <1>1, <1>4, <1>5, SetSgroups
  <2>2. CASE objs[r.obj].sgen # r.gen
    BY <2>2, <1>3, <1>4 DEF Moved
  <2> QED
    BY <2>1, <2>2
<1>7. /\ Pending(r, "sourceGroup")
      /\ objs'[r.obj].sgroups = IF objs[r.obj].sgen = r.gen THEN Put(objs[r.obj].sgroups, r.res)
                                ELSE objs[r.obj].sgroups
  BY <1>0, <1>6 DEF Pending, v
<1>8. Shaped(x) /\ x.source = g.id /\ Same(x, r, {"source"})
  BY <1>1, SetSource
<1>9. \/ r.kind = "create" /\ EnsureTargetGroup(o, x) /\ UNCHANGED shown
      \/ FinishSame(o)
  BY DEF AfterSourceGroup
<1> HIDE DEF x
<1>10. CASE r.kind = "create" /\ EnsureTargetGroup(o, x) /\ UNCHANGED shown
  <2>1. AsksTargetGroup(o, x)
    BY <1>8, <1>10, EnsureTargetGroupDoes
  <2>2. /\ x.obj = r.obj /\ x.kind = r.kind /\ x.name = r.name /\ x.group = r.group
        /\ x.target = r.target
    BY <1>8 DEF Same, Fields
  <2>3. AboutCreate(x) /\ x.source \in Nat /\ x.target \in Nat /\ x.group \in Names
    BY <2>2, <1>1, <1>2, <1>8, <1>10 DEF AtSourceGroup, AboutCreate
  <2>4. Fits(n)
    BY <2>1, <2>2, <2>3, <1>1, AsksTargetGroupFits
  <2>5. n.obj = r.obj /\ n.kind = r.kind /\ n.name = r.name /\ n.group = x.group
    BY <2>1, <2>2 DEF AsksTargetGroup, Same, Fields
  <2>6. NextTargetGroup(n)
    BY <2>1, <2>2, <2>5 DEF NextTargetGroup, AsksTargetGroup
  <2>7. Goes(o)
    BY <2>1, <2>4, <2>5, <1>0, <1>10 DEF Goes, AsksTargetGroup
  <2> QED
    BY <2>5, <2>6, <2>7, <1>2, <1>6, <1>7, <1>10
<1>11. CASE FinishSame(o)
  <2>1. objs' \in [Objs -> DataObject]
    BY <1>6 DEF Moved
  <2>2. OpsMove(o) /\ n = Idle /\ (shown' = shown \/ Tells(o))
    BY <2>1, <1>11, FinishSameDoes
  <2>3. Goes(o)
    BY <2>2, <1>0, IdleFacts DEF Goes
  <2> QED
    BY <2>2, <2>3, <1>2, <1>6, <1>7
<1> QED
  BY <1>9, <1>10, <1>11

\* The alert of an update, with the target group that was ensured.
WithGroup(a, g) == [a EXCEPT !.tgroup = g]

LEMMA WithGroupFacts ==
  ASSUME NEW a \in Alert, NEW g \in TargetGroup
  PROVE  /\ WithGroup(a, g) \in Alert /\ WithGroup(a, g).id = a.id
         /\ WithGroup(a, g).name = a.name /\ WithGroup(a, g).sgroup = a.sgroup
         /\ WithGroup(a, g).tgroup = g
BY DEF WithGroup, Alert

LEMMA EmbedFacts ==
  ASSUME NEW a \in ServerAlert, NEW g \in TargetGroup
  PROVE  /\ Embed(a, g) \in Alert /\ Embed(a, g).id = a.id /\ Embed(a, g).name = a.name
         /\ Embed(a, g).sgroup = a.sgroup /\ Embed(a, g).tgroup = g
BY DEF Embed, Alert, ServerAlert

LEMMA AfterTargetGroupDoes ==
  ASSUME Typed, NEW o \in Ops, AfterTargetGroup(o)
  PROVE  LET r == ops[o]
             n == ops'[o]
         IN
         /\ Pending(r, "targetGroup") /\ r.res \in TargetGroup /\ Goes(o)
         /\ Moved(objs', objs, r.obj, {"tgroups", "alerts"})
         /\ objs'[r.obj].tgroups = IF objs[r.obj].tgen = r.gen THEN Put(objs[r.obj].tgroups, r.res)
                                   ELSE objs[r.obj].tgroups
         /\ objs'[r.obj].alerts =
              IF r.kind = "update"
              THEN Replace(objs[r.obj].alerts, r.alert, WithGroup(r.alert, r.res))
              ELSE objs[r.obj].alerts
         /\ IF r.kind = "create"
            THEN /\ n.pc = "alert" /\ n.kind = "create" /\ n.name = r.name
                 /\ n.alert = r.res /\ UNCHANGED shown
            ELSE n = Idle
<1> DEFINE r == ops[o]
           g == r.res
           x == [r EXCEPT !.alert = g]
           n == ops'[o]
           v == Put(objs[r.obj]["tgroups"], g)
           p == IF objs[r.obj].tgen = r.gen THEN [objs EXCEPT ![r.obj]["tgroups"] = v] ELSE objs
           w == Replace(objs[r.obj].alerts, r.alert, WithGroup(r.alert, g))
<1>0. /\ Fits(r) /\ r.pc = "targetGroup" /\ r.res \notin Unanswered
      /\ UNCHANGED <<server, stamp, current, mishaps, started>>
  BY DEF Typed, AfterTargetGroup, Answered, Unanswered
<1>1. Shaped(r) /\ AtTargetGroup(r) /\ r.obj \in Objs
  BY <1>0, Phases
<1>2. g \in TargetGroup /\ g.id \in Nat
  BY <1>0, <1>1 DEF AtTargetGroup, TargetGroup
<1>3. \/ /\ r.kind = "create" /\ objs' = p /\ UNCHANGED shown
         /\ Await(o, x, "alert", [call |-> "createAlert", name |-> r.name,
                                  sgroup |-> r.source, tgroup |-> g.id])
      \/ /\ r.kind = "update"
         /\ objs' = [p EXCEPT ![r.obj].alerts = Replace(p[r.obj].alerts, r.alert, WithGroup(r.alert, g))]
         /\ Finish(o)
      \/ r.kind = "ensureTargetGroup" /\ objs' = p /\ FinishSame(o)
  BY DEF AfterTargetGroup, Remember, Data, WithGroup
<1>4. /\ objs \in [Objs -> DataObject] /\ objs[r.obj].tgroups \in SUBSET TargetGroup
      /\ objs[r.obj].alerts \in SUBSET Alert
  BY <1>1 DEF Typed, DataObject
<1>5. v \in SUBSET TargetGroup
  BY <1>2, <1>4, PutType
<1>6. /\ Moved(p, objs, r.obj, {"tgroups"})
      /\ p[r.obj].tgroups = IF objs[r.obj].tgen = r.gen THEN Put(objs[r.obj].tgroups, g)
                            ELSE objs[r.obj].tgroups
  <2> HIDE DEF v
  <2>1. CASE objs[r.obj].tgen = r.gen
    <3> DEFINE y == [objs EXCEPT ![r.obj]["tgroups"] = v]
    <3>1. Moved(y, objs, r.obj, {"tgroups"}) /\ y[r.obj].tgroups = v
      BY <1>1, <1>4, <1>5, SetTgroups
    <3>2. p = y
      BY <2>1
    <3> HIDE DEF y, p
    <3> QED
      BY <2>1, <3>1, <3>2 DEF v
  <2>2. CASE objs[r.obj].tgen # r.gen
    BY <2>2, <1>4 DEF Moved
  <2> QED
    BY <2>1, <2>2
<1>7. Shaped(x) /\ x.alert = g /\ Same(x, r, {"alert"})
  BY <1>1, SetAlert
<1> HIDE DEF x, p
<1>8. p \in [Objs -> DataObject] /\ p[r.obj].alerts = objs[r.obj].alerts
  BY <1>6 DEF Moved, DataFields
<1>9. Pending(r, "targetGroup")
  BY <1>0 DEF Pending
<1>10. CASE /\ r.kind = "create" /\ objs' = p /\ UNCHANGED shown
            /\ Await(o, x, "alert", [call |-> "createAlert", name |-> r.name,
                                     sgroup |-> r.source, tgroup |-> g.id])
  <2> DEFINE req == [call |-> "createAlert", name |-> r.name, sgroup |-> r.source,
                     tgroup |-> g.id]
  <2>1. Await(o, x, "alert", req)
    BY <1>10
  <2>2. /\ x.obj = r.obj /\ x.kind = r.kind /\ x.name = r.name /\ x.group = r.group
        /\ x.source = r.source /\ x.gen = r.gen
    BY <1>7 DEF Same, Fields
  <2> HIDE DEF req
  <2>3. /\ OpsMove(o) /\ Shaped(n) /\ n.pc = "alert" /\ n.req = req /\ n.res = None
        /\ Same(n, x, {"pc", "req", "res"})
    BY <2>1, <1>7, AwaitStep
  <2>4. /\ n.obj = x.obj /\ n.kind = x.kind /\ n.name = x.name /\ n.group = x.group
        /\ n.source = x.source /\ n.alert = x.alert /\ n.gen = x.gen
    BY <2>3 DEF Same, Fields
  <2>5. AboutCreate(r) /\ r.source \in Nat
    BY <1>1, <1>10 DEF AtTargetGroup, AboutGroup
  <2>6. n.res \notin ServerAlert /\ n.res \in Unanswered
    BY <2>3, NoneAssumption DEF Unanswered
  <2>7. AtAlert(n)
    BY <2>2, <2>3, <2>4, <2>5, <2>6, <1>2, <1>7 DEF AtAlert, AboutCreate, req
  <2>8. Fits(n)
    BY <2>2, <2>3, <2>4, <2>7, <1>0, <1>1 DEF Fits
  <2>9. Goes(o)
    BY <2>2, <2>3, <2>4, <2>8, <1>0, <1>10 DEF Goes
  <2>10. Moved(objs', objs, r.obj, {"tgroups", "alerts"})
    BY <1>6, <1>10 DEF Moved
  <2> QED
    BY <2>2, <2>3, <2>4, <2>9, <2>10, <1>2, <1>6, <1>7, <1>8, <1>9, <1>10
<1>11. CASE /\ r.kind = "update"
            /\ objs' = [p EXCEPT ![r.obj].alerts = Replace(p[r.obj].alerts, r.alert, WithGroup(r.alert, g))]
            /\ Finish(o)
  <2>1. r.alert \in Alert
    BY <1>1, <1>11 DEF AtTargetGroup, AboutCreate, AboutGroup
  <2>2. WithGroup(r.alert, g) \in Alert
    BY <2>1, <1>2, WithGroupFacts
  <2>3. w \in SUBSET Alert
    BY <2>2, <1>4 DEF Replace
  <2>4. objs' = [p EXCEPT ![r.obj].alerts = w]
    BY <1>8, <1>11
  <2> HIDE DEF w
  <2>5. Moved(objs', p, r.obj, {"alerts"}) /\ objs'[r.obj].alerts = w
    BY <2>3, <2>4, <1>1, <1>8, SetAlerts
  <2>6. Moved(objs', objs, r.obj, {"alerts"} \cup {"tgroups"})
    BY <2>5, <1>6, MovedMoved
  <2>7. /\ Moved(objs', objs, r.obj, {"tgroups", "alerts"})
        /\ objs'[r.obj].tgroups = p[r.obj].tgroups
    BY <2>5, <2>6 DEF Moved, DataFields, Arrays
  <2>8. objs' \in [Objs -> DataObject]
    BY <2>7 DEF Moved
  <2>9. OpsMove(o) /\ n = Idle /\ Tells(o)
    BY <2>8, <1>11, FinishDoes
  <2>10. Goes(o)
    BY <2>9, <1>0, IdleFacts DEF Goes
  <2> QED
    BY <2>5, <2>7, <2>9, <2>10, <1>2, <1>6, <1>9, <1>11 DEF w
<1>12. CASE r.kind = "ensureTargetGroup" /\ objs' = p /\ FinishSame(o)
  <2>1. OpsMove(o) /\ n = Idle /\ (shown' = shown \/ Tells(o))
    BY <1>8, <1>12, FinishSameDoes
  <2>2. Goes(o)
    BY <2>1, <1>0, IdleFacts DEF Goes
  <2>3. Moved(objs', objs, r.obj, {"tgroups", "alerts"})
    BY <1>6, <1>12 DEF Moved
  <2> QED
    BY <2>1, <2>2, <2>3, <1>2, <1>6, <1>8, <1>9, <1>12
<1> QED
  BY <1>3, <1>10, <1>11, <1>12

LEMMA AfterAlertDoes ==
  ASSUME Typed, NEW o \in Ops, AfterAlert(o)
  PROVE  LET r == ops[o] IN
         /\ Pending(r, "alert") /\ r.res \in ServerAlert /\ r.alert \in TargetGroup
         /\ r.res.tgroup = r.alert.id /\ Goes(o) /\ ops'[o] = Idle /\ r.kind = "create"
         /\ Moved(objs', objs, r.obj, {"alerts"})
         /\ objs'[r.obj].alerts = objs[r.obj].alerts \cup {Embed(r.res, r.alert)}
<1> DEFINE r == ops[o]
           v == objs[r.obj].alerts \cup {Embed(r.res, r.alert)}
<1>0. /\ Fits(r) /\ r.pc = "alert" /\ r.res \notin Unanswered /\ Finish(o)
      /\ UNCHANGED <<server, stamp, current, mishaps, started>>
  BY DEF Typed, AfterAlert, Answered, Unanswered
<1>1. AtAlert(r) /\ r.obj \in Objs
  BY <1>0, Phases
<1>2. /\ r.res \in ServerAlert /\ r.alert \in TargetGroup /\ r.kind = "create"
      /\ r.res.tgroup = r.alert.id
  BY <1>0, <1>1 DEF AtAlert, AboutCreate
<1>3. objs \in [Objs -> DataObject] /\ objs[r.obj].alerts \in SUBSET Alert
  BY <1>1 DEF Typed, DataObject
<1>4. v \in SUBSET Alert
  BY <1>2, <1>3, EmbedFacts
<1>5. objs' = [objs EXCEPT ![r.obj].alerts = v]
  BY DEF AfterAlert, Push
<1> HIDE DEF v
<1>6. Moved(objs', objs, r.obj, {"alerts"}) /\ objs'[r.obj].alerts = v
  BY <1>1, <1>3, <1>4, <1>5, SetAlerts
<1>7. OpsMove(o) /\ ops'[o] = Idle /\ Tells(o)
  <2>1. objs' \in [Objs -> DataObject]
    BY <1>6 DEF Moved
  <2> QED
    BY <2>1, <1>0, FinishDoes
<1>8. Goes(o)
  BY <1>0, <1>7, IdleFacts DEF Goes
<1> QED
  BY <1>0, <1>2, <1>6, <1>7, <1>8 DEF Pending, v

\* A delete goes on with the request to delete a group.
DeletesOn(o, pc) ==
  /\ ops'[o].pc = pc /\ ops'[o].alert = ops[o].alert /\ ops'[o].kind = "delete"
  /\ UNCHANGED shown

LEMMA DeletesOnDoes ==
  ASSUME Typed, NEW o \in Ops, ops[o].pc \in Deleting, NEW pc \in Deleting, NEW id,
         Await(o, ops[o], pc, [call |-> pc, id |-> id]), UNCHANGED shown,
         id = IF pc = "deleteAlert" THEN ops[o].alert.id
              ELSE IF pc = "deleteTargetGroup" THEN ops[o].alert.tgroup.id
              ELSE ops[o].alert.sgroup
  PROVE  /\ OpsMove(o) /\ Fits(ops'[o]) /\ ops'[o].res = None
         /\ ops'[o].obj = ops[o].obj /\ DeletesOn(o, pc)
<1> DEFINE r == ops[o]
           n == ops'[o]
           req == [call |-> pc, id |-> id]
<1>1. Fits(r) /\ Shaped(r) /\ AtDelete(r) /\ r.obj \in Objs /\ r.gen \in Nat
  <2>1. Fits(r)
    BY DEF Typed
  <2> QED
    BY <2>1, Phases
<1>2. Await(o, r, pc, req)
  OBVIOUS
<1> HIDE DEF req
<1>3. /\ OpsMove(o) /\ Shaped(n) /\ n.pc = pc /\ n.req = req /\ n.res = None
      /\ Same(n, r, {"pc", "req", "res"})
  BY <1>1, <1>2, AwaitStep
<1>4. n.obj = r.obj /\ n.kind = r.kind /\ n.alert = r.alert /\ n.gen = r.gen
  BY <1>3 DEF Same, Fields
<1>5. Doomed(n) = id
  BY <1>3, <1>4 DEF Doomed
<1>6. AtDelete(n)
  BY <1>1, <1>3, <1>4, <1>5 DEF AtDelete, Unanswered, req
<1>7. Fits(n)
  BY <1>1, <1>3, <1>4, <1>6 DEF Fits
<1> QED
  BY <1>1, <1>3, <1>4, <1>7 DEF DeletesOn, AtDelete

LEMMA AfterDeleteAlertDoes ==
  ASSUME Typed, NEW o \in Ops, AfterDeleteAlert(o)
  PROVE  LET r == ops[o] IN
         /\ Pending(r, "deleteAlert") /\ r.alert \in Alert /\ Goes(o)
         /\ Moved(objs', objs, r.obj, {"alerts", "agen"})
         /\ objs'[r.obj].alerts = objs[r.obj].alerts \ {r.alert}
         /\ \/ ops'[o] = Idle /\ Tells(o)
            \/ DeletesOn(o, "deleteSourceGroup")
            \/ DeletesOn(o, "deleteTargetGroup")
<1> DEFINE r == ops[o]
           v == objs[r.obj].alerts \ {r.alert}
           n == objs[r.obj].agen + 1
<1>0. /\ Fits(r) /\ r.pc = "deleteAlert" /\ r.res \notin Unanswered
      /\ UNCHANGED <<server, stamp, current, mishaps, started>>
  BY DEF Typed, AfterDeleteAlert, Answered, Unanswered
<1>1. AtDelete(r) /\ r.obj \in Objs /\ r.pc \in Deleting
  BY <1>0, Phases DEF Deleting
<1>2. r.alert \in Alert
  BY <1>1 DEF AtDelete
<1>3. /\ objs \in [Objs -> DataObject] /\ objs[r.obj].alerts \in SUBSET Alert
      /\ objs[r.obj].agen \in Nat
  BY <1>1 DEF Typed, DataObject
<1>4. v \in SUBSET Alert /\ n \in Nat
  BY <1>3
<1>5. AlertDropped(objs', objs, r.obj, v, n)
  BY DEF AlertDropped, AfterDeleteAlert, Without
<1> HIDE DEF v, n
<1>6. Moved(objs', objs, r.obj, {"alerts", "agen"}) /\ objs'[r.obj].alerts = v
  BY <1>1, <1>3, <1>4, <1>5, DropAlert
<1>7. objs' \in [Objs -> DataObject]
  BY <1>6 DEF Moved
<1>8. \/ Finish(o)
      \/ /\ Await(o, r, "deleteSourceGroup", [call |-> "deleteSourceGroup", id |-> r.alert.sgroup])
         /\ UNCHANGED shown
      \/ /\ Await(o, r, "deleteTargetGroup", [call |-> "deleteTargetGroup", id |-> r.alert.tgroup.id])
         /\ UNCHANGED shown
  <2>1. CASE Finish(o)
    BY <2>1
  <2>2. CASE r.keepTarget /\ ~Finish(o)
    BY <2>2 DEF AfterDeleteAlert
  <2>3. CASE ~r.keepTarget /\ ~Finish(o)
    BY <2>3 DEF AfterDeleteAlert
  <2> QED
    BY <2>1, <2>2, <2>3
<1>9. CASE Finish(o)
  <2>1. OpsMove(o) /\ ops'[o] = Idle /\ Tells(o)
    BY <1>7, <1>9, FinishDoes
  <2>2. Goes(o)
    BY <2>1, <1>0, IdleFacts DEF Goes
  <2> QED
    BY <2>1, <2>2, <1>0, <1>2, <1>6 DEF Pending, v
<1>10. CASE /\ Await(o, r, "deleteSourceGroup", [call |-> "deleteSourceGroup", id |-> r.alert.sgroup])
            /\ UNCHANGED shown
  <2>1. /\ OpsMove(o) /\ Fits(ops'[o]) /\ ops'[o].res = None
        /\ ops'[o].obj = r.obj /\ DeletesOn(o, "deleteSourceGroup")
    BY <1>1, <1>10, DeletesOnDoes DEF Deleting
  <2>2. Goes(o)
    BY <2>1, <1>0, <1>1, <1>10 DEF Goes, DeletesOn, AtDelete
  <2> QED
    BY <2>1, <2>2, <1>0, <1>2, <1>6 DEF Pending, v
<1>11. CASE /\ Await(o, r, "deleteTargetGroup", [call |-> "deleteTargetGroup", id |-> r.alert.tgroup.id])
            /\ UNCHANGED shown
  <2>1. /\ OpsMove(o) /\ Fits(ops'[o]) /\ ops'[o].res = None
        /\ ops'[o].obj = r.obj /\ DeletesOn(o, "deleteTargetGroup")
    BY <1>1, <1>11, DeletesOnDoes DEF Deleting
  <2>2. Goes(o)
    BY <2>1, <1>0, <1>1, <1>11 DEF Goes, DeletesOn, AtDelete
  <2> QED
    BY <2>1, <2>2, <1>0, <1>2, <1>6 DEF Pending, v
<1> QED
  BY <1>8, <1>9, <1>10, <1>11

LEMMA AfterDeleteTargetGroupDoes ==
  ASSUME Typed, NEW o \in Ops, AfterDeleteTargetGroup(o)
  PROVE  LET r == ops[o] IN
         /\ Pending(r, "deleteTargetGroup") /\ Goes(o)
         /\ Moved(objs', objs, r.obj, {"tgroups", "tgen"})
         /\ objs'[r.obj].tgroups = {g \in objs[r.obj].tgroups : g.id # r.alert.tgroup.id}
         /\ \/ ops'[o] = Idle /\ Tells(o)
            \/ DeletesOn(o, "deleteSourceGroup")
<1> DEFINE r == ops[o]
           v == {g \in objs[r.obj].tgroups : g.id # r.alert.tgroup.id}
           n == objs[r.obj].tgen + 1
<1>0. /\ Fits(r) /\ r.pc = "deleteTargetGroup" /\ r.res \notin Unanswered
      /\ UNCHANGED <<server, stamp, current, mishaps, started>>
  BY DEF Typed, AfterDeleteTargetGroup, Answered, Unanswered
<1>1. AtDelete(r) /\ r.obj \in Objs /\ r.pc \in Deleting
  BY <1>0, Phases DEF Deleting
<1>3. /\ objs \in [Objs -> DataObject] /\ objs[r.obj].tgroups \in SUBSET TargetGroup
      /\ objs[r.obj].tgen \in Nat
  BY <1>1 DEF Typed, DataObject
<1>4. v \in SUBSET TargetGroup /\ n \in Nat
  BY <1>3
<1>5. TgroupDropped(objs', objs, r.obj, v, n)
  BY DEF TgroupDropped, AfterDeleteTargetGroup
<1> HIDE DEF v, n
<1>6. Moved(objs', objs, r.obj, {"tgroups", "tgen"}) /\ objs'[r.obj].tgroups = v
  BY <1>1, <1>3, <1>4, <1>5, DropTgroup
<1>7. objs' \in [Objs -> DataObject]
  BY <1>6 DEF Moved
<1>8. \/ Finish(o)
      \/ /\ Await(o, r, "deleteSourceGroup", [call |-> "deleteSourceGroup", id |-> r.alert.sgroup])
         /\ UNCHANGED shown
  BY DEF AfterDeleteTargetGroup, DeleteSourceGroup
<1>9. CASE Finish(o)
  <2>1. OpsMove(o) /\ ops'[o] = Idle /\ Tells(o)
    BY <1>7, <1>9, FinishDoes
  <2>2. Goes(o)
    BY <2>1, <1>0, IdleFacts DEF Goes
  <2> QED
    BY <2>1, <2>2, <1>0, <1>6 DEF Pending, v
<1>10. CASE /\ Await(o, r, "deleteSourceGroup", [call |-> "deleteSourceGroup", id |-> r.alert.sgroup])
            /\ UNCHANGED shown
  <2>1. /\ OpsMove(o) /\ Fits(ops'[o]) /\ ops'[o].res = None
        /\ ops'[o].obj = r.obj /\ DeletesOn(o, "deleteSourceGroup")
    BY <1>1, <1>10, DeletesOnDoes DEF Deleting
  <2>2. Goes(o)
    BY <2>1, <1>0, <1>1, <1>10 DEF Goes, DeletesOn, AtDelete
  <2> QED
    BY <2>1, <2>2, <1>0, <1>6 DEF Pending, v
<1> QED
  BY <1>8, <1>9, <1>10

LEMMA AfterDeleteSourceGroupDoes ==
  ASSUME Typed, NEW o \in Ops, AfterDeleteSourceGroup(o)
  PROVE  LET r == ops[o] IN
         /\ Pending(r, "deleteSourceGroup") /\ Goes(o) /\ ops'[o] = Idle /\ Tells(o)
         /\ Moved(objs', objs, r.obj, {"sgroups", "sgen"})
         /\ objs'[r.obj].sgroups = {g \in objs[r.obj].sgroups : g.id # r.alert.sgroup}
<1> DEFINE r == ops[o]
           v == {g \in objs[r.obj].sgroups : g.id # r.alert.sgroup}
           n == objs[r.obj].sgen + 1
<1>0. /\ Fits(r) /\ r.pc = "deleteSourceGroup" /\ r.res \notin Unanswered /\ Finish(o)
      /\ UNCHANGED <<server, stamp, current, mishaps, started>>
  BY DEF Typed, AfterDeleteSourceGroup, Answered, Unanswered
<1>1. AtDelete(r) /\ r.obj \in Objs
  BY <1>0, Phases DEF Deleting
<1>3. /\ objs \in [Objs -> DataObject] /\ objs[r.obj].sgroups \in SUBSET SourceGroup
      /\ objs[r.obj].sgen \in Nat
  BY <1>1 DEF Typed, DataObject
<1>4. v \in SUBSET SourceGroup /\ n \in Nat
  BY <1>3
<1>5. SgroupDropped(objs', objs, r.obj, v, n)
  BY DEF SgroupDropped, AfterDeleteSourceGroup
<1> HIDE DEF v, n
<1>6. Moved(objs', objs, r.obj, {"sgroups", "sgen"}) /\ objs'[r.obj].sgroups = v
  BY <1>1, <1>3, <1>4, <1>5, DropSgroup
<1>7. objs' \in [Objs -> DataObject]
  BY <1>6 DEF Moved
<1>8. OpsMove(o) /\ ops'[o] = Idle /\ Tells(o)
  BY <1>0, <1>7, FinishDoes
<1>9. Goes(o)
  BY <1>0, <1>8, IdleFacts DEF Goes
<1> QED
  BY <1>0, <1>6, <1>8, <1>9 DEF Pending, v

LEMMA RejectDoes ==
  ASSUME Typed, NEW o \in Ops, Reject(o)
  PROVE  /\ ops[o].res = Failed /\ OpsMove(o) /\ ops'[o] = Idle
         /\ mishaps' = IF ops[o].pc \in {"deleteTargetGroup", "deleteSourceGroup"}
                       THEN mishaps \cup {"torn"} ELSE mishaps
         /\ UNCHANGED <<server, stamp, objs, current, shown, started>>
BY BecomesStep DEF Reject

-----------------------------------------------------------------------------
(* The service                                                               *)

\* The service adds x to an array, or puts it in the place of its older form.
Made(field, x) ==
  /\ server' \in ServerState /\ stamp' = stamp + 1
  /\ server'[field] = Put(server[field], x)
  /\ \A f \in ServerFields \ {field} : server'[f] = server[f]

\* The service takes what has an id out of an array.
Dropped(field, id) ==
  /\ server' \in ServerState /\ stamp' = stamp
  /\ server'[field] = {x \in server[field] : x.id # id}
  /\ \A f \in ServerFields \ {field} : server'[f] = server[f]

LEMMA PutsTargets ==
  ASSUME server \in ServerState, NEW x \in Target, stamp' = stamp + 1,
         server' = [server EXCEPT !["targets"] = Put(server["targets"], x)]
  PROVE  Made("targets", x)
<1>1. Put(server.targets, x) \in SUBSET Target
  BY PutType DEF ServerState
<1> QED
  BY <1>1 DEF Made, ServerState, ServerFields, Arrays

LEMMA PutsDiscords ==
  ASSUME server \in ServerState, NEW x \in Plain, stamp' = stamp + 1,
         server' = [server EXCEPT !["discords"] = Put(server["discords"], x)]
  PROVE  Made("discords", x)
<1>1. Put(server.discords, x) \in SUBSET Plain
  BY PutType DEF ServerState
<1> QED
  BY <1>1 DEF Made, ServerState, ServerFields, Arrays

LEMMA PutsSources ==
  ASSUME server \in ServerState, NEW x \in Source, stamp' = stamp + 1,
         server' = [server EXCEPT !["sources"] = Put(server["sources"], x)]
  PROVE  Made("sources", x)
<1>1. Put(server.sources, x) \in SUBSET Source
  BY PutType DEF ServerState
<1> QED
  BY <1>1 DEF Made, ServerState, ServerFields, Arrays

LEMMA PutsWallets ==
  ASSUME server \in ServerState, NEW x \in Plain, stamp' = stamp + 1,
         server' = [server EXCEPT !["wallets"] = Put(server["wallets"], x)]
  PROVE  Made("wallets", x)
<1>1. Put(server.wallets, x) \in SUBSET Plain
  BY PutType DEF ServerState
<1> QED
  BY <1>1 DEF Made, ServerState, ServerFields, Arrays

LEMMA PutsSgroups ==
  ASSUME server \in ServerState, NEW x \in SourceGroup, stamp' = stamp + 1,
         server' = [server EXCEPT !["sgroups"] = Put(server["sgroups"], x)]
  PROVE  Made("sgroups", x)
<1>1. Put(server.sgroups, x) \in SUBSET SourceGroup
  BY PutType DEF ServerState
<1> QED
  BY <1>1 DEF Made, ServerState, ServerFields, Arrays

LEMMA PutsTgroups ==
  ASSUME server \in ServerState, NEW x \in TargetGroup, stamp' = stamp + 1,
         server' = [server EXCEPT !["tgroups"] = Put(server["tgroups"], x)]
  PROVE  Made("tgroups", x)
<1>1. Put(server.tgroups, x) \in SUBSET TargetGroup
  BY PutType DEF ServerState
<1> QED
  BY <1>1 DEF Made, ServerState, ServerFields, Arrays

LEMMA PutsAlerts ==
  ASSUME server \in ServerState, NEW x \in ServerAlert, stamp' = stamp + 1,
         server' = [server EXCEPT !["alerts"] = Put(server["alerts"], x)]
  PROVE  Made("alerts", x)
<1>1. Put(server.alerts, x) \in SUBSET ServerAlert
  BY PutType DEF ServerState
<1> QED
  BY <1>1 DEF Made, ServerState, ServerFields, Arrays

LEMMA DropsSgroups ==
  ASSUME server \in ServerState, NEW id, stamp' = stamp,
         server' = [server EXCEPT !["sgroups"] = {x \in server["sgroups"] : x.id # id}]
  PROVE  Dropped("sgroups", id)
BY DEF Dropped, ServerState, ServerFields, Arrays

LEMMA DropsTgroups ==
  ASSUME server \in ServerState, NEW id, stamp' = stamp,
         server' = [server EXCEPT !["tgroups"] = {x \in server["tgroups"] : x.id # id}]
  PROVE  Dropped("tgroups", id)
BY DEF Dropped, ServerState, ServerFields, Arrays

LEMMA DropsAlerts ==
  ASSUME server \in ServerState, NEW id, stamp' = stamp,
         server' = [server EXCEPT !["alerts"] = {x \in server["alerts"] : x.id # id}]
  PROVE  Dropped("alerts", id)
BY DEF Dropped, ServerState, ServerFields, Arrays

\* The service has carried a request out with outcome x.
Happens(x) == server' = x.server /\ stamp' = x.stamp

LEMMA TargetCreated ==
  ASSUME Typed, NEW value \in Values, NEW x, Happens(x),
         x \in Outcomes([call |-> "createTarget", value |-> value])
  PROVE  x.res \in Target /\ x.res.id = stamp + 1 /\ Made("targets", x.res)
<1> DEFINE y == [id |-> stamp + 1, value |-> value]
<1>1. x = [server |-> [server EXCEPT !["targets"] = Put(server["targets"], y)],
           stamp |-> stamp + 1, res |-> y]
  BY DEF Outcomes
<1>2. y \in Target /\ y.id = stamp + 1
  BY DEF Typed, Target
<1> QED
  BY <1>1, <1>2, PutsTargets DEF Typed, Happens

LEMMA DiscordCreated ==
  ASSUME Typed, NEW x, Happens(x), x \in Outcomes([call |-> "createDiscordTarget"])
  PROVE  x.res \in Plain /\ x.res.id = stamp + 1 /\ Made("discords", x.res)
<1> DEFINE y == [id |-> stamp + 1]
<1>1. x = [server |-> [server EXCEPT !["discords"] = Put(server["discords"], y)],
           stamp |-> stamp + 1, res |-> y]
  BY DEF Outcomes
<1>2. y \in Plain /\ y.id = stamp + 1
  BY DEF Typed, Plain
<1> QED
  BY <1>1, <1>2, PutsDiscords DEF Typed, Happens

LEMMA SourceCreated ==
  ASSUME Typed, NEW name \in Names, NEW x, Happens(x),
         x \in Outcomes([call |-> "createSource", name |-> name])
  PROVE  x.res \in Source /\ x.res.id = stamp + 1 /\ Made("sources", x.res)
<1> DEFINE y == [id |-> stamp + 1, name |-> name]
<1>1. x = [server |-> [server EXCEPT !["sources"] = Put(server["sources"], y)],
           stamp |-> stamp + 1, res |-> y]
  BY DEF Outcomes
<1>2. y \in Source /\ y.id = stamp + 1
  BY DEF Typed, Source
<1> QED
  BY <1>1, <1>2, PutsSources DEF Typed, Happens

LEMMA WalletConnected ==
  ASSUME Typed, NEW x, Happens(x), x \in Outcomes([call |-> "connectWallet"])
  PROVE  x.res \in Plain /\ x.res.id = stamp + 1 /\ Made("wallets", x.res)
<1> DEFINE y == [id |-> stamp + 1]
<1>1. x = [server |-> [server EXCEPT !["wallets"] = Put(server["wallets"], y)],
           stamp |-> stamp + 1, res |-> y]
  BY DEF Outcomes
<1>2. y \in Plain /\ y.id = stamp + 1
  BY DEF Typed, Plain
<1> QED
  BY <1>1, <1>2, PutsWallets DEF Typed, Happens

LEMMA SourceGroupPut ==
  ASSUME Typed, NEW id \in Nat \cup {None}, NEW name \in Names, NEW source \in Nat, NEW x,
         Happens(x),
         x \in Outcomes([call |-> "putSourceGroup", id |-> id, name |-> name, source |-> source])
  PROVE  /\ x.res \in SourceGroup /\ x.res.name = name /\ Made("sgroups", x.res)
         /\ IF id = None THEN x.res.id = stamp + 1
            ELSE x.res.id = id /\ \E g \in server.sgroups : g.id = id
<1> DEFINE i == IF id = None THEN stamp + 1 ELSE id
           y == [id |-> i, name |-> name, source |-> source]
<1>1. /\ x = [server |-> [server EXCEPT !["sgroups"] = Put(server["sgroups"], y)],
              stamp |-> stamp + 1, res |-> y]
      /\ id # None => \E g \in server["sgroups"] : g.id = id
  BY DEF Outcomes
<1>2. y \in SourceGroup /\ y.id = i /\ y.name = name
  BY DEF Typed, SourceGroup
<1> HIDE DEF y
<1>3. x.res = y /\ Made("sgroups", y)
  BY <1>1, <1>2, PutsSgroups DEF Typed, Happens
<1> QED
  BY <1>1, <1>2, <1>3

LEMMA TargetGroupPut ==
  ASSUME Typed, NEW id \in Nat \cup {None}, NEW name \in Names, NEW target \in Nat, NEW x,
         Happens(x),
         x \in Outcomes([call |-> "putTargetGroup", id |-> id, name |-> name, target |-> target])
  PROVE  /\ x.res \in TargetGroup /\ x.res.name = name /\ Made("tgroups", x.res)
         /\ IF id = None THEN x.res.id = stamp + 1
            ELSE x.res.id = id /\ \E g \in server.tgroups : g.id = id
<1> DEFINE i == IF id = None THEN stamp + 1 ELSE id
           y == [id |-> i, name |-> name, target |-> target, ver |-> stamp + 1]
<1>1. /\ x = [server |-> [server EXCEPT !["tgroups"] = Put(server["tgroups"], y)],
              stamp |-> stamp + 1, res |-> y]
      /\ id # None => \E g \in server["tgroups"] : g.id = id
  BY DEF Outcomes
<1>2. y \in TargetGroup /\ y.id = i /\ y.name = name
  BY DEF Typed, TargetGroup
<1> HIDE DEF y
<1>3. x.res = y /\ Made("tgroups", y)
  BY <1>1, <1>2, PutsTgroups DEF Typed, Happens
<1> QED
  BY <1>1, <1>2, <1>3

LEMMA AlertCreated ==
  ASSUME Typed, NEW name \in Names, NEW sgroup \in Nat, NEW tgroup \in Nat, NEW x, Happens(x),
         x \in Outcomes([call |-> "createAlert", name |-> name, sgroup |-> sgroup,
                         tgroup |-> tgroup])
  PROVE  /\ x.res \in ServerAlert /\ x.res.id = stamp + 1 /\ x.res.name = name
         /\ x.res.sgroup = sgroup /\ x.res.tgroup = tgroup /\ Made("alerts", x.res)
         /\ \E g \in server.sgroups : g.id = sgroup
         /\ \E g \in server.tgroups : g.id = tgroup
<1> DEFINE y == [id |-> stamp + 1, name |-> name, sgroup |-> sgroup, tgroup |-> tgroup]
<1>1. /\ x = [server |-> [server EXCEPT !["alerts"] = Put(server["alerts"], y)],
              stamp |-> stamp + 1, res |-> y]
      /\ \E g \in server["sgroups"] : g.id = sgroup
      /\ \E g \in server["tgroups"] : g.id = tgroup
  BY DEF Outcomes
<1>2. /\ y \in ServerAlert /\ y.id = stamp + 1 /\ y.name = name /\ y.sgroup = sgroup
      /\ y.tgroup = tgroup
  BY DEF Typed, ServerAlert
<1> HIDE DEF y
<1>3. x.res = y /\ Made("alerts", y)
  BY <1>1, <1>2, PutsAlerts DEF Typed, Happens
<1> QED
  BY <1>1, <1>2, <1>3

LEMMA AlertDeleted ==
  ASSUME Typed, NEW id \in Nat, NEW x, Happens(x),
         x \in Outcomes([call |-> "deleteAlert", id |-> id])
  PROVE  x.res \in Plain /\ Dropped("alerts", id)
<1>1. x = [server |-> [server EXCEPT !["alerts"] = {y \in server["alerts"] : y.id # id}],
           stamp |-> stamp, res |-> [id |-> id]]
  BY DEF Outcomes
<1> QED
  BY <1>1, DropsAlerts DEF Typed, Happens, Plain

LEMMA TargetGroupDeleted ==
  ASSUME Typed, NEW id \in Nat, NEW x, Happens(x),
         x \in Outcomes([call |-> "deleteTargetGroup", id |-> id])
  PROVE  /\ x.res \in Plain /\ Dropped("tgroups", id)
         /\ \A a \in server.alerts : a.tgroup # id
<1>1. /\ x = [server |-> [server EXCEPT !["tgroups"] = {y \in server["tgroups"] : y.id # id}],
              stamp |-> stamp, res |-> [id |-> id]]
      /\ ~ \E a \in server.alerts : a["tgroup"] = id
  BY DEF Outcomes
<1> QED
  BY <1>1, DropsTgroups DEF Typed, Happens, Plain

LEMMA SourceGroupDeleted ==
  ASSUME Typed, NEW id \in Nat, NEW x, Happens(x),
         x \in Outcomes([call |-> "deleteSourceGroup", id |-> id])
  PROVE  /\ x.res \in Plain /\ Dropped("sgroups", id)
         /\ \A a \in server.alerts : a.sgroup # id
<1>1. /\ x = [server |-> [server EXCEPT !["sgroups"] = {y \in server["sgroups"] : y.id # id}],
              stamp |-> stamp, res |-> [id |-> id]]
      /\ ~ \E a \in server.alerts : a["sgroup"] = id
  BY DEF Outcomes
<1> QED
  BY <1>1, DropsSgroups DEF Typed, Happens, Plain

\* What the service does for the operation r, and answers.
Performs(r, res) ==
  \/ r.pc = "targets" /\ res \in Target /\ res.id = stamp + 1 /\ Made("targets", res)
  \/ r.pc = "source" /\ res \in Source /\ res.id = stamp + 1 /\ Made("sources", res)
  \/ r.pc = "discord" /\ res \in Plain /\ res.id = stamp + 1 /\ Made("discords", res)
  \/ r.pc = "wallet" /\ res \in Plain /\ res.id = stamp + 1 /\ Made("wallets", res)
  \/ /\ r.pc = "sourceGroup" /\ res \in SourceGroup /\ Made("sgroups", res)
     /\ res.id = stamp + 1 \/ \E g \in server.sgroups : g.id = res.id
  \/ /\ r.pc = "targetGroup" /\ res \in TargetGroup /\ res.name = r.group
     /\ Made("tgroups", res)
     /\ IF r.req.id = None THEN res.id = stamp + 1
        ELSE res.id = r.req.id /\ \E g \in server.tgroups : g.id = res.id
  \/ /\ r.pc = "alert" /\ res \in ServerAlert /\ res.id = stamp + 1 /\ res.name = r.name
     /\ res.tgroup = r.alert.id /\ Made("alerts", res)
     /\ \E g \in server.sgroups : g.id = res.sgroup
     /\ \E g \in server.tgroups : g.id = res.tgroup
  \/ r.pc = "deleteAlert" /\ res \in Plain /\ Dropped("alerts", r.alert.id)
  \/ /\ r.pc = "deleteTargetGroup" /\ res \in Plain /\ Dropped("tgroups", r.alert.tgroup.id)
     /\ \A a \in server.alerts : a.tgroup # r.alert.tgroup.id
  \/ /\ r.pc = "deleteSourceGroup" /\ res \in Plain /\ Dropped("sgroups", r.alert.sgroup)
     /\ \A a \in server.alerts : a.sgroup # r.alert.sgroup

LEMMA SentPerforms ==
  ASSUME Typed, NEW r, Fits(r), r.req # None, r.res = None, NEW x \in Outcomes(r.req),
         Happens(x)
  PROVE  Performs(r, x.res)
<1>1. r # Idle
  BY IdleFacts
<1>2. \/ AtTargets(r) \/ AtSource(r) \/ AtDiscord(r) \/ AtWallet(r)
      \/ AtSourceGroup(r) \/ AtTargetGroup(r) \/ AtAlert(r) \/ AtDelete(r)
  BY <1>1 DEF Fits
<1>3. CASE AtTargets(r)
  <2>1. PICK v \in Values : r.req = [call |-> "createTarget", value |-> v]
    BY <1>3 DEF AtTargets
  <2>2. x.res \in Target /\ x.res.id = stamp + 1 /\ Made("targets", x.res)
    BY <2>1, TargetCreated
  <2> QED
    BY <2>2, <1>3 DEF Performs, AtTargets
<1>4. CASE AtSource(r)
  <2>1. PICK n \in Names : r.req = [call |-> "createSource", name |-> n]
    BY <1>4 DEF AtSource
  <2>2. x.res \in Source /\ x.res.id = stamp + 1 /\ Made("sources", x.res)
    BY <2>1, SourceCreated
  <2> QED
    BY <2>2, <1>4 DEF Performs, AtSource
<1>5. CASE AtDiscord(r)
  <2>1. r.req = [call |-> "createDiscordTarget"]
    BY <1>5 DEF AtDiscord
  <2>2. x.res \in Plain /\ x.res.id = stamp + 1 /\ Made("discords", x.res)
    BY <2>1, DiscordCreated
  <2> QED
    BY <2>2, <1>5 DEF Performs, AtDiscord
<1>6. CASE AtWallet(r)
  <2>1. r.req = [call |-> "connectWallet"]
    BY <1>6 DEF AtWallet
  <2>2. x.res \in Plain /\ x.res.id = stamp + 1 /\ Made("wallets", x.res)
    BY <2>1, WalletConnected
  <2> QED
    BY <2>2, <1>6 DEF Performs, AtWallet
<1>7. CASE AtSourceGroup(r)
  <2> DEFINE id == r.req.id
  <2>1. /\ r.pc = "sourceGroup" /\ r.group \in Names /\ r.source \in Nat
        /\ id \in Nat \cup {None}
    BY <1>7 DEF AtSourceGroup
  <2>2. r.req = [call |-> "putSourceGroup", id |-> id, name |-> r.group, source |-> r.source]
    BY <1>7 DEF AtSourceGroup
  <2> DEFINE name == r.group
             source == r.source
  <2>3. /\ id \in Nat \cup {None} /\ name \in Names /\ source \in Nat
        /\ x \in Outcomes([call |-> "putSourceGroup", id |-> id, name |-> name, source |-> source])
    BY <2>1, <2>2
  <2> HIDE DEF id, name, source
  <2>4. /\ x.res \in SourceGroup /\ Made("sgroups", x.res)
        /\ IF id = None THEN x.res.id = stamp + 1
           ELSE x.res.id = id /\ \E g \in server.sgroups : g.id = id
    BY <2>3, SourceGroupPut
  <2> QED
    BY <2>1, <2>4 DEF Performs
<1>8. CASE AtTargetGroup(r)
  <2> DEFINE id == r.req.id
  <2>1. /\ r.pc = "targetGroup" /\ r.group \in Names /\ r.target \in Nat
        /\ id \in Nat \cup {None}
    BY <1>8 DEF AtTargetGroup
  <2>2. r.req = [call |-> "putTargetGroup", id |-> id, name |-> r.group, target |-> r.target]
    BY <1>8 DEF AtTargetGroup
  <2> DEFINE name == r.group
             target == r.target
  <2>3. /\ id \in Nat \cup {None} /\ name \in Names /\ target \in Nat
        /\ x \in Outcomes([call |-> "putTargetGroup", id |-> id, name |-> name, target |-> target])
    BY <2>1, <2>2
  <2> HIDE DEF id, name, target
  <2>4. /\ x.res \in TargetGroup /\ x.res.name = r.group /\ Made("tgroups", x.res)
        /\ IF id = None THEN x.res.id = stamp + 1
           ELSE x.res.id = id /\ \E g \in server.tgroups : g.id = id
    BY <2>3, TargetGroupPut DEF name
  <2>5. /\ IF r.req.id = None THEN x.res.id = stamp + 1
           ELSE x.res.id = r.req.id /\ \E g \in server.tgroups : g.id = x.res.id
    BY <2>4 DEF id
  <2> QED
    BY <2>1, <2>4, <2>5 DEF Performs
<1>9. CASE AtAlert(r)
  <2>1. /\ r.pc = "alert" /\ r.name \in Names /\ r.source \in Nat /\ r.alert.id \in Nat
        /\ r.req = [call |-> "createAlert", name |-> r.name, sgroup |-> r.source,
                    tgroup |-> r.alert.id]
    BY <1>9 DEF AtAlert, AboutCreate, TargetGroup
  <2>2. /\ x.res \in ServerAlert /\ x.res.id = stamp + 1 /\ x.res.name = r.name
        /\ x.res.sgroup = r.source /\ x.res.tgroup = r.alert.id /\ Made("alerts", x.res)
        /\ \E g \in server.sgroups : g.id = r.source
        /\ \E g \in server.tgroups : g.id = r.alert.id
    BY <2>1, AlertCreated
  <2> QED
    BY <2>1, <2>2 DEF Performs
<1>10. CASE AtDelete(r)
  <2>1. r.alert \in Alert /\ r.req = [call |-> r.pc, id |-> Doomed(r)] /\ r.pc \in Deleting
    BY <1>10 DEF AtDelete
  <2>2. r.alert.id \in Nat /\ r.alert.sgroup \in Nat /\ r.alert.tgroup.id \in Nat
    BY <2>1 DEF Alert, TargetGroup
  <2>3. CASE r.pc = "deleteAlert"
    <3>1. r.req = [call |-> "deleteAlert", id |-> r.alert.id]
      BY <2>1, <2>3 DEF Doomed
    <3> QED
      BY <2>2, <2>3, <3>1, AlertDeleted DEF Performs
  <2>4. CASE r.pc = "deleteTargetGroup"
    <3>1. r.req = [call |-> "deleteTargetGroup", id |-> r.alert.tgroup.id]
      BY <2>1, <2>4 DEF Doomed
    <3>2. /\ x.res \in Plain /\ Dropped("tgroups", r.alert.tgroup.id)
          /\ \A a \in server.alerts : a.tgroup # r.alert.tgroup.id
      BY <2>2, <3>1, TargetGroupDeleted
    <3> QED
      BY <2>4, <3>2 DEF Performs
  <2>5. CASE r.pc = "deleteSourceGroup"
    <3>1. r.req = [call |-> "deleteSourceGroup", id |-> r.alert.sgroup]
      BY <2>1, <2>5 DEF Doomed
    <3>2. /\ x.res \in Plain /\ Dropped("sgroups", r.alert.sgroup)
          /\ \A a \in server.alerts : a.sgroup # r.alert.sgroup
      BY <2>2, <3>1, SourceGroupDeleted
    <3> QED
      BY <2>5, <3>2 DEF Performs
  <2> QED
    BY <2>1, <2>3, <2>4, <2>5 DEF Deleting
<1> QED
  BY <1>2, <1>3, <1>4, <1>5, <1>6, <1>7, <1>8, <1>9, <1>10

\* A reply of the right kind leaves an operation well formed.
LEMMA ReplyFits ==
  ASSUME NEW r, Fits(r), r # Idle, NEW n, Shaped(n), Same(n, r, {"res"}),
         \/ n.res \in Unanswered
         \/ r.pc = "targets" /\ n.res \in Target
         \/ r.pc = "source" /\ n.res \in Source
         \/ r.pc \in {"discord", "wallet"} \cup Deleting /\ n.res \in Plain
         \/ r.pc = "sourceGroup" /\ n.res \in SourceGroup
         \/ /\ r.pc = "targetGroup" /\ n.res \in TargetGroup /\ n.res.name = r.group
            /\ r.req.id \in {None, n.res.id}
         \/ r.pc = "alert" /\ n.res \in ServerAlert /\ n.res.tgroup = r.alert.id
  PROVE  Fits(n)
<1>1. /\ n.pc = r.pc /\ n.kind = r.kind /\ n.name = r.name /\ n.group = r.group
      /\ n.obj = r.obj /\ n.gen = r.gen /\ n.alert = r.alert /\ n.target = r.target
      /\ n.source = r.source /\ n.page = r.page /\ n.req = r.req
  BY DEF Same, Fields
<1>2. r.obj \in Objs /\ r.gen \in Nat
  BY DEF Fits
<1>3. n.res \in Unanswered => n.res \notin TargetGroup /\ n.res \notin ServerAlert
  BY NoneAssumption DEF Unanswered
<1>4. AtTargets(r) => AtTargets(n)
  BY <1>1 DEF AtTargets, AboutCreate, AboutGroup, Deleting
<1>5. AtSource(r) => AtSource(n)
  BY <1>1 DEF AtSource, Deleting
<1>6. AtDiscord(r) => AtDiscord(n)
  BY <1>1 DEF AtDiscord, Deleting
<1>7. AtWallet(r) => AtWallet(n)
  BY <1>1 DEF AtWallet, Deleting
<1>8. AtSourceGroup(r) => AtSourceGroup(n)
  BY <1>1 DEF AtSourceGroup, AboutCreate, Deleting
<1>9. AtTargetGroup(r) => AtTargetGroup(n)
  BY <1>1, <1>3 DEF AtTargetGroup, AboutCreate, AboutGroup, Deleting
<1>10. AtAlert(r) => AtAlert(n)
  BY <1>1, <1>3 DEF AtAlert, AboutCreate, Deleting
<1>11. AtDelete(r) => AtDelete(n)
  <2>1. Doomed(n) = Doomed(r)
    BY <1>1 DEF Doomed
  <2> QED
    BY <1>1, <2>1 DEF AtDelete, Deleting
<1> QED
  BY <1>1, <1>2, <1>4, <1>5, <1>6, <1>7, <1>8, <1>9, <1>10, <1>11 DEF Fits

\* A request is answered.
Replied(o) ==
  /\ OpsMove(o) /\ Fits(ops'[o]) /\ ops[o].res = None /\ ops[o] # Idle
  /\ Same(ops'[o], ops[o], {"res"})
  /\ UNCHANGED <<objs, current, shown, started>>

LEMMA ReplyStep ==
  ASSUME Typed, NEW o \in Ops, NEW res, Becomes(o, [ops[o] EXCEPT !.res = res])
  PROVE  /\ OpsMove(o) /\ Shaped(ops'[o]) /\ ops'[o].res = res
         /\ Same(ops'[o], ops[o], {"res"})
<1> DEFINE x == [ops[o] EXCEPT !.res = res]
<1>1. Shaped(ops[o])
  BY DEF Typed, Fits
<1>2. Shaped(x) /\ x.res = res /\ Same(x, ops[o], {"res"})
  BY <1>1, SetRes
<1>3. Becomes(o, x)
  OBVIOUS
<1> HIDE DEF x
<1>4. OpsMove(o) /\ ops'[o] = x
  BY <1>3, BecomesStep
<1> QED
  BY <1>2, <1>4

LEMMA ServeDoes ==
  ASSUME Typed, NEW o \in Ops, Serve(o)
  PROVE  Replied(o) /\ Performs(ops[o], ops'[o].res) /\ UNCHANGED mishaps
<1> DEFINE r == ops[o]
           n == ops'[o]
<1>1. PICK x \in Outcomes(r.req) : Happens(x) /\ Becomes(o, [r EXCEPT !.res = x.res])
  BY DEF Serve, Happens
<1>2. /\ Fits(r) /\ r.req # None /\ r.res = None /\ r # Idle
      /\ UNCHANGED <<objs, current, shown, mishaps, started>>
  BY IdleFacts DEF Typed, Serve, Sent
<1>3. OpsMove(o) /\ Shaped(n) /\ n.res = x.res /\ Same(n, r, {"res"})
  BY <1>1, ReplyStep
<1>4. Performs(r, n.res)
  BY <1>1, <1>2, <1>3, SentPerforms
<1>5. Fits(n)
  <2>1. \/ r.pc = "targets" /\ n.res \in Target
        \/ r.pc = "source" /\ n.res \in Source
        \/ r.pc \in {"discord", "wallet"} \cup Deleting /\ n.res \in Plain
        \/ r.pc = "sourceGroup" /\ n.res \in SourceGroup
        \/ /\ r.pc = "targetGroup" /\ n.res \in TargetGroup /\ n.res.name = r.group
           /\ r.req.id \in {None, n.res.id}
        \/ r.pc = "alert" /\ n.res \in ServerAlert /\ n.res.tgroup = r.alert.id
    BY <1>4 DEF Performs, Deleting
  <2> QED
    BY <2>1, <1>2, <1>3, ReplyFits
<1> QED
  BY <1>2, <1>3, <1>4, <1>5 DEF Replied

LEMMA RefuseDoes ==
  ASSUME Typed, NEW o \in Ops, Refuse(o)
  PROVE  Replied(o) /\ ops'[o].res = Failed /\ UNCHANGED <<server, stamp, mishaps>>
<1>1. /\ Becomes(o, [ops[o] EXCEPT !.res = Failed]) /\ ops[o].res = None /\ ops[o].req # None
      /\ UNCHANGED <<server, stamp, objs, current, shown, mishaps, started>>
  BY DEF Refuse, Sent
<1>2. ops[o] # Idle /\ Fits(ops[o])
  BY <1>1, IdleFacts DEF Typed
<1>3. /\ OpsMove(o) /\ Shaped(ops'[o]) /\ ops'[o].res = Failed
      /\ Same(ops'[o], ops[o], {"res"})
  BY <1>1, ReplyStep
<1>4. Fits(ops'[o])
  BY <1>2, <1>3, ReplyFits DEF Unanswered
<1> QED
  BY <1>1, <1>2, <1>3, <1>4 DEF Replied

LEMMA LoseReplyDoes ==
  ASSUME Typed, NEW o \in Ops, LoseReply(o)
  PROVE  /\ Replied(o) /\ ops'[o].res = Failed /\ mishaps' = mishaps \cup {"lost"}
         /\ \E res : Performs(ops[o], res)
<1>1. /\ Becomes(o, [ops[o] EXCEPT !.res = Failed]) /\ ops[o].res = None /\ ops[o].req # None
      /\ mishaps' = mishaps \cup {"lost"}
      /\ UNCHANGED <<objs, current, shown, started>>
  BY DEF LoseReply, Sent
<1>2. ops[o] # Idle /\ Fits(ops[o])
  BY <1>1, IdleFacts DEF Typed
<1>3. /\ OpsMove(o) /\ Shaped(ops'[o]) /\ ops'[o].res = Failed
      /\ Same(ops'[o], ops[o], {"res"})
  BY <1>1, ReplyStep
<1>4. Fits(ops'[o])
  BY <1>2, <1>3, ReplyFits DEF Unanswered
<1>5. PICK x \in Outcomes(ops[o].req) : Happens(x)
  BY DEF LoseReply, Happens
<1>6. Performs(ops[o], x.res)
  BY <1>1, <1>2, <1>5, SentPerforms
<1> QED
  BY <1>1, <1>2, <1>3, <1>4, <1>6 DEF Replied

-----------------------------------------------------------------------------
(* Fetching                                                                  *)

LEMMA HeldFacts ==
  ASSUME server \in ServerState, NEW a \in server.alerts,
         \E g \in server.tgroups : g.id = a.tgroup
  PROVE  /\ Held(server, a) \in Alert /\ Held(server, a).id = a.id
         /\ Held(server, a).name = a.name /\ Held(server, a).sgroup = a.sgroup
         /\ Held(server, a).tgroup \in server.tgroups /\ Held(server, a).tgroup.id = a.tgroup
<1> DEFINE g == CHOOSE h \in server.tgroups : h.id = a.tgroup
<1>1. g \in server.tgroups /\ g.id = a.tgroup
  OBVIOUS
<1>2. a \in ServerAlert /\ server.tgroups \subseteq TargetGroup
  BY DEF ServerState
<1>3. Held(server, a) = [a EXCEPT !.tgroup = g]
  BY DEF Held
<1> HIDE DEF g
<1>4. g \in TargetGroup
  BY <1>1, <1>2
<1>5. /\ Held(server, a) \in Alert /\ Held(server, a).id = a.id
      /\ Held(server, a).name = a.name /\ Held(server, a).sgroup = a.sgroup
      /\ Held(server, a).tgroup = g
  BY <1>2, <1>3, <1>4 DEF Alert, ServerAlert
<1> QED
  BY <1>1, <1>5

LEMMA FetchedFacts ==
  ASSUME Typed, ServerWhole
  PROVE  /\ Fetched(server) \in DataObject
         /\ \A f \in Arrays : Fetched(server)[f] = server[f]
         /\ Fetched(server).alerts = {Held(server, a) : a \in server.alerts}
         /\ Fetched(server).agen = 0
<1> DEFINE alerts == {Held(server, a) : a \in server.alerts}
<1>1. server \in ServerState
  BY DEF Typed
<1>2. alerts \subseteq Alert
  BY <1>1, HeldFacts DEF ServerWhole
<1>3. Fetched(server) =
        [targets |-> server.targets, discords |-> server.discords, sources |-> server.sources,
         wallets |-> server.wallets, sgroups |-> server.sgroups, tgroups |-> server.tgroups,
         alerts |-> alerts, sgen |-> 0, tgen |-> 0, agen |-> 0]
  BY DEF Fetched
<1> HIDE DEF alerts
<1> QED
  <2>1. Fetched(server) \in DataObject /\ Fetched(server).agen = 0
    BY <1>1, <1>2, <1>3 DEF ServerState, DataObject
  <2>2. Fetched(server).alerts = alerts
    BY <1>3
  <2>3. \A f \in Arrays : Fetched(server)[f] = server[f]
    BY <1>3 DEF Arrays
  <2> QED
    BY <2>1, <2>2, <2>3 DEF alerts

LEMMA NoDataFacts ==
  NoData \in DataObject /\ NoData.wallets = {} /\ NoData.alerts = {}
BY DEF NoData, DataObject

LEMMA RefetchDoes ==
  ASSUME Typed, ServerWhole, Refetch
  PROVE  /\ current' = current + 1 /\ current' \in Objs /\ objs' \in [Objs -> DataObject]
         /\ objs'[current'] = Fetched(server)
         /\ \A d \in Objs \ {current'} : objs'[d] \in {objs[d], NoData}
         /\ \A d \in Objs \ {current'} :
              d = shown'.obj \/ (\E o \in Running : ops[o].obj = d) => objs'[d] = objs[d]
         /\ \/ shown' = shown
            \/ shown' \in Pages /\ shown'.obj = current' /\ shown'.gen = 0
               /\ shown'.wallets = server.wallets
         /\ mishaps' = IF Running # {} THEN mishaps \cup {"refetch"}
                       ELSE (IF shown'.obj = current' THEN {} ELSE mishaps \cap {"torn", "rewound"})
                              \cup (IF Twins(server.tgroups) \/ Twins(server.alerts)
                                    THEN {"twins"} ELSE {})
         /\ UNCHANGED <<server, stamp, ops, started>>
<1>1. /\ current < MaxObj /\ current' = current + 1
      /\ shown' \in {shown, [obj |-> current + 1, same |-> TRUE, gen |-> 0,
                              wallets |-> server.wallets]}
      /\ objs' = [d \in Objs |->
                    IF d = current + 1 THEN Fetched(server)
                    ELSE IF d \in {shown'.obj} \cup {ops[o].obj : o \in Running} THEN objs[d]
                    ELSE NoData]
      /\ UNCHANGED <<server, stamp, ops, started>>
  BY DEF Refetch
<1>2. mishaps' = IF Running # {} THEN mishaps \cup {"refetch"}
                 ELSE (IF shown'.obj = current' THEN {} ELSE mishaps \cap {"torn", "rewound"})
                        \cup (IF Twins(server.tgroups) \/ Twins(server.alerts)
                              THEN {"twins"} ELSE {})
  BY DEF Refetch
<1>3. current' \in Objs
  BY <1>1, AlertOpsAssumption DEF Typed, Objs
<1>4. objs' \in [Objs -> DataObject]
  BY <1>1, FetchedFacts, NoDataFacts DEF Typed
<1>5. objs'[current'] = Fetched(server)
  BY <1>1, <1>3
<1>6. \A d \in Objs \ {current'} : objs'[d] \in {objs[d], NoData}
  BY <1>1
<1>7. \A d \in Objs \ {current'} :
        d = shown'.obj \/ (\E o \in Running : ops[o].obj = d) => objs'[d] = objs[d]
  BY <1>1
<1>8. \/ shown' = shown
      \/ shown' \in Pages /\ shown'.obj = current' /\ shown'.gen = 0
         /\ shown'.wallets = server.wallets
  <2>1. server.wallets \subseteq Plain
    BY DEF Typed, ServerState
  <2>2. CASE shown' # shown
    <3>1. shown' = [obj |-> current', same |-> TRUE, gen |-> 0, wallets |-> server.wallets]
      BY <1>1, <2>2
    <3> QED
      BY <2>1, <3>1, <1>3 DEF Pages
  <2> QED
    BY <2>2
<1> QED
  BY <1>1, <1>2, <1>3, <1>4, <1>5, <1>6, <1>7, <1>8

-----------------------------------------------------------------------------
(* Whole                                                                     *)

LEMMA ServerIds ==
  ASSUME Typed, NEW f \in ServerFields, NEW x \in server[f]
  PROVE  x.id \in Nat
BY DEF Typed, ServerState, ServerFields, Arrays, Target, Plain, Source, SourceGroup,
       TargetGroup, ServerAlert

LEMMA PutFacts ==
  ASSUME NEW S, NEW x
  PROVE  /\ x \in Put(S, x)
         /\ \A y \in Put(S, x) : y = x \/ (y \in S /\ y.id # x.id)
         /\ \A y \in S : y.id # x.id => y \in Put(S, x)
<1>1. Put(S, x) = {y \in S : y.id # x.id} \cup {x}
  BY DEF Put
<1> QED
  BY <1>1

LEMMA MadeIds ==
  ASSUME Typed, ServerWhole, NEW field \in ServerFields, NEW x, Made(field, x),
         x.id \in Nat, x.id <= stamp + 1
  PROVE  \A f \in ServerFields : Unique(server'[f]) /\ Below(server'[f], stamp')
<1> SUFFICES ASSUME NEW f \in ServerFields
             PROVE  Unique(server'[f]) /\ Below(server'[f], stamp')
  OBVIOUS
<1>1. stamp' = stamp + 1 /\ stamp \in Nat
  BY DEF Typed, Made
<1>2. Unique(server[f]) /\ Below(server[f], stamp)
  BY DEF ServerWhole
<1>3. \A y \in server[f] : y.id \in Nat
  BY ServerIds
<1>4. CASE f # field
  <2>1. server'[f] = server[f]
    BY <1>4 DEF Made
  <2> QED
    BY <2>1, <1>1, <1>2, <1>3 DEF Unique, Below
<1>5. CASE f = field
  <2>1. server'[f] = Put(server[f], x)
    BY <1>5 DEF Made
  <2>2. \A y \in server'[f] : y = x \/ (y \in server[f] /\ y.id # x.id)
    BY <2>1, PutFacts
  <2>3. Unique(server'[f])
    BY <2>2, <1>2 DEF Unique
  <2>4. Below(server'[f], stamp')
    BY <2>2, <1>1, <1>2, <1>3 DEF Below
  <2> QED
    BY <2>3, <2>4
<1> QED
  BY <1>4, <1>5

LEMMA DroppedIds ==
  ASSUME Typed, ServerWhole, NEW field \in ServerFields, NEW id, Dropped(field, id)
  PROVE  \A f \in ServerFields : Unique(server'[f]) /\ Below(server'[f], stamp')
<1> SUFFICES ASSUME NEW f \in ServerFields
             PROVE  Unique(server'[f]) /\ Below(server'[f], stamp')
  OBVIOUS
<1>1. stamp' = stamp /\ server'[f] \subseteq server[f]
  BY DEF Dropped
<1> QED
  BY <1>1 DEF ServerWhole, Unique, Below

\* Time goes on: numbers, wallets and data objects only get more.
Grows ==
  stamp \in Nat /\ stamp' \in Nat /\ stamp <= stamp' /\ server.wallets \subseteq server'.wallets

LEMMA PerformsWhole ==
  ASSUME Typed, ServerWhole, NEW r, NEW res, Performs(r, res)
  PROVE  /\ ServerWhole' /\ Grows /\ server' \in ServerState
         /\ r.pc = "alert" => res.id <= stamp'
         /\ r.pc = "wallet" => res \in server'.wallets
<1>0. /\ stamp \in Nat /\ server \in ServerState
      /\ \A f \in {"targets", "sources", "discords", "wallets", "sgroups", "tgroups", "alerts"} :
           f \in ServerFields
  BY DEF Typed, ServerFields, Arrays
<1>1. \A a \in server.alerts :
        (\E g \in server.sgroups : g.id = a.sgroup) /\ (\E g \in server.tgroups : g.id = a.tgroup)
  BY DEF ServerWhole
<1>2. ASSUME NEW f \in {"targets", "sources", "discords"}, Made(f, res), res.id = stamp + 1,
             r.pc \notin {"alert", "wallet"}
      PROVE  /\ ServerWhole' /\ Grows /\ server' \in ServerState
  <2>1. \A g \in ServerFields : Unique(server'[g]) /\ Below(server'[g], stamp')
    BY <1>0, <1>2, MadeIds
  <2>2. /\ server'.alerts = server.alerts /\ server'.sgroups = server.sgroups
        /\ server'.tgroups = server.tgroups /\ server'.wallets = server.wallets
        /\ stamp' = stamp + 1 /\ server' \in ServerState
    BY <1>2 DEF Made, ServerFields, Arrays
  <2> QED
    BY <2>1, <2>2, <1>0, <1>1 DEF ServerWhole, Grows
<1>3. CASE r.pc = "wallet" /\ res \in Plain /\ res.id = stamp + 1 /\ Made("wallets", res)
  <2>1. \A g \in ServerFields : Unique(server'[g]) /\ Below(server'[g], stamp')
    BY <1>0, <1>3, MadeIds
  <2>2. /\ server'.alerts = server.alerts /\ server'.sgroups = server.sgroups
        /\ server'.tgroups = server.tgroups /\ server'.wallets = Put(server.wallets, res)
        /\ stamp' = stamp + 1 /\ server' \in ServerState
    BY <1>3 DEF Made, ServerFields, Arrays
  <2>3. \A w \in server.wallets : w.id # res.id
    <3>1. Below(server.wallets, stamp) /\ \A w \in server.wallets : w.id \in Nat
      BY <1>0, ServerIds DEF ServerWhole
    <3> QED
      BY <3>1, <1>0, <1>3 DEF Below
  <2>4. server.wallets \subseteq server'.wallets /\ res \in server'.wallets
    BY <2>2, <2>3, PutFacts
  <2> QED
    BY <2>1, <2>2, <2>4, <1>0, <1>1, <1>3 DEF ServerWhole, Grows
<1>4. CASE /\ r.pc = "sourceGroup" /\ res \in SourceGroup /\ Made("sgroups", res)
           /\ res.id = stamp + 1 \/ \E g \in server.sgroups : g.id = res.id
  <2>0. res.id \in Nat /\ res.id <= stamp + 1
    <3>1. Below(server.sgroups, stamp)
      BY <1>0 DEF ServerWhole
    <3>2. res.id \in Nat
      BY <1>4 DEF SourceGroup
    <3> QED
      BY <3>1, <3>2, <1>0, <1>4 DEF Below
  <2>1. \A g \in ServerFields : Unique(server'[g]) /\ Below(server'[g], stamp')
    BY <2>0, <1>0, <1>4, MadeIds
  <2>2. /\ server'.alerts = server.alerts /\ server'.sgroups = Put(server.sgroups, res)
        /\ server'.tgroups = server.tgroups /\ server'.wallets = server.wallets
        /\ stamp' = stamp + 1 /\ server' \in ServerState
    BY <1>4 DEF Made, ServerFields, Arrays
  <2>3. \A i : (\E g \in server.sgroups : g.id = i) => \E g \in server'.sgroups : g.id = i
    BY <2>2, PutFacts
  <2> QED
    <3>1. \A a \in server'.alerts :
            /\ \E g \in server'.sgroups : g.id = a.sgroup
            /\ \E g \in server'.tgroups : g.id = a.tgroup
      BY <2>2, <2>3, <1>1
    <3>2. ServerWhole'
      BY <2>1, <3>1 DEF ServerWhole
    <3>3. Grows
      BY <2>2, <1>0 DEF Grows
    <3> QED
      BY <2>2, <3>2, <3>3, <1>4
<1>5. CASE /\ r.pc = "targetGroup" /\ res \in TargetGroup /\ Made("tgroups", res)
           /\ res.id = stamp + 1 \/ \E g \in server.tgroups : g.id = res.id
  <2>0. res.id \in Nat /\ res.id <= stamp + 1
    <3>1. Below(server.tgroups, stamp)
      BY <1>0 DEF ServerWhole
    <3>2. res.id \in Nat
      BY <1>5 DEF TargetGroup
    <3> QED
      BY <3>1, <3>2, <1>0, <1>5 DEF Below
  <2>1. \A g \in ServerFields : Unique(server'[g]) /\ Below(server'[g], stamp')
    BY <2>0, <1>0, <1>5, MadeIds
  <2>2. /\ server'.alerts = server.alerts /\ server'.tgroups = Put(server.tgroups, res)
        /\ server'.sgroups = server.sgroups /\ server'.wallets = server.wallets
        /\ stamp' = stamp + 1 /\ server' \in ServerState
    BY <1>5 DEF Made, ServerFields, Arrays
  <2>3. \A i : (\E g \in server.tgroups : g.id = i) => \E g \in server'.tgroups : g.id = i
    BY <2>2, PutFacts
  <2> QED
    <3>1. \A a \in server'.alerts :
            /\ \E g \in server'.sgroups : g.id = a.sgroup
            /\ \E g \in server'.tgroups : g.id = a.tgroup
      BY <2>2, <2>3, <1>1
    <3>2. ServerWhole'
      BY <2>1, <3>1 DEF ServerWhole
    <3>3. Grows
      BY <2>2, <1>0 DEF Grows
    <3> QED
      BY <2>2, <3>2, <3>3, <1>5
<1>6. CASE /\ r.pc = "alert" /\ res \in ServerAlert /\ res.id = stamp + 1 /\ Made("alerts", res)
           /\ \E g \in server.sgroups : g.id = res.sgroup
           /\ \E g \in server.tgroups : g.id = res.tgroup
  <2>1. \A g \in ServerFields : Unique(server'[g]) /\ Below(server'[g], stamp')
    BY <1>0, <1>6, MadeIds
  <2>2. /\ server'.alerts = Put(server.alerts, res) /\ server'.sgroups = server.sgroups
        /\ server'.tgroups = server.tgroups /\ server'.wallets = server.wallets
        /\ stamp' = stamp + 1 /\ server' \in ServerState
    BY <1>6 DEF Made, ServerFields, Arrays
  <2>3. \A a \in server'.alerts : a = res \/ a \in server.alerts
    BY <2>2, PutFacts
  <2> QED
    BY <2>1, <2>2, <2>3, <1>0, <1>1, <1>6 DEF ServerWhole, Grows
<1>7. CASE r.pc = "deleteAlert" /\ Dropped("alerts", r.alert.id)
  <2>1. \A g \in ServerFields : Unique(server'[g]) /\ Below(server'[g], stamp')
    BY <1>0, <1>7, DroppedIds
  <2>2. /\ server'.alerts \subseteq server.alerts /\ server'.sgroups = server.sgroups
        /\ server'.tgroups = server.tgroups /\ server'.wallets = server.wallets
        /\ stamp' = stamp /\ server' \in ServerState
    BY <1>7 DEF Dropped, ServerFields, Arrays
  <2> QED
    BY <2>1, <2>2, <1>0, <1>1, <1>7 DEF ServerWhole, Grows
<1>8. CASE /\ r.pc = "deleteTargetGroup" /\ Dropped("tgroups", r.alert.tgroup.id)
           /\ \A a \in server.alerts : a.tgroup # r.alert.tgroup.id
  <2>1. \A g \in ServerFields : Unique(server'[g]) /\ Below(server'[g], stamp')
    BY <1>0, <1>8, DroppedIds
  <2>2. /\ server'.alerts = server.alerts /\ server'.sgroups = server.sgroups
        /\ server'.tgroups = {g \in server.tgroups : g.id # r.alert.tgroup.id}
        /\ server'.wallets = server.wallets /\ stamp' = stamp /\ server' \in ServerState
    BY <1>8 DEF Dropped, ServerFields, Arrays
  <2> QED
    BY <2>1, <2>2, <1>0, <1>1, <1>8 DEF ServerWhole, Grows
<1>9. CASE /\ r.pc = "deleteSourceGroup" /\ Dropped("sgroups", r.alert.sgroup)
           /\ \A a \in server.alerts : a.sgroup # r.alert.sgroup
  <2>1. \A g \in ServerFields : Unique(server'[g]) /\ Below(server'[g], stamp')
    BY <1>0, <1>9, DroppedIds
  <2>2. /\ server'.alerts = server.alerts /\ server'.tgroups = server.tgroups
        /\ server'.sgroups = {g \in server.sgroups : g.id # r.alert.sgroup}
        /\ server'.wallets = server.wallets /\ stamp' = stamp /\ server' \in ServerState
    BY <1>9 DEF Dropped, ServerFields, Arrays
  <2> QED
    BY <2>1, <2>2, <1>0, <1>1, <1>9 DEF ServerWhole, Grows
<1>10. \/ \E f \in {"targets", "sources", "discords"} :
             Made(f, res) /\ res.id = stamp + 1 /\ r.pc \notin {"alert", "wallet"}
       \/ r.pc = "wallet" /\ res \in Plain /\ res.id = stamp + 1 /\ Made("wallets", res)
       \/ /\ r.pc = "sourceGroup" /\ res \in SourceGroup /\ Made("sgroups", res)
          /\ res.id = stamp + 1 \/ \E g \in server.sgroups : g.id = res.id
       \/ /\ r.pc = "targetGroup" /\ res \in TargetGroup /\ Made("tgroups", res)
          /\ res.id = stamp + 1 \/ \E g \in server.tgroups : g.id = res.id
       \/ /\ r.pc = "alert" /\ res \in ServerAlert /\ res.id = stamp + 1 /\ Made("alerts", res)
          /\ \E g \in server.sgroups : g.id = res.sgroup
          /\ \E g \in server.tgroups : g.id = res.tgroup
       \/ r.pc = "deleteAlert" /\ Dropped("alerts", r.alert.id)
       \/ /\ r.pc = "deleteTargetGroup" /\ Dropped("tgroups", r.alert.tgroup.id)
          /\ \A a \in server.alerts : a.tgroup # r.alert.tgroup.id
       \/ /\ r.pc = "deleteSourceGroup" /\ Dropped("sgroups", r.alert.sgroup)
          /\ \A a \in server.alerts : a.sgroup # r.alert.sgroup
  BY DEF Performs
<1> QED
  BY <1>2, <1>3, <1>4, <1>5, <1>6, <1>7, <1>8, <1>9, <1>10

LEMMA TypedStep ==
  ASSUME Typed, NEW o \in Ops, OpsMove(o), Fits(ops'[o]),
         server' \in ServerState, stamp' \in Nat, objs' \in [Objs -> DataObject],
         current' \in Objs, started' \in 0 .. MaxStarts, shown' \in Pages,
         mishaps' \subseteq Mishaps
  PROVE  Typed'
<1>1. \A p \in Ops : Fits(ops'[p])
  BY DEF Typed, OpsMove
<1>2. ops' = [p \in Ops |-> ops'[p]]
  BY DEF OpsMove
<1> QED
  BY <1>1, <1>2 DEF Typed

\* The numbers that the client compares.
LEMMA Numbers ==
  ASSUME Typed
  PROVE  /\ stamp \in Nat /\ current \in Nat /\ shown.obj \in Nat
         /\ \A d \in Objs : \A a \in objs[d].alerts : a.id \in Nat
         /\ \A o \in Ops :
              /\ ops[o].obj \in Nat
              /\ ops[o].pc = "deleteAlert" => ops[o].alert.id \in Nat
              /\ ops[o].pc = "targetGroup" /\ ops[o].kind = "update" => ops[o].alert.id \in Nat
              /\ Pending(ops[o], "alert") => ops[o].res.id \in Nat
<1>1. /\ stamp \in Nat /\ current \in Nat /\ shown.obj \in Nat
      /\ \A d \in Objs : \A a \in objs[d].alerts : a.id \in Nat
  <2>1. stamp \in Nat /\ current \in Objs
    BY DEF Typed
  <2>2. shown.obj \in Objs
    BY DEF Typed, Pages
  <2>3. Objs \subseteq Nat
    BY AlertOpsAssumption DEF Objs
  <2>4. ASSUME NEW d \in Objs  PROVE  objs[d].alerts \subseteq Alert
    BY DEF Typed, DataObject
  <2>5. \A a \in Alert : a.id \in Nat
    BY DEF Alert
  <2> QED
    BY <2>1, <2>2, <2>3, <2>4, <2>5
<1>2. ASSUME NEW o \in Ops
      PROVE  /\ ops[o].obj \in Nat
             /\ ops[o].pc = "deleteAlert" => ops[o].alert.id \in Nat
             /\ ops[o].pc = "targetGroup" /\ ops[o].kind = "update" => ops[o].alert.id \in Nat
             /\ Pending(ops[o], "alert") => ops[o].res.id \in Nat
  <2>1. Fits(ops[o])
    BY DEF Typed
  <2>2. /\ ops[o].obj \in Objs
        /\ ops[o].pc = "deleteAlert" => AtDelete(ops[o])
        /\ ops[o].pc = "targetGroup" => AtTargetGroup(ops[o])
        /\ ops[o].pc = "alert" => AtAlert(ops[o])
    BY <2>1, Phases DEF Deleting
  <2>3. ops[o].obj \in Nat
    BY <2>2, AlertOpsAssumption DEF Objs
  <2>4. ops[o].pc = "deleteAlert" => ops[o].alert.id \in Nat
    BY <2>2 DEF AtDelete, Alert
  <2>5. ops[o].pc = "targetGroup" /\ ops[o].kind = "update" => ops[o].alert.id \in Nat
    BY <2>2 DEF AtTargetGroup, Alert, AboutCreate, AboutGroup
  <2>6. Pending(ops[o], "alert") => ops[o].res.id \in Nat
    BY <2>2 DEF AtAlert, ServerAlert, Pending
  <2> QED
    BY <2>3, <2>4, <2>5, <2>6
<1> QED
  BY <1>1, <1>2

LEMMA KnownGrows ==
  ASSUME Typed, ClientWhole, NEW o \in Ops, Grows, current' \in Nat, current <= current'
  PROVE  Known(ops[o], stamp', server'.wallets, current')
<1>1. Known(ops[o], stamp, server.wallets, current)
  BY DEF ClientWhole
<1>2. /\ ops[o].obj \in Nat /\ current \in Nat
      /\ ops[o].pc = "deleteAlert" => ops[o].alert.id \in Nat
      /\ ops[o].pc = "targetGroup" /\ ops[o].kind = "update" => ops[o].alert.id \in Nat
      /\ Pending(ops[o], "alert") => ops[o].res.id \in Nat
  BY Numbers
<1> QED
  BY <1>1, <1>2 DEF Known, Grows

LEMMA ClientStep ==
  ASSUME Typed, ClientWhole, NEW o \in Ops, OpsMove(o), Grows, current' \in Nat,
         current <= current',
         \A d \in Objs : objs'[d].wallets \subseteq server'.wallets /\ Below(objs'[d].alerts, stamp'),
         shown'.wallets \subseteq server'.wallets, shown'.obj <= current',
         Known(ops'[o], stamp', server'.wallets, current')
  PROVE  ClientWhole'
<1>1. \A p \in Ops : Known(ops'[p], stamp', server'.wallets, current')
  BY KnownGrows DEF OpsMove
<1> QED
  BY <1>1 DEF ClientWhole

LEMMA ServerStays ==
  ASSUME ServerWhole, UNCHANGED <<server, stamp>>
  PROVE  ServerWhole'
BY DEF ServerWhole

LEMMA StartWhole ==
  ASSUME Whole, NEW o \in Ops, Opens(o)
  PROVE  Whole'
<1> DEFINE n == ops'[o]
<1>1. Typed /\ ServerWhole /\ ClientWhole
  BY DEF Whole
<1>2. /\ OpsMove(o) /\ Fits(n) /\ n.pc \in {"targets", "source", "discord", "wallet", "deleteAlert"}
      /\ n.obj = IF n.pc = "wallet" THEN shown.obj ELSE current
      /\ n.pc = "wallet" => n.page = shown /\ n.res = None
      /\ n.pc = "deleteAlert" => n.alert \in objs[current].alerts
      /\ started' \in 0 .. MaxStarts
      /\ mishaps' = IF Running = {} THEN mishaps ELSE mishaps \cup {"overlap"}
      /\ UNCHANGED <<server, stamp, objs, current, shown>>
  BY DEF Opens, Starting
<1>3. /\ stamp \in Nat /\ current \in Nat /\ current \in Objs
      /\ shown.obj <= current /\ shown.wallets \subseteq server.wallets
      /\ \A d \in Objs : objs[d].wallets \subseteq server.wallets /\ Below(objs[d].alerts, stamp)
  BY <1>1, Numbers DEF ClientWhole, Typed
<1> HIDE DEF n
<1>4. Typed'
  <2>1. mishaps' \subseteq Mishaps
    BY <1>1, <1>2 DEF Typed, Mishaps
  <2>2. /\ server \in ServerState /\ stamp \in Nat /\ objs \in [Objs -> DataObject]
        /\ current \in Objs /\ shown \in Pages
    BY <1>1 DEF Typed
  <2> QED
    BY <2>1, <2>2, <1>1, <1>2, TypedStep DEF n
<1>5. Known(n, stamp, server.wallets, current)
  <2>1. n.obj <= current
    BY <1>2, <1>3
  <2>2. n.pc = "deleteAlert" => n.alert.id <= stamp
    BY <1>2, <1>3 DEF Below
  <2>3. n.pc = "wallet" => n.page.wallets \subseteq server.wallets /\ n.res = None
    BY <1>2, <1>3
  <2> QED
    BY <1>2, <2>1, <2>2, <2>3 DEF Known, Pending, Unanswered
<1>6. ClientWhole'
  <2>1. Grows
    BY <1>2, <1>3 DEF Grows
  <2> QED
    BY <2>1, <1>1, <1>2, <1>3, <1>5, ClientStep DEF n
<1> QED
  BY <1>1, <1>2, <1>4, <1>6, ServerStays DEF Whole

\* One step of an operation, from a reply to its next request.
LEMMA GoesWhole ==
  ASSUME Whole, NEW o \in Ops, Goes(o), NEW F, Moved(objs', objs, ops[o].obj, F),
         "wallets" \notin F, Below(objs'[ops[o].obj].alerts, stamp),
         ops'[o].pc \notin {"wallet", "deleteAlert"},
         ops'[o].pc = "targetGroup" /\ ops'[o].kind = "update" => ops'[o].alert.id <= stamp
  PROVE  Whole'
<1> DEFINE n == ops'[o]
           d == ops[o].obj
<1>1. Typed /\ ServerWhole /\ ClientWhole
  BY DEF Whole
<1>2. /\ OpsMove(o) /\ Fits(n) /\ n.res = None
      /\ n = Idle \/ n.obj = d
      /\ shown' = shown \/ Tells(o)
      /\ UNCHANGED <<server, stamp, current, mishaps, started>>
  BY DEF Goes
<1>3. /\ stamp \in Nat /\ current \in Nat /\ current \in Objs /\ d \in Objs /\ d <= current
      /\ shown.obj <= current /\ shown.wallets \subseteq server.wallets
      /\ \A e \in Objs : objs[e].wallets \subseteq server.wallets /\ Below(objs[e].alerts, stamp)
  BY <1>1, Numbers, Phases DEF ClientWhole, Typed, Known
<1>4. /\ objs' \in [Objs -> DataObject] /\ \A e \in Objs \ {d} : objs'[e] = objs[e]
      /\ objs'[d].wallets = objs[d].wallets
  BY DEF Moved, DataFields, Arrays
<1>5. \A e \in Objs : objs'[e].wallets \subseteq server.wallets /\ Below(objs'[e].alerts, stamp)
  BY <1>3, <1>4
<1>6. /\ shown' \in Pages /\ shown'.obj <= current /\ shown'.wallets \subseteq server.wallets
  <2>1. CASE shown' = shown
    BY <2>1, <1>1, <1>3 DEF Typed
  <2>2. CASE Tells(o)
    BY <2>2, <1>3, <1>5 DEF Tells
  <2> QED
    BY <1>2, <2>1, <2>2
<1>7. Typed'
  <2>1. /\ server \in ServerState /\ current \in Objs /\ started \in 0 .. MaxStarts
        /\ mishaps \subseteq Mishaps
    BY <1>1 DEF Typed
  <2> QED
    BY <2>1, <1>1, <1>2, <1>3, <1>4, <1>6, TypedStep
<1>8. Known(n, stamp, server.wallets, current)
  <2>1. n.obj <= current
    BY <1>2, <1>3, IdleFacts
  <2> QED
    BY <1>2, <2>1 DEF Known, Pending, Unanswered
<1>9. ClientWhole'
  <2>1. Grows
    BY <1>2, <1>3 DEF Grows
  <2> QED
    BY <2>1, <1>1, <1>2, <1>3, <1>5, <1>6, <1>8, ClientStep
<1> QED
  BY <1>1, <1>2, <1>7, <1>9, ServerStays DEF Whole

\* What the continuations that leave the list of alerts alone have in common.
LEMMA SameAlertsWhole ==
  ASSUME Whole, NEW o \in Ops, Goes(o), NEW F, Moved(objs', objs, ops[o].obj, F),
         "wallets" \notin F, "alerts" \notin F, ops'[o].pc \notin {"wallet", "deleteAlert"},
         ops'[o].pc = "targetGroup" /\ ops'[o].kind = "update" =>
           ops'[o].alert \in objs[ops[o].obj].alerts
  PROVE  Whole'
<1>1. ops[o].obj \in Objs
  BY Phases DEF Whole, Typed
<1>2. Below(objs[ops[o].obj].alerts, stamp)
  BY <1>1 DEF Whole, ClientWhole
<1>3. objs'[ops[o].obj].alerts = objs[ops[o].obj].alerts
  BY DEF Moved, DataFields
<1> QED
  BY <1>2, <1>3, GoesWhole DEF Below

LEMMA AfterTargetsWhole ==
  ASSUME Whole, NEW o \in Ops, AfterTargets(o)
  PROVE  Whole'
<1> DEFINE n == ops'[o]
<1>1. /\ Goes(o) /\ Moved(objs', objs, ops[o].obj, {"targets"})
      /\ \/ n = Idle
         \/ n.kind = "create" /\ NextSourceGroup(n)
         \/ n.kind = "update" /\ NextTargetGroup(n) /\ n.alert \in objs[ops[o].obj].alerts
         \/ n.kind = "ensureTargetGroup" /\ NextTargetGroup(n)
  BY AfterTargetsDoes DEF Whole
<1>2. /\ n.pc \notin {"wallet", "deleteAlert"}
      /\ n.pc = "targetGroup" /\ n.kind = "update" => n.alert \in objs[ops[o].obj].alerts
  BY <1>1, IdleFacts DEF NextSourceGroup, NextTargetGroup
<1>3. "wallets" \notin {"targets"} /\ "alerts" \notin {"targets"}
  OBVIOUS
<1> QED
  BY <1>1, <1>2, <1>3, SameAlertsWhole

LEMMA AfterSourceWhole ==
  ASSUME Whole, NEW o \in Ops, AfterSource(o)
  PROVE  Whole'
<1> DEFINE n == ops'[o]
<1>1. /\ Goes(o) /\ Moved(objs', objs, ops[o].obj, {"sources"})
      /\ n = Idle \/ NextSourceGroup(n)
  BY AfterSourceDoes DEF Whole
<1>2. n.pc \notin {"wallet", "deleteAlert", "targetGroup"}
  BY <1>1, IdleFacts DEF NextSourceGroup
<1>3. "wallets" \notin {"sources"} /\ "alerts" \notin {"sources"}
  OBVIOUS
<1> QED
  BY <1>1, <1>2, <1>3, SameAlertsWhole

LEMMA AfterDiscordTargetWhole ==
  ASSUME Whole, NEW o \in Ops, AfterDiscordTarget(o)
  PROVE  Whole'
<1>1. Goes(o) /\ Moved(objs', objs, ops[o].obj, {"discords"}) /\ ops'[o].pc = "idle"
  BY AfterDiscordTargetDoes, IdleFacts DEF Whole
<1>2. "wallets" \notin {"discords"} /\ "alerts" \notin {"discords"}
  OBVIOUS
<1> QED
  BY <1>1, <1>2, SameAlertsWhole

LEMMA AfterSourceGroupWhole ==
  ASSUME Whole, NEW o \in Ops, AfterSourceGroup(o)
  PROVE  Whole'
<1> DEFINE n == ops'[o]
<1>1. /\ Goes(o) /\ Moved(objs', objs, ops[o].obj, {"sgroups"})
      /\ n = Idle \/ (n.kind = "create" /\ NextTargetGroup(n))
  BY AfterSourceGroupDoes DEF Whole
<1>2. n.pc \notin {"wallet", "deleteAlert"} /\ ~(n.pc = "targetGroup" /\ n.kind = "update")
  BY <1>1, IdleFacts DEF NextTargetGroup
<1>3. "wallets" \notin {"sgroups"} /\ "alerts" \notin {"sgroups"}
  OBVIOUS
<1> QED
  BY <1>1, <1>2, <1>3, SameAlertsWhole

LEMMA AfterTargetGroupWhole ==
  ASSUME Whole, NEW o \in Ops, AfterTargetGroup(o)
  PROVE  Whole'
<1> DEFINE r == ops[o]
           n == ops'[o]
           old == objs[r.obj].alerts
           new == objs'[r.obj].alerts
<1>1. /\ Typed /\ r.pc = "targetGroup" /\ r.res \in TargetGroup /\ Goes(o)
      /\ Moved(objs', objs, r.obj, {"tgroups", "alerts"})
      /\ new = IF r.kind = "update" THEN Replace(old, r.alert, WithGroup(r.alert, r.res)) ELSE old
      /\ n.pc = "alert" \/ n = Idle
  BY AfterTargetGroupDoes DEF Whole, Pending
<1>2. r.kind = "update" => r.alert \in Alert /\ r.alert.id <= stamp
  <2>1. AtTargetGroup(r)
    BY <1>1, Phases DEF Typed
  <2>2. Known(r, stamp, server.wallets, current)
    BY DEF Whole, ClientWhole
  <2> QED
    BY <2>1, <2>2, <1>1 DEF AtTargetGroup, AboutCreate, AboutGroup, Known
<1>3. Below(old, stamp)
  BY <1>1, Phases DEF Typed, Whole, ClientWhole
<1>4. Below(new, stamp)
  <2>1. CASE r.kind = "update"
    <3>1. WithGroup(r.alert, r.res).id <= stamp
      BY <1>1, <1>2, <2>1, WithGroupFacts
    <3>2. \A a \in new : a \in old \/ a = WithGroup(r.alert, r.res)
      BY <1>1, <2>1 DEF Replace
    <3> QED
      BY <1>3, <3>1, <3>2 DEF Below
  <2>2. CASE r.kind # "update"
    BY <1>1, <1>3, <2>2
  <2> QED
    BY <2>1, <2>2
<1>5. n.pc \notin {"wallet", "deleteAlert", "targetGroup"}
  BY <1>1, IdleFacts
<1>6. "wallets" \notin {"tgroups", "alerts"}
  OBVIOUS
<1> QED
  BY <1>1, <1>4, <1>5, <1>6, GoesWhole

LEMMA AfterAlertWhole ==
  ASSUME Whole, NEW o \in Ops, AfterAlert(o)
  PROVE  Whole'
<1> DEFINE r == ops[o]
           old == objs[r.obj].alerts
           new == objs'[r.obj].alerts
<1>1. /\ Typed /\ Pending(r, "alert") /\ r.res \in ServerAlert /\ r.alert \in TargetGroup
      /\ Goes(o) /\ ops'[o].pc = "idle" /\ Moved(objs', objs, r.obj, {"alerts"})
      /\ new = old \cup {Embed(r.res, r.alert)}
  BY AfterAlertDoes, IdleFacts DEF Whole
<1>2. Embed(r.res, r.alert).id <= stamp
  <2>1. Known(r, stamp, server.wallets, current)
    BY DEF Whole, ClientWhole
  <2>2. r.res.id <= stamp
    BY <1>1, <2>1 DEF Known
  <2> QED
    BY <1>1, <2>2, EmbedFacts
<1>3. Below(old, stamp)
  BY <1>1, Phases DEF Typed, Whole, ClientWhole
<1>4. Below(new, stamp)
  BY <1>1, <1>2, <1>3 DEF Below
<1>5. "wallets" \notin {"alerts"}
  OBVIOUS
<1> QED
  BY <1>1, <1>4, <1>5, GoesWhole

LEMMA AfterDeleteAlertWhole ==
  ASSUME Whole, NEW o \in Ops, AfterDeleteAlert(o)
  PROVE  Whole'
<1> DEFINE r == ops[o]
<1>1. /\ Typed /\ Goes(o) /\ Moved(objs', objs, r.obj, {"alerts", "agen"})
      /\ objs'[r.obj].alerts = objs[r.obj].alerts \ {r.alert}
      /\ ops'[o].pc \in {"idle", "deleteSourceGroup", "deleteTargetGroup"}
  BY AfterDeleteAlertDoes, IdleFacts DEF Whole, DeletesOn
<1>2. Below(objs[r.obj].alerts, stamp)
  BY <1>1, Phases DEF Typed, Whole, ClientWhole
<1>3. Below(objs'[r.obj].alerts, stamp)
  BY <1>1, <1>2 DEF Below
<1>4. "wallets" \notin {"alerts", "agen"}
  OBVIOUS
<1> QED
  BY <1>1, <1>3, <1>4, GoesWhole

LEMMA AfterDeleteTargetGroupWhole ==
  ASSUME Whole, NEW o \in Ops, AfterDeleteTargetGroup(o)
  PROVE  Whole'
<1>1. /\ Goes(o) /\ Moved(objs', objs, ops[o].obj, {"tgroups", "tgen"})
      /\ ops'[o].pc \in {"idle", "deleteSourceGroup"}
  BY AfterDeleteTargetGroupDoes, IdleFacts DEF Whole, DeletesOn
<1>2. "wallets" \notin {"tgroups", "tgen"} /\ "alerts" \notin {"tgroups", "tgen"}
  OBVIOUS
<1> QED
  BY <1>1, <1>2, SameAlertsWhole

LEMMA AfterDeleteSourceGroupWhole ==
  ASSUME Whole, NEW o \in Ops, AfterDeleteSourceGroup(o)
  PROVE  Whole'
<1>1. Goes(o) /\ Moved(objs', objs, ops[o].obj, {"sgroups", "sgen"}) /\ ops'[o].pc = "idle"
  BY AfterDeleteSourceGroupDoes, IdleFacts DEF Whole
<1>2. "wallets" \notin {"sgroups", "sgen"} /\ "alerts" \notin {"sgroups", "sgen"}
  OBVIOUS
<1> QED
  BY <1>1, <1>2, SameAlertsWhole

LEMMA KnownIdle ==
  ASSUME Typed, NEW n, NEW wallets
  PROVE  Known(Idle, n, wallets, current)
<1>1. 0 <= current
  BY Numbers
<1> QED
  BY <1>1, IdleFacts DEF Known, Pending

LEMMA AfterConnectWalletWhole ==
  ASSUME Whole, NEW o \in Ops, AfterConnectWallet(o)
  PROVE  Whole'
<1> DEFINE r == ops[o]
<1>1. Typed /\ ServerWhole /\ ClientWhole
  BY DEF Whole
<1>2. /\ Pending(r, "wallet") /\ OpsMove(o) /\ ops'[o] = Idle /\ shown' \in Pages
      /\ shown'.obj = r.page.obj /\ shown'.wallets = r.page.wallets \cup {r.res}
      /\ mishaps' = IF r.page = shown THEN mishaps ELSE mishaps \cup {"rewound"}
      /\ UNCHANGED <<server, stamp, objs, current, started>>
  BY <1>1, AfterConnectWalletDoes
<1>3. /\ r.page.wallets \subseteq server.wallets /\ r.res \in server.wallets
      /\ r.page.obj <= current
  <2>1. Known(r, stamp, server.wallets, current) /\ AtWallet(r)
    BY <1>1, <1>2, Phases DEF ClientWhole, Typed, Pending
  <2> QED
    BY <2>1, <1>2 DEF Known, Pending, AtWallet
<1>4. mishaps' \subseteq Mishaps
  BY <1>1, <1>2 DEF Typed, Mishaps
<1>5. /\ server \in ServerState /\ stamp \in Nat /\ objs \in [Objs -> DataObject]
      /\ current \in Objs /\ started \in 0 .. MaxStarts /\ current \in Nat
      /\ \A d \in Objs : objs[d].wallets \subseteq server.wallets /\ Below(objs[d].alerts, stamp)
  BY <1>1, Numbers DEF Typed, ClientWhole
<1>6. Typed'
  BY <1>1, <1>2, <1>4, <1>5, IdleFacts, TypedStep
<1>7. ClientWhole'
  <2>1. Grows
    BY <1>2, <1>5 DEF Grows
  <2>2. Known(ops'[o], stamp, server.wallets, current)
    BY <1>1, <1>2, KnownIdle
  <2> QED
    BY <2>1, <2>2, <1>1, <1>2, <1>3, <1>5, ClientStep
<1> QED
  BY <1>1, <1>2, <1>6, <1>7, ServerStays DEF Whole

LEMMA RejectWhole ==
  ASSUME Whole, NEW o \in Ops, Reject(o)
  PROVE  Whole'
<1>1. Typed /\ ServerWhole /\ ClientWhole
  BY DEF Whole
<1>2. /\ OpsMove(o) /\ ops'[o] = Idle
      /\ mishaps' = IF ops[o].pc \in {"deleteTargetGroup", "deleteSourceGroup"}
                    THEN mishaps \cup {"torn"} ELSE mishaps
      /\ UNCHANGED <<server, stamp, objs, current, shown, started>>
  BY <1>1, RejectDoes
<1>3. mishaps' \subseteq Mishaps
  BY <1>1, <1>2 DEF Typed, Mishaps
<1>4. /\ server \in ServerState /\ stamp \in Nat /\ objs \in [Objs -> DataObject]
      /\ current \in Objs /\ started \in 0 .. MaxStarts /\ current \in Nat /\ shown \in Pages
      /\ \A d \in Objs : objs[d].wallets \subseteq server.wallets /\ Below(objs[d].alerts, stamp)
      /\ shown.wallets \subseteq server.wallets /\ shown.obj <= current
  BY <1>1, Numbers DEF Typed, ClientWhole
<1>5. Typed'
  BY <1>1, <1>2, <1>3, <1>4, IdleFacts, TypedStep
<1>6. ClientWhole'
  <2>1. Grows
    BY <1>2, <1>4 DEF Grows
  <2>2. Known(ops'[o], stamp, server.wallets, current)
    BY <1>1, <1>2, KnownIdle
  <2> QED
    BY <2>1, <2>2, <1>1, <1>2, <1>4, ClientStep
<1> QED
  BY <1>1, <1>2, <1>5, <1>6, ServerStays DEF Whole

\* A request is answered, or fails, whether it was performed or not.
LEMMA RepliedWhole ==
  ASSUME Whole, NEW o \in Ops, Replied(o), mishaps' \subseteq Mishaps,
         server' \in ServerState, ServerWhole', Grows,
         Pending(ops'[o], "alert") => ops'[o].res.id <= stamp',
         Pending(ops'[o], "wallet") => ops'[o].res \in server'.wallets
  PROVE  Whole'
<1> DEFINE n == ops'[o]
           r == ops[o]
<1>1. Typed /\ ClientWhole
  BY DEF Whole
<1>2. /\ OpsMove(o) /\ Fits(n) /\ r.res = None /\ Same(n, r, {"res"})
      /\ UNCHANGED <<objs, current, shown, started>>
  BY DEF Replied
<1>3. /\ n.pc = r.pc /\ n.kind = r.kind /\ n.alert = r.alert /\ n.page = r.page /\ n.obj = r.obj
  BY <1>2 DEF Same, Fields
<1>4. /\ stamp' \in Nat /\ objs \in [Objs -> DataObject] /\ current \in Objs /\ current \in Nat
      /\ started \in 0 .. MaxStarts /\ shown \in Pages
  BY <1>1, Numbers DEF Typed, Grows
<1>5. Typed'
  BY <1>1, <1>2, <1>4, TypedStep
<1>6. Known(n, stamp', server'.wallets, current)
  <2>1. Known(r, stamp', server'.wallets, current)
    <3>1. current' \in Nat /\ current <= current' /\ current' = current
      BY <1>2, <1>4
    <3> QED
      BY <3>1, <1>1, KnownGrows
  <2> QED
    BY <1>3, <2>1 DEF Known
<1>7. \A d \in Objs : objs[d].wallets \subseteq server'.wallets /\ Below(objs[d].alerts, stamp')
  <2>1. \A d \in Objs : objs[d].wallets \subseteq server.wallets /\ Below(objs[d].alerts, stamp)
    BY <1>1 DEF ClientWhole
  <2>2. \A d \in Objs : \A a \in objs[d].alerts : a.id \in Nat
    BY <1>1, Numbers
  <2> QED
    BY <2>1, <2>2 DEF Below, Grows
<1>8. shown.wallets \subseteq server'.wallets /\ shown.obj <= current
  BY <1>1 DEF ClientWhole, Grows
<1>9. ClientWhole'
  BY <1>1, <1>2, <1>4, <1>6, <1>7, <1>8, ClientStep
<1> QED
  BY <1>5, <1>9 DEF Whole

LEMMA ServeWhole ==
  ASSUME Whole, NEW o \in Ops, Serve(o)
  PROVE  Whole'
<1> DEFINE n == ops'[o]
<1>1. Typed /\ ServerWhole /\ mishaps \subseteq Mishaps
  BY DEF Whole, Typed
<1>2. Replied(o) /\ Performs(ops[o], n.res) /\ UNCHANGED mishaps
  BY <1>1, ServeDoes
<1>3. n.pc = ops[o].pc
  BY <1>2 DEF Replied, Same, Fields
<1>4. /\ ServerWhole' /\ Grows /\ server' \in ServerState
      /\ ops[o].pc = "alert" => n.res.id <= stamp'
      /\ ops[o].pc = "wallet" => n.res \in server'.wallets
  BY <1>1, <1>2, PerformsWhole
<1> QED
  BY <1>1, <1>2, <1>3, <1>4, RepliedWhole DEF Pending

LEMMA RefuseWhole ==
  ASSUME Whole, NEW o \in Ops, Refuse(o)
  PROVE  Whole'
<1>1. /\ Typed /\ ServerWhole /\ mishaps \subseteq Mishaps /\ server \in ServerState
      /\ stamp \in Nat
  BY DEF Whole, Typed
<1>2. Replied(o) /\ ops'[o].res = Failed /\ UNCHANGED <<server, stamp, mishaps>>
  BY <1>1, RefuseDoes
<1>3. ServerWhole' /\ Grows
  BY <1>1, <1>2, ServerStays DEF Grows
<1> QED
  BY <1>1, <1>2, <1>3, RepliedWhole DEF Pending, Unanswered

LEMMA LoseReplyWhole ==
  ASSUME Whole, NEW o \in Ops, LoseReply(o)
  PROVE  Whole'
<1>1. Typed /\ ServerWhole /\ mishaps \subseteq Mishaps
  BY DEF Whole, Typed
<1>2. Replied(o) /\ ops'[o].res = Failed /\ mishaps' = mishaps \cup {"lost"}
  BY <1>1, LoseReplyDoes
<1>3. PICK res : Performs(ops[o], res)
  BY <1>1, LoseReplyDoes
<1>4. ServerWhole' /\ Grows /\ server' \in ServerState
  BY <1>1, <1>3, PerformsWhole
<1>5. mishaps' \subseteq Mishaps
  BY <1>1, <1>2 DEF Mishaps
<1> QED
  BY <1>2, <1>4, <1>5, RepliedWhole DEF Pending, Unanswered

LEMMA FetchedBelow ==
  ASSUME Typed, ServerWhole
  PROVE  Below(Fetched(server).alerts, stamp) /\ Fetched(server).wallets = server.wallets
<1>1. server \in ServerState
  BY DEF Typed
<1>2. \A a \in server.alerts : Held(server, a).id = a.id /\ a.id <= stamp
  BY <1>1, HeldFacts DEF ServerWhole, ServerFields, Below
<1>3. Fetched(server).alerts = {Held(server, a) : a \in server.alerts}
  BY FetchedFacts
<1>4. Fetched(server).wallets = server.wallets
  BY DEF Fetched
<1> QED
  BY <1>2, <1>3, <1>4 DEF Below

LEMMA RefetchWhole ==
  ASSUME Whole, Refetch
  PROVE  Whole'
<1>1. Typed /\ ServerWhole /\ ClientWhole
  BY DEF Whole
<1>2. /\ current' = current + 1 /\ current' \in Objs /\ objs' \in [Objs -> DataObject]
      /\ objs'[current'] = Fetched(server)
      /\ \A d \in Objs \ {current'} : objs'[d] \in {objs[d], NoData}
      /\ \/ shown' = shown
         \/ shown' \in Pages /\ shown'.obj = current' /\ shown'.gen = 0
            /\ shown'.wallets = server.wallets
      /\ UNCHANGED <<server, stamp, ops, started>>
  BY <1>1, RefetchDoes
<1>3. mishaps' \subseteq Mishaps
  <2>1. mishaps \subseteq Mishaps
    BY <1>1 DEF Typed
  <2>2. mishaps' \subseteq mishaps \cup {"refetch", "torn", "rewound", "twins"}
    BY <1>1, RefetchDoes
  <2> QED
    BY <2>1, <2>2 DEF Mishaps
<1>4. shown' \in Pages
  BY <1>1, <1>2 DEF Typed
<1>5. Typed'
  BY <1>1, <1>2, <1>3, <1>4 DEF Typed
<1>6. current \in Nat /\ current' \in Nat /\ current <= current' /\ shown.obj \in Nat
  BY <1>1, <1>2, Numbers
<1>7. \A d \in Objs : objs'[d].wallets \subseteq server.wallets /\ Below(objs'[d].alerts, stamp)
  <2>1. \A d \in Objs : objs[d].wallets \subseteq server.wallets /\ Below(objs[d].alerts, stamp)
    BY <1>1 DEF ClientWhole
  <2>2. NoData.wallets \subseteq server.wallets /\ Below(NoData.alerts, stamp)
    BY NoDataFacts DEF Below
  <2>3. objs'[current'].wallets \subseteq server.wallets /\ Below(objs'[current'].alerts, stamp)
    BY <1>1, <1>2, FetchedBelow
  <2>4. ASSUME NEW d \in Objs
        PROVE  objs'[d].wallets \subseteq server.wallets /\ Below(objs'[d].alerts, stamp)
    <3>1. CASE d = current'
      BY <2>3, <3>1
    <3>2. CASE objs'[d] = objs[d]
      BY <2>1, <3>2
    <3>3. CASE objs'[d] = NoData
      BY <2>2, <3>3
    <3> QED
      BY <1>2, <3>1, <3>2, <3>3
  <2> QED
    BY <2>4
<1>8. shown'.wallets \subseteq server.wallets /\ shown'.obj <= current'
  BY <1>1, <1>2, <1>6 DEF ClientWhole
<1>9. \A o \in Ops : Known(ops[o], stamp, server.wallets, current')
  <2>1. Grows
    BY <1>1, <1>2, Numbers DEF Grows
  <2> QED
    BY <2>1, <1>1, <1>2, <1>6, KnownGrows
<1>10. ClientWhole'
  BY <1>2, <1>7, <1>8, <1>9 DEF ClientWhole
<1> QED
  BY <1>1, <1>2, <1>5, <1>10, ServerStays DEF Whole

\* The service at the start: one alert and what it refers to.
Beginning(n, v) ==
  [targets |-> {[id |-> 1, value |-> v]}, discords |-> {}, wallets |-> {},
   sources |-> {[id |-> 5, name |-> n]},
   sgroups |-> {[id |-> 2, name |-> n, source |-> 5]},
   tgroups |-> {[id |-> 3, name |-> n, target |-> 1, ver |-> 3]},
   alerts |-> {[id |-> 4, name |-> n, sgroup |-> 2, tgroup |-> 3]}]

LEMMA InitDoes ==
  ASSUME Init
  PROVE  /\ \E n \in Names, v \in Values : server = Beginning(n, v)
         /\ stamp = 5 /\ objs = [d \in Objs |-> IF d = 0 THEN Fetched(server) ELSE NoData]
         /\ current = 0 /\ ops = [o \in Ops |-> Idle] /\ started = 0
         /\ shown = [obj |-> 0, same |-> TRUE, gen |-> 0, wallets |-> {}]
         /\ mishaps = {}
BY DEF Init, Beginning

LEMMA InitServer ==
  ASSUME Init
  PROVE  server \in ServerState /\ ServerWhole /\ server.wallets = {}
<1>1. PICK n \in Names, v \in Values : server = Beginning(n, v)
  BY InitDoes
<1>2. stamp = 5
  BY InitDoes
<1>3. server \in ServerState
  BY <1>1 DEF Beginning, ServerState, Target, Plain, Source, SourceGroup, TargetGroup, ServerAlert
<1>4. /\ server.targets = {[id |-> 1, value |-> v]} /\ server.discords = {}
      /\ server.wallets = {} /\ server.sources = {[id |-> 5, name |-> n]}
      /\ server.sgroups = {[id |-> 2, name |-> n, source |-> 5]}
      /\ server.tgroups = {[id |-> 3, name |-> n, target |-> 1, ver |-> 3]}
      /\ server.alerts = {[id |-> 4, name |-> n, sgroup |-> 2, tgroup |-> 3]}
  BY <1>1 DEF Beginning
<1>5. \A f \in ServerFields : \A x, y \in server[f] : x = y /\ x.id <= 5
  BY <1>4 DEF ServerFields, Arrays
<1>6. \A f \in ServerFields : Unique(server[f]) /\ Below(server[f], stamp)
  BY <1>2, <1>5 DEF Unique, Below
<1>7. \A a \in server.alerts :
        (\E g \in server.sgroups : g.id = a.sgroup) /\ (\E g \in server.tgroups : g.id = a.tgroup)
  BY <1>4
<1> QED
  BY <1>3, <1>4, <1>6, <1>7 DEF ServerWhole

LEMMA InitWhole ==
  ASSUME Init
  PROVE  Whole
<1>1. /\ stamp = 5 /\ objs = [d \in Objs |-> IF d = 0 THEN Fetched(server) ELSE NoData]
      /\ current = 0 /\ ops = [o \in Ops |-> Idle] /\ started = 0
      /\ shown = [obj |-> 0, same |-> TRUE, gen |-> 0, wallets |-> {}]
      /\ mishaps = {}
  BY InitDoes
<1>2. server \in ServerState /\ ServerWhole /\ server.wallets = {}
  BY InitServer
<1>3. 0 \in Objs /\ 0 \in 0 .. MaxStarts
  BY AlertOpsAssumption DEF Objs
<1>4. Fetched(server) \in DataObject /\ Below(Fetched(server).alerts, stamp)
      /\ Fetched(server).wallets = {}
  <2> DEFINE alerts == {Held(server, a) : a \in server.alerts}
  <2>1. alerts \subseteq Alert /\ \A b \in alerts : b.id <= stamp
    <3>1. ASSUME NEW a \in server.alerts
          PROVE  Held(server, a) \in Alert /\ Held(server, a).id <= stamp
      <4>1. a.id <= stamp
        BY <1>2 DEF ServerWhole, Below, ServerFields
      <4> QED
        BY <4>1, <1>2, HeldFacts DEF ServerWhole
    <3> QED
      BY <3>1
  <2>2. Fetched(server) =
          [targets |-> server.targets, discords |-> server.discords, sources |-> server.sources,
           wallets |-> server.wallets, sgroups |-> server.sgroups, tgroups |-> server.tgroups,
           alerts |-> alerts, sgen |-> 0, tgen |-> 0, agen |-> 0]
    BY DEF Fetched
  <2> HIDE DEF alerts
  <2> QED
    BY <1>2, <2>1, <2>2 DEF ServerState, DataObject, Below
<1>5. objs \in [Objs -> DataObject]
  BY <1>1, <1>4, NoDataFacts
<1>6. shown \in Pages
  BY <1>1, <1>3 DEF Pages
<1>7. Typed
  BY <1>1, <1>2, <1>3, <1>5, <1>6, IdleFacts DEF Typed
<1>8. \A d \in Objs : objs[d].wallets \subseteq server.wallets /\ Below(objs[d].alerts, stamp)
  BY <1>1, <1>2, <1>4, NoDataFacts DEF Below
<1>9. \A o \in Ops : Known(ops[o], stamp, server.wallets, current)
  BY <1>1, <1>7, KnownIdle
<1>10. shown.wallets \subseteq server.wallets /\ shown.obj <= current
  BY <1>1
<1> QED
  BY <1>2, <1>7, <1>8, <1>9, <1>10 DEF Whole, ClientWhole

LEMMA ContinueWhole ==
  ASSUME Whole, NEW o \in Ops, Continue(o)
  PROVE  Whole'
BY AfterTargetsWhole, AfterSourceGroupWhole, AfterTargetGroupWhole, AfterAlertWhole,
   AfterDeleteAlertWhole, AfterDeleteTargetGroupWhole, AfterDeleteSourceGroupWhole,
   AfterSourceWhole, AfterDiscordTargetWhole, AfterConnectWalletWhole, RejectWhole
   DEF Continue

LEMMA StepWhole ==
  ASSUME Whole, [Next]_vars
  PROVE  Whole'
<1>1. CASE UNCHANGED vars
  BY <1>1 DEF Whole, Typed, ServerWhole, ClientWhole, vars
<1>2. CASE \E o \in Ops : Start(o) \/ Continue(o) \/ Serve(o) \/ Refuse(o) \/ LoseReply(o)
  <2>1. PICK o \in Ops : Start(o) \/ Continue(o) \/ Serve(o) \/ Refuse(o) \/ LoseReply(o)
    BY <1>2
  <2>2. CASE Start(o)
    <3>1. Opens(o)
      BY <2>2, StartDoes DEF Whole
    <3> QED
      BY <3>1, StartWhole
  <2> QED
    BY <2>1, <2>2, ContinueWhole, ServeWhole, RefuseWhole, LoseReplyWhole
<1>3. CASE Refetch
  BY <1>3, RefetchWhole
<1> QED
  BY <1>1, <1>2, <1>3 DEF Next

\* The types, the ids and the references are right at all times.
THEOREM WholeAlways == Spec => []Whole
<1>1. Init => Whole
  BY InitWhole
<1>2. Whole /\ [Next]_vars => Whole'
  BY StepWhole
<1> QED
  BY <1>1, <1>2, PTL DEF Spec

\* A record is idle exactly if it is of no kind.
LEMMA IdleKind ==
  ASSUME NEW r, Fits(r)
  PROVE  /\ r.pc = "idle" <=> r.kind = None
         /\ r.pc \in {"idle", "targets", "source", "sourceGroup", "targetGroup", "alert",
                      "deleteAlert", "deleteTargetGroup", "deleteSourceGroup", "discord", "wallet"}
<1>1. /\ r = Idle \/ AtTargets(r) \/ AtSource(r) \/ AtDiscord(r) \/ AtWallet(r)
         \/ AtSourceGroup(r) \/ AtTargetGroup(r) \/ AtAlert(r) \/ AtDelete(r)
  BY DEF Fits
<1>2. CASE r = Idle
  BY <1>2, IdleFacts
<1>3. CASE r # Idle
  <2>1. /\ r.pc # "idle"
        /\ r.kind \in {"create", "update", "delete", "ensureTargetGroup", "ensureSourceGroup",
                       "createSource", "createDiscordTarget", "connectWallet"}
        /\ r.pc \in {"targets", "source", "sourceGroup", "targetGroup", "alert",
                      "deleteAlert", "deleteTargetGroup", "deleteSourceGroup", "discord", "wallet"}
    BY <1>1, <1>3 DEF AtTargets, AtSource, AtDiscord, AtWallet, AtSourceGroup, AtTargetGroup,
         AtAlert, AtDelete, AboutCreate, AboutGroup, Deleting
  <2> QED
    BY <2>1, NoneAssumption
<1> QED
  BY <1>2, <1>3

LEMMA ServerArrays ==
  ASSUME server \in ServerState
  PROVE  ArraysOK(server) /\ server.alerts \subseteq ServerAlert
BY DEF ServerState, ArraysOK

LEMMA ObjectArrays ==
  ASSUME NEW x \in DataObject
  PROVE  /\ ArraysOK(x) /\ x.alerts \subseteq Alert
         /\ x.sgen \in Nat /\ x.tgen \in Nat /\ x.agen \in Nat
BY DEF DataObject, ArraysOK

\* Every variable stays within its type: among others the page shows only
\* wallets that the service knows, whatever connectWallet captured, and every
\* operation that is under way knows what it is about.
THEOREM TypeCorrect == Spec => []TypeOK
<1>1. ASSUME Whole
      PROVE  TypeOK
  <2>1. Typed /\ shown.wallets \subseteq server.wallets
    BY <1>1 DEF Whole, ClientWhole
  <2>2. ArraysOK(server) /\ server.alerts \subseteq ServerAlert
    BY <2>1, ServerArrays DEF Typed
  <2>3. \A d \in Objs :
          /\ ArraysOK(objs[d]) /\ objs[d].alerts \subseteq Alert
          /\ objs[d].sgen \in Nat /\ objs[d].tgen \in Nat /\ objs[d].agen \in Nat
    BY <2>1, ObjectArrays DEF Typed
  <2>4. shown.obj \in Objs /\ shown.same \in BOOLEAN /\ shown.gen \in Nat
    <3>1. shown \in Pages
      BY <2>1 DEF Typed
    <3> QED
      BY <3>1 DEF Pages
  <2>5. \A o \in Ops :
          /\ ops[o].obj \in Objs /\ ops[o].gen \in Nat
          /\ ops[o].pc \in {"idle", "targets", "source", "sourceGroup", "targetGroup",
                            "alert", "deleteAlert", "deleteTargetGroup",
                            "deleteSourceGroup", "discord", "wallet"}
          /\ ops[o].pc = "idle" <=> ops[o].kind = None
    BY <2>1, IdleKind, Phases DEF Typed
  <2>6. /\ current \in Objs /\ stamp \in Nat /\ started \in 0 .. MaxStarts
        /\ mishaps \subseteq {"overlap", "refetch", "lost", "torn", "rewound", "twins"}
    BY <2>1 DEF Typed, Mishaps
  <2> QED
    BY <2>1, <2>2, <2>3, <2>4, <2>5, <2>6 DEF TypeOK
<1> QED
  BY <1>1, WholeAlways, PTL

-----------------------------------------------------------------------------
(* Kept                                                                      *)

\* A step on the client's side loses no alert that the service has.
LEMMA ClientKept ==
  ASSUME AllKept, NEW o \in Ops, OpsMove(o), UNCHANGED <<server, current>>,
         WorksOn(ops'[o], current), ~Pending(ops'[o], "deleteAlert"),
         \A b \in objs[current].alerts :
           \/ \A a \in server.alerts : a.id # b.id
           \/ \E c \in objs'[current].alerts : c.id = b.id,
         Pending(ops[o], "alert") => \E c \in objs'[current].alerts : c.id = ops[o].res.id
  PROVE  AllKept'
<1>1. \A p \in Ops : WorksOn(ops'[p], current) /\ Gone(ops'[p], server.alerts)
  BY DEF AllKept, OpsMove, Gone
<1>2. ASSUME NEW a \in server.alerts
      PROVE  \/ \E b \in objs'[current].alerts : b.id = a.id
             \/ \E p \in Ops : Pending(ops'[p], "alert") /\ ops'[p].res.id = a.id
  <2>1. CASE \E b \in objs[current].alerts : b.id = a.id
    BY <2>1
  <2>2. CASE \E p \in Ops : Pending(ops[p], "alert") /\ ops[p].res.id = a.id
    <3>1. PICK p \in Ops : Pending(ops[p], "alert") /\ ops[p].res.id = a.id
      BY <2>2
    <3>2. CASE p = o
      BY <3>1, <3>2
    <3>3. CASE p # o
      BY <3>1, <3>3 DEF OpsMove
    <3> QED
      BY <3>2, <3>3
  <2> QED
    BY <2>1, <2>2 DEF AllKept, Listed, Cached
<1> QED
  BY <1>1, <1>2 DEF AllKept, Listed, Cached

LEMMA StartKept ==
  ASSUME Whole, AllKept, NEW o \in Ops, Opens(o)
  PROVE  AllKept'
<1>1. /\ OpsMove(o) /\ ops[o].pc = "idle" /\ UNCHANGED <<server, objs, current>>
      /\ ops'[o].obj = IF ops'[o].pc = "wallet" THEN shown.obj ELSE current
      /\ ops'[o].pc = "deleteAlert" => ops'[o].res = None
  BY DEF Opens, Starting
<1> QED
  BY <1>1, ClientKept DEF WorksOn, Pending, Unanswered

\* One step of an operation, from a reply to its next request.
LEMMA GoesKept ==
  ASSUME Whole, AllKept, NEW o \in Ops, Goes(o), ops[o].pc \notin {"idle", "wallet"},
         \A b \in objs[ops[o].obj].alerts :
           \/ \A a \in server.alerts : a.id # b.id
           \/ \E c \in objs'[ops[o].obj].alerts : c.id = b.id,
         Pending(ops[o], "alert") => \E c \in objs'[ops[o].obj].alerts : c.id = ops[o].res.id
  PROVE  AllKept'
<1>1. /\ OpsMove(o) /\ ops'[o].res = None /\ UNCHANGED <<server, current>>
      /\ ops'[o] = Idle \/ ops'[o].obj = ops[o].obj
  BY DEF Goes
<1>2. ops[o].obj = current
  BY DEF AllKept, WorksOn
<1>3. WorksOn(ops'[o], current) /\ ~Pending(ops'[o], "deleteAlert")
  BY <1>1, <1>2, IdleFacts DEF WorksOn, Pending, Unanswered
<1> QED
  BY <1>1, <1>2, <1>3, ClientKept

LEMMA SameAlertsKept ==
  ASSUME Whole, AllKept, NEW o \in Ops, Goes(o), NEW F, Moved(objs', objs, ops[o].obj, F),
         "alerts" \notin F, ops[o].pc \notin {"idle", "wallet", "alert"}
  PROVE  AllKept'
<1>1. objs'[ops[o].obj].alerts = objs[ops[o].obj].alerts
  BY DEF Moved, DataFields
<1> QED
  BY <1>1, GoesKept DEF Pending

LEMMA AfterTargetGroupKept ==
  ASSUME Whole, AllKept, NEW o \in Ops, AfterTargetGroup(o)
  PROVE  AllKept'
<1> DEFINE r == ops[o]
           old == objs[r.obj].alerts
           new == objs'[r.obj].alerts
<1>1. /\ Typed /\ r.pc = "targetGroup" /\ r.res \in TargetGroup /\ Goes(o)
      /\ new = IF r.kind = "update" THEN Replace(old, r.alert, WithGroup(r.alert, r.res)) ELSE old
  BY AfterTargetGroupDoes DEF Whole, Pending
<1>2. ASSUME NEW b \in old
      PROVE  \E c \in new : c.id = b.id
  <2>1. CASE r.kind = "update" /\ b = r.alert
    <3>1. r.alert \in Alert
      BY <1>1, <2>1, Phases DEF Typed, AtTargetGroup, AboutCreate, AboutGroup
    <3>2. WithGroup(r.alert, r.res).id = b.id
      BY <1>1, <2>1, <3>1, WithGroupFacts
    <3>3. WithGroup(r.alert, r.res) \in new
      BY <1>1, <1>2, <2>1 DEF Replace
    <3> QED
      BY <3>2, <3>3
  <2>2. CASE ~(r.kind = "update" /\ b = r.alert)
    BY <1>1, <1>2, <2>2 DEF Replace
  <2> QED
    BY <2>1, <2>2
<1> QED
  BY <1>1, <1>2, GoesKept DEF Pending

LEMMA AfterAlertKept ==
  ASSUME Whole, AllKept, NEW o \in Ops, AfterAlert(o)
  PROVE  AllKept'
<1> DEFINE r == ops[o]
           x == Embed(r.res, r.alert)
<1>1. /\ r.pc = "alert" /\ Goes(o) /\ x.id = r.res.id
      /\ objs'[r.obj].alerts = objs[r.obj].alerts \cup {x}
  <2>1. /\ Pending(r, "alert") /\ r.res \in ServerAlert /\ r.alert \in TargetGroup /\ Goes(o)
        /\ objs'[r.obj].alerts = objs[r.obj].alerts \cup {Embed(r.res, r.alert)}
    BY AfterAlertDoes DEF Whole
  <2>2. Embed(r.res, r.alert).id = r.res.id
    BY <2>1, EmbedFacts
  <2> QED
    BY <2>1, <2>2 DEF Pending
<1> HIDE DEF x
<1> QED
  BY <1>1, GoesKept

LEMMA AfterDeleteAlertKept ==
  ASSUME Whole, AllKept, NEW o \in Ops, AfterDeleteAlert(o)
  PROVE  AllKept'
<1> DEFINE r == ops[o]
<1>1. /\ Pending(r, "deleteAlert") /\ r.pc = "deleteAlert" /\ Goes(o)
      /\ objs'[r.obj].alerts = objs[r.obj].alerts \ {r.alert}
  BY AfterDeleteAlertDoes DEF Whole, Pending
<1>2. \A a \in server.alerts : a.id # r.alert.id
  BY <1>1 DEF AllKept, Gone
<1>3. \A b \in objs[r.obj].alerts :
        \/ \A a \in server.alerts : a.id # b.id
        \/ \E c \in objs'[r.obj].alerts : c.id = b.id
  BY <1>1, <1>2
<1> QED
  BY <1>1, <1>3, GoesKept DEF Pending

LEMMA ContinueKept ==
  ASSUME Whole, AllKept, NEW o \in Ops, Continue(o)
  PROVE  AllKept'
<1> DEFINE r == ops[o]
<1>0. Typed
  BY DEF Whole
<1>1. CASE AfterTargets(o)
  <2>1. Goes(o) /\ Moved(objs', objs, r.obj, {"targets"}) /\ r.pc = "targets"
    BY <1>0, <1>1, AfterTargetsDoes DEF Pending
  <2>2. "alerts" \notin {"targets"}
    OBVIOUS
  <2> QED
    BY <2>1, <2>2, SameAlertsKept
<1>2. CASE AfterSource(o)
  <2>1. Goes(o) /\ Moved(objs', objs, r.obj, {"sources"}) /\ r.pc = "source"
    BY <1>0, <1>2, AfterSourceDoes DEF Pending
  <2>2. "alerts" \notin {"sources"}
    OBVIOUS
  <2> QED
    BY <2>1, <2>2, SameAlertsKept
<1>3. CASE AfterDiscordTarget(o)
  <2>1. Goes(o) /\ Moved(objs', objs, r.obj, {"discords"}) /\ r.pc = "discord"
    BY <1>0, <1>3, AfterDiscordTargetDoes DEF Pending
  <2>2. "alerts" \notin {"discords"}
    OBVIOUS
  <2> QED
    BY <2>1, <2>2, SameAlertsKept
<1>4. CASE AfterSourceGroup(o)
  <2>1. Goes(o) /\ Moved(objs', objs, r.obj, {"sgroups"}) /\ r.pc = "sourceGroup"
    BY <1>0, <1>4, AfterSourceGroupDoes DEF Pending
  <2>2. "alerts" \notin {"sgroups"}
    OBVIOUS
  <2> QED
    BY <2>1, <2>2, SameAlertsKept
<1>5. CASE AfterDeleteTargetGroup(o)
  <2>1. Goes(o) /\ Moved(objs', objs, r.obj, {"tgroups", "tgen"}) /\ r.pc = "deleteTargetGroup"
    BY <1>0, <1>5, AfterDeleteTargetGroupDoes DEF Pending
  <2>2. "alerts" \notin {"tgroups", "tgen"}
    OBVIOUS
  <2> QED
    BY <2>1, <2>2, SameAlertsKept
<1>6. CASE AfterDeleteSourceGroup(o)
  <2>1. Goes(o) /\ Moved(objs', objs, r.obj, {"sgroups", "sgen"}) /\ r.pc = "deleteSourceGroup"
    BY <1>0, <1>6, AfterDeleteSourceGroupDoes DEF Pending
  <2>2. "alerts" \notin {"sgroups", "sgen"}
    OBVIOUS
  <2> QED
    BY <2>1, <2>2, SameAlertsKept
<1>7. CASE AfterConnectWallet(o) \/ Reject(o)
  <2>1. /\ OpsMove(o) /\ ops'[o] = Idle /\ ~Pending(r, "alert")
        /\ UNCHANGED <<server, objs, current>>
    BY <1>0, <1>7, AfterConnectWalletDoes, RejectDoes DEF Pending, Unanswered
  <2>2. WorksOn(ops'[o], current) /\ ~Pending(ops'[o], "deleteAlert")
    BY <2>1, IdleFacts DEF WorksOn, Pending
  <2> QED
    BY <2>1, <2>2, ClientKept
<1> QED
  BY <1>1, <1>2, <1>3, <1>4, <1>5, <1>6, <1>7, AfterTargetGroupKept, AfterAlertKept,
     AfterDeleteAlertKept DEF Continue

\* The service's own steps.
LEMMA PerformsAlerts ==
  ASSUME Typed, NEW r, NEW res, Performs(r, res)
  PROVE  \/ server'.alerts = server.alerts /\ r.pc \notin {"alert", "deleteAlert"}
         \/ /\ r.pc = "alert" /\ res \in ServerAlert /\ res.id = stamp + 1
            /\ server'.alerts = Put(server.alerts, res)
         \/ /\ r.pc = "deleteAlert" /\ res \in Plain
            /\ server'.alerts = {a \in server.alerts : a.id # r.alert.id}
BY DEF Performs, Made, Dropped, ServerFields, Arrays

LEMMA ServeKept ==
  ASSUME Whole, AllKept, NEW o \in Ops, Serve(o)
  PROVE  AllKept'
<1> DEFINE r == ops[o]
           n == ops'[o]
<1>1. Typed /\ ClientWhole /\ stamp \in Nat
  BY DEF Whole, Typed
<1>2. Replied(o) /\ Performs(r, n.res)
  BY <1>1, ServeDoes
<1>3. /\ OpsMove(o) /\ r.res = None /\ UNCHANGED <<objs, current>>
      /\ n.pc = r.pc /\ n.alert = r.alert /\ n.obj = r.obj
  BY <1>2 DEF Replied, Same, Fields
<1>4. \A p \in Ops : WorksOn(ops'[p], current)
  BY <1>3 DEF AllKept, WorksOn, OpsMove
<1>5. ~Pending(r, "alert") /\ ~Pending(r, "deleteAlert")
  BY <1>3 DEF Pending, Unanswered
<1>6. ASSUME NEW a, Listed(a)
      PROVE  Listed(a)'
  <2>1. CASE \E b \in objs[current].alerts : b.id = a.id
    BY <2>1, <1>3 DEF Listed, Cached
  <2>2. CASE \E p \in Ops : Pending(ops[p], "alert") /\ ops[p].res.id = a.id
    <3>1. PICK p \in Ops : Pending(ops[p], "alert") /\ ops[p].res.id = a.id
      BY <2>2
    <3>2. ops'[p] = ops[p]
      BY <1>3, <1>5, <3>1 DEF OpsMove
    <3> QED
      BY <3>1, <3>2 DEF Listed
  <2> QED
    BY <1>6, <2>1, <2>2 DEF Listed, Cached
<1>7. CASE server'.alerts = server.alerts /\ r.pc \notin {"alert", "deleteAlert"}
  <2>1. \A a \in server'.alerts : Listed(a)'
    BY <1>6, <1>7 DEF AllKept
  <2>2. \A p \in Ops : Gone(ops'[p], server'.alerts)
    BY <1>3, <1>7 DEF AllKept, Gone, OpsMove, Pending
  <2> QED
    BY <1>3, <1>4, <2>1, <2>2 DEF AllKept
<1>8. CASE /\ r.pc = "alert" /\ n.res \in ServerAlert /\ n.res.id = stamp + 1
           /\ server'.alerts = Put(server.alerts, n.res)
  <2>1. \A a \in server'.alerts : a = n.res \/ a \in server.alerts
    BY <1>8, PutFacts
  <2>2. Pending(n, "alert")
    BY <1>3, <1>8, NoneAssumption DEF Pending, Unanswered
  <2>3. \A a \in server'.alerts : Listed(a)'
    <3>1. ASSUME NEW a, a = n.res
          PROVE  Listed(a)'
      BY <2>2, <3>1 DEF Listed
    <3> QED
      BY <1>6, <2>1, <3>1 DEF AllKept
  <2>4. ASSUME NEW p \in Ops, Pending(ops'[p], "deleteAlert")
        PROVE  \A a \in server'.alerts : a.id # ops'[p].alert.id
    <3>1. p # o
      BY <2>4, <1>3, <1>8 DEF Pending
    <3>2. ops'[p] = ops[p] /\ Pending(ops[p], "deleteAlert")
      BY <2>4, <1>3, <3>1 DEF OpsMove
    <3>3. \A a \in server.alerts : a.id # ops[p].alert.id
      BY <3>2 DEF AllKept, Gone
    <3>4. ops[p].alert.id <= stamp /\ ops[p].alert.id \in Nat
      BY <1>1, <3>2, Numbers DEF ClientWhole, Known, Pending
    <3>5. n.res.id # ops[p].alert.id
      BY <1>1, <1>8, <3>4
    <3> QED
      BY <2>1, <3>2, <3>3, <3>5
  <2> QED
    BY <1>3, <1>4, <2>3, <2>4 DEF AllKept, Gone
<1>9. CASE /\ r.pc = "deleteAlert"
           /\ server'.alerts = {a \in server.alerts : a.id # r.alert.id}
  <2>1. \A a \in server'.alerts : Listed(a)'
    BY <1>6, <1>9 DEF AllKept
  <2>2. \A p \in Ops : Gone(ops'[p], server'.alerts)
    BY <1>3, <1>9 DEF AllKept, Gone, OpsMove
  <2> QED
    BY <1>3, <1>4, <2>1, <2>2 DEF AllKept
<1> QED
  BY <1>1, <1>2, <1>7, <1>8, <1>9, PerformsAlerts

LEMMA RefuseKept ==
  ASSUME Whole, AllKept, NEW o \in Ops, Refuse(o)
  PROVE  AllKept'
<1> DEFINE r == ops[o]
           n == ops'[o]
<1>1. Replied(o) /\ n.res = Failed /\ UNCHANGED server
  BY RefuseDoes DEF Whole
<1>2. /\ OpsMove(o) /\ r.res = None /\ UNCHANGED <<objs, current>> /\ n.pc = r.pc /\ n.obj = r.obj
  BY <1>1 DEF Replied, Same, Fields
<1>3. WorksOn(n, current) /\ ~Pending(n, "deleteAlert") /\ ~Pending(r, "alert")
  BY <1>1, <1>2 DEF AllKept, WorksOn, Pending, Unanswered
<1> QED
  BY <1>1, <1>2, <1>3, ClientKept

LEMMA FetchedListed ==
  ASSUME server \in ServerState, ServerWhole
  PROVE  \A a \in server.alerts : \E b \in Fetched(server).alerts : b.id = a.id
<1>1. \A a \in server.alerts : Held(server, a).id = a.id
  BY HeldFacts DEF ServerWhole
<1>2. Fetched(server).alerts = {Held(server, a) : a \in server.alerts}
  BY DEF Fetched
<1> QED
  BY <1>1, <1>2

LEMMA RefetchKept ==
  ASSUME Whole, Refetch, Running = {}
  PROVE  AllKept'
<1>1. /\ Typed /\ ServerWhole /\ server \in ServerState
  BY DEF Whole, Typed
<1>2. objs'[current'] = Fetched(server) /\ UNCHANGED <<server, ops>>
  BY <1>1, RefetchDoes
<1>3. \A o \in Ops : ops[o].pc = "idle"
  BY DEF Running
<1> QED
  BY <1>1, <1>2, <1>3, FetchedListed DEF AllKept, Listed, Cached, WorksOn, Gone, Pending

LEMMA InitKept ==
  ASSUME Init
  PROVE  AllKept
<1>1. /\ objs[current] = Fetched(server) /\ \A o \in Ops : ops[o].pc = "idle"
  BY InitDoes, IdleFacts, AlertOpsAssumption DEF Objs
<1> QED
  BY <1>1, InitServer, FetchedListed DEF AllKept, Listed, Cached, WorksOn, Gone, Pending

\* What a step may add to the mishaps, it never takes away but for a refetch.
LEMMA MishapsGrow ==
  ASSUME Typed, NEW o \in Ops, Start(o) \/ Continue(o) \/ Serve(o) \/ Refuse(o) \/ LoseReply(o)
  PROVE  mishaps \subseteq mishaps'
<1>1. CASE Start(o)
  BY <1>1, StartDoes DEF Opens, Starting
<1>2. CASE Continue(o)
  <2>1. CASE AfterConnectWallet(o)
    BY <2>1, AfterConnectWalletDoes
  <2>2. CASE Reject(o)
    BY <2>2, RejectDoes
  <2> QED
    BY <1>2, <2>1, <2>2, AfterTargetsDoes, AfterSourceDoes, AfterDiscordTargetDoes,
       AfterSourceGroupDoes, AfterTargetGroupDoes, AfterAlertDoes, AfterDeleteAlertDoes,
       AfterDeleteTargetGroupDoes, AfterDeleteSourceGroupDoes DEF Continue, Goes
<1>3. CASE Serve(o)
  BY <1>3, ServeDoes
<1>4. CASE Refuse(o)
  BY <1>4, RefuseDoes
<1>5. CASE LoseReply(o)
  BY <1>5, LoseReplyDoes
<1> QED
  BY <1>1, <1>2, <1>3, <1>4, <1>5

LEMMA StepKept ==
  ASSUME Whole, Kept, [Next]_vars
  PROVE  Kept'
<1> SUFFICES ASSUME mishaps' \cap {"refetch", "lost"} = {}
             PROVE  AllKept'
  BY DEF Kept
<1>1. CASE UNCHANGED vars
  BY <1>1 DEF Kept, AllKept, Listed, Cached, vars
<1>2. CASE \E o \in Ops : Start(o) \/ Continue(o) \/ Serve(o) \/ Refuse(o) \/ LoseReply(o)
  <2>1. PICK o \in Ops : Start(o) \/ Continue(o) \/ Serve(o) \/ Refuse(o) \/ LoseReply(o)
    BY <1>2
  <2>2. AllKept
    BY <2>1, MishapsGrow DEF Kept, Whole
  <2>3. CASE Start(o)
    <3>1. Opens(o)
      BY <2>3, StartDoes DEF Whole
    <3> QED
      BY <2>2, <3>1, StartKept
  <2>4. CASE LoseReply(o)
    BY <2>4, LoseReplyDoes DEF Whole
  <2> QED
    BY <2>1, <2>2, <2>3, <2>4, ContinueKept, ServeKept, RefuseKept
<1>3. CASE Refetch
  <2>1. Running = {}
    BY <1>3, RefetchDoes DEF Whole
  <2> QED
    BY <1>3, <2>1, RefetchKept
<1> QED
  BY <1>1, <1>2, <1>3 DEF Next

\* However operations of the hook overlap, and whichever of their requests
\* are refused, the cached list holds every alert that the service has as soon
\* as they have returned: a create pushes to the list that a delete installed.
THEOREM NoLostAlertTheorem == Spec => []NoLostAlert
<1>1. Init => Whole /\ Kept
  BY InitWhole, InitKept DEF Kept
<1>2. Whole /\ Kept /\ [Next]_vars => (Whole /\ Kept)'
  BY StepWhole, StepKept
<1>3. ASSUME Whole, Kept
      PROVE  NoLostAlert
  <2>1. SUFFICES ASSUME Quiet, mishaps \subseteq {"overlap", "torn", "rewound"},
                        NEW a \in server.alerts
                 PROVE  \E b \in objs[current].alerts : b.id = a.id
    BY DEF NoLostAlert
  <2>2. AllKept
    BY <1>3, <2>1 DEF Kept
  <2>3. \A o \in Ops : ~Pending(ops[o], "alert")
    BY <2>1 DEF Quiet, Running, Pending
  <2> QED
    BY <2>1, <2>2, <2>3 DEF AllKept, Listed, Cached
<1> QED
  BY <1>1, <1>2, <1>3, PTL DEF Spec

-----------------------------------------------------------------------------
(* PageTold                                                                  *)

LEMMA GoesTold ==
  ASSUME Typed, Told, NEW o \in Ops, Goes(o), NEW F, Moved(objs', objs, ops[o].obj, F),
         "agen" \notin F,
         DeletesGroups(ops[o]) => Tells(o) \/ DeletesGroups(ops'[o])
  PROVE  Told'
<1>1. /\ OpsMove(o)
      /\ shown' = shown \/ Tells(o)
      /\ ops'[o] = Idle \/ ops'[o].obj = ops[o].obj
  BY DEF Goes
<1>2. shown.obj \in Objs
  BY DEF Typed, Pages
<1>3. CASE Tells(o)
  BY <1>3 DEF Tells, Told
<1>4. CASE shown' = shown /\ shown.gen = objs[shown.obj].agen
  <2>1. objs'[shown.obj].agen = objs[shown.obj].agen
    BY <1>2 DEF Moved, DataFields
  <2> QED
    BY <1>4, <2>1 DEF Told
<1>5. ASSUME NEW p \in Ops, DeletesGroups(ops[p]), ops[p].obj = shown.obj, shown' = shown,
             ~Tells(o)
      PROVE  Told'
  <2>1. DeletesGroups(ops'[p]) /\ ops'[p].obj = shown.obj
    <3>1. CASE p = o
      BY <1>1, <1>5, <3>1, IdleFacts DEF DeletesGroups
    <3>2. CASE p # o
      BY <1>1, <1>5, <3>2 DEF OpsMove
    <3> QED
      BY <3>1, <3>2
  <2> QED
    BY <1>5, <2>1 DEF Told
<1> QED
  BY <1>1, <1>3, <1>4, <1>5 DEF Told

\* A step in which o does not delete groups, and neither data nor page change.
LEMMA QuietTold ==
  ASSUME Told, NEW o \in Ops, OpsMove(o), UNCHANGED <<objs, shown>>,
         DeletesGroups(ops[o]) => ops'[o].pc = ops[o].pc /\ ops'[o].obj = ops[o].obj
  PROVE  Told'
<1>1. CASE shown.gen = objs[shown.obj].agen
  BY <1>1 DEF Told
<1>2. CASE \E p \in Ops : DeletesGroups(ops[p]) /\ ops[p].obj = shown.obj
  <2>1. PICK p \in Ops : DeletesGroups(ops[p]) /\ ops[p].obj = shown.obj
    BY <1>2
  <2>2. DeletesGroups(ops'[p]) /\ ops'[p].obj = shown.obj
    BY <2>1 DEF OpsMove, DeletesGroups
  <2> QED
    BY <2>1, <2>2 DEF Told
<1> QED
  BY <1>1, <1>2 DEF Told

LEMMA AfterDeleteAlertTold ==
  ASSUME Typed, Told, NEW o \in Ops, AfterDeleteAlert(o)
  PROVE  Told'
<1> DEFINE r == ops[o]
           n == ops'[o]
<1>1. /\ r.pc = "deleteAlert" /\ OpsMove(o) /\ Moved(objs', objs, r.obj, {"alerts", "agen"})
      /\ n = Idle \/ n.obj = r.obj
      /\ Tells(o) \/ (DeletesGroups(n) /\ UNCHANGED shown)
  BY AfterDeleteAlertDoes DEF Pending, Goes, DeletesOn, DeletesGroups
<1>2. shown.obj \in Objs
  BY DEF Typed, Pages
<1>3. CASE Tells(o)
  BY <1>3 DEF Tells, Told
<1>4. CASE DeletesGroups(n) /\ UNCHANGED shown
  <2>1. n.obj = r.obj
    BY <1>1, <1>4, IdleFacts DEF DeletesGroups
  <2>2. CASE shown.obj = r.obj
    BY <1>4, <2>1, <2>2 DEF Told
  <2>3. CASE shown.obj # r.obj /\ shown.gen = objs[shown.obj].agen
    <3>1. objs'[shown.obj] = objs[shown.obj]
      BY <1>1, <1>2, <2>3 DEF Moved
    <3> QED
      BY <1>4, <2>3, <3>1 DEF Told
  <2>4. CASE \E p \in Ops : DeletesGroups(ops[p]) /\ ops[p].obj = shown.obj
    <3>1. PICK p \in Ops : DeletesGroups(ops[p]) /\ ops[p].obj = shown.obj
      BY <2>4
    <3>2. ops'[p] = ops[p]
      BY <1>1, <3>1 DEF OpsMove, DeletesGroups
    <3> QED
      BY <1>4, <3>1, <3>2 DEF Told
  <2> QED
    BY <2>2, <2>3, <2>4 DEF Told
<1> QED
  BY <1>1, <1>3, <1>4

LEMMA AfterConnectWalletTold ==
  ASSUME Typed, Told, NEW o \in Ops, AfterConnectWallet(o), "rewound" \notin mishaps'
  PROVE  Told'
<1> DEFINE r == ops[o]
<1>1. /\ r.pc = "wallet" /\ OpsMove(o) /\ shown'.obj = r.page.obj
      /\ shown'.gen = IF r.page.same THEN objs[r.page.obj].agen ELSE r.page.gen
      /\ mishaps' = IF r.page = shown THEN mishaps ELSE mishaps \cup {"rewound"}
      /\ UNCHANGED objs
  BY AfterConnectWalletDoes DEF Pending
<1>2. r.page = shown
  BY <1>1
<1>3. CASE shown.same \/ shown.gen = objs[shown.obj].agen
  BY <1>1, <1>2, <1>3 DEF Told
<1>4. CASE ~shown.same /\ \E p \in Ops : DeletesGroups(ops[p]) /\ ops[p].obj = shown.obj
  <2>1. PICK p \in Ops : DeletesGroups(ops[p]) /\ ops[p].obj = shown.obj
    BY <1>4
  <2>2. ops'[p] = ops[p]
    BY <1>1, <2>1 DEF OpsMove, DeletesGroups
  <2> QED
    BY <1>1, <1>2, <2>1, <2>2 DEF Told
<1> QED
  BY <1>3, <1>4 DEF Told

LEMMA ContinueTold ==
  ASSUME Typed, Told, NEW o \in Ops, Continue(o), mishaps' \cap {"torn", "rewound"} = {}
  PROVE  Told'
<1> DEFINE r == ops[o]
<1>1. CASE AfterTargets(o)
  <2>1. Goes(o) /\ Moved(objs', objs, r.obj, {"targets"}) /\ ~DeletesGroups(r)
    BY <1>1, AfterTargetsDoes DEF Pending, DeletesGroups
  <2>2. "agen" \notin {"targets"}
    OBVIOUS
  <2> QED
    BY <2>1, <2>2, GoesTold
<1>2. CASE AfterSource(o)
  <2>1. Goes(o) /\ Moved(objs', objs, r.obj, {"sources"}) /\ ~DeletesGroups(r)
    BY <1>2, AfterSourceDoes DEF Pending, DeletesGroups
  <2>2. "agen" \notin {"sources"}
    OBVIOUS
  <2> QED
    BY <2>1, <2>2, GoesTold
<1>3. CASE AfterDiscordTarget(o)
  <2>1. Goes(o) /\ Moved(objs', objs, r.obj, {"discords"}) /\ ~DeletesGroups(r)
    BY <1>3, AfterDiscordTargetDoes DEF Pending, DeletesGroups
  <2>2. "agen" \notin {"discords"}
    OBVIOUS
  <2> QED
    BY <2>1, <2>2, GoesTold
<1>4. CASE AfterSourceGroup(o)
  <2>1. Goes(o) /\ Moved(objs', objs, r.obj, {"sgroups"}) /\ ~DeletesGroups(r)
    BY <1>4, AfterSourceGroupDoes DEF Pending, DeletesGroups
  <2>2. "agen" \notin {"sgroups"}
    OBVIOUS
  <2> QED
    BY <2>1, <2>2, GoesTold
<1>5. CASE AfterTargetGroup(o)
  <2>1. Goes(o) /\ Moved(objs', objs, r.obj, {"tgroups", "alerts"}) /\ ~DeletesGroups(r)
    BY <1>5, AfterTargetGroupDoes DEF Pending, DeletesGroups
  <2>2. "agen" \notin {"tgroups", "alerts"}
    OBVIOUS
  <2> QED
    BY <2>1, <2>2, GoesTold
<1>6. CASE AfterAlert(o)
  <2>1. Goes(o) /\ Moved(objs', objs, r.obj, {"alerts"}) /\ ~DeletesGroups(r)
    BY <1>6, AfterAlertDoes DEF Pending, DeletesGroups
  <2>2. "agen" \notin {"alerts"}
    OBVIOUS
  <2> QED
    BY <2>1, <2>2, GoesTold
<1>7. CASE AfterDeleteTargetGroup(o)
  <2>1. /\ Goes(o) /\ Moved(objs', objs, r.obj, {"tgroups", "tgen"})
        /\ Tells(o) \/ DeletesGroups(ops'[o])
    BY <1>7, AfterDeleteTargetGroupDoes DEF DeletesOn, DeletesGroups
  <2>2. "agen" \notin {"tgroups", "tgen"}
    OBVIOUS
  <2> QED
    BY <2>1, <2>2, GoesTold
<1>8. CASE AfterDeleteSourceGroup(o)
  <2>1. Goes(o) /\ Moved(objs', objs, r.obj, {"sgroups", "sgen"}) /\ Tells(o)
    BY <1>8, AfterDeleteSourceGroupDoes
  <2>2. "agen" \notin {"sgroups", "sgen"}
    OBVIOUS
  <2> QED
    BY <2>1, <2>2, GoesTold
<1>9. CASE Reject(o)
  <2>1. /\ OpsMove(o) /\ UNCHANGED <<objs, shown>>
        /\ mishaps' = IF DeletesGroups(r) THEN mishaps \cup {"torn"} ELSE mishaps
    BY <1>9, RejectDoes DEF DeletesGroups
  <2>2. ~DeletesGroups(r)
    BY <2>1
  <2> QED
    BY <2>1, <2>2, QuietTold
<1>10. CASE AfterConnectWallet(o)
  BY <1>10, AfterConnectWalletTold
<1> QED
  BY <1>1, <1>2, <1>3, <1>4, <1>5, <1>6, <1>7, <1>8, <1>9, <1>10, AfterDeleteAlertTold
     DEF Continue

LEMMA RefetchTold ==
  ASSUME Whole, PageTold, Refetch, mishaps' \cap {"torn", "rewound"} = {}
  PROVE  Told'
<1>1. /\ Typed /\ ServerWhole /\ shown.obj <= current /\ current \in Nat /\ shown.obj \in Nat
      /\ shown.obj \in Objs
  BY Numbers DEF Whole, ClientWhole, Typed, Pages
<1>2. /\ current' = current + 1 /\ objs'[current'] = Fetched(server)
      /\ \A d \in Objs \ {current'} : d = shown'.obj => objs'[d] = objs[d]
      /\ shown' = shown \/ (shown'.obj = current' /\ shown'.gen = 0)
      /\ UNCHANGED ops
  BY <1>1, RefetchDoes
<1>3. CASE shown'.obj = current' /\ shown'.gen = 0
  BY <1>1, <1>2, <1>3, FetchedFacts DEF Told
<1>4. CASE shown' = shown
  <2>1. shown.obj # current'
    BY <1>1, <1>2
  <2>2. objs'[shown.obj] = objs[shown.obj]
    BY <1>1, <1>2, <1>4, <2>1
  <2>3. mishaps \cap {"torn", "rewound"} = {}
    <3>1. mishaps' = IF Running # {} THEN mishaps \cup {"refetch"}
                     ELSE (IF shown'.obj = current' THEN {} ELSE mishaps \cap {"torn", "rewound"})
                            \cup (IF Twins(server.tgroups) \/ Twins(server.alerts)
                                  THEN {"twins"} ELSE {})
      BY <1>1, RefetchDoes
    <3>2. mishaps \cap {"torn", "rewound"} \subseteq mishaps'
      BY <3>1, <1>4, <2>1
    <3> QED
      BY <3>2
  <2>4. Told
    BY <2>3 DEF PageTold
  <2> QED
    BY <1>2, <1>4, <2>2, <2>4 DEF Told
<1> QED
  BY <1>2, <1>3, <1>4

LEMMA StepTold ==
  ASSUME Whole, PageTold, [Next]_vars
  PROVE  PageTold'
<1> SUFFICES ASSUME mishaps' \cap {"torn", "rewound"} = {}
             PROVE  Told'
  BY DEF PageTold
<1>1. CASE UNCHANGED vars
  BY <1>1 DEF PageTold, Told, vars
<1>2. CASE \E o \in Ops : Start(o) \/ Continue(o) \/ Serve(o) \/ Refuse(o) \/ LoseReply(o)
  <2>1. PICK o \in Ops : Start(o) \/ Continue(o) \/ Serve(o) \/ Refuse(o) \/ LoseReply(o)
    BY <1>2
  <2>2. Told /\ Typed
    BY <2>1, MishapsGrow DEF PageTold, Whole
  <2>3. CASE Start(o)
    <3>1. OpsMove(o) /\ ops[o].pc = "idle" /\ UNCHANGED <<objs, shown>>
      BY <2>2, <2>3, StartDoes DEF Opens, Starting
    <3> QED
      BY <2>2, <3>1, QuietTold DEF DeletesGroups
  <2>4. CASE Serve(o) \/ Refuse(o) \/ LoseReply(o)
    <3>1. Replied(o)
      BY <2>2, <2>4, ServeDoes, RefuseDoes, LoseReplyDoes
    <3>2. /\ OpsMove(o) /\ UNCHANGED <<objs, shown>>
          /\ ops'[o].pc = ops[o].pc /\ ops'[o].obj = ops[o].obj
      BY <3>1 DEF Replied, Same, Fields
    <3> QED
      BY <2>2, <3>2, QuietTold
  <2> QED
    BY <2>1, <2>2, <2>3, <2>4, ContinueTold
<1>3. CASE Refetch
  BY <1>3, RefetchTold
<1> QED
  BY <1>1, <1>2, <1>3 DEF Next

LEMMA InitTold ==
  ASSUME Init
  PROVE  Told
<1>1. objs[0] = Fetched(server) /\ shown.obj = 0 /\ shown.gen = 0
  BY InitDoes, AlertOpsAssumption DEF Objs
<1>2. Fetched(server).agen = 0
  BY DEF Fetched
<1> QED
  BY <1>1, <1>2 DEF Told

-----------------------------------------------------------------------------
(* Level                                                                     *)

\* Alerts as the service has them.
IdOf(a) == [a EXCEPT !.tgroup = a.tgroup.id]

LEMMA IdOfFacts ==
  ASSUME NEW a \in Alert
  PROVE  /\ IdOf(a) \in ServerAlert /\ IdOf(a).id = a.id /\ IdOf(a).name = a.name
         /\ IdOf(a).sgroup = a.sgroup /\ IdOf(a).tgroup = a.tgroup.id
BY DEF IdOf, Alert, ServerAlert, TargetGroup

LEMMA SameAlert ==
  ASSUME NEW a \in ServerAlert, NEW b \in ServerAlert, a.id = b.id, a.name = b.name,
         a.sgroup = b.sgroup, a.tgroup = b.tgroup
  PROVE  a = b
BY DEF ServerAlert

LEMMA IdOfEmbed ==
  ASSUME NEW a \in ServerAlert, NEW g \in TargetGroup, a.tgroup = g.id
  PROVE  IdOf(Embed(a, g)) = a
<1>1. /\ Embed(a, g) \in Alert /\ Embed(a, g).id = a.id /\ Embed(a, g).name = a.name
      /\ Embed(a, g).sgroup = a.sgroup /\ Embed(a, g).tgroup = g
  BY EmbedFacts
<1> DEFINE x == Embed(a, g)
<1>2. /\ IdOf(x) \in ServerAlert /\ IdOf(x).id = a.id /\ IdOf(x).name = a.name
      /\ IdOf(x).sgroup = a.sgroup /\ IdOf(x).tgroup = g.id
  BY <1>1, IdOfFacts
<1> HIDE DEF x
<1> QED
  BY <1>2, SameAlert DEF x

LEMMA IdOfWithGroup ==
  ASSUME NEW a \in Alert, NEW g \in TargetGroup, a.tgroup.id = g.id
  PROVE  IdOf(WithGroup(a, g)) = IdOf(a)
<1> DEFINE x == WithGroup(a, g)
<1>1. /\ x \in Alert /\ x.id = a.id /\ x.name = a.name /\ x.sgroup = a.sgroup /\ x.tgroup = g
  BY WithGroupFacts
<1> HIDE DEF x
<1>2. /\ IdOf(x) \in ServerAlert /\ IdOf(x).id = a.id /\ IdOf(x).name = a.name
      /\ IdOf(x).sgroup = a.sgroup /\ IdOf(x).tgroup = g.id
  BY <1>1, IdOfFacts
<1>3. /\ IdOf(a) \in ServerAlert /\ IdOf(a).id = a.id /\ IdOf(a).name = a.name
      /\ IdOf(a).sgroup = a.sgroup /\ IdOf(a).tgroup = g.id
  BY IdOfFacts
<1>4. IdOf(x) = IdOf(a)
  BY <1>2, <1>3, SameAlert
<1> QED
  BY <1>4 DEF x

LEMMA IdsAre ==
  ASSUME NEW alerts
  PROVE  Ids(alerts) = {IdOf(a) : a \in alerts}
BY DEF Ids, IdOf

\* A change to the list of alerts is one to the list as the service has it.
LEMMA IdsWith ==
  ASSUME NEW alerts, NEW x
  PROVE  Ids(alerts \cup {x}) = Ids(alerts) \cup {IdOf(x)}
BY IdsAre

LEMMA IdsReplace ==
  ASSUME NEW alerts, NEW old \in alerts, NEW new, IdOf(new) = IdOf(old)
  PROVE  Ids(Replace(alerts, old, new)) = Ids(alerts)
<1>1. Replace(alerts, old, new) = (alerts \ {old}) \cup {new}
  BY DEF Replace
<1>2. \A y : y \in {IdOf(a) : a \in (alerts \ {old}) \cup {new}} <=> y \in {IdOf(a) : a \in alerts}
  OBVIOUS
<1>3. {IdOf(a) : a \in (alerts \ {old}) \cup {new}} = {IdOf(a) : a \in alerts}
  BY <1>2
<1> QED
  BY <1>1, <1>3, IdsAre

LEMMA IdsWithout ==
  ASSUME NEW alerts \in SUBSET Alert, Unique(alerts), NEW old \in alerts
  PROVE  Ids(alerts \ {old}) = {a \in Ids(alerts) : a.id # old.id}
<1>1. \A a \in alerts : IdOf(a).id = a.id
  BY IdOfFacts
<1>2. \A a \in alerts : a \in alerts \ {old} <=> IdOf(a).id # old.id
  BY <1>1 DEF Unique
<1>3. \A y : y \in {IdOf(a) : a \in alerts \ {old}}
               <=> y \in {b \in {IdOf(a) : a \in alerts} : b.id # old.id}
  BY <1>2
<1>4. {IdOf(a) : a \in alerts \ {old}} = {b \in {IdOf(a) : a \in alerts} : b.id # old.id}
  BY <1>3
<1> QED
  BY <1>4, IdsAre

LEMMA PutSame ==
  ASSUME NEW array, Unique(array), NEW x \in array
  PROVE  Put(array, x) = array
BY DEF Put, Unique

\* The cache has what the service has.
Even(s, c) ==
  /\ s.targets = c.targets /\ s.discords = c.discords /\ s.sources = c.sources
  /\ s.sgroups = c.sgroups /\ s.tgroups = c.tgroups /\ s.alerts = Ids(c.alerts)

LEMMA EvenMirrors ==
  ASSUME NEW s, NEW c, NEW r, r.pc \in {"idle", "wallet"} \/ r.res \in Unanswered
  PROVE  Mirrors(s, c, r) <=> Even(s, c)
<1>1. \A pc \in {"targets", "discord", "source", "sourceGroup", "deleteSourceGroup",
                 "targetGroup", "deleteTargetGroup", "alert", "deleteAlert"} : ~Pending(r, pc)
  BY DEF Pending
<1> QED
  BY <1>1 DEF Mirrors, Even

\* What CacheMirrorsServer needs of an alert in the cache.
LEMMA AlertRefers ==
  ASSUME Whole, Sound(server, Cached), server.alerts = Ids(Cached.alerts),
         NEW a \in Cached.alerts
  PROVE  /\ a \in Alert
         /\ \E g \in server.tgroups : g.id = a.tgroup.id /\ g.name = a.tgroup.name
<1>1. a \in Alert
  BY DEF Whole, Typed, Cached, DataObject
<1>2. IdOf(a) \in server.alerts /\ IdOf(a).tgroup = a.tgroup.id
  BY <1>1, IdsAre, IdOfFacts
<1>3. PICK g \in server.tgroups : g.id = a.tgroup.id
  BY <1>2 DEF Whole, ServerWhole
<1> QED
  BY <1>1, <1>3 DEF Sound

\* The one running operation takes a step.
LEMMA LevelStep ==
  ASSUME Typed, InStep, NEW o \in Ops, OpsMove(o), Fits(ops'[o]), Running \subseteq {o},
         Sound(server', objs'[current']), Mirrors(server', objs'[current'], ops'[o]),
         ops'[o] # Idle =>
           WorksOn(ops'[o], current') /\ Knows(server', objs'[current'], ops'[o])
  PROVE  InStep'
<1>1. \A p \in Ops : p # o => ops'[p].pc = "idle"
  BY DEF OpsMove, Running
<1>2. Running' = {p \in Ops : ops'[p].pc # "idle"}
  BY DEF Running
<1>3. Running' \subseteq {o}
  BY <1>1, <1>2
<1>4. ops'[o].pc = "idle" => ops'[o] = Idle
  BY Phases
<1>5. Running' = {} => Mirrors(server', objs'[current'], Idle)
  BY <1>2, <1>4
<1>6. o \in Running' => ops'[o] # Idle
  BY <1>2, IdleFacts
<1> QED
  BY <1>3, <1>5, <1>6 DEF InStep, Cached

LEMMA SoloRuns ==
  ASSUME InStep, NEW o \in Ops, ops[o].pc # "idle"
  PROVE  /\ Running \subseteq {o} /\ WorksOn(ops[o], current) /\ Sound(server, Cached)
         /\ Mirrors(server, Cached, ops[o]) /\ Knows(server, Cached, ops[o])
<1>1. o \in Running
  BY DEF Running
<1> QED
  BY <1>1 DEF InStep

LEMMA StartLevel ==
  ASSUME Whole, InStep, NEW o \in Ops, Opens(o), Running = {}
  PROVE  InStep'
<1> DEFINE n == ops'[o]
           c == objs[current]
<1>1. /\ OpsMove(o) /\ Fits(n) /\ UNCHANGED <<server, objs, current>>
      /\ n.pc \in {"targets", "source", "discord", "wallet", "deleteAlert"}
      /\ n.obj = IF n.pc = "wallet" THEN shown.obj ELSE current
      /\ \/ n.res = None
         \/ n.pc = "targets" /\ n.res \in c.targets
         \/ n.pc = "source" /\ n.res \in c.sources
      /\ n.pc = "deleteAlert" => n.alert \in c.alerts
  BY DEF Opens, Starting
<1>2. Even(server, c) /\ Sound(server, c)
  BY EvenMirrors, IdleFacts DEF InStep, Cached
<1>3. Mirrors(server, c, n)
  <2>1. CASE n.res = None
    BY <1>2, <2>1, EvenMirrors DEF Unanswered
  <2>2. CASE n.pc = "targets" /\ n.res \in c.targets
    <3>1. Unique(server.targets)
      BY DEF Whole, ServerWhole, ServerFields, Arrays
    <3>2. Put(c.targets, n.res) = c.targets
      BY <1>2, <2>2, <3>1, PutSame DEF Even
    <3> QED
      BY <1>2, <2>2, <3>2 DEF Mirrors, Even, Pending
  <2>3. CASE n.pc = "source" /\ n.res \in c.sources
    <3>1. Unique(server.sources)
      BY DEF Whole, ServerWhole, ServerFields, Arrays
    <3>2. Put(c.sources, n.res) = c.sources
      BY <1>2, <2>3, <3>1, PutSame DEF Even
    <3> QED
      BY <1>2, <2>3, <3>2 DEF Mirrors, Even, Pending
  <2> QED
    BY <1>1, <2>1, <2>2, <2>3
<1>4. WorksOn(n, current) /\ Knows(server, c, n)
  BY <1>1 DEF WorksOn, Knows, Pending
<1> QED
  BY <1>1, <1>2, <1>3, <1>4, LevelStep DEF Whole

LEMMA RefuseLevel ==
  ASSUME Whole, InStep, NEW o \in Ops, Refuse(o)
  PROVE  InStep'
<1> DEFINE r == ops[o]
           n == ops'[o]
<1>1. Replied(o) /\ n.res = Failed /\ UNCHANGED server
  BY RefuseDoes DEF Whole
<1>2. /\ OpsMove(o) /\ Fits(n) /\ r.res = None /\ r # Idle /\ Same(n, r, {"res"})
      /\ UNCHANGED <<objs, current>>
  BY <1>1 DEF Replied
<1>3. r.pc # "idle"
  BY <1>2, Phases DEF Whole, Typed
<1>4. /\ Running \subseteq {o} /\ WorksOn(r, current) /\ Sound(server, objs[current])
      /\ Mirrors(server, objs[current], r) /\ Knows(server, objs[current], r)
  BY <1>3, SoloRuns DEF Cached
<1>5. Mirrors(server, objs[current], n)
  BY <1>1, <1>2, <1>4, EvenMirrors DEF Unanswered
<1>6. WorksOn(n, current) /\ Knows(server, objs[current], n)
  <2>1. /\ n.pc = r.pc /\ n.obj = r.obj /\ n.gen = r.gen /\ n.req = r.req /\ n.group = r.group
        /\ n.kind = r.kind /\ n.alert = r.alert /\ n.name = r.name
    BY <1>2 DEF Same, Fields
  <2>2. ~Pending(n, "alert")
    BY <1>1 DEF Pending, Unanswered
  <2> QED
    BY <1>4, <2>1, <2>2 DEF WorksOn, Knows
<1> QED
  BY <1>1, <1>2, <1>4, <1>5, <1>6, LevelStep DEF Whole

\* What a name is needed for: it tells target groups apart, and alerts.
LEMMA GroupPutNames ==
  ASSUME Whole, Sound(server, Cached), Even(server, Cached), NEW r, NEW res,
         Made("tgroups", res), res.name = r.group,
         IF r.req.id = None THEN res.id = stamp + 1
         ELSE res.id = r.req.id /\ \E g \in server.tgroups : g.id = res.id,
         IF r.req.id = None THEN \A g \in Cached.tgroups : g.name # r.group
         ELSE \E g \in Cached.tgroups : g.id = r.req.id /\ g.name = r.group
  PROVE  Sound(server', Cached)
<1>1. /\ server'.tgroups = Put(server.tgroups, res) /\ server'.alerts = server.alerts
      /\ Cached.tgroups = server.tgroups /\ server.alerts = Ids(Cached.alerts)
  BY DEF Made, ServerFields, Arrays, Even
<1>2. \A g \in server'.tgroups : g = res \/ (g \in server.tgroups /\ g.id # res.id)
  BY <1>1, PutFacts
<1>3. CASE r.req.id = None
  <2>1. \A g \in server.tgroups : g.name # res.name
    BY <1>1, <1>3
  <2>2. ~Twins(server'.tgroups)
    BY <1>2, <2>1 DEF Twins, Sound
  <2>3. ASSUME NEW a \in Cached.alerts, NEW g \in server'.tgroups, g.id = a.tgroup.id
        PROVE  g.name = a.tgroup.name
    <3>1. PICK h \in server.tgroups : h.id = a.tgroup.id
      BY <1>1, AlertRefers
    <3>2. h.id \in Nat /\ h.id <= stamp /\ stamp \in Nat
      BY ServerIds DEF Whole, ServerWhole, Typed, ServerFields, Arrays, Below
    <3>3. g # res
      BY <1>3, <2>3, <3>1, <3>2
    <3> QED
      BY <1>2, <2>3, <3>3 DEF Sound
  <2> QED
    BY <1>1, <2>2, <2>3 DEF Sound
<1>4. CASE r.req.id # None
  <2>1. PICK old \in server.tgroups : old.id = res.id /\ old.name = res.name
    BY <1>1, <1>4
  <2>2. ~Twins(server'.tgroups)
    BY <1>2, <2>1 DEF Twins, Sound
  <2>3. \A a \in Cached.alerts, g \in server'.tgroups : g.id = a.tgroup.id => g.name = a.tgroup.name
    BY <1>2, <2>1 DEF Sound
  <2> QED
    BY <1>1, <2>2, <2>3 DEF Sound
<1> QED
  BY <1>3, <1>4

LEMMA AlertMadeNames ==
  ASSUME Whole, Sound(server, Cached), Even(server, Cached), NEW res,
         Made("alerts", res), \A a \in Cached.alerts : a.name # res.name
  PROVE  Sound(server', Cached)
<1>1. /\ server'.alerts = Put(server.alerts, res) /\ server'.tgroups = server.tgroups
      /\ server.alerts = Ids(Cached.alerts)
  BY DEF Made, ServerFields, Arrays, Even
<1>2. \A a \in Cached.alerts : IdOf(a).name = a.name
  BY IdOfFacts, AlertRefers, <1>1
<1>3. \A b \in server.alerts : b.name # res.name
  BY <1>1, <1>2, IdsAre
<1>4. \A b \in server'.alerts : b = res \/ b \in server.alerts
  BY <1>1, PutFacts
<1>5. ~Twins(server'.alerts)
  BY <1>3, <1>4 DEF Twins, Sound
<1> QED
  BY <1>1, <1>5 DEF Sound

LEMMA SoundFewer ==
  ASSUME NEW s, NEW q, NEW c, Sound(s, c), q.tgroups \subseteq s.tgroups,
         q.alerts \subseteq s.alerts
  PROVE  Sound(q, c)
BY DEF Sound, Twins

\* The answer is what the cache lags behind.
LEMMA ServeMirrors ==
  ASSUME Whole, Even(server, Cached), NEW r, NEW n, NEW res, Performs(r, res), n.res = res,
         n.pc = r.pc, n.alert = r.alert,
         r.pc = "alert" => \A a \in Cached.alerts : a.id # res.id
  PROVE  Mirrors(server', Cached, n)
<1>1. /\ server.targets = Cached.targets /\ server.discords = Cached.discords
      /\ server.sources = Cached.sources /\ server.sgroups = Cached.sgroups
      /\ server.tgroups = Cached.tgroups /\ server.alerts = Ids(Cached.alerts)
  BY DEF Even
<1>2. CASE r.pc \in {"targets", "source", "discord", "wallet", "sourceGroup", "targetGroup"}
  <2>1. res \notin Unanswered
    BY <1>2, NoneAssumption DEF Performs, Unanswered
  <2>2. \A pc : Pending(n, pc) <=> r.pc = pc
    BY <2>1 DEF Pending
  <2>3. CASE r.pc = "targets"
    BY <1>1, <2>2, <2>3 DEF Performs, Made, ServerFields, Arrays, Mirrors
  <2>4. CASE r.pc = "source"
    BY <1>1, <2>2, <2>4 DEF Performs, Made, ServerFields, Arrays, Mirrors
  <2>5. CASE r.pc = "discord"
    BY <1>1, <2>2, <2>5 DEF Performs, Made, ServerFields, Arrays, Mirrors
  <2>6. CASE r.pc = "wallet"
    BY <1>1, <2>2, <2>6 DEF Performs, Made, ServerFields, Arrays, Mirrors
  <2>7. CASE r.pc = "sourceGroup"
    BY <1>1, <2>2, <2>7 DEF Performs, Made, ServerFields, Arrays, Mirrors
  <2>8. CASE r.pc = "targetGroup"
    BY <1>1, <2>2, <2>8 DEF Performs, Made, ServerFields, Arrays, Mirrors
  <2> QED
    BY <1>2, <2>3, <2>4, <2>5, <2>6, <2>7, <2>8
<1>3. CASE r.pc = "alert"
  <2>1. res \notin Unanswered /\ server'.alerts = Put(server.alerts, res)
    BY <1>3, NoneAssumption DEF Performs, Unanswered, Made
  <2>2. \A pc : Pending(n, pc) <=> r.pc = pc
    BY <2>1 DEF Pending
  <2>3. \A b \in server.alerts : b.id # res.id
    <3>1. \A a \in Cached.alerts : IdOf(a).id = a.id
      BY IdOfFacts DEF Whole, Typed, Cached, DataObject
    <3> QED
      BY <1>1, <1>3, <3>1, IdsAre
  <2>4. server'.alerts = Ids(Cached.alerts) \cup {res}
    BY <1>1, <2>1, <2>3 DEF Put
  <2>5. /\ server'.targets = server.targets /\ server'.discords = server.discords
        /\ server'.sources = server.sources /\ server'.sgroups = server.sgroups
        /\ server'.tgroups = server.tgroups
    BY <1>3 DEF Performs, Made, ServerFields, Arrays
  <2>6. Pending(n, "alert")
    BY <1>3, <2>2
  <2>7. \A pc \in {"targets", "discord", "source", "sourceGroup", "deleteSourceGroup",
                   "targetGroup", "deleteTargetGroup"} : ~Pending(n, pc)
    BY <1>3, <2>2
  <2> QED
    BY <1>1, <2>4, <2>5, <2>6, <2>7 DEF Mirrors
<1>4. CASE r.pc \in Deleting
  <2>1. res \notin Unanswered
    BY <1>4, NoneAssumption DEF Performs, Unanswered, Deleting
  <2>2. \A pc : Pending(n, pc) <=> r.pc = pc
    BY <2>1 DEF Pending
  <2>3. CASE r.pc = "deleteAlert"
    <3>1. /\ server'.alerts = {y \in server.alerts : y.id # r.alert.id}
          /\ server'.targets = server.targets /\ server'.discords = server.discords
          /\ server'.sources = server.sources /\ server'.sgroups = server.sgroups
          /\ server'.tgroups = server.tgroups
      BY <2>3 DEF Performs, Dropped, ServerFields, Arrays
    <3>2. Pending(n, "deleteAlert")
      BY <2>2, <2>3
    <3>3. \A pc : pc # "deleteAlert" => ~Pending(n, pc)
      BY <2>2, <2>3
    <3> QED
      BY <1>1, <3>1, <3>2, <3>3 DEF Mirrors
  <2>4. CASE r.pc = "deleteTargetGroup"
    <3>1. /\ server'.tgroups = {y \in server.tgroups : y.id # r.alert.tgroup.id}
          /\ server'.targets = server.targets /\ server'.discords = server.discords
          /\ server'.sources = server.sources /\ server'.sgroups = server.sgroups
          /\ server'.alerts = server.alerts
      BY <2>4 DEF Performs, Dropped, ServerFields, Arrays
    <3>2. Pending(n, "deleteTargetGroup")
      BY <2>2, <2>4
    <3>3. \A pc : pc # "deleteTargetGroup" => ~Pending(n, pc)
      BY <2>2, <2>4
    <3> QED
      BY <1>1, <3>1, <3>2, <3>3 DEF Mirrors
  <2>5. CASE r.pc = "deleteSourceGroup"
    <3>1. /\ server'.sgroups = {y \in server.sgroups : y.id # r.alert.sgroup}
          /\ server'.targets = server.targets /\ server'.discords = server.discords
          /\ server'.sources = server.sources /\ server'.tgroups = server.tgroups
          /\ server'.alerts = server.alerts
      BY <2>5 DEF Performs, Dropped, ServerFields, Arrays
    <3>2. Pending(n, "deleteSourceGroup")
      BY <2>2, <2>5
    <3>3. \A pc : pc # "deleteSourceGroup" => ~Pending(n, pc)
      BY <2>2, <2>5
    <3> QED
      BY <1>1, <3>1, <3>2, <3>3 DEF Mirrors
  <2> QED
    BY <1>4, <2>3, <2>4, <2>5 DEF Deleting
<1> QED
  BY <1>2, <1>3, <1>4 DEF Performs, Deleting

LEMMA ServeSound ==
  ASSUME Whole, Even(server, Cached), Sound(server, Cached), NEW r, NEW res, Performs(r, res),
         Knows(server, Cached, r), r.pc = "alert" => r.kind = "create"
  PROVE  Sound(server', Cached)
<1>1. CASE r.pc \in {"targets", "source", "discord", "wallet", "sourceGroup"}
  <2>1. server'.tgroups = server.tgroups /\ server'.alerts = server.alerts
    BY <1>1 DEF Performs, Made, ServerFields, Arrays
  <2> QED
    BY <2>1, SoundFewer
<1>2. CASE r.pc = "targetGroup"
  <2>1. /\ Made("tgroups", res) /\ res.name = r.group
        /\ IF r.req.id = None THEN res.id = stamp + 1
           ELSE res.id = r.req.id /\ \E g \in server.tgroups : g.id = res.id
    BY <1>2 DEF Performs
  <2>2. IF r.req.id = None THEN \A g \in Cached.tgroups : g.name # r.group
        ELSE \E g \in Cached.tgroups : g.id = r.req.id /\ g.name = r.group
    BY <1>2 DEF Knows
  <2> QED
    BY <2>1, <2>2, GroupPutNames
<1>3. CASE r.pc = "alert"
  <2>1. Made("alerts", res) /\ res.name = r.name
    BY <1>3 DEF Performs
  <2>2. \A a \in Cached.alerts : a.name # res.name
    BY <1>3, <2>1 DEF Knows
  <2> QED
    BY <2>1, <2>2, AlertMadeNames
<1>4. CASE r.pc \in Deleting
  <2>1. server'.tgroups \subseteq server.tgroups /\ server'.alerts \subseteq server.alerts
    BY <1>4 DEF Performs, Dropped, ServerFields, Arrays, Deleting
  <2> QED
    BY <2>1, SoundFewer
<1> QED
  BY <1>1, <1>2, <1>3, <1>4 DEF Performs, Deleting

LEMMA ServeLevel ==
  ASSUME Whole, InStep, NEW o \in Ops, Serve(o)
  PROVE  InStep'
<1> DEFINE r == ops[o]
           n == ops'[o]
<1>1. Replied(o) /\ Performs(r, n.res)
  BY ServeDoes DEF Whole
<1>2. /\ OpsMove(o) /\ Fits(n) /\ r.res = None /\ r # Idle /\ Same(n, r, {"res"})
      /\ UNCHANGED <<objs, current>>
  BY <1>1 DEF Replied
<1>3. r.pc # "idle" /\ (r.pc = "alert" => r.kind = "create")
  <2>1. Fits(r)
    BY DEF Whole, Typed
  <2> QED
    BY <1>2, <2>1, Phases DEF AtAlert, AboutCreate
<1>4. /\ Running \subseteq {o} /\ WorksOn(r, current) /\ Sound(server, Cached)
      /\ Mirrors(server, Cached, r) /\ Knows(server, Cached, r)
  BY <1>3, SoloRuns
<1>5. Even(server, Cached)
  BY <1>2, <1>4, EvenMirrors DEF Unanswered
<1>6. /\ n.pc = r.pc /\ n.obj = r.obj /\ n.gen = r.gen /\ n.req = r.req /\ n.group = r.group
      /\ n.kind = r.kind /\ n.alert = r.alert /\ n.name = r.name
  BY <1>2 DEF Same, Fields
<1>7. r.pc = "alert" => \A a \in Cached.alerts : a.id # n.res.id
  <2>1. \A a \in Cached.alerts : a.id \in Nat /\ a.id <= stamp
    BY Numbers DEF Whole, ClientWhole, Cached, Below, Typed
  <2>2. r.pc = "alert" => n.res.id = stamp + 1 /\ stamp \in Nat
    BY <1>1 DEF Performs, Whole, Typed
  <2> QED
    BY <2>1, <2>2
<1>8. Mirrors(server', Cached, n)
  BY <1>1, <1>5, <1>6, <1>7, ServeMirrors
<1>9. Sound(server', Cached)
  BY <1>1, <1>3, <1>4, <1>5, ServeSound
<1>10. WorksOn(n, current) /\ Knows(server', Cached, n)
  <2>1. r.pc = "alert" => server'.tgroups = server.tgroups
    BY <1>1 DEF Performs, Made, ServerFields, Arrays
  <2>2. Pending(n, "alert") => \A a \in Cached.alerts : a.id # n.res.id
    BY <1>6, <1>7 DEF Pending
  <2> QED
    BY <1>4, <1>6, <2>1, <2>2 DEF WorksOn, Knows
<1>11. Cached = objs'[current]
  BY <1>2 DEF Cached
<1> QED
  BY <1>2, <1>4, <1>8, <1>9, <1>10, <1>11, LevelStep DEF Whole

\* The operation stores its answer: the cache is what the service has again.
LEMMA GoesLevel ==
  ASSUME Whole, InStep, NEW o \in Ops, Goes(o), ops[o].pc \notin {"idle", "wallet"},
         Sound(server, objs'[current]), Even(server, objs'[current]),
         ops'[o] # Idle => Knows(server, objs'[current], ops'[o])
  PROVE  InStep'
<1> DEFINE n == ops'[o]
<1>1. /\ OpsMove(o) /\ Fits(n) /\ n.res = None /\ UNCHANGED <<server, current>>
      /\ n = Idle \/ n.obj = ops[o].obj
  BY DEF Goes
<1>2. Running \subseteq {o} /\ WorksOn(ops[o], current)
  BY SoloRuns
<1>3. n # Idle => WorksOn(n, current)
  BY <1>1, <1>2 DEF WorksOn
<1>4. Mirrors(server, objs'[current], n)
  BY <1>1, EvenMirrors DEF Unanswered
<1> QED
  BY <1>1, <1>2, <1>3, <1>4, LevelStep DEF Whole

\* What o knows before it goes on.
LEMMA SoloKnows ==
  ASSUME Whole, InStep, NEW o \in Ops, ops[o].pc \notin {"idle", "wallet"}
  PROVE  /\ ops[o].obj = current /\ current \in Objs
         /\ Sound(server, objs[current]) /\ Mirrors(server, objs[current], ops[o])
         /\ Knows(server, objs[current], ops[o])
BY SoloRuns DEF WorksOn, Cached, Whole, Typed

LEMMA SoundSame ==
  ASSUME NEW s, NEW c, Sound(s, c), NEW d, d.alerts = c.alerts
  PROVE  Sound(s, d)
BY DEF Sound

\* The next request for a target group names the one that bears the name, or
\* none if none does; that of an update names the group of the alert.
LEMMA NextGroupKnown ==
  ASSUME NEW array, NEW n, n.req.id \in Found(array, n.group), \A g \in array : g.id # None
  PROVE  IF n.req.id = None THEN \A g \in array : g.name # n.group
         ELSE \E g \in array : g.id = n.req.id /\ g.name = n.group
BY FoundFacts

LEMMA GroupsHaveIds ==
  ASSUME Typed, NEW d \in Objs
  PROVE  \A g \in objs[d].tgroups : g.id # None
<1>1. \A g \in objs[d].tgroups : g.id \in Nat
  BY DEF Typed, DataObject, TargetGroup
<1> QED
  BY <1>1, NoneAssumption

LEMMA AfterTargetsLevel ==
  ASSUME Whole, InStep, NEW o \in Ops, AfterTargets(o)
  PROVE  InStep'
<1> DEFINE r == ops[o]
           n == ops'[o]
           c == objs[current]
           d == objs'[current]
<1>1. /\ Pending(r, "targets") /\ r.pc = "targets" /\ Goes(o)
      /\ Moved(objs', objs, r.obj, {"targets"})
      /\ objs'[r.obj].targets = Put(objs[r.obj].targets, r.res)
      /\ \/ n = Idle
         \/ /\ n.kind = "create" /\ NextSourceGroup(n)
            /\ \A a \in objs[r.obj].alerts : a.name # n.name
         \/ n.kind = "update" /\ NextTargetGroup(n) /\ n.alert \in objs[r.obj].alerts
         \/ n.kind = "ensureTargetGroup" /\ NextTargetGroup(n)
  BY AfterTargetsDoes DEF Whole, Pending
<1>2. /\ r.obj = current /\ current \in Objs /\ Sound(server, c) /\ Mirrors(server, c, r)
  BY <1>1, SoloKnows
<1>3. /\ d.discords = c.discords /\ d.sources = c.sources /\ d.sgroups = c.sgroups
      /\ d.tgroups = c.tgroups /\ d.alerts = c.alerts /\ d.sgen = c.sgen /\ d.tgen = c.tgen
  BY <1>1, <1>2 DEF Moved, DataFields, Arrays
<1>4. Even(server, d)
  BY <1>1, <1>2, <1>3 DEF Mirrors, Even, Pending
<1>5. Sound(server, d)
  BY <1>2, <1>3, SoundSame
<1>6. ASSUME n # Idle
      PROVE  Knows(server, d, n)
  <2>1. n.obj = current /\ Fits(n) /\ n.res = None
    BY <1>1, <1>2, <1>6 DEF Goes
  <2>2. CASE n.kind = "create" /\ NextSourceGroup(n)
    BY <1>1, <1>2, <1>3, <1>6, <2>1, <2>2 DEF Knows, NextSourceGroup, NextTargetGroup, Pending
  <2>3. CASE NextTargetGroup(n) /\ n.kind # "create"
    <3>1. n.pc = "targetGroup" /\ n.gen = c.tgen /\ n.req.id \in Found(c.tgroups, n.group)
      BY <2>1, <2>3 DEF NextTargetGroup
    <3>2. IF n.req.id = None THEN \A g \in d.tgroups : g.name # n.group
          ELSE \E g \in d.tgroups : g.id = n.req.id /\ g.name = n.group
      BY <1>2, <1>3, <3>1, NextGroupKnown, GroupsHaveIds DEF Whole
    <3>3. ASSUME n.kind = "update"
          PROVE  n.alert \in d.alerts /\ n.req.id = n.alert.tgroup.id
      <4>1. n.alert \in c.alerts
        BY <1>1, <1>2, <1>6, <3>3
      <4>2. PICK g \in server.tgroups : g.id = n.alert.tgroup.id /\ g.name = n.alert.tgroup.name
        <5>1. Sound(server, Cached) /\ server.alerts = Ids(Cached.alerts)
          BY <1>2, <1>3, <1>4 DEF Cached, Even
        <5> QED
          BY <4>1, <5>1, AlertRefers DEF Cached
      <4>3. n.group = n.alert.tgroup.name
        BY <2>1, <3>1, <3>3, Phases DEF AtTargetGroup, AboutCreate, AboutGroup
      <4>4. server.tgroups = d.tgroups
        BY <1>4 DEF Even
      <4>5. \E h \in server.tgroups : h.id = n.req.id /\ h.name = n.group
        BY <3>2, <4>2, <4>3, <4>4
      <4>6. n.req.id = n.alert.tgroup.id
        BY <1>2, <4>2, <4>3, <4>5 DEF Sound, Twins
      <4> QED
        BY <1>3, <4>1, <4>6
    <3> QED
      BY <1>3, <2>3, <3>1, <3>2, <3>3 DEF Knows, Pending
  <2> QED
    BY <1>1, <1>6, <2>2, <2>3
<1> QED
  BY <1>1, <1>4, <1>5, <1>6, GoesLevel

LEMMA AfterSourceLevel ==
  ASSUME Whole, InStep, NEW o \in Ops, AfterSource(o)
  PROVE  InStep'
<1> DEFINE r == ops[o]
           n == ops'[o]
           c == objs[current]
           d == objs'[current]
<1>1. /\ Pending(r, "source") /\ r.pc = "source" /\ Goes(o)
      /\ Moved(objs', objs, r.obj, {"sources"})
      /\ objs'[r.obj].sources = Put(objs[r.obj].sources, r.res)
      /\ n = Idle \/ (n.kind = "ensureSourceGroup" /\ NextSourceGroup(n))
  BY AfterSourceDoes DEF Whole, Pending
<1>2. /\ r.obj = current /\ current \in Objs /\ Sound(server, c) /\ Mirrors(server, c, r)
  BY <1>1, SoloKnows
<1>3. /\ d.discords = c.discords /\ d.targets = c.targets /\ d.sgroups = c.sgroups
      /\ d.tgroups = c.tgroups /\ d.alerts = c.alerts /\ d.sgen = c.sgen /\ d.tgen = c.tgen
  BY <1>1, <1>2 DEF Moved, DataFields, Arrays
<1>4. Even(server, d)
  BY <1>1, <1>2, <1>3 DEF Mirrors, Even, Pending
<1>5. Sound(server, d)
  BY <1>2, <1>3, SoundSame
<1>6. ASSUME n # Idle
      PROVE  Knows(server, d, n)
  <2>1. n.obj = current
    BY <1>1, <1>2, <1>6 DEF Goes
  <2> QED
    BY <1>1, <1>3, <1>6, <2>1 DEF Knows, NextSourceGroup, Pending
<1> QED
  BY <1>1, <1>4, <1>5, <1>6, GoesLevel

LEMMA AfterDiscordTargetLevel ==
  ASSUME Whole, InStep, NEW o \in Ops, AfterDiscordTarget(o)
  PROVE  InStep'
<1> DEFINE r == ops[o]
           c == objs[current]
           d == objs'[current]
<1>1. /\ Pending(r, "discord") /\ r.pc = "discord" /\ Goes(o) /\ ops'[o] = Idle
      /\ Moved(objs', objs, r.obj, {"discords"})
      /\ objs'[r.obj].discords = Put(objs[r.obj].discords, r.res)
  BY AfterDiscordTargetDoes DEF Whole, Pending
<1>2. /\ r.obj = current /\ current \in Objs /\ Sound(server, c) /\ Mirrors(server, c, r)
  BY <1>1, SoloKnows
<1>3. /\ d.sources = c.sources /\ d.targets = c.targets /\ d.sgroups = c.sgroups
      /\ d.tgroups = c.tgroups /\ d.alerts = c.alerts
  BY <1>1, <1>2 DEF Moved, DataFields, Arrays
<1>4. Even(server, d)
  BY <1>1, <1>2, <1>3 DEF Mirrors, Even, Pending
<1>5. Sound(server, d)
  BY <1>2, <1>3, SoundSame
<1> QED
  BY <1>1, <1>4, <1>5, GoesLevel

LEMMA AfterSourceGroupLevel ==
  ASSUME Whole, InStep, NEW o \in Ops, AfterSourceGroup(o)
  PROVE  InStep'
<1> DEFINE r == ops[o]
           n == ops'[o]
           c == objs[current]
           d == objs'[current]
<1>1. /\ Pending(r, "sourceGroup") /\ r.pc = "sourceGroup" /\ Goes(o)
      /\ Moved(objs', objs, r.obj, {"sgroups"})
      /\ objs'[r.obj].sgroups = IF objs[r.obj].sgen = r.gen THEN Put(objs[r.obj].sgroups, r.res)
                                ELSE objs[r.obj].sgroups
      /\ n = Idle \/ (n.kind = "create" /\ NextTargetGroup(n) /\ n.name = r.name)
  BY AfterSourceGroupDoes DEF Whole, Pending
<1>2. /\ r.obj = current /\ current \in Objs /\ Sound(server, c) /\ Mirrors(server, c, r)
      /\ Knows(server, c, r)
  BY <1>1, SoloKnows
<1>3. /\ d.sources = c.sources /\ d.targets = c.targets /\ d.discords = c.discords
      /\ d.tgroups = c.tgroups /\ d.alerts = c.alerts /\ d.tgen = c.tgen
  BY <1>1, <1>2 DEF Moved, DataFields, Arrays
<1>4. Even(server, d)
  BY <1>1, <1>2, <1>3 DEF Mirrors, Even, Pending, Knows
<1>5. Sound(server, d)
  BY <1>2, <1>3, SoundSame
<1>6. ASSUME n # Idle
      PROVE  Knows(server, d, n)
  <2>1. n.obj = current /\ r.kind = "create"
    BY <1>1, <1>2, <1>6 DEF Goes
  <2>2. n.pc = "targetGroup" /\ n.gen = c.tgen /\ n.req.id \in Found(c.tgroups, n.group)
    BY <1>1, <1>6, <2>1 DEF NextTargetGroup
  <2>3. IF n.req.id = None THEN \A g \in d.tgroups : g.name # n.group
        ELSE \E g \in d.tgroups : g.id = n.req.id /\ g.name = n.group
    BY <1>2, <1>3, <2>2, NextGroupKnown, GroupsHaveIds DEF Whole
  <2>4. \A a \in d.alerts : a.name # n.name
    BY <1>1, <1>2, <1>3, <1>6, <2>1 DEF Knows
  <2> QED
    BY <1>1, <1>3, <1>6, <2>2, <2>3, <2>4 DEF Knows, Pending
<1> QED
  BY <1>1, <1>4, <1>5, <1>6, GoesLevel

LEMMA AfterDeleteAlertLevel ==
  ASSUME Whole, InStep, NEW o \in Ops, AfterDeleteAlert(o)
  PROVE  InStep'
<1> DEFINE r == ops[o]
           n == ops'[o]
           c == objs[current]
           d == objs'[current]
<1>1. /\ Pending(r, "deleteAlert") /\ r.pc = "deleteAlert" /\ Goes(o)
      /\ Moved(objs', objs, r.obj, {"alerts", "agen"})
      /\ objs'[r.obj].alerts = objs[r.obj].alerts \ {r.alert}
      /\ n = Idle \/ (n.kind = "delete" /\ n.pc \in {"deleteSourceGroup", "deleteTargetGroup"})
  BY AfterDeleteAlertDoes DEF Whole, Pending, DeletesOn
<1>2. /\ r.obj = current /\ current \in Objs /\ Sound(server, c) /\ Mirrors(server, c, r)
      /\ Knows(server, c, r)
  BY <1>1, SoloKnows
<1>3. /\ d.sources = c.sources /\ d.targets = c.targets /\ d.discords = c.discords
      /\ d.tgroups = c.tgroups /\ d.sgroups = c.sgroups
  BY <1>1, <1>2 DEF Moved, DataFields, Arrays
<1>4. server.alerts = Ids(d.alerts)
  <2>1. server.alerts = {a \in Ids(c.alerts) : a.id # r.alert.id}
    BY <1>1, <1>2 DEF Mirrors, Pending
  <2>2. c.alerts \in SUBSET Alert /\ Unique(c.alerts) /\ r.alert \in c.alerts
    BY <1>1, <1>2 DEF Whole, Typed, DataObject, Sound, Knows
  <2>3. d.alerts = c.alerts \ {r.alert}
    BY <1>1, <1>2
  <2> QED
    BY <2>1, <2>2, <2>3, IdsWithout
<1>5. Even(server, d)
  BY <1>1, <1>2, <1>3, <1>4 DEF Mirrors, Even, Pending
<1>6. Sound(server, d)
  BY <1>1, <1>2 DEF Sound, Unique
<1>7. n # Idle => Knows(server, d, n)
  BY <1>1 DEF Knows, Pending
<1> QED
  BY <1>1, <1>5, <1>6, <1>7, GoesLevel

LEMMA AfterDeleteTargetGroupLevel ==
  ASSUME Whole, InStep, NEW o \in Ops, AfterDeleteTargetGroup(o)
  PROVE  InStep'
<1> DEFINE r == ops[o]
           n == ops'[o]
           c == objs[current]
           d == objs'[current]
<1>1. /\ Pending(r, "deleteTargetGroup") /\ r.pc = "deleteTargetGroup" /\ Goes(o)
      /\ Moved(objs', objs, r.obj, {"tgroups", "tgen"})
      /\ objs'[r.obj].tgroups = {g \in objs[r.obj].tgroups : g.id # r.alert.tgroup.id}
      /\ n = Idle \/ (n.kind = "delete" /\ n.pc = "deleteSourceGroup")
  BY AfterDeleteTargetGroupDoes DEF Whole, Pending, DeletesOn
<1>2. /\ r.obj = current /\ current \in Objs /\ Sound(server, c) /\ Mirrors(server, c, r)
  BY <1>1, SoloKnows
<1>3. /\ d.sources = c.sources /\ d.targets = c.targets /\ d.discords = c.discords
      /\ d.sgroups = c.sgroups /\ d.alerts = c.alerts
  BY <1>1, <1>2 DEF Moved, DataFields, Arrays
<1>4. Even(server, d)
  BY <1>1, <1>2, <1>3 DEF Mirrors, Even, Pending
<1>5. Sound(server, d)
  BY <1>2, <1>3, SoundSame
<1>6. n # Idle => Knows(server, d, n)
  BY <1>1 DEF Knows, Pending
<1> QED
  BY <1>1, <1>4, <1>5, <1>6, GoesLevel

LEMMA AfterDeleteSourceGroupLevel ==
  ASSUME Whole, InStep, NEW o \in Ops, AfterDeleteSourceGroup(o)
  PROVE  InStep'
<1> DEFINE r == ops[o]
           c == objs[current]
           d == objs'[current]
<1>1. /\ Pending(r, "deleteSourceGroup") /\ r.pc = "deleteSourceGroup" /\ Goes(o)
      /\ ops'[o] = Idle
      /\ Moved(objs', objs, r.obj, {"sgroups", "sgen"})
      /\ objs'[r.obj].sgroups = {g \in objs[r.obj].sgroups : g.id # r.alert.sgroup}
  BY AfterDeleteSourceGroupDoes DEF Whole, Pending
<1>2. /\ r.obj = current /\ current \in Objs /\ Sound(server, c) /\ Mirrors(server, c, r)
  BY <1>1, SoloKnows
<1>3. /\ d.sources = c.sources /\ d.targets = c.targets /\ d.discords = c.discords
      /\ d.tgroups = c.tgroups /\ d.alerts = c.alerts
  BY <1>1, <1>2 DEF Moved, DataFields, Arrays
<1>4. Even(server, d)
  BY <1>1, <1>2, <1>3 DEF Mirrors, Even, Pending
<1>5. Sound(server, d)
  BY <1>2, <1>3, SoundSame
<1> QED
  BY <1>1, <1>4, <1>5, GoesLevel

\* An update replaces the alert it found by one with the same ids in it.
LEMMA UpdateReplaces ==
  ASSUME NEW alerts \in SUBSET Alert, NEW old \in alerts, NEW g \in TargetGroup,
         g.id = old.tgroup.id, NEW s, NEW c, Sound(s, c), c.alerts = alerts,
         Unique(s.tgroups), g \in s.tgroups
  PROVE  /\ Ids(Replace(alerts, old, WithGroup(old, g))) = Ids(alerts)
         /\ \A d : d.alerts = Replace(alerts, old, WithGroup(old, g)) => Sound(s, d)
<1> DEFINE x == WithGroup(old, g)
           new == Replace(alerts, old, x)
<1>1. x.id = old.id /\ x.tgroup = g
  BY WithGroupFacts
<1>2. IdOf(x) = IdOf(old)
  BY IdOfWithGroup
<1>3. new = (alerts \ {old}) \cup {x}
  BY DEF Replace
<1> HIDE DEF x
<1>4. Ids(new) = Ids(alerts)
  BY <1>2, IdsReplace
<1> HIDE DEF new
<1>5. Unique(new)
  BY <1>1, <1>3 DEF Sound, Unique
<1>6. \A a \in new, h \in s.tgroups : h.id = a.tgroup.id => h.name = a.tgroup.name
  <2>1. ASSUME NEW a \in new, NEW h \in s.tgroups, h.id = a.tgroup.id
        PROVE  h.name = a.tgroup.name
    <3>1. CASE a = x
      <4>1. h = g
        BY <1>1, <2>1, <3>1 DEF Unique
      <4> QED
        BY <1>1, <3>1, <4>1
    <3>2. CASE a # x
      <4>1. a \in c.alerts
        BY <1>3, <3>2
      <4> QED
        BY <2>1, <4>1 DEF Sound
    <3> QED
      BY <3>1, <3>2
  <2> QED
    BY <2>1
<1>7. ASSUME NEW d, d.alerts = new
      PROVE  Sound(s, d)
  BY <1>5, <1>6, <1>7 DEF Sound
<1> QED
  BY <1>4, <1>7 DEF new, x

LEMMA AfterTargetGroupLevel ==
  ASSUME Whole, InStep, NEW o \in Ops, AfterTargetGroup(o)
  PROVE  InStep'
<1> DEFINE r == ops[o]
           n == ops'[o]
           c == objs[current]
           d == objs'[current]
<1>0. Typed /\ Unique(server.tgroups) /\ Fits(r)
  BY DEF Whole, Typed, ServerWhole, ServerFields, Arrays
<1>1. /\ Pending(r, "targetGroup") /\ r.pc = "targetGroup" /\ r.res \in TargetGroup /\ Goes(o)
      /\ Moved(objs', objs, r.obj, {"tgroups", "alerts"})
      /\ objs'[r.obj].tgroups = IF objs[r.obj].tgen = r.gen THEN Put(objs[r.obj].tgroups, r.res)
                                ELSE objs[r.obj].tgroups
      /\ objs'[r.obj].alerts =
           IF r.kind = "update"
           THEN Replace(objs[r.obj].alerts, r.alert, WithGroup(r.alert, r.res))
           ELSE objs[r.obj].alerts
      /\ IF r.kind = "create"
         THEN n.pc = "alert" /\ n.kind = "create" /\ n.name = r.name /\ n.alert = r.res
         ELSE n = Idle
  BY <1>0, AfterTargetGroupDoes DEF Pending
<1>2. /\ r.obj = current /\ current \in Objs /\ Sound(server, c) /\ Mirrors(server, c, r)
      /\ Knows(server, c, r)
  BY <1>1, SoloKnows
<1>3. /\ d.sources = c.sources /\ d.targets = c.targets /\ d.discords = c.discords
      /\ d.sgroups = c.sgroups
  BY <1>1, <1>2 DEF Moved, DataFields, Arrays
<1>4. d.tgroups = Put(c.tgroups, r.res) /\ server.tgroups = d.tgroups
  BY <1>1, <1>2 DEF Knows, Mirrors, Pending
<1>5. r.res \in server.tgroups
  BY <1>4, PutFacts
<1>6. server.alerts = Ids(c.alerts)
  BY <1>1, <1>2 DEF Mirrors, Pending
<1>7. Ids(d.alerts) = Ids(c.alerts) /\ Sound(server, d)
  <2>1. CASE r.kind = "update"
    <3>1. r.alert \in c.alerts /\ r.req.id = r.alert.tgroup.id
      BY <1>1, <1>2, <2>1 DEF Knows
    <3>2. c.alerts \in SUBSET Alert
      BY <1>0, <1>2 DEF Typed, DataObject
    <3>3. r.res.id = r.alert.tgroup.id
      <4>1. r.req.id \in {None, r.res.id}
        BY <1>0, <1>1, Phases DEF AtTargetGroup
      <4>2. r.alert.tgroup.id \in Nat
        BY <3>1, <3>2 DEF Alert, TargetGroup
      <4> QED
        BY <3>1, <4>1, <4>2, NoneAssumption
    <3>4. d.alerts = Replace(c.alerts, r.alert, WithGroup(r.alert, r.res))
      BY <1>1, <1>2, <2>1
    <3> QED
      BY <1>0, <1>1, <1>2, <1>5, <3>1, <3>2, <3>3, <3>4, UpdateReplaces
  <2>2. CASE r.kind # "update"
    <3>1. d.alerts = c.alerts
      BY <1>1, <1>2, <2>2
    <3> QED
      BY <1>2, <3>1, SoundSame
  <2> QED
    BY <2>1, <2>2
<1>8. Even(server, d)
  <2>1. /\ server.targets = c.targets /\ server.discords = c.discords
        /\ server.sources = c.sources /\ server.sgroups = c.sgroups
    BY <1>1, <1>2 DEF Mirrors, Pending
  <2> QED
    BY <1>3, <1>4, <1>6, <1>7, <2>1 DEF Even
<1>9. ASSUME n # Idle
      PROVE  Knows(server, d, n)
  <2>1. r.kind = "create" /\ n.pc = "alert" /\ n.name = r.name /\ n.alert = r.res /\ n.res = None
    BY <1>1, <1>9 DEF Goes
  <2>2. d.alerts = c.alerts
    BY <1>1, <1>2, <2>1
  <2>3. \A a \in d.alerts : a.name # n.name
    BY <1>1, <1>2, <2>1, <2>2 DEF Knows
  <2> QED
    BY <1>5, <2>1, <2>3 DEF Knows, Pending, Unanswered
<1> QED
  BY <1>1, <1>7, <1>8, <1>9, GoesLevel

LEMMA AfterAlertLevel ==
  ASSUME Whole, InStep, NEW o \in Ops, AfterAlert(o)
  PROVE  InStep'
<1> DEFINE r == ops[o]
           c == objs[current]
           d == objs'[current]
           x == Embed(r.res, r.alert)
<1>0. Typed /\ Unique(server.tgroups)
  BY DEF Whole, ServerWhole, ServerFields, Arrays
<1>1. /\ Pending(r, "alert") /\ r.pc = "alert" /\ r.res \in ServerAlert /\ r.alert \in TargetGroup
      /\ r.res.tgroup = r.alert.id /\ Goes(o) /\ ops'[o] = Idle
      /\ Moved(objs', objs, r.obj, {"alerts"})
      /\ objs'[r.obj].alerts = objs[r.obj].alerts \cup {x}
  BY <1>0, AfterAlertDoes DEF Pending
<1>2. /\ r.obj = current /\ current \in Objs /\ Sound(server, c) /\ Mirrors(server, c, r)
      /\ Knows(server, c, r)
  BY <1>1, SoloKnows
<1>3. /\ d.sources = c.sources /\ d.targets = c.targets /\ d.discords = c.discords
      /\ d.sgroups = c.sgroups /\ d.tgroups = c.tgroups
  BY <1>1, <1>2 DEF Moved, DataFields, Arrays
<1>4. x.id = r.res.id /\ x.tgroup = r.alert /\ IdOf(x) = r.res
  BY <1>1, EmbedFacts, IdOfEmbed
<1>5. d.alerts = c.alerts \cup {x}
  BY <1>1, <1>2
<1> HIDE DEF x
<1>6. Ids(d.alerts) = Ids(c.alerts) \cup {r.res}
  BY <1>4, <1>5, IdsWith
<1>7. Even(server, d)
  <2>1. /\ server.targets = c.targets /\ server.discords = c.discords
        /\ server.sources = c.sources /\ server.sgroups = c.sgroups
        /\ server.tgroups = c.tgroups /\ server.alerts = Ids(c.alerts) \cup {r.res}
    BY <1>1, <1>2 DEF Mirrors, Pending
  <2> QED
    BY <1>3, <1>6, <2>1 DEF Even
<1>8. Unique(d.alerts)
  <2>1. \A a \in c.alerts : a.id # x.id
    BY <1>1, <1>2, <1>4 DEF Knows
  <2> QED
    BY <1>2, <1>5, <2>1 DEF Sound, Unique
<1>9. \A a \in d.alerts, g \in server.tgroups : g.id = a.tgroup.id => g.name = a.tgroup.name
  <2>1. r.alert \in server.tgroups
    BY <1>1, <1>2 DEF Knows
  <2>2. \A g \in server.tgroups : g.id = x.tgroup.id => g = x.tgroup
    BY <1>0, <1>4, <2>1 DEF Unique
  <2> QED
    BY <1>2, <1>5, <2>2 DEF Sound
<1>10. Sound(server, d)
  BY <1>2, <1>8, <1>9 DEF Sound
<1> QED
  BY <1>1, <1>7, <1>10, GoesLevel

LEMMA EndLevel ==
  ASSUME Whole, InStep, NEW o \in Ops, AfterConnectWallet(o) \/ Reject(o)
  PROVE  InStep'
<1> DEFINE r == ops[o]
<1>1. /\ OpsMove(o) /\ ops'[o] = Idle /\ UNCHANGED <<server, objs, current>>
      /\ r.pc = "wallet" \/ r.res = Failed
  BY AfterConnectWalletDoes, RejectDoes DEF Whole, Pending
<1>2. r.pc # "idle"
  <2>1. Fits(r)
    BY DEF Whole, Typed
  <2> QED
    BY <1>1, <2>1, Phases, IdleFacts, NoneAssumption
<1>3. Running \subseteq {o} /\ Sound(server, objs[current]) /\ Mirrors(server, objs[current], r)
  BY <1>2, SoloRuns DEF Cached
<1>4. Mirrors(server, objs[current], Idle)
  BY <1>1, <1>3, EvenMirrors, IdleFacts DEF Unanswered
<1> QED
  BY <1>1, <1>3, <1>4, IdleFacts, LevelStep DEF Whole

LEMMA ContinueLevel ==
  ASSUME Whole, InStep, NEW o \in Ops, Continue(o)
  PROVE  InStep'
BY AfterTargetsLevel, AfterSourceGroupLevel, AfterTargetGroupLevel, AfterAlertLevel,
   AfterDeleteAlertLevel, AfterDeleteTargetGroupLevel, AfterDeleteSourceGroupLevel,
   AfterSourceLevel, AfterDiscordTargetLevel, EndLevel DEF Continue

\* What a fetch returns is what the service has.
LEMMA FetchedEven ==
  ASSUME server \in ServerState, ServerWhole, ~Twins(server.tgroups), ~Twins(server.alerts)
  PROVE  Even(server, Fetched(server)) /\ Sound(server, Fetched(server))
<1> DEFINE alerts == {Held(server, a) : a \in server.alerts}
<1>1. /\ Fetched(server).targets = server.targets /\ Fetched(server).discords = server.discords
      /\ Fetched(server).sources = server.sources /\ Fetched(server).sgroups = server.sgroups
      /\ Fetched(server).tgroups = server.tgroups /\ Fetched(server).alerts = alerts
  BY DEF Fetched
<1>2. ASSUME NEW a \in server.alerts
      PROVE  /\ Held(server, a).id = a.id /\ Held(server, a).tgroup \in server.tgroups
             /\ IdOf(Held(server, a)) = a
  <2> DEFINE x == Held(server, a)
  <2>1. /\ x \in Alert /\ x.id = a.id /\ x.name = a.name /\ x.sgroup = a.sgroup
        /\ x.tgroup \in server.tgroups /\ x.tgroup.id = a.tgroup
    BY HeldFacts DEF ServerWhole
  <2> HIDE DEF x
  <2>2. /\ IdOf(x) \in ServerAlert /\ IdOf(x).id = a.id /\ IdOf(x).name = a.name
        /\ IdOf(x).sgroup = a.sgroup /\ IdOf(x).tgroup = a.tgroup
    BY <2>1, IdOfFacts
  <2>3. a \in ServerAlert
    BY DEF ServerState
  <2>4. IdOf(x) = a
    BY <2>2, <2>3, SameAlert
  <2> QED
    BY <2>1, <2>4 DEF x
<1>3. Ids(alerts) = server.alerts
  <2>1. \A y : y \in {IdOf(b) : b \in alerts} <=> y \in server.alerts
    BY <1>2
  <2>2. {IdOf(b) : b \in alerts} = server.alerts
    BY <2>1
  <2> QED
    BY <2>2, IdsAre
<1>4. Unique(server.alerts) /\ Unique(server.tgroups)
  BY DEF ServerWhole, ServerFields, Arrays
<1>5. Unique(alerts)
  BY <1>2, <1>4 DEF Unique
<1>6. \A b \in alerts, g \in server.tgroups : g.id = b.tgroup.id => g.name = b.tgroup.name
  BY <1>2, <1>4 DEF Unique
<1> HIDE DEF alerts
<1> QED
  BY <1>1, <1>3, <1>5, <1>6 DEF Even, Sound

LEMMA RefetchLevel ==
  ASSUME Whole, Refetch, mishaps' \subseteq {"torn", "rewound"}
  PROVE  InStep'
<1>1. /\ Typed /\ ServerWhole /\ server \in ServerState
  BY DEF Whole, Typed
<1>2. /\ objs'[current'] = Fetched(server) /\ UNCHANGED <<server, ops>>
      /\ mishaps' = IF Running # {} THEN mishaps \cup {"refetch"}
                    ELSE (IF shown'.obj = current' THEN {} ELSE mishaps \cap {"torn", "rewound"})
                           \cup (IF Twins(server.tgroups) \/ Twins(server.alerts)
                                 THEN {"twins"} ELSE {})
  BY <1>1, RefetchDoes
<1>3. Running = {}
  BY <1>2
<1>4. ~Twins(server.tgroups) /\ ~Twins(server.alerts)
  <2>1. CASE Twins(server.tgroups) \/ Twins(server.alerts)
    <3>1. "twins" \in mishaps'
      BY <1>2, <1>3, <2>1
    <3> QED
      BY <3>1
  <2> QED
    BY <2>1
<1>5. Even(server, objs'[current']) /\ Sound(server, objs'[current'])
  BY <1>1, <1>2, <1>4, FetchedEven
<1>6. Mirrors(server, objs'[current'], Idle)
  BY <1>5, EvenMirrors, IdleFacts
<1>7. Running' = {}
  BY <1>2, <1>3 DEF Running
<1> QED
  BY <1>2, <1>5, <1>6, <1>7 DEF InStep, Cached

LEMMA InitLevel ==
  ASSUME Init
  PROVE  InStep
<1>1. /\ objs[current] = Fetched(server) /\ \A o \in Ops : ops[o].pc = "idle"
  BY InitDoes, IdleFacts, AlertOpsAssumption DEF Objs
<1>2. ~Twins(server.tgroups) /\ ~Twins(server.alerts)
  <2>1. PICK n \in Names, v \in Values : server = Beginning(n, v)
    BY InitDoes
  <2>2. /\ server.tgroups = {[id |-> 3, name |-> n, target |-> 1, ver |-> 3]}
        /\ server.alerts = {[id |-> 4, name |-> n, sgroup |-> 2, tgroup |-> 3]}
    BY <2>1 DEF Beginning
  <2> QED
    BY <2>2 DEF Twins
<1>3. Even(server, Cached) /\ Sound(server, Cached)
  BY <1>1, <1>2, InitServer, FetchedEven DEF Cached
<1>4. Running = {} /\ Mirrors(server, Cached, Idle)
  BY <1>1, <1>3, EvenMirrors, IdleFacts DEF Running
<1> QED
  BY <1>3, <1>4 DEF InStep

LEMMA StepLevel ==
  ASSUME Whole, Level, [Next]_vars
  PROVE  Level'
<1> SUFFICES ASSUME mishaps' \subseteq {"torn", "rewound"}
             PROVE  InStep'
  BY DEF Level, Alone
<1>1. CASE UNCHANGED vars
  <2>1. InStep
    BY <1>1 DEF Level, Alone, vars
  <2> QED
    BY <1>1, <2>1 DEF InStep, Cached, Running, vars
<1>2. CASE \E o \in Ops : Start(o) \/ Continue(o) \/ Serve(o) \/ Refuse(o) \/ LoseReply(o)
  <2>1. PICK o \in Ops : Start(o) \/ Continue(o) \/ Serve(o) \/ Refuse(o) \/ LoseReply(o)
    BY <1>2
  <2>2. InStep
    BY <2>1, MishapsGrow DEF Level, Alone, Whole
  <2>3. CASE Start(o)
    <3>1. Opens(o)
      BY <2>3, StartDoes DEF Whole
    <3>2. Running = {}
      BY <3>1 DEF Opens, Starting
    <3> QED
      BY <2>2, <3>1, <3>2, StartLevel
  <2>4. CASE LoseReply(o)
    BY <2>4, LoseReplyDoes DEF Whole
  <2> QED
    BY <2>1, <2>2, <2>3, <2>4, ContinueLevel, ServeLevel, RefuseLevel
<1>3. CASE Refetch
  BY <1>3, RefetchLevel
<1> QED
  BY <1>1, <1>2, <1>3 DEF Next

\* As long as operations follow one another, whichever of them are rejected
\* half way, the cached arrays are what the service has whenever none runs,
\* and alerts have different names; and the page shows the list of alerts that
\* its data object has, unless a delete failed between the alert and its
\* groups or connectWallet took back what was shown.
THEOREM CacheMirrorsServerTheorem == Spec => []CacheMirrorsServer
<1>1. Init => Whole /\ PageTold /\ Level
  BY InitWhole, InitTold, InitLevel DEF PageTold, Level
<1>2. Whole /\ PageTold /\ Level /\ [Next]_vars => (Whole /\ PageTold /\ Level)'
  BY StepWhole, StepTold, StepLevel
<1>3. ASSUME Whole, PageTold, Level
      PROVE  CacheMirrorsServer
  <2> SUFFICES ASSUME Quiet
               PROVE  /\ mishaps \subseteq {"torn", "rewound"} =>
                           Even(server, objs[current]) /\ ~Twins(server.alerts)
                      /\ mishaps \cap {"torn", "rewound"} = {} =>
                           shown.gen = objs[shown.obj].agen
    BY DEF CacheMirrorsServer, Even
  <2>1. ASSUME mishaps \subseteq {"torn", "rewound"}
        PROVE  Even(server, objs[current]) /\ ~Twins(server.alerts)
    <3>1. Sound(server, Cached) /\ Mirrors(server, Cached, Idle)
      BY <1>3, <2>1 DEF Level, Alone, InStep, Quiet
    <3> QED
      BY <3>1, EvenMirrors, IdleFacts DEF Sound, Cached
  <2>2. ASSUME mishaps \cap {"torn", "rewound"} = {}
        PROVE  shown.gen = objs[shown.obj].agen
    <3>1. Told
      BY <1>3, <2>2 DEF PageTold
    <3>2. \A o \in Ops : ~DeletesGroups(ops[o])
      BY DEF Quiet, Running, DeletesGroups
    <3> QED
      BY <3>1, <3>2 DEF Told
  <2> QED
    BY <2>1, <2>2
<1> QED
  BY <1>1, <1>2, <1>3, PTL DEF Spec

===============================================================================
