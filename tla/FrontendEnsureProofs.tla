------------------------- MODULE FrontendEnsureProofs -------------------------
(***************************************************************************)
(* Proofs about FrontendEnsure, for any number of operations, event types  *)
(* of any kinds, addresses, channels and failures: type correctness, that  *)
(* no alert is lost, that nothing is created twice without an overlap, and *)
(* that an operation that nothing overlaps keeps its promise.              *)
(*                                                                         *)
(* First comes what each action does to the service and to its operation   *)
(* (the lemmas ...Does), then one layer of the invariant after the other:  *)
(*   Well        what an operation is about, at each point of it           *)
(*   AlertsWell  what it knows of the alerts     StandsWell  none is lost  *)
(*   TargetsWell what it has gathered of targets                           *)
(*   ChainWell   what it has gathered of sources                           *)
(*   AloneWell   what it knows of the service when nothing overlaps it     *)
(*   Twinless    nothing is there twice as long as nothing has overlapped  *)
(*   PromiseWell what the operation that returned last has promised.       *)
(***************************************************************************)
EXTENDS FrontendEnsure, FiniteSetTheorems, TLAPS

-----------------------------------------------------------------------------
(* The service *)

LEMMA NumberedFields ==
  ASSUME server \in Service
  PROVE  /\ Numbered \in Service /\ Numbered.last = server.last + 1
         /\ Numbered.targets = server.targets /\ Numbered.tgroups = server.tgroups
         /\ Numbered.sources = server.sources /\ Numbered.sgroups = server.sgroups
         /\ Numbered.alerts = server.alerts
BY DEF Numbered, New, Service

LEMMA CreatedTarget ==
  ASSUME server \in Service, NEW x \in Target
  PROVE  LET s == Created("targets", x) IN
         /\ s \in Service /\ s.last = server.last + 1
         /\ s.targets = server.targets \cup {x}
         /\ s.tgroups = server.tgroups /\ s.sources = server.sources
         /\ s.sgroups = server.sgroups /\ s.alerts = server.alerts
BY NumberedFields DEF Created, Service

LEMMA CreatedTargetGroup ==
  ASSUME server \in Service, NEW x \in TargetGroup
  PROVE  LET s == Created("tgroups", x) IN
         /\ s \in Service /\ s.last = server.last + 1
         /\ s.tgroups = server.tgroups \cup {x}
         /\ s.targets = server.targets /\ s.sources = server.sources
         /\ s.sgroups = server.sgroups /\ s.alerts = server.alerts
BY NumberedFields DEF Created, Service

LEMMA CreatedSource ==
  ASSUME server \in Service, NEW x \in Source
  PROVE  LET s == Created("sources", x) IN
         /\ s \in Service /\ s.last = server.last + 1
         /\ s.sources = server.sources \cup {x}
         /\ s.targets = server.targets /\ s.tgroups = server.tgroups
         /\ s.sgroups = server.sgroups /\ s.alerts = server.alerts
BY NumberedFields DEF Created, Service

LEMMA CreatedSourceGroup ==
  ASSUME server \in Service, NEW x \in SourceGroup
  PROVE  LET s == Created("sgroups", x) IN
         /\ s \in Service /\ s.last = server.last + 1
         /\ s.sgroups = server.sgroups \cup {x}
         /\ s.targets = server.targets /\ s.tgroups = server.tgroups
         /\ s.sources = server.sources /\ s.alerts = server.alerts
BY NumberedFields DEF Created, Service

LEMMA CreatedAlert ==
  ASSUME server \in Service, NEW x \in Alert
  PROVE  LET s == Created("alerts", x) IN
         /\ s \in Service /\ s.last = server.last + 1
         /\ s.alerts = server.alerts \cup {x}
         /\ s.targets = server.targets /\ s.tgroups = server.tgroups
         /\ s.sources = server.sources /\ s.sgroups = server.sgroups
BY NumberedFields DEF Created, Service

LEMMA UpdatedTargetGroup ==
  ASSUME server \in Service, NEW x \in TargetGroup
  PROVE  LET s == Updated("tgroups", x) IN
         /\ s \in Service /\ s.last = server.last
         /\ s.tgroups = {y \in server.tgroups : y.id # x.id} \cup {x}
         /\ s.targets = server.targets /\ s.sources = server.sources
         /\ s.sgroups = server.sgroups /\ s.alerts = server.alerts
BY DEF Updated, Service

LEMMA UpdatedSourceGroup ==
  ASSUME server \in Service, NEW x \in SourceGroup
  PROVE  LET s == Updated("sgroups", x) IN
         /\ s \in Service /\ s.last = server.last
         /\ s.sgroups = {y \in server.sgroups : y.id # x.id} \cup {x}
         /\ s.targets = server.targets /\ s.tgroups = server.tgroups
         /\ s.sources = server.sources /\ s.alerts = server.alerts
BY DEF Updated, Service

-----------------------------------------------------------------------------
(* The event types *)

LEMMA ConfigFacts ==
  ASSUME config \in [Events -> Configs], NEW e \in Events
  PROVE  /\ Kind(e) \in Kinds /\ config[e].addresses \subseteq Addresses \cup {None}
         /\ Kind(e) \in AnyAddress => config[e].addresses = {None}
<1>1. config[e] \in Configs /\ Kind(e) = config[e].kind
  BY DEF Kind
<1> QED
  BY <1>1 DEF Configs, AnyAddress, FoundOnly, Several

LEMMA SourceTypeType ==
  ASSUME config \in [Events -> Configs], NEW e \in Events, Kind(e) # "label"
  PROVE  SourceType(Kind(e)) \in SourceTypes
BY ConfigFacts, FrontendEnsureAssumption DEF SourceType, SourceTypes

LEMMA IdleType ==
  /\ Idle \in Operation /\ Idle.pc = "idle" /\ Idle.op = "none" /\ Idle.waits = {}
  /\ Idle.alone = FALSE /\ Idle.alert = None /\ Idle.tgroup = None /\ Idle.sgroup = None
  /\ Idle.sources = {} /\ Idle.targets = {} /\ Idle.creating = {} /\ Idle.e = None
  /\ Idle.rejected = FALSE /\ Idle.missing = {}
BY DEF Idle, Operation, Targets, Pcs, ChainSteps

-----------------------------------------------------------------------------
(* What the steps do to the operation that takes them, and to the service.   *)

AskedSame(r, q) ==
  /\ r.pc = q.pc /\ r.op = q.op /\ r.e = q.e /\ r.opt = q.opt /\ r.want = q.want
  /\ r.alone = q.alone
TargetsSame(r, q) == r.creating = q.creating /\ r.targets = q.targets
ChainSame(r, q) ==
  r.chain = q.chain /\ r.missing = q.missing /\ r.sources = q.sources /\ r.sgroup = q.sgroup

\* Setting one field of an operation leaves the others alone.
LEMMA SetWaits ==
  ASSUME NEW r \in Operation, NEW v \in SUBSET r.waits
  PROVE  LET x == [r EXCEPT !.waits = v] IN
         /\ x \in Operation /\ x.waits = v /\ x.rejected = r.rejected
         /\ x.alert = r.alert /\ x.tgroup = r.tgroup /\ AskedSame(x, r)
         /\ TargetsSame(x, r) /\ ChainSame(x, r)
BY DEF Operation, AskedSame, TargetsSame, ChainSame

LEMMA SetRejected ==
  ASSUME NEW r \in Operation, NEW v \in {TRUE}
  PROVE  LET x == [r EXCEPT !.rejected = v] IN
         /\ x \in Operation /\ x.rejected = v /\ x.waits = r.waits /\ x.alert = r.alert
         /\ x.tgroup = r.tgroup /\ AskedSame(x, r) /\ TargetsSame(x, r)
         /\ ChainSame(x, r)
BY DEF Operation, AskedSame, TargetsSame, ChainSame

LEMMA SetAlert ==
  ASSUME NEW r \in Operation, NEW v \in Alert \cup {None}
  PROVE  LET x == [r EXCEPT !.alert = v] IN
         /\ x \in Operation /\ x.alert = v /\ x.waits = r.waits
         /\ x.rejected = r.rejected /\ x.tgroup = r.tgroup /\ AskedSame(x, r)
         /\ TargetsSame(x, r) /\ ChainSame(x, r)
BY DEF Operation, AskedSame, TargetsSame, ChainSame

LEMMA SetTgroup ==
  ASSUME NEW r \in Operation, NEW v \in TargetGroup \cup {None}
  PROVE  LET x == [r EXCEPT !.tgroup = v] IN
         /\ x \in Operation /\ x.tgroup = v /\ x.waits = r.waits
         /\ x.rejected = r.rejected /\ x.alert = r.alert /\ AskedSame(x, r)
         /\ TargetsSame(x, r) /\ ChainSame(x, r)
BY DEF Operation, AskedSame, TargetsSame, ChainSame

LEMMA SetCreating ==
  ASSUME NEW r \in Operation, NEW v \in SUBSET Channels
  PROVE  LET x == [r EXCEPT !.creating = v] IN
         /\ x \in Operation /\ x.creating = v /\ x.waits = r.waits
         /\ x.rejected = r.rejected /\ x.alert = r.alert /\ x.tgroup = r.tgroup
         /\ AskedSame(x, r) /\ x.targets = r.targets /\ ChainSame(x, r)
BY DEF Operation, AskedSame, TargetsSame, ChainSame

LEMMA SetTargets ==
  ASSUME NEW r \in Operation, NEW v \in SUBSET Nat
  PROVE  LET x == [r EXCEPT !.targets = v] IN
         /\ x \in Operation /\ x.targets = v /\ x.waits = r.waits
         /\ x.rejected = r.rejected /\ x.alert = r.alert /\ x.tgroup = r.tgroup
         /\ AskedSame(x, r) /\ x.creating = r.creating /\ ChainSame(x, r)
BY DEF Operation, AskedSame, TargetsSame, ChainSame

LEMMA SetChain ==
  ASSUME NEW r \in Operation, NEW v \in ChainSteps
  PROVE  LET x == [r EXCEPT !.chain = v] IN
         /\ x \in Operation /\ x.chain = v /\ x.waits = r.waits
         /\ x.rejected = r.rejected /\ x.alert = r.alert /\ x.tgroup = r.tgroup
         /\ AskedSame(x, r) /\ TargetsSame(x, r) /\ x.missing = r.missing
         /\ x.sources = r.sources /\ x.sgroup = r.sgroup
BY DEF Operation, AskedSame, TargetsSame, ChainSame

LEMMA SetMissing ==
  ASSUME NEW r \in Operation, NEW v \in SUBSET (Addresses \cup {None})
  PROVE  LET x == [r EXCEPT !.missing = v] IN
         /\ x \in Operation /\ x.missing = v /\ x.waits = r.waits
         /\ x.rejected = r.rejected /\ x.alert = r.alert /\ x.tgroup = r.tgroup
         /\ AskedSame(x, r) /\ TargetsSame(x, r) /\ x.chain = r.chain
         /\ x.sources = r.sources /\ x.sgroup = r.sgroup
BY DEF Operation, AskedSame, TargetsSame, ChainSame

LEMMA SetSources ==
  ASSUME NEW r \in Operation, NEW v \in SUBSET Nat
  PROVE  LET x == [r EXCEPT !.sources = v] IN
         /\ x \in Operation /\ x.sources = v /\ x.waits = r.waits
         /\ x.rejected = r.rejected /\ x.alert = r.alert /\ x.tgroup = r.tgroup
         /\ AskedSame(x, r) /\ TargetsSame(x, r) /\ x.chain = r.chain
         /\ x.missing = r.missing /\ x.sgroup = r.sgroup
BY DEF Operation, AskedSame, TargetsSame, ChainSame

LEMMA SetSgroup ==
  ASSUME NEW r \in Operation, NEW v \in Nat \cup {None}
  PROVE  LET x == [r EXCEPT !.sgroup = v] IN
         /\ x \in Operation /\ x.sgroup = v /\ x.waits = r.waits
         /\ x.rejected = r.rejected /\ x.alert = r.alert /\ x.tgroup = r.tgroup
         /\ AskedSame(x, r) /\ TargetsSame(x, r) /\ x.chain = r.chain
         /\ x.missing = r.missing /\ x.sources = r.sources
BY DEF Operation, AskedSame, TargetsSame, ChainSame

LEMMA SetPc ==
  ASSUME NEW r \in Operation, NEW v \in Pcs
  PROVE  LET x == [r EXCEPT !.pc = v] IN
         /\ x \in Operation /\ x.pc = v /\ x.waits = r.waits /\ x.rejected = r.rejected
         /\ x.alert = r.alert /\ x.tgroup = r.tgroup /\ x.op = r.op /\ x.e = r.e
         /\ x.opt = r.opt /\ x.want = r.want /\ x.alone = r.alone /\ TargetsSame(x, r)
         /\ ChainSame(x, r)
BY DEF Operation, AskedSame, TargetsSame, ChainSame

LEMMA EndedFields ==
  ASSUME NEW r \in Operation, NEW b
  PROVE  /\ Ended(r, b) \in Operation /\ Ended(r, b).waits = r.waits \ {b}
         /\ Ended(r, b).rejected = r.rejected /\ AskedSame(Ended(r, b), r)
         /\ Ended(r, b).alert = r.alert /\ Ended(r, b).tgroup = r.tgroup
         /\ TargetsSame(Ended(r, b), r) /\ ChainSame(Ended(r, b), r)
<1>1. Ended(r, b) = [r EXCEPT !.waits = r.waits \ {b}] /\ r.waits \ {b} \in SUBSET r.waits
  BY DEF Ended
<1> QED
  BY <1>1, SetWaits

LEMMA RejectedFields ==
  ASSUME NEW r \in Operation, NEW b
  PROVE  /\ Rejected(r, b) \in Operation /\ Rejected(r, b).waits = r.waits \ {b}
         /\ Rejected(r, b).rejected = TRUE /\ AskedSame(Rejected(r, b), r)
         /\ Rejected(r, b).alert = r.alert /\ Rejected(r, b).tgroup = r.tgroup
         /\ TargetsSame(Rejected(r, b), r) /\ ChainSame(Rejected(r, b), r)
<1> DEFINE x == Ended(r, b)
<1>1. Rejected(r, b) = [x EXCEPT !.rejected = TRUE]
  BY DEF Rejected, Ended
<1>2. /\ x \in Operation /\ x.waits = r.waits \ {b} /\ AskedSame(x, r)
      /\ x.alert = r.alert /\ x.tgroup = r.tgroup /\ TargetsSame(x, r) /\ ChainSame(x, r)
  BY EndedFields
<1> DEFINE y == [x EXCEPT !.rejected = TRUE]
<1> HIDE DEF x
<1>3. /\ y \in Operation /\ y.waits = x.waits /\ y.rejected = TRUE /\ AskedSame(y, x)
      /\ y.alert = x.alert /\ y.tgroup = x.tgroup /\ TargetsSame(y, x) /\ ChainSame(y, x)
  BY <1>2, SetRejected
<1> HIDE DEF y
<1>4. AskedSame(y, r) /\ TargetsSame(y, r) /\ ChainSame(y, r)
  BY <1>2, <1>3 DEF AskedSame, TargetsSame, ChainSame
<1> QED
  BY <1>1, <1>2, <1>3, <1>4 DEF y

OthersStay(t) == \A u \in Tasks \ {t} : tasks'[u] = tasks[u]

LEMMA BecomesStep ==
  ASSUME tasks \in [Tasks -> Operation], NEW t \in Tasks, NEW r \in Operation, Becomes(t, r)
  PROVE  tasks' \in [Tasks -> Operation] /\ tasks'[t] = r /\ OthersStay(t)
BY DEF Becomes, OthersStay

\* Nothing else changes, but the operation t and the service.
OnlyMoves(t) ==
  /\ tasks' \in [Tasks -> Operation] /\ server' \in Service /\ OthersStay(t)
  /\ failures' \in 0 .. MaxFailures /\ UNCHANGED <<config, starts>>

LEMMA FailsStep ==
  ASSUME TypeOK, Fails
  PROVE  failures' \in 0 .. MaxFailures /\ failures' # failures
BY FrontendEnsureAssumption DEF TypeOK, Fails

LEMMA ReadsStep ==
  ASSUME TypeOK, NEW t \in Tasks, NEW r \in Operation, NEW failed \in Operation,
         Reads(t, r, failed)
  PROVE  /\ OnlyMoves(t) /\ UNCHANGED <<server, history>>
         /\ tasks'[t] = r \/ tasks'[t] = failed
<1>1. /\ UNCHANGED <<config, server, starts, history>>
      /\ (Becomes(t, r) /\ UNCHANGED failures) \/ (Fails /\ Becomes(t, failed))
  BY DEF Reads
<1>2. tasks' \in [Tasks -> Operation] /\ OthersStay(t) /\ (tasks'[t] = r \/ tasks'[t] = failed)
  BY <1>1, BecomesStep DEF TypeOK
<1>3. failures' \in 0 .. MaxFailures
  BY <1>1, FailsStep DEF TypeOK
<1> QED
  BY <1>1, <1>2, <1>3 DEF OnlyMoves, TypeOK

LEMMA WritesStep ==
  ASSUME TypeOK, NEW t \in Tasks, NEW new \in Service, NEW r \in Operation,
         NEW failed \in Operation, Writes(t, new, r, failed)
  PROVE  /\ OnlyMoves(t)
         /\ \/ server' = new /\ tasks'[t] = r /\ failures' = failures
            \/ server' \in {server, new} /\ tasks'[t] = failed /\ failures' # failures
<1>1. /\ UNCHANGED <<config, starts>>
      /\ \/ server' = new /\ Becomes(t, r) /\ UNCHANGED failures
         \/ Fails /\ server' \in {server, new} /\ Becomes(t, failed)
  BY DEF Writes
<1>2. /\ tasks' \in [Tasks -> Operation] /\ OthersStay(t)
      /\ Becomes(t, r) => tasks'[t] = r
      /\ Becomes(t, failed) => tasks'[t] = failed
  BY <1>1, BecomesStep DEF TypeOK
<1>3. failures' \in 0 .. MaxFailures /\ (Fails => failures' # failures)
  BY <1>1, FailsStep DEF TypeOK
<1> QED
  BY <1>1, <1>2, <1>3 DEF OnlyMoves, TypeOK

\* The branch b of t takes a step of the gathering.
Gathers(t, b) ==
  /\ OnlyMoves(t) /\ UNCHANGED history
  /\ tasks[t].pc = "gather" /\ AskedSame(tasks'[t], tasks[t])
  /\ tasks[t].rejected => tasks'[t].rejected
  /\ b \in tasks[t].waits /\ tasks'[t].waits \in {tasks[t].waits, tasks[t].waits \ {b}}

LEMMA ReadAlertsDoes ==
  ASSUME TypeOK, NEW t \in Tasks, ReadAlerts(t)
  PROVE  /\ Gathers(t, "alerts") /\ UNCHANGED server /\ "alerts" \notin tasks'[t].waits
         /\ tasks'[t].tgroup = tasks[t].tgroup
         /\ TargetsSame(tasks'[t], tasks[t]) /\ ChainSame(tasks'[t], tasks[t])
         /\ \/ tasks'[t].rejected /\ tasks'[t].alert = tasks[t].alert
            \/ tasks'[t].alert \in Found(Existing(tasks[t]))
<1> DEFINE r == tasks[t]
<1>0. r \in Operation /\ Waits(t, "alerts")
  BY DEF TypeOK, ReadAlerts
<1>1. PICK a \in Found(Existing(r)) :
        Reads(t, [Ended(r, "alerts") EXCEPT !.alert = a], Rejected(r, "alerts"))
  BY DEF ReadAlerts
<1>2. a \in Alert \cup {None}
  BY DEF Found, Existing, TypeOK, Service
<1> DEFINE x == Ended(r, "alerts")
           y == [x EXCEPT !.alert = a]
           z == Rejected(r, "alerts")
<1>3. /\ x \in Operation /\ x.waits = r.waits \ {"alerts"} /\ x.rejected = r.rejected
      /\ AskedSame(x, r) /\ x.tgroup = r.tgroup /\ TargetsSame(x, r) /\ ChainSame(x, r)
  BY <1>0, EndedFields
<1>4. /\ z \in Operation /\ z.waits = r.waits \ {"alerts"} /\ z.rejected = TRUE
      /\ AskedSame(z, r) /\ z.alert = r.alert /\ z.tgroup = r.tgroup
      /\ TargetsSame(z, r) /\ ChainSame(z, r)
  BY <1>0, RejectedFields
<1>5. Reads(t, y, z)
  BY <1>1
<1> HIDE DEF x, z
<1>6. /\ y \in Operation /\ y.waits = x.waits /\ y.rejected = x.rejected /\ AskedSame(y, x)
      /\ y.alert = a /\ y.tgroup = x.tgroup /\ TargetsSame(y, x) /\ ChainSame(y, x)
  BY <1>2, <1>3, SetAlert
<1> HIDE DEF y
<1>7. AskedSame(y, r) /\ TargetsSame(y, r) /\ ChainSame(y, r)
  BY <1>3, <1>6 DEF AskedSame, TargetsSame, ChainSame
<1>8. OnlyMoves(t) /\ UNCHANGED <<server, history>> /\ (tasks'[t] = y \/ tasks'[t] = z)
  BY <1>4, <1>5, <1>6, ReadsStep
<1> QED
  BY <1>0, <1>1, <1>3, <1>4, <1>6, <1>7, <1>8 DEF Gathers, Waits

LEMMA ReadTargetGroupsDoes ==
  ASSUME TypeOK, NEW t \in Tasks, ReadTargetGroups(t)
  PROVE  /\ Gathers(t, "tgroups") /\ UNCHANGED server /\ "tgroups" \notin tasks'[t].waits
         /\ tasks'[t].alert = tasks[t].alert
         /\ TargetsSame(tasks'[t], tasks[t]) /\ ChainSame(tasks'[t], tasks[t])
         /\ \/ tasks'[t].rejected /\ tasks'[t].tgroup = tasks[t].tgroup
            \/ tasks'[t].tgroup \in Found(server.tgroups)
<1> DEFINE r == tasks[t]
<1>0. r \in Operation /\ Waits(t, "tgroups")
  BY DEF TypeOK, ReadTargetGroups
<1>1. PICK g \in Found(server.tgroups) :
        Reads(t, [Ended(r, "tgroups") EXCEPT !.tgroup = g], Rejected(r, "tgroups"))
  BY DEF ReadTargetGroups
<1>2. g \in TargetGroup \cup {None}
  BY DEF Found, TypeOK, Service
<1> DEFINE x == Ended(r, "tgroups")
           y == [x EXCEPT !.tgroup = g]
           z == Rejected(r, "tgroups")
<1>3. /\ x \in Operation /\ x.waits = r.waits \ {"tgroups"} /\ x.rejected = r.rejected
      /\ AskedSame(x, r) /\ x.alert = r.alert /\ TargetsSame(x, r) /\ ChainSame(x, r)
  BY <1>0, EndedFields
<1>4. /\ z \in Operation /\ z.waits = r.waits \ {"tgroups"} /\ z.rejected = TRUE
      /\ AskedSame(z, r) /\ z.alert = r.alert /\ z.tgroup = r.tgroup
      /\ TargetsSame(z, r) /\ ChainSame(z, r)
  BY <1>0, RejectedFields
<1>5. Reads(t, y, z)
  BY <1>1
<1> HIDE DEF x, z
<1>6. /\ y \in Operation /\ y.waits = x.waits /\ y.rejected = x.rejected /\ AskedSame(y, x)
      /\ y.tgroup = g /\ y.alert = x.alert /\ TargetsSame(y, x) /\ ChainSame(y, x)
  BY <1>2, <1>3, SetTgroup
<1> HIDE DEF y
<1>7. AskedSame(y, r) /\ TargetsSame(y, r) /\ ChainSame(y, r)
  BY <1>3, <1>6 DEF AskedSame, TargetsSame, ChainSame
<1>8. OnlyMoves(t) /\ UNCHANGED <<server, history>> /\ (tasks'[t] = y \/ tasks'[t] = z)
  BY <1>4, <1>5, <1>6, ReadsStep
<1> QED
  BY <1>0, <1>1, <1>3, <1>4, <1>6, <1>7, <1>8 DEF Gathers, Waits

\* Looking for a target: there is none, or it is one to be kept, or it fails.
LEMMA FindTargetDoes ==
  ASSUME TypeOK, NEW t \in Tasks, NEW c \in Channels, FindTarget(t, c)
  PROVE  /\ Gathers(t, c) /\ UNCHANGED server
         /\ tasks'[t].alert = tasks[t].alert /\ tasks'[t].tgroup = tasks[t].tgroup
         /\ ChainSame(tasks'[t], tasks[t])
         /\ \/ /\ tasks'[t].waits = tasks[t].waits /\ tasks'[t].targets = tasks[t].targets
               /\ tasks'[t].creating = tasks[t].creating \cup {c}
               /\ \A y \in server.targets : ~(y.channel = c /\ y.value = tasks[t].want[c])
            \/ /\ tasks'[t].waits = tasks[t].waits \ {c}
               /\ tasks'[t].creating = tasks[t].creating
               /\ \E y \in server.targets :
                    /\ y.channel = c /\ y.value = tasks[t].want[c]
                    /\ tasks'[t].targets = tasks[t].targets \cup {y.id}
            \/ /\ tasks'[t].waits = tasks[t].waits \ {c} /\ tasks'[t].rejected
               /\ TargetsSame(tasks'[t], tasks[t])
<1> DEFINE r == tasks[t]
           fits == {y \in server.targets : y.channel = c /\ y.value = r.want[c]}
<1>0. r \in Operation /\ Waits(t, c)
  BY DEF TypeOK, FindTarget
<1>1. PICK x \in Found(fits) :
        Reads(t, IF x = None THEN [r EXCEPT !.creating = @ \cup {c}]
                 ELSE [Ended(r, c) EXCEPT !.targets = @ \cup {x.id}],
              Rejected(r, c))
  BY DEF FindTarget
<1> DEFINE z == Rejected(r, c)
<1>2. /\ z \in Operation /\ z.waits = r.waits \ {c} /\ z.rejected = TRUE
      /\ AskedSame(z, r) /\ z.alert = r.alert /\ z.tgroup = r.tgroup
      /\ TargetsSame(z, r) /\ ChainSame(z, r)
  BY <1>0, RejectedFields
<1>3. CASE x = None
  <2> DEFINE y == [r EXCEPT !.creating = r.creating \cup {c}]
  <2>1. Reads(t, y, z)
    BY <1>1, <1>3
  <2>2. fits = {}
    BY <1>1, <1>3, NoneAssumption DEF Found, TypeOK, Service
  <2>3. r.creating \cup {c} \in SUBSET Channels
    BY <1>0 DEF Operation
  <2> HIDE DEF z
  <2>4. /\ y \in Operation /\ y.waits = r.waits /\ y.rejected = r.rejected /\ AskedSame(y, r)
        /\ y.alert = r.alert /\ y.tgroup = r.tgroup /\ ChainSame(y, r)
        /\ y.creating = r.creating \cup {c} /\ y.targets = r.targets
    BY <1>0, <2>3, SetCreating
  <2> HIDE DEF y
  <2>5. OnlyMoves(t) /\ UNCHANGED <<server, history>> /\ (tasks'[t] = y \/ tasks'[t] = z)
    BY <1>2, <2>1, <2>4, ReadsStep
  <2>6. CASE tasks'[t] = y
    BY <1>0, <2>2, <2>4, <2>5, <2>6 DEF Gathers, Waits
  <2>7. CASE tasks'[t] = z
    BY <1>0, <1>2, <2>5, <2>7 DEF Gathers, Waits
  <2> QED
    BY <2>5, <2>6, <2>7
<1>4. CASE x # None
  <2> DEFINE v == Ended(r, c)
             y == [v EXCEPT !.targets = v.targets \cup {x.id}]
  <2>1. Reads(t, y, z)
    BY <1>1, <1>4
  <2>2. x \in fits /\ x.id \in Nat
    BY <1>1, <1>4 DEF Found, TypeOK, Service, Target
  <2>3. /\ v \in Operation /\ v.waits = r.waits \ {c} /\ v.rejected = r.rejected
        /\ AskedSame(v, r) /\ v.alert = r.alert /\ v.tgroup = r.tgroup
        /\ TargetsSame(v, r) /\ ChainSame(v, r)
    BY <1>0, EndedFields
  <2> HIDE DEF z, v
  <2>4. v.targets \cup {x.id} \in SUBSET Nat
    BY <2>2, <2>3 DEF Operation
  <2>5. /\ y \in Operation /\ y.waits = v.waits /\ y.rejected = v.rejected /\ AskedSame(y, v)
        /\ y.alert = v.alert /\ y.tgroup = v.tgroup /\ ChainSame(y, v)
        /\ y.creating = v.creating /\ y.targets = v.targets \cup {x.id}
    BY <2>3, <2>4, SetTargets
  <2> HIDE DEF y
  <2>6. /\ AskedSame(y, r) /\ ChainSame(y, r) /\ y.creating = r.creating
        /\ y.targets = r.targets \cup {x.id}
    BY <2>3, <2>5 DEF AskedSame, TargetsSame, ChainSame
  <2>7. OnlyMoves(t) /\ UNCHANGED <<server, history>> /\ (tasks'[t] = y \/ tasks'[t] = z)
    BY <1>2, <2>1, <2>5, ReadsStep
  <2>8. CASE tasks'[t] = y
    BY <1>0, <2>2, <2>3, <2>5, <2>6, <2>7, <2>8 DEF Gathers, Waits
  <2>9. CASE tasks'[t] = z
    BY <1>0, <1>2, <2>7, <2>9 DEF Gathers, Waits
  <2> QED
    BY <2>7, <2>8, <2>9
<1> QED
  BY <1>3, <1>4

NewTarget(r, c) == [id |-> New, channel |-> c, value |-> r.want[c]]

\* Creating it, or failing to: also then it may have been created.
LEMMA CreateTargetDoes ==
  ASSUME TypeOK, NEW t \in Tasks, NEW c \in Channels, CreateTarget(t, c),
         tasks[t].want[c] # None
  PROVE  /\ Gathers(t, c) /\ c \in tasks[t].creating /\ tasks'[t].waits = tasks[t].waits \ {c}
         /\ tasks'[t].alert = tasks[t].alert /\ tasks'[t].tgroup = tasks[t].tgroup
         /\ ChainSame(tasks'[t], tasks[t]) /\ tasks'[t].creating = tasks[t].creating
         /\ NewTarget(tasks[t], c) \in Target
         /\ server' \in {server, Created("targets", NewTarget(tasks[t], c))}
         /\ \/ /\ server' = Created("targets", NewTarget(tasks[t], c))
               /\ tasks'[t].targets = tasks[t].targets \cup {New}
            \/ tasks'[t].rejected /\ tasks'[t].targets = tasks[t].targets
<1> DEFINE r == tasks[t]
           new == Created("targets", NewTarget(r, c))
           v == Ended(r, c)
           y == [v EXCEPT !.targets = v.targets \cup {New}]
           z == Rejected(r, c)
<1>0. r \in Operation /\ Waits(t, c) /\ c \in r.creating /\ UNCHANGED history
  BY DEF TypeOK, CreateTarget
<1>1. Writes(t, new, y, z)
  BY DEF CreateTarget, NewTarget
<1>2. New \in Nat /\ r.want[c] \in Values
  BY <1>0 DEF New, TypeOK, Service, Operation, Targets
<1>3. NewTarget(r, c) \in Target
  BY <1>2 DEF NewTarget, Target
<1>4. new \in Service
  BY <1>3, CreatedTarget DEF TypeOK
<1>5. /\ z \in Operation /\ z.waits = r.waits \ {c} /\ z.rejected = TRUE
      /\ AskedSame(z, r) /\ z.alert = r.alert /\ z.tgroup = r.tgroup
      /\ TargetsSame(z, r) /\ ChainSame(z, r)
  BY <1>0, RejectedFields
<1>6. /\ v \in Operation /\ v.waits = r.waits \ {c} /\ v.rejected = r.rejected
      /\ AskedSame(v, r) /\ v.alert = r.alert /\ v.tgroup = r.tgroup
      /\ TargetsSame(v, r) /\ ChainSame(v, r)
  BY <1>0, EndedFields
<1> HIDE DEF z, v, new
<1>7. v.targets \cup {New} \in SUBSET Nat
  BY <1>2, <1>6 DEF Operation
<1>8. /\ y \in Operation /\ y.waits = v.waits /\ y.rejected = v.rejected /\ AskedSame(y, v)
      /\ y.alert = v.alert /\ y.tgroup = v.tgroup /\ ChainSame(y, v)
      /\ y.creating = v.creating /\ y.targets = v.targets \cup {New}
  BY <1>6, <1>7, SetTargets
<1> HIDE DEF y
<1>9. /\ AskedSame(y, r) /\ ChainSame(y, r) /\ y.creating = r.creating
      /\ y.targets = r.targets \cup {New}
  BY <1>6, <1>8 DEF AskedSame, TargetsSame, ChainSame
<1>10. /\ OnlyMoves(t)
       /\ \/ server' = new /\ tasks'[t] = y
          \/ server' \in {server, new} /\ tasks'[t] = z
  BY <1>1, <1>4, <1>5, <1>8, WritesStep
<1>11. CASE server' = new /\ tasks'[t] = y
  BY <1>0, <1>3, <1>6, <1>8, <1>9, <1>10, <1>11 DEF Gathers, Waits, new
<1>12. CASE server' \in {server, new} /\ tasks'[t] = z
  BY <1>0, <1>3, <1>5, <1>10, <1>12 DEF Gathers, Waits, new, TargetsSame
<1> QED
  BY <1>10, <1>11, <1>12

\* Three fields of the chain are set at once.
WithChain(r, s, m, c) == [r EXCEPT !.sources = s, !.missing = m, !.chain = c]

LEMMA SetChainFields ==
  ASSUME NEW r \in Operation, NEW s \in SUBSET Nat,
         NEW m \in SUBSET (Addresses \cup {None}),
         NEW c \in ChainSteps
  PROVE  LET x == WithChain(r, s, m, c) IN
         /\ x \in Operation /\ x.waits = r.waits /\ x.rejected = r.rejected
         /\ x.alert = r.alert /\ x.tgroup = r.tgroup /\ AskedSame(x, r) /\ TargetsSame(x, r)
         /\ x.chain = c /\ x.missing = m /\ x.sources = s /\ x.sgroup = r.sgroup
<1> DEFINE x1 == [r EXCEPT !.sources = s]
           x2 == [x1 EXCEPT !.missing = m]
           x3 == [x2 EXCEPT !.chain = c]
<1>1. x3 = WithChain(r, s, m, c)
  BY DEF WithChain
<1>2. /\ x1 \in Operation /\ x1.waits = r.waits /\ x1.rejected = r.rejected
      /\ x1.alert = r.alert /\ x1.tgroup = r.tgroup /\ AskedSame(x1, r) /\ TargetsSame(x1, r)
      /\ x1.sources = s /\ x1.sgroup = r.sgroup
  BY SetSources
<1> HIDE DEF x1
<1>3. /\ x2 \in Operation /\ x2.waits = x1.waits /\ x2.rejected = x1.rejected
      /\ x2.alert = x1.alert /\ x2.tgroup = x1.tgroup /\ AskedSame(x2, x1) /\ TargetsSame(x2, x1)
      /\ x2.missing = m /\ x2.sources = x1.sources /\ x2.sgroup = x1.sgroup
  BY <1>2, SetMissing
<1> HIDE DEF x2
<1>4. /\ x3 \in Operation /\ x3.waits = x2.waits /\ x3.rejected = x2.rejected
      /\ x3.alert = x2.alert /\ x3.tgroup = x2.tgroup /\ AskedSame(x3, x2) /\ TargetsSame(x3, x2)
      /\ x3.chain = c /\ x3.missing = x2.missing /\ x3.sources = x2.sources
      /\ x3.sgroup = x2.sgroup
  BY <1>3, SetChain
<1> HIDE DEF x3
<1>5. AskedSame(x3, r) /\ TargetsSame(x3, r)
  BY <1>2, <1>3, <1>4 DEF AskedSame, TargetsSame
<1> QED
  BY <1>1, <1>2, <1>3, <1>4, <1>5

LEMMA ReadSourcesDoes ==
  ASSUME TypeOK, NEW t \in Tasks, ReadSources(t), tasks[t].e \in Events
  PROVE  /\ Gathers(t, "chain") /\ UNCHANGED server
         /\ tasks'[t].alert = tasks[t].alert /\ tasks'[t].tgroup = tasks[t].tgroup
         /\ TargetsSame(tasks'[t], tasks[t]) /\ tasks'[t].sgroup = tasks[t].sgroup
         /\ tasks[t].chain = "sources"
         /\ \/ /\ tasks'[t].waits = tasks[t].waits \ {"chain"} /\ tasks'[t].rejected
               /\ ChainSame(tasks'[t], tasks[t])
            \/ /\ tasks'[t].waits = tasks[t].waits
               /\ \E picked \in Picks(tasks[t].e) : tasks'[t].sources = Ids(picked)
               /\ tasks'[t].missing = Lacking(tasks[t].e)
               /\ tasks'[t].chain = IF Lacking(tasks[t].e) = {} THEN "groups" ELSE "create"
               /\ Kind(tasks[t].e) \in FoundOnly => Lacking(tasks[t].e) = {}
<1> DEFINE r == tasks[t]
           z == Rejected(r, "chain")
           m == Lacking(r.e)
           c == IF m = {} THEN "groups" ELSE "create"
<1>0. r \in Operation /\ Waits(t, "chain") /\ r.chain = "sources"
  BY DEF TypeOK, ReadSources, At
<1>1. /\ z \in Operation /\ z.waits = r.waits \ {"chain"} /\ z.rejected = TRUE
      /\ AskedSame(z, r) /\ z.alert = r.alert /\ z.tgroup = r.tgroup
      /\ TargetsSame(z, r) /\ ChainSame(z, r)
  BY <1>0, RejectedFields
<1>2. m \in SUBSET (Addresses \cup {None})
  BY ConfigFacts DEF Lacking, TypeOK
<1>3. CASE Reads(t, z, z)
  <2> HIDE DEF z
  <2>1. OnlyMoves(t) /\ UNCHANGED <<server, history>> /\ tasks'[t] = z
    BY <1>1, <1>3, ReadsStep
  <2> QED
    BY <1>0, <1>1, <2>1 DEF Gathers, Waits, ChainSame
<1>4. CASE /\ Kind(r.e) \notin FoundOnly \/ m = {}
           /\ \E picked \in Picks(r.e) :
                Reads(t, [r EXCEPT !.sources = Ids(picked), !.missing = m, !.chain = c], z)
  <2>1. PICK picked \in Picks(r.e) :
          Reads(t, [r EXCEPT !.sources = Ids(picked), !.missing = m, !.chain = c], z)
    BY <1>4
  <2>2. picked \subseteq server.sources
    BY DEF Picks, OfType, Fitting
  <2>3. Ids(picked) \in SUBSET Nat
    BY <2>2 DEF Ids, TypeOK, Service, Source
  <2> DEFINE y == WithChain(r, Ids(picked), m, c)
  <2> HIDE DEF m
  <2>4. c \in ChainSteps
    BY DEF ChainSteps
  <2> HIDE DEF c
  <2>5. /\ y \in Operation /\ y.waits = r.waits /\ y.rejected = r.rejected
        /\ y.alert = r.alert /\ y.tgroup = r.tgroup /\ AskedSame(y, r) /\ TargetsSame(y, r)
        /\ y.chain = c /\ y.missing = m /\ y.sources = Ids(picked) /\ y.sgroup = r.sgroup
    BY <1>0, <1>2, <2>3, <2>4, SetChainFields
  <2>6. Reads(t, y, z)
    BY <2>1 DEF WithChain, m, c
  <2> HIDE DEF y, z
  <2>7. OnlyMoves(t) /\ UNCHANGED <<server, history>> /\ (tasks'[t] = y \/ tasks'[t] = z)
    BY <1>1, <2>5, <2>6, ReadsStep
  <2>8. CASE tasks'[t] = y
    BY <1>0, <1>4, <2>5, <2>7, <2>8 DEF Gathers, Waits, m, c
  <2>9. CASE tasks'[t] = z
    BY <1>0, <1>1, <2>7, <2>9 DEF Gathers, Waits, ChainSame
  <2> QED
    BY <2>7, <2>8, <2>9
<1> QED
  BY <1>3, <1>4 DEF ReadSources

NewSource(e, a) == [id |-> New, type |-> SourceType(Kind(e)), address |-> a]

LEMMA CreateSourceDoes ==
  ASSUME TypeOK, NEW t \in Tasks, NEW a \in Addresses \cup {None}, CreateSource(t, a),
         tasks[t].e \in Events, Kind(tasks[t].e) # "label",
         tasks[t].chain = "rest" => tasks[t].rejected
  PROVE  /\ Gathers(t, "chain")
         /\ tasks[t].chain \in {"create", "rest"} /\ a \in tasks[t].missing
         /\ tasks'[t].alert = tasks[t].alert /\ tasks'[t].tgroup = tasks[t].tgroup
         /\ TargetsSame(tasks'[t], tasks[t]) /\ tasks'[t].sgroup = tasks[t].sgroup
         /\ NewSource(tasks[t].e, a) \in Source
         /\ server' \in {server, Created("sources", NewSource(tasks[t].e, a))}
         /\ \/ /\ tasks[t].chain = "create"
               /\ server' = Created("sources", NewSource(tasks[t].e, a))
               /\ tasks'[t].waits = tasks[t].waits
               /\ tasks'[t].sources = tasks[t].sources \cup {New}
               /\ tasks'[t].missing = tasks[t].missing \ {a}
               /\ tasks'[t].chain = IF tasks[t].missing \ {a} = {} THEN "groups" ELSE "create"
            \/ /\ tasks'[t].rejected /\ tasks'[t].sources = tasks[t].sources
               /\ \/ tasks'[t].waits = tasks[t].waits \ {"chain"}
                  \/ /\ tasks'[t].waits = tasks[t].waits /\ tasks'[t].chain = "rest"
                     /\ tasks'[t].missing = tasks[t].missing \ {a}
<1> DEFINE r == tasks[t]
           left == [r EXCEPT !.missing = r.missing \ {a}]
           ended == Ended(left, "chain")
           goes == [left EXCEPT !.chain = "rest"]
           rest == IF left.missing = {} THEN ended ELSE goes
           ok == [left EXCEPT !.sources = left.sources \cup {New},
                              !.chain = IF left.missing = {} THEN "groups" ELSE "create"]
           z == Rejected(r, "chain")
           failed == IF Kind(r.e) = "priceChange" THEN z ELSE [rest EXCEPT !.rejected = TRUE]
           new == Created("sources", NewSource(r.e, a))
<1>0. /\ r \in Operation /\ Waits(t, "chain") /\ r.chain \in {"create", "rest"}
      /\ a \in r.missing /\ UNCHANGED history
  BY DEF TypeOK, CreateSource, At
<1>1. Writes(t, new, IF r.chain = "rest" THEN rest ELSE ok, failed)
  BY DEF CreateSource, NewSource
<1>2. New \in Nat /\ r.sources \cup {New} \in SUBSET Nat
      /\ r.missing \ {a} \in SUBSET (Addresses \cup {None})
  BY <1>0 DEF New, TypeOK, Service, Operation
<1>3. NewSource(r.e, a) \in Source
  BY <1>2, SourceTypeType DEF NewSource, Source, TypeOK
<1>4. new \in Service
  BY <1>3, CreatedSource DEF TypeOK
<1>5. /\ z \in Operation /\ z.waits = r.waits \ {"chain"} /\ z.rejected = TRUE
      /\ AskedSame(z, r) /\ z.alert = r.alert /\ z.tgroup = r.tgroup
      /\ TargetsSame(z, r) /\ ChainSame(z, r)
  BY <1>0, RejectedFields
<1>6. /\ left \in Operation /\ left.waits = r.waits /\ left.rejected = r.rejected
      /\ AskedSame(left, r) /\ left.alert = r.alert /\ left.tgroup = r.tgroup
      /\ TargetsSame(left, r) /\ left.missing = r.missing \ {a} /\ left.chain = r.chain
      /\ left.sources = r.sources /\ left.sgroup = r.sgroup
  BY <1>0, <1>2, SetMissing
<1> DEFINE c == IF left.missing = {} THEN "groups" ELSE "create"
<1>7. /\ ok \in Operation /\ ok.waits = r.waits /\ ok.rejected = r.rejected
      /\ AskedSame(ok, r) /\ ok.alert = r.alert /\ ok.tgroup = r.tgroup
      /\ TargetsSame(ok, r) /\ ok.missing = r.missing \ {a} /\ ok.chain = c
      /\ ok.sources = r.sources \cup {New} /\ ok.sgroup = r.sgroup
  <2> HIDE DEF left
  <2> DEFINE x == [left EXCEPT !.sources = left.sources \cup {New}]
  <2>1. ok = [x EXCEPT !.chain = c]
    OBVIOUS
  <2>2. /\ x \in Operation /\ x.waits = left.waits /\ x.rejected = left.rejected
        /\ AskedSame(x, left) /\ x.alert = left.alert /\ x.tgroup = left.tgroup
        /\ TargetsSame(x, left) /\ x.missing = left.missing
        /\ x.sources = r.sources \cup {New} /\ x.sgroup = left.sgroup
    BY <1>2, <1>6, SetSources
  <2> DEFINE w == [x EXCEPT !.chain = c]
  <2> HIDE DEF x, c
  <2>3. c \in ChainSteps
    BY DEF c, ChainSteps
  <2>4. /\ w \in Operation /\ w.waits = x.waits /\ w.rejected = x.rejected
        /\ AskedSame(w, x) /\ w.alert = x.alert /\ w.tgroup = x.tgroup
        /\ TargetsSame(w, x) /\ w.missing = x.missing /\ w.chain = c
        /\ w.sources = x.sources /\ w.sgroup = x.sgroup
    BY <2>2, <2>3, SetChain
  <2> HIDE DEF w
  <2>5. AskedSame(w, r) /\ TargetsSame(w, r)
    BY <1>6, <2>2, <2>4 DEF AskedSame, TargetsSame
  <2>6. ok = w
    BY <2>1 DEF w
  <2> HIDE DEF ok
  <2> QED
    BY <1>6, <2>2, <2>4, <2>5, <2>6
<1>8. /\ ended \in Operation /\ ended.waits = left.waits \ {"chain"}
      /\ ended.rejected = left.rejected /\ AskedSame(ended, left)
      /\ ended.alert = left.alert /\ ended.tgroup = left.tgroup
      /\ TargetsSame(ended, left) /\ ended.sources = left.sources /\ ended.sgroup = left.sgroup
  <2> HIDE DEF left
  <2> QED
    BY <1>6, EndedFields DEF ChainSame
<1>9. /\ goes \in Operation /\ goes.waits = left.waits
      /\ goes.rejected = left.rejected /\ AskedSame(goes, left)
      /\ goes.alert = left.alert /\ goes.tgroup = left.tgroup
      /\ TargetsSame(goes, left) /\ goes.sources = left.sources /\ goes.sgroup = left.sgroup
      /\ goes.chain = "rest" /\ goes.missing = left.missing
  <2> HIDE DEF left
  <2>1. "rest" \in ChainSteps
    BY DEF ChainSteps
  <2> QED
    BY <1>6, <2>1, SetChain
<1> HIDE DEF ended, goes, left, ok
<1>10. /\ rest \in Operation /\ rest.rejected = r.rejected /\ AskedSame(rest, r)
       /\ rest.alert = r.alert /\ rest.tgroup = r.tgroup /\ TargetsSame(rest, r)
       /\ rest.sources = r.sources /\ rest.sgroup = r.sgroup
       /\ \/ rest.waits = r.waits \ {"chain"}
          \/ rest.waits = r.waits /\ rest.chain = "rest" /\ rest.missing = r.missing \ {a}
  <2>1. AskedSame(ended, r) /\ TargetsSame(ended, r) /\ AskedSame(goes, r) /\ TargetsSame(goes, r)
    BY <1>6, <1>8, <1>9 DEF AskedSame, TargetsSame
  <2>2. rest = ended \/ rest = goes
    OBVIOUS
  <2> HIDE DEF rest
  <2> QED
    BY <1>6, <1>8, <1>9, <2>1, <2>2
<1> DEFINE x == [rest EXCEPT !.rejected = TRUE]
<1> HIDE DEF rest
<1>11. /\ x \in Operation /\ x.waits = rest.waits /\ x.rejected = TRUE /\ AskedSame(x, rest)
       /\ x.alert = rest.alert /\ x.tgroup = rest.tgroup /\ TargetsSame(x, rest)
       /\ x.chain = rest.chain /\ x.missing = rest.missing
       /\ x.sources = rest.sources /\ x.sgroup = rest.sgroup
  BY <1>10, SetRejected DEF ChainSame
<1> HIDE DEF x, z
<1>12. AskedSame(x, r) /\ TargetsSame(x, r) /\ failed \in {x, z}
  BY <1>10, <1>11 DEF AskedSame, TargetsSame, x
<1> HIDE DEF failed, new
<1>13. /\ failed \in Operation
       /\ (IF r.chain = "rest" THEN rest ELSE ok) \in Operation
  BY <1>5, <1>7, <1>10, <1>11, <1>12
<1>14. /\ OnlyMoves(t)
       /\ \/ server' = new /\ tasks'[t] = IF r.chain = "rest" THEN rest ELSE ok
          \/ server' \in {server, new} /\ tasks'[t] = failed
  BY <1>1, <1>4, <1>13, WritesStep
<1>15. CASE server' = new /\ tasks'[t] = ok /\ r.chain = "create"
  <2>1. Gathers(t, "chain")
    BY <1>0, <1>7, <1>14, <1>15 DEF Gathers, Waits
  <2> QED
    BY <1>0, <1>3, <1>6, <1>7, <1>15, <2>1 DEF new
<1>16. CASE server' = new /\ tasks'[t] = rest /\ r.chain = "rest"
  <2>1. Gathers(t, "chain")
    BY <1>0, <1>10, <1>14, <1>16 DEF Gathers, Waits
  <2> QED
    BY <1>0, <1>3, <1>10, <1>16, <2>1 DEF new
<1>17. CASE server' \in {server, new} /\ tasks'[t] = x
  <2>1. Gathers(t, "chain")
    BY <1>0, <1>10, <1>11, <1>12, <1>14, <1>17 DEF Gathers, Waits
  <2> QED
    BY <1>0, <1>3, <1>10, <1>11, <1>12, <1>17, <2>1 DEF new
<1>18. CASE server' \in {server, new} /\ tasks'[t] = z
  <2>1. Gathers(t, "chain")
    BY <1>0, <1>5, <1>14, <1>18 DEF Gathers, Waits
  <2> QED
    BY <1>0, <1>3, <1>5, <1>18, <2>1 DEF new, ChainSame
<1> QED
  BY <1>0, <1>12, <1>14, <1>15, <1>16, <1>17, <1>18

\* With its source group the chain ends, unless the inputs are invalid.
LEMMA WithGroupFields ==
  ASSUME NEW r \in Operation, NEW id \in Nat
  PROVE  LET x == WithGroup(r, id) IN
         /\ x \in Operation /\ x.waits = r.waits \ {"chain"} /\ AskedSame(x, r)
         /\ r.rejected => x.rejected
         /\ x.alert = r.alert /\ x.tgroup = r.tgroup /\ TargetsSame(x, r)
         /\ x.missing = r.missing /\ x.sources = r.sources
         /\ \/ x.rejected /\ x.sgroup = r.sgroup
            \/ x.sgroup = id /\ ~FilterThrows(r.e, r.opt, r.sources)
<1> DEFINE y == Ended(r, "chain")
           w == [y EXCEPT !.sgroup = id]
           z == Rejected(r, "chain")
<1>1. WithGroup(r, id) = IF FilterThrows(r.e, r.opt, r.sources) THEN z ELSE w
  BY DEF WithGroup
<1>2. /\ y \in Operation /\ y.waits = r.waits \ {"chain"} /\ y.rejected = r.rejected
      /\ AskedSame(y, r) /\ y.alert = r.alert /\ y.tgroup = r.tgroup
      /\ TargetsSame(y, r) /\ ChainSame(y, r)
  BY EndedFields
<1>3. /\ z \in Operation /\ z.waits = r.waits \ {"chain"} /\ z.rejected = TRUE
      /\ AskedSame(z, r) /\ z.alert = r.alert /\ z.tgroup = r.tgroup
      /\ TargetsSame(z, r) /\ ChainSame(z, r)
  BY RejectedFields
<1> HIDE DEF y, z
<1>4. /\ w \in Operation /\ w.waits = y.waits /\ w.rejected = y.rejected
      /\ AskedSame(w, y) /\ w.alert = y.alert /\ w.tgroup = y.tgroup /\ TargetsSame(w, y)
      /\ w.missing = y.missing /\ w.sources = y.sources /\ w.sgroup = id
  BY <1>2, SetSgroup
<1> HIDE DEF w
<1>5. AskedSame(w, r) /\ TargetsSame(w, r)
  BY <1>2, <1>4 DEF AskedSame, TargetsSame
<1> QED
  BY <1>1, <1>2, <1>3, <1>4, <1>5 DEF ChainSame

LEMMA ReadSourceGroupsDoes ==
  ASSUME TypeOK, NEW t \in Tasks, ReadSourceGroups(t)
  PROVE  /\ Gathers(t, "chain") /\ UNCHANGED server /\ tasks[t].chain = "groups"
         /\ tasks'[t].alert = tasks[t].alert /\ tasks'[t].tgroup = tasks[t].tgroup
         /\ TargetsSame(tasks'[t], tasks[t])
         /\ tasks'[t].missing = tasks[t].missing /\ tasks'[t].sources = tasks[t].sources
         /\ \/ /\ tasks'[t].waits = tasks[t].waits \ {"chain"} /\ tasks'[t].rejected
               /\ tasks'[t].sgroup = tasks[t].sgroup
            \/ /\ tasks'[t].waits = tasks[t].waits /\ tasks'[t].chain = "put"
               /\ \E g \in Found({x \in server.sgroups : x.name = tasks[t].e}) :
                    tasks'[t].sgroup = IF g = None THEN None ELSE g.id
            \/ /\ tasks'[t].waits = tasks[t].waits \ {"chain"}
               /\ \E g \in server.sgroups :
                    /\ g.name = tasks[t].e /\ g.sources = tasks[t].sources
                    /\ tasks'[t].sgroup = g.id
               /\ ~FilterThrows(tasks[t].e, tasks[t].opt, tasks[t].sources)
<1> DEFINE r == tasks[t]
           z == Rejected(r, "chain")
           named == {x \in server.sgroups : x.name = r.e}
<1>0. r \in Operation /\ Waits(t, "chain") /\ r.chain = "groups"
  BY DEF TypeOK, ReadSourceGroups, At
<1>1. /\ z \in Operation /\ z.waits = r.waits \ {"chain"} /\ z.rejected = TRUE
      /\ AskedSame(z, r) /\ z.alert = r.alert /\ z.tgroup = r.tgroup
      /\ TargetsSame(z, r) /\ ChainSame(z, r)
  BY <1>0, RejectedFields
<1>2. PICK g \in Found(named) :
        Reads(t, IF g # None /\ AreIdsEqual(r.sources, g.sources) THEN WithGroup(r, g.id)
                 ELSE [r EXCEPT !.chain = "put", !.sgroup = IF g = None THEN None ELSE g.id], z)
  BY DEF ReadSourceGroups
<1>3. g # None => g \in server.sgroups /\ g.name = r.e /\ g.id \in Nat
  BY DEF Found, TypeOK, Service, SourceGroup
<1>4. CASE g # None /\ AreIdsEqual(r.sources, g.sources)
  <2> DEFINE y == WithGroup(r, g.id)
  <2>1. Reads(t, y, z)
    BY <1>2, <1>4
  <2>2. /\ y \in Operation /\ y.waits = r.waits \ {"chain"} /\ AskedSame(y, r)
        /\ r.rejected => y.rejected
        /\ y.alert = r.alert /\ y.tgroup = r.tgroup /\ TargetsSame(y, r)
        /\ y.missing = r.missing /\ y.sources = r.sources
        /\ \/ y.rejected /\ y.sgroup = r.sgroup
           \/ y.sgroup = g.id /\ ~FilterThrows(r.e, r.opt, r.sources)
    BY <1>0, <1>3, <1>4, WithGroupFields
  <2> HIDE DEF y, z
  <2>3. OnlyMoves(t) /\ UNCHANGED <<server, history>> /\ (tasks'[t] = y \/ tasks'[t] = z)
    BY <1>1, <2>1, <2>2, ReadsStep
  <2>4. CASE tasks'[t] = y
    <3>1. g.sources = r.sources
      BY <1>4 DEF AreIdsEqual
    <3>2. Gathers(t, "chain")
      BY <1>0, <2>2, <2>3, <2>4 DEF Gathers, Waits
    <3> QED
      BY <1>0, <1>3, <1>4, <2>2, <2>3, <2>4, <3>1, <3>2
  <2>5. CASE tasks'[t] = z
    BY <1>0, <1>1, <2>3, <2>5 DEF Gathers, Waits, ChainSame
  <2> QED
    BY <2>3, <2>4, <2>5
<1>5. CASE ~(g # None /\ AreIdsEqual(r.sources, g.sources))
  <2> DEFINE id == IF g = None THEN None ELSE g.id
             x == [r EXCEPT !.chain = "put"]
             y == [x EXCEPT !.sgroup = id]
  <2>1. Reads(t, y, z)
    BY <1>2, <1>5
  <2>2. id \in Nat \cup {None} /\ "put" \in ChainSteps
    BY <1>3 DEF ChainSteps
  <2>3. /\ x \in Operation /\ x.waits = r.waits /\ x.rejected = r.rejected
        /\ AskedSame(x, r) /\ x.alert = r.alert /\ x.tgroup = r.tgroup /\ TargetsSame(x, r)
        /\ x.chain = "put" /\ x.missing = r.missing /\ x.sources = r.sources
    BY <1>0, <2>2, SetChain
  <2> HIDE DEF x, z, id
  <2>4. /\ y \in Operation /\ y.waits = x.waits /\ y.rejected = x.rejected
        /\ AskedSame(y, x) /\ y.alert = x.alert /\ y.tgroup = x.tgroup /\ TargetsSame(y, x)
        /\ y.chain = x.chain /\ y.missing = x.missing /\ y.sources = x.sources /\ y.sgroup = id
    BY <2>2, <2>3, SetSgroup
  <2> HIDE DEF y
  <2>5. AskedSame(y, r) /\ TargetsSame(y, r)
    BY <2>3, <2>4 DEF AskedSame, TargetsSame
  <2>6. OnlyMoves(t) /\ UNCHANGED <<server, history>> /\ (tasks'[t] = y \/ tasks'[t] = z)
    BY <1>1, <2>1, <2>4, ReadsStep
  <2>7. CASE tasks'[t] = y
    <3>1. Gathers(t, "chain")
      BY <1>0, <2>3, <2>4, <2>5, <2>6, <2>7 DEF Gathers, Waits
    <3> QED
      BY <1>0, <1>2, <2>3, <2>4, <2>5, <2>6, <2>7, <3>1 DEF id
  <2>8. CASE tasks'[t] = z
    BY <1>0, <1>1, <2>6, <2>8 DEF Gathers, Waits, ChainSame
  <2> QED
    BY <2>6, <2>7, <2>8
<1> QED
  BY <1>4, <1>5

NewSourceGroup(r) ==
  [id |-> IF r.sgroup = None THEN New ELSE r.sgroup, name |-> r.e, sources |-> r.sources]

WithSourceGroup(r) ==
  IF r.sgroup = None THEN Created("sgroups", NewSourceGroup(r))
  ELSE Updated("sgroups", NewSourceGroup(r))

LEMMA PutSourceGroupDoes ==
  ASSUME TypeOK, NEW t \in Tasks, PutSourceGroup(t), tasks[t].e \in Events
  PROVE  /\ Gathers(t, "chain") /\ tasks[t].chain = "put"
         /\ tasks'[t].alert = tasks[t].alert /\ tasks'[t].tgroup = tasks[t].tgroup
         /\ TargetsSame(tasks'[t], tasks[t])
         /\ tasks'[t].missing = tasks[t].missing /\ tasks'[t].sources = tasks[t].sources
         /\ tasks'[t].waits = tasks[t].waits \ {"chain"}
         /\ NewSourceGroup(tasks[t]) \in SourceGroup
         /\ server' \in {server, WithSourceGroup(tasks[t])}
         /\ \/ tasks'[t].rejected /\ tasks'[t].sgroup = tasks[t].sgroup
            \/ /\ server' = WithSourceGroup(tasks[t])
               /\ tasks'[t].sgroup = NewSourceGroup(tasks[t]).id
               /\ ~FilterThrows(tasks[t].e, tasks[t].opt, tasks[t].sources)
<1> DEFINE r == tasks[t]
           id == IF r.sgroup = None THEN New ELSE r.sgroup
           y == WithGroup(r, id)
           z == Rejected(r, "chain")
           new == WithSourceGroup(r)
<1>0. r \in Operation /\ Waits(t, "chain") /\ r.chain = "put" /\ UNCHANGED history
  BY DEF TypeOK, PutSourceGroup, At
<1>1. Writes(t, new, y, z)
  BY DEF PutSourceGroup, WithSourceGroup, NewSourceGroup
<1>2. id \in Nat
  BY <1>0 DEF New, TypeOK, Service, Operation
<1>3. NewSourceGroup(r) \in SourceGroup /\ NewSourceGroup(r).id = id
  BY <1>0, <1>2 DEF NewSourceGroup, SourceGroup, Operation
<1>4. new \in Service
  BY <1>3, CreatedSourceGroup, UpdatedSourceGroup DEF TypeOK, WithSourceGroup
<1>5. /\ z \in Operation /\ z.waits = r.waits \ {"chain"} /\ z.rejected = TRUE
      /\ AskedSame(z, r) /\ z.alert = r.alert /\ z.tgroup = r.tgroup
      /\ TargetsSame(z, r) /\ ChainSame(z, r)
  BY <1>0, RejectedFields
<1> HIDE DEF id, z, new
<1>6. /\ y \in Operation /\ y.waits = r.waits \ {"chain"} /\ AskedSame(y, r)
      /\ r.rejected => y.rejected
      /\ y.alert = r.alert /\ y.tgroup = r.tgroup /\ TargetsSame(y, r)
      /\ y.missing = r.missing /\ y.sources = r.sources
      /\ \/ y.rejected /\ y.sgroup = r.sgroup
         \/ y.sgroup = id /\ ~FilterThrows(r.e, r.opt, r.sources)
  BY <1>0, <1>2, WithGroupFields
<1> HIDE DEF y
<1>7. /\ OnlyMoves(t)
      /\ \/ server' = new /\ tasks'[t] = y
         \/ server' \in {server, new} /\ tasks'[t] = z
  BY <1>1, <1>4, <1>5, <1>6, WritesStep
<1>8. CASE server' = new /\ tasks'[t] = y
  <2>1. Gathers(t, "chain")
    BY <1>0, <1>6, <1>7, <1>8 DEF Gathers, Waits
  <2> QED
    BY <1>0, <1>3, <1>6, <1>8, <2>1 DEF new
<1>9. CASE server' \in {server, new} /\ tasks'[t] = z
  <2>1. Gathers(t, "chain")
    BY <1>0, <1>5, <1>7, <1>9 DEF Gathers, Waits
  <2> QED
    BY <1>0, <1>3, <1>5, <1>9, <2>1 DEF new, ChainSame
<1> QED
  BY <1>7, <1>8, <1>9

-----------------------------------------------------------------------------
(* Starting, and what follows the gathering.                                 *)

LEMMA SetAlone ==
  ASSUME NEW r \in Operation, NEW v \in BOOLEAN
  PROVE  LET x == [r EXCEPT !.alone = v] IN
         /\ x \in Operation /\ x.alone = v /\ x.waits = r.waits /\ x.rejected = r.rejected
         /\ x.alert = r.alert /\ x.tgroup = r.tgroup /\ TargetsSame(x, r) /\ ChainSame(x, r)
         /\ x.pc = r.pc /\ x.op = r.op /\ x.e = r.e /\ x.opt = r.opt /\ x.want = r.want
BY DEF Operation, TargetsSame, ChainSame

\* r has just been started.
Fresh(r) ==
  /\ r \in Operation /\ r.pc = "gather" /\ r.alert = None /\ r.tgroup = None
  /\ r.creating = {} /\ r.targets = {} /\ r.missing = {} /\ r.sources = {} /\ r.sgroup = None
  /\ \/ /\ r.op = "targetGroup" /\ r.e = None /\ ~r.rejected
        /\ r.waits = {"tgroups"} \cup {c \in Channels : r.want[c] # None}
     \/ /\ r.op = "alert" /\ r.e \in Events /\ r.chain = "sources"
        /\ IF Kind(r.e) = "label" THEN r.rejected /\ r.waits = {"alerts", "tgroups"}
           ELSE ~r.rejected /\ r.waits = {"alerts", "tgroups", "chain"}
     \/ r.op = "unsubscribe" /\ r.e \in Events /\ ~r.rejected /\ r.waits = {"alerts"}

LEMMA FreshAlone ==
  ASSUME NEW r, Fresh(r), NEW v \in BOOLEAN
  PROVE  Fresh([r EXCEPT !.alone = v]) /\ [r EXCEPT !.alone = v].alone = v
         /\ [r EXCEPT !.alone = v].e = r.e /\ [r EXCEPT !.alone = v].op = r.op
<1> DEFINE x == [r EXCEPT !.alone = v]
<1>1. /\ x \in Operation /\ x.alone = v /\ x.waits = r.waits /\ x.rejected = r.rejected
      /\ x.alert = r.alert /\ x.tgroup = r.tgroup /\ TargetsSame(x, r) /\ ChainSame(x, r)
      /\ x.pc = r.pc /\ x.op = r.op /\ x.e = r.e /\ x.opt = r.opt /\ x.want = r.want
  BY SetAlone DEF Fresh
<1> HIDE DEF x
<1>2. Fresh(x)
  BY <1>1 DEF Fresh, TargetsSame, ChainSame
<1> QED
  BY <1>1, <1>2 DEF x

LEMMA StartsStep ==
  ASSUME TypeOK, NEW t \in Tasks, NEW r, Fresh(r), Starts(t, r)
  PROVE  /\ tasks' \in [Tasks -> Operation] /\ UNCHANGED <<config, server, failures, ensured, torn>>
         /\ starts' \in 0 .. MaxStarts /\ tasks[t].pc = "idle"
         /\ Fresh(tasks'[t]) /\ tasks'[t].alone = (Running = {})
         /\ tasks'[t].e = r.e /\ tasks'[t].op = r.op
         /\ \A u \in Tasks \ {t} : tasks'[u] = [tasks[u] EXCEPT !.alone = FALSE]
         /\ overlap' = (overlap \/ Running # {}) /\ claim' = None
<1>1. /\ tasks[t].pc = "idle" /\ UNCHANGED <<config, server, failures, ensured, torn>>
      /\ tasks' = [u \in Tasks |-> IF u = t THEN [r EXCEPT !.alone = (Running = {})]
                                   ELSE [tasks[u] EXCEPT !.alone = FALSE]]
      /\ overlap' = (overlap \/ Running # {}) /\ claim' = None
      /\ starts < MaxStarts /\ starts' = starts + 1
  BY DEF Starts
<1>2. starts' \in 0 .. MaxStarts
  BY <1>1, FrontendEnsureAssumption DEF TypeOK
<1> DEFINE x == [r EXCEPT !.alone = (Running = {})]
<1>3. Fresh(x) /\ x.alone = (Running = {}) /\ x.e = r.e /\ x.op = r.op
  BY FreshAlone
<1> HIDE DEF x
<1>4. tasks'[t] = x /\ \A u \in Tasks \ {t} : tasks'[u] = [tasks[u] EXCEPT !.alone = FALSE]
  BY <1>1 DEF x
<1>5. \A u \in Tasks : tasks[u] \in Operation
  BY DEF TypeOK
<1>6. \A u \in Tasks \ {t} : [tasks[u] EXCEPT !.alone = FALSE] \in Operation
  BY <1>5, SetAlone
<1>7. \A u \in Tasks : tasks'[u] \in Operation
  <2> TAKE u \in Tasks
  <2>1. CASE u = t
    BY <2>1, <1>3, <1>4 DEF Fresh
  <2>2. CASE u # t
    BY <2>2, <1>4, <1>6
  <2> QED
    BY <2>1, <2>2
<1>8. tasks' \in [Tasks -> Operation]
  <2>1. tasks' = [u \in Tasks |-> tasks'[u]]
    BY <1>1
  <2> HIDE DEF x
  <2> QED
    BY <1>7, <2>1
<1> QED
  BY <1>1, <1>2, <1>3, <1>4, <1>8

LEMMA StartDoes ==
  ASSUME TypeOK, NEW t \in Tasks, Start(t)
  PROVE  /\ tasks' \in [Tasks -> Operation] /\ UNCHANGED <<config, server, failures, ensured, torn>>
         /\ starts' \in 0 .. MaxStarts /\ tasks[t].pc = "idle"
         /\ Fresh(tasks'[t]) /\ tasks'[t].alone = (Running = {})
         /\ tasks'[t].op = "unsubscribe" => tasks'[t].e \in dropped'
         /\ dropped \subseteq dropped' /\ dropped' \subseteq Events
         /\ \A u \in Tasks \ {t} : tasks'[u] = [tasks[u] EXCEPT !.alone = FALSE]
         /\ overlap' = (overlap \/ Running # {}) /\ claim' = None
<1>1. CASE EnsureTargetGroup(t)
  <2>1. PICK want \in Targets :
          Starts(t, [Idle EXCEPT !.op = "targetGroup", !.pc = "gather", !.want = want,
                       !.waits = {"tgroups"} \cup {c \in Channels : want[c] # None}])
    BY <1>1 DEF EnsureTargetGroup
  <2> DEFINE r == [Idle EXCEPT !.op = "targetGroup", !.pc = "gather", !.want = want,
                       !.waits = {"tgroups"} \cup {c \in Channels : want[c] # None}]
  <2>2. Fresh(r) /\ r.op = "targetGroup"
    BY DEF Fresh, Idle, Operation, Pcs, ChainSteps, Targets
  <2>3. Starts(t, r) /\ UNCHANGED dropped
    BY <1>1, <2>1 DEF EnsureTargetGroup
  <2> HIDE DEF r
  <2> QED
    BY <2>2, <2>3, StartsStep DEF TypeOK
<1>2. CASE EnsureAlert(t)
  <2>0. PICK e \in Events :
          \E opt \in Inputs(e) :
            LET r == [Idle EXCEPT !.op = "alert", !.pc = "gather", !.e = e, !.opt = opt,
                        !.waits = {"alerts", "tgroups", "chain"}, !.chain = "sources"]
            IN Starts(t, IF Kind(e) = "label" THEN Rejected(r, "chain") ELSE r)
    BY <1>2, Zenon DEF EnsureAlert
  <2>1. PICK opt \in Inputs(e) :
          LET r == [Idle EXCEPT !.op = "alert", !.pc = "gather", !.e = e, !.opt = opt,
                      !.waits = {"alerts", "tgroups", "chain"}, !.chain = "sources"]
          IN Starts(t, IF Kind(e) = "label" THEN Rejected(r, "chain") ELSE r)
    BY <2>0, Zenon
  <2> DEFINE r == [Idle EXCEPT !.op = "alert", !.pc = "gather", !.e = e, !.opt = opt,
                      !.waits = {"alerts", "tgroups", "chain"}, !.chain = "sources"]
             z == Rejected(r, "chain")
             x == IF Kind(e) = "label" THEN z ELSE r
  <2>2. opt \in Options \cup {None}
    BY DEF Inputs
  <2>3. /\ r \in Operation /\ r.op = "alert" /\ r.pc = "gather" /\ r.e = e
        /\ r.waits = {"alerts", "tgroups", "chain"} /\ r.chain = "sources" /\ r.rejected = FALSE
        /\ r.alert = None /\ r.tgroup = None /\ r.creating = {} /\ r.targets = {}
        /\ r.missing = {} /\ r.sources = {} /\ r.sgroup = None
    BY <2>2 DEF Idle, Operation, Pcs, ChainSteps, Targets
  <2> HIDE DEF r
  <2>4. /\ z \in Operation /\ z.waits = r.waits \ {"chain"} /\ z.rejected = TRUE
        /\ AskedSame(z, r) /\ z.alert = r.alert /\ z.tgroup = r.tgroup
        /\ TargetsSame(z, r) /\ ChainSame(z, r)
    BY <2>3, RejectedFields
  <2> HIDE DEF z
  <2>5. Fresh(x) /\ x.op = "alert"
    <3>1. CASE Kind(e) = "label"
      <4>1. z.waits = {"alerts", "tgroups"}
        BY <2>3, <2>4
      <4>2. z.op = "alert" /\ z.e = e /\ z.pc = "gather"
        BY <2>3, <2>4 DEF AskedSame
      <4>3. Fresh(z)
        BY <2>3, <2>4, <3>1, <4>1, <4>2 DEF Fresh, TargetsSame, ChainSame
      <4> QED
        BY <3>1, <4>2, <4>3
    <3>2. CASE Kind(e) # "label"
      BY <2>3, <3>2 DEF Fresh
    <3> QED
      BY <3>1, <3>2
  <2>6. Starts(t, x) /\ UNCHANGED dropped
    BY <1>2, <2>1 DEF EnsureAlert, r, z
  <2> HIDE DEF x
  <2> QED
    BY <2>5, <2>6, StartsStep DEF TypeOK
<1>3. CASE Unsubscribe(t)
  <2>1. PICK e \in Events :
          /\ Starts(t, [Idle EXCEPT !.op = "unsubscribe", !.pc = "gather", !.e = e,
                          !.waits = {"alerts"}])
          /\ dropped' = dropped \cup {e}
    BY <1>3 DEF Unsubscribe
  <2> DEFINE r == [Idle EXCEPT !.op = "unsubscribe", !.pc = "gather", !.e = e,
                     !.waits = {"alerts"}]
  <2>2. Fresh(r) /\ r.e = e
    BY DEF Fresh, Idle, Operation, Pcs, ChainSteps, Targets
  <2>3. Starts(t, r)
    BY <2>1
  <2> HIDE DEF r
  <2> QED
    BY <2>1, <2>2, <2>3, StartsStep DEF TypeOK
<1> QED
  BY <1>1, <1>2, <1>3 DEF Start

LEMMA EndStep ==
  ASSUME TypeOK, NEW t \in Tasks, End(t)
  PROVE  tasks' \in [Tasks -> Operation] /\ tasks'[t] = Idle /\ OthersStay(t)
BY IdleType, BecomesStep DEF End, TypeOK

\* t goes on, at another point.
GoesTo(t, pc) ==
  LET r == tasks'[t]
      q == tasks[t]
  IN /\ r.pc = pc /\ r.op = q.op /\ r.e = q.e /\ r.opt = q.opt /\ r.want = q.want
     /\ r.alone = q.alone /\ r.waits = q.waits /\ r.rejected = q.rejected
     /\ r.alert = q.alert /\ r.tgroup = q.tgroup /\ TargetsSame(r, q) /\ ChainSame(r, q)

LEMMA SetPcGoes ==
  ASSUME NEW q \in Operation, NEW pc \in Pcs, NEW r, r = [q EXCEPT !.pc = pc]
  PROVE  /\ r \in Operation
         /\ r.pc = pc /\ r.op = q.op /\ r.e = q.e /\ r.opt = q.opt /\ r.want = q.want
         /\ r.alone = q.alone /\ r.waits = q.waits /\ r.rejected = q.rejected
         /\ r.alert = q.alert /\ r.tgroup = q.tgroup /\ TargetsSame(r, q) /\ ChainSame(r, q)
BY SetPc

LEMMA GoesStep ==
  ASSUME TypeOK, NEW t \in Tasks, NEW pc \in Pcs, Becomes(t, [tasks[t] EXCEPT !.pc = pc])
  PROVE  tasks' \in [Tasks -> Operation] /\ GoesTo(t, pc) /\ OthersStay(t)
<1> DEFINE r == [tasks[t] EXCEPT !.pc = pc]
<1>1. tasks[t] \in Operation
  BY DEF TypeOK
<1>2. /\ r \in Operation
      /\ r.pc = pc /\ r.op = tasks[t].op /\ r.e = tasks[t].e /\ r.opt = tasks[t].opt
      /\ r.want = tasks[t].want /\ r.alone = tasks[t].alone /\ r.waits = tasks[t].waits
      /\ r.rejected = tasks[t].rejected /\ r.alert = tasks[t].alert /\ r.tgroup = tasks[t].tgroup
      /\ TargetsSame(r, tasks[t]) /\ ChainSame(r, tasks[t])
  BY <1>1, SetPcGoes
<1>3. Becomes(t, r)
  OBVIOUS
<1> HIDE DEF r
<1>4. tasks' \in [Tasks -> Operation] /\ tasks'[t] = r /\ OthersStay(t)
  BY <1>2, <1>3, BecomesStep DEF TypeOK
<1> QED
  BY <1>2, <1>4 DEF GoesTo

LEMMA ThrowsDoes ==
  ASSUME TypeOK, NEW t \in Tasks, Throws(t)
  PROVE  /\ OnlyMoves(t) /\ UNCHANGED <<server, history>> /\ tasks'[t] = Idle
         /\ tasks[t].pc = "gather"
BY EndStep DEF Throws, Gathered, OnlyMoves, TypeOK

LEMMA TargetGroupGatheredDoes ==
  ASSUME TypeOK, NEW t \in Tasks, TargetGroupGathered(t)
  PROVE  /\ OnlyMoves(t) /\ UNCHANGED server
         /\ tasks[t].pc = "gather" /\ tasks[t].waits = {}
         /\ tasks[t].op = "targetGroup" /\ ~tasks[t].rejected
         /\ \/ GroupMatches(tasks[t]) /\ tasks'[t] = Idle /\ Returns(t)
            \/ ~GroupMatches(tasks[t]) /\ GoesTo(t, "put") /\ UNCHANGED history
<1>1. "put" \in Pcs
  BY DEF Pcs
<1> QED
  BY <1>1, EndStep, GoesStep DEF TargetGroupGathered, Gathered, OnlyMoves, TypeOK

LEMMA AlertGatheredDoes ==
  ASSUME TypeOK, NEW t \in Tasks, AlertGathered(t)
  PROVE  /\ OnlyMoves(t) /\ UNCHANGED server
         /\ tasks[t].pc = "gather" /\ tasks[t].waits = {}
         /\ tasks[t].op = "alert" /\ ~tasks[t].rejected /\ tasks[t].tgroup # None
         /\ \/ /\ tasks[t].alert # None /\ Matches(tasks[t])
               /\ tasks'[t] = Idle /\ Returns(t)
            \/ /\ tasks[t].alert = None /\ GoesTo(t, "create") /\ UNCHANGED history
            \/ /\ tasks[t].alert # None /\ ~Matches(tasks[t])
               /\ GoesTo(t, "delete") /\ UNCHANGED history
<1>1. "create" \in Pcs /\ "delete" \in Pcs
  BY DEF Pcs
<1>2. NextForAlert(tasks[t]) =
        IF tasks[t].alert = None THEN "create" ELSE IF Matches(tasks[t]) THEN "return" ELSE "delete"
  BY DEF NextForAlert
<1>3. /\ UNCHANGED <<config, server, starts, failures>>
      /\ tasks[t].pc = "gather" /\ tasks[t].waits = {}
      /\ tasks[t].op = "alert" /\ ~tasks[t].rejected /\ tasks[t].tgroup # None
      /\ \/ NextForAlert(tasks[t]) = "return" /\ End(t) /\ Returns(t)
         \/ /\ NextForAlert(tasks[t]) # "return"
            /\ Becomes(t, [tasks[t] EXCEPT !.pc = NextForAlert(tasks[t])]) /\ UNCHANGED history
  BY DEF AlertGathered, Gathered
<1>4. CASE NextForAlert(tasks[t]) = "return" /\ End(t) /\ Returns(t)
  BY <1>2, <1>3, <1>4, EndStep DEF OnlyMoves, TypeOK
<1>5. CASE /\ NextForAlert(tasks[t]) # "return"
           /\ Becomes(t, [tasks[t] EXCEPT !.pc = NextForAlert(tasks[t])]) /\ UNCHANGED history
  <2>1. CASE tasks[t].alert = None
    <3>1. Becomes(t, [tasks[t] EXCEPT !.pc = "create"])
      BY <1>2, <1>5, <2>1
    <3> QED
      BY <1>1, <1>3, <1>5, <2>1, <3>1, GoesStep DEF OnlyMoves, TypeOK
  <2>2. CASE tasks[t].alert # None
    <3>1. Becomes(t, [tasks[t] EXCEPT !.pc = "delete"]) /\ ~Matches(tasks[t])
      BY <1>2, <1>5, <2>2
    <3> QED
      BY <1>1, <1>3, <1>5, <2>2, <3>1, GoesStep DEF OnlyMoves, TypeOK
  <2> QED
    BY <2>1, <2>2
<1> QED
  BY <1>3, <1>4, <1>5

LEMMA UnsubscribeGatheredDoes ==
  ASSUME TypeOK, NEW t \in Tasks, UnsubscribeGathered(t)
  PROVE  /\ OnlyMoves(t) /\ UNCHANGED <<server, history>>
         /\ tasks[t].pc = "gather" /\ tasks[t].waits = {}
         /\ tasks[t].op = "unsubscribe" /\ ~tasks[t].rejected /\ tasks[t].alert # None
         /\ GoesTo(t, "delete")
<1>1. "delete" \in Pcs
  BY DEF Pcs
<1> QED
  BY <1>1, GoesStep DEF UnsubscribeGathered, Gathered, OnlyMoves, TypeOK

LEMMA PutGroupType ==
  ASSUME TypeOK, NEW t \in Tasks
  PROVE  PutGroup(tasks[t]) \in Service
<1>1. tasks[t].targets \in SUBSET Nat /\ (tasks[t].tgroup # None => tasks[t].tgroup.id \in Nat)
  BY DEF TypeOK, Operation, TargetGroup
<1>2. New \in Nat
  BY DEF New, TypeOK, Service
<1>3. /\ [id |-> New, targets |-> tasks[t].targets] \in TargetGroup
      /\ tasks[t].tgroup # None =>
           [id |-> tasks[t].tgroup.id, targets |-> tasks[t].targets] \in TargetGroup
  BY <1>1, <1>2 DEF TargetGroup
<1> QED
  BY <1>3, CreatedTargetGroup, UpdatedTargetGroup DEF PutGroup, TypeOK

LEMMA PutTargetGroupDoes ==
  ASSUME TypeOK, NEW t \in Tasks, PutTargetGroup(t)
  PROVE  /\ OnlyMoves(t) /\ tasks[t].pc = "put" /\ tasks'[t] = Idle
         /\ \/ server' = PutGroup(tasks[t]) /\ Returns(t)
            \/ server' \in {server, PutGroup(tasks[t])} /\ UNCHANGED history
<1>1. /\ tasks[t].pc = "put" /\ Writes(t, PutGroup(tasks[t]), Idle, Idle)
      /\ IF failures' = failures THEN Returns(t) ELSE UNCHANGED history
  BY DEF PutTargetGroup
<1>2. /\ OnlyMoves(t)
      /\ \/ server' = PutGroup(tasks[t]) /\ tasks'[t] = Idle /\ failures' = failures
         \/ server' \in {server, PutGroup(tasks[t])} /\ tasks'[t] = Idle /\ failures' # failures
  BY <1>1, PutGroupType, IdleType, WritesStep
<1> QED
  BY <1>1, <1>2

Without(a) == [server EXCEPT !.alerts = {b \in @ : b.id # a.id}]

LEMMA WithoutFields ==
  ASSUME TypeOK, NEW a
  PROVE  /\ Without(a) \in Service /\ Without(a).last = server.last
         /\ Without(a).alerts = {b \in server.alerts : b.id # a.id}
         /\ Without(a).targets = server.targets /\ Without(a).tgroups = server.tgroups
         /\ Without(a).sources = server.sources /\ Without(a).sgroups = server.sgroups
BY DEF Without, TypeOK, Service

LEMMA DeleteAlertDoes ==
  ASSUME TypeOK, NEW t \in Tasks, DeleteAlert(t)
  PROVE  /\ OnlyMoves(t) /\ tasks[t].pc = "delete"
         /\ \/ /\ server' = Without(tasks[t].alert) /\ UNCHANGED history
               /\ tasks[t].op # "unsubscribe" /\ GoesTo(t, "create")
            \/ /\ server' = Without(tasks[t].alert) /\ Returns(t)
               /\ tasks[t].op = "unsubscribe" /\ tasks'[t] = Idle
            \/ /\ server' \in {server, Without(tasks[t].alert)} /\ tasks'[t] = Idle
               /\ torn' = torn \cup {tasks[t].e} /\ UNCHANGED <<overlap, claim, ensured, dropped>>
            \/ UNCHANGED <<server, history>> /\ tasks'[t] = Idle
<1> DEFINE r == tasks[t]
           new == Without(r.alert)
<1>1. /\ r.pc = "delete"
      /\ \/ /\ Writes(t, new, AfterDelete(r), Idle)
            /\ IF failures' = failures
               THEN IF r.op = "unsubscribe" THEN Returns(t) ELSE UNCHANGED history
               ELSE torn' = torn \cup {r.e} /\ UNCHANGED <<overlap, claim, ensured, dropped>>
         \/ End(t) /\ UNCHANGED <<config, server, starts, failures, history>>
  BY DEF DeleteAlert, Without
<1>2. CASE End(t) /\ UNCHANGED <<config, server, starts, failures, history>>
  BY <1>1, <1>2, EndStep DEF OnlyMoves, TypeOK
<1>3. CASE /\ Writes(t, new, AfterDelete(r), Idle)
           /\ IF failures' = failures
              THEN IF r.op = "unsubscribe" THEN Returns(t) ELSE UNCHANGED history
              ELSE torn' = torn \cup {r.e} /\ UNCHANGED <<overlap, claim, ensured, dropped>>
  <2> DEFINE x == [r EXCEPT !.pc = "create"]
  <2>1. "create" \in Pcs /\ r \in Operation /\ new \in Service
    BY WithoutFields DEF Pcs, TypeOK
  <2>2. /\ x \in Operation
        /\ x.pc = "create" /\ x.op = r.op /\ x.e = r.e /\ x.opt = r.opt /\ x.want = r.want
        /\ x.alone = r.alone /\ x.waits = r.waits /\ x.rejected = r.rejected
        /\ x.alert = r.alert /\ x.tgroup = r.tgroup /\ TargetsSame(x, r) /\ ChainSame(x, r)
    BY <2>1, SetPcGoes
  <2>3. AfterDelete(r) = IF r.op = "unsubscribe" THEN Idle ELSE x
    BY DEF AfterDelete
  <2> HIDE DEF x, new
  <2>4. AfterDelete(r) \in Operation
    BY <2>2, <2>3, IdleType
  <2>5. /\ OnlyMoves(t)
        /\ \/ server' = new /\ tasks'[t] = AfterDelete(r) /\ failures' = failures
           \/ server' \in {server, new} /\ tasks'[t] = Idle /\ failures' # failures
    BY <1>3, <2>1, <2>4, IdleType, WritesStep
  <2>6. tasks'[t] = x => GoesTo(t, "create")
    BY <2>2 DEF GoesTo
  <2> QED
    BY <1>1, <1>3, <2>3, <2>5, <2>6 DEF new
<1> QED
  BY <1>1, <1>2, <1>3

NewAlert(r) ==
  [id |-> New, name |-> r.e, sgroup |-> r.sgroup, tgroup |-> r.tgroup.id,
   opt |-> PackedOptions(r.e, r.opt)]

LEMMA CreateAlertDoes ==
  ASSUME TypeOK, NEW t \in Tasks, CreateAlert(t), NewAlert(tasks[t]) \in Alert
  PROVE  /\ OnlyMoves(t) /\ tasks[t].pc = "create" /\ tasks'[t] = Idle
         /\ \/ server' = Created("alerts", NewAlert(tasks[t])) /\ Returns(t)
            \/ /\ server' \in {server, Created("alerts", NewAlert(tasks[t]))}
               /\ torn' = IF tasks[t].alert = None THEN torn ELSE torn \cup {tasks[t].e}
               /\ UNCHANGED <<overlap, claim, ensured, dropped>>
<1> DEFINE r == tasks[t]
           new == Created("alerts", NewAlert(r))
<1>1. /\ r.pc = "create" /\ Writes(t, new, Idle, Idle)
      /\ IF failures' = failures THEN Returns(t)
         ELSE /\ torn' = IF r.alert = None THEN torn ELSE torn \cup {r.e}
              /\ UNCHANGED <<overlap, claim, ensured, dropped>>
  BY DEF CreateAlert, NewAlert
<1>2. new \in Service
  BY CreatedAlert DEF TypeOK
<1> HIDE DEF new
<1>3. /\ OnlyMoves(t)
      /\ \/ server' = new /\ tasks'[t] = Idle /\ failures' = failures
         \/ server' \in {server, new} /\ tasks'[t] = Idle /\ failures' # failures
  BY <1>1, <1>2, IdleType, WritesStep
<1> QED
  BY <1>1, <1>3 DEF new

LEMMA CloseDoes ==
  ASSUME TypeOK, NEW t \in Tasks, Close(t)
  PROVE  /\ OnlyMoves(t) /\ tasks[t].pc # "idle" /\ tasks'[t] = Idle
         /\ torn' = IF tasks[t].pc = "create" /\ tasks[t].alert # None
                    THEN torn \cup {tasks[t].e} ELSE torn
         /\ UNCHANGED <<server, overlap, claim, ensured, dropped>>
BY EndStep, FailsStep DEF Close, OnlyMoves, TypeOK

-----------------------------------------------------------------------------
(* What an operation is about, at each point of it. *)

Protocol(t) ==
  LET r == tasks[t] IN
  /\ r.pc # "idle" => r.op # "none"
  /\ r.pc = "put" => r.op = "targetGroup"
  /\ r.pc = "create" => r.op = "alert"
  /\ r.pc = "delete" => r.op \in {"alert", "unsubscribe"} /\ r.alert # None
  /\ r.pc \in {"put", "delete", "create"} => ~r.rejected /\ r.waits = {}
  /\ r.pc \in {"delete", "create"} /\ r.op = "alert" => r.tgroup # None
  /\ r.pc # "idle" /\ r.op \in {"alert", "unsubscribe"} => r.e \in Events
  /\ r.op = "targetGroup" => r.e = None
  /\ r.pc # "idle" /\ r.op = "unsubscribe" => r.e \in dropped
  /\ r.op = "alert" => r.waits \subseteq {"alerts", "tgroups", "chain"}
  /\ r.op = "unsubscribe" => r.waits \subseteq {"alerts"}
  /\ r.op = "targetGroup" => r.waits \subseteq {"tgroups"} \cup {c \in Channels : r.want[c] # None}
  /\ r.op = "none" => r.waits = {}

\* The chain is at a step of it; the rest of its requests is sent once it is rejected.
InChain(t) ==
  LET r == tasks[t] IN
  "chain" \in r.waits =>
    /\ Kind(r.e) # "label" /\ r.chain # "none"
    /\ r.chain = "rest" => r.rejected

\* What was read or created is still there.
Known(t) ==
  LET r == tasks[t] IN
  /\ r.sources \subseteq Ids(server.sources) /\ r.targets \subseteq Ids(server.targets)
  /\ r.sgroup # None => r.sgroup \in Ids(server.sgroups)
  /\ r.tgroup # None => r.tgroup.id \in Ids(server.tgroups)

\* A chain that has ended well has a source group and valid inputs.
ChainDone(t) ==
  LET r == tasks[t] IN
  r.op = "alert" /\ r.pc # "idle" /\ ~r.rejected /\ "chain" \notin r.waits =>
    r.sgroup # None /\ (Kind(r.e) \in WithInputs => r.opt # None)

Well == TypeOK /\ \A t \in Tasks : Protocol(t) /\ InChain(t) /\ Known(t) /\ ChainDone(t)

LEMMA ChainTask ==
  ASSUME Well, NEW t \in Tasks, tasks[t].pc = "gather", "chain" \in tasks[t].waits
  PROVE  /\ tasks[t].op = "alert" /\ tasks[t].e \in Events /\ Kind(tasks[t].e) # "label"
         /\ tasks[t].chain = "rest" => tasks[t].rejected
<1>1. tasks[t] \in Operation
  BY DEF Well, TypeOK
<1>2. tasks[t].op \in {"none", "targetGroup", "alert", "unsubscribe"}
  BY <1>1 DEF Operation
<1> QED
  BY <1>2, FrontendEnsureAssumption DEF Well, Protocol, InChain

LEMMA ChannelTask ==
  ASSUME Well, NEW t \in Tasks, NEW c \in Channels, c \in tasks[t].waits
  PROVE  tasks[t].op = "targetGroup" /\ tasks[t].want[c] # None
<1>1. tasks[t] \in Operation
  BY DEF Well, TypeOK
<1>2. tasks[t].op \in {"none", "targetGroup", "alert", "unsubscribe"}
  BY <1>1 DEF Operation
<1> QED
  BY <1>2, FrontendEnsureAssumption DEF Well, Protocol

LEMMA NewAlertType ==
  ASSUME Well, NEW t \in Tasks, tasks[t].pc = "create"
  PROVE  NewAlert(tasks[t]) \in Alert
<1> DEFINE r == tasks[t]
<1>1. r \in Operation /\ New \in Nat
  BY DEF Well, TypeOK, New, Service
<1>2. r.op = "alert" /\ r.e \in Events /\ r.tgroup # None /\ ~r.rejected /\ r.waits = {}
  BY DEF Well, Protocol
<1>3. r.sgroup # None /\ (Kind(r.e) \in WithInputs => r.opt # None)
  BY <1>2 DEF Well, ChainDone
<1>4. r.sgroup \in Nat /\ r.tgroup \in TargetGroup /\ r.opt \in Options \cup {None}
  BY <1>1, <1>2, <1>3 DEF Operation
<1>5. r.tgroup.id \in Nat
  BY <1>4 DEF TargetGroup
<1>6. PackedOptions(r.e, r.opt) \in Options \cup {"empty"}
  BY <1>3, <1>4 DEF PackedOptions
<1> QED
  BY <1>1, <1>2, <1>4, <1>5, <1>6 DEF NewAlert, Alert

\* An operation that does not move is as it was, but may not be alone any more.
Keeps(u) ==
  LET r == tasks'[u]
      q == tasks[u]
  IN /\ r.pc = q.pc /\ r.op = q.op /\ r.e = q.e /\ r.opt = q.opt /\ r.want = q.want
     /\ r.waits = q.waits /\ r.rejected = q.rejected
     /\ r.alert = q.alert /\ r.tgroup = q.tgroup /\ TargetsSame(r, q) /\ ChainSame(r, q)

LEMMA OthersKeep ==
  ASSUME NEW t \in Tasks, OthersStay(t)
  PROVE  \A u \in Tasks \ {t} : Keeps(u)
BY DEF OthersStay, Keeps, TargetsSame, ChainSame

\* The entries of the service that others refer to stay, or are replaced.
Grows ==
  /\ server.last <= server'.last
  /\ server.sources \subseteq server'.sources /\ server.targets \subseteq server'.targets
  /\ Ids(server.tgroups) \subseteq Ids(server'.tgroups)
  /\ Ids(server.sgroups) \subseteq Ids(server'.sgroups)

LEMMA IdsGrow ==
  ASSUME NEW S, NEW T, S \subseteq T
  PROVE  Ids(S) \subseteq Ids(T)
BY DEF Ids

LEMMA StaysGrows ==
  ASSUME TypeOK, UNCHANGED server
  PROVE  Grows
BY DEF Grows, TypeOK, Service

LEMMA WellKept ==
  ASSUME Well, NEW u \in Tasks, Keeps(u), Grows, config' = config, dropped \subseteq dropped'
  PROVE  Protocol(u)' /\ InChain(u)' /\ Known(u)' /\ ChainDone(u)'
<1>1. Protocol(u)'
  BY DEF Well, Protocol, Keeps
<1>2. InChain(u)' /\ ChainDone(u)'
  BY DEF Well, InChain, ChainDone, Keeps, ChainSame, Kind
<1>3. Ids(server.sources) \subseteq Ids(server'.sources) /\ Ids(server.targets) \subseteq Ids(server'.targets)
  BY IdsGrow DEF Grows
<1>4. Known(u)'
  BY <1>3 DEF Well, Known, Keeps, Grows, TargetsSame, ChainSame
<1> QED
  BY <1>1, <1>2, <1>4

LEMMA IdleWell ==
  ASSUME Well, NEW t \in Tasks, tasks'[t] = Idle
  PROVE  Protocol(t)' /\ InChain(t)' /\ Known(t)' /\ ChainDone(t)'
BY IdleType DEF Protocol, InChain, Known, ChainDone

\* A branch that is not the chain leaves the chain alone.
LEMMA GathersProtocol ==
  ASSUME Well, NEW t \in Tasks, NEW b, Gathers(t, b)
  PROVE  Protocol(t)'
BY DEF Well, Protocol, Gathers, AskedSame, history

LEMMA GathersBeside ==
  ASSUME Well, NEW t \in Tasks, NEW b, Gathers(t, b), b # "chain",
         ChainSame(tasks'[t], tasks[t])
  PROVE  InChain(t)' /\ ChainDone(t)'
BY DEF Well, InChain, ChainDone, Gathers, AskedSame, ChainSame, OnlyMoves, Kind

LEMMA ReadAlertsWell ==
  ASSUME Well, NEW t \in Tasks, ReadAlerts(t)
  PROVE  Grows /\ Protocol(t)' /\ InChain(t)' /\ Known(t)' /\ ChainDone(t)'
<1>1. TypeOK
  BY DEF Well
<1>2. /\ Gathers(t, "alerts") /\ UNCHANGED server /\ tasks'[t].tgroup = tasks[t].tgroup
      /\ TargetsSame(tasks'[t], tasks[t]) /\ ChainSame(tasks'[t], tasks[t])
  BY <1>1, ReadAlertsDoes
<1>3. Known(t)'
  BY <1>2 DEF Well, Known, TargetsSame, ChainSame
<1> QED
  BY <1>1, <1>2, <1>3, StaysGrows, GathersProtocol, GathersBeside

LEMMA ReadTargetGroupsWell ==
  ASSUME Well, NEW t \in Tasks, ReadTargetGroups(t)
  PROVE  Grows /\ Protocol(t)' /\ InChain(t)' /\ Known(t)' /\ ChainDone(t)'
<1>1. TypeOK
  BY DEF Well
<1>2. /\ Gathers(t, "tgroups") /\ UNCHANGED server
      /\ TargetsSame(tasks'[t], tasks[t]) /\ ChainSame(tasks'[t], tasks[t])
      /\ tasks'[t].tgroup = tasks[t].tgroup \/ tasks'[t].tgroup \in Found(server.tgroups)
  BY <1>1, ReadTargetGroupsDoes
<1>3. Known(t)'
  BY <1>2 DEF Well, Known, TargetsSame, ChainSame, Found, Ids
<1> QED
  BY <1>1, <1>2, <1>3, StaysGrows, GathersProtocol, GathersBeside

LEMMA FindTargetWell ==
  ASSUME Well, NEW t \in Tasks, NEW c \in Channels, FindTarget(t, c)
  PROVE  Grows /\ Protocol(t)' /\ InChain(t)' /\ Known(t)' /\ ChainDone(t)'
<1>1. TypeOK /\ c # "chain"
  BY FrontendEnsureAssumption DEF Well
<1>2. /\ Gathers(t, c) /\ UNCHANGED server
      /\ tasks'[t].tgroup = tasks[t].tgroup /\ ChainSame(tasks'[t], tasks[t])
      /\ \/ tasks'[t].targets = tasks[t].targets
         \/ \E y \in server.targets : tasks'[t].targets = tasks[t].targets \cup {y.id}
  BY <1>1, FindTargetDoes DEF TargetsSame
<1>3. tasks'[t].targets \subseteq Ids(server.targets)
  BY <1>2 DEF Well, Known, Ids
<1>4. Known(t)'
  BY <1>2, <1>3 DEF Well, Known, ChainSame
<1> QED
  BY <1>1, <1>2, <1>4, StaysGrows, GathersProtocol, GathersBeside

LEMMA CreateTargetWell ==
  ASSUME Well, NEW t \in Tasks, NEW c \in Channels, CreateTarget(t, c)
  PROVE  Grows /\ Protocol(t)' /\ InChain(t)' /\ Known(t)' /\ ChainDone(t)'
<1> DEFINE x == NewTarget(tasks[t], c)
<1>1. TypeOK /\ c # "chain" /\ server \in Service /\ tasks[t].want[c] # None
  BY FrontendEnsureAssumption, ChannelTask DEF Well, TypeOK, CreateTarget, Waits
<1>2. /\ Gathers(t, c) /\ x \in Target /\ server' \in {server, Created("targets", x)}
      /\ tasks'[t].tgroup = tasks[t].tgroup /\ ChainSame(tasks'[t], tasks[t])
      /\ \/ server' = Created("targets", x) /\ tasks'[t].targets = tasks[t].targets \cup {New}
         \/ tasks'[t].targets = tasks[t].targets
  BY <1>1, CreateTargetDoes
<1>3. x.id = New
  BY DEF NewTarget
<1> HIDE DEF x
<1>4. /\ server.last \in Nat /\ server'.last \in {server.last, server.last + 1}
      /\ server'.targets \in {server.targets, server.targets \cup {x}}
      /\ server' = Created("targets", x) => server'.targets = server.targets \cup {x}
      /\ server'.tgroups = server.tgroups /\ server'.sources = server.sources
      /\ server'.sgroups = server.sgroups
  BY <1>1, <1>2, CreatedTarget DEF Service
<1>5. Grows
  BY <1>4 DEF Grows
<1>6. tasks'[t].targets \subseteq Ids(server'.targets)
  <2>1. tasks[t].targets \subseteq Ids(server.targets) /\ Ids(server.targets) \subseteq Ids(server'.targets)
    BY <1>5, IdsGrow DEF Well, Known, Grows
  <2>2. server' = Created("targets", x) => New \in Ids(server'.targets)
    BY <1>3, <1>4 DEF Ids
  <2> QED
    BY <1>2, <2>1, <2>2
<1>7. Known(t)'
  BY <1>2, <1>4, <1>6 DEF Well, Known, ChainSame
<1> QED
  BY <1>1, <1>2, <1>5, <1>7, GathersProtocol, GathersBeside

LEMMA PickedAreSources ==
  ASSUME NEW e, NEW picked \in Picks(e)
  PROVE  picked \subseteq OfType(e)
BY DEF Picks, Fitting

LEMMA ReadSourcesWell ==
  ASSUME Well, NEW t \in Tasks, ReadSources(t)
  PROVE  Grows /\ Protocol(t)' /\ InChain(t)' /\ Known(t)' /\ ChainDone(t)'
<1>1. TypeOK /\ tasks[t].op = "alert" /\ tasks[t].e \in Events /\ Kind(tasks[t].e) # "label"
  BY ChainTask DEF Well, ReadSources, At, Waits
<1>2. /\ Gathers(t, "chain") /\ UNCHANGED server
      /\ tasks'[t].tgroup = tasks[t].tgroup /\ tasks'[t].sgroup = tasks[t].sgroup
      /\ TargetsSame(tasks'[t], tasks[t])
      /\ \/ /\ tasks'[t].waits = tasks[t].waits \ {"chain"} /\ tasks'[t].rejected
            /\ tasks'[t].sources = tasks[t].sources
         \/ /\ tasks'[t].waits = tasks[t].waits /\ tasks'[t].chain \in {"groups", "create"}
            /\ \E picked \in Picks(tasks[t].e) : tasks'[t].sources = Ids(picked)
  BY <1>1, ReadSourcesDoes DEF ChainSame
<1>3. tasks'[t].sources \subseteq Ids(server.sources)
  <2>1. tasks[t].sources \subseteq Ids(server.sources)
    BY DEF Well, Known
  <2>2. \A picked \in Picks(tasks[t].e) : Ids(picked) \subseteq Ids(server.sources)
    BY PickedAreSources, IdsGrow DEF OfType
  <2> QED
    BY <1>2, <2>1, <2>2
<1>4. Known(t)'
  BY <1>2, <1>3 DEF Well, Known, TargetsSame
<1>5. InChain(t)' /\ ChainDone(t)'
  BY <1>1, <1>2 DEF InChain, ChainDone, Gathers, AskedSame, OnlyMoves, Kind
<1> QED
  BY <1>1, <1>2, <1>4, <1>5, StaysGrows, GathersProtocol

LEMMA CreateSourceWell ==
  ASSUME Well, NEW t \in Tasks, NEW a \in Addresses \cup {None}, CreateSource(t, a)
  PROVE  Grows /\ Protocol(t)' /\ InChain(t)' /\ Known(t)' /\ ChainDone(t)'
<1> DEFINE x == NewSource(tasks[t].e, a)
<1>1. /\ TypeOK /\ server \in Service
      /\ tasks[t].op = "alert" /\ tasks[t].e \in Events /\ Kind(tasks[t].e) # "label"
      /\ tasks[t].chain = "rest" => tasks[t].rejected
  BY ChainTask DEF Well, TypeOK, CreateSource, At, Waits
<1>2. /\ Gathers(t, "chain") /\ x \in Source /\ server' \in {server, Created("sources", x)}
      /\ tasks'[t].tgroup = tasks[t].tgroup /\ tasks'[t].sgroup = tasks[t].sgroup
      /\ TargetsSame(tasks'[t], tasks[t])
      /\ \/ /\ server' = Created("sources", x) /\ tasks'[t].waits = tasks[t].waits
            /\ tasks'[t].sources = tasks[t].sources \cup {New}
            /\ tasks'[t].chain \in {"groups", "create"}
         \/ /\ tasks'[t].rejected /\ tasks'[t].sources = tasks[t].sources
            /\ \/ tasks'[t].waits = tasks[t].waits \ {"chain"}
               \/ tasks'[t].waits = tasks[t].waits /\ tasks'[t].chain = "rest"
  BY <1>1, CreateSourceDoes
<1>3. x.id = New
  BY DEF NewSource
<1> HIDE DEF x
<1>4. /\ server.last \in Nat /\ server'.last \in {server.last, server.last + 1}
      /\ server'.sources \in {server.sources, server.sources \cup {x}}
      /\ server' = Created("sources", x) => server'.sources = server.sources \cup {x}
      /\ server'.tgroups = server.tgroups /\ server'.targets = server.targets
      /\ server'.sgroups = server.sgroups
  BY <1>1, <1>2, CreatedSource DEF Service
<1>5. Grows
  BY <1>4 DEF Grows
<1>6. tasks'[t].sources \subseteq Ids(server'.sources)
  <2>1. tasks[t].sources \subseteq Ids(server.sources) /\ Ids(server.sources) \subseteq Ids(server'.sources)
    BY <1>5, IdsGrow DEF Well, Known, Grows
  <2>2. server' = Created("sources", x) => New \in Ids(server'.sources)
    BY <1>3, <1>4 DEF Ids
  <2> QED
    BY <1>2, <2>1, <2>2
<1>7. Known(t)'
  BY <1>2, <1>4, <1>6 DEF Well, Known, TargetsSame
<1>8. InChain(t)' /\ ChainDone(t)'
  BY <1>1, <1>2 DEF InChain, ChainDone, Gathers, AskedSame, OnlyMoves, Kind
<1> QED
  BY <1>2, <1>5, <1>7, <1>8, GathersProtocol

LEMMA ReadSourceGroupsWell ==
  ASSUME Well, NEW t \in Tasks, ReadSourceGroups(t)
  PROVE  Grows /\ Protocol(t)' /\ InChain(t)' /\ Known(t)' /\ ChainDone(t)'
<1>1. TypeOK /\ tasks[t].op = "alert" /\ tasks[t].e \in Events /\ Kind(tasks[t].e) # "label"
  BY ChainTask DEF Well, ReadSourceGroups, At, Waits
<1>2. /\ Gathers(t, "chain") /\ UNCHANGED server
      /\ tasks'[t].tgroup = tasks[t].tgroup /\ TargetsSame(tasks'[t], tasks[t])
      /\ tasks'[t].sources = tasks[t].sources
      /\ \/ /\ tasks'[t].waits = tasks[t].waits \ {"chain"} /\ tasks'[t].rejected
            /\ tasks'[t].sgroup = tasks[t].sgroup
         \/ /\ tasks'[t].waits = tasks[t].waits /\ tasks'[t].chain = "put"
            /\ \E g \in Found({x \in server.sgroups : x.name = tasks[t].e}) :
                 tasks'[t].sgroup = IF g = None THEN None ELSE g.id
         \/ /\ \E g \in server.sgroups : tasks'[t].sgroup = g.id
            /\ ~FilterThrows(tasks[t].e, tasks[t].opt, tasks[t].sources)
            /\ tasks'[t].waits = tasks[t].waits \ {"chain"}
  BY <1>1, ReadSourceGroupsDoes
<1>3. \A g \in server.sgroups : g.id \in Ids(server.sgroups) /\ g.id # None
  BY <1>1, NoneAssumption DEF Ids, TypeOK, Service, SourceGroup
<1>4. tasks'[t].sgroup # None => tasks'[t].sgroup \in Ids(server.sgroups)
  BY <1>2, <1>3 DEF Well, Known, Found
<1>5. Known(t)'
  BY <1>2, <1>4 DEF Well, Known, TargetsSame
<1>6. InChain(t)' /\ ChainDone(t)'
  BY <1>1, <1>2, <1>3 DEF InChain, ChainDone, Gathers, AskedSame, OnlyMoves, Kind, FilterThrows
<1> QED
  BY <1>1, <1>2, <1>5, <1>6, StaysGrows, GathersProtocol

\* A source group with an id that is new, or that of the one it replaces.
LEMMA WithSourceGroupFields ==
  ASSUME Well, NEW t \in Tasks, NewSourceGroup(tasks[t]) \in SourceGroup
  PROVE  LET s == WithSourceGroup(tasks[t])
             x == NewSourceGroup(tasks[t])
         IN
         /\ s \in Service /\ s.last \in {server.last, server.last + 1}
         /\ s.sgroups = {y \in server.sgroups : tasks[t].sgroup = None \/ y.id # x.id} \cup {x}
         /\ s.targets = server.targets /\ s.tgroups = server.tgroups
         /\ s.sources = server.sources /\ s.alerts = server.alerts
<1> DEFINE x == NewSourceGroup(tasks[t])
<1>1. server \in Service
  BY DEF Well, TypeOK
<1>2. CASE tasks[t].sgroup = None
  <2>1. WithSourceGroup(tasks[t]) = Created("sgroups", x)
    BY <1>2 DEF WithSourceGroup
  <2> HIDE DEF x
  <2> QED
    BY <1>1, <1>2, <2>1, CreatedSourceGroup DEF x
<1>3. CASE tasks[t].sgroup # None
  <2>1. WithSourceGroup(tasks[t]) = Updated("sgroups", x)
    BY <1>3 DEF WithSourceGroup
  <2> HIDE DEF x
  <2> QED
    BY <1>1, <1>3, <2>1, UpdatedSourceGroup DEF x
<1> QED
  BY <1>2, <1>3

LEMMA PutSourceGroupWell ==
  ASSUME Well, NEW t \in Tasks, PutSourceGroup(t)
  PROVE  Grows /\ Protocol(t)' /\ InChain(t)' /\ Known(t)' /\ ChainDone(t)'
<1> DEFINE x == NewSourceGroup(tasks[t])
<1>1. /\ TypeOK /\ server.last \in Nat
      /\ tasks[t].op = "alert" /\ tasks[t].e \in Events /\ Kind(tasks[t].e) # "label"
  BY ChainTask DEF Well, TypeOK, Service, PutSourceGroup, At, Waits
<1>2. /\ Gathers(t, "chain") /\ tasks'[t].tgroup = tasks[t].tgroup
      /\ TargetsSame(tasks'[t], tasks[t]) /\ tasks'[t].sources = tasks[t].sources
      /\ tasks'[t].waits = tasks[t].waits \ {"chain"}
      /\ x \in SourceGroup /\ server' \in {server, WithSourceGroup(tasks[t])}
      /\ \/ tasks'[t].rejected /\ tasks'[t].sgroup = tasks[t].sgroup
         \/ /\ server' = WithSourceGroup(tasks[t]) /\ tasks'[t].sgroup = x.id
            /\ ~FilterThrows(tasks[t].e, tasks[t].opt, tasks[t].sources)
  BY <1>1, PutSourceGroupDoes
<1> HIDE DEF x
<1>3. LET s == WithSourceGroup(tasks[t]) IN
      /\ s.last \in {server.last, server.last + 1}
      /\ s.sgroups = {y \in server.sgroups : tasks[t].sgroup = None \/ y.id # x.id} \cup {x}
      /\ s.targets = server.targets /\ s.tgroups = server.tgroups
      /\ s.sources = server.sources
  BY <1>2, WithSourceGroupFields DEF x
<1>4. /\ server'.last \in {server.last, server.last + 1} /\ server'.targets = server.targets
      /\ server'.tgroups = server.tgroups /\ server'.sources = server.sources
  BY <1>2, <1>3
<1>5. Ids(server.sgroups) \subseteq Ids(server'.sgroups)
      /\ (server' = WithSourceGroup(tasks[t]) => x.id \in Ids(server'.sgroups))
  BY <1>2, <1>3 DEF Ids
<1>6. Grows
  BY <1>1, <1>4, <1>5 DEF Grows
<1>7. Known(t)'
  BY <1>2, <1>4, <1>5 DEF Well, Known, TargetsSame
<1>8. x.id # None
  BY <1>2, NoneAssumption DEF SourceGroup
<1>9. InChain(t)' /\ ChainDone(t)'
  BY <1>1, <1>2, <1>8 DEF InChain, ChainDone, Gathers, AskedSame, OnlyMoves, Kind, FilterThrows
<1> QED
  BY <1>2, <1>6, <1>7, <1>9, GathersProtocol

LEMMA BranchWell ==
  ASSUME Well, NEW t \in Tasks, Branch(t)
  PROVE  Grows /\ Protocol(t)' /\ InChain(t)' /\ Known(t)' /\ ChainDone(t)'
BY ReadAlertsWell, ReadTargetGroupsWell, FindTargetWell, CreateTargetWell, ReadSourcesWell,
   CreateSourceWell, ReadSourceGroupsWell, PutSourceGroupWell DEF Branch

LEMMA BranchGathers ==
  ASSUME Well, NEW t \in Tasks, Branch(t)
  PROVE  \E b : Gathers(t, b)
<1>1. TypeOK
  BY DEF Well
<1>2. CASE ReadAlerts(t)
  BY <1>1, <1>2, ReadAlertsDoes
<1>3. CASE ReadTargetGroups(t)
  BY <1>1, <1>3, ReadTargetGroupsDoes
<1>4. ASSUME NEW c \in Channels, FindTarget(t, c) PROVE \E b : Gathers(t, b)
  BY <1>1, <1>4, FindTargetDoes
<1>5. ASSUME NEW c \in Channels, CreateTarget(t, c) PROVE \E b : Gathers(t, b)
  BY <1>1, <1>5, CreateTargetDoes, ChannelTask DEF CreateTarget, Waits
<1>6. CASE ReadSources(t)
  BY <1>1, <1>6, ReadSourcesDoes, ChainTask DEF ReadSources, At, Waits
<1>7. ASSUME NEW a \in Addresses \cup {None}, CreateSource(t, a) PROVE \E b : Gathers(t, b)
  <2>1. /\ tasks[t].e \in Events /\ Kind(tasks[t].e) # "label"
        /\ tasks[t].chain = "rest" => tasks[t].rejected
    BY <1>7, ChainTask DEF CreateSource, At, Waits
  <2> QED
    BY <1>1, <1>7, <2>1, CreateSourceDoes
<1>8. CASE ReadSourceGroups(t)
  BY <1>1, <1>8, ReadSourceGroupsDoes
<1>9. CASE PutSourceGroup(t)
  BY <1>1, <1>9, PutSourceGroupDoes, ChainTask DEF PutSourceGroup, At, Waits
<1> QED
  BY <1>2, <1>3, <1>4, <1>5, <1>6, <1>7, <1>8, <1>9 DEF Branch

LEMMA FreshWell ==
  ASSUME Well, NEW t \in Tasks, Fresh(tasks'[t]), config' = config,
         tasks'[t].op = "unsubscribe" => tasks'[t].e \in dropped'
  PROVE  Protocol(t)' /\ InChain(t)' /\ Known(t)' /\ ChainDone(t)'
BY FrontendEnsureAssumption DEF Fresh, Protocol, InChain, Known, ChainDone, Kind

LEMMA StartedKeep ==
  ASSUME TypeOK, NEW t \in Tasks, \A u \in Tasks \ {t} : tasks'[u] = [tasks[u] EXCEPT !.alone = FALSE]
  PROVE  \A u \in Tasks \ {t} : Keeps(u) /\ tasks'[u].alone = FALSE
<1> TAKE u \in Tasks \ {t}
<1>1. tasks[u] \in Operation
  BY DEF TypeOK
<1> DEFINE x == [tasks[u] EXCEPT !.alone = FALSE]
<1>2. /\ x.alone = FALSE /\ x.waits = tasks[u].waits /\ x.rejected = tasks[u].rejected
      /\ x.alert = tasks[u].alert /\ x.tgroup = tasks[u].tgroup
      /\ TargetsSame(x, tasks[u]) /\ ChainSame(x, tasks[u])
      /\ x.pc = tasks[u].pc /\ x.op = tasks[u].op /\ x.e = tasks[u].e
      /\ x.opt = tasks[u].opt /\ x.want = tasks[u].want
  BY <1>1, SetAlone
<1> QED
  BY <1>2 DEF Keeps

LEMMA StartWell ==
  ASSUME Well, NEW t \in Tasks, Start(t)
  PROVE  Grows /\ Protocol(t)' /\ InChain(t)' /\ Known(t)' /\ ChainDone(t)'
BY StartDoes, StaysGrows, FreshWell DEF Well

LEMMA GoesWell ==
  ASSUME Well, NEW t \in Tasks, NEW pc \in {"put", "delete", "create"}, GoesTo(t, pc), Grows,
         config' = config, dropped' = dropped, ~tasks[t].rejected, tasks[t].waits = {},
         tasks[t].pc # "idle",
         \/ pc = "put" /\ tasks[t].op = "targetGroup"
         \/ pc = "create" /\ tasks[t].op = "alert" /\ tasks[t].tgroup # None
         \/ pc = "delete" /\ tasks[t].op = "alert" /\ tasks[t].tgroup # None /\ tasks[t].alert # None
         \/ pc = "delete" /\ tasks[t].op = "unsubscribe" /\ tasks[t].alert # None
  PROVE  Protocol(t)' /\ InChain(t)' /\ Known(t)' /\ ChainDone(t)'
<1>1. Protocol(t)'
  BY DEF Well, Protocol, GoesTo
<1>2. InChain(t)' /\ ChainDone(t)'
  BY DEF Well, InChain, ChainDone, GoesTo, ChainSame, Kind
<1>3. Ids(server.sources) \subseteq Ids(server'.sources) /\ Ids(server.targets) \subseteq Ids(server'.targets)
  BY IdsGrow DEF Grows
<1>4. Known(t)'
  BY <1>3 DEF Well, Known, GoesTo, Grows, TargetsSame, ChainSame
<1> QED
  BY <1>1, <1>2, <1>4

LEMMA PutGroupGrows ==
  ASSUME Well, NEW t \in Tasks, server' \in {server, PutGroup(tasks[t])}
  PROVE  Grows
<1> DEFINE r == tasks[t]
           x == [id |-> New, targets |-> r.targets]
           y == [id |-> r.tgroup.id, targets |-> r.targets]
<1>1. /\ TypeOK /\ server \in Service /\ server.last \in Nat /\ r.targets \in SUBSET Nat
      /\ r.tgroup # None => r.tgroup.id \in Nat /\ r.tgroup.id \in Ids(server.tgroups)
  BY DEF Well, TypeOK, Operation, TargetGroup, Service, Known
<1>2. New \in Nat
  BY <1>1 DEF New
<1>3. /\ x \in TargetGroup /\ (r.tgroup # None => y \in TargetGroup)
      /\ x.id = New /\ y.id = r.tgroup.id
  BY <1>1, <1>2 DEF TargetGroup
<1>4. PutGroup(r) = IF r.tgroup = None THEN Created("tgroups", x) ELSE Updated("tgroups", y)
  BY DEF PutGroup
<1> HIDE DEF x, y
<1>5. CASE server' = server
  BY <1>1, <1>5, StaysGrows
<1>6. CASE r.tgroup = None /\ server' = PutGroup(r)
  <2>1. /\ server'.last = server.last + 1 /\ server'.tgroups = server.tgroups \cup {x}
        /\ server'.targets = server.targets /\ server'.sources = server.sources
        /\ server'.sgroups = server.sgroups
    BY <1>1, <1>3, <1>4, <1>6, CreatedTargetGroup
  <2> QED
    BY <1>1, <2>1 DEF Grows, Ids
<1>7. CASE r.tgroup # None /\ server' = PutGroup(r)
  <2>1. /\ server'.last = server.last
        /\ server'.tgroups = {g \in server.tgroups : g.id # y.id} \cup {y}
        /\ server'.targets = server.targets /\ server'.sources = server.sources
        /\ server'.sgroups = server.sgroups
    BY <1>1, <1>3, <1>4, <1>7, UpdatedTargetGroup
  <2> QED
    BY <1>1, <2>1 DEF Grows, Ids
<1> QED
  BY <1>5, <1>6, <1>7

LEMMA AlertsGrow ==
  ASSUME Well, NEW t \in Tasks,
         \/ server' \in {server, Without(tasks[t].alert)}
         \/ NewAlert(tasks[t]) \in Alert /\ server' = Created("alerts", NewAlert(tasks[t]))
  PROVE  Grows
<1>1. TypeOK /\ server \in Service /\ server.last \in Nat
  BY DEF Well, TypeOK, Service
<1>2. /\ server'.last \in {server.last, server.last + 1}
      /\ server'.targets = server.targets /\ server'.sources = server.sources
      /\ server'.tgroups = server.tgroups /\ server'.sgroups = server.sgroups
  BY <1>1, WithoutFields, CreatedAlert
<1> QED
  BY <1>1, <1>2 DEF Grows

HistoryTypes ==
  overlap \in BOOLEAN /\ ensured \subseteq Events /\ dropped \subseteq Events /\ torn \subseteq Events

LEMMA MovedWell ==
  ASSUME Well, NEW t \in Tasks, OnlyMoves(t), Grows, dropped \subseteq dropped', HistoryTypes',
         Protocol(t)' /\ InChain(t)' /\ Known(t)' /\ ChainDone(t)'
  PROVE  Well'
<1>1. ASSUME NEW u \in Tasks PROVE Protocol(u)' /\ InChain(u)' /\ Known(u)' /\ ChainDone(u)'
  BY WellKept, OthersKeep DEF OnlyMoves
<1>2. TypeOK'
  <2>1. \A u \in Tasks : Known(u)'
    BY <1>1
  <2> QED
    BY <2>1 DEF Well, TypeOK, OnlyMoves, Known, HistoryTypes
<1> QED
  BY <1>1, <1>2 DEF Well

LEMMA ReturnsTypes ==
  ASSUME Well, NEW t \in Tasks, tasks[t].pc # "idle", Returns(t)
  PROVE  HistoryTypes' /\ dropped' = dropped
BY DEF Well, TypeOK, HistoryTypes, Protocol, Returns

LEMMA HistoryStays ==
  ASSUME Well, UNCHANGED history
  PROVE  HistoryTypes' /\ dropped' = dropped
BY DEF Well, TypeOK, HistoryTypes, history

LEMMA TornTypes ==
  ASSUME Well, NEW e \in Events, torn' \in {torn, torn \cup {e}},
         UNCHANGED <<overlap, claim, ensured, dropped>>
  PROVE  HistoryTypes' /\ dropped' = dropped
BY DEF Well, TypeOK, HistoryTypes

LEMMA ConcludeWell ==
  ASSUME Well, NEW t \in Tasks, Conclude(t)
  PROVE  Well'
<1>0. TypeOK
  BY DEF Well
<1>1. CASE Throws(t)
  BY <1>0, <1>1, ThrowsDoes, StaysGrows, IdleWell, HistoryStays, MovedWell
<1>2. CASE TargetGroupGathered(t)
  <2>1. /\ OnlyMoves(t) /\ UNCHANGED server /\ tasks[t].pc = "gather" /\ tasks[t].waits = {}
        /\ tasks[t].op = "targetGroup" /\ ~tasks[t].rejected
        /\ \/ tasks'[t] = Idle /\ Returns(t)
           \/ GoesTo(t, "put") /\ UNCHANGED history
    BY <1>0, <1>2, TargetGroupGatheredDoes
  <2>2. Grows /\ HistoryTypes' /\ dropped' = dropped /\ config' = config
    BY <1>0, <2>1, StaysGrows, HistoryStays, ReturnsTypes DEF OnlyMoves
  <2>3. Protocol(t)' /\ InChain(t)' /\ Known(t)' /\ ChainDone(t)'
    BY <2>1, <2>2, IdleWell, GoesWell
  <2> QED
    BY <2>1, <2>2, <2>3, MovedWell
<1>3. CASE AlertGathered(t)
  <2>1. /\ OnlyMoves(t) /\ UNCHANGED server /\ tasks[t].pc = "gather" /\ tasks[t].waits = {}
        /\ tasks[t].op = "alert" /\ ~tasks[t].rejected /\ tasks[t].tgroup # None
        /\ \/ tasks'[t] = Idle /\ Returns(t)
           \/ GoesTo(t, "create") /\ UNCHANGED history
           \/ tasks[t].alert # None /\ GoesTo(t, "delete") /\ UNCHANGED history
    BY <1>0, <1>3, AlertGatheredDoes
  <2>2. Grows /\ HistoryTypes' /\ dropped' = dropped /\ config' = config
    BY <1>0, <2>1, StaysGrows, HistoryStays, ReturnsTypes DEF OnlyMoves
  <2>3. Protocol(t)' /\ InChain(t)' /\ Known(t)' /\ ChainDone(t)'
    BY <2>1, <2>2, IdleWell, GoesWell
  <2> QED
    BY <2>1, <2>2, <2>3, MovedWell
<1>4. CASE UnsubscribeGathered(t)
  <2>1. /\ OnlyMoves(t) /\ UNCHANGED <<server, history>>
        /\ tasks[t].pc = "gather" /\ tasks[t].waits = {}
        /\ tasks[t].op = "unsubscribe" /\ ~tasks[t].rejected /\ tasks[t].alert # None
        /\ GoesTo(t, "delete")
    BY <1>0, <1>4, UnsubscribeGatheredDoes
  <2>2. Grows /\ HistoryTypes' /\ dropped' = dropped /\ config' = config
    BY <1>0, <2>1, StaysGrows, HistoryStays DEF OnlyMoves
  <2>3. Protocol(t)' /\ InChain(t)' /\ Known(t)' /\ ChainDone(t)'
    BY <2>1, <2>2, GoesWell
  <2> QED
    BY <2>1, <2>2, <2>3, MovedWell
<1>5. CASE PutTargetGroup(t)
  <2>1. /\ OnlyMoves(t) /\ tasks[t].pc = "put" /\ tasks'[t] = Idle
        /\ server' \in {server, PutGroup(tasks[t])} /\ (Returns(t) \/ UNCHANGED history)
    BY <1>0, <1>5, PutTargetGroupDoes
  <2>2. Grows /\ HistoryTypes' /\ dropped' = dropped
    BY <2>1, PutGroupGrows, HistoryStays, ReturnsTypes
  <2> QED
    BY <2>1, <2>2, IdleWell, MovedWell
<1>6. CASE DeleteAlert(t)
  <2>1. /\ OnlyMoves(t) /\ tasks[t].pc = "delete" /\ server' \in {server, Without(tasks[t].alert)}
        /\ \/ UNCHANGED history /\ tasks[t].op # "unsubscribe" /\ GoesTo(t, "create")
           \/ UNCHANGED history /\ tasks'[t] = Idle
           \/ Returns(t) /\ tasks'[t] = Idle
           \/ /\ tasks'[t] = Idle
              /\ torn' = torn \cup {tasks[t].e} /\ UNCHANGED <<overlap, claim, ensured, dropped>>
    BY <1>0, <1>6, DeleteAlertDoes
  <2>2. /\ tasks[t].op \in {"alert", "unsubscribe"} /\ tasks[t].e \in Events /\ ~tasks[t].rejected
        /\ tasks[t].waits = {} /\ (tasks[t].op = "alert" => tasks[t].tgroup # None)
    BY <2>1 DEF Well, Protocol
  <2>3. Grows /\ HistoryTypes' /\ dropped' = dropped /\ config' = config
    <3>1. Grows /\ config' = config
      BY <2>1, AlertsGrow DEF OnlyMoves
    <3>2. HistoryTypes' /\ dropped' = dropped
      BY <2>1, <2>2, HistoryStays, ReturnsTypes, TornTypes
    <3> QED
      BY <3>1, <3>2
  <2>4. Protocol(t)' /\ InChain(t)' /\ Known(t)' /\ ChainDone(t)'
    BY <2>1, <2>2, <2>3, IdleWell, GoesWell
  <2> QED
    BY <2>1, <2>3, <2>4, MovedWell
<1>7. CASE CreateAlert(t)
  <2>1. NewAlert(tasks[t]) \in Alert /\ tasks[t].op = "alert" /\ tasks[t].pc = "create"
    BY <1>7, NewAlertType DEF CreateAlert, Well, Protocol
  <2>2. /\ OnlyMoves(t) /\ tasks'[t] = Idle
        /\ server' \in {server, Created("alerts", NewAlert(tasks[t]))}
        /\ \/ Returns(t)
           \/ /\ torn' \in {torn, torn \cup {tasks[t].e}}
              /\ UNCHANGED <<overlap, claim, ensured, dropped>>
    BY <1>0, <1>7, <2>1, CreateAlertDoes
  <2>3. tasks[t].e \in Events
    BY <2>1 DEF Well, Protocol
  <2>4. Grows /\ HistoryTypes' /\ dropped' = dropped
    <3>1. Grows
      BY <1>0, <2>1, <2>2, AlertsGrow, StaysGrows
    <3>2. HistoryTypes' /\ dropped' = dropped
      BY <2>1, <2>2, <2>3, ReturnsTypes, TornTypes
    <3> QED
      BY <3>1, <3>2
  <2> QED
    BY <2>2, <2>4, IdleWell, MovedWell
<1> QED
  BY <1>1, <1>2, <1>3, <1>4, <1>5, <1>6, <1>7 DEF Conclude

LEMMA CloseWell ==
  ASSUME Well, NEW t \in Tasks, Close(t)
  PROVE  Well'
<1>0. TypeOK
  BY DEF Well
<1>1. /\ OnlyMoves(t) /\ tasks'[t] = Idle
      /\ torn' = IF tasks[t].pc = "create" /\ tasks[t].alert # None
                 THEN torn \cup {tasks[t].e} ELSE torn
      /\ UNCHANGED <<server, overlap, claim, ensured, dropped>>
  BY <1>0, CloseDoes
<1>2. tasks[t].pc = "create" => tasks[t].e \in Events
  BY DEF Well, Protocol
<1>3. HistoryTypes' /\ dropped' = dropped
  BY <1>0, <1>1, <1>2 DEF HistoryTypes, TypeOK
<1> QED
  BY <1>0, <1>1, <1>3, StaysGrows, IdleWell, MovedWell

LEMMA InitWell ==
  ASSUME Init
  PROVE  Well
<1>1. server \in Service
  BY DEF Init, Service, Source, SourceTypes, Own
<1>2. \A t \in Tasks : tasks[t] = Idle
  BY DEF Init
<1>3. ASSUME NEW t \in Tasks PROVE Protocol(t) /\ InChain(t) /\ Known(t) /\ ChainDone(t)
  BY <1>2, IdleType DEF Protocol, InChain, Known, ChainDone
<1>4. config \in [Events -> Configs] /\ overlap \in BOOLEAN /\ tasks \in [Tasks -> Operation]
  BY IdleType DEF Init
<1>5. /\ starts \in 0 .. MaxStarts /\ failures \in 0 .. MaxFailures
      /\ ensured \subseteq Events /\ dropped \subseteq Events /\ torn \subseteq Events
  BY FrontendEnsureAssumption DEF Init
<1>6. TypeOK
  BY <1>1, <1>3, <1>4, <1>5 DEF TypeOK, Known
<1> QED
  BY <1>3, <1>6 DEF Well

LEMMA StepWell ==
  ASSUME Well, [Next]_vars
  PROVE  Well'
<1>1. ASSUME NEW t \in Tasks, Start(t) PROVE Well'
  <2>1. TypeOK
    BY DEF Well
  <2>2. /\ tasks' \in [Tasks -> Operation] /\ starts' \in 0 .. MaxStarts
        /\ UNCHANGED <<config, server, failures, ensured, torn>>
        /\ dropped \subseteq dropped' /\ dropped' \subseteq Events
        /\ overlap' = (overlap \/ Running # {})
        /\ \A u \in Tasks \ {t} : tasks'[u] = [tasks[u] EXCEPT !.alone = FALSE]
    BY <1>1, <2>1, StartDoes
  <2>3. ASSUME NEW u \in Tasks PROVE Protocol(u)' /\ InChain(u)' /\ Known(u)' /\ ChainDone(u)'
    BY <1>1, <2>1, <2>2, StartWell, WellKept, StartedKeep
  <2>4. TypeOK'
    BY <2>1, <2>2, <2>3 DEF TypeOK, Known
  <2> QED
    BY <2>3, <2>4 DEF Well
<1>2. ASSUME NEW t \in Tasks, Branch(t) PROVE Well'
  <2>1. Grows /\ Protocol(t)' /\ InChain(t)' /\ Known(t)' /\ ChainDone(t)'
    BY <1>2, BranchWell
  <2>2. OnlyMoves(t) /\ UNCHANGED history
    BY <1>2, BranchGathers DEF Gathers
  <2> QED
    BY <2>1, <2>2, HistoryStays, MovedWell
<1>3. CASE UNCHANGED vars
  BY <1>3 DEF vars, Well, TypeOK, Protocol, InChain, Known, ChainDone, Kind
<1> QED
  BY <1>1, <1>2, <1>3, ConcludeWell, CloseWell DEF Next

\* The types, of the state and of what the operations have gathered: an operation
\* never holds a source, target, source or target group the service does not have,
\* whatever the others do meanwhile.
THEOREM TypeCorrect == Spec => []TypeOK
<1>1. Spec => []Well
  BY InitWell, StepWell, PTL DEF Spec
<1> QED
  BY <1>1, PTL DEF Well

-----------------------------------------------------------------------------
(* What the steps do to the alerts. *)

Steps(t) == Branch(t) \/ Conclude(t) \/ Close(t)

\* The alerts when the one that t found is deleted.
Remaining(t) == {b \in server.alerts : b.id # tasks[t].alert.id}

LEMMA BranchAlerts ==
  ASSUME Well, NEW t \in Tasks, Branch(t)
  PROVE  /\ OnlyMoves(t) /\ UNCHANGED history /\ server'.alerts = server.alerts
         /\ tasks[t].pc = "gather" /\ AskedSame(tasks'[t], tasks[t])
         /\ tasks[t].rejected => tasks'[t].rejected
         /\ \/ /\ tasks'[t].alert = tasks[t].alert
               /\ tasks'[t].rejected \/ ("alerts" \in tasks[t].waits => "alerts" \in tasks'[t].waits)
            \/ tasks'[t].alert \in Found(Existing(tasks[t]))
<1>0. TypeOK /\ server \in Service
  BY DEF Well, TypeOK
<1> DEFINE Same == /\ tasks'[t].alert = tasks[t].alert
                   /\ "alerts" \in tasks[t].waits => "alerts" \in tasks'[t].waits
           Goal == /\ OnlyMoves(t) /\ UNCHANGED history /\ server'.alerts = server.alerts
                   /\ tasks[t].pc = "gather" /\ AskedSame(tasks'[t], tasks[t])
                   /\ tasks[t].rejected => tasks'[t].rejected
                   /\ \/ Same
                      \/ tasks'[t].alert = tasks[t].alert /\ tasks'[t].rejected
                      \/ tasks'[t].alert \in Found(Existing(tasks[t]))
<1>1. ASSUME NEW b, b # "alerts", Gathers(t, b), tasks'[t].alert = tasks[t].alert,
             server'.alerts = server.alerts
      PROVE  Goal
  BY <1>1 DEF Gathers
<1>2. CASE ReadAlerts(t)
  BY <1>0, <1>2, ReadAlertsDoes DEF Gathers
<1> HIDE DEF Goal
<1>3. ASSUME ReadTargetGroups(t) PROVE Goal
  BY <1>0, <1>1, <1>3, ReadTargetGroupsDoes
<1>4. ASSUME NEW c \in Channels, FindTarget(t, c) PROVE Goal
  BY <1>0, <1>1, <1>4, FindTargetDoes, FrontendEnsureAssumption
<1>5. ASSUME NEW c \in Channels, CreateTarget(t, c) PROVE Goal
  <2>1. tasks[t].want[c] # None
    BY <1>5, ChannelTask DEF CreateTarget, Waits
  <2>2. /\ Gathers(t, c) /\ tasks'[t].alert = tasks[t].alert
        /\ NewTarget(tasks[t], c) \in Target
        /\ server' \in {server, Created("targets", NewTarget(tasks[t], c))}
    BY <1>0, <1>5, <2>1, CreateTargetDoes
  <2>3. server'.alerts = server.alerts
    BY <1>0, <2>2, CreatedTarget
  <2> QED
    BY <1>1, <2>2, <2>3, FrontendEnsureAssumption
<1>6. ASSUME ReadSources(t) PROVE Goal
  BY <1>0, <1>1, <1>6, ReadSourcesDoes, ChainTask DEF ReadSources, At, Waits
<1>7. ASSUME NEW a \in Addresses \cup {None}, CreateSource(t, a) PROVE Goal
  <2>1. /\ tasks[t].e \in Events /\ Kind(tasks[t].e) # "label"
        /\ tasks[t].chain = "rest" => tasks[t].rejected
    BY <1>7, ChainTask DEF CreateSource, At, Waits
  <2>2. /\ Gathers(t, "chain") /\ tasks'[t].alert = tasks[t].alert
        /\ NewSource(tasks[t].e, a) \in Source
        /\ server' \in {server, Created("sources", NewSource(tasks[t].e, a))}
    BY <1>0, <1>7, <2>1, CreateSourceDoes
  <2>3. server'.alerts = server.alerts
    BY <1>0, <2>2, CreatedSource
  <2> QED
    BY <1>1, <2>2, <2>3
<1>8. ASSUME ReadSourceGroups(t) PROVE Goal
  BY <1>0, <1>1, <1>8, ReadSourceGroupsDoes
<1>9. ASSUME PutSourceGroup(t) PROVE Goal
  <2>1. tasks[t].e \in Events
    BY <1>9, ChainTask DEF PutSourceGroup, At, Waits
  <2>2. /\ Gathers(t, "chain") /\ tasks'[t].alert = tasks[t].alert
        /\ NewSourceGroup(tasks[t]) \in SourceGroup
        /\ server' \in {server, WithSourceGroup(tasks[t])}
    BY <1>0, <1>9, <2>1, PutSourceGroupDoes
  <2>3. server'.alerts = server.alerts
    BY <2>2, WithSourceGroupFields
  <2> QED
    BY <1>1, <2>2, <2>3
<1>10. Goal
  BY <1>2, <1>3, <1>4, <1>5, <1>6, <1>7, <1>8, <1>9 DEF Branch, Goal
<1> QED
  BY <1>10 DEF Goal

LEMMA PutGroupAlerts ==
  ASSUME Well, NEW t \in Tasks
  PROVE  PutGroup(tasks[t]).alerts = server.alerts
<1> DEFINE r == tasks[t]
           x == [id |-> New, targets |-> r.targets]
           y == [id |-> r.tgroup.id, targets |-> r.targets]
<1>1. /\ server \in Service /\ r.targets \in SUBSET Nat /\ New \in Nat
      /\ r.tgroup # None => r.tgroup.id \in Nat
  BY DEF Well, TypeOK, Operation, TargetGroup, Service, New
<1>2. x \in TargetGroup /\ (r.tgroup # None => y \in TargetGroup)
  BY <1>1 DEF TargetGroup
<1>3. PutGroup(r) = IF r.tgroup = None THEN Created("tgroups", x) ELSE Updated("tgroups", y)
  BY DEF PutGroup
<1> HIDE DEF x, y
<1> QED
  BY <1>1, <1>2, <1>3, CreatedTargetGroup, UpdatedTargetGroup

\* How an operation that has gathered all it needs goes on, and what becomes of
\* the alerts.
ConcludesAs(t) ==
  LET r == tasks[t]
      q == tasks'[t]
  IN
  \/ q = Idle /\ server'.alerts = server.alerts
  \/ q = Idle /\ r.pc = "delete" /\ server'.alerts = Remaining(t)
  \/ /\ q = Idle /\ r.pc = "create" /\ r.op = "alert" /\ NewAlert(r) \in Alert
     /\ server'.alerts = server.alerts \cup {NewAlert(r)} /\ server'.last = server.last + 1
  \/ GoesTo(t, "put") /\ r.op = "targetGroup" /\ server' = server
  \/ /\ GoesTo(t, "create") /\ r.pc = "gather" /\ r.waits = {} /\ ~r.rejected
     /\ r.op = "alert" /\ r.alert = None /\ server' = server
  \/ /\ GoesTo(t, "delete") /\ r.pc = "gather" /\ r.waits = {} /\ ~r.rejected
     /\ r.alert # None /\ server' = server
  \/ /\ GoesTo(t, "create") /\ r.pc = "delete" /\ r.op = "alert" /\ server'.alerts = Remaining(t)

LEMMA ConcludeAlerts ==
  ASSUME Well, NEW t \in Tasks, Conclude(t) \/ Close(t)
  PROVE  OnlyMoves(t) /\ tasks[t].pc # "idle" /\ ConcludesAs(t)
<1>0. TypeOK /\ server \in Service
  BY DEF Well, TypeOK
<1>1. CASE Throws(t)
  BY <1>0, <1>1, ThrowsDoes DEF ConcludesAs
<1>2. CASE TargetGroupGathered(t)
  BY <1>0, <1>2, TargetGroupGatheredDoes DEF ConcludesAs
<1>3. CASE AlertGathered(t)
  BY <1>0, <1>3, AlertGatheredDoes DEF ConcludesAs
<1>4. CASE UnsubscribeGathered(t)
  BY <1>0, <1>4, UnsubscribeGatheredDoes DEF ConcludesAs
<1>5. CASE PutTargetGroup(t)
  BY <1>0, <1>5, PutTargetGroupDoes, PutGroupAlerts DEF ConcludesAs
<1>6. CASE DeleteAlert(t)
  <2>1. /\ OnlyMoves(t) /\ tasks[t].pc = "delete" /\ server' \in {server, Without(tasks[t].alert)}
        /\ \/ /\ server' = Without(tasks[t].alert)
              /\ tasks[t].op # "unsubscribe" /\ GoesTo(t, "create")
           \/ tasks'[t] = Idle
    BY <1>0, <1>6, DeleteAlertDoes
  <2>2. Without(tasks[t].alert).alerts = Remaining(t)
    BY <1>0, WithoutFields DEF Remaining
  <2>3. tasks[t].op \in {"alert", "unsubscribe"}
    BY <2>1 DEF Well, Protocol
  <2> QED
    BY <2>1, <2>2, <2>3 DEF ConcludesAs
<1>7. CASE CreateAlert(t)
  <2>1. NewAlert(tasks[t]) \in Alert /\ tasks[t].op = "alert" /\ tasks[t].pc = "create"
    BY <1>7, NewAlertType DEF CreateAlert, Well, Protocol
  <2>2. /\ OnlyMoves(t) /\ tasks'[t] = Idle
        /\ server' \in {server, Created("alerts", NewAlert(tasks[t]))}
    BY <1>0, <1>7, <2>1, CreateAlertDoes
  <2> QED
    BY <1>0, <2>1, <2>2, CreatedAlert DEF ConcludesAs
<1>8. CASE Close(t)
  BY <1>0, <1>8, CloseDoes DEF ConcludesAs
<1> QED
  BY <1>1, <1>2, <1>3, <1>4, <1>5, <1>6, <1>7, <1>8 DEF Conclude

LEMMA StepsMove ==
  ASSUME Well, NEW t \in Tasks, Steps(t)
  PROVE  OnlyMoves(t) /\ tasks[t].pc # "idle"
BY ConcludeAlerts, BranchAlerts DEF Steps

LEMMA StepGrows ==
  ASSUME Well, NEW t \in Tasks, Steps(t)
  PROVE  Grows
<1>0. TypeOK
  BY DEF Well
<1>1. CASE Branch(t)
  BY <1>1, BranchWell
<1>2. CASE Throws(t) \/ TargetGroupGathered(t) \/ AlertGathered(t) \/ UnsubscribeGathered(t)
  BY <1>0, <1>2, StaysGrows
     DEF Throws, TargetGroupGathered, AlertGathered, UnsubscribeGathered
<1>3. CASE PutTargetGroup(t)
  BY <1>0, <1>3, PutTargetGroupDoes, PutGroupGrows
<1>4. CASE DeleteAlert(t)
  <2>1. server' \in {server, Without(tasks[t].alert)}
    BY <1>0, <1>4, DeleteAlertDoes
  <2> QED
    BY <2>1, AlertsGrow
<1>5. CASE CreateAlert(t)
  <2>1. NewAlert(tasks[t]) \in Alert
    BY <1>5, NewAlertType DEF CreateAlert
  <2>2. server' \in {server, Created("alerts", NewAlert(tasks[t]))}
    BY <1>0, <1>5, <2>1, CreateAlertDoes
  <2> QED
    BY <1>0, <2>1, <2>2, AlertsGrow, StaysGrows
<1>6. CASE Close(t)
  BY <1>0, <1>6, CloseDoes, StaysGrows
<1> QED
  BY <1>1, <1>2, <1>3, <1>4, <1>5, <1>6 DEF Steps, Conclude

-----------------------------------------------------------------------------
(* What an operation knows of the alerts, and what one that nothing overlaps *)
(* knows of them.                                                            *)

AlertIds ==
  /\ \A a \in server.alerts : a.id <= server.last
  /\ \A a, b \in server.alerts : a.id = b.id => a = b

\* Alerts are immutable: the one that was found may be gone, but not changed.
AlertKnown(t) ==
  LET r == tasks[t] IN
  r.alert # None =>
    /\ r.alert.id <= server.last
    /\ \A a \in server.alerts : a.id = r.alert.id => a = r.alert
    /\ r.op = "alert" => r.alert.name = r.e
    /\ r.op = "unsubscribe" => MayDrop(r.e, r.alert.name)

OnlyOne(t) == tasks[t].alone => tasks[t].pc # "idle" /\ \A u \in Tasks \ {t} : tasks[u].pc = "idle"

\* What it has found is there still, and what it has not found is not.
AloneAlert(t) ==
  LET r == tasks[t] IN
  r.alone =>
    /\ r.pc \in {"gather", "delete"} /\ r.alert # None => r.alert \in server.alerts
    /\ r.op = "alert" /\ r.alert = None /\ "alerts" \notin r.waits /\ ~r.rejected =>
         \A a \in server.alerts : a.name # r.e

AlertsWell == Well /\ AlertIds /\ \A t \in Tasks : AlertKnown(t) /\ OnlyOne(t) /\ AloneAlert(t)

LEMMA ExistingFacts ==
  ASSUME TypeOK, NEW t \in Tasks, tasks[t].op \in {"alert", "unsubscribe"} => tasks[t].e \in Events,
         NEW a \in Existing(tasks[t])
  PROVE  /\ a \in server.alerts /\ (tasks[t].op = "alert" => a.name = tasks[t].e)
         /\ tasks[t].op = "unsubscribe" => MayDrop(tasks[t].e, a.name)
<1> DEFINE r == tasks[t]
<1>1. a \in server.alerts /\ a.name \in Events
  BY DEF Existing, TypeOK, Service, Alert
<1>2. CASE r.op = "unsubscribe" /\ Kind(r.e) = "directPush"
  <2>1. FilterType(Kind(a.name)) = "DIRECT_TENANT_MESSAGES"
    BY <1>2 DEF Existing, FilterType
  <2>2. Kind(a.name) \in Kinds
    BY <1>1, ConfigFacts DEF TypeOK
  <2>3. Kind(a.name) \in {"directPush", "tradingPair"}
    BY <2>1, <2>2, FrontendEnsureAssumption DEF FilterType
  <2> QED
    BY <1>1, <1>2, <2>3 DEF MayDrop
<1>3. CASE ~(r.op = "unsubscribe" /\ Kind(r.e) = "directPush")
  BY <1>1, <1>3 DEF Existing, MayDrop
<1> QED
  BY <1>2, <1>3

LEMMA FoundAlert ==
  ASSUME NEW S, NEW a \in Found(S), a # None
  PROVE  a \in S
BY DEF Found

LEMMA FoundNone ==
  ASSUME TypeOK, NEW S \in SUBSET server.alerts, None \in Found(S)
  PROVE  S = {}
BY NoneAssumption DEF Found, TypeOK, Service

\* Steps of one operation: the others are not alone then.
LEMMA OthersNotAlone ==
  ASSUME Well, NEW t \in Tasks, Steps(t), \A u \in Tasks : OnlyOne(u)
  PROVE  \A u \in Tasks \ {t} : ~tasks'[u].alone
BY StepsMove DEF OnlyOne, OnlyMoves, OthersStay

LEMMA StepsAs ==
  ASSUME Well, NEW t \in Tasks, Steps(t)
  PROVE  \/ tasks'[t] = Idle
         \/ tasks'[t].pc # "idle" /\ tasks'[t].alone = tasks[t].alone
<1>1. CASE Branch(t)
  BY <1>1, BranchAlerts DEF AskedSame
<1>2. CASE Conclude(t) \/ Close(t)
  <2>1. ConcludesAs(t)
    BY <1>2, ConcludeAlerts
  <2> QED
    BY <2>1 DEF ConcludesAs, GoesTo
<1> QED
  BY <1>1, <1>2 DEF Steps

LEMMA OnlyOneStep ==
  ASSUME Well, NEW t \in Tasks, Steps(t), \A u \in Tasks : OnlyOne(u)
  PROVE  \A u \in Tasks : OnlyOne(u)'
<1>1. OthersStay(t)
  BY StepsMove DEF OnlyMoves
<1> TAKE u \in Tasks
<1>2. CASE u = t
  BY <1>1, <1>2, StepsAs, IdleType DEF OnlyOne, OthersStay
<1>3. CASE u # t
  BY <1>3, OthersNotAlone DEF OnlyOne
<1> QED
  BY <1>2, <1>3

LEMMA OnlyOneStart ==
  ASSUME Well, NEW t \in Tasks, Start(t)
  PROVE  \A u \in Tasks : OnlyOne(u)'
<1>1. /\ Fresh(tasks'[t]) /\ tasks'[t].alone = (Running = {})
      /\ \A u \in Tasks \ {t} : Keeps(u) /\ ~tasks'[u].alone
  BY StartDoes, StartedKeep DEF Well
<1>2. tasks'[t].alone => Running = {}
  BY <1>1, Zenon
<1>3. tasks'[t].pc # "idle" /\ (Running = {} => \A u \in Tasks \ {t} : tasks'[u].pc = "idle")
  BY <1>1 DEF Fresh, Running, Keeps
<1> TAKE u \in Tasks
<1>4. CASE u = t
  BY <1>2, <1>3, <1>4 DEF OnlyOne
<1>5. CASE u # t
  BY <1>1, <1>5 DEF OnlyOne
<1> QED
  BY <1>4, <1>5

\* The alerts after a step of t.
AlertsMove(t) ==
  /\ server.last \in Nat /\ server'.last \in Nat /\ server.last <= server'.last
  /\ \/ server'.alerts = server.alerts
     \/ tasks[t].pc = "delete" /\ server'.alerts = Remaining(t)
     \/ /\ tasks[t].pc = "create" /\ NewAlert(tasks[t]) \in Alert
        /\ server'.alerts = server.alerts \cup {NewAlert(tasks[t])}
        /\ server'.last = server.last + 1

LEMMA StepsAlerts ==
  ASSUME Well, NEW t \in Tasks, Steps(t)
  PROVE  AlertsMove(t)
<1>1. server.last \in Nat /\ server'.last \in Nat /\ server.last <= server'.last
  BY StepGrows, StepsMove DEF Grows, OnlyMoves, Well, TypeOK, Service
<1>2. CASE Branch(t)
  BY <1>1, <1>2, BranchAlerts DEF AlertsMove
<1>3. CASE Conclude(t) \/ Close(t)
  <2>1. ConcludesAs(t)
    BY <1>3, ConcludeAlerts
  <2> QED
    BY <1>1, <2>1 DEF ConcludesAs, AlertsMove
<1> QED
  BY <1>2, <1>3 DEF Steps

LEMMA NewAlertFields ==
  ASSUME NEW r
  PROVE  NewAlert(r).id = New /\ NewAlert(r).name = r.e
BY DEF NewAlert

LEMMA AlertIdsStep ==
  ASSUME Well, NEW t \in Tasks, AlertsMove(t), AlertIds
  PROVE  AlertIds'
<1>1. \A a \in server.alerts : a.id \in Nat
  BY DEF Well, TypeOK, Service, Alert
<1>2. CASE server'.alerts = server.alerts \/ server'.alerts = Remaining(t)
  BY <1>1, <1>2 DEF AlertIds, AlertsMove, Remaining
<1>3. CASE /\ server'.alerts = server.alerts \cup {NewAlert(tasks[t])}
           /\ server'.last = server.last + 1
  BY <1>1, <1>3, NewAlertFields DEF AlertIds, AlertsMove, New
<1> QED
  BY <1>2, <1>3 DEF AlertsMove

\* u knows what it knew.
LEMMA AlertKnownKept ==
  ASSUME Well, NEW t \in Tasks, AlertsMove(t), NEW u \in Tasks, AlertKnown(u), config' = config,
         tasks'[u].alert = tasks[u].alert, tasks'[u].op = tasks[u].op, tasks'[u].e = tasks[u].e
  PROVE  AlertKnown(u)'
<1>1. /\ \A a \in server.alerts : a.id \in Nat
      /\ tasks[u].alert # None => tasks[u].alert.id \in Nat
  BY DEF Well, TypeOK, Service, Alert, Operation
<1>2. CASE server'.alerts = server.alerts \/ server'.alerts = Remaining(t)
  BY <1>1, <1>2 DEF AlertKnown, AlertsMove, Remaining, MayDrop, Kind
<1>3. CASE /\ server'.alerts = server.alerts \cup {NewAlert(tasks[t])}
           /\ server'.last = server.last + 1
  BY <1>1, <1>3, NewAlertFields DEF AlertKnown, AlertsMove, MayDrop, Kind, New
<1> QED
  BY <1>2, <1>3 DEF AlertsMove

LEMMA AlertKnownStep ==
  ASSUME AlertsWell, NEW t \in Tasks, Steps(t)
  PROVE  \A u \in Tasks : AlertKnown(u)'
<1>1. Well /\ TypeOK /\ AlertIds /\ AlertKnown(t) /\ AlertsMove(t)
  BY StepsAlerts DEF AlertsWell, Well
<1>2. OthersStay(t) /\ config' = config
  BY <1>1, StepsMove DEF OnlyMoves
<1>3. AlertKnown(t)'
  <2>1. CASE tasks'[t] = Idle
    BY <2>1, IdleType DEF AlertKnown
  <2>2. CASE /\ tasks'[t].alert = tasks[t].alert
             /\ tasks'[t].op = tasks[t].op /\ tasks'[t].e = tasks[t].e
    BY <1>1, <1>2, <2>2, AlertKnownKept
  <2>3. CASE Branch(t) /\ tasks'[t].alert \in Found(Existing(tasks[t])) /\ tasks'[t].alert # None
    <3> DEFINE a == tasks'[t].alert
    <3>1. /\ tasks[t].pc = "gather" /\ AskedSame(tasks'[t], tasks[t]) /\ server'.alerts = server.alerts
      BY <1>1, <2>3, BranchAlerts
    <3>2. tasks[t].op \in {"alert", "unsubscribe"} => tasks[t].e \in Events
      BY <1>1, <3>1 DEF Well, Protocol
    <3>3. a \in Existing(tasks[t])
      BY <2>3, FoundAlert
    <3>4. /\ a \in server.alerts /\ (tasks[t].op = "alert" => a.name = tasks[t].e)
          /\ tasks[t].op = "unsubscribe" => MayDrop(tasks[t].e, a.name)
      BY <1>1, <3>2, <3>3, ExistingFacts
    <3>5. a.id \in Nat
      BY <1>1, <3>4 DEF TypeOK, Service, Alert
    <3> QED
      BY <1>1, <1>2, <3>1, <3>4, <3>5 DEF AlertKnown, AlertIds, AlertsMove, AskedSame, MayDrop, Kind
  <2>4. CASE tasks'[t].alert = None
    BY <2>4 DEF AlertKnown
  <2>5. CASE Branch(t)
    BY <1>1, <2>2, <2>3, <2>4, <2>5, BranchAlerts DEF AskedSame
  <2>6. CASE Conclude(t) \/ Close(t)
    <3>1. ConcludesAs(t)
      BY <1>1, <2>6, ConcludeAlerts
    <3> QED
      BY <2>1, <2>2, <3>1 DEF ConcludesAs, GoesTo
  <2> QED
    BY <2>5, <2>6 DEF Steps
<1> TAKE u \in Tasks
<1>4. CASE u # t
  BY <1>1, <1>2, <1>4, AlertKnownKept DEF AlertsWell, OthersStay
<1> QED
  BY <1>3, <1>4

LEMMA AloneAlertStep ==
  ASSUME AlertsWell, NEW t \in Tasks, Steps(t)
  PROVE  \A u \in Tasks : AloneAlert(u)'
<1>1. Well /\ TypeOK /\ AloneAlert(t) /\ (\A u \in Tasks : OnlyOne(u))
  BY DEF AlertsWell, Well
<1>2. AloneAlert(t)'
  <2>1. CASE tasks'[t] = Idle
    BY <2>1, IdleType DEF AloneAlert
  <2>2. CASE Branch(t)
    <3>1. /\ server'.alerts = server.alerts
          /\ tasks[t].pc = "gather" /\ AskedSame(tasks'[t], tasks[t])
          /\ tasks[t].rejected => tasks'[t].rejected
          /\ \/ /\ tasks'[t].alert = tasks[t].alert
                /\ tasks'[t].rejected \/ ("alerts" \in tasks[t].waits => "alerts" \in tasks'[t].waits)
             \/ tasks'[t].alert \in Found(Existing(tasks[t]))
      BY <1>1, <2>2, BranchAlerts
    <3>2. CASE tasks'[t].alert \in Found(Existing(tasks[t]))
      <4>1. tasks'[t].alert # None => tasks'[t].alert \in server.alerts
        BY <3>2, FoundAlert DEF Existing
      <4>2. Existing(tasks[t]) \in SUBSET server.alerts
        BY DEF Existing
      <4>3. tasks'[t].alert = None => Existing(tasks[t]) = {}
        BY <1>1, <3>2, <4>2, FoundNone
      <4>4. tasks'[t].alert = None /\ tasks[t].op = "alert" =>
              \A a \in server.alerts : a.name # tasks[t].e
        BY <4>3 DEF Existing
      <4> QED
        BY <3>1, <4>1, <4>4 DEF AloneAlert, AskedSame
    <3>3. CASE /\ tasks'[t].alert = tasks[t].alert
               /\ tasks'[t].rejected \/ ("alerts" \in tasks[t].waits => "alerts" \in tasks'[t].waits)
      BY <1>1, <3>1, <3>3 DEF AloneAlert, AskedSame
    <3> QED
      BY <3>1, <3>2, <3>3
  <2>3. CASE Conclude(t) \/ Close(t)
    <3>1. ConcludesAs(t)
      BY <1>1, <2>3, ConcludeAlerts
    <3>2. tasks[t].pc = "delete" => tasks[t].alert # None
      BY <1>1 DEF Well, Protocol
    <3>3. CASE GoesTo(t, "put") /\ tasks[t].op = "targetGroup"
      BY <3>3 DEF AloneAlert, GoesTo
    <3>4. CASE GoesTo(t, "create") /\ tasks[t].pc = "delete"
      BY <3>2, <3>4 DEF AloneAlert, GoesTo
    <3>5. CASE /\ GoesTo(t, "create") \/ GoesTo(t, "delete")
               /\ tasks[t].pc = "gather" /\ server' = server
      BY <1>1, <3>5 DEF AloneAlert, GoesTo
    <3> QED
      BY <2>1, <3>1, <3>3, <3>4, <3>5 DEF ConcludesAs
  <2> QED
    BY <2>2, <2>3 DEF Steps
<1> TAKE u \in Tasks
<1>3. CASE u # t
  BY <1>1, <1>3, OthersNotAlone DEF AloneAlert
<1> QED
  BY <1>2, <1>3

LEMMA AlertsStart ==
  ASSUME AlertsWell, NEW t \in Tasks, Start(t)
  PROVE  AlertIds' /\ \A u \in Tasks : AlertKnown(u)' /\ AloneAlert(u)'
<1>1. Well /\ TypeOK /\ AlertIds
  BY DEF AlertsWell, Well
<1>2. /\ UNCHANGED <<config, server>> /\ Fresh(tasks'[t])
      /\ \A u \in Tasks \ {t} : Keeps(u) /\ ~tasks'[u].alone
  BY <1>1, StartDoes, StartedKeep
<1>3. AlertIds'
  BY <1>1, <1>2 DEF AlertIds
<1>4. AlertKnown(t)' /\ AloneAlert(t)'
  BY <1>2 DEF AlertKnown, AloneAlert, Fresh
<1>5. ASSUME NEW u \in Tasks \ {t} PROVE AlertKnown(u)' /\ AloneAlert(u)'
  BY <1>2, <1>5 DEF AlertsWell, AlertKnown, AloneAlert, Keeps, MayDrop, Kind
<1> QED
  BY <1>3, <1>4, <1>5

LEMMA InitAlertsWell ==
  ASSUME Init
  PROVE  AlertsWell
<1>1. Well
  BY InitWell
<1>2. server.alerts = {} /\ \A t \in Tasks : tasks[t] = Idle
  BY DEF Init
<1>3. \A t \in Tasks : AlertKnown(t) /\ OnlyOne(t) /\ AloneAlert(t)
  BY <1>2, IdleType DEF AlertKnown, OnlyOne, AloneAlert
<1> QED
  BY <1>1, <1>2, <1>3 DEF AlertsWell, AlertIds

LEMMA StepAlertsWell ==
  ASSUME AlertsWell, [Next]_vars
  PROVE  AlertsWell'
<1>1. Well /\ Well' /\ AlertIds /\ (\A u \in Tasks : OnlyOne(u))
  BY StepWell DEF AlertsWell
<1>2. ASSUME NEW t \in Tasks, Start(t) PROVE AlertsWell'
  BY <1>1, <1>2, AlertsStart, OnlyOneStart DEF AlertsWell
<1>3. ASSUME NEW t \in Tasks, Steps(t) PROVE AlertsWell'
  BY <1>1, <1>3, StepsAlerts, AlertIdsStep, AlertKnownStep, AloneAlertStep, OnlyOneStep DEF AlertsWell
<1>4. CASE UNCHANGED vars
  BY <1>1, <1>4 DEF vars, AlertsWell, AlertIds, AlertKnown, OnlyOne, AloneAlert, MayDrop, Kind
<1> QED
  BY <1>2, <1>3, <1>4 DEF Next, Steps

-----------------------------------------------------------------------------
(* No alert is lost. *)

\* t holds on to the alert of e it has found; t will create that alert anew.
Holds(t, e) ==
  tasks[t].op = "alert" /\ tasks[t].pc = "gather" /\ tasks[t].alert # None /\ tasks[t].e = e
Rebuilds(t, e) == tasks[t].pc = "create" /\ tasks[t].alert # None /\ tasks[t].e = e

Excused(e) == e \in torn \/ \E d \in dropped : MayDrop(d, e)
Listed(e) == \E a \in server.alerts : a.name = e

\* Between the deletion and the creation an operation answers for the alert.
Stands(e) ==
  (e \in ensured \/ \E t \in Tasks : Holds(t, e)) =>
    Excused(e) \/ Listed(e) \/ \E t \in Tasks : Rebuilds(t, e)

StandsWell == AlertsWell /\ \A e \in Events : Stands(e)

\* A step of t after which e is excused or listed, as it was, and for e nothing
\* new is claimed.
LEMMA StandsKept ==
  ASSUME NEW e \in Events, Stands(e), NEW t \in Tasks, \A u \in Tasks \ {t} : Keeps(u),
         e \in ensured' => e \in ensured \/ Holds(t, e),
         Holds(t, e)' => Holds(t, e) \/ Listed(e),
         Excused(e) \/ Listed(e) \/ Rebuilds(t, e) =>
           Excused(e)' \/ Listed(e)' \/ Rebuilds(t, e)'
  PROVE  Stands(e)'
<1>1. SUFFICES ASSUME e \in ensured' \/ \E u \in Tasks : Holds(u, e)'
               PROVE  Excused(e)' \/ Listed(e)' \/ \E u \in Tasks : Rebuilds(u, e)'
  BY DEF Stands
<1>2. \A u \in Tasks \ {t} : (Holds(u, e)' => Holds(u, e)) /\ (Rebuilds(u, e) => Rebuilds(u, e)')
  BY DEF Keeps, Holds, Rebuilds
<1>3. Listed(e) \/ e \in ensured \/ \E u \in Tasks : Holds(u, e)
  BY <1>1, <1>2
<1>4. Excused(e) \/ Listed(e) \/ \E u \in Tasks : Rebuilds(u, e)
  BY <1>3 DEF Stands
<1> QED
  BY <1>2, <1>4

\* A branch of the gathering.
LEMMA StandsBranch ==
  ASSUME StandsWell, NEW t \in Tasks, Branch(t), NEW e \in Events
  PROVE  Stands(e)'
<1>1. AlertsWell /\ Well /\ TypeOK /\ Stands(e)
  BY DEF StandsWell, AlertsWell, Well
<1>2. /\ OnlyMoves(t) /\ UNCHANGED history /\ server'.alerts = server.alerts
      /\ tasks[t].pc = "gather" /\ AskedSame(tasks'[t], tasks[t])
      /\ tasks'[t].alert = tasks[t].alert \/ tasks'[t].alert \in Found(Existing(tasks[t]))
  BY <1>1, BranchAlerts
<1>3. \A u \in Tasks \ {t} : Keeps(u)
  BY <1>2, OthersKeep DEF OnlyMoves
<1>4. Holds(t, e)' => Holds(t, e) \/ Listed(e)
  <2>1. CASE tasks'[t].alert = tasks[t].alert
    BY <1>2, <2>1 DEF Holds, AskedSame
  <2>2. CASE tasks'[t].alert \in Found(Existing(tasks[t])) /\ Holds(t, e)'
    <3>1. tasks'[t].alert \in Existing(tasks[t]) /\ tasks[t].op = "alert" /\ tasks[t].e = e
      BY <1>2, <2>2, FoundAlert DEF Holds, AskedSame
    <3> QED
      BY <3>1 DEF Existing, Listed
  <2> QED
    BY <1>2, <2>1, <2>2
<1>5. (Excused(e) => Excused(e)') /\ (Listed(e) => Listed(e)') /\ ~Rebuilds(t, e)
  BY <1>2 DEF Excused, Listed, Rebuilds, MayDrop, Kind, history, OnlyMoves
<1>6. ensured' = ensured
  BY <1>2 DEF history
<1> QED
  BY <1>1, <1>3, <1>4, <1>5, <1>6, StandsKept

LEMMA StandsStart ==
  ASSUME StandsWell, NEW t \in Tasks, Start(t), NEW e \in Events
  PROVE  Stands(e)'
<1>1. TypeOK /\ Stands(e)
  BY DEF StandsWell, AlertsWell, Well
<1>2. /\ UNCHANGED <<config, server, ensured, torn>> /\ dropped \subseteq dropped'
      /\ Fresh(tasks'[t]) /\ tasks[t].pc = "idle"
      /\ \A u \in Tasks \ {t} : Keeps(u)
  BY <1>1, StartDoes, StartedKeep
<1>3. ~Holds(t, e)' /\ ~Rebuilds(t, e)
  BY <1>2 DEF Holds, Rebuilds, Fresh
<1>4. (Excused(e) => Excused(e)') /\ (Listed(e) => Listed(e)')
  BY <1>2 DEF Excused, Listed, MayDrop, Kind
<1> QED
  BY <1>1, <1>2, <1>3, <1>4, StandsKept

\* Deleting the alert that t has found, or not finding it any more.
LEMMA RemainingListed ==
  ASSUME AlertsWell, NEW t \in Tasks, tasks[t].alert # None, NEW e, Listed(e),
         e # tasks[t].alert.name, server'.alerts \in {server.alerts, Remaining(t)}
  PROVE  Listed(e)'
BY DEF AlertsWell, AlertKnown, Listed, Remaining

\* t returns: what it has claimed is excused or listed.
LEMMA ReturnsExcuse ==
  ASSUME NEW t \in Tasks, Returns(t), NEW e \in Events, config' = config
  PROVE  /\ e # tasks[t].e => (Excused(e) => Excused(e)')
         /\ e # tasks[t].e => (e \in ensured' => e \in ensured)
         /\ e \in ensured' => e \in ensured \/ (tasks[t].op = "alert" /\ tasks[t].e = e)
         /\ (\E d \in dropped : MayDrop(d, e)) => Excused(e)'
BY DEF Returns, Excused, MayDrop, Kind

LEMMA StandsGathered ==
  ASSUME StandsWell, NEW t \in Tasks, NEW e \in Events,
         \/ Throws(t) \/ TargetGroupGathered(t) \/ AlertGathered(t) \/ UnsubscribeGathered(t)
  PROVE  Stands(e)'
<1>1. AlertsWell /\ Well /\ TypeOK /\ Stands(e) /\ AlertKnown(t) /\ AloneAlert(t)
  BY DEF StandsWell, AlertsWell, Well
<1>2. /\ OnlyMoves(t) /\ UNCHANGED server /\ tasks[t].pc = "gather"
      /\ tasks'[t] = Idle \/ \E pc \in {"put", "create", "delete"} : GoesTo(t, pc)
  BY <1>1, ThrowsDoes, TargetGroupGatheredDoes, AlertGatheredDoes, UnsubscribeGatheredDoes
<1>3. \A u \in Tasks \ {t} : Keeps(u)
  BY <1>2, OthersKeep DEF OnlyMoves
<1>4. ~Holds(t, e)' /\ ~Rebuilds(t, e) /\ config' = config /\ (Listed(e) => Listed(e)')
  BY <1>2, IdleType DEF Holds, Rebuilds, GoesTo, OnlyMoves, Listed
<1>5. CASE UNCHANGED history
  <2>1. ensured' = ensured /\ (Excused(e) => Excused(e)')
    BY <1>4, <1>5 DEF Excused, MayDrop, Kind, history
  <2> QED
    BY <1>1, <1>3, <1>4, <2>1, StandsKept
<1>6. CASE Returns(t) /\ tasks[t].op = "targetGroup"
  <2>1. e # tasks[t].e
    BY <1>1, <1>6, NoneAssumption DEF Well, Protocol
  <2>2. (Excused(e) => Excused(e)') /\ (e \in ensured' => e \in ensured)
    BY <1>4, <1>6, <2>1, ReturnsExcuse
  <2> QED
    BY <1>1, <1>3, <1>4, <2>2, StandsKept
<1>7. CASE Returns(t) /\ tasks[t].op = "alert" /\ tasks[t].alert # None
  <2>1. e \in ensured' => e \in ensured \/ Holds(t, e)
    BY <1>2, <1>4, <1>7, ReturnsExcuse DEF Holds
  <2>2. CASE e = tasks[t].e
    <3>1. tasks[t].alone => Listed(e)
      BY <1>1, <1>2, <1>7, <2>2 DEF AloneAlert, AlertKnown, Listed
    <3>2. ~tasks[t].alone => torn' = torn /\ dropped' = dropped
      BY <1>7 DEF Returns
    <3>3. ~tasks[t].alone => (Excused(e) => Excused(e)')
      BY <1>4, <3>2 DEF Excused, MayDrop, Kind
    <3> QED
      BY <1>1, <1>3, <1>4, <2>1, <3>1, <3>3, StandsKept
  <2>3. CASE e # tasks[t].e
    <3>1. Excused(e) => Excused(e)'
      BY <1>4, <1>7, <2>3, ReturnsExcuse
    <3> QED
      BY <1>1, <1>3, <1>4, <2>1, <3>1, StandsKept
  <2> QED
    BY <2>2, <2>3
<1>8. CASE Throws(t)
  BY <1>1, <1>5, <1>8, ThrowsDoes
<1>9. CASE TargetGroupGathered(t)
  BY <1>1, <1>5, <1>6, <1>9, TargetGroupGatheredDoes
<1>10. CASE AlertGathered(t)
  BY <1>1, <1>5, <1>7, <1>10, AlertGatheredDoes
<1>11. CASE UnsubscribeGathered(t)
  BY <1>1, <1>5, <1>11, UnsubscribeGatheredDoes
<1> QED
  BY <1>8, <1>9, <1>10, <1>11

LEMMA StandsPut ==
  ASSUME StandsWell, NEW t \in Tasks, PutTargetGroup(t), NEW e \in Events
  PROVE  Stands(e)'
<1>1. Well /\ TypeOK /\ Stands(e)
  BY DEF StandsWell, AlertsWell, Well
<1>2. /\ OnlyMoves(t) /\ tasks[t].pc = "put" /\ tasks'[t] = Idle
      /\ server' \in {server, PutGroup(tasks[t])} /\ (Returns(t) \/ UNCHANGED history)
  BY <1>1, PutTargetGroupDoes
<1>3. \A u \in Tasks \ {t} : Keeps(u)
  BY <1>2, OthersKeep DEF OnlyMoves
<1>4. ~Holds(t, e)' /\ ~Rebuilds(t, e) /\ config' = config /\ e # tasks[t].e
  BY <1>1, <1>2, IdleType, NoneAssumption DEF Holds, Rebuilds, OnlyMoves, Well, Protocol
<1>5. Listed(e) => Listed(e)'
  BY <1>1, <1>2, PutGroupAlerts DEF Listed
<1>6. (Excused(e) => Excused(e)') /\ (e \in ensured' => e \in ensured)
  <2>1. CASE Returns(t)
    BY <1>4, <2>1, ReturnsExcuse
  <2>2. CASE UNCHANGED history
    BY <1>4, <2>2 DEF Excused, MayDrop, Kind, history
  <2> QED
    BY <1>2, <2>1, <2>2
<1> QED
  BY <1>1, <1>3, <1>4, <1>5, <1>6, StandsKept

\* What is deleted is created anew, torn, or unsubscribed.
LEMMA StandsDelete ==
  ASSUME StandsWell, NEW t \in Tasks, DeleteAlert(t), NEW e \in Events
  PROVE  Stands(e)'
<1>1. AlertsWell /\ Well /\ TypeOK /\ Stands(e) /\ AlertKnown(t)
  BY DEF StandsWell, AlertsWell, Well
<1>2. /\ OnlyMoves(t) /\ tasks[t].pc = "delete"
      /\ \/ /\ server' = Without(tasks[t].alert) /\ UNCHANGED history
            /\ tasks[t].op # "unsubscribe" /\ GoesTo(t, "create")
         \/ /\ server' = Without(tasks[t].alert) /\ Returns(t)
            /\ tasks[t].op = "unsubscribe" /\ tasks'[t] = Idle
         \/ /\ server' \in {server, Without(tasks[t].alert)} /\ tasks'[t] = Idle
            /\ torn' = torn \cup {tasks[t].e} /\ UNCHANGED <<overlap, claim, ensured, dropped>>
         \/ UNCHANGED <<server, history>> /\ tasks'[t] = Idle
  BY <1>1, DeleteAlertDoes
<1>3. \A u \in Tasks \ {t} : Keeps(u)
  BY <1>2, OthersKeep DEF OnlyMoves
<1>4. /\ tasks[t].op \in {"alert", "unsubscribe"} /\ tasks[t].e \in Events /\ tasks[t].alert # None
      /\ tasks[t].op = "unsubscribe" => tasks[t].e \in dropped
      /\ tasks[t].op = "alert" => tasks[t].alert.name = tasks[t].e
      /\ tasks[t].op = "unsubscribe" => MayDrop(tasks[t].e, tasks[t].alert.name)
  BY <1>1, <1>2 DEF Well, Protocol, AlertKnown
<1>5. ~Holds(t, e)' /\ ~Rebuilds(t, e) /\ config' = config
  BY <1>2, IdleType DEF Holds, Rebuilds, GoesTo, OnlyMoves
<1>6. Without(tasks[t].alert).alerts = Remaining(t)
  BY <1>1, WithoutFields DEF Remaining
<1>7. server'.alerts \in {server.alerts, Remaining(t)}
  BY <1>2, <1>6
<1>8. Listed(e) /\ e # tasks[t].alert.name => Listed(e)'
  BY <1>1, <1>4, <1>7, RemainingListed
<1>9. MayDrop(tasks[t].e, tasks[t].e)
  BY DEF MayDrop
<1>10. CASE UNCHANGED history /\ tasks[t].op # "unsubscribe" /\ GoesTo(t, "create")
  <2>1. ensured' = ensured /\ (Excused(e) => Excused(e)')
    BY <1>5, <1>10 DEF Excused, MayDrop, Kind, history
  <2>2. e = tasks[t].alert.name => Rebuilds(t, e)'
    BY <1>4, <1>10 DEF Rebuilds, GoesTo
  <2> QED
    BY <1>1, <1>3, <1>5, <1>8, <2>1, <2>2, StandsKept
<1>11. CASE Returns(t) /\ tasks[t].op = "unsubscribe"
  <2>1. e = tasks[t].alert.name \/ e = tasks[t].e => Excused(e)'
    BY <1>4, <1>5, <1>9, <1>11, ReturnsExcuse
  <2>2. e # tasks[t].e => (Excused(e) => Excused(e)')
    BY <1>5, <1>11, ReturnsExcuse
  <2>3. e \in ensured' => e \in ensured
    BY <1>11 DEF Returns
  <2> QED
    BY <1>1, <1>3, <1>5, <1>8, <2>1, <2>2, <2>3, StandsKept
<1>12. CASE torn' = torn \cup {tasks[t].e} /\ UNCHANGED <<overlap, claim, ensured, dropped>>
  <2>1. ensured' = ensured /\ (Excused(e) => Excused(e)')
    BY <1>5, <1>12 DEF Excused, MayDrop, Kind
  <2>2. e = tasks[t].alert.name => Excused(e)'
    <3>1. CASE tasks[t].op = "alert"
      BY <1>4, <1>12, <3>1 DEF Excused
    <3>2. CASE tasks[t].op = "unsubscribe"
      BY <1>4, <1>5, <1>12, <3>2 DEF Excused, MayDrop, Kind
    <3> QED
      BY <1>4, <3>1, <3>2
  <2> QED
    BY <1>1, <1>3, <1>5, <1>8, <2>1, <2>2, StandsKept
<1>13. CASE UNCHANGED <<server, history>>
  <2>1. ensured' = ensured /\ (Excused(e) => Excused(e)') /\ (Listed(e) => Listed(e)')
    BY <1>5, <1>13 DEF Excused, Listed, MayDrop, Kind, history
  <2> QED
    BY <1>1, <1>3, <1>5, <2>1, StandsKept
<1> QED
  BY <1>2, <1>10, <1>11, <1>12, <1>13

LEMMA StandsCreate ==
  ASSUME StandsWell, NEW t \in Tasks, CreateAlert(t), NEW e \in Events
  PROVE  Stands(e)'
<1>1. AlertsWell /\ Well /\ TypeOK /\ Stands(e) /\ tasks[t].pc = "create" /\ server \in Service
  BY DEF StandsWell, AlertsWell, Well, TypeOK, CreateAlert
<1>2. NewAlert(tasks[t]) \in Alert /\ tasks[t].op = "alert"
  BY <1>1, NewAlertType DEF Well, Protocol
<1>3. /\ OnlyMoves(t) /\ tasks'[t] = Idle
      /\ \/ server' = Created("alerts", NewAlert(tasks[t])) /\ Returns(t)
         \/ /\ server' \in {server, Created("alerts", NewAlert(tasks[t]))}
            /\ torn' = IF tasks[t].alert = None THEN torn ELSE torn \cup {tasks[t].e}
            /\ UNCHANGED <<overlap, claim, ensured, dropped>>
  BY <1>1, <1>2, CreateAlertDoes
<1>4. \A u \in Tasks \ {t} : Keeps(u)
  BY <1>3, OthersKeep DEF OnlyMoves
<1>5. ~Holds(t, e)' /\ ~Holds(t, e) /\ config' = config
  BY <1>1, <1>3, IdleType DEF Holds, OnlyMoves
<1>6. Created("alerts", NewAlert(tasks[t])).alerts = server.alerts \cup {NewAlert(tasks[t])}
  BY <1>1, <1>2, CreatedAlert
<1>7. Listed(e) => Listed(e)'
  BY <1>3, <1>6 DEF Listed
<1>8. CASE server' = Created("alerts", NewAlert(tasks[t])) /\ Returns(t)
  <2>1. e = tasks[t].e => Listed(e)'
    BY <1>6, <1>8, NewAlertFields DEF Listed
  <2>2. CASE e = tasks[t].e
    BY <2>1, <2>2 DEF Stands
  <2>3. CASE e # tasks[t].e
    <3>1. (Excused(e) => Excused(e)') /\ (e \in ensured' => e \in ensured) /\ ~Rebuilds(t, e)
      BY <1>5, <1>8, <2>3, ReturnsExcuse DEF Rebuilds
    <3> QED
      BY <1>1, <1>4, <1>5, <1>7, <3>1, StandsKept
  <2> QED
    BY <2>2, <2>3
<1>9. CASE /\ torn' = IF tasks[t].alert = None THEN torn ELSE torn \cup {tasks[t].e}
           /\ UNCHANGED <<overlap, claim, ensured, dropped>>
  <2>1. ensured' = ensured /\ (Excused(e) => Excused(e)') /\ (Rebuilds(t, e) => Excused(e)')
    BY <1>5, <1>9 DEF Excused, Rebuilds, MayDrop, Kind
  <2> QED
    BY <1>1, <1>4, <1>5, <1>7, <2>1, StandsKept
<1> QED
  BY <1>3, <1>8, <1>9

LEMMA StandsClose ==
  ASSUME StandsWell, NEW t \in Tasks, Close(t), NEW e \in Events
  PROVE  Stands(e)'
<1>1. TypeOK /\ Stands(e)
  BY DEF StandsWell, AlertsWell, Well
<1>2. /\ OnlyMoves(t) /\ tasks'[t] = Idle
      /\ torn' = IF tasks[t].pc = "create" /\ tasks[t].alert # None
                 THEN torn \cup {tasks[t].e} ELSE torn
      /\ UNCHANGED <<server, overlap, claim, ensured, dropped>>
  BY <1>1, CloseDoes
<1>3. \A u \in Tasks \ {t} : Keeps(u)
  BY <1>2, OthersKeep DEF OnlyMoves
<1>4. ~Holds(t, e)' /\ (Listed(e) => Listed(e)') /\ config' = config
  BY <1>2, IdleType DEF Holds, Listed, OnlyMoves
<1>5. (Excused(e) => Excused(e)') /\ (Rebuilds(t, e) => Excused(e)')
  BY <1>2, <1>4 DEF Excused, Rebuilds, MayDrop, Kind
<1> QED
  BY <1>1, <1>2, <1>3, <1>4, <1>5, StandsKept

LEMMA InitStandsWell ==
  ASSUME Init
  PROVE  StandsWell
<1>1. ensured = {} /\ \A t \in Tasks : tasks[t] = Idle
  BY DEF Init
<1> QED
  BY <1>1, InitAlertsWell, IdleType DEF StandsWell, Stands, Holds

LEMMA StepStandsWell ==
  ASSUME StandsWell, [Next]_vars
  PROVE  StandsWell'
<1>1. AlertsWell'
  BY StepAlertsWell DEF StandsWell
<1>2. ASSUME NEW e \in Events PROVE Stands(e)'
  <2>1. CASE UNCHANGED vars
    <3>1. Stands(e)
      BY DEF StandsWell
    <3> QED
      BY <2>1, <3>1 DEF vars, Stands, Holds, Rebuilds, Excused, Listed, MayDrop, Kind
  <2>2. CASE Next
    BY <2>2, StandsStart, StandsBranch, StandsGathered, StandsPut, StandsDelete, StandsCreate,
       StandsClose DEF Next, Conclude
  <2> QED
    BY <2>1, <2>2
<1> QED
  BY <1>1, <1>2 DEF StandsWell

\* Whatever number of ensureAlert and unsubscribe operations, of any pages, delete
\* and create alerts at once: when none is running every event type ensureAlert has
\* returned an alert for has one, unless it was unsubscribed or an operation failed
\* between its deletion and its creation.
THEOREM AlertNotLostTheorem == Spec => []AlertNotLost
<1>1. Spec => []StandsWell
  BY InitStandsWell, StepStandsWell, PTL DEF Spec
<1>2. StandsWell => AlertNotLost
  <2> SUFFICES ASSUME StandsWell, Running = {}, NEW e \in ensured \ torn
               PROVE  (\E d \in dropped : MayDrop(d, e)) \/ \E a \in server.alerts : a.name = e
    BY DEF AlertNotLost
  <2>1. e \in Events
    BY DEF StandsWell, AlertsWell, Well, TypeOK
  <2>2. \A t \in Tasks : ~Rebuilds(t, e)
    BY DEF Running, Rebuilds
  <2> QED
    BY <2>1, <2>2 DEF StandsWell, Stands, Excused, Listed
<1> QED
  BY <1>1, <1>2, PTL

-----------------------------------------------------------------------------
(* The targets an operation has gathered are those it was asked for. *)

TargetIds ==
  /\ \A x \in server.targets : x.id <= server.last
  /\ \A x, y \in server.targets : x.id = y.id => x = y

\* The channels that are ready, with the values they were to have.
Ready(r) ==
  {[channel |-> c, value |-> r.want[c]] : c \in {d \in Channels : r.want[d] # None /\ d \notin r.waits}}

TargetsKnown(t) ==
  LET r == tasks[t] IN
  r.op = "targetGroup" /\ ~r.rejected /\ r.pc # "idle" => Valued(r.targets) = Ready(r)

TargetsWell == Well /\ TargetIds /\ \A t \in Tasks : TargetsKnown(t)

ValuedIn(S, ids) == {[channel |-> x.channel, value |-> x.value] : x \in {y \in S : y.id \in ids}}

LEMMA ValuedAdd ==
  ASSUME NEW S, NEW y \in S, \A x \in S : x.id = y.id => x = y, NEW ids
  PROVE  ValuedIn(S, ids \cup {y.id}) = ValuedIn(S, ids) \cup {[channel |-> y.channel, value |-> y.value]}
BY DEF ValuedIn

LEMMA ValuedSame ==
  ASSUME NEW S, NEW x, NEW ids, x.id \notin ids
  PROVE  ValuedIn(S \cup {x}, ids) = ValuedIn(S, ids)
BY DEF ValuedIn

LEMMA ReadySame ==
  ASSUME NEW r, NEW q, r.want = q.want, NEW b, b \notin Channels, r.waits \in {q.waits, q.waits \ {b}}
  PROVE  Ready(r) = Ready(q)
BY DEF Ready

LEMMA ReadyAdd ==
  ASSUME NEW r, NEW q, r.want = q.want, NEW c \in Channels, q.want[c] # None,
         r.waits = q.waits \ {c}
  PROVE  Ready(r) = Ready(q) \cup {[channel |-> c, value |-> q.want[c]]}
BY DEF Ready

\* The targets after a step.
TargetsMove ==
  \/ server'.targets = server.targets /\ server.last <= server'.last
  \/ \E x \in Target : /\ x.id = server.last + 1 /\ server'.last = server.last + 1
                       /\ server'.targets = server.targets \cup {x}

LEMMA NewTargetFields ==
  ASSUME Well, NEW t \in Tasks, NEW c \in Channels, CreateTarget(t, c)
  PROVE  LET x == NewTarget(tasks[t], c)
             s == Created("targets", x)
         IN /\ x \in Target /\ x.id = server.last + 1 /\ x.channel = c
            /\ x.value = tasks[t].want[c] /\ tasks[t].want[c] # None
            /\ s.targets = server.targets \cup {x} /\ s.last = server.last + 1
            /\ s.tgroups = server.tgroups /\ s.sources = server.sources
            /\ s.sgroups = server.sgroups /\ s.alerts = server.alerts
<1>1. TypeOK /\ server \in Service /\ tasks[t].want[c] # None
  BY ChannelTask DEF Well, TypeOK, CreateTarget, Waits
<1>2. NewTarget(tasks[t], c) \in Target
  BY <1>1, CreateTargetDoes
<1>3. /\ NewTarget(tasks[t], c).id = server.last + 1 /\ NewTarget(tasks[t], c).channel = c
      /\ NewTarget(tasks[t], c).value = tasks[t].want[c]
  BY DEF NewTarget, New
<1> QED
  BY <1>1, <1>2, <1>3, CreatedTarget

LEMMA ConcludeTargets ==
  ASSUME Well, NEW t \in Tasks, Conclude(t) \/ Close(t)
  PROVE  /\ server'.targets = server.targets
         /\ server'.sources = server.sources /\ server'.sgroups = server.sgroups
<1>0. TypeOK /\ server \in Service
  BY DEF Well, TypeOK
<1>1. CASE Throws(t) \/ TargetGroupGathered(t) \/ AlertGathered(t) \/ UnsubscribeGathered(t) \/ Close(t)
  BY <1>0, <1>1 DEF Throws, TargetGroupGathered, AlertGathered, UnsubscribeGathered, Close
<1>2. CASE PutTargetGroup(t)
  <2> DEFINE r == tasks[t]
             x == [id |-> New, targets |-> r.targets]
             y == [id |-> r.tgroup.id, targets |-> r.targets]
  <2>1. /\ r.targets \in SUBSET Nat /\ New \in Nat
        /\ r.tgroup # None => r.tgroup.id \in Nat
    BY <1>0 DEF TypeOK, Operation, TargetGroup, Service, New
  <2>2. x \in TargetGroup /\ (r.tgroup # None => y \in TargetGroup)
    BY <2>1 DEF TargetGroup
  <2>3. PutGroup(r) = IF r.tgroup = None THEN Created("tgroups", x) ELSE Updated("tgroups", y)
    BY DEF PutGroup
  <2> HIDE DEF x, y
  <2>4. /\ PutGroup(r).targets = server.targets
        /\ PutGroup(r).sources = server.sources /\ PutGroup(r).sgroups = server.sgroups
    BY <1>0, <2>2, <2>3, CreatedTargetGroup, UpdatedTargetGroup
  <2> QED
    BY <1>0, <1>2, <2>4, PutTargetGroupDoes
<1>3. CASE DeleteAlert(t)
  <2>1. server' \in {server, Without(tasks[t].alert)}
    BY <1>0, <1>3, DeleteAlertDoes
  <2> QED
    BY <1>0, <2>1, WithoutFields
<1>4. CASE CreateAlert(t)
  <2>1. NewAlert(tasks[t]) \in Alert
    BY <1>4, NewAlertType DEF CreateAlert
  <2>2. server' \in {server, Created("alerts", NewAlert(tasks[t]))}
    BY <1>0, <1>4, <2>1, CreateAlertDoes
  <2> QED
    BY <1>0, <2>1, <2>2, CreatedAlert
<1> QED
  BY <1>1, <1>2, <1>3, <1>4 DEF Conclude

\* The branch b of t, which ensures no target.
Beside(t, b) ==
  /\ Gathers(t, b) /\ b \notin Channels /\ TargetsSame(tasks'[t], tasks[t])
  /\ server'.targets = server.targets

LEMMA BranchTargets ==
  ASSUME Well, NEW t \in Tasks, Branch(t)
  PROVE  \/ \E b : Beside(t, b)
         \/ \E c \in Channels : FindTarget(t, c) \/ CreateTarget(t, c)
<1>0. TypeOK /\ server \in Service
  BY DEF Well, TypeOK
<1>1. {"alerts", "tgroups", "chain"} \cap Channels = {}
  BY FrontendEnsureAssumption
<1>2. CASE ReadAlerts(t)
  <2>1. Beside(t, "alerts")
    BY <1>0, <1>1, <1>2, ReadAlertsDoes DEF Beside
  <2> QED
    BY <2>1
<1>3. CASE ReadTargetGroups(t)
  <2>1. Beside(t, "tgroups")
    BY <1>0, <1>1, <1>3, ReadTargetGroupsDoes DEF Beside
  <2> QED
    BY <2>1
<1>4. ASSUME ReadSources(t) PROVE Beside(t, "chain")
  BY <1>0, <1>1, <1>4, ReadSourcesDoes, ChainTask DEF Beside, ReadSources, At, Waits
<1>5. ASSUME NEW a \in Addresses \cup {None}, CreateSource(t, a) PROVE Beside(t, "chain")
  <2>1. /\ tasks[t].e \in Events /\ Kind(tasks[t].e) # "label"
        /\ tasks[t].chain = "rest" => tasks[t].rejected
    BY <1>5, ChainTask DEF CreateSource, At, Waits
  <2>2. /\ Gathers(t, "chain") /\ TargetsSame(tasks'[t], tasks[t])
        /\ NewSource(tasks[t].e, a) \in Source
        /\ server' \in {server, Created("sources", NewSource(tasks[t].e, a))}
    BY <1>0, <1>5, <2>1, CreateSourceDoes
  <2>3. server'.targets = server.targets
    BY <1>0, <2>2, CreatedSource
  <2> QED
    BY <1>1, <2>2, <2>3 DEF Beside
<1>6. ASSUME ReadSourceGroups(t) PROVE Beside(t, "chain")
  BY <1>0, <1>1, <1>6, ReadSourceGroupsDoes DEF Beside
<1>7. ASSUME PutSourceGroup(t) PROVE Beside(t, "chain")
  <2>1. tasks[t].e \in Events
    BY <1>7, ChainTask DEF PutSourceGroup, At, Waits
  <2>2. /\ Gathers(t, "chain") /\ TargetsSame(tasks'[t], tasks[t])
        /\ NewSourceGroup(tasks[t]) \in SourceGroup
        /\ server' \in {server, WithSourceGroup(tasks[t])}
    BY <1>0, <1>7, <2>1, PutSourceGroupDoes
  <2>3. server'.targets = server.targets
    BY <2>2, WithSourceGroupFields
  <2> QED
    BY <1>1, <2>2, <2>3 DEF Beside
<1> QED
  BY <1>2, <1>3, <1>4, <1>5, <1>6, <1>7 DEF Branch

LEMMA StepsTargets ==
  ASSUME Well, NEW t \in Tasks, Steps(t)
  PROVE  TargetsMove
<1>1. server.last <= server'.last
  BY StepGrows DEF Grows
<1>2. CASE \E c \in Channels : CreateTarget(t, c)
  <2>1. PICK c \in Channels : CreateTarget(t, c)
    BY <1>2
  <2> DEFINE x == NewTarget(tasks[t], c)
  <2>2. server' \in {server, Created("targets", x)}
    BY <2>1, CreateTargetDoes, ChannelTask DEF Well, CreateTarget, Waits
  <2>3. x \in Target /\ x.id = server.last + 1
    BY <2>1, NewTargetFields
  <2>4. /\ Created("targets", x).targets = server.targets \cup {x}
        /\ Created("targets", x).last = server.last + 1
    BY <2>1, NewTargetFields
  <2> HIDE DEF x
  <2> QED
    BY <1>1, <2>2, <2>3, <2>4 DEF TargetsMove
<1>3. CASE \E c \in Channels : FindTarget(t, c)
  BY <1>1, <1>3, FindTargetDoes DEF TargetsMove, Well
<1>4. CASE \E b : Beside(t, b)
  BY <1>1, <1>4 DEF TargetsMove, Beside
<1>5. CASE Conclude(t) \/ Close(t)
  BY <1>1, <1>5, ConcludeTargets DEF TargetsMove
<1> QED
  BY <1>2, <1>3, <1>4, <1>5, BranchTargets DEF Steps

LEMMA TargetIdsStep ==
  ASSUME Well, TargetIds, TargetsMove, server'.last \in Nat
  PROVE  TargetIds'
<1>1. server.last \in Nat /\ \A x \in server.targets : x.id \in Nat
  BY DEF Well, TypeOK, Service, Target
<1>2. CASE server'.targets = server.targets /\ server.last <= server'.last
  BY <1>1, <1>2 DEF TargetIds
<1>3. CASE \E x \in Target : /\ x.id = server.last + 1 /\ server'.last = server.last + 1
                             /\ server'.targets = server.targets \cup {x}
  BY <1>1, <1>3 DEF TargetIds
<1> QED
  BY <1>2, <1>3 DEF TargetsMove

\* A new target has a new id: the ones that are held mean what they meant.
LEMMA ValuedKept ==
  ASSUME Well, TargetIds, TargetsMove, NEW ids, ids \subseteq Ids(server.targets)
  PROVE  ValuedIn(server'.targets, ids) = ValuedIn(server.targets, ids)
<1>1. server.last \in Nat /\ \A x \in server.targets : x.id \in Nat
  BY DEF Well, TypeOK, Service, Target
<1>2. \A i \in ids : i <= server.last /\ i \in Nat
  BY <1>1 DEF TargetIds, Ids
<1>3. ASSUME NEW x \in Target, x.id = server.last + 1, server'.targets = server.targets \cup {x}
      PROVE  ValuedIn(server'.targets, ids) = ValuedIn(server.targets, ids)
  <2>1. x.id \notin ids
    BY <1>1, <1>2, <1>3
  <2> QED
    BY <1>3, <2>1, ValuedSame
<1> QED
  BY <1>3 DEF TargetsMove

LEMMA TargetsKnownKept ==
  ASSUME TargetsWell, TargetsMove, NEW u \in Tasks, Keeps(u)
  PROVE  TargetsKnown(u)'
<1>1. tasks[u].targets \subseteq Ids(server.targets)
  BY DEF TargetsWell, Well, Known
<1>2. ValuedIn(server'.targets, tasks[u].targets) = ValuedIn(server.targets, tasks[u].targets)
  BY <1>1, ValuedKept DEF TargetsWell
<1>3. Ready(tasks'[u]) = Ready(tasks[u])
  BY DEF Keeps, Ready
<1> QED
  BY <1>2, <1>3 DEF TargetsWell, TargetsKnown, Keeps, TargetsSame, Valued, ValuedIn

LEMMA TargetsKnownBeside ==
  ASSUME TargetsWell, NEW t \in Tasks, NEW b, Beside(t, b)
  PROVE  TargetsKnown(t)'
<1>1. Ready(tasks'[t]) = Ready(tasks[t])
  BY ReadySame DEF Beside, Gathers, AskedSame
<1> QED
  BY <1>1 DEF TargetsWell, TargetsKnown, Beside, Gathers, AskedSame, TargetsSame, Valued

LEMMA TargetsKnownFind ==
  ASSUME TargetsWell, NEW t \in Tasks, NEW c \in Channels, FindTarget(t, c)
  PROVE  TargetsKnown(t)'
<1>0. TypeOK /\ Well /\ TargetIds /\ TargetsKnown(t)
  BY DEF TargetsWell, Well
<1>1. tasks[t].want[c] # None /\ tasks[t].pc = "gather"
  BY <1>0, ChannelTask DEF FindTarget, Waits
<1>2. Gathers(t, c) /\ server' = server
  BY <1>0, FindTargetDoes
<1>3. tasks'[t].op = tasks[t].op /\ tasks'[t].want = tasks[t].want /\ (tasks[t].rejected => tasks'[t].rejected)
  BY <1>2 DEF Gathers, AskedSame
<1>4. CASE tasks'[t].waits = tasks[t].waits /\ tasks'[t].targets = tasks[t].targets
  <2>1. Ready(tasks'[t]) = Ready(tasks[t])
    BY <1>3, <1>4 DEF Ready
  <2> QED
    BY <1>0, <1>1, <1>2, <1>3, <1>4, <2>1 DEF TargetsKnown, Valued
<1>5. ASSUME tasks'[t].waits = tasks[t].waits \ {c}, NEW y \in server.targets,
             y.channel = c, y.value = tasks[t].want[c],
             tasks'[t].targets = tasks[t].targets \cup {y.id}
      PROVE  TargetsKnown(t)'
  <2>1. Ready(tasks'[t]) = Ready(tasks[t]) \cup {[channel |-> c, value |-> tasks[t].want[c]]}
    BY <1>1, <1>3, <1>5, ReadyAdd
  <2>2. ValuedIn(server.targets, tasks'[t].targets)
          = ValuedIn(server.targets, tasks[t].targets) \cup {[channel |-> y.channel, value |-> y.value]}
    BY <1>0, <1>5, ValuedAdd DEF TargetIds
  <2>3. /\ Valued(tasks[t].targets)' = ValuedIn(server.targets, tasks'[t].targets)
        /\ Valued(tasks[t].targets) = ValuedIn(server.targets, tasks[t].targets)
    BY <1>2 DEF Valued, ValuedIn
  <2>4. Valued(tasks[t].targets) = Ready(tasks[t]) => Valued(tasks[t].targets)' = Ready(tasks'[t])
    BY <1>5, <2>1, <2>2, <2>3
  <2> QED
    BY <1>0, <1>1, <1>3, <2>4 DEF TargetsKnown
<1>6. CASE tasks'[t].rejected
  BY <1>6 DEF TargetsKnown
<1> QED
  BY <1>0, <1>4, <1>5, <1>6, FindTargetDoes

LEMMA TargetsKnownCreate ==
  ASSUME TargetsWell, NEW t \in Tasks, NEW c \in Channels, CreateTarget(t, c)
  PROVE  TargetsKnown(t)'
<1> DEFINE x == NewTarget(tasks[t], c)
<1>0. TypeOK /\ Well /\ TargetIds /\ TargetsKnown(t) /\ server.last \in Nat
  BY DEF TargetsWell, Well, TypeOK, Service
<1>1. /\ x \in Target /\ x.id = server.last + 1 /\ x.channel = c
      /\ x.value = tasks[t].want[c] /\ tasks[t].want[c] # None
      /\ Created("targets", x).targets = server.targets \cup {x}
  BY <1>0, NewTargetFields
<1>2. /\ Gathers(t, c) /\ tasks'[t].waits = tasks[t].waits \ {c}
      /\ \/ server' = Created("targets", x) /\ tasks'[t].targets = tasks[t].targets \cup {New}
         \/ tasks'[t].rejected
  BY <1>0, <1>1, CreateTargetDoes
<1> HIDE DEF x
<1>3. /\ tasks'[t].op = tasks[t].op /\ tasks'[t].want = tasks[t].want
      /\ tasks[t].rejected => tasks'[t].rejected
      /\ tasks[t].pc = "gather"
  BY <1>2 DEF Gathers, AskedSame
<1>4. CASE tasks'[t].rejected
  BY <1>4 DEF TargetsKnown
<1>5. CASE server' = Created("targets", x) /\ tasks'[t].targets = tasks[t].targets \cup {New}
  <2>1. Ready(tasks'[t]) = Ready(tasks[t]) \cup {[channel |-> c, value |-> tasks[t].want[c]]}
    BY <1>1, <1>2, <1>3, ReadyAdd
  <2> DEFINE S == server.targets \cup {x}
             ids == tasks[t].targets
  <2>2. \A y \in server.targets : y.id <= server.last /\ y.id \in Nat
    BY <1>0 DEF TargetIds, TypeOK, Service, Target
  <2>3. ids \subseteq Ids(server.targets)
    BY <1>0 DEF Well, Known
  <2>4. x.id \notin ids
    BY <1>0, <1>1, <2>2, <2>3 DEF Ids
  <2>5. x \in S /\ \A y \in S : y.id = x.id => y = x
    BY <1>0, <1>1, <2>2
  <2>6. x.id = New /\ server'.targets = S /\ tasks'[t].targets = ids \cup {x.id}
    BY <1>1, <1>5 DEF New
  <2> HIDE DEF S, ids
  <2>7. ValuedIn(S, ids \cup {x.id}) = ValuedIn(S, ids) \cup {[channel |-> x.channel, value |-> x.value]}
    BY <2>5, ValuedAdd
  <2>8. ValuedIn(S, ids) = ValuedIn(server.targets, ids)
    BY <2>4, ValuedSame DEF S
  <2>9. /\ Valued(tasks[t].targets)' = ValuedIn(S, ids \cup {x.id})
        /\ Valued(tasks[t].targets) = ValuedIn(server.targets, ids)
    BY <2>6 DEF Valued, ValuedIn, ids
  <2>10. Valued(tasks[t].targets) = Ready(tasks[t]) => Valued(tasks[t].targets)' = Ready(tasks'[t])
    BY <1>1, <2>1, <2>7, <2>8, <2>9
  <2> QED
    BY <1>0, <1>3, <2>10 DEF TargetsKnown
<1> QED
  BY <1>2, <1>4, <1>5

LEMMA TargetsKnownGoes ==
  ASSUME TargetsWell, NEW t \in Tasks, tasks[t].pc # "idle", server'.targets = server.targets,
         tasks'[t] = Idle \/ \E pc \in {"put", "delete", "create"} : GoesTo(t, pc)
  PROVE  TargetsKnown(t)'
<1>1. CASE tasks'[t] = Idle
  BY <1>1, IdleType DEF TargetsKnown
<1>2. CASE \E pc \in {"put", "delete", "create"} : GoesTo(t, pc)
  <2>1. Ready(tasks'[t]) = Ready(tasks[t])
    BY <1>2 DEF GoesTo, Ready
  <2> QED
    BY <1>2, <2>1 DEF TargetsWell, TargetsKnown, GoesTo, TargetsSame, Valued
<1> QED
  BY <1>1, <1>2

LEMMA InitTargetsWell ==
  ASSUME Init
  PROVE  TargetsWell
<1>1. server.targets = {} /\ \A t \in Tasks : tasks[t] = Idle
  BY DEF Init
<1> QED
  BY <1>1, InitWell, IdleType DEF TargetsWell, TargetIds, TargetsKnown

LEMMA StepTargetsWell ==
  ASSUME TargetsWell, [Next]_vars
  PROVE  TargetsWell'
<1>0. Well /\ TypeOK /\ Well' /\ TargetIds /\ server'.last \in Nat
  BY StepWell DEF TargetsWell, Well, TypeOK, Service
<1>1. ASSUME NEW t \in Tasks, Start(t) PROVE TargetsWell'
  <2>1. /\ UNCHANGED server /\ Fresh(tasks'[t]) /\ \A u \in Tasks \ {t} : Keeps(u)
    BY <1>0, <1>1, StartDoes, StartedKeep
  <2>2. TargetsMove
    BY <1>0, <2>1, StaysGrows DEF TargetsMove, Grows
  <2>3. TargetsKnown(t)'
    <3>1. Fresh(tasks'[t]) /\ tasks'[t].op = "targetGroup" =>
            Ready(tasks'[t]) = {} /\ tasks'[t].targets = {}
      BY DEF Fresh, Ready
    <3> QED
      BY <2>1, <3>1 DEF TargetsKnown, Valued
  <2> QED
    BY <1>0, <2>1, <2>2, <2>3, TargetIdsStep, TargetsKnownKept DEF TargetsWell
<1>2. ASSUME NEW t \in Tasks, Steps(t) PROVE TargetsWell'
  <2>1. TargetsMove /\ \A u \in Tasks \ {t} : Keeps(u)
    BY <1>0, <1>2, StepsTargets, StepsMove, OthersKeep DEF OnlyMoves
  <2>2. TargetsKnown(t)'
    <3>1. CASE Branch(t)
      BY <1>0, <3>1, BranchTargets, TargetsKnownBeside, TargetsKnownFind, TargetsKnownCreate
    <3>2. CASE Conclude(t) \/ Close(t)
      <4>1. ConcludesAs(t) /\ tasks[t].pc # "idle" /\ server'.targets = server.targets
        BY <1>0, <3>2, ConcludeAlerts, ConcludeTargets
      <4>2. tasks'[t] = Idle \/ \E pc \in {"put", "delete", "create"} : GoesTo(t, pc)
        BY <4>1 DEF ConcludesAs
      <4> QED
        BY <4>1, <4>2, TargetsKnownGoes
    <3> QED
      BY <1>2, <3>1, <3>2 DEF Steps
  <2> QED
    BY <1>0, <2>1, <2>2, TargetIdsStep, TargetsKnownKept DEF TargetsWell
<1>3. CASE UNCHANGED vars
  BY <1>0, <1>3 DEF vars, TargetsWell, TargetIds, TargetsKnown, Valued
<1> QED
  BY <1>1, <1>2, <1>3 DEF Next, Steps

-----------------------------------------------------------------------------
(* The sources that ensureSourceAndFilters has gathered cover the addresses of *)
(* the event type.                                                           *)

\* There is one of the event type for each address that is not missing.
Covers(t) ==
  LET r == tasks[t] IN
  /\ \A d \in config[r.e].addresses \ r.missing : Ids(Fitting(r.e, d)) \cap r.sources # {}
  /\ \/ r.sources \subseteq UNION {Ids(Fitting(r.e, d)) : d \in config[r.e].addresses}
     \/ Kind(r.e) = "priceChange"

ChainKnown(t) ==
  LET r == tasks[t] IN
  r.op = "alert" /\ ~r.rejected /\ r.pc # "idle" =>
    /\ r.missing \subseteq config[r.e].addresses
    /\ "chain" \notin r.waits \/ r.chain # "sources" => Covers(t)
    /\ "chain" \notin r.waits \/ r.chain \in {"groups", "put"} => r.missing = {}

ChainWell == Well /\ \A t \in Tasks : ChainKnown(t)

LEMMA FittingGrows ==
  ASSUME server.sources \subseteq server'.sources, config' = config, NEW e, NEW d
  PROVE  Ids(Fitting(e, d)) \subseteq Ids(Fitting(e, d))'
BY DEF Ids, Fitting, OfType, Kind

\* What covers the addresses goes on to do so.
LEMMA CoversKept ==
  ASSUME server.sources \subseteq server'.sources, config' = config, NEW u \in Tasks, Covers(u),
         tasks'[u].e = tasks[u].e, tasks'[u].missing = tasks[u].missing,
         tasks'[u].sources = tasks[u].sources
  PROVE  Covers(u)'
<1> DEFINE e == tasks[u].e
           A == config[e].addresses
           S == tasks[u].sources
           M == tasks[u].missing
<1>1. \A d : Ids(Fitting(e, d)) \subseteq Ids(Fitting(e, d))'
  BY FittingGrows
<1>2. ASSUME NEW d \in A \ M PROVE Ids(Fitting(e, d))' \cap S # {}
  BY <1>1, <1>2 DEF Covers
<1>3. S \subseteq UNION {Ids(Fitting(e, d)) : d \in A} =>
        S \subseteq UNION {Ids(Fitting(e, d))' : d \in A}
  BY <1>1
<1>4. Covers(u)' <=>
        /\ \A d \in A \ M : Ids(Fitting(e, d))' \cap S # {}
        /\ S \subseteq UNION {Ids(Fitting(e, d))' : d \in A} \/ Kind(e)' = "priceChange"
  BY DEF Covers
<1>5. Kind(e)' = Kind(e)
  BY DEF Kind
<1> QED
  BY <1>2, <1>3, <1>4, <1>5 DEF Covers

LEMMA ChainKnownKept ==
  ASSUME ChainWell, NEW u \in Tasks, server.sources \subseteq server'.sources, config' = config,
         tasks'[u].e = tasks[u].e, tasks'[u].op = tasks[u].op, ChainSame(tasks'[u], tasks[u]),
         tasks'[u].pc # "idle" => tasks[u].pc # "idle",
         tasks[u].rejected => tasks'[u].rejected,
         "chain" \in tasks[u].waits => "chain" \in tasks'[u].waits
  PROVE  ChainKnown(u)'
<1>1. Covers(u) => Covers(u)'
  BY CoversKept DEF ChainSame
<1> QED
  BY <1>1 DEF ChainWell, ChainKnown, ChainSame

\* The branch b of t, which is not the chain.
BesideChain(t, b) ==
  /\ Gathers(t, b) /\ b # "chain" /\ ChainSame(tasks'[t], tasks[t])
  /\ server'.sources = server.sources /\ server'.sgroups = server.sgroups
  /\ server'.tgroups = server.tgroups

LEMMA BranchChain ==
  ASSUME Well, NEW t \in Tasks, Branch(t)
  PROVE  \/ \E b : BesideChain(t, b)
         \/ ReadSources(t) \/ ReadSourceGroups(t) \/ PutSourceGroup(t)
         \/ \E a \in Addresses \cup {None} : CreateSource(t, a)
<1>0. TypeOK
  BY DEF Well
<1>1. ASSUME ReadAlerts(t) PROVE BesideChain(t, "alerts")
  BY <1>0, <1>1, ReadAlertsDoes DEF BesideChain
<1>2. ASSUME ReadTargetGroups(t) PROVE BesideChain(t, "tgroups")
  BY <1>0, <1>2, ReadTargetGroupsDoes DEF BesideChain
<1>3. ASSUME NEW c \in Channels, FindTarget(t, c) PROVE BesideChain(t, c)
  BY <1>0, <1>3, FindTargetDoes, FrontendEnsureAssumption DEF BesideChain
<1>4. ASSUME NEW c \in Channels, CreateTarget(t, c) PROVE BesideChain(t, c)
  <2>1. /\ tasks[t].want[c] # None
        /\ Created("targets", NewTarget(tasks[t], c)).tgroups = server.tgroups
        /\ Created("targets", NewTarget(tasks[t], c)).sources = server.sources
        /\ Created("targets", NewTarget(tasks[t], c)).sgroups = server.sgroups
    BY <1>4, NewTargetFields
  <2>2. /\ Gathers(t, c) /\ ChainSame(tasks'[t], tasks[t])
        /\ server' \in {server, Created("targets", NewTarget(tasks[t], c))}
    BY <1>0, <1>4, <2>1, CreateTargetDoes
  <2> QED
    BY <2>1, <2>2, FrontendEnsureAssumption DEF BesideChain
<1> QED
  BY <1>1, <1>2, <1>3, <1>4 DEF Branch

LEMMA ChainKnownReadSources ==
  ASSUME ChainWell, NEW t \in Tasks, ReadSources(t)
  PROVE  ChainKnown(t)'
<1> DEFINE e == tasks[t].e
<1>0. /\ Well /\ TypeOK /\ tasks[t].op = "alert" /\ e \in Events
      /\ "chain" \in tasks[t].waits
  BY ChainTask DEF ChainWell, Well, ReadSources, At, Waits
<1>1. /\ Gathers(t, "chain") /\ UNCHANGED server
      /\ \/ tasks'[t].rejected
         \/ /\ tasks'[t].waits = tasks[t].waits
            /\ \E picked \in Picks(e) : tasks'[t].sources = Ids(picked)
            /\ tasks'[t].missing = Lacking(e)
            /\ tasks'[t].chain = IF Lacking(e) = {} THEN "groups" ELSE "create"
  BY <1>0, ReadSourcesDoes
<1>2. tasks'[t].op = "alert" /\ tasks'[t].e = e /\ config' = config
  BY <1>0, <1>1 DEF Gathers, AskedSame, OnlyMoves
<1>3. CASE tasks'[t].rejected
  BY <1>3 DEF ChainKnown
<1>4. ASSUME NEW picked \in Picks(e), tasks'[t].sources = Ids(picked),
             tasks'[t].missing = Lacking(e), tasks'[t].waits = tasks[t].waits,
             tasks'[t].chain = IF Lacking(e) = {} THEN "groups" ELSE "create"
      PROVE  ChainKnown(t)'
  <2>1. ASSUME NEW d \in config[e].addresses, d \notin Lacking(e)
        PROVE  picked \cap Fitting(e, d) # {}
    <3>1. Fitting(e, d) # {} /\ Fitting(e, d) \subseteq OfType(e)
      BY <2>1 DEF Lacking, Fitting
    <3>2. CASE Kind(e) = "priceChange"
      BY <3>1, <3>2 DEF Picks
    <3>3. CASE Kind(e) # "priceChange"
      <4>1. Cardinality(picked \cap Fitting(e, d)) = 1
        BY <2>1, <3>1, <3>3 DEF Picks
      <4> QED
        BY <4>1, FS_EmptySet
    <3> QED
      BY <3>2, <3>3
  <2>2. ASSUME NEW d \in config[e].addresses \ Lacking(e)
        PROVE  Ids(Fitting(e, d)) \cap Ids(picked) # {}
    BY <2>1 DEF Ids
  <2>3. Kind(e) # "priceChange" => Ids(picked) \subseteq UNION {Ids(Fitting(e, d)) : d \in config[e].addresses}
    BY DEF Picks, Ids
  <2>4. \A d : Ids(Fitting(e, d))' = Ids(Fitting(e, d))
    BY <1>1, <1>2 DEF Ids, Fitting, OfType, Kind
  <2>5. Covers(t)' <=>
          /\ \A d \in config[e].addresses \ Lacking(e) : Ids(Fitting(e, d))' \cap Ids(picked) # {}
          /\ \/ Ids(picked) \subseteq UNION {Ids(Fitting(e, d))' : d \in config[e].addresses}
             \/ Kind(e)' = "priceChange"
    BY <1>2, <1>4 DEF Covers
  <2>6. Kind(e)' = Kind(e)
    BY <1>2 DEF Kind
  <2>7. Covers(t)'
    BY <2>2, <2>3, <2>4, <2>5, <2>6
  <2>8. Lacking(e) \subseteq config[e].addresses
    BY DEF Lacking
  <2> QED
    BY <1>0, <1>2, <1>4, <2>7, <2>8 DEF ChainKnown
<1> QED
  BY <1>1, <1>3, <1>4

LEMMA NewSourceFields ==
  ASSUME Well, NEW e \in Events, NEW a, NewSource(e, a) \in Source
  PROVE  LET x == NewSource(e, a)
             s == Created("sources", x)
         IN /\ x.id = New /\ x.address = a /\ x.type = SourceType(Kind(e))
            /\ s.sources = server.sources \cup {x}
            /\ s.tgroups = server.tgroups /\ s.targets = server.targets
            /\ s.sgroups = server.sgroups /\ s.alerts = server.alerts
<1>1. server \in Service
  BY DEF Well, TypeOK
<1>2. /\ NewSource(e, a).id = New /\ NewSource(e, a).address = a
      /\ NewSource(e, a).type = SourceType(Kind(e))
  BY DEF NewSource
<1> QED
  BY <1>1, <1>2, CreatedSource

LEMMA ChainKnownCreateSource ==
  ASSUME ChainWell, NEW t \in Tasks, NEW a \in Addresses \cup {None}, CreateSource(t, a)
  PROVE  ChainKnown(t)'
<1> DEFINE e == tasks[t].e
           x == NewSource(e, a)
<1>0. /\ Well /\ TypeOK /\ tasks[t].op = "alert" /\ e \in Events
      /\ Kind(e) # "label" /\ (tasks[t].chain = "rest" => tasks[t].rejected)
      /\ tasks[t].pc = "gather" /\ "chain" \in tasks[t].waits
  BY ChainTask DEF ChainWell, Well, CreateSource, At, Waits
<1>1. /\ Gathers(t, "chain") /\ a \in tasks[t].missing /\ x \in Source
      /\ \/ /\ tasks[t].chain = "create"
            /\ server' = Created("sources", x)
            /\ tasks'[t].waits = tasks[t].waits
            /\ tasks'[t].sources = tasks[t].sources \cup {New}
            /\ tasks'[t].missing = tasks[t].missing \ {a}
            /\ tasks'[t].chain = IF tasks[t].missing \ {a} = {} THEN "groups" ELSE "create"
         \/ tasks'[t].rejected
  BY <1>0, CreateSourceDoes
<1>2. /\ x.id = New /\ x.address = a /\ x.type = SourceType(Kind(e))
      /\ Created("sources", x).sources = server.sources \cup {x}
  BY <1>0, <1>1, NewSourceFields
<1>3. /\ tasks'[t].op = "alert" /\ tasks'[t].e = e /\ config' = config
      /\ tasks[t].rejected => tasks'[t].rejected
  BY <1>0, <1>1 DEF Gathers, AskedSame, OnlyMoves
<1> HIDE DEF x
<1>4. CASE tasks'[t].rejected
  BY <1>4 DEF ChainKnown
<1>5. CASE /\ tasks[t].chain = "create" /\ ~tasks'[t].rejected
           /\ server' = Created("sources", x)
           /\ tasks'[t].waits = tasks[t].waits
           /\ tasks'[t].sources = tasks[t].sources \cup {New}
           /\ tasks'[t].missing = tasks[t].missing \ {a}
           /\ tasks'[t].chain = IF tasks[t].missing \ {a} = {} THEN "groups" ELSE "create"
  <2> DEFINE A == config[e].addresses
             S == tasks[t].sources
             M == tasks[t].missing
  <2>1. Covers(t) /\ M \subseteq A /\ a \in M
    BY <1>0, <1>1, <1>3, <1>5 DEF ChainWell, ChainKnown
  <2>2. server'.sources = server.sources \cup {x}
    BY <1>2, <1>5
  <2>3. \A d : Ids(Fitting(e, d)) \subseteq Ids(Fitting(e, d))'
    BY <1>3, <2>2, FittingGrows
  <2>4. New \in Ids(Fitting(e, a))'
    BY <1>2, <1>3, <2>2 DEF Ids, Fitting, OfType, Kind
  <2>5. ASSUME NEW d \in A \ (M \ {a}) PROVE Ids(Fitting(e, d))' \cap (S \cup {New}) # {}
    <3>1. CASE d = a
      BY <2>4, <3>1
    <3>2. CASE d # a
      BY <2>1, <2>3, <2>5, <3>2 DEF Covers
    <3> QED
      BY <3>1, <3>2
  <2>6. S \subseteq UNION {Ids(Fitting(e, d)) : d \in A} =>
          S \cup {New} \subseteq UNION {Ids(Fitting(e, d))' : d \in A}
    BY <2>1, <2>3, <2>4
  <2>7. Covers(t)' <=>
          /\ \A d \in A \ (M \ {a}) : Ids(Fitting(e, d))' \cap (S \cup {New}) # {}
          /\ S \cup {New} \subseteq UNION {Ids(Fitting(e, d))' : d \in A} \/ Kind(e)' = "priceChange"
    BY <1>3, <1>5 DEF Covers
  <2>8. Kind(e)' = Kind(e)
    BY <1>3 DEF Kind
  <2>9. Covers(t)'
    BY <2>1, <2>5, <2>6, <2>7, <2>8 DEF Covers
  <2> QED
    BY <1>0, <1>3, <1>5, <2>1, <2>9 DEF ChainKnown
<1> QED
  BY <1>1, <1>4, <1>5

LEMMA ChainKnownGroup ==
  ASSUME ChainWell, NEW t \in Tasks, ReadSourceGroups(t) \/ PutSourceGroup(t)
  PROVE  ChainKnown(t)'
<1>0. Well /\ TypeOK /\ tasks[t].op = "alert" /\ tasks[t].e \in Events
  BY ChainTask DEF ChainWell, Well, ReadSourceGroups, PutSourceGroup, At, Waits
<1>1. /\ Gathers(t, "chain") /\ tasks[t].chain \in {"groups", "put"}
      /\ tasks'[t].missing = tasks[t].missing /\ tasks'[t].sources = tasks[t].sources
      /\ server'.sources = server.sources
  <2>1. CASE ReadSourceGroups(t)
    BY <1>0, <2>1, ReadSourceGroupsDoes
  <2>2. CASE PutSourceGroup(t)
    <3>1. /\ Gathers(t, "chain") /\ tasks[t].chain = "put"
          /\ tasks'[t].missing = tasks[t].missing /\ tasks'[t].sources = tasks[t].sources
          /\ NewSourceGroup(tasks[t]) \in SourceGroup
          /\ server' \in {server, WithSourceGroup(tasks[t])}
      BY <1>0, <2>2, PutSourceGroupDoes
    <3>2. server'.sources = server.sources
      BY <1>0, <3>1, WithSourceGroupFields
    <3> QED
      BY <3>1, <3>2
  <2> QED
    BY <2>1, <2>2
<1>2. /\ tasks'[t].e = tasks[t].e /\ config' = config /\ tasks[t].pc = "gather"
      /\ tasks[t].rejected => tasks'[t].rejected
  BY <1>1 DEF Gathers, AskedSame, OnlyMoves
<1>3. Covers(t) => Covers(t)'
  BY <1>1, <1>2, CoversKept
<1> QED
  BY <1>0, <1>1, <1>2, <1>3 DEF ChainWell, ChainKnown

LEMMA ChainKnownBeside ==
  ASSUME ChainWell, NEW t \in Tasks, NEW b, BesideChain(t, b)
  PROVE  ChainKnown(t)'
BY ChainKnownKept DEF BesideChain, Gathers, AskedSame, OnlyMoves

LEMMA ChainKnownConclude ==
  ASSUME ChainWell, NEW t \in Tasks, Conclude(t) \/ Close(t)
  PROVE  ChainKnown(t)'
<1>1. /\ OnlyMoves(t) /\ tasks[t].pc # "idle" /\ ConcludesAs(t)
      /\ server'.sources = server.sources
  BY ConcludeAlerts, ConcludeTargets DEF ChainWell
<1>2. CASE tasks'[t] = Idle
  BY <1>2, IdleType DEF ChainKnown
<1>3. CASE \E pc \in {"put", "create", "delete"} : GoesTo(t, pc)
  BY <1>1, <1>3, ChainKnownKept DEF GoesTo, OnlyMoves
<1> QED
  BY <1>1, <1>2, <1>3 DEF ConcludesAs

LEMMA ChainKnownFresh ==
  ASSUME Well, NEW t \in Tasks, Fresh(tasks'[t]), config' = config
  PROVE  ChainKnown(t)'
BY DEF Fresh, ChainKnown, Kind

LEMMA InitChainWell ==
  ASSUME Init
  PROVE  ChainWell
<1>1. \A t \in Tasks : tasks[t] = Idle
  BY DEF Init
<1> QED
  BY <1>1, InitWell, IdleType DEF ChainWell, ChainKnown

LEMMA StepChainWell ==
  ASSUME ChainWell, [Next]_vars
  PROVE  ChainWell'
<1>0. Well /\ TypeOK /\ Well'
  BY StepWell DEF ChainWell, Well
<1>1. ASSUME NEW u \in Tasks, Keeps(u), server.sources \subseteq server'.sources, config' = config
      PROVE  ChainKnown(u)'
  BY <1>1, ChainKnownKept DEF Keeps
<1>2. ASSUME NEW t \in Tasks, Start(t) PROVE ChainWell'
  <2>1. /\ UNCHANGED <<config, server>> /\ Fresh(tasks'[t]) /\ \A u \in Tasks \ {t} : Keeps(u)
    BY <1>0, <1>2, StartDoes, StartedKeep
  <2>2. ChainKnown(t)'
    BY <1>0, <2>1, ChainKnownFresh
  <2> QED
    BY <1>0, <1>1, <2>1, <2>2 DEF ChainWell
<1>3. ASSUME NEW t \in Tasks, Steps(t) PROVE ChainWell'
  <2>1. /\ server.sources \subseteq server'.sources /\ config' = config
        /\ \A u \in Tasks \ {t} : Keeps(u)
    BY <1>0, <1>3, StepGrows, StepsMove, OthersKeep DEF OnlyMoves, Grows
  <2>2. ChainKnown(t)'
    BY <1>0, <1>3, BranchChain, ChainKnownBeside, ChainKnownReadSources, ChainKnownCreateSource,
       ChainKnownGroup, ChainKnownConclude DEF Steps
  <2> QED
    BY <1>0, <1>1, <2>1, <2>2 DEF ChainWell
<1>4. CASE UNCHANGED vars
  BY <1>0, <1>4 DEF vars, ChainWell, ChainKnown, Covers, Fitting, OfType, Kind, Ids
<1> QED
  BY <1>2, <1>3, <1>4 DEF Next, Steps

-----------------------------------------------------------------------------
(* What an operation that nothing overlaps knows of the service. *)

\* The target group is the one it has read, or there is none.
AloneGroup(t) ==
  LET r == tasks[t] IN
  r.alone /\ r.op # "unsubscribe" /\ "tgroups" \notin r.waits /\ ~r.rejected =>
    IF r.tgroup = None THEN server.tgroups = {} ELSE r.tgroup \in server.tgroups

\* The targets it creates are not there.
AloneTargets(t) ==
  LET r == tasks[t] IN
  r.alone =>
    \A c \in r.creating \cap r.waits : \A x \in server.targets : x.channel = c => x.value # r.want[c]

\* Nor are the sources; the source group is as it has read or written it.
AloneChain(t) ==
  LET r == tasks[t] IN
  r.alone /\ r.op = "alert" =>
    /\ "chain" \in r.waits /\ r.chain \in {"create", "rest"} =>
         r.missing \subseteq config[r.e].addresses /\ \A a \in r.missing : Fitting(r.e, a) = {}
    /\ "chain" \in r.waits /\ r.chain = "put" =>
         IF r.sgroup = None THEN \A g \in server.sgroups : g.name # r.e
         ELSE \E g \in server.sgroups : g.id = r.sgroup /\ g.name = r.e
    /\ "chain" \notin r.waits /\ ~r.rejected =>
         \E g \in server.sgroups : g.id = r.sgroup /\ g.sources = r.sources

AloneWell ==
  AlertsWell /\ TargetsWell /\ ChainWell /\ \A t \in Tasks : AloneGroup(t) /\ AloneTargets(t) /\ AloneChain(t)

LEMMA BranchGroups ==
  ASSUME Well, NEW t \in Tasks, Branch(t), ~ReadTargetGroups(t)
  PROVE  /\ \E b : Gathers(t, b) /\ b # "tgroups"
         /\ tasks'[t].tgroup = tasks[t].tgroup /\ server'.tgroups = server.tgroups
<1>0. TypeOK
  BY DEF Well
<1> DEFINE Goal == /\ \E b : Gathers(t, b) /\ b # "tgroups"
                   /\ tasks'[t].tgroup = tasks[t].tgroup /\ server'.tgroups = server.tgroups
<1>1. ASSUME ReadAlerts(t) PROVE Goal
  BY <1>0, <1>1, ReadAlertsDoes
<1>2. ASSUME NEW c \in Channels, FindTarget(t, c) PROVE Goal
  BY <1>0, <1>2, FindTargetDoes, FrontendEnsureAssumption
<1>3. ASSUME NEW c \in Channels, CreateTarget(t, c) PROVE Goal
  <2>1. /\ tasks[t].want[c] # None
        /\ Created("targets", NewTarget(tasks[t], c)).tgroups = server.tgroups
    BY <1>3, NewTargetFields
  <2>2. /\ Gathers(t, c) /\ tasks'[t].tgroup = tasks[t].tgroup
        /\ server' \in {server, Created("targets", NewTarget(tasks[t], c))}
    BY <1>0, <1>3, <2>1, CreateTargetDoes
  <2> QED
    BY <2>1, <2>2, FrontendEnsureAssumption
<1>4. ASSUME ReadSources(t) PROVE Goal
  <2>1. tasks[t].e \in Events
    BY <1>4, ChainTask DEF ReadSources, At, Waits
  <2>2. Gathers(t, "chain") /\ tasks'[t].tgroup = tasks[t].tgroup /\ UNCHANGED server
    BY <1>0, <1>4, <2>1, ReadSourcesDoes
  <2> QED
    BY <2>2
<1>5. ASSUME NEW a \in Addresses \cup {None}, CreateSource(t, a) PROVE Goal
  <2>1. /\ tasks[t].e \in Events /\ Kind(tasks[t].e) # "label"
        /\ tasks[t].chain = "rest" => tasks[t].rejected
    BY <1>5, ChainTask DEF CreateSource, At, Waits
  <2>2. /\ Gathers(t, "chain") /\ tasks'[t].tgroup = tasks[t].tgroup
        /\ NewSource(tasks[t].e, a) \in Source
        /\ server' \in {server, Created("sources", NewSource(tasks[t].e, a))}
    BY <1>0, <1>5, <2>1, CreateSourceDoes
  <2>3. server'.tgroups = server.tgroups
    BY <2>1, <2>2, NewSourceFields
  <2> QED
    BY <2>2, <2>3
<1>6. ASSUME ReadSourceGroups(t) PROVE Goal
  BY <1>0, <1>6, ReadSourceGroupsDoes
<1>7. ASSUME PutSourceGroup(t) PROVE Goal
  <2>1. tasks[t].e \in Events
    BY <1>7, ChainTask DEF PutSourceGroup, At, Waits
  <2>2. /\ Gathers(t, "chain") /\ tasks'[t].tgroup = tasks[t].tgroup
        /\ NewSourceGroup(tasks[t]) \in SourceGroup
        /\ server' \in {server, WithSourceGroup(tasks[t])}
    BY <1>0, <1>7, <2>1, PutSourceGroupDoes
  <2>3. server'.tgroups = server.tgroups
    BY <2>2, WithSourceGroupFields
  <2> QED
    BY <2>2, <2>3
<1> QED
  BY <1>1, <1>2, <1>3, <1>4, <1>5, <1>6, <1>7 DEF Branch

LEMMA ConcludeGroups ==
  ASSUME Well, NEW t \in Tasks, Conclude(t) \/ Close(t)
  PROVE  tasks'[t] = Idle \/ server'.tgroups = server.tgroups
<1>0. TypeOK
  BY DEF Well
<1>1. CASE Throws(t) \/ PutTargetGroup(t) \/ CreateAlert(t) \/ Close(t)
  BY <1>0, <1>1, ThrowsDoes, PutTargetGroupDoes, CreateAlertDoes, CloseDoes, NewAlertType DEF CreateAlert
<1>2. CASE TargetGroupGathered(t) \/ AlertGathered(t) \/ UnsubscribeGathered(t)
  BY <1>0, <1>2, TargetGroupGatheredDoes, AlertGatheredDoes, UnsubscribeGatheredDoes
<1>3. CASE DeleteAlert(t)
  <2>1. server' \in {server, Without(tasks[t].alert)}
    BY <1>0, <1>3, DeleteAlertDoes
  <2> QED
    BY <1>0, <2>1, WithoutFields
<1> QED
  BY <1>1, <1>2, <1>3 DEF Conclude

\* An operation that has gathered goes on with what it has gathered.
GoesOn(t) == \E pc \in {"put", "create", "delete"} : GoesTo(t, pc)

LEMMA ConcludeGoes ==
  ASSUME Well, NEW t \in Tasks, Conclude(t) \/ Close(t)
  PROVE  tasks'[t] = Idle \/ GoesOn(t)
BY ConcludeAlerts DEF ConcludesAs, GoesOn

LEMMA AloneGroupStep ==
  ASSUME AloneWell, NEW t \in Tasks, Steps(t)
  PROVE  AloneGroup(t)'
<1>0. Well /\ TypeOK /\ AloneGroup(t)
  BY DEF AloneWell, AlertsWell, Well
<1>1. CASE ReadTargetGroups(t)
  <2>1. /\ Gathers(t, "tgroups") /\ UNCHANGED server
        /\ tasks'[t].rejected \/ tasks'[t].tgroup \in Found(server.tgroups)
    BY <1>0, <1>1, ReadTargetGroupsDoes
  <2>2. tasks'[t].tgroup \in Found(server.tgroups) =>
          IF tasks'[t].tgroup = None THEN server.tgroups = {} ELSE tasks'[t].tgroup \in server.tgroups
    BY <1>0, NoneAssumption DEF Found, TypeOK, Service
  <2> QED
    BY <2>1, <2>2 DEF AloneGroup
<1>2. CASE Branch(t) /\ ~ReadTargetGroups(t)
  <2>1. /\ \E b : Gathers(t, b) /\ b # "tgroups"
        /\ tasks'[t].tgroup = tasks[t].tgroup /\ server'.tgroups = server.tgroups
    BY <1>0, <1>2, BranchGroups
  <2> QED
    BY <1>0, <2>1 DEF AloneGroup, Gathers, AskedSame
<1>3. CASE tasks'[t] = Idle
  BY <1>3, IdleType DEF AloneGroup
<1>4. CASE GoesOn(t) /\ server'.tgroups = server.tgroups
  BY <1>0, <1>4 DEF AloneGroup, GoesOn, GoesTo
<1> QED
  BY <1>0, <1>1, <1>2, <1>3, <1>4, ConcludeGroups, ConcludeGoes DEF Steps

LEMMA AloneTargetsStep ==
  ASSUME AloneWell, NEW t \in Tasks, Steps(t)
  PROVE  AloneTargets(t)'
<1>0. Well /\ TypeOK /\ AloneTargets(t)
  BY DEF AloneWell, AlertsWell, Well
<1>1. ASSUME NEW b, Beside(t, b) PROVE AloneTargets(t)'
  BY <1>0, <1>1 DEF AloneTargets, Beside, Gathers, AskedSame, TargetsSame
<1>2. ASSUME NEW c \in Channels, FindTarget(t, c) PROVE AloneTargets(t)'
  <2>1. /\ Gathers(t, c) /\ UNCHANGED server
        /\ \/ /\ tasks'[t].creating = tasks[t].creating \cup {c}
              /\ \A y \in server.targets : ~(y.channel = c /\ y.value = tasks[t].want[c])
           \/ tasks'[t].creating = tasks[t].creating
    BY <1>0, <1>2, FindTargetDoes DEF TargetsSame
  <2> QED
    BY <1>0, <2>1 DEF AloneTargets, Gathers, AskedSame
<1>3. ASSUME NEW c \in Channels, CreateTarget(t, c) PROVE AloneTargets(t)'
  <2> DEFINE x == NewTarget(tasks[t], c)
  <2>1. /\ x.channel = c /\ tasks[t].want[c] # None
        /\ Created("targets", x).targets = server.targets \cup {x}
    BY <1>0, <1>3, NewTargetFields
  <2>2. /\ Gathers(t, c) /\ tasks'[t].waits = tasks[t].waits \ {c}
        /\ tasks'[t].creating = tasks[t].creating /\ server' \in {server, Created("targets", x)}
    BY <1>0, <1>3, <2>1, CreateTargetDoes
  <2> HIDE DEF x
  <2>3. server'.targets \in {server.targets, server.targets \cup {x}}
    BY <2>1, <2>2
  <2> QED
    BY <1>0, <2>1, <2>2, <2>3 DEF AloneTargets, Gathers, AskedSame
<1>4. CASE tasks'[t] = Idle
  BY <1>4, IdleType DEF AloneTargets
<1>5. CASE GoesOn(t) /\ server'.targets = server.targets
  BY <1>0, <1>5 DEF AloneTargets, GoesOn, GoesTo, TargetsSame
<1> QED
  BY <1>0, <1>1, <1>2, <1>3, <1>4, <1>5, BranchTargets, ConcludeTargets, ConcludeGoes DEF Steps

LEMMA AloneChainStep ==
  ASSUME AloneWell, NEW t \in Tasks, Steps(t)
  PROVE  AloneChain(t)'
<1> DEFINE e == tasks[t].e
<1>0. Well /\ TypeOK /\ AloneChain(t) /\ ChainKnown(t)
  BY DEF AloneWell, AlertsWell, ChainWell, Well
<1>1. ASSUME NEW b, BesideChain(t, b) PROVE AloneChain(t)'
  BY <1>0, <1>1 DEF AloneChain, BesideChain, Gathers, AskedSame, ChainSame, OnlyMoves,
                    Fitting, OfType, Kind
<1>2. ASSUME ReadSources(t) PROVE AloneChain(t)'
  <2>1. tasks[t].e \in Events /\ "chain" \in tasks[t].waits
    BY <1>0, <1>2, ChainTask DEF ReadSources, At, Waits
  <2>2. /\ Gathers(t, "chain") /\ UNCHANGED server
        /\ \/ tasks'[t].waits = tasks[t].waits \ {"chain"} /\ tasks'[t].rejected
           \/ /\ tasks'[t].waits = tasks[t].waits /\ tasks'[t].missing = Lacking(e)
              /\ tasks'[t].chain \in {"groups", "create"}
    BY <1>0, <1>2, <2>1, ReadSourcesDoes
  <2>3. Lacking(e) \subseteq config[e].addresses /\ \A a \in Lacking(e) : Fitting(e, a) = {}
    BY DEF Lacking
  <2> QED
    BY <2>1, <2>2, <2>3 DEF AloneChain, Gathers, AskedSame, OnlyMoves, Fitting, OfType, Kind
<1>3. ASSUME ReadSourceGroups(t) PROVE AloneChain(t)'
  <2>1. /\ Gathers(t, "chain") /\ UNCHANGED server /\ tasks'[t].sources = tasks[t].sources
        /\ \/ tasks'[t].waits = tasks[t].waits \ {"chain"} /\ tasks'[t].rejected
           \/ /\ tasks'[t].waits = tasks[t].waits /\ tasks'[t].chain = "put"
              /\ \E g \in Found({x \in server.sgroups : x.name = e}) :
                   tasks'[t].sgroup = IF g = None THEN None ELSE g.id
           \/ /\ tasks'[t].waits = tasks[t].waits \ {"chain"}
              /\ \E g \in server.sgroups : g.sources = tasks[t].sources /\ tasks'[t].sgroup = g.id
    BY <1>0, <1>3, ReadSourceGroupsDoes
  <2>2. tasks'[t].op = tasks[t].op /\ tasks'[t].e = e /\ "chain" \in tasks[t].waits
    BY <2>1 DEF Gathers, AskedSame
  <2>3. CASE tasks'[t].waits = tasks[t].waits \ {"chain"} /\ tasks'[t].rejected
    BY <2>3 DEF AloneChain
  <2>4. CASE /\ tasks'[t].waits = tasks[t].waits /\ tasks'[t].chain = "put"
             /\ \E g \in Found({x \in server.sgroups : x.name = e}) :
                  tasks'[t].sgroup = IF g = None THEN None ELSE g.id
    <3>1. PICK g \in Found({x \in server.sgroups : x.name = e}) :
            tasks'[t].sgroup = IF g = None THEN None ELSE g.id
      BY <2>4
    <3>2. \A x \in server.sgroups : x # None /\ x.id # None
      BY <1>0, NoneAssumption DEF TypeOK, Service, SourceGroup
    <3>3. IF tasks'[t].sgroup = None THEN \A x \in server.sgroups : x.name # e
          ELSE \E x \in server.sgroups : x.id = tasks'[t].sgroup /\ x.name = e
      BY <3>1, <3>2 DEF Found
    <3> QED
      BY <2>1, <2>2, <2>4, <3>3 DEF AloneChain
  <2>5. CASE /\ tasks'[t].waits = tasks[t].waits \ {"chain"}
             /\ \E g \in server.sgroups : g.sources = tasks[t].sources /\ tasks'[t].sgroup = g.id
    BY <2>1, <2>2, <2>5 DEF AloneChain
  <2> QED
    BY <2>1, <2>3, <2>4, <2>5
<1>4. ASSUME PutSourceGroup(t) PROVE AloneChain(t)'
  <2> DEFINE x == NewSourceGroup(tasks[t])
  <2>1. tasks[t].e \in Events
    BY <1>0, <1>4, ChainTask DEF PutSourceGroup, At, Waits
  <2>2. /\ Gathers(t, "chain") /\ tasks'[t].waits = tasks[t].waits \ {"chain"}
        /\ x \in SourceGroup /\ tasks'[t].sources = tasks[t].sources
        /\ \/ tasks'[t].rejected
           \/ server' = WithSourceGroup(tasks[t]) /\ tasks'[t].sgroup = x.id
    BY <1>0, <1>4, <2>1, PutSourceGroupDoes
  <2>3. x \in WithSourceGroup(tasks[t]).sgroups /\ x.sources = tasks[t].sources
    BY <1>0, <2>2, WithSourceGroupFields DEF NewSourceGroup
  <2> QED
    BY <2>2, <2>3 DEF AloneChain
<1>5. ASSUME NEW a \in Addresses \cup {None}, CreateSource(t, a) PROVE AloneChain(t)'
  <2> DEFINE x == NewSource(e, a)
  <2>1. /\ e \in Events /\ Kind(e) # "label" /\ (tasks[t].chain = "rest" => tasks[t].rejected)
        /\ tasks[t].op = "alert" /\ "chain" \in tasks[t].waits /\ tasks[t].chain \in {"create", "rest"}
    BY <1>0, <1>5, ChainTask DEF CreateSource, At, Waits
  <2>2. /\ Gathers(t, "chain") /\ a \in tasks[t].missing /\ x \in Source
        /\ server' \in {server, Created("sources", x)}
        /\ \/ tasks'[t].waits = tasks[t].waits \ {"chain"} /\ tasks'[t].rejected
           \/ /\ tasks'[t].waits = tasks[t].waits
              /\ tasks'[t].missing = tasks[t].missing \ {a}
              /\ tasks'[t].chain \in {"groups", "create", "rest"}
    BY <1>0, <1>5, <2>1, CreateSourceDoes
  <2>3. x.address = a /\ Created("sources", x).sources = server.sources \cup {x}
    BY <1>0, <2>1, <2>2, NewSourceFields
  <2> HIDE DEF x
  <2>4. /\ tasks'[t].op = tasks[t].op /\ tasks'[t].e = e /\ config' = config
        /\ tasks'[t].alone = tasks[t].alone
    BY <2>2 DEF Gathers, AskedSame, OnlyMoves
  <2>5. CASE tasks'[t].waits = tasks[t].waits \ {"chain"} /\ tasks'[t].rejected
    BY <2>2, <2>5 DEF AloneChain
  <2>6. ASSUME tasks[t].alone, NEW d \in tasks[t].missing \ {a} PROVE Fitting(e, d)' = {}
    <3>1. Fitting(e, d) = {} /\ d \in config[e].addresses /\ a \in config[e].addresses
      BY <1>0, <2>1, <2>2, <2>6 DEF AloneChain
    <3>2. Kind(e) \notin AnyAddress
      BY <1>0, <2>1, <2>6, <3>1, ConfigFacts DEF TypeOK
    <3>3. server'.sources \in {server.sources, server.sources \cup {x}}
      BY <2>2, <2>3
    <3> QED
      BY <2>3, <2>4, <2>6, <3>1, <3>2, <3>3 DEF Fitting, OfType, Kind
  <2>7. CASE /\ tasks'[t].waits = tasks[t].waits
             /\ tasks'[t].missing = tasks[t].missing \ {a}
             /\ tasks'[t].chain \in {"groups", "create", "rest"}
    <3>1. tasks[t].alone => tasks[t].missing \subseteq config[e].addresses
      BY <1>0, <2>1 DEF AloneChain
    <3>2. tasks[t].alone => \A d \in tasks'[t].missing : Fitting(e, d)' = {}
      BY <2>6, <2>7
    <3>3. AloneChain(t)' <=>
            (tasks'[t].alone /\ tasks'[t].op = "alert" =>
               /\ "chain" \in tasks'[t].waits /\ tasks'[t].chain \in {"create", "rest"} =>
                    /\ tasks'[t].missing \subseteq config[e].addresses
                    /\ \A d \in tasks'[t].missing : Fitting(e, d)' = {}
               /\ "chain" \in tasks'[t].waits /\ tasks'[t].chain = "put" =>
                    IF tasks'[t].sgroup = None THEN \A g \in server'.sgroups : g.name # e
                    ELSE \E g \in server'.sgroups : g.id = tasks'[t].sgroup /\ g.name = e
               /\ "chain" \notin tasks'[t].waits /\ ~tasks'[t].rejected =>
                    \E g \in server'.sgroups : g.id = tasks'[t].sgroup /\ g.sources = tasks'[t].sources)
      BY <2>4 DEF AloneChain
    <3> QED
      BY <2>1, <2>4, <2>7, <3>1, <3>2, <3>3
  <2> QED
    BY <2>2, <2>5, <2>7
<1>6. CASE tasks'[t] = Idle
  BY <1>6, IdleType DEF AloneChain
<1>7. CASE GoesOn(t) /\ server'.sources = server.sources /\ server'.sgroups = server.sgroups /\ config' = config
  BY <1>0, <1>7 DEF AloneChain, GoesOn, GoesTo, ChainSame, Fitting, OfType, Kind
<1> QED
  BY <1>0, <1>1, <1>2, <1>3, <1>4, <1>5, <1>6, <1>7, BranchChain, ConcludeTargets, ConcludeGoes,
     StepsMove DEF Steps, OnlyMoves

LEMMA InitAloneWell ==
  ASSUME Init
  PROVE  AloneWell
<1>1. \A t \in Tasks : tasks[t] = Idle
  BY DEF Init
<1>2. ASSUME NEW t \in Tasks PROVE AloneGroup(t) /\ AloneTargets(t) /\ AloneChain(t)
  BY <1>1, IdleType DEF AloneGroup, AloneTargets, AloneChain
<1> QED
  BY <1>2, InitAlertsWell, InitTargetsWell, InitChainWell DEF AloneWell

LEMMA AloneStart ==
  ASSUME AloneWell, NEW t \in Tasks, Start(t), NEW u \in Tasks
  PROVE  AloneGroup(u)' /\ AloneTargets(u)' /\ AloneChain(u)'
<1>1. TypeOK
  BY DEF AloneWell, AlertsWell, Well
<1>2. Fresh(tasks'[t]) /\ \A v \in Tasks \ {t} : ~tasks'[v].alone
  BY <1>1, StartDoes, StartedKeep
<1>3. CASE u = t
  BY <1>2, <1>3 DEF Fresh, AloneGroup, AloneTargets, AloneChain
<1>4. CASE u # t
  BY <1>2, <1>4 DEF AloneGroup, AloneTargets, AloneChain
<1> QED
  BY <1>3, <1>4

LEMMA StepAloneWell ==
  ASSUME AloneWell, [Next]_vars
  PROVE  AloneWell'
<1>1. AlertsWell' /\ TargetsWell' /\ ChainWell'
  BY StepAlertsWell, StepTargetsWell, StepChainWell DEF AloneWell
<1>2. ASSUME NEW u \in Tasks PROVE AloneGroup(u)' /\ AloneTargets(u)' /\ AloneChain(u)'
  <2>1. ASSUME NEW t \in Tasks, Start(t) PROVE AloneGroup(u)' /\ AloneTargets(u)' /\ AloneChain(u)'
    BY <2>1, AloneStart
  <2>2. ASSUME NEW t \in Tasks, Steps(t) PROVE AloneGroup(u)' /\ AloneTargets(u)' /\ AloneChain(u)'
    <3>1. CASE u = t
      BY <2>2, <3>1, AloneGroupStep, AloneTargetsStep, AloneChainStep
    <3>2. CASE u # t
      <4>1. ~tasks'[u].alone
        BY <2>2, <3>2, OthersNotAlone DEF AloneWell, AlertsWell
      <4> QED
        BY <4>1 DEF AloneGroup, AloneTargets, AloneChain
    <3> QED
      BY <3>1, <3>2
  <2>3. CASE UNCHANGED vars
    <3>1. AloneGroup(u) /\ AloneTargets(u) /\ AloneChain(u)
      BY DEF AloneWell
    <3> QED
      BY <2>3, <3>1 DEF vars, AloneGroup, AloneTargets, AloneChain, Fitting, OfType, Kind
  <2> QED
    BY <2>1, <2>2, <2>3 DEF Next, Steps
<1> QED
  BY <1>1, <1>2 DEF AloneWell

-----------------------------------------------------------------------------
(* No twins. *)

NamesUnique == \A a, b \in server.alerts : a.name = b.name => a = b
GroupNamesUnique == \A g, h \in server.sgroups : g.name = h.name => g = h
SourcesUnique == \A s, u \in server.sources : s.type = u.type /\ s.address = u.address => s = u
TargetsUnique == \A x, y \in server.targets : x.channel = y.channel /\ x.value = y.value => x = y
OneTargetGroup == \A g, h \in server.tgroups : g = h
Unique == NamesUnique /\ GroupNamesUnique /\ SourcesUnique /\ TargetsUnique /\ OneTargetGroup

\* Every operation is alone, and creates an alert where there is none.
Undisturbed ==
  \A t \in Tasks :
    /\ tasks[t].pc # "idle" => tasks[t].alone
    /\ tasks[t].pc = "create" => \A a \in server.alerts : a.name # tasks[t].e

Twinless == AloneWell /\ (~overlap => Undisturbed /\ Unique)

\* The alert that was found, and is deleted, was the only one of its name.
LEMMA RemainingNames ==
  ASSUME AloneWell, NEW t \in Tasks, tasks[t].alone, tasks[t].pc = "delete", NamesUnique,
         tasks[t].op = "alert"
  PROVE  \A a \in Remaining(t) : a.name # tasks[t].e
<1>1. tasks[t].alert # None /\ tasks[t].alert \in server.alerts /\ tasks[t].alert.name = tasks[t].e
  BY DEF AloneWell, AlertsWell, Well, Protocol, AloneAlert, AlertKnown
<1> QED
  BY <1>1 DEF Remaining, NamesUnique

LEMMA UndisturbedStep ==
  ASSUME AloneWell, NEW t \in Tasks, Steps(t), Undisturbed, NamesUnique
  PROVE  Undisturbed'
<1>1. Well /\ OnlyOne(t) /\ AloneAlert(t)
  BY DEF AloneWell, AlertsWell
<1>2. tasks[t].alone /\ OthersStay(t) /\ \A u \in Tasks \ {t} : tasks[u].pc = "idle"
  BY <1>1, StepsMove DEF Undisturbed, OnlyOne, OnlyMoves
<1>3. tasks'[t].pc # "idle" => tasks'[t].alone
  BY <1>1, <1>2, StepsAs, IdleType
<1>4. tasks'[t].pc = "create" => \A a \in server'.alerts : a.name # tasks'[t].e
  <2>1. CASE Branch(t)
    BY <1>1, <2>1, BranchAlerts DEF AskedSame
  <2>2. CASE tasks'[t] = Idle
    BY <2>2, IdleType
  <2>3. CASE GoesTo(t, "put") \/ GoesTo(t, "delete")
    BY <2>3 DEF GoesTo
  <2>4. CASE /\ GoesTo(t, "create") /\ tasks[t].pc = "gather" /\ tasks[t].waits = {}
             /\ ~tasks[t].rejected /\ tasks[t].op = "alert" /\ tasks[t].alert = None
             /\ server' = server
    BY <1>1, <1>2, <2>4 DEF AloneAlert, GoesTo
  <2>5. CASE /\ GoesTo(t, "create") /\ tasks[t].pc = "delete" /\ tasks[t].op = "alert"
             /\ server'.alerts = Remaining(t)
    BY <1>2, <2>5, RemainingNames DEF GoesTo
  <2> QED
    BY <1>1, <2>1, <2>2, <2>3, <2>4, <2>5, ConcludeAlerts DEF Steps, ConcludesAs
<1> QED
  BY <1>2, <1>3, <1>4 DEF Undisturbed, OthersStay

LEMMA NamesUniqueStep ==
  ASSUME AloneWell, NEW t \in Tasks, Steps(t), Undisturbed, NamesUnique
  PROVE  NamesUnique'
<1>1. Well
  BY DEF AloneWell, AlertsWell
<1>2. CASE server'.alerts = server.alerts \/ server'.alerts = Remaining(t)
  BY <1>2 DEF NamesUnique, Remaining
<1>3. CASE tasks[t].pc = "create" /\ server'.alerts = server.alerts \cup {NewAlert(tasks[t])}
  BY <1>3, NewAlertFields DEF NamesUnique, Undisturbed
<1> QED
  BY <1>1, <1>2, <1>3, StepsAlerts DEF AlertsMove

LEMMA TargetsUniqueStep ==
  ASSUME AloneWell, NEW t \in Tasks, Steps(t), Undisturbed, TargetsUnique
  PROVE  TargetsUnique'
<1>1. Well /\ TypeOK /\ AloneTargets(t) /\ tasks[t].alone
  BY StepsMove DEF AloneWell, AlertsWell, Well, Undisturbed
<1>2. ASSUME NEW c \in Channels, CreateTarget(t, c) PROVE TargetsUnique'
  <2> DEFINE x == NewTarget(tasks[t], c)
  <2>1. /\ x.channel = c /\ x.value = tasks[t].want[c] /\ tasks[t].want[c] # None
        /\ Created("targets", x).targets = server.targets \cup {x}
    BY <1>1, <1>2, NewTargetFields
  <2>2. server' \in {server, Created("targets", x)}
    BY <1>1, <1>2, <2>1, CreateTargetDoes
  <2>3. \A y \in server.targets : ~(y.channel = x.channel /\ y.value = x.value)
    BY <1>1, <1>2, <2>1 DEF AloneTargets, CreateTarget, Waits
  <2> HIDE DEF x
  <2> QED
    BY <2>1, <2>2, <2>3 DEF TargetsUnique
<1>3. CASE \E c \in Channels : FindTarget(t, c)
  BY <1>1, <1>3, FindTargetDoes DEF TargetsUnique
<1>4. CASE server'.targets = server.targets
  BY <1>4 DEF TargetsUnique
<1> QED
  BY <1>1, <1>2, <1>3, <1>4, BranchTargets, ConcludeTargets DEF Steps, Beside

LEMMA SourcesUniqueStep ==
  ASSUME AloneWell, NEW t \in Tasks, Steps(t), Undisturbed, SourcesUnique
  PROVE  SourcesUnique'
<1>1. Well /\ TypeOK /\ AloneChain(t) /\ tasks[t].alone
  BY StepsMove DEF AloneWell, AlertsWell, Well, Undisturbed
<1>2. ASSUME NEW a \in Addresses \cup {None}, CreateSource(t, a) PROVE SourcesUnique'
  <2> DEFINE e == tasks[t].e
             x == NewSource(e, a)
  <2>1. /\ e \in Events /\ Kind(e) # "label" /\ (tasks[t].chain = "rest" => tasks[t].rejected)
        /\ tasks[t].op = "alert" /\ "chain" \in tasks[t].waits /\ tasks[t].chain \in {"create", "rest"}
    BY <1>1, <1>2, ChainTask DEF CreateSource, At, Waits
  <2>2. a \in tasks[t].missing /\ x \in Source /\ server' \in {server, Created("sources", x)}
    BY <1>1, <1>2, <2>1, CreateSourceDoes
  <2>3. /\ x.address = a /\ x.type = SourceType(Kind(e))
        /\ Created("sources", x).sources = server.sources \cup {x}
    BY <1>1, <2>1, <2>2, NewSourceFields
  <2>4. Fitting(e, a) = {}
    BY <1>1, <2>1, <2>2 DEF AloneChain
  <2>5. \A s \in server.sources : ~(s.type = x.type /\ s.address = x.address)
    BY <2>3, <2>4 DEF Fitting, OfType
  <2> HIDE DEF x
  <2> QED
    BY <2>2, <2>3, <2>5 DEF SourcesUnique
<1>3. CASE \E b : BesideChain(t, b)
  BY <1>3 DEF SourcesUnique, BesideChain
<1>4. CASE ReadSources(t) \/ ReadSourceGroups(t)
  <2>1. server' = server
    BY <1>4 DEF ReadSources, ReadSourceGroups, Reads
  <2> QED
    BY <2>1 DEF SourcesUnique
<1>5. CASE PutSourceGroup(t)
  <2>1. tasks[t].e \in Events
    BY <1>1, <1>5, ChainTask DEF PutSourceGroup, At, Waits
  <2>2. /\ NewSourceGroup(tasks[t]) \in SourceGroup
        /\ server' \in {server, WithSourceGroup(tasks[t])}
    BY <1>1, <1>5, <2>1, PutSourceGroupDoes
  <2> QED
    BY <1>1, <2>2, WithSourceGroupFields DEF SourcesUnique
<1>6. CASE Conclude(t) \/ Close(t)
  BY <1>1, <1>6, ConcludeTargets DEF SourcesUnique
<1> QED
  BY <1>1, <1>2, <1>3, <1>4, <1>5, <1>6, BranchChain DEF Steps

LEMMA GroupNamesUniqueStep ==
  ASSUME AloneWell, NEW t \in Tasks, Steps(t), Undisturbed, GroupNamesUnique
  PROVE  GroupNamesUnique'
<1>1. Well /\ TypeOK /\ AloneChain(t) /\ tasks[t].alone
  BY StepsMove DEF AloneWell, AlertsWell, Well, Undisturbed
<1>2. ASSUME NEW a \in Addresses \cup {None}, CreateSource(t, a) PROVE GroupNamesUnique'
  <2>1. /\ tasks[t].e \in Events /\ Kind(tasks[t].e) # "label"
        /\ tasks[t].chain = "rest" => tasks[t].rejected
    BY <1>1, <1>2, ChainTask DEF CreateSource, At, Waits
  <2>2. /\ NewSource(tasks[t].e, a) \in Source
        /\ server' \in {server, Created("sources", NewSource(tasks[t].e, a))}
    BY <1>1, <1>2, <2>1, CreateSourceDoes
  <2>3. server'.sgroups = server.sgroups
    BY <1>1, <2>1, <2>2, NewSourceFields
  <2> QED
    BY <2>3 DEF GroupNamesUnique
<1>3. CASE \E b : BesideChain(t, b)
  BY <1>3 DEF GroupNamesUnique, BesideChain
<1>4. CASE ReadSources(t) \/ ReadSourceGroups(t)
  <2>1. server' = server
    BY <1>4 DEF ReadSources, ReadSourceGroups, Reads
  <2> QED
    BY <2>1 DEF GroupNamesUnique
<1>5. CASE PutSourceGroup(t)
  <2> DEFINE x == NewSourceGroup(tasks[t])
             q == tasks[t].sgroup
             e == tasks[t].e
  <2>1. /\ e \in Events /\ tasks[t].op = "alert"
        /\ "chain" \in tasks[t].waits /\ tasks[t].chain = "put"
    BY <1>1, <1>5, ChainTask DEF PutSourceGroup, At, Waits
  <2>2. x \in SourceGroup /\ server' \in {server, WithSourceGroup(tasks[t])}
    BY <1>1, <1>5, <2>1, PutSourceGroupDoes
  <2>3. WithSourceGroup(tasks[t]).sgroups = {y \in server.sgroups : q = None \/ y.id # x.id} \cup {x}
    BY <1>1, <2>2, WithSourceGroupFields
  <2>4. x.name = e /\ (q # None => x.id = q)
    BY DEF NewSourceGroup
  <2>5. IF q = None THEN \A g \in server.sgroups : g.name # e
        ELSE \E g \in server.sgroups : g.id = q /\ g.name = e
    BY <1>1, <2>1 DEF AloneChain
  <2>6. \A y \in {z \in server.sgroups : q = None \/ z.id # x.id} : y.name # x.name
    BY <2>4, <2>5 DEF GroupNamesUnique
  <2> HIDE DEF x
  <2> QED
    BY <2>2, <2>3, <2>6 DEF GroupNamesUnique
<1>6. CASE Conclude(t) \/ Close(t)
  BY <1>1, <1>6, ConcludeTargets DEF GroupNamesUnique
<1> QED
  BY <1>1, <1>2, <1>3, <1>4, <1>5, <1>6, BranchChain DEF Steps

PutGroupEntry(r) == [id |-> IF r.tgroup = None THEN New ELSE r.tgroup.id, targets |-> r.targets]

LEMMA PutGroupFields ==
  ASSUME Well, NEW t \in Tasks
  PROVE  LET r == tasks[t]
             x == PutGroupEntry(r)
         IN /\ x \in TargetGroup /\ x.targets = r.targets /\ (r.tgroup # None => x.id = r.tgroup.id)
            /\ PutGroup(r).targets = server.targets
            /\ PutGroup(r).tgroups = {g \in server.tgroups : r.tgroup = None \/ g.id # x.id} \cup {x}
<1> DEFINE r == tasks[t]
           x == PutGroupEntry(r)
<1>1. /\ server \in Service /\ r.targets \in SUBSET Nat /\ New \in Nat
      /\ r.tgroup # None => r.tgroup.id \in Nat
  BY DEF Well, TypeOK, Operation, TargetGroup, Service, New
<1>2. x \in TargetGroup /\ x.targets = r.targets /\ (r.tgroup # None => x.id = r.tgroup.id)
  BY <1>1 DEF TargetGroup, PutGroupEntry
<1>3. PutGroup(r) = IF r.tgroup = None THEN Created("tgroups", x) ELSE Updated("tgroups", x)
  BY DEF PutGroup, PutGroupEntry
<1> HIDE DEF x
<1>4. CASE r.tgroup = None
  <2>1. PutGroup(r).tgroups = server.tgroups \cup {x} /\ PutGroup(r).targets = server.targets
    BY <1>1, <1>2, <1>3, <1>4, CreatedTargetGroup
  <2> QED
    BY <1>2, <1>4, <2>1 DEF x
<1>5. CASE r.tgroup # None
  <2>1. /\ PutGroup(r).tgroups = {g \in server.tgroups : g.id # x.id} \cup {x}
        /\ PutGroup(r).targets = server.targets
    BY <1>1, <1>2, <1>3, <1>5, UpdatedTargetGroup
  <2> QED
    BY <1>2, <1>5, <2>1 DEF x
<1> QED
  BY <1>4, <1>5

LEMMA OneTargetGroupStep ==
  ASSUME AloneWell, NEW t \in Tasks, Steps(t), Undisturbed, OneTargetGroup
  PROVE  OneTargetGroup'
<1>1. Well /\ TypeOK /\ AloneGroup(t) /\ tasks[t].alone
  BY StepsMove DEF AloneWell, AlertsWell, Well, Undisturbed
<1>2. CASE Branch(t)
  <2>1. CASE ReadTargetGroups(t)
    BY <1>1, <2>1, ReadTargetGroupsDoes DEF OneTargetGroup
  <2>2. CASE ~ReadTargetGroups(t)
    BY <1>1, <1>2, <2>2, BranchGroups DEF OneTargetGroup
  <2> QED
    BY <2>1, <2>2
<1>3. CASE PutTargetGroup(t)
  <2> DEFINE r == tasks[t]
             x == PutGroupEntry(r)
  <2>1. r.pc = "put" /\ server' \in {server, PutGroup(r)}
    BY <1>1, <1>3, PutTargetGroupDoes
  <2>2. r.op = "targetGroup" /\ r.waits = {} /\ ~r.rejected
    BY <1>1, <2>1 DEF Well, Protocol
  <2>3. IF r.tgroup = None THEN server.tgroups = {} ELSE r.tgroup \in server.tgroups
    BY <1>1, <2>2 DEF AloneGroup
  <2>4. /\ PutGroup(r).tgroups = {g \in server.tgroups : r.tgroup = None \/ g.id # x.id} \cup {x}
        /\ r.tgroup # None => x.id = r.tgroup.id
    BY <1>1, PutGroupFields
  <2> HIDE DEF x
  <2>5. {g \in server.tgroups : r.tgroup = None \/ g.id # x.id} = {}
    BY <2>3, <2>4 DEF OneTargetGroup
  <2>6. PutGroup(r).tgroups = {x}
    BY <2>4, <2>5
  <2> QED
    BY <2>1, <2>6 DEF OneTargetGroup
<1>4. CASE Throws(t) \/ Close(t) \/ TargetGroupGathered(t) \/ AlertGathered(t) \/ UnsubscribeGathered(t)
  <2>1. server' = server
    BY <1>4 DEF Throws, Close, TargetGroupGathered, AlertGathered, UnsubscribeGathered
  <2> QED
    BY <2>1 DEF OneTargetGroup
<1>5. CASE DeleteAlert(t)
  <2>1. server' \in {server, Without(tasks[t].alert)}
    BY <1>1, <1>5, DeleteAlertDoes
  <2> QED
    BY <1>1, <2>1, WithoutFields DEF OneTargetGroup
<1>6. CASE CreateAlert(t)
  <2>1. NewAlert(tasks[t]) \in Alert
    BY <1>1, <1>6, NewAlertType DEF CreateAlert
  <2>2. server' \in {server, Created("alerts", NewAlert(tasks[t]))}
    BY <1>1, <1>6, <2>1, CreateAlertDoes
  <2>3. server'.tgroups = server.tgroups
    BY <1>1, <2>1, <2>2, CreatedAlert DEF TypeOK
  <2> QED
    BY <2>3 DEF OneTargetGroup
<1> QED
  BY <1>2, <1>3, <1>4, <1>5, <1>6 DEF Steps, Conclude

LEMMA InitTwinless ==
  ASSUME Init
  PROVE  Twinless
<1>1. \A t \in Tasks : tasks[t] = Idle
  BY DEF Init
<1>2. Undisturbed
  BY <1>1, IdleType DEF Undisturbed
<1>3. /\ server.targets = {} /\ server.tgroups = {} /\ server.sgroups = {} /\ server.alerts = {}
      /\ server.sources \subseteq {Own}
  BY DEF Init
<1> QED
  BY <1>2, <1>3, InitAloneWell DEF Twinless, Unique, NamesUnique, GroupNamesUnique, SourcesUnique,
                                    TargetsUnique, OneTargetGroup

LEMMA OverlapSame ==
  ASSUME Well, NEW t \in Tasks, Steps(t)
  PROVE  overlap' = overlap
<1>0. TypeOK
  BY DEF Well
<1>1. CASE Branch(t)
  BY <1>1, BranchGathers DEF Gathers, history
<1>2. CASE Throws(t) \/ TargetGroupGathered(t) \/ AlertGathered(t) \/ UnsubscribeGathered(t)
  BY <1>2 DEF Throws, TargetGroupGathered, AlertGathered, UnsubscribeGathered, Returns, history
<1>3. CASE PutTargetGroup(t) \/ DeleteAlert(t) \/ Close(t)
  BY <1>3 DEF PutTargetGroup, DeleteAlert, Close, Returns, history
<1>4. CASE CreateAlert(t)
  BY <1>4 DEF CreateAlert, Returns
<1> QED
  BY <1>1, <1>2, <1>3, <1>4 DEF Steps, Conclude

LEMMA StepTwinless ==
  ASSUME Twinless, [Next]_vars
  PROVE  Twinless'
<1>0. AloneWell /\ AloneWell' /\ Well /\ TypeOK
  BY StepAloneWell DEF Twinless, AloneWell, AlertsWell, Well
<1>1. ASSUME NEW t \in Tasks, Steps(t) PROVE ~overlap' => Undisturbed' /\ Unique'
  BY <1>0, <1>1, OverlapSame, UndisturbedStep, NamesUniqueStep, GroupNamesUniqueStep,
     SourcesUniqueStep, TargetsUniqueStep, OneTargetGroupStep DEF Twinless, Unique
<1>2. ASSUME NEW t \in Tasks, Start(t), ~overlap' PROVE Undisturbed' /\ Unique'
  <2>1. /\ UNCHANGED server /\ overlap' = (overlap \/ Running # {})
        /\ Fresh(tasks'[t]) /\ tasks'[t].alone = (Running = {})
        /\ \A u \in Tasks \ {t} : Keeps(u)
    BY <1>0, <1>2, StartDoes, StartedKeep
  <2>2. ~overlap /\ Running = {}
    BY <1>2, <2>1, Zenon
  <2>3. tasks'[t].alone
    BY <2>1, <2>2, Zenon
  <2>4. \A u \in Tasks \ {t} : tasks'[u].pc = "idle"
    BY <2>1, <2>2 DEF Keeps, Running
  <2>5. Undisturbed'
    BY <2>1, <2>3, <2>4 DEF Undisturbed, Fresh
  <2> QED
    BY <2>1, <2>2, <2>5 DEF Twinless, Unique, NamesUnique, GroupNamesUnique, SourcesUnique,
                            TargetsUnique, OneTargetGroup
<1>3. CASE UNCHANGED vars
  BY <1>0, <1>3 DEF vars, Twinless, Undisturbed, Unique, NamesUnique, GroupNamesUnique,
                    SourcesUnique, TargetsUnique, OneTargetGroup
<1> QED
  BY <1>0, <1>1, <1>2, <1>3 DEF Twinless, Next, Steps

\* As long as operations never overlap nothing is created twice: each knows, when it
\* creates an entry, that there is none, because it has looked and nobody else has
\* done anything since - also after requests whose replies were lost.
THEOREM NoTwinsAloneTheorem == Spec => []NoTwinsAlone
<1>1. Spec => []Twinless
  BY InitTwinless, StepTwinless, PTL DEF Spec
<1>2. Twinless => NoTwinsAlone
  <2> SUFFICES ASSUME Twinless, ~overlap PROVE NoTwinsAlone
    BY DEF NoTwinsAlone
  <2>1. Unique
    BY DEF Twinless
  <2>2. Cardinality(server.tgroups) <= 1
    <3>1. CASE server.tgroups = {}
      BY <3>1, FS_EmptySet
    <3>2. ASSUME NEW g \in server.tgroups PROVE Cardinality(server.tgroups) <= 1
      <4>1. server.tgroups = {g}
        BY <2>1, <3>2 DEF Unique, OneTargetGroup
      <4>2. Cardinality({g}) = 1
        BY FS_Singleton
      <4> QED
        BY <4>1, <4>2
    <3> QED
      BY <3>1, <3>2
  <2> QED
    BY <2>1, <2>2 DEF NoTwinsAlone, Unique, NamesUnique, GroupNamesUnique, SourcesUnique, TargetsUnique
<1> QED
  BY <1>1, <1>2, PTL

-----------------------------------------------------------------------------
(* What an operation promises, when it returns and nothing has overlapped it. *)

ClaimRests == claim # None => \A t \in Tasks : tasks[t].pc = "idle"

ClaimKind == claim # None => claim.op \in {"targetGroup", "alert", "unsubscribe"}

PromiseWell == Twinless /\ ClaimRests /\ ClaimKind /\ EnsureKeepsPromise

Asked(want) == {[channel |-> c, value |-> want[c]] : c \in {d \in Channels : want[d] # None}}

LEMMA AlertMet ==
  ASSUME NEW e, NEW opt, claim'.op = "alert", claim'.e = e, claim'.opt = opt, InPlace(e, opt)'
  PROVE  EnsureKeepsPromise'
BY DEF EnsureKeepsPromise, InPlace, PackedOptions, Fitting, OfType, Kind

LEMMA PromiseMet ==
  ASSUME NEW op \in {"targetGroup", "alert", "unsubscribe"}, NEW e, NEW opt, NEW want,
         claim'.op = op /\ claim'.e = e /\ claim'.opt = opt /\ claim'.want = want,
         op = "targetGroup" => \E g \in server'.tgroups : ValuedIn(server'.targets, g.targets) = Asked(want),
         op = "alert" => InPlace(e, opt)',
         op = "unsubscribe" => Kind(e)' = "directPush" \/ overlap' \/ \A a \in server'.alerts : a.name # e
  PROVE  EnsureKeepsPromise'
<1>1. CASE op = "targetGroup"
  <2>1. \E g \in server'.tgroups : Valued(g.targets)' = Asked(want)
    BY <1>1 DEF Valued, ValuedIn
  <2> QED
    BY <1>1, <2>1 DEF EnsureKeepsPromise, Asked
<1>2. CASE op = "alert"
  <2>1. claim'.op = "alert" /\ claim'.e = e /\ claim'.opt = opt /\ InPlace(e, opt)'
    BY <1>2
  <2> QED
    BY <2>1, AlertMet
<1>3. CASE op = "unsubscribe"
  BY <1>3 DEF EnsureKeepsPromise, Kind
<1> QED
  BY <1>1, <1>2, <1>3

\* The target group has the targets that were asked for.
LEMMA GroupMet ==
  ASSUME AloneWell, NEW t \in Tasks, tasks[t].op = "targetGroup", ~tasks[t].rejected,
         tasks[t].pc # "idle", tasks[t].waits = {}, server'.targets = server.targets,
         NEW g \in server'.tgroups, g.targets = tasks[t].targets
  PROVE  ValuedIn(server'.targets, g.targets) = Asked(tasks[t].want)
<1>1. Valued(tasks[t].targets) = Ready(tasks[t])
  BY DEF AloneWell, TargetsWell, TargetsKnown
<1>2. Ready(tasks[t]) = Asked(tasks[t].want)
  BY DEF Ready, Asked
<1> QED
  BY <1>1, <1>2 DEF Valued, ValuedIn

\* The alert a has the sources that were gathered.
LEMMA InPlaceMet ==
  ASSUME AloneWell, NEW t \in Tasks, tasks[t].op = "alert", ~tasks[t].rejected, tasks[t].alone,
         tasks[t].pc # "idle", tasks[t].waits = {}, tasks[t].tgroup # None,
         config' = config, server'.sources = server.sources, server'.sgroups = server.sgroups,
         server'.tgroups = server.tgroups,
         NEW e, e = tasks[t].e, NEW opt, opt = tasks[t].opt,
         NEW a \in server'.alerts, a.name = e, a.opt = PackedOptions(e, opt),
         a.sgroup = tasks[t].sgroup, a.tgroup = tasks[t].tgroup.id
  PROVE  InPlace(e, opt)'
<1>1. a.tgroup \in Ids(server.tgroups)
  BY DEF AloneWell, AlertsWell, Well, Known
<1>2. Covers(t) /\ tasks[t].missing = {}
  BY DEF AloneWell, ChainWell, ChainKnown
<1>3. PICK g \in server.sgroups : g.id = a.sgroup /\ g.sources = tasks[t].sources
  BY DEF AloneWell, AloneChain
<1>4. /\ \A d \in config[e].addresses : Ids(Fitting(e, d)) \cap g.sources # {}
      /\ g.sources \subseteq UNION {Ids(Fitting(e, d)) : d \in config[e].addresses}
         \/ Kind(e) = "priceChange"
  BY <1>2, <1>3 DEF Covers
<1>5. /\ \A d : Fitting(e, d)' = Fitting(e, d)
      /\ Kind(e)' = Kind(e) /\ PackedOptions(e, opt)' = PackedOptions(e, opt)
  BY DEF Fitting, OfType, Kind, PackedOptions
<1>6. InPlace(e, opt)' <=>
        \E b \in server'.alerts :
          /\ b.name = e /\ b.opt = PackedOptions(e, opt)'
          /\ b.tgroup \in Ids(server'.tgroups)
          /\ \E h \in server'.sgroups :
               /\ h.id = b.sgroup
               /\ \A d \in config'[e].addresses : Ids(Fitting(e, d)') \cap h.sources # {}
               /\ h.sources \subseteq UNION {Ids(Fitting(e, d)') : d \in config'[e].addresses}
                  \/ Kind(e)' = "priceChange"
  BY DEF InPlace, Ids
<1> QED
  BY <1>1, <1>3, <1>4, <1>5, <1>6

\* The alert that was deleted was the one of that name, if it had no twin.
LEMMA UnsubscribeMet ==
  ASSUME Twinless, NEW t \in Tasks, tasks[t].op = "unsubscribe", tasks[t].alone,
         tasks[t].pc = "delete", server'.alerts = Remaining(t), ~overlap
  PROVE  Kind(tasks[t].e) = "directPush" \/ \A a \in server'.alerts : a.name # tasks[t].e
<1>1. /\ tasks[t].alert # None /\ tasks[t].alert \in server.alerts
      /\ MayDrop(tasks[t].e, tasks[t].alert.name)
  BY DEF Twinless, AloneWell, AlertsWell, Well, Protocol, AloneAlert, AlertKnown
<1>2. NamesUnique
  BY DEF Twinless, Unique
<1> QED
  BY <1>1, <1>2 DEF MayDrop, Remaining, NamesUnique

\* t returns, alone: it has done what it was asked to.
Met(t) ==
  LET r == tasks[t] IN
  /\ r.op = "targetGroup" => \E g \in server'.tgroups : ValuedIn(server'.targets, g.targets) = Asked(r.want)
  /\ r.op = "alert" => \A e, opt : e = r.e /\ opt = r.opt => InPlace(e, opt)'
  /\ r.op = "unsubscribe" =>
       Kind(r.e) = "directPush" \/ overlap \/ \A a \in server'.alerts : a.name # r.e

LEMMA ReturnsMet ==
  ASSUME Twinless, NEW t \in Tasks, Conclude(t), tasks[t].alone
  PROVE  \/ claim' = claim
         \/ Returns(t) /\ tasks'[t] = Idle /\ Met(t)
<1>0. Well /\ TypeOK /\ AloneWell /\ AloneGroup(t) /\ AloneAlert(t) /\ AlertKnown(t) /\ server \in Service
  BY DEF Twinless, AloneWell, AlertsWell, Well, TypeOK
<1>1. CASE Throws(t) \/ UnsubscribeGathered(t)
  BY <1>0, <1>1, ThrowsDoes, UnsubscribeGatheredDoes DEF history
<1>2. CASE TargetGroupGathered(t)
  <2>1. /\ OnlyMoves(t) /\ UNCHANGED server
        /\ tasks[t].pc = "gather" /\ tasks[t].waits = {}
        /\ tasks[t].op = "targetGroup" /\ ~tasks[t].rejected
        /\ \/ GroupMatches(tasks[t]) /\ tasks'[t] = Idle /\ Returns(t)
           \/ UNCHANGED history
    BY <1>0, <1>2, TargetGroupGatheredDoes
  <2>2. CASE UNCHANGED history
    BY <2>2 DEF history
  <2>3. CASE GroupMatches(tasks[t]) /\ tasks'[t] = Idle /\ Returns(t)
    <3>1. tasks[t].tgroup \in server'.tgroups /\ tasks[t].tgroup.targets = tasks[t].targets
      BY <1>0, <2>1, <2>3 DEF AloneGroup, GroupMatches, AreIdsEqual
    <3>2. ValuedIn(server'.targets, tasks[t].tgroup.targets) = Asked(tasks[t].want)
      BY <1>0, <2>1, <3>1, GroupMet
    <3> QED
      BY <2>1, <2>3, <3>1, <3>2 DEF Met
  <2> QED
    BY <2>1, <2>2, <2>3
<1>3. CASE PutTargetGroup(t)
  <2>1. /\ tasks[t].pc = "put" /\ tasks'[t] = Idle
        /\ \/ server' = PutGroup(tasks[t]) /\ Returns(t)
           \/ UNCHANGED history
    BY <1>0, <1>3, PutTargetGroupDoes
  <2>2. CASE UNCHANGED history
    BY <2>2 DEF history
  <2>3. CASE server' = PutGroup(tasks[t]) /\ Returns(t)
    <3> DEFINE x == PutGroupEntry(tasks[t])
    <3>1. tasks[t].op = "targetGroup" /\ tasks[t].waits = {} /\ ~tasks[t].rejected
      BY <1>0, <2>1 DEF Well, Protocol
    <3>2. x \in server'.tgroups /\ x.targets = tasks[t].targets /\ server'.targets = server.targets
      BY <1>0, <2>3, PutGroupFields
    <3> HIDE DEF x
    <3>3. ValuedIn(server'.targets, x.targets) = Asked(tasks[t].want)
      BY <1>0, <2>1, <3>1, <3>2, GroupMet
    <3> QED
      BY <2>1, <2>3, <3>1, <3>2, <3>3 DEF Met
  <2> QED
    BY <2>1, <2>2, <2>3
<1>4. CASE AlertGathered(t)
  <2>1. /\ OnlyMoves(t) /\ UNCHANGED server
        /\ tasks[t].pc = "gather" /\ tasks[t].waits = {}
        /\ tasks[t].op = "alert" /\ ~tasks[t].rejected /\ tasks[t].tgroup # None
        /\ \/ /\ tasks[t].alert # None /\ Matches(tasks[t])
              /\ tasks'[t] = Idle /\ Returns(t)
           \/ UNCHANGED history
    BY <1>0, <1>4, AlertGatheredDoes
  <2>2. CASE UNCHANGED history
    BY <2>2 DEF history
  <2>3. CASE /\ tasks[t].alert # None /\ Matches(tasks[t])
             /\ tasks'[t] = Idle /\ Returns(t)
    <3> DEFINE a == tasks[t].alert
    <3>1. /\ a \in server'.alerts /\ a.name = tasks[t].e
          /\ a.opt = PackedOptions(tasks[t].e, tasks[t].opt)
          /\ a.sgroup = tasks[t].sgroup /\ a.tgroup = tasks[t].tgroup.id
      BY <1>0, <2>1, <2>3 DEF AloneAlert, AlertKnown, Matches
    <3>2. config' = config
      BY <2>1 DEF OnlyMoves
    <3> HIDE DEF a
    <3>3. ASSUME NEW e, NEW opt, e = tasks[t].e, opt = tasks[t].opt PROVE InPlace(e, opt)'
      BY <1>0, <2>1, <3>1, <3>2, <3>3, InPlaceMet
    <3> QED
      BY <2>1, <2>3, <3>3 DEF Met
  <2> QED
    BY <2>1, <2>2, <2>3
<1>5. CASE CreateAlert(t)
  <2> DEFINE a == NewAlert(tasks[t])
  <2>1. a \in Alert /\ tasks[t].pc = "create"
    BY <1>0, <1>5, NewAlertType DEF CreateAlert
  <2>2. /\ OnlyMoves(t) /\ tasks'[t] = Idle
        /\ \/ server' = Created("alerts", a) /\ Returns(t)
           \/ UNCHANGED <<overlap, claim, ensured, dropped>>
    BY <1>0, <1>5, <2>1, CreateAlertDoes
  <2>3. CASE UNCHANGED <<overlap, claim, ensured, dropped>>
    BY <2>3
  <2>4. CASE server' = Created("alerts", a) /\ Returns(t)
    <3>1. /\ tasks[t].op = "alert" /\ tasks[t].waits = {} /\ ~tasks[t].rejected
          /\ tasks[t].tgroup # None
      BY <1>0, <2>1 DEF Well, Protocol
    <3>2. /\ a.name = tasks[t].e /\ a.opt = PackedOptions(tasks[t].e, tasks[t].opt)
          /\ a.sgroup = tasks[t].sgroup /\ a.tgroup = tasks[t].tgroup.id
      BY DEF NewAlert
    <3> HIDE DEF a
    <3>3. /\ a \in server'.alerts /\ server'.sources = server.sources
          /\ server'.sgroups = server.sgroups /\ server'.tgroups = server.tgroups
      BY <1>0, <2>1, <2>4, CreatedAlert
    <3>4. config' = config
      BY <2>2 DEF OnlyMoves
    <3>5. ASSUME NEW e, NEW opt, e = tasks[t].e, opt = tasks[t].opt PROVE InPlace(e, opt)'
      BY <1>0, <2>1, <3>1, <3>2, <3>3, <3>4, <3>5, InPlaceMet
    <3> QED
      BY <2>2, <2>4, <3>1, <3>5 DEF Met
  <2> QED
    BY <2>2, <2>3, <2>4
<1>6. CASE DeleteAlert(t)
  <2>1. /\ tasks[t].pc = "delete"
        /\ \/ /\ server' = Without(tasks[t].alert) /\ Returns(t)
              /\ tasks[t].op = "unsubscribe" /\ tasks'[t] = Idle
           \/ claim' = claim
    BY <1>0, <1>6, DeleteAlertDoes DEF history
  <2>2. CASE /\ server' = Without(tasks[t].alert) /\ Returns(t)
             /\ tasks[t].op = "unsubscribe" /\ tasks'[t] = Idle
    <3>1. server'.alerts = Remaining(t)
      BY <1>0, <2>2, WithoutFields DEF Remaining
    <3>2. Kind(tasks[t].e) = "directPush" \/ overlap \/ \A b \in server'.alerts : b.name # tasks[t].e
      BY <2>1, <2>2, <3>1, UnsubscribeMet
    <3> QED
      BY <2>2, <3>2 DEF Met
  <2> QED
    BY <2>1, <2>2
<1> QED
  BY <1>1, <1>2, <1>3, <1>4, <1>5, <1>6 DEF Conclude

\* A step while nothing is claimed leaves nothing claimed, or claims what is met.
LEMMA ClaimNone ==
  ASSUME claim' = None
  PROVE  ClaimRests' /\ ClaimKind' /\ EnsureKeepsPromise'
BY DEF ClaimRests, ClaimKind, EnsureKeepsPromise

LEMMA SamePromise ==
  ASSUME EnsureKeepsPromise, ClaimKind, UNCHANGED vars
  PROVE  EnsureKeepsPromise'
<1>1. config' = config /\ server' = server /\ overlap' = overlap /\ claim' = claim
  BY DEF vars
<1>2. CASE claim = None
  BY <1>1, <1>2, ClaimNone
<1>3. CASE claim # None
  <2>1. PICK op, e, opt, want :
          op = claim.op /\ e = claim.e /\ opt = claim.opt /\ want = claim.want
    OBVIOUS
  <2>2. op \in {"targetGroup", "alert", "unsubscribe"}
    BY <1>3, <2>1 DEF ClaimKind
  <2>3. op = "targetGroup" => \E g \in server'.tgroups : ValuedIn(server'.targets, g.targets) = Asked(want)
    BY <1>1, <1>3, <2>1 DEF EnsureKeepsPromise, Valued, ValuedIn, Asked
  <2>4. op = "alert" => InPlace(e, opt)
    BY <1>3, <2>1, <2>2 DEF EnsureKeepsPromise
  <2>5. InPlace(e, opt)' <=> InPlace(e, opt)
    <3>1. /\ \A d : Fitting(e, d)' = Fitting(e, d)
          /\ Kind(e)' = Kind(e) /\ PackedOptions(e, opt)' = PackedOptions(e, opt)
      BY <1>1 DEF Fitting, OfType, Kind, PackedOptions
    <3> QED
      BY <1>1, <3>1 DEF InPlace, Ids
  <2>6. op = "unsubscribe" => Kind(e)' = "directPush" \/ overlap' \/ \A a \in server'.alerts : a.name # e
    BY <1>1, <1>3, <2>1 DEF EnsureKeepsPromise, Kind
  <2>7. claim'.op = op /\ claim'.e = e /\ claim'.opt = opt /\ claim'.want = want
    BY <1>1, <2>1
  <2> QED
    BY <2>2, <2>3, <2>4, <2>5, <2>6, <2>7, PromiseMet
<1> QED
  BY <1>2, <1>3

LEMMA ClaimMet ==
  ASSUME Twinless, NEW t \in Tasks, Steps(t), Returns(t), Met(t), tasks'[t] = Idle, tasks[t].alone
  PROVE  ClaimRests' /\ ClaimKind' /\ EnsureKeepsPromise'
<1>0. Well /\ OnlyOne(t) /\ Protocol(t) /\ TypeOK
  BY DEF Twinless, AloneWell, AlertsWell, Well
<1>1. OnlyMoves(t) /\ tasks[t].pc # "idle" /\ overlap' = overlap
  BY <1>0, StepsMove, OverlapSame
<1>2. ClaimRests'
  <2>1. \A u \in Tasks : tasks'[u].pc = "idle"
    BY <1>0, <1>1, IdleType DEF OnlyOne, OnlyMoves, OthersStay, Idle
  <2> QED
    BY <2>1 DEF ClaimRests
<1>3. PICK op, e, opt, want :
        op = tasks[t].op /\ e = tasks[t].e /\ opt = tasks[t].opt /\ want = tasks[t].want
  OBVIOUS
<1>4. claim' = [op |-> op, e |-> e, opt |-> opt, want |-> want]
  BY <1>3 DEF Returns
<1>5. op \in {"targetGroup", "alert", "unsubscribe"}
  <2>1. tasks[t] \in Operation
    BY <1>0 DEF TypeOK
  <2> QED
    BY <1>0, <1>1, <1>3, <2>1 DEF Protocol, Operation
<1>6. op = "targetGroup" => \E g \in server'.tgroups : ValuedIn(server'.targets, g.targets) = Asked(want)
  BY <1>3 DEF Met
<1>7. op = "alert" => InPlace(e, opt)'
  BY <1>3 DEF Met
<1>8. op = "unsubscribe" => Kind(e)' = "directPush" \/ overlap' \/ \A a \in server'.alerts : a.name # e
  BY <1>1, <1>3 DEF Met, OnlyMoves, Kind
<1> QED
  <2>1. claim'.op = op /\ claim'.e = e /\ claim'.opt = opt /\ claim'.want = want
    BY <1>4
  <2>2. ClaimKind'
    BY <1>5, <2>1 DEF ClaimKind
  <2> QED
    BY <1>2, <1>5, <1>6, <1>7, <1>8, <2>1, <2>2, PromiseMet

LEMMA StepPromiseWell ==
  ASSUME PromiseWell, [Next]_vars
  PROVE  PromiseWell'
<1>0. /\ Twinless /\ Twinless' /\ ClaimRests /\ ClaimKind /\ EnsureKeepsPromise
      /\ Well /\ TypeOK
  BY StepTwinless DEF PromiseWell, Twinless, AloneWell, AlertsWell, Well
<1>1. ASSUME NEW t \in Tasks, Steps(t), claim' = claim PROVE claim' = None
  BY <1>0, <1>1, StepsMove DEF ClaimRests
<1>2. ASSUME NEW t \in Tasks, Start(t) PROVE claim' = None
  BY <1>0, <1>2, StartDoes
<1>3. ASSUME NEW t \in Tasks, Branch(t) \/ Close(t) PROVE claim' = None
  <2>1. claim' = claim
    BY <1>0, <1>3, BranchGathers, CloseDoes DEF Gathers, history
  <2> QED
    BY <1>1, <1>3, <2>1 DEF Steps
<1>4. ASSUME NEW t \in Tasks, Conclude(t) PROVE ClaimRests' /\ ClaimKind' /\ EnsureKeepsPromise'
  <2>1. Steps(t)
    BY <1>4 DEF Steps
  <2>2. CASE claim' = claim
    BY <1>1, <2>1, <2>2, ClaimNone
  <2>3. CASE claim' # claim
    <3>1. tasks[t].alone
      BY <1>4, <2>3 DEF Conclude, Throws, TargetGroupGathered, AlertGathered, UnsubscribeGathered,
                        PutTargetGroup, DeleteAlert, CreateAlert, Returns, history
    <3>2. Returns(t) /\ tasks'[t] = Idle /\ Met(t)
      BY <1>0, <1>4, <2>3, <3>1, ReturnsMet
    <3> QED
      BY <1>0, <2>1, <3>1, <3>2, ClaimMet
  <2> QED
    BY <2>2, <2>3
<1>5. CASE UNCHANGED vars
  <2>1. ClaimRests' /\ ClaimKind'
    BY <1>0, <1>5 DEF vars, ClaimRests, ClaimKind
  <2>2. EnsureKeepsPromise'
    BY <1>0, <1>5, SamePromise
  <2> QED
    BY <1>0, <2>1, <2>2 DEF PromiseWell
<1> QED
  BY <1>0, <1>2, <1>3, <1>4, <1>5, ClaimNone DEF PromiseWell, Next

\* Whatever went wrong before: an ensure operation that nothing overlaps has, when it
\* returns, the targets, or the alert, options and sources that were asked for in
\* place, and an unsubscribe has removed the alert, if it had no twin.
THEOREM EnsureKeepsPromiseTheorem == Spec => []EnsureKeepsPromise
<1>1. Init => PromiseWell
  BY InitTwinless DEF Init, PromiseWell, ClaimRests, ClaimKind, EnsureKeepsPromise
<1>2. PromiseWell /\ [Next]_vars => PromiseWell'
  BY StepPromiseWell
<1>3. PromiseWell => EnsureKeepsPromise
  BY DEF PromiseWell
<1> QED
  BY <1>1, <1>2, <1>3, PTL DEF Spec

===============================================================================
