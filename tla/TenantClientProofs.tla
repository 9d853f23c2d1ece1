-------------------------- MODULE TenantClientProofs --------------------------
(***************************************************************************)
(* Proofs about TenantClient, for any number of calls, tenants, names and  *)
(* headers: type correctness, that a request carries the token of its      *)
(* method, and that a balance alert that was created alone delivers.       *)
(***************************************************************************)
EXTENDS TenantClient, WellFoundedInduction, TLAPS

\* One request, or a chain of them; a chain uses the shared service.
Shapes ==
  \A c \in Calls :
    /\ calls[c].svc \in {Shared, c}
    /\ Running(c) => calls[c].answer = None
    /\ Running(c) /\ calls[c].op = Balance => calls[c].pc \in Chain
    /\ Running(c) /\ calls[c].op # Balance => calls[c].pc = "request"
    /\ calls[c].op = Balance =>
         /\ calls[c].svc = Shared /\ calls[c].token \in Tokens
         /\ calls[c].name \in Names /\ calls[c].headers \in Headers

\* The next request of a chain will carry its token, unless it was mixed up.
ChainHasToken ==
  \A c \in Calls :
    Running(c) /\ calls[c].op = Balance => jwt[Shared] = calls[c].token \/ calls[c].mixed

\* A chain that is alone has had no other call since it began.
Alone ==
  \A c \in Calls :
    calls[c].op = Balance /\ calls[c].alone =>
      /\ ~calls[c].mixed
      /\ \A d \in Calls : d # c => ~Running(d)

\* How far the chain k has come with the account a of its tenant.
HasHook(a, k) == \E w \in a.hooks : w.id = k.hook /\ w.headers = k.headers
HasGroup(a, k) == \E g \in a.groups : g.id = k.group /\ g.hook = k.hook

Delivered(a, k) ==
  \E x \in Named(a.alerts, k.name), g \in a.groups, w \in a.hooks :
    /\ x = Oldest(Named(a.alerts, k.name))
    /\ g.id = x.group /\ g.hook = w.id /\ w.headers = k.headers

Progress(a, k) ==
  /\ k.pc \in Chain \ {"getWebhookTargets", "deleteWebhookTarget", "createWebhookTarget"} =>
       HasHook(a, k)
  /\ k.pc \in {"getFilters", "getSourceGroups", "createSourceGroup", "getTargetGroups",
               "updateTargetGroup", "createTargetGroup", "createAlert"} =>
       Named(a.alerts, k.name) = {}
  /\ k.pc = "updateAlertTargets" =>
       /\ Named(a.alerts, k.name) # {}
       /\ \A x \in Named(a.alerts, k.name) : x.balance
       /\ k.group = Oldest(Named(a.alerts, k.name)).group
  /\ k.pc = "createAlert" => HasGroup(a, k)
  /\ k.answer = "ok" => Delivered(a, k)

ChainProgress ==
  \A c \in Calls :
    calls[c].op = Balance /\ calls[c].alone =>
      Progress(accounts[calls[c].token], calls[c])

\* Alerts that bear the filter of a balance have an id.
BalanceIds(a) == \A x \in a.alerts : x.balance => x.id \in Ids
BalanceHasId == \A t \in Tokens : BalanceIds(accounts[t])

Inv ==
  /\ TypeOK /\ Shapes /\ RequestCarriesToken /\ ChainHasToken /\ Alone /\ BalanceHasId
  /\ ChainProgress

-----------------------------------------------------------------------------
(* The oldest of some objects                                              *)

\* A set of numbers that is not empty has a least one.
LEMMA LeastNumber ==
  ASSUME NEW T \in SUBSET Nat, T # {}
  PROVE  \E n \in T : \A m \in T : n <= m
<1>1. PICK n \in T : \A m \in T : ~ (<<m, n>> \in OpToRel(<, Nat))
  BY NatLessThanWellFounded, WFMin
<1>2. \A m \in T : ~ (m < n)
  BY <1>1 DEF OpToRel
<1> QED
  BY <1>2

LEMMA OldestIsOne ==
  ASSUME NEW S, S # {}, \A x \in S : x.id \in Ids
  PROVE  Oldest(S) \in S
<1>1. \A x \in S : x.id[2] \in Nat
  BY DEF Ids
<1> DEFINE T == {x.id[2] : x \in S}
<1>2. T \in SUBSET Nat /\ T # {}
  BY <1>1
<1>3. PICK n \in T : \A m \in T : n <= m
  BY <1>2, LeastNumber
<1>4. \E x \in S : \A y \in S : x.id[2] <= y.id[2]
  BY <1>3
<1> QED
  BY <1>4 DEF Oldest

LEMMA OldestOfOne ==
  ASSUME NEW x, x.id \in Ids
  PROVE  Oldest({x}) = x
BY OldestIsOne

-----------------------------------------------------------------------------
(* One request of a chain: how a call goes on                              *)

\* What a call keeps when it goes on.
SameCall(k, l) ==
  /\ l.op = k.op /\ l.svc = k.svc /\ l.token = k.token /\ l.name = k.name
  /\ l.headers = k.headers /\ l.alone = k.alone /\ l.mixed = k.mixed

LEMMA GoesOn ==
  ASSUME jwt \in [Services -> Tokens \cup {None}],
         NEW k \in CallRecord, NEW pc \in {"idle", "request"} \cup Chain
  PROVE  /\ To(k, pc) \in CallRecord /\ SameCall(k, To(k, pc))
         /\ To(k, pc).pc = pc /\ To(k, pc).sent = jwt[k.svc] /\ To(k, pc).answer = k.answer
         /\ To(k, pc).hook = k.hook /\ To(k, pc).group = k.group
         /\ To(k, pc).sources = k.sources
<1> DEFINE l == [k EXCEPT !.pc = pc]
           m == [l EXCEPT !.sent = RequestHeaders(jwt, k.svc)]
<1>1. l \in CallRecord
  BY DEF CallRecord
<1>2. l.pc = pc /\ SameCall(k, l) /\ l.hook = k.hook /\ l.group = k.group /\ l.sources = k.sources
      /\ l.answer = k.answer
  BY DEF CallRecord, SameCall
<1>3. RequestHeaders(jwt, k.svc) = jwt[k.svc] /\ jwt[k.svc] \in Tokens \cup {None}
  BY DEF RequestHeaders, CallRecord
<1>4. To(k, pc) = m
  BY DEF To
<1> HIDE DEF l
<1>5. m \in CallRecord /\ m.sent = jwt[k.svc] /\ m.pc = pc /\ SameCall(k, m)
      /\ m.hook = k.hook /\ m.group = k.group /\ m.sources = k.sources /\ m.answer = k.answer
  BY <1>1, <1>2, <1>3 DEF CallRecord, SameCall
<1> QED
  BY <1>4, <1>5

LEMMA IdleType ==
  /\ IdleCall \in CallRecord /\ IdleCall.pc = "idle" /\ IdleCall.op = None
  /\ IdleCall.svc = Shared /\ ~IdleCall.mixed
BY DEF IdleCall, CallRecord, Services

\* A call ends with an answer; a chain keeps what it was asked.
LEMMA Ends ==
  ASSUME NEW k \in CallRecord, NEW answer \in {"ok", "thrown"}
  PROVE  /\ Settled(k, answer) \in CallRecord
         /\ Settled(k, answer).pc = "idle" /\ Settled(k, answer).answer = answer
         /\ Settled(k, answer).svc = Shared /\ ~Settled(k, answer).mixed
         /\ k.op = Balance =>
              /\ Settled(k, answer).op = Balance /\ Settled(k, answer).token = k.token
              /\ Settled(k, answer).name = k.name /\ Settled(k, answer).headers = k.headers
              /\ Settled(k, answer).alone = k.alone
         /\ k.op # Balance => Settled(k, answer).op = None
<1> DEFINE l1 == [IdleCall EXCEPT !.answer = answer]
           l2 == [l1 EXCEPT !.op = Balance]
           l3 == [l2 EXCEPT !.token = k.token]
           l4 == [l3 EXCEPT !.name = k.name]
           l5 == [l4 EXCEPT !.headers = k.headers]
           l6 == [l5 EXCEPT !.alone = k.alone]
<1>1. /\ l1 \in CallRecord /\ l1.pc = "idle" /\ l1.svc = Shared /\ ~l1.mixed /\ l1.answer = answer
      /\ l1.op = None
  BY IdleType DEF CallRecord
<1>2. l2 \in CallRecord /\ l2.pc = "idle" /\ l2.svc = Shared /\ ~l2.mixed /\ l2.answer = answer
      /\ l2.op = Balance
  <2> HIDE DEF l1
  <2> QED
    BY <1>1 DEF CallRecord
<1>3. l3 \in CallRecord /\ l3.pc = "idle" /\ l3.svc = Shared /\ ~l3.mixed /\ l3.answer = answer
      /\ l3.op = Balance /\ l3.token = k.token
  <2> HIDE DEF l2
  <2> QED
    BY <1>2 DEF CallRecord
<1>4. l4 \in CallRecord /\ l4.pc = "idle" /\ l4.svc = Shared /\ ~l4.mixed /\ l4.answer = answer
      /\ l4.op = Balance /\ l4.token = k.token /\ l4.name = k.name
  <2> HIDE DEF l3
  <2> QED
    BY <1>3 DEF CallRecord
<1>5. l5 \in CallRecord /\ l5.pc = "idle" /\ l5.svc = Shared /\ ~l5.mixed /\ l5.answer = answer
      /\ l5.op = Balance /\ l5.token = k.token /\ l5.name = k.name /\ l5.headers = k.headers
  <2> HIDE DEF l4
  <2> QED
    BY <1>4 DEF CallRecord
<1>6. l6 \in CallRecord /\ l6.pc = "idle" /\ l6.svc = Shared /\ ~l6.mixed /\ l6.answer = answer
      /\ l6.op = Balance /\ l6.token = k.token /\ l6.name = k.name /\ l6.headers = k.headers
      /\ l6.alone = k.alone
  <2> HIDE DEF l5
  <2> QED
    BY <1>5 DEF CallRecord
<1>7. CASE k.op = Balance
  <2>1. Settled(k, answer) = l6
    BY <1>7 DEF Settled, IdleCall
  <2> HIDE DEF l6
  <2> QED
    BY <1>6, <1>7, <2>1
<1>8. CASE k.op # Balance
  <2>1. Settled(k, answer) = l1
    BY <1>8 DEF Settled
  <2> HIDE DEF l1
  <2> QED
    BY <1>1, <1>8, <2>1
<1> QED
  BY <1>7, <1>8

-----------------------------------------------------------------------------
(* One request of a chain: what it makes of the account                    *)

GoesTo(k, l, pcs) ==
  /\ l \in CallRecord /\ SameCall(k, l) /\ l.pc \in pcs \cap Chain
  /\ l.sent = jwt[k.svc] /\ l.answer = k.answer
EndsWith(k, l) == \E answer \in {"ok", "thrown"} : l = Settled(k, answer)

Continues(a, k, out) ==
  /\ out.account \in Account /\ out.account.owner = a.owner /\ BalanceIds(out.account)
  /\ GoesTo(k, out.call, Chain) \/ EndsWith(k, out.call)
  /\ Progress(a, k) => Progress(out.account, out.call)

InChain(a, k) ==
  /\ jwt \in [Services -> Tokens \cup {None}]
  /\ a \in Account /\ BalanceIds(a)
  /\ k \in CallRecord /\ k.op = Balance /\ k.pc \in Chain /\ k.answer = None
  /\ k.name \in Names /\ k.headers \in Headers

LEMMA NoneIsNone == None # "ok" /\ None # Balance /\ None # "single"
BY TenantAssumption DEF Balance

LEMMA OutcomeParts ==
  ASSUME NEW a, NEW l
  PROVE  Outcome(a, l).account = a /\ Outcome(a, l).call = l
BY DEF Outcome

\* Whoever throws promises nothing.
LEMMA ThrowContinues ==
  ASSUME NEW a, NEW k, InChain(a, k)
  PROVE  Continues(a, k, Outcome(a, Throw(k)))
<1>1. Throw(k) = Settled(k, "thrown") /\ Throw(k).pc = "idle" /\ Throw(k).answer = "thrown"
  BY Ends DEF InChain, Throw
<1>2. Progress(a, Throw(k))
  BY <1>1 DEF Progress, Chain
<1> QED
  BY <1>1, <1>2, OutcomeParts DEF Continues, EndsWith, InChain

\* A call that finishes has delivered.
LEMMA FinishContinues ==
  ASSUME NEW a, NEW k, InChain(a, k),
         NEW b \in Account, b.owner = a.owner, BalanceIds(b),
         Progress(a, k) => Delivered(b, k)
  PROVE  Continues(a, k, Outcome(b, Finish(k)))
<1> DEFINE l == Finish(k)
<1>1. l = Settled(k, "ok") /\ l.pc = "idle" /\ l.name = k.name /\ l.headers = k.headers
  BY Ends DEF InChain, Finish
<1> HIDE DEF l
<1>2. Progress(a, k) => Progress(b, l)
  BY <1>1 DEF Progress, Chain, Delivered
<1> QED
  BY <1>1, <1>2, OutcomeParts DEF Continues, EndsWith, l

\* A call that goes on, with what it has learnt of hook, group and sources.
LEMMA NextContinues ==
  ASSUME NEW a, NEW k, InChain(a, k),
         NEW b \in Account, b.owner = a.owner, BalanceIds(b),
         NEW m \in CallRecord, SameCall(k, m), m.answer = None, NEW pc \in Chain,
         Progress(a, k) => Progress(b, To(m, pc))
  PROVE  Continues(a, k, Outcome(b, To(m, pc)))
<1> DEFINE l == To(m, pc)
<1>1. /\ l \in CallRecord /\ SameCall(m, l) /\ l.pc = pc /\ l.sent = jwt[m.svc]
      /\ l.answer = m.answer
  BY GoesOn DEF InChain
<1> HIDE DEF l
<1>2. GoesTo(k, l, Chain)
  BY <1>1 DEF GoesTo, SameCall, InChain
<1>3. Progress(a, k) => Progress(b, l)
  BY DEF l
<1>4. Outcome(b, l).account = b /\ Outcome(b, l).call = l
  BY OutcomeParts
<1>5. Continues(a, k, Outcome(b, l))
  BY <1>2, <1>3, <1>4 DEF Continues
<1> QED
  BY <1>5 DEF l

\* What To leaves to Progress.
LEMMA ProgressOf ==
  ASSUME NEW a, NEW k, InChain(a, k), NEW b, NEW m \in CallRecord, SameCall(k, m), m.answer = None,
         NEW pc \in Chain,
         pc \notin {"getWebhookTargets", "deleteWebhookTarget", "createWebhookTarget"} =>
           \E w \in b.hooks : w.id = m.hook /\ w.headers = k.headers,
         pc \in {"getFilters", "getSourceGroups", "createSourceGroup", "getTargetGroups",
                 "updateTargetGroup", "createTargetGroup", "createAlert"} =>
           Named(b.alerts, k.name) = {},
         pc = "updateAlertTargets" =>
           /\ Named(b.alerts, k.name) # {}
           /\ \A x \in Named(b.alerts, k.name) : x.balance
           /\ m.group = Oldest(Named(b.alerts, k.name)).group,
         pc = "createAlert" => \E g \in b.groups : g.id = m.group /\ g.hook = m.hook
  PROVE  Progress(b, To(m, pc))
<1> DEFINE l == To(m, pc)
<1>1. /\ SameCall(m, l) /\ l.pc = pc /\ l.answer = None /\ l.hook = m.hook /\ l.group = m.group
  BY GoesOn DEF InChain
<1> HIDE DEF l
<1>2. l.name = k.name /\ l.headers = k.headers
  BY <1>1 DEF SameCall
<1>3. /\ pc \notin {"getWebhookTargets", "deleteWebhookTarget", "createWebhookTarget"} => HasHook(b, l)
      /\ pc = "createAlert" => HasGroup(b, l)
  BY <1>1, <1>2 DEF HasHook, HasGroup
<1>4. Progress(b, l)
  BY <1>1, <1>2, <1>3, NoneIsNone DEF Progress
<1> QED
  BY <1>4 DEF l

\* What the chain remembers of what it found, or made.
LEMMA Remembers ==
  ASSUME NEW k \in CallRecord, NEW id \in Ids \cup {None}
  PROVE  /\ [k EXCEPT !.hook = id] \in CallRecord /\ SameCall(k, [k EXCEPT !.hook = id])
         /\ [k EXCEPT !.hook = id].hook = id /\ [k EXCEPT !.hook = id].group = k.group
         /\ [k EXCEPT !.hook = id].answer = k.answer
         /\ [k EXCEPT !.group = id] \in CallRecord /\ SameCall(k, [k EXCEPT !.group = id])
         /\ [k EXCEPT !.group = id].group = id /\ [k EXCEPT !.group = id].hook = k.hook
         /\ [k EXCEPT !.group = id].answer = k.answer
         /\ [k EXCEPT !.sources = id] \in CallRecord /\ SameCall(k, [k EXCEPT !.sources = id])
         /\ [k EXCEPT !.sources = id].hook = k.hook /\ [k EXCEPT !.sources = id].group = k.group
         /\ [k EXCEPT !.sources = id].answer = k.answer
BY DEF CallRecord, SameCall

LEMMA SameSelf == ASSUME NEW k PROVE SameCall(k, k)
BY DEF SameCall

LEMMA GetWebhookTargetsContinues ==
  ASSUME NEW a, NEW k, InChain(a, k), k.pc = "getWebhookTargets"
  PROVE  Continues(a, k, GetWebhookTargets(a, k))
<1>1. CASE a.hooks = {}
  <2>1. GetWebhookTargets(a, k) = Outcome(a, To(k, "createWebhookTarget"))
    BY <1>1 DEF GetWebhookTargets
  <2>2. Progress(a, To(k, "createWebhookTarget"))
    BY ProgressOf, SameSelf DEF InChain, Chain
  <2> QED
    BY <2>1, <2>2, NextContinues, SameSelf DEF InChain, Chain
<1>2. CASE a.hooks # {}
  <2> DEFINE w == Oldest(a.hooks)
             m == [k EXCEPT !.hook = w.id]
             pc == IF w.headers = k.headers THEN "getAlerts" ELSE "deleteWebhookTarget"
  <2>1. w \in a.hooks /\ w.id \in Ids
    BY <1>2, OldestIsOne DEF InChain, Account
  <2> HIDE DEF w
  <2>2. m \in CallRecord /\ SameCall(k, m) /\ m.answer = None /\ m.hook = w.id
    BY <2>1, Remembers DEF InChain
  <2> HIDE DEF m
  <2>3. pc = "getAlerts" => \E v \in a.hooks : v.id = m.hook /\ v.headers = k.headers
    BY <2>1, <2>2
  <2>4. Progress(a, To(m, pc))
    BY <2>2, <2>3, ProgressOf DEF Chain
  <2>5. Continues(a, k, Outcome(a, To(m, pc)))
    BY <2>2, <2>4, NextContinues DEF Chain, InChain
  <2> QED
    BY <1>2, <2>5 DEF GetWebhookTargets, w, m
<1> QED
  BY <1>1, <1>2

LEMMA DeleteWebhookTargetContinues ==
  ASSUME NEW a, NEW k, InChain(a, k), k.pc = "deleteWebhookTarget"
  PROVE  Continues(a, k, DeleteWebhookTarget(a, k))
<1>1. CASE ~Known(a.hooks, k.hook)
  BY <1>1, ThrowContinues DEF DeleteWebhookTarget
<1>2. CASE Known(a.hooks, k.hook)
  <2> DEFINE hooks == {w \in a.hooks : w.id # k.hook}
             groups == {IF g.hook = k.hook THEN [g EXCEPT !.hook = None] ELSE g : g \in a.groups}
             b == [a EXCEPT !.hooks = hooks]
             c == [b EXCEPT !.groups = groups]
  <2>1. hooks \subseteq [id : Ids, headers : Headers]
    BY DEF InChain, Account
  <2>2. groups \subseteq [id : Ids, name : Names, hook : Ids \cup {None}]
    BY DEF InChain, Account
  <2>3. b \in Account /\ b.owner = a.owner /\ b.alerts = a.alerts /\ b.groups = a.groups
    BY <2>1 DEF InChain, Account
  <2>4. DeleteWebhookTarget(a, k) = Outcome(c, To(k, "createWebhookTarget"))
    BY <1>2 DEF DeleteWebhookTarget, InChain, Account
  <2> HIDE DEF b, groups
  <2>5. c \in Account /\ c.owner = a.owner /\ c.alerts = a.alerts
    BY <2>2, <2>3 DEF Account
  <2> HIDE DEF c
  <2>6. Progress(c, To(k, "createWebhookTarget"))
    BY ProgressOf, SameSelf DEF InChain, Chain
  <2> QED
    BY <2>4, <2>5, <2>6, NextContinues, SameSelf DEF InChain, Chain, BalanceIds
<1> QED
  BY <1>1, <1>2

LEMMA NextIdIsId ==
  ASSUME NEW a \in Account
  PROVE  NextId(a) \in Ids
BY DEF Account, NextId, Ids

LEMMA CreateWebhookTargetContinues ==
  ASSUME NEW a, NEW k, InChain(a, k), k.pc = "createWebhookTarget"
  PROVE  Continues(a, k, CreateWebhookTarget(a, k))
<1> DEFINE w == [id |-> NextId(a), headers |-> k.headers]
           b == [a EXCEPT !.hooks = @ \cup {w}]
           c == [b EXCEPT !.next = a.next + 1]
           m == [k EXCEPT !.hook = NextId(a)]
<1>1. NextId(a) \in Ids
  BY NextIdIsId DEF InChain
<1>2. w \in [id : Ids, headers : Headers] /\ w.id = NextId(a) /\ w.headers = k.headers
  BY <1>1 DEF InChain
<1>3. CreateWebhookTarget(a, k) = Outcome(c, To(m, "getAlerts"))
  BY DEF CreateWebhookTarget, InChain, Account
<1> HIDE DEF w
<1>4. b \in Account /\ b.owner = a.owner /\ b.alerts = a.alerts /\ w \in b.hooks /\ b.next = a.next
  BY <1>2 DEF InChain, Account
<1> HIDE DEF b
<1>5. c \in Account /\ c.owner = a.owner /\ c.alerts = a.alerts /\ w \in c.hooks
  BY <1>4 DEF Account
<1>6. m \in CallRecord /\ SameCall(k, m) /\ m.answer = None /\ m.hook = NextId(a)
  BY <1>1, Remembers DEF InChain
<1> HIDE DEF c, m
<1>7. Progress(c, To(m, "getAlerts"))
  BY <1>2, <1>5, <1>6, ProgressOf DEF Chain
<1> QED
  BY <1>3, <1>5, <1>6, <1>7, NextContinues DEF Chain, InChain, BalanceIds

\* From here on the webhook is there.
LEMMA HookIsThere ==
  ASSUME NEW a, NEW k, InChain(a, k), Progress(a, k),
         k.pc \notin {"getWebhookTargets", "deleteWebhookTarget", "createWebhookTarget"}
  PROVE  \E w \in a.hooks : w.id = k.hook /\ w.headers = k.headers
BY DEF Progress, HasHook, InChain

LEMMA GetAlertsContinues ==
  ASSUME NEW a, NEW k, InChain(a, k), k.pc = "getAlerts"
  PROVE  Continues(a, k, GetAlerts(a, k))
<1> DEFINE named == Named(a.alerts, k.name)
           found == {x \in named : x.balance}
<1>1. CASE \E x \in named : ~x.balance
  BY <1>1, ThrowContinues DEF GetAlerts, Outcome
<1>2. CASE found = {} /\ ~ \E x \in named : ~x.balance
  <2>1. GetAlerts(a, k) = Outcome(a, To(k, "getFilters"))
    BY <1>2 DEF GetAlerts
  <2>2. named = {}
    BY <1>2
  <2>3. Progress(a, k) => Progress(a, To(k, "getFilters"))
    BY <2>2, ProgressOf, SameSelf, HookIsThere DEF InChain, Chain
  <2> QED
    BY <2>1, <2>3, NextContinues, SameSelf DEF InChain, Chain
<1>3. CASE found # {} /\ ~ \E x \in named : ~x.balance
  <2>1. found = named
    BY <1>3
  <2> DEFINE x == Oldest(named)
             m == [k EXCEPT !.group = x.group]
  <2>2. x \in named
    BY <1>3, <2>1, OldestIsOne DEF InChain, BalanceIds, Named
  <2>3. x.group \in Ids \cup {None}
    BY <2>2 DEF InChain, Account, Named
  <2>4. GetAlerts(a, k) = Outcome(a, To(m, "updateAlertTargets"))
    BY <1>3, <2>1 DEF GetAlerts
  <2>5. m \in CallRecord /\ SameCall(k, m) /\ m.answer = None /\ m.hook = k.hook /\ m.group = x.group
    BY <2>3, Remembers DEF InChain
  <2> HIDE DEF m
  <2>6. Progress(a, k) => Progress(a, To(m, "updateAlertTargets"))
    BY <1>3, <2>1, <2>5, ProgressOf, HookIsThere DEF Chain
  <2> QED
    BY <2>4, <2>5, <2>6, NextContinues DEF InChain, Chain
<1> QED
  BY <1>1, <1>2, <1>3

\* No alert has the name yet.
LEMMA NameIsFree ==
  ASSUME NEW a, NEW k, Progress(a, k),
         k.pc \in {"getFilters", "getSourceGroups", "createSourceGroup", "getTargetGroups",
                   "updateTargetGroup", "createTargetGroup", "createAlert"}
  PROVE  Named(a.alerts, k.name) = {}
BY DEF Progress

LEMMA GetFiltersContinues ==
  ASSUME NEW a, NEW k, InChain(a, k), k.pc = "getFilters"
  PROVE  Continues(a, k, GetFilters(a, k))
<1>1. Progress(a, k) => Progress(a, To(k, "getSourceGroups"))
  BY ProgressOf, SameSelf, HookIsThere, NameIsFree DEF InChain, Chain
<1> QED
  BY <1>1, NextContinues, SameSelf DEF GetFilters, InChain, Chain

LEMMA GetSourceGroupsContinues ==
  ASSUME NEW a, NEW k, InChain(a, k), k.pc = "getSourceGroups"
  PROVE  Continues(a, k, GetSourceGroups(a, k))
<1> DEFINE found == Named(a.sources, k.name)
<1>1. CASE found = {}
  <2>1. Progress(a, k) => Progress(a, To(k, "createSourceGroup"))
    BY ProgressOf, SameSelf, HookIsThere, NameIsFree DEF InChain, Chain
  <2> QED
    BY <1>1, <2>1, NextContinues, SameSelf DEF GetSourceGroups, InChain, Chain
<1>2. CASE found # {}
  <2> DEFINE m == [k EXCEPT !.sources = Oldest(found).id]
  <2>1. Oldest(found).id \in Ids
    BY <1>2, OldestIsOne DEF InChain, Account, Named
  <2>2. GetSourceGroups(a, k) = Outcome(a, To(m, "getTargetGroups"))
    BY <1>2 DEF GetSourceGroups
  <2>3. m \in CallRecord /\ SameCall(k, m) /\ m.answer = None /\ m.hook = k.hook
    BY <2>1, Remembers DEF InChain
  <2> HIDE DEF m
  <2>4. Progress(a, k) => Progress(a, To(m, "getTargetGroups"))
    BY <2>3, ProgressOf, HookIsThere, NameIsFree DEF Chain
  <2> QED
    BY <2>2, <2>3, <2>4, NextContinues DEF InChain, Chain
<1> QED
  BY <1>1, <1>2

LEMMA CreateSourceGroupContinues ==
  ASSUME NEW a, NEW k, InChain(a, k), k.pc = "createSourceGroup"
  PROVE  Continues(a, k, CreateSourceGroup(a, k))
<1> DEFINE g == [id |-> NextId(a), name |-> k.name]
           b == [a EXCEPT !.sources = @ \cup {g}]
           c == [b EXCEPT !.next = a.next + 1]
           m == [k EXCEPT !.sources = NextId(a)]
<1>1. NextId(a) \in Ids
  BY NextIdIsId DEF InChain
<1>2. g \in [id : Ids, name : Names]
  BY <1>1 DEF InChain
<1>3. CreateSourceGroup(a, k) = Outcome(c, To(m, "getTargetGroups"))
  BY DEF CreateSourceGroup, InChain, Account
<1> HIDE DEF g
<1>4. b \in Account /\ b.owner = a.owner /\ b.alerts = a.alerts /\ b.hooks = a.hooks
  BY <1>2 DEF InChain, Account
<1> HIDE DEF b
<1>5. c \in Account /\ c.owner = a.owner /\ c.alerts = a.alerts /\ c.hooks = a.hooks
  <2>1. a.next + 1 \in Nat
    BY DEF InChain, Account
  <2> QED
    BY <1>4, <2>1 DEF Account
<1>6. m \in CallRecord /\ SameCall(k, m) /\ m.answer = None /\ m.hook = k.hook
  BY <1>1, Remembers DEF InChain
<1> HIDE DEF c, m
<1>7. Progress(a, k) => Progress(c, To(m, "getTargetGroups"))
  BY <1>5, <1>6, ProgressOf, HookIsThere, NameIsFree DEF Chain
<1> QED
  BY <1>3, <1>5, <1>6, <1>7, NextContinues DEF Chain, InChain, BalanceIds

LEMMA GetTargetGroupsContinues ==
  ASSUME NEW a, NEW k, InChain(a, k), k.pc = "getTargetGroups"
  PROVE  Continues(a, k, GetTargetGroups(a, k))
<1> DEFINE found == Named(a.groups, k.name)
<1>1. CASE found = {}
  <2>1. Progress(a, k) => Progress(a, To(k, "createTargetGroup"))
    BY ProgressOf, SameSelf, HookIsThere, NameIsFree DEF InChain, Chain
  <2> QED
    BY <1>1, <2>1, NextContinues, SameSelf DEF GetTargetGroups, InChain, Chain
<1>2. CASE found # {}
  <2> DEFINE m == [k EXCEPT !.group = Oldest(found).id]
  <2>1. Oldest(found).id \in Ids
    BY <1>2, OldestIsOne DEF InChain, Account, Named
  <2>2. GetTargetGroups(a, k) = Outcome(a, To(m, "updateTargetGroup"))
    BY <1>2 DEF GetTargetGroups
  <2>3. m \in CallRecord /\ SameCall(k, m) /\ m.answer = None /\ m.hook = k.hook
    BY <2>1, Remembers DEF InChain
  <2> HIDE DEF m
  <2>4. Progress(a, k) => Progress(a, To(m, "updateTargetGroup"))
    BY <2>3, ProgressOf, HookIsThere, NameIsFree DEF Chain
  <2> QED
    BY <2>2, <2>3, <2>4, NextContinues DEF InChain, Chain
<1> QED
  BY <1>1, <1>2

LEMMA UpdateTargetGroupContinues ==
  ASSUME NEW a, NEW k, InChain(a, k), k.pc \in {"updateTargetGroup", "updateAlertTargets"}
  PROVE  Continues(a, k, UpdateTargetGroup(a, k))
<1>1. CASE ~(Known(a.hooks, k.hook) /\ Known(a.groups, k.group))
  BY <1>1, ThrowContinues DEF UpdateTargetGroup
<1>2. CASE Known(a.hooks, k.hook) /\ Known(a.groups, k.group)
  <2> DEFINE groups == {IF g.id = k.group THEN [g EXCEPT !.hook = k.hook] ELSE g : g \in a.groups}
             b == [a EXCEPT !.groups = groups]
  <2>1. PICK g \in a.groups : g.id = k.group
    BY <1>2 DEF Known
  <2>2. g \in [id : Ids, name : Names, hook : Ids \cup {None}] /\ k.hook \in Ids \cup {None}
    BY <2>1 DEF InChain, Account, CallRecord
  <2>3. [g EXCEPT !.hook = k.hook].id = k.group /\ [g EXCEPT !.hook = k.hook].hook = k.hook
    BY <2>1, <2>2
  <2>4. [g EXCEPT !.hook = k.hook] \in groups
    BY <2>1
  <2>5. groups \subseteq [id : Ids, name : Names, hook : Ids \cup {None}]
    BY <2>2 DEF InChain, Account
  <2>6. UpdateTargetGroup(a, k) =
          Outcome(b, IF k.pc = "updateAlertTargets" THEN Finish(k) ELSE To(k, "createAlert"))
    BY <1>2 DEF UpdateTargetGroup
  <2>7. \E h \in groups : h.id = k.group /\ h.hook = k.hook
    BY <2>3, <2>4
  <2> HIDE DEF groups
  <2>8. /\ b \in Account /\ b.owner = a.owner /\ b.alerts = a.alerts /\ b.hooks = a.hooks
        /\ b.groups = groups
    BY <2>5 DEF InChain, Account
  <2> HIDE DEF b
  <2>9. BalanceIds(b)
    BY <2>8 DEF InChain, BalanceIds
  <2>10. CASE k.pc = "updateTargetGroup"
    <3>1. Progress(a, k) => Progress(b, To(k, "createAlert"))
      BY <2>7, <2>8, <2>10, ProgressOf, SameSelf, HookIsThere, NameIsFree DEF InChain, Chain
    <3> QED
      BY <2>6, <2>8, <2>9, <2>10, <3>1, NextContinues, SameSelf DEF InChain, Chain
  <2>11. CASE k.pc = "updateAlertTargets"
    <3>1. ASSUME Progress(a, k) PROVE Delivered(b, k)
      <4>1. /\ Named(b.alerts, k.name) # {} /\ \A x \in Named(b.alerts, k.name) : x.id \in Ids
            /\ k.group = Oldest(Named(b.alerts, k.name)).group
        BY <2>8, <2>9, <2>11, <3>1 DEF Progress, BalanceIds, Named
      <4>2. Oldest(Named(b.alerts, k.name)) \in Named(b.alerts, k.name)
        BY <4>1, OldestIsOne
      <4>3. \E w \in b.hooks : w.id = k.hook /\ w.headers = k.headers
        BY <2>8, <2>11, <3>1, HookIsThere
      <4> QED
        BY <2>7, <2>8, <4>1, <4>2, <4>3 DEF Delivered
    <3> QED
      BY <2>6, <2>8, <2>9, <2>11, <3>1, FinishContinues
  <2> QED
    BY <2>10, <2>11
<1> QED
  BY <1>1, <1>2

LEMMA CreateTargetGroupContinues ==
  ASSUME NEW a, NEW k, InChain(a, k), k.pc = "createTargetGroup"
  PROVE  Continues(a, k, CreateTargetGroup(a, k))
<1>1. CASE ~Known(a.hooks, k.hook)
  BY <1>1, ThrowContinues DEF CreateTargetGroup
<1>2. CASE Known(a.hooks, k.hook)
  <2> DEFINE g == [id |-> NextId(a), name |-> k.name, hook |-> k.hook]
             b == [a EXCEPT !.groups = @ \cup {g}]
             c == [b EXCEPT !.next = a.next + 1]
             m == [k EXCEPT !.group = NextId(a)]
  <2>1. NextId(a) \in Ids
    BY NextIdIsId DEF InChain
  <2>2. g \in [id : Ids, name : Names, hook : Ids \cup {None}] /\ g.id = NextId(a) /\ g.hook = k.hook
    BY <2>1 DEF InChain, CallRecord
  <2>3. CreateTargetGroup(a, k) = Outcome(c, To(m, "createAlert"))
    BY <1>2 DEF CreateTargetGroup, InChain, Account
  <2> HIDE DEF g
  <2>4. /\ b \in Account /\ b.owner = a.owner /\ b.alerts = a.alerts /\ b.hooks = a.hooks
        /\ g \in b.groups
    BY <2>2 DEF InChain, Account
  <2> HIDE DEF b
  <2>5. a.next + 1 \in Nat
    BY DEF InChain, Account
  <2>6. /\ c \in Account /\ c.owner = a.owner /\ c.alerts = a.alerts /\ c.hooks = a.hooks
        /\ g \in c.groups
    BY <2>4, <2>5 DEF Account
  <2>7. /\ m \in CallRecord /\ SameCall(k, m) /\ m.answer = None
        /\ m.hook = k.hook /\ m.group = NextId(a)
    BY <2>1, Remembers DEF InChain
  <2> HIDE DEF c, m
  <2>8. Progress(a, k) => Progress(c, To(m, "createAlert"))
    BY <2>2, <2>6, <2>7, ProgressOf, HookIsThere, NameIsFree DEF Chain
  <2> QED
    BY <2>3, <2>6, <2>7, <2>8, NextContinues DEF Chain, InChain, BalanceIds
<1> QED
  BY <1>1, <1>2

LEMMA CreateAlertContinues ==
  ASSUME NEW a, NEW k, InChain(a, k), k.pc = "createAlert"
  PROVE  Continues(a, k, CreateAlert(a, k))
<1>1. CASE ~(Known(a.groups, k.group) /\ Known(a.sources, k.sources))
  BY <1>1, ThrowContinues DEF CreateAlert
<1>2. CASE Known(a.groups, k.group) /\ Known(a.sources, k.sources)
  <2> DEFINE x == [id |-> NextId(a), name |-> k.name, balance |-> TRUE, group |-> k.group]
             b == [a EXCEPT !.alerts = @ \cup {x}]
             c == [b EXCEPT !.next = a.next + 1]
  <2>1. NextId(a) \in Ids
    BY NextIdIsId DEF InChain
  <2>2. /\ x \in [id : Ids \cup {None}, name : Names, balance : BOOLEAN, group : Ids \cup {None}]
        /\ x.id \in Ids /\ x.name = k.name /\ x.group = k.group
    BY <2>1 DEF InChain, CallRecord
  <2>3. CreateAlert(a, k) = Outcome(c, Finish(k))
    BY <1>2 DEF CreateAlert, InChain, Account
  <2> HIDE DEF x
  <2>4. /\ b \in Account /\ b.owner = a.owner /\ b.hooks = a.hooks /\ b.groups = a.groups
        /\ b.alerts = a.alerts \cup {x}
    BY <2>2 DEF InChain, Account
  <2> HIDE DEF b
  <2>5. a.next + 1 \in Nat
    BY DEF InChain, Account
  <2>6. /\ c \in Account /\ c.owner = a.owner /\ c.hooks = a.hooks /\ c.groups = a.groups
        /\ c.alerts = a.alerts \cup {x}
    BY <2>4, <2>5 DEF Account
  <2> HIDE DEF c
  <2>7. BalanceIds(c)
    BY <2>2, <2>6 DEF InChain, BalanceIds
  <2>8. ASSUME Progress(a, k) PROVE Delivered(c, k)
    <3>1. Named(c.alerts, k.name) = {x}
      BY <1>2, <2>2, <2>6, <2>8, NameIsFree DEF Named
    <3>2. Oldest(Named(c.alerts, k.name)) = x
      BY <2>2, <3>1, OldestOfOne
    <3>3. \E w \in c.hooks : w.id = k.hook /\ w.headers = k.headers
      BY <2>6, <2>8, HookIsThere
    <3>4. \E g \in c.groups : g.id = k.group /\ g.hook = k.hook
      BY <2>6, <2>8 DEF Progress, HasGroup
    <3> QED
      BY <2>2, <3>1, <3>2, <3>3, <3>4 DEF Delivered
  <2> QED
    BY <2>3, <2>6, <2>7, <2>8, FinishContinues
<1> QED
  BY <1>1, <1>2

LEMMA ServedContinues ==
  ASSUME NEW a, NEW k, InChain(a, k)
  PROVE  Continues(a, k, Served(a, k))
<1>1. k.pc \in Chain
  BY DEF InChain
<1>2. CASE k.pc = "getWebhookTargets"
  BY <1>2, GetWebhookTargetsContinues DEF Served
<1>3. CASE k.pc = "deleteWebhookTarget"
  BY <1>3, DeleteWebhookTargetContinues DEF Served
<1>4. CASE k.pc = "createWebhookTarget"
  BY <1>4, CreateWebhookTargetContinues DEF Served
<1>5. CASE k.pc = "getAlerts"
  BY <1>5, GetAlertsContinues DEF Served
<1>6. CASE k.pc = "getFilters"
  BY <1>6, GetFiltersContinues DEF Served
<1>7. CASE k.pc = "getSourceGroups"
  BY <1>7, GetSourceGroupsContinues DEF Served
<1>8. CASE k.pc = "createSourceGroup"
  BY <1>8, CreateSourceGroupContinues DEF Served
<1>9. CASE k.pc = "getTargetGroups"
  BY <1>9, GetTargetGroupsContinues DEF Served
<1>10. CASE k.pc \in {"updateTargetGroup", "updateAlertTargets"}
  BY <1>10, UpdateTargetGroupContinues DEF Served
<1>11. CASE k.pc = "createTargetGroup"
  BY <1>11, CreateTargetGroupContinues DEF Served
<1>12. CASE k.pc = "createAlert"
  BY <1>12, CreateAlertContinues DEF Served
<1> QED
  BY <1>1, <1>2, <1>3, <1>4, <1>5, <1>6, <1>7, <1>8, <1>9, <1>10, <1>11, <1>12 DEF Chain

-----------------------------------------------------------------------------
(* The steps of the calls                                                  *)

\* All of the invariant but the counters.
Core ==
  /\ jwt \in [Services -> Tokens \cup {None}]
  /\ calls \in [Calls -> CallRecord]
  /\ accounts \in [Tokens -> Account] /\ \A t \in Tokens : accounts[t].owner = t
  /\ Shapes /\ RequestCarriesToken /\ ChainHasToken /\ Alone /\ BalanceHasId
  /\ ChainProgress

\* A call that is running goes on or ends.
LEMMA RunningStep ==
  ASSUME Core, NEW c \in Calls, Running(c), jwt' = jwt,
         NEW l, calls' = [calls EXCEPT ![c] = l],
         EndsWith(calls[c], l) \/ (calls[c].op = Balance /\ GoesTo(calls[c], l, Chain)),
         accounts' \in [Tokens -> Account], \A t \in Tokens : accounts'[t].owner = t,
         BalanceHasId',
         calls[c].op = Balance /\ calls[c].alone => Progress(accounts'[calls[c].token], l)
  PROVE  Core'
<1> DEFINE k == calls[c]
<1>1. k \in CallRecord /\ k.pc # "idle"
  BY DEF Core, Running
<1>2. /\ l \in CallRecord
      /\ l.pc = "idle" \/ (k.op = Balance /\ GoesTo(k, l, Chain))
      /\ k.op = Balance =>
           /\ l.op = Balance /\ l.svc = k.svc /\ l.token = k.token /\ l.name = k.name
           /\ l.headers = k.headers /\ l.alone = k.alone
      /\ l.mixed => k.mixed
      /\ k.op # Balance => l.op = None /\ l.svc = Shared
  <2>1. CASE EndsWith(k, l)
    BY <1>1, <2>1, Ends DEF EndsWith, Core, Shapes
  <2>2. CASE k.op = Balance /\ GoesTo(k, l, Chain)
    BY <1>1, <2>2 DEF GoesTo, SameCall
  <2> QED
    BY <2>1, <2>2
<1>3. calls' \in [Calls -> CallRecord] /\ calls'[c] = l /\ \A d \in Calls : d # c => calls'[d] = calls[d]
  BY <1>2 DEF Core
<1> HIDE DEF k
<1>4. Shapes'
  <2>1. l.svc \in {Shared, c}
    BY <1>2 DEF k, Core, Shapes
  <2>2. l.pc # "idle" => l.op = Balance /\ l.pc \in Chain /\ l.answer = None
    BY <1>2 DEF GoesTo, k, Core, Shapes, Running
  <2>3. l.op = Balance =>
          l.svc = Shared /\ l.token \in Tokens /\ l.name \in Names /\ l.headers \in Headers
    BY <1>2, NoneIsNone DEF k, Core, Shapes
  <2>4. Balance # None
    BY NoneIsNone
  <2> QED
    BY <1>3, <2>1, <2>2, <2>3, <2>4 DEF Core, Shapes, Running
<1>5. RequestCarriesToken'
  <2>1. l.pc # "idle" => l.sent = l.token \/ (l.op = Balance /\ l.svc = Shared /\ l.mixed)
    <3>1. SUFFICES ASSUME l.pc # "idle" PROVE l.sent = l.token \/ (l.op = Balance /\ l.svc = Shared /\ l.mixed)
      OBVIOUS
    <3>2. l.sent = jwt[k.svc] /\ l.mixed = k.mixed /\ l.token = k.token /\ k.op = Balance /\ l.op = Balance
          /\ l.svc = k.svc
      BY <1>2, <3>1 DEF GoesTo, SameCall
    <3>3. k.svc = Shared /\ (jwt[Shared] = k.token \/ k.mixed)
      BY <3>2 DEF Core, Shapes, ChainHasToken, k
    <3> QED
      BY <3>2, <3>3
  <2> QED
    BY <1>3, <2>1 DEF Core, RequestCarriesToken, Running
<1>6. ChainHasToken'
  <2>1. l.pc # "idle" => l.mixed = k.mixed /\ k.op = Balance /\ l.token = k.token
    BY <1>2 DEF GoesTo, SameCall
  <2>2. k.op = Balance => jwt[Shared] = k.token \/ k.mixed
    BY DEF Core, ChainHasToken, k
  <2> QED
    BY <1>3, <2>1, <2>2 DEF Core, ChainHasToken, Running
<1>7. \A d \in Calls : d # c => ~(calls[d].op = Balance /\ calls[d].alone)
  BY DEF Core, Alone
<1>8. Alone'
  <2>1. l.op = Balance => k.op = Balance
    BY <1>2, NoneIsNone
  <2>2. l.op = Balance /\ l.alone => ~l.mixed /\ \A d \in Calls : d # c => calls[d].pc = "idle"
    BY <1>2, <2>1 DEF Core, Alone, Running, k
  <2> QED
    BY <1>3, <1>7, <2>2 DEF Alone, Running
<1>9. ChainProgress'
  <2>1. l.op = Balance => k.op = Balance
    BY <1>2, NoneIsNone
  <2>2. l.op = Balance /\ l.alone => Progress(accounts'[l.token], l)
    BY <1>2, <2>1 DEF k
  <2>3. ASSUME NEW d \in Calls, calls'[d].op = Balance, calls'[d].alone
        PROVE  d = c
    BY <1>3, <1>7, <2>3
  <2>4. ASSUME NEW d \in Calls, calls'[d].op = Balance, calls'[d].alone
        PROVE  Progress(accounts'[calls'[d].token], calls'[d])
    BY <1>3, <2>2, <2>3, <2>4
  <2> QED
    BY <2>4 DEF ChainProgress, Progress, HasHook, HasGroup, Delivered
<1> QED
  BY <1>3, <1>4, <1>5, <1>6, <1>8, <1>9 DEF Core

\* What the service makes of a request, whosever account it goes to.
LEMMA Requested ==
  ASSUME Core, NEW c \in Calls, Running(c), NEW t \in Tokens
  PROVE  LET out == Served(accounts[t], calls[c]) IN
         /\ EndsWith(calls[c], out.call) \/ (calls[c].op = Balance /\ GoesTo(calls[c], out.call, Chain))
         /\ out.account \in Account /\ out.account.owner = t /\ BalanceIds(out.account)
         /\ calls[c].op = Balance /\ calls[c].alone /\ t = calls[c].token =>
              Progress(out.account, out.call)
<1> DEFINE k == calls[c]
           a == accounts[t]
           out == Served(a, k)
<1>1. /\ a \in Account /\ a.owner = t /\ BalanceIds(a) /\ k \in CallRecord
      /\ jwt \in [Services -> Tokens \cup {None}]
  BY DEF Core, BalanceHasId
<1>2. CASE k.op # Balance
  <2>1. k.pc = "request"
    BY <1>2 DEF Core, Shapes
  <2>2. out = Outcome(a, Finish(k))
    BY <2>1 DEF Served
  <2>3. out.account = a /\ out.call = Settled(k, "ok")
    BY <2>2, OutcomeParts DEF Finish
  <2>4. EndsWith(k, out.call)
    BY <2>3 DEF EndsWith
  <2> HIDE DEF out, a, k
  <2> QED
    BY <1>1, <1>2, <2>3, <2>4 DEF out, a, k
<1>3. CASE k.op = Balance
  <2>1. InChain(a, k)
    BY <1>1, <1>3 DEF InChain, Core, Shapes
  <2>2. Continues(a, k, out)
    BY <2>1, ServedContinues
  <2>3. k.alone /\ t = k.token => Progress(a, k)
    BY <1>3 DEF Core, ChainProgress
  <2> HIDE DEF out, a, k
  <2> QED
    BY <1>1, <1>3, <2>2, <2>3 DEF Continues, out, a, k
<1> QED
  BY <1>2, <1>3

LEMMA ServeStep ==
  ASSUME Core, NEW c \in Calls, Serve(c)
  PROVE  Core'
<1> DEFINE t == calls[c].sent
           out == Served(accounts[t], calls[c])
<1>1. /\ Running(c) /\ t \in Tokens /\ jwt' = jwt
      /\ accounts' = [accounts EXCEPT ![t] = out.account]
      /\ calls' = [calls EXCEPT ![c] = out.call]
  BY DEF Serve, Core, CallRecord
<1>2. /\ EndsWith(calls[c], out.call) \/ (calls[c].op = Balance /\ GoesTo(calls[c], out.call, Chain))
      /\ out.account \in Account /\ out.account.owner = t /\ BalanceIds(out.account)
      /\ calls[c].op = Balance /\ calls[c].alone /\ t = calls[c].token =>
           Progress(out.account, out.call)
  BY <1>1, Requested
<1>3. calls[c].op = Balance /\ calls[c].alone => t = calls[c].token
  BY <1>1, TenantAssumption DEF Core, Alone, RequestCarriesToken, TokenlessOps, Balance
<1> HIDE DEF out
<1>4. /\ accounts' \in [Tokens -> Account] /\ accounts'[t] = out.account
      /\ \A u \in Tokens : u # t => accounts'[u] = accounts[u]
  BY <1>1, <1>2 DEF Core
<1>5. BalanceHasId' /\ \A u \in Tokens : accounts'[u].owner = u
  BY <1>2, <1>4 DEF Core, BalanceHasId, BalanceIds
<1>6. calls[c].op = Balance /\ calls[c].alone => Progress(accounts'[calls[c].token], out.call)
  BY <1>2, <1>3, <1>4
<1> QED
  BY <1>1, <1>2, <1>4, <1>5, <1>6, RunningStep

LEMMA EndsWithoutProgress ==
  ASSUME Core, NEW c \in Calls, NEW a
  PROVE  Progress(a, Throw(calls[c]))
<1>1. Throw(calls[c]).pc = "idle" /\ Throw(calls[c]).answer = "thrown"
  BY Ends DEF Core, Throw
<1> QED
  BY <1>1 DEF Progress, Chain

LEMMA ServeAnonymousStep ==
  ASSUME Core, NEW c \in Calls, ServeAnonymous(c)
  PROVE  Core'
<1> DEFINE l == Throw(calls[c])
<1>1. Running(c) /\ UNCHANGED <<jwt, accounts>> /\ calls' = [calls EXCEPT ![c] = l]
  BY DEF ServeAnonymous
<1>2. EndsWith(calls[c], l)
  BY DEF EndsWith, Throw
<1>4. calls[c].op = Balance /\ calls[c].alone => Progress(accounts'[calls[c].token], l)
  <2>1. PICK a : a = accounts'[calls[c].token]
    OBVIOUS
  <2> QED
    BY <2>1, EndsWithoutProgress
<1> HIDE DEF l
<1>5. BalanceHasId'
  BY <1>1 DEF Core, BalanceHasId, BalanceIds
<1> QED
  BY <1>1, <1>2, <1>4, <1>5, RunningStep DEF Core

LEMMA FailStep ==
  ASSUME Core, NEW c \in Calls, Fail(c)
  PROVE  Core'
<1> DEFINE t == calls[c].sent
           l == Throw(calls[c])
<1>1. Running(c) /\ jwt' = jwt /\ calls' = [calls EXCEPT ![c] = l]
  BY DEF Fail
<1>2. EndsWith(calls[c], l)
  BY DEF EndsWith, Throw
<1>3. calls[c].op = Balance /\ calls[c].alone => Progress(accounts'[calls[c].token], l)
  <2>1. PICK a : a = accounts'[calls[c].token]
    OBVIOUS
  <2> QED
    BY <2>1, EndsWithoutProgress
<1> HIDE DEF l
<1>4. CASE accounts' = accounts
  <2>1. BalanceHasId'
    BY <1>4 DEF Core, BalanceHasId, BalanceIds
  <2> QED
    BY <1>1, <1>2, <1>3, <1>4, <2>1, RunningStep DEF Core
<1>5. CASE t # None /\ accounts' = [accounts EXCEPT ![t] = Served(@, calls[c]).account]
  <2> DEFINE b == Served(accounts[t], calls[c]).account
  <2>1. t \in Tokens
    BY <1>5 DEF Core, CallRecord
  <2>2. b \in Account /\ b.owner = t /\ BalanceIds(b)
    BY <1>1, <2>1, Requested
  <2>3. accounts' = [accounts EXCEPT ![t] = b]
    BY <1>5
  <2> HIDE DEF b
  <2>4. /\ accounts' \in [Tokens -> Account] /\ accounts'[t] = b
        /\ \A u \in Tokens : u # t => accounts'[u] = accounts[u]
    BY <2>1, <2>2, <2>3 DEF Core
  <2>5. BalanceHasId' /\ \A u \in Tokens : accounts'[u].owner = u
    BY <2>2, <2>4 DEF Core, BalanceHasId, BalanceIds
  <2> QED
    BY <1>1, <1>2, <1>3, <2>4, <2>5, RunningStep
<1> QED
  BY <1>4, <1>5 DEF Fail

\* A call that ends before it touches the service.
LEMMA EndAtOnceStep ==
  ASSUME Core, NEW c \in Calls, NEW answer \in {"thrown", "unauthorized"} \cup Refusals,
         EndAtOnce(c, answer)
  PROVE  Core'
<1> DEFINE l == [IdleCall EXCEPT !.answer = answer]
<1>1. l \in CallRecord /\ l.pc = "idle" /\ l.op = None /\ l.svc = Shared
  BY IdleType DEF CallRecord
<1>2. ~Running(c) /\ UNCHANGED <<jwt, accounts>> /\ calls' = [calls EXCEPT ![c] = l]
  BY DEF EndAtOnce, CanStart
<1> HIDE DEF l
<1>3. calls' \in [Calls -> CallRecord] /\ calls'[c] = l /\ \A d \in Calls : d # c => calls'[d] = calls[d]
  BY <1>1, <1>2 DEF Core
<1>4. l.op # Balance
  BY <1>1, NoneIsNone
<1>5. Shapes' /\ RequestCarriesToken' /\ ChainHasToken'
  BY <1>1, <1>2, <1>3, <1>4 DEF Core, Shapes, RequestCarriesToken, ChainHasToken, Running
<1>6. Alone'
  BY <1>1, <1>3, <1>4 DEF Core, Alone, Running
<1>7. BalanceHasId'
  BY <1>2 DEF Core, BalanceHasId, BalanceIds
<1>8. ChainProgress'
  <2>1. ASSUME NEW d \in Calls, calls'[d].op = Balance, calls'[d].alone
        PROVE  Progress(accounts'[calls'[d].token], calls'[d])
    <3>1. calls'[d] = calls[d] /\ accounts' = accounts
      BY <1>2, <1>3, <1>4, <2>1
    <3>2. Progress(accounts[calls[d].token], calls[d])
      BY <2>1, <3>1 DEF Core, ChainProgress
    <3> QED
      BY <3>1, <3>2
  <2> QED
    BY <2>1 DEF ChainProgress, Progress, HasHook, HasGroup, Delivered
<1> QED
  BY <1>2, <1>3, <1>5, <1>6, <1>7, <1>8 DEF Core

\* What the other calls remember of one that begins.
DisturbedCall(k, p, q) == [k EXCEPT !.alone = p, !.mixed = q]

LEMMA Disturbed ==
  ASSUME NEW k \in CallRecord, NEW p \in BOOLEAN, NEW q \in BOOLEAN
  PROVE  LET l == DisturbedCall(k, p, q) IN
         /\ l \in CallRecord /\ l.alone = p /\ l.mixed = q
         /\ l.pc = k.pc /\ l.op = k.op /\ l.token = k.token /\ l.sent = k.sent /\ l.svc = k.svc
         /\ l.name = k.name /\ l.headers = k.headers /\ l.answer = k.answer
<1> DEFINE l1 == [k EXCEPT !.alone = p]
           l2 == [l1 EXCEPT !.mixed = q]
<1>1. /\ l1 \in CallRecord /\ l1.alone = p
      /\ l1.pc = k.pc /\ l1.op = k.op /\ l1.token = k.token /\ l1.sent = k.sent /\ l1.svc = k.svc
      /\ l1.name = k.name /\ l1.headers = k.headers /\ l1.answer = k.answer
  BY DEF CallRecord
<1>2. DisturbedCall(k, p, q) = l2
  BY DEF CallRecord, DisturbedCall
<1> HIDE DEF l1
<1>3. /\ l2 \in CallRecord /\ l2.alone = p /\ l2.mixed = q
      /\ l2.pc = k.pc /\ l2.op = k.op /\ l2.token = k.token /\ l2.sent = k.sent /\ l2.svc = k.svc
      /\ l2.name = k.name /\ l2.headers = k.headers /\ l2.answer = k.answer
  BY <1>1 DEF CallRecord
<1> HIDE DEF l2
<1> QED
  BY <1>2, <1>3

\* What the call d keeps when another call leaves the service s as it is in set.
AsBefore(d, k, s, set) ==
  /\ k \in CallRecord
  /\ k.alone => calls[d].op # Balance
  /\ calls[d].mixed => k.mixed
  /\ calls[d].op = Balance /\ calls[d].svc = s /\ set[s] # calls[d].token => k.mixed
  /\ k.pc = calls[d].pc /\ k.op = calls[d].op
  /\ k.token = calls[d].token /\ k.sent = calls[d].sent
  /\ k.svc = calls[d].svc /\ k.name = calls[d].name
  /\ k.headers = calls[d].headers /\ k.answer = calls[d].answer

LEMMA Others ==
  ASSUME Core, NEW s, NEW set, NEW c \in Calls, NEW l,
         calls' = [Disturb(s, set) EXCEPT ![c] = l],
         NEW d \in Calls, d # c
  PROVE  AsBefore(d, calls'[d], s, set)
<1> DEFINE p == calls[d].alone /\ calls[d].op # Balance
           q == calls[d].mixed \/ Overtaken(calls[d], s, set)
<1>1. calls[d] \in CallRecord
  BY DEF Core
<1>2. p \in BOOLEAN /\ q \in BOOLEAN
  BY <1>1 DEF Overtaken, CallRecord
<1>3. calls'[d] = DisturbedCall(calls[d], p, q)
  BY DEF Disturb, DisturbedCall
<1>4. /\ p => calls[d].op # Balance
      /\ calls[d].mixed => q
      /\ calls[d].op = Balance /\ calls[d].svc = s /\ set[s] # calls[d].token => q
  BY DEF Overtaken
<1> HIDE DEF p, q
<1>5. /\ calls'[d] \in CallRecord /\ calls'[d].alone = p /\ calls'[d].mixed = q
      /\ calls'[d].pc = calls[d].pc /\ calls'[d].op = calls[d].op
      /\ calls'[d].token = calls[d].token /\ calls'[d].sent = calls[d].sent
      /\ calls'[d].svc = calls[d].svc /\ calls'[d].name = calls[d].name
      /\ calls'[d].headers = calls[d].headers /\ calls'[d].answer = calls[d].answer
  BY <1>1, <1>2, <1>3, Disturbed
<1> QED
  BY <1>4, <1>5 DEF AsBefore

\* The answer of a log-in leaves its token in the service.
LEMMA AnswerLogInStep ==
  ASSUME Core, NEW c \in Calls, AnswerLogIn(c)
  PROVE  Core'
<1> DEFINE s == calls[c].svc
           set == SetJwt(jwt, s, calls[c].token)
           l == Finish(calls[c])
<1>1. /\ Running(c) /\ calls[c].op = "logIn" /\ accounts' = accounts /\ jwt' = set
      /\ calls' = [Disturb(s, set) EXCEPT ![c] = l]
  BY DEF AnswerLogIn
<1>2. calls[c] \in CallRecord /\ calls[c].op # Balance /\ s \in {Shared, c}
  BY <1>1 DEF Core, Shapes, Balance
<1>3. l \in CallRecord /\ l.pc = "idle" /\ l.svc = Shared /\ l.op = None
  BY <1>2, Ends DEF Finish
<1>4. /\ set \in [Services -> Tokens \cup {None}]
      /\ \A v \in Services : v # s => set[v] = jwt[v]
  BY <1>2 DEF SetJwt, Core, CallRecord
<1> HIDE DEF set, l
<1>5. \A d \in Calls : d # c => AsBefore(d, calls'[d], s, set)
  BY <1>1, Others
<1>6. calls'[c] = l /\ calls' \in [Calls -> CallRecord]
  <2>1. calls'[c] = l /\ calls' = [d \in Calls |-> calls'[d]]
    BY <1>1 DEF Disturb
  <2>2. \A d \in Calls : calls'[d] \in CallRecord
    BY <1>3, <1>5, <2>1 DEF AsBefore
  <2> QED
    BY <2>1, <2>2
<1>7. l.op # Balance
  BY <1>3, NoneIsNone
<1>8. Shapes'
  <2>1. ASSUME NEW d \in Calls, d # c
        PROVE  /\ calls'[d].svc \in {Shared, d}
               /\ calls'[d].pc # "idle" => calls'[d].answer = None
               /\ calls'[d].pc # "idle" /\ calls'[d].op = Balance => calls'[d].pc \in Chain
               /\ calls'[d].pc # "idle" /\ calls'[d].op # Balance => calls'[d].pc = "request"
               /\ calls'[d].op = Balance =>
                    /\ calls'[d].svc = Shared /\ calls'[d].token \in Tokens
                    /\ calls'[d].name \in Names /\ calls'[d].headers \in Headers
    BY <1>5, <2>1 DEF Core, Shapes, Running, AsBefore
  <2> QED
    BY <1>3, <1>6, <1>7, <2>1 DEF Shapes, Running
<1>9. RequestCarriesToken'
  <2>1. ASSUME NEW d \in Calls, d # c, calls'[d].pc # "idle", calls'[d].op \notin TokenlessOps
        PROVE  \/ calls'[d].sent = calls'[d].token
               \/ calls'[d].op = Balance /\ calls'[d].svc = Shared /\ calls'[d].mixed
    <3>1. AsBefore(d, calls'[d], s, set)
      BY <1>5, <2>1
    <3>2. \/ calls[d].sent = calls[d].token
          \/ calls[d].op = Balance /\ calls[d].svc = Shared /\ calls[d].mixed
      BY <2>1, <3>1 DEF Core, RequestCarriesToken, Running, AsBefore
    <3>3. CASE calls[d].sent = calls[d].token
      BY <3>1, <3>3 DEF AsBefore
    <3>4. CASE calls[d].op = Balance /\ calls[d].svc = Shared /\ calls[d].mixed
      BY <3>1, <3>4 DEF AsBefore
    <3> QED
      BY <3>2, <3>3, <3>4
  <2> QED
    BY <1>3, <1>6, <2>1 DEF RequestCarriesToken, Running
<1>10. ChainHasToken'
  <2>1. ASSUME NEW d \in Calls, d # c, calls'[d].pc # "idle", calls'[d].op = Balance
        PROVE  set[Shared] = calls'[d].token \/ calls'[d].mixed
    <3>1. AsBefore(d, calls'[d], s, set)
      BY <1>5, <2>1
    <3>2. calls[d].svc = Shared /\ (jwt[Shared] = calls[d].token \/ calls[d].mixed)
      BY <2>1, <3>1 DEF Core, Shapes, ChainHasToken, Running, AsBefore
    <3>3. s # Shared => set[Shared] = jwt[Shared]
      BY <1>4 DEF Services
    <3> QED
      BY <2>1, <3>1, <3>2, <3>3 DEF AsBefore
  <2> QED
    BY <1>1, <1>3, <1>6, <2>1 DEF ChainHasToken, Running
<1>11. \A d \in Calls : ~(calls'[d].op = Balance /\ calls'[d].alone)
  BY <1>5, <1>6, <1>7 DEF AsBefore
<1>12. Alone'
  BY <1>11 DEF Alone
<1>13. ChainProgress'
  BY <1>11 DEF ChainProgress
<1>14. BalanceHasId'
  BY <1>1 DEF Core, BalanceHasId, BalanceIds
<1> QED
  BY <1>1, <1>4, <1>6, <1>8, <1>9, <1>10, <1>12, <1>13, <1>14 DEF Core

\* What a call looks like whose first request has gone out.
Begun(l, call, op, service) ==
  /\ l \in CallRecord /\ l.pc # "idle" /\ l.answer = None /\ ~l.mixed
  /\ l.svc = call.svc /\ l.token = call.token /\ l.name = call.name /\ l.headers = call.headers
  /\ l.op = Balance <=> op = Balance
  /\ IF op = Balance THEN l.pc = "getWebhookTargets" ELSE l.pc = "request"
  /\ l.op \notin TokenlessOps => l.sent = service[call.svc] /\ op \notin TokenlessOps

BegunCall(call, op, service, alone) ==
  [call EXCEPT !.pc = IF op = Balance THEN "getWebhookTargets" ELSE "request",
               !.op = IF op \in SingleOps \ TokenlessOps THEN "single" ELSE op,
               !.sent = RequestHeaders(service, call.svc),
               !.alone = alone]

LEMMA BegunType ==
  ASSUME NEW call \in CallRecord, call.answer = None, ~call.mixed,
         NEW op \in SingleOps \cup {Balance},
         NEW service \in [Services -> Tokens \cup {None}], NEW alone \in BOOLEAN
  PROVE  /\ Begun(BegunCall(call, op, service, alone), call, op, service)
         /\ BegunCall(call, op, service, alone).alone = alone
<1> DEFINE pc == IF op = Balance THEN "getWebhookTargets" ELSE "request"
           o == IF op \in SingleOps \ TokenlessOps THEN "single" ELSE op
           sent == RequestHeaders(service, call.svc)
           l1 == [call EXCEPT !.pc = pc]
           l2 == [l1 EXCEPT !.op = o]
           l3 == [l2 EXCEPT !.sent = sent]
           l4 == [l3 EXCEPT !.alone = alone]
           l == BegunCall(call, op, service, alone)
<1>1. Balance \notin SingleOps
  BY DEF Balance, SingleOps, SendOps, UserOps, SourceGroupOps, TokenlessOps
<1>2. o \in TokenlessOps \cup {"single", Balance} /\ (o = Balance <=> op = Balance)
      /\ (o \notin TokenlessOps => op \notin TokenlessOps)
  BY <1>1 DEF Balance, SingleOps, TokenlessOps
<1>3. sent = service[call.svc] /\ sent \in Tokens \cup {None}
  BY DEF RequestHeaders, CallRecord
<1>4. pc \in {"idle", "request"} \cup Chain /\ pc # "idle"
  BY DEF Chain
<1>6. l = l4
  BY DEF CallRecord, BegunCall
<1> HIDE DEF pc, o, sent
<1>7. /\ l1 \in CallRecord /\ l1.pc = pc /\ l1.answer = None /\ ~l1.mixed /\ l1.svc = call.svc
      /\ l1.token = call.token /\ l1.name = call.name /\ l1.headers = call.headers
  BY <1>4 DEF CallRecord
<1> HIDE DEF l1
<1>8. /\ l2 \in CallRecord /\ l2.pc = pc /\ l2.answer = None /\ ~l2.mixed /\ l2.svc = call.svc
      /\ l2.token = call.token /\ l2.name = call.name /\ l2.headers = call.headers /\ l2.op = o
  BY <1>2, <1>7 DEF CallRecord
<1> HIDE DEF l2
<1>9. /\ l3 \in CallRecord /\ l3.pc = pc /\ l3.answer = None /\ ~l3.mixed /\ l3.svc = call.svc
      /\ l3.token = call.token /\ l3.name = call.name /\ l3.headers = call.headers /\ l3.op = o
      /\ l3.sent = sent
  BY <1>3, <1>8 DEF CallRecord
<1> HIDE DEF l3
<1>10. /\ l4 \in CallRecord /\ l4.pc = pc /\ l4.answer = None /\ ~l4.mixed /\ l4.svc = call.svc
       /\ l4.token = call.token /\ l4.name = call.name /\ l4.headers = call.headers /\ l4.op = o
       /\ l4.sent = sent /\ l4.alone = alone
  BY <1>9 DEF CallRecord
<1> HIDE DEF l4
<1>11. Begun(l4, call, op, service) /\ l4.alone = alone
  BY <1>2, <1>3, <1>4, <1>10 DEF Begun, pc
<1> QED
  BY <1>6, <1>11

\* A method, or a handler, begins: it may leave its token in the service.
LEMMA InvokeStep ==
  ASSUME Core, NEW c \in Calls, ~Running(c),
         NEW op \in SingleOps \cup {Balance},
         NEW call \in CallRecord, call.answer = None, ~call.mixed, call.token \in Tokens,
         call.svc \in {Shared, c},
         op = Balance => call.svc = Shared /\ call.name \in Names /\ call.headers \in Headers,
         NEW service \in [Services -> Tokens \cup {None}],
         \A s \in Services : s # c => service[s] = jwt[s],
         Invoke(c, op, call, service), accounts' = accounts
  PROVE  Core'
<1> DEFINE s == call.svc
           set == IF op \in TokenlessOps THEN service ELSE SetJwt(service, s, call.token)
           alone == \A d \in Calls \ {c} : ~Running(d)
           l == BegunCall(call, op, set, alone)
<1>1. s \in Services /\ Shared \in Services /\ c \in Services /\ Shared # c
  BY TenantAssumption DEF Services, Shared
<1>2. /\ set \in [Services -> Tokens \cup {None}]
      /\ op \notin TokenlessOps => set[s] = call.token
      /\ \A v \in Services : v # s /\ v # c => set[v] = jwt[v]
  BY <1>1 DEF SetJwt
<1>3. jwt' = set /\ calls' = [Disturb(s, set) EXCEPT ![c] = l]
  BY DEF Invoke, BegunCall
<1>4. alone \in BOOLEAN
  OBVIOUS
<1> HIDE DEF set, alone
<1>5. Begun(l, call, op, set) /\ l.alone = alone
  BY <1>2, <1>4, BegunType
<1> HIDE DEF l
<1>6. ASSUME NEW d \in Calls, d # c
      PROVE  AsBefore(d, calls'[d], s, set)
  BY <1>3, <1>6, Others
<1>7. calls'[c] = l /\ calls' \in [Calls -> CallRecord]
  <2>1. calls'[c] = l /\ DOMAIN calls' = Calls /\ calls' = [d \in Calls |-> calls'[d]]
    BY <1>3 DEF Disturb
  <2>2. \A d \in Calls : calls'[d] \in CallRecord
    BY <1>5, <1>6, <2>1 DEF Begun, AsBefore
  <2> QED
    BY <2>1, <2>2
<1>8. Shapes'
  <2>1. ASSUME NEW d \in Calls, d # c
        PROVE  /\ calls'[d].svc \in {Shared, d}
               /\ calls'[d].pc # "idle" => calls'[d].answer = None
               /\ calls'[d].pc # "idle" /\ calls'[d].op = Balance => calls'[d].pc \in Chain
               /\ calls'[d].pc # "idle" /\ calls'[d].op # Balance => calls'[d].pc = "request"
               /\ calls'[d].op = Balance =>
                    /\ calls'[d].svc = Shared /\ calls'[d].token \in Tokens
                    /\ calls'[d].name \in Names /\ calls'[d].headers \in Headers
    BY <1>6, <2>1 DEF Core, Shapes, Running, AsBefore
  <2>2. /\ l.svc \in {Shared, c} /\ l.answer = None
        /\ l.op = Balance => l.pc \in Chain
        /\ l.op # Balance => l.pc = "request"
        /\ l.op = Balance =>
             l.svc = Shared /\ l.token \in Tokens /\ l.name \in Names /\ l.headers \in Headers
    BY <1>5 DEF Begun, Chain
  <2> QED
    BY <1>7, <2>1, <2>2 DEF Shapes, Running
<1>9. RequestCarriesToken'
  <2>1. ASSUME NEW d \in Calls, d # c, calls'[d].pc # "idle", calls'[d].op \notin TokenlessOps
        PROVE  \/ calls'[d].sent = calls'[d].token
               \/ calls'[d].op = Balance /\ calls'[d].svc = Shared /\ calls'[d].mixed
    <3>1. /\ calls[d].pc # "idle" /\ calls[d].op \notin TokenlessOps
          /\ calls'[d].op = calls[d].op /\ calls'[d].svc = calls[d].svc
          /\ calls'[d].sent = calls[d].sent /\ calls'[d].token = calls[d].token
          /\ calls[d].mixed => calls'[d].mixed
      BY <1>6, <2>1 DEF AsBefore
    <3>2. \/ calls[d].sent = calls[d].token
          \/ calls[d].op = Balance /\ calls[d].svc = Shared /\ calls[d].mixed
      BY <3>1 DEF Core, RequestCarriesToken, Running
    <3>3. CASE calls[d].sent = calls[d].token
      BY <3>1, <3>3
    <3>4. CASE calls[d].op = Balance /\ calls[d].svc = Shared /\ calls[d].mixed
      BY <3>1, <3>4
    <3> QED
      BY <3>2, <3>3, <3>4
  <2>2. l.op \notin TokenlessOps => l.sent = l.token
    BY <1>2, <1>5 DEF Begun
  <2> QED
    BY <1>7, <2>1, <2>2 DEF RequestCarriesToken, Running
<1>10. ChainHasToken'
  <2>1. ASSUME NEW d \in Calls, d # c, calls'[d].pc # "idle", calls'[d].op = Balance
        PROVE  set[Shared] = calls'[d].token \/ calls'[d].mixed
    <3>1. calls[d].svc = Shared /\ (jwt[Shared] = calls[d].token \/ calls[d].mixed)
      BY <1>6, <2>1 DEF Core, Shapes, ChainHasToken, Running, AsBefore
    <3>2. CASE s = Shared
      BY <1>6, <2>1, <3>1, <3>2 DEF AsBefore
    <3>3. CASE s # Shared
      BY <1>1, <1>2, <1>6, <2>1, <3>1, <3>3 DEF AsBefore
    <3> QED
      BY <3>2, <3>3
  <2>2. l.op = Balance => set[Shared] = l.token
    BY <1>2, <1>5 DEF Begun, Balance, TokenlessOps
  <2> QED
    BY <1>3, <1>7, <2>1, <2>2 DEF ChainHasToken, Running
<1>11. ASSUME NEW d \in Calls, calls'[d].op = Balance, calls'[d].alone
       PROVE  d = c
  BY <1>6, <1>11 DEF AsBefore
<1>12. Alone'
  <2>1. l.alone => \A d \in Calls : d # c => calls'[d].pc = "idle"
    BY <1>5, <1>6 DEF alone, Running, AsBefore
  <2>2. ~l.mixed
    BY <1>5 DEF Begun
  <2> QED
    BY <1>7, <1>11, <2>1, <2>2 DEF Alone, Running
<1>13. ChainProgress'
  <2>1. l.op = Balance => l.pc = "getWebhookTargets" /\ l.answer = None
    BY <1>5 DEF Begun
  <2>2. \A a : l.op = Balance => Progress(a, l)
    BY <2>1, NoneIsNone DEF Progress, Chain
  <2>3. ASSUME NEW d \in Calls, calls'[d].op = Balance, calls'[d].alone
        PROVE  Progress(accounts'[calls'[d].token], calls'[d])
    BY <1>7, <1>11, <2>2, <2>3
  <2> QED
    BY <2>3 DEF ChainProgress, Progress, HasHook, HasGroup, Delivered
<1>14. BalanceHasId'
  BY DEF Core, BalanceHasId, BalanceIds
<1> QED
  BY <1>2, <1>3, <1>7, <1>8, <1>9, <1>10, <1>12, <1>13, <1>14 DEF Core

\* A call that has not begun, with what it was asked.
LEMMA Asked ==
  ASSUME NEW token \in Tokens, NEW s \in Services
  PROVE  /\ [IdleCall EXCEPT !.token = token] \in CallRecord
         /\ [IdleCall EXCEPT !.token = token].token = token
         /\ [IdleCall EXCEPT !.token = token].svc = Shared
         /\ [IdleCall EXCEPT !.token = token].answer = None
         /\ ~[IdleCall EXCEPT !.token = token].mixed
         /\ [IdleCall EXCEPT !.svc = s, !.token = token] \in CallRecord
         /\ [IdleCall EXCEPT !.svc = s, !.token = token].token = token
         /\ [IdleCall EXCEPT !.svc = s, !.token = token].svc = s
         /\ [IdleCall EXCEPT !.svc = s, !.token = token].answer = None
         /\ ~[IdleCall EXCEPT !.svc = s, !.token = token].mixed
BY DEF IdleCall, CallRecord, Services

AskedFor(token, n, h) == [IdleCall EXCEPT !.token = token, !.name = n, !.headers = h]

LEMMA AskedBalance ==
  ASSUME NEW token \in Tokens, NEW n \in Names, NEW h \in Headers
  PROVE  LET l == AskedFor(token, n, h) IN
         /\ l \in CallRecord /\ l.token = token /\ l.name = n /\ l.headers = h
         /\ l.svc = Shared /\ l.answer = None /\ ~l.mixed
BY DEF IdleCall, CallRecord, Services, AskedFor

\* A call begins, or ends at once.
LEMMA StartStep ==
  ASSUME Core, NEW c \in Calls, Start(c)
  PROVE  Core'
<1>1. ASSUME NEW op \in SingleOps, NEW t \in Tokens, Call(c, op, t)
      PROVE  Core'
  <2> DEFINE call == [IdleCall EXCEPT !.token = t]
  <2>1. ~Running(c) /\ Invoke(c, op, call, jwt) /\ accounts' = accounts
    BY <1>1 DEF Call, CanStart
  <2>2. call \in CallRecord /\ call.token = t /\ call.svc = Shared /\ call.answer = None /\ ~call.mixed
    BY Asked DEF Services
  <2>3. op # Balance /\ op \in SingleOps \cup {Balance}
    BY DEF Balance, SingleOps, SendOps, UserOps, SourceGroupOps, TokenlessOps
  <2>4. jwt \in [Services -> Tokens \cup {None}] /\ \A s \in Services : s # c => jwt[s] = jwt[s]
    BY DEF Core
  <2> HIDE DEF call
  <2> QED
    BY <2>1, <2>2, <2>3, <2>4, InvokeStep
<1>2. ASSUME NEW t \in Tokens, NEW n \in Names, NEW h \in Headers, CallBalance(c, t, n, h)
      PROVE  Core'
  <2> DEFINE call == AskedFor(t, n, h)
  <2>1. ~Running(c) /\ Invoke(c, Balance, call, jwt) /\ accounts' = accounts
    BY <1>2 DEF CallBalance, CanStart, AskedFor
  <2>2. /\ call \in CallRecord /\ call.token = t /\ call.name = n /\ call.headers = h
        /\ call.svc = Shared /\ call.answer = None /\ ~call.mixed
    BY AskedBalance
  <2>3. Balance \in SingleOps \cup {Balance}
    OBVIOUS
  <2>4. jwt \in [Services -> Tokens \cup {None}] /\ \A s \in Services : s # c => jwt[s] = jwt[s]
    BY DEF Core
  <2> HIDE DEF call
  <2> QED
    BY <2>1, <2>2, <2>3, <2>4, InvokeStep
<1>3. ASSUME NEW op \in AcceptingRoutes, NEW t \in Tokens, Handler(c, op, t)
      PROVE  Core'
  <2> DEFINE call == [IdleCall EXCEPT !.svc = c, !.token = t]
             service == [jwt EXCEPT ![c] = None]
  <2>1. ~Running(c) /\ Invoke(c, op, call, service) /\ accounts' = accounts
    BY <1>3 DEF Handler, CanStart
  <2>2. call \in CallRecord /\ call.token = t /\ call.svc = c /\ call.answer = None /\ ~call.mixed
    BY Asked DEF Services
  <2>3. op # Balance /\ op \in SingleOps \cup {Balance}
    BY DEF AcceptingRoutes, Routes, Balance, SingleOps, SendOps, UserOps, SourceGroupOps,
           TokenlessOps
  <2>4. /\ service \in [Services -> Tokens \cup {None}]
        /\ \A s \in Services : s # c => service[s] = jwt[s]
    BY DEF Core, Services
  <2> HIDE DEF call, service
  <2> QED
    BY <2>1, <2>2, <2>3, <2>4, InvokeStep
<1>4. CASE CallWithoutContent(c) \/ Unauthorized(c)
  BY <1>4, EndAtOnceStep DEF CallWithoutContent, Unauthorized
<1>5. ASSUME NEW verdict \in Refusals, RefuseBody(c, verdict)
      PROVE  Core'
  BY <1>5, EndAtOnceStep DEF RefuseBody
<1> QED
  BY <1>1, <1>2, <1>3, <1>4, <1>5 DEF Start

-----------------------------------------------------------------------------
(* The invariant and what follows from it                                  *)

Counters == starts \in 0 .. MaxStarts /\ failures \in 0 .. MaxFailures

LEMMA InvIsCore == Inv <=> Core /\ Counters
BY DEF Inv, Core, Counters, TypeOK

LEMMA InitInv == Init => Inv
<1> SUFFICES ASSUME Init PROVE Inv
  OBVIOUS
<1>1. PICK foreign \in SUBSET Names : accounts = [t \in Tokens |-> EmptyAccount(t, foreign)]
  BY DEF Init
<1>2. \A c \in Calls : calls[c] = IdleCall
  BY DEF Init
<1>3. IdleCall.alone /\ IdleCall.answer = None /\ IdleCall.op # Balance
  BY IdleType, NoneIsNone DEF IdleCall
<1>4. jwt \in [Services -> Tokens \cup {None}] /\ calls \in [Calls -> CallRecord]
  BY <1>2, IdleType DEF Init
<1>5. \A t \in Tokens : /\ accounts[t] \in Account /\ accounts[t].owner = t
                        /\ \A x \in accounts[t].alerts : ~x.balance
  <2> TAKE t \in Tokens
  <2> DEFINE alerts == {[name |-> n, balance |-> FALSE, group |-> None, id |-> None] : n \in foreign}
  <2>1. /\ alerts \in SUBSET [id : Ids \cup {None}, name : Names, balance : BOOLEAN,
                              group : Ids \cup {None}]
        /\ \A x \in alerts : ~x.balance
    <3>1. ASSUME NEW x \in alerts
          PROVE  /\ x \in [id : Ids \cup {None}, name : Names, balance : BOOLEAN,
                           group : Ids \cup {None}]
                 /\ ~x.balance
      <4>1. PICK n \in foreign : x = [name |-> n, balance |-> FALSE, group |-> None, id |-> None]
        BY <3>1
      <4> QED
        BY <4>1
    <3> QED
      BY <3>1
  <2>2. accounts[t] = [owner |-> t, hooks |-> {}, groups |-> {}, sources |-> {}, next |-> 0,
                       alerts |-> alerts]
    BY <1>1 DEF EmptyAccount
  <2> HIDE DEF alerts
  <2> QED
    BY <2>1, <2>2 DEF Account
<1>6. accounts \in [Tokens -> Account]
  BY <1>1, <1>5
<1>7. Shapes /\ RequestCarriesToken /\ ChainHasToken /\ Alone /\ ChainProgress
  BY <1>2, <1>3, IdleType
  DEF Shapes, RequestCarriesToken, ChainHasToken, Alone, ChainProgress, Running
<1>8. BalanceHasId
  BY <1>5 DEF BalanceHasId, BalanceIds
<1>9. Counters
  BY TenantAssumption DEF Init, Counters
<1> QED
  BY <1>4, <1>5, <1>6, <1>7, <1>8, <1>9, InvIsCore DEF Core

LEMMA CountersStep == Counters /\ [Next]_vars => Counters'
<1> SUFFICES ASSUME Counters, [Next]_vars PROVE Counters'
  OBVIOUS
<1>1. CASE UNCHANGED vars
  BY <1>1 DEF vars, Counters
<1>2. ASSUME NEW c \in Calls, Start(c) \/ AnswerLogIn(c) \/ Serve(c) \/ ServeAnonymous(c) \/ Fail(c)
      PROVE  Counters'
  <2>1. CASE Start(c)
    <3>1. starts < MaxStarts /\ starts' = starts + 1 /\ failures' = failures
      BY <2>1 DEF Start, Call, CallBalance, CallWithoutContent, Unauthorized, RefuseBody, Handler,
                  EndAtOnce, CanStart
    <3> QED
      BY <3>1, TenantAssumption DEF Counters
  <2>2. CASE AnswerLogIn(c) \/ Serve(c) \/ ServeAnonymous(c)
    BY <2>2 DEF AnswerLogIn, Serve, ServeAnonymous, Counters
  <2>3. CASE Fail(c)
    <3>1. failures < MaxFailures /\ failures' = failures + 1 /\ starts' = starts
      BY <2>3 DEF Fail
    <3> QED
      BY <3>1, TenantAssumption DEF Counters
  <2> QED
    BY <1>2, <2>1, <2>2, <2>3
<1> QED
  BY <1>1, <1>2 DEF Next

LEMMA NextInv == Inv /\ [Next]_vars => Inv'
<1> SUFFICES ASSUME Inv, [Next]_vars PROVE Inv'
  OBVIOUS
<1>1. Core /\ Counters
  BY InvIsCore
<1>2. ASSUME UNCHANGED vars PROVE Core'
  <2>1. jwt' = jwt /\ calls' = calls /\ accounts' = accounts
    BY <1>2 DEF vars
  <2>2. Shapes' /\ RequestCarriesToken' /\ ChainHasToken'
    BY <1>1, <2>1 DEF Core, Shapes, RequestCarriesToken, ChainHasToken, Running
  <2>3. Alone' /\ BalanceHasId'
    BY <1>1, <2>1 DEF Core, Alone, BalanceHasId, BalanceIds, Running
  <2>4. ChainProgress'
    <3>1. ASSUME NEW d \in Calls, calls'[d].op = Balance, calls'[d].alone
          PROVE  Progress(accounts'[calls'[d].token], calls'[d])
      <4>1. Progress(accounts[calls[d].token], calls[d])
        BY <1>1, <2>1, <3>1 DEF Core, ChainProgress
      <4> QED
        BY <2>1, <4>1
    <3> QED
      BY <3>1 DEF ChainProgress, Progress, HasHook, HasGroup, Delivered
  <2> QED
    BY <1>1, <2>1, <2>2, <2>3, <2>4 DEF Core
<1>3. ASSUME NEW c \in Calls, Start(c) \/ AnswerLogIn(c) \/ Serve(c) \/ ServeAnonymous(c) \/ Fail(c)
      PROVE  Core'
  BY <1>1, <1>3, StartStep, AnswerLogInStep, ServeStep, ServeAnonymousStep, FailStep
<1>4. Core'
  BY <1>2, <1>3 DEF Next
<1>5. Counters'
  BY <1>1, CountersStep
<1> QED
  BY <1>4, <1>5 DEF Inv, Core, Counters, TypeOK

\* What every state of every behaviour satisfies.
THEOREM Invariance == Spec => []Inv
BY InitInv, NextInv, PTL DEF Spec

\* Type correctness: the tokens that the services hold, every call and its ids,
\* and the objects of every tenant keep to their types.
THEOREM TypeCorrect == Spec => []TypeOK
<1>1. Inv => TypeOK
  BY DEF Inv
<1> QED
  BY <1>1, Invariance, PTL

\* A request carries the token of its own method or HTTP request, however many
\* calls share a service and whenever log-ins are answered, but for a chain
\* after another token was left in its service.
THEOREM RequestCarriesTokenTheorem == Spec => []RequestCarriesToken
<1>1. Inv => RequestCarriesToken
  BY DEF Inv
<1> QED
  BY <1>1, Invariance, PTL

\* createTenantBalanceChangeAlert delivers, whatever earlier calls have left
\* behind in the account of the tenant.
THEOREM BalanceAlertDeliversTheorem == Spec => []BalanceAlertDelivers
<1>1. Inv => BalanceAlertDelivers
  <2> SUFFICES ASSUME Inv, NEW c \in Calls, calls[c].op = Balance, calls[c].answer = "ok", calls[c].alone
               PROVE  Delivered(accounts[calls[c].token], calls[c])
    BY DEF BalanceAlertDelivers, Delivered
  <2> QED
    BY DEF Inv, ChainProgress, Progress
<1> QED
  BY <1>1, Invariance, PTL
=============================================================================
