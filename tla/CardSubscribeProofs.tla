------------------------- MODULE CardSubscribeProofs -------------------------
(***************************************************************************)
(* Proofs about CardSubscribe, for every set of event types, emails and    *)
(* wallets, for any number of handlers at a time, and all bounds: type     *)
(* correctness, that a failure costs one alert at most, that a             *)
(* subscription is complete, and that the card tells the truth.            *)
(*                                                                         *)
(* A handler is a chain of links that it carries out one by one. Most of   *)
(* what has to be known of a chain is in which order links of some kinds   *)
(* follow each other: a link that uses the data comes after one that reads *)
(* them, a creation right after the deletion of the alert, a render at the *)
(* end. First come these orders (After, Never, Before, Directly) and the   *)
(* ways to put chains together and to take them apart, then what is true   *)
(* of the chain of each handler when it starts (...Is, ...Starts).         *)
(*                                                                         *)
(* The inductive invariants follow, each one of the state and of what is   *)
(* left of each chain: Typed, LossInv, ConfiguredInv, LoadingInv and, for  *)
(* a handler that runs alone, ServeInv, of what it does to the service     *)
(* while first fetches may run beside it, and ShowInv, of what the card    *)
(* shows with nothing beside it. Each is left alone or restored by every   *)
(* action.                                                                 *)
(***************************************************************************)
EXTENDS CardSubscribe, FiniteSetTheorems, TLAPS

-----------------------------------------------------------------------------
(* Chains of links                                                           *)

Views == {"loading", "history", "expired", "signup", "preview", "edit",
          "verifyonboarding", "verify", "error"}
Bare == {"login", "read", "render", "targets", "targetsUnlessMade", "idle", "wallets",
         "adopt", "ensureWallets", "try"}
OfName == {"alert", "ensure", "delete", "create", "update"}
OfWallet == {"connect", "take"}

LinkKinds == Bare \cup OfName \cup OfWallet \cup {"show"}
AnyLink ==
  (Bare \X {None}) \cup (OfName \X Names) \cup (OfWallet \X Wallets) \cup ({"show"} \X Views)
Chains == Seq(AnyLink)

\* A link of a kind of K is in s.
Has(s, K) == \E i \in 1 .. Len(s) : s[i][1] \in K
In(link, s) == \E i \in 1 .. Len(s) : s[i] = link

\* Every link of a kind of A is followed by one of B, or by none, sooner or
\* later; or comes after one of kind k, or right after it.
After(s, A, B) ==
  \A i \in 1 .. Len(s) : s[i][1] \in A => \E j \in i + 1 .. Len(s) : s[j][1] \in B
Never(s, A, B) ==
  \A i \in 1 .. Len(s) : s[i][1] \in A => \A j \in i + 1 .. Len(s) : s[j][1] \notin B
Before(s, A, k) ==
  \A i \in 1 .. Len(s) : s[i][1] \in A => \E j \in 1 .. i - 1 : s[j][1] = k
Directly(s, A, k) ==
  \A i \in 2 .. Len(s) : s[i][1] \in A => s[i - 1][1] = k

LEMMA TailIs ==
  ASSUME NEW s \in Chains, s # <<>>
  PROVE  /\ Tail(s) \in Chains /\ Len(s) \in Nat \ {0} /\ Len(Tail(s)) = Len(s) - 1
         /\ Head(s) = s[1] /\ 1 \in 1 .. Len(s)
         /\ \A i \in 1 .. Len(Tail(s)) : i + 1 \in 2 .. Len(s) /\ Tail(s)[i] = s[i + 1]
         /\ \A i \in 2 .. Len(s) : i - 1 \in 1 .. Len(Tail(s)) /\ Tail(s)[i - 1] = s[i]
BY DEF Chains

LEMMA HasTail ==
  ASSUME NEW s \in Chains, s # <<>>, NEW K
  PROVE  Has(s, K) <=> Head(s)[1] \in K \/ Has(Tail(s), K)
<1>1. ASSUME Has(s, K), Head(s)[1] \notin K  PROVE Has(Tail(s), K)
  <2>1. PICK i \in 1 .. Len(s) : s[i][1] \in K
    BY <1>1 DEF Has
  <2>2. i \in 2 .. Len(s)
    BY <1>1, <2>1, TailIs
  <2> QED
    BY <2>1, <2>2, TailIs, ZenonT(40) DEF Has
<1>2. ASSUME Has(Tail(s), K)  PROVE Has(s, K)
  <2>1. PICK i \in 1 .. Len(Tail(s)) : Tail(s)[i][1] \in K
    BY <1>2 DEF Has
  <2>2. i + 1 \in 1 .. Len(s) /\ s[i + 1][1] \in K
    BY <2>1, TailIs
  <2> QED
    BY <2>2 DEF Has
<1>3. Head(s)[1] \in K => Has(s, K)
  BY TailIs DEF Has
<1> QED
  BY <1>1, <1>2, <1>3

LEMMA InTail ==
  ASSUME NEW s \in Chains, s # <<>>, NEW link
  PROVE  In(link, s) <=> Head(s) = link \/ In(link, Tail(s))
<1>1. ASSUME In(link, s), Head(s) # link  PROVE In(link, Tail(s))
  <2>1. PICK i \in 1 .. Len(s) : s[i] = link
    BY <1>1 DEF In
  <2>2. i \in 2 .. Len(s)
    BY <1>1, <2>1, TailIs
  <2> QED
    BY <2>1, <2>2, TailIs DEF In
<1>2. ASSUME In(link, Tail(s))  PROVE In(link, s)
  <2>1. PICK i \in 1 .. Len(Tail(s)) : Tail(s)[i] = link
    BY <1>2 DEF In
  <2>2. i + 1 \in 1 .. Len(s) /\ s[i + 1] = link
    BY <2>1, TailIs
  <2> QED
    BY <2>2 DEF In
<1>3. Head(s) = link => In(link, s)
  BY TailIs DEF In
<1> QED
  BY <1>1, <1>2, <1>3

LEMMA AfterTail ==
  ASSUME NEW s \in Chains, s # <<>>, NEW A, NEW B, After(s, A, B)
  PROVE  After(Tail(s), A, B) /\ (Head(s)[1] \in A => Has(Tail(s), B))
<1>1. ASSUME NEW i \in 1 .. Len(s), s[i][1] \in A
      PROVE  \E j \in 1 .. Len(Tail(s)) : j >= i /\ Tail(s)[j][1] \in B
  <2>1. PICK j \in i + 1 .. Len(s) : s[j][1] \in B
    BY <1>1 DEF After
  <2>2. j - 1 \in 1 .. Len(Tail(s)) /\ j - 1 >= i /\ Tail(s)[j - 1] = s[j]
    BY <2>1, TailIs
  <2> QED
    BY <2>1, <2>2
<1>2. Head(s)[1] \in A => Has(Tail(s), B)
  BY <1>1, TailIs, Zenon DEF Has
<1>3. ASSUME NEW i \in 1 .. Len(Tail(s)), Tail(s)[i][1] \in A
      PROVE  \E j \in i + 1 .. Len(Tail(s)) : Tail(s)[j][1] \in B
  <2>1. i + 1 \in 1 .. Len(s) /\ s[i + 1][1] \in A
    BY <1>3, TailIs
  <2>2. PICK j \in 1 .. Len(Tail(s)) : j >= i + 1 /\ Tail(s)[j][1] \in B
    BY <1>1, <2>1
  <2>3. j \in i + 1 .. Len(Tail(s))
    BY <2>2, TailIs
  <2> QED
    BY <2>2, <2>3
<1> QED
  BY <1>2, <1>3 DEF After

LEMMA NeverTail ==
  ASSUME NEW s \in Chains, s # <<>>, NEW A, NEW B, Never(s, A, B)
  PROVE  Never(Tail(s), A, B) /\ (Head(s)[1] \in A => ~Has(Tail(s), B))
<1>1. ASSUME NEW i \in 1 .. Len(s), s[i][1] \in A, NEW j \in i .. Len(Tail(s))
      PROVE  Tail(s)[j][1] \notin B
  <2>1. j \in 1 .. Len(Tail(s)) /\ j + 1 \in i + 1 .. Len(s)
    BY TailIs
  <2> QED
    BY <1>1, <2>1, TailIs DEF Never
<1>2. Head(s)[1] \in A => ~Has(Tail(s), B)
  BY <1>1, TailIs DEF Has
<1>3. ASSUME NEW i \in 1 .. Len(Tail(s)), Tail(s)[i][1] \in A,
             NEW j \in i + 1 .. Len(Tail(s))
      PROVE  Tail(s)[j][1] \notin B
  BY <1>1, <1>3, TailIs
<1> QED
  BY <1>2, <1>3 DEF Never

LEMMA BeforeTail ==
  ASSUME NEW s \in Chains, s # <<>>, NEW A, NEW k, Before(s, A, k)
  PROVE  /\ Head(s)[1] \notin A
         /\ Head(s)[1] # k => Before(Tail(s), A, k)
<1>1. Head(s)[1] \notin A
  BY TailIs DEF Before
<1>2. ASSUME Head(s)[1] # k, NEW i \in 1 .. Len(Tail(s)), Tail(s)[i][1] \in A
      PROVE  \E j \in 1 .. i - 1 : Tail(s)[j][1] = k
  <2>1. i + 1 \in 1 .. Len(s) /\ s[i + 1][1] \in A
    BY <1>2, TailIs
  <2>2. PICK j \in 1 .. i : s[j][1] = k
    BY <2>1 DEF Before
  <2>3. j \in 2 .. Len(s) /\ j - 1 \in 1 .. i - 1
    BY <1>2, <2>2, TailIs
  <2> QED
    BY <2>2, <2>3, TailIs, ZenonT(40)
<1> QED
  BY <1>1, <1>2 DEF Before

LEMMA DirectlyTail ==
  ASSUME NEW s \in Chains, s # <<>>, NEW A, NEW k, Directly(s, A, k)
  PROVE  /\ Directly(Tail(s), A, k)
         /\ Tail(s) # <<>> /\ Head(Tail(s))[1] \in A => Head(s)[1] = k
<1>1. ASSUME NEW i \in 2 .. Len(Tail(s)), Tail(s)[i][1] \in A
      PROVE  Tail(s)[i - 1][1] = k
  <2>1. i \in 1 .. Len(Tail(s)) /\ i - 1 \in 1 .. Len(Tail(s))
    BY TailIs
  <2>2. i + 1 \in 2 .. Len(s) /\ Tail(s)[i] = s[i + 1] /\ Tail(s)[i - 1] = s[i - 1 + 1]
    BY <2>1, TailIs
  <2> QED
    BY <1>1, <2>2 DEF Directly
<1>2. ASSUME Tail(s) # <<>>, Head(Tail(s))[1] \in A  PROVE Head(s)[1] = k
  <2>1. Tail(s) \in Chains
    BY TailIs
  <2>2. 1 \in 1 .. Len(Tail(s)) /\ Head(Tail(s)) = Tail(s)[1]
    BY <1>2, <2>1, TailIs
  <2>3. 2 \in 2 .. Len(s) /\ Head(Tail(s)) = s[2] /\ Head(s) = s[1]
    BY <2>2, TailIs
  <2> QED
    BY <1>2, <2>3 DEF Directly
<1> QED
  BY <1>1, <1>2 DEF Directly

LEMMA ConcatIs ==
  ASSUME NEW s \in Chains, NEW t \in Chains
  PROVE  s \o t \in Chains /\ Len(s) \in Nat /\ Len(t) \in Nat /\ Len(s \o t) = Len(s) + Len(t)
BY DEF Chains

LEMMA ConcatLeft ==
  ASSUME NEW s \in Chains, NEW t \in Chains, NEW i \in 1 .. Len(s)
  PROVE  i \in 1 .. Len(s \o t) /\ (s \o t)[i] = s[i]
BY DEF Chains

LEMMA ConcatRight ==
  ASSUME NEW s \in Chains, NEW t \in Chains, NEW i \in 1 .. Len(t)
  PROVE  /\ Len(s) + i \in 1 .. Len(s \o t) /\ Len(s) + i > Len(s)
         /\ (s \o t)[Len(s) + i] = t[i]
<1>1. Len(s) \in Nat /\ Len(t) \in Nat /\ Len(s \o t) = Len(s) + Len(t)
  BY ConcatIs
<1>2. Len(s) + i \in 1 .. Len(s) + Len(t) /\ Len(s) + i > Len(s)
  BY <1>1
<1>3. (s \o t)[Len(s) + i] = t[i]
  BY <1>1, <1>2 DEF Chains
<1> QED
  BY <1>1, <1>2, <1>3

LEMMA ConcatSplit ==
  ASSUME NEW s \in Chains, NEW t \in Chains, NEW i \in 1 .. Len(s \o t)
  PROVE  i \in 1 .. Len(s) \/ \E j \in 1 .. Len(t) : i = Len(s) + j
<1>1. i \in 1 .. Len(s) + Len(t) /\ Len(s) \in Nat /\ Len(t) \in Nat
  BY ConcatIs
<1>2. CASE i > Len(s)
  <2>1. i - Len(s) \in 1 .. Len(t) /\ i = Len(s) + (i - Len(s))
    BY <1>1, <1>2
  <2> QED
    BY <2>1, Zenon
<1> QED
  BY <1>1, <1>2

LEMMA HasConcat ==
  ASSUME NEW s \in Chains, NEW t \in Chains, NEW K
  PROVE  Has(s \o t, K) <=> Has(s, K) \/ Has(t, K)
<1>1. ASSUME Has(s \o t, K)  PROVE Has(s, K) \/ Has(t, K)
  <2>1. PICK i \in 1 .. Len(s \o t) : (s \o t)[i][1] \in K
    BY <1>1 DEF Has
  <2>2. CASE i \in 1 .. Len(s)
    BY <2>1, <2>2, ConcatLeft DEF Has
  <2>3. ASSUME NEW j \in 1 .. Len(t), i = Len(s) + j  PROVE Has(t, K)
    <3>1. t[j][1] \in K
      BY <2>1, <2>3, ConcatRight
    <3> QED
      BY <3>1 DEF Has
  <2> QED
    BY <2>2, <2>3, ConcatSplit
<1>2. ASSUME Has(s, K)  PROVE Has(s \o t, K)
  <2>1. PICK i \in 1 .. Len(s) : s[i][1] \in K
    BY <1>2 DEF Has
  <2>2. i \in 1 .. Len(s \o t) /\ (s \o t)[i] = s[i]
    BY ConcatLeft
  <2> QED
    BY <2>1, <2>2 DEF Has
<1>3. ASSUME Has(t, K)  PROVE Has(s \o t, K)
  <2>1. PICK i \in 1 .. Len(t) : t[i][1] \in K
    BY <1>3 DEF Has
  <2>2. Len(s) + i \in 1 .. Len(s \o t) /\ (s \o t)[Len(s) + i] = t[i]
    BY ConcatRight
  <2> QED
    BY <2>1, <2>2 DEF Has
<1> QED
  BY <1>1, <1>2, <1>3

LEMMA InConcat ==
  ASSUME NEW s \in Chains, NEW t \in Chains, NEW link
  PROVE  In(link, s \o t) <=> In(link, s) \/ In(link, t)
<1>1. ASSUME In(link, s \o t)  PROVE In(link, s) \/ In(link, t)
  <2>1. PICK i \in 1 .. Len(s \o t) : (s \o t)[i] = link
    BY <1>1 DEF In
  <2>2. CASE i \in 1 .. Len(s)
    BY <2>1, <2>2, ConcatLeft DEF In
  <2>3. ASSUME NEW j \in 1 .. Len(t), i = Len(s) + j  PROVE In(link, t)
    <3>1. t[j] = link
      BY <2>1, <2>3, ConcatRight
    <3> QED
      BY <3>1 DEF In
  <2> QED
    BY <2>2, <2>3, ConcatSplit
<1>2. ASSUME In(link, s)  PROVE In(link, s \o t)
  <2>1. PICK i \in 1 .. Len(s) : s[i] = link
    BY <1>2 DEF In
  <2>2. i \in 1 .. Len(s \o t) /\ (s \o t)[i] = s[i]
    BY ConcatLeft
  <2> QED
    BY <2>1, <2>2 DEF In
<1>3. ASSUME In(link, t)  PROVE In(link, s \o t)
  <2>1. PICK i \in 1 .. Len(t) : t[i] = link
    BY <1>3 DEF In
  <2>2. Len(s) + i \in 1 .. Len(s \o t) /\ (s \o t)[Len(s) + i] = t[i]
    BY ConcatRight
  <2> QED
    BY <2>1, <2>2 DEF In
<1> QED
  BY <1>1, <1>2, <1>3

LEMMA AfterConcat ==
  ASSUME NEW s \in Chains, NEW t \in Chains, NEW A, NEW B,
         After(s, A, B) \/ Has(t, B), After(t, A, B)
  PROVE  After(s \o t, A, B)
<1>1. Len(s) \in Nat /\ Len(t) \in Nat /\ Len(s \o t) \in Nat
  BY ConcatIs
<1> SUFFICES ASSUME NEW i \in 1 .. Len(s \o t), (s \o t)[i][1] \in A
             PROVE  \E j \in 1 .. Len(s \o t) : j > i /\ (s \o t)[j][1] \in B
  BY <1>1 DEF After
<1>2. ASSUME i \in 1 .. Len(s), Has(t, B)
      PROVE  \E j \in 1 .. Len(s \o t) : j > i /\ (s \o t)[j][1] \in B
  <2>1. PICK j \in 1 .. Len(t) : t[j][1] \in B
    BY <1>2 DEF Has
  <2>2. Len(s) + j > i
    BY <1>2, <1>1
  <2>3. Len(s) + j \in 1 .. Len(s \o t) /\ (s \o t)[Len(s) + j] = t[j]
    BY <2>1, ConcatRight
  <2> QED
    BY <2>1, <2>2, <2>3, Zenon
<1>3. ASSUME i \in 1 .. Len(s), After(s, A, B)
      PROVE  \E j \in 1 .. Len(s \o t) : j > i /\ (s \o t)[j][1] \in B
  <2>1. s[i][1] \in A
    BY <1>3, ConcatLeft
  <2>2. PICK j \in i + 1 .. Len(s) : s[j][1] \in B
    BY <1>3, <2>1 DEF After
  <2>3. j \in 1 .. Len(s) /\ j > i
    BY <1>3
  <2> QED
    BY <2>2, <2>3, ConcatLeft
<1>4. ASSUME NEW k \in 1 .. Len(t), i = Len(s) + k
      PROVE  \E j \in 1 .. Len(s \o t) : j > i /\ (s \o t)[j][1] \in B
  <2>1. t[k][1] \in A
    BY <1>4, ConcatRight
  <2>2. PICK j \in k + 1 .. Len(t) : t[j][1] \in B
    BY <2>1 DEF After
  <2>3. j \in 1 .. Len(t) /\ Len(s) + j > i
    BY <1>4, <1>1
  <2>4. Len(s) + j \in 1 .. Len(s \o t) /\ (s \o t)[Len(s) + j] = t[j]
    BY <2>3, ConcatRight
  <2> QED
    BY <2>2, <2>3, <2>4
<1> QED
  BY <1>2, <1>3, <1>4, ConcatSplit, ZenonT(40)

LEMMA NeverConcat ==
  ASSUME NEW s \in Chains, NEW t \in Chains, NEW A, NEW B,
         Never(s, A, B), Never(t, A, B), ~Has(s, A) \/ ~Has(t, B)
  PROVE  Never(s \o t, A, B)
<1>1. Len(s) \in Nat /\ Len(t) \in Nat /\ Len(s \o t) \in Nat
  BY ConcatIs
<1> SUFFICES ASSUME NEW i \in 1 .. Len(s \o t), (s \o t)[i][1] \in A,
                    NEW j \in 1 .. Len(s \o t), j > i
             PROVE  (s \o t)[j][1] \notin B
  BY <1>1 DEF Never
<1>2. CASE i \in 1 .. Len(s) /\ j \in 1 .. Len(s)
  <2>1. (s \o t)[i] = s[i] /\ (s \o t)[j] = s[j] /\ j \in i + 1 .. Len(s)
    BY <1>2, ConcatLeft
  <2> QED
    BY <1>2, <2>1 DEF Never
<1>3. ASSUME i \in 1 .. Len(s), NEW k \in 1 .. Len(t), j = Len(s) + k
      PROVE  (s \o t)[j][1] \notin B
  <2>1. (s \o t)[i] = s[i] /\ (s \o t)[j] = t[k]
    BY <1>3, ConcatLeft, ConcatRight
  <2> QED
    BY <1>3, <2>1 DEF Has
<1>4. ASSUME NEW h \in 1 .. Len(t), i = Len(s) + h, NEW k \in 1 .. Len(t), j = Len(s) + k
      PROVE  (s \o t)[j][1] \notin B
  <2>1. (s \o t)[i] = t[h] /\ (s \o t)[j] = t[k]
    BY <1>4, ConcatRight, Zenon
  <2>2. k \in h + 1 .. Len(t)
    BY <1>4, <1>1
  <2> QED
    BY <1>4, <2>1, <2>2 DEF Never
<1>5. i \in 1 .. Len(s) \/ \E h \in 1 .. Len(t) : i = Len(s) + h
  BY ConcatSplit
<1>6. j \in 1 .. Len(s) \/ \E k \in 1 .. Len(t) : j = Len(s) + k
  BY ConcatSplit
<1>7. ~(j \in 1 .. Len(s) /\ \E h \in 1 .. Len(t) : i = Len(s) + h)
  BY <1>1
<1> QED
  BY <1>2, <1>3, <1>4, <1>5, <1>6, <1>7, Zenon

LEMMA BeforeConcat ==
  ASSUME NEW s \in Chains, NEW t \in Chains, NEW A, NEW k,
         Before(s, A, k), Before(t, A, k) \/ Has(s, {k})
  PROVE  Before(s \o t, A, k)
<1>1. Len(s) \in Nat /\ Len(t) \in Nat /\ Len(s \o t) \in Nat
  BY ConcatIs
<1> SUFFICES ASSUME NEW i \in 1 .. Len(s \o t), (s \o t)[i][1] \in A
             PROVE  \E j \in 1 .. Len(s \o t) : j < i /\ (s \o t)[j][1] = k
  BY <1>1 DEF Before
<1>2. CASE i \in 1 .. Len(s)
  <2>1. PICK j \in 1 .. i - 1 : s[j][1] = k
    BY <1>2, ConcatLeft DEF Before
  <2>2. j \in 1 .. Len(s) /\ j < i
    BY <1>2
  <2> QED
    BY <2>1, <2>2, ConcatLeft
<1>3. ASSUME NEW h \in 1 .. Len(t), i = Len(s) + h, Has(s, {k})
      PROVE  \E j \in 1 .. Len(s \o t) : j < i /\ (s \o t)[j][1] = k
  <2>1. PICK j \in 1 .. Len(s) : s[j][1] = k
    BY <1>3 DEF Has
  <2>2. j < i
    BY <1>3, <1>1
  <2> QED
    BY <2>1, <2>2, ConcatLeft
<1>4. ASSUME NEW h \in 1 .. Len(t), i = Len(s) + h, Before(t, A, k)
      PROVE  \E j \in 1 .. Len(s \o t) : j < i /\ (s \o t)[j][1] = k
  <2>1. t[h][1] \in A
    BY <1>4, ConcatRight
  <2>2. PICK j \in 1 .. h - 1 : t[j][1] = k
    BY <1>4, <2>1 DEF Before
  <2>3. j \in 1 .. Len(t) /\ Len(s) + j < i
    BY <1>4, <1>1
  <2> QED
    BY <2>2, <2>3, ConcatRight, Zenon
<1> QED
  BY <1>2, <1>3, <1>4, ConcatSplit, ZenonT(40)

LEMMA DirectlyConcat ==
  ASSUME NEW s \in Chains, NEW t \in Chains, NEW A, NEW k,
         Directly(s, A, k), Directly(t, A, k), t # <<>> => Head(t)[1] \notin A
  PROVE  Directly(s \o t, A, k)
<1>1. Len(s) \in Nat /\ Len(t) \in Nat /\ Len(s \o t) \in Nat
  BY ConcatIs
<1> SUFFICES ASSUME NEW i \in 2 .. Len(s \o t), (s \o t)[i][1] \in A
             PROVE  (s \o t)[i - 1][1] = k
  BY DEF Directly
<1>2. i \in 1 .. Len(s \o t)
  BY <1>1
<1>3. CASE i \in 1 .. Len(s)
  <2>1. i \in 2 .. Len(s) /\ i - 1 \in 1 .. Len(s)
    BY <1>3, <1>1
  <2>2. (s \o t)[i] = s[i] /\ (s \o t)[i - 1] = s[i - 1]
    BY <1>3, <2>1, ConcatLeft
  <2> QED
    BY <2>1, <2>2 DEF Directly
<1>4. ASSUME NEW h \in 1 .. Len(t), i = Len(s) + h
      PROVE  (s \o t)[i - 1][1] = k
  <2>1. t[h][1] \in A
    BY <1>4, ConcatRight
  <2>2. t # <<>> /\ Head(t) = t[1]
    BY DEF Chains
  <2>3. h \in 2 .. Len(t) /\ h - 1 \in 1 .. Len(t) /\ i - 1 = Len(s) + (h - 1)
    BY <1>4, <2>1, <2>2, <1>1
  <2>4. (s \o t)[i - 1] = t[h - 1]
    BY <2>3, ConcatRight
  <2> QED
    BY <2>1, <2>3, <2>4 DEF Directly
<1> QED
  BY <1>2, <1>3, <1>4, ConcatSplit, SMTT(30)

-----------------------------------------------------------------------------
(* The pieces that chains are made of                                        *)

\* All links of s are of a kind of K.
Only(s, K) == \A i \in 1 .. Len(s) : s[i][1] \in K

LEMMA OnlyConcat ==
  ASSUME NEW s \in Chains, NEW t \in Chains, NEW K, Only(s, K), Only(t, K)
  PROVE  Only(s \o t, K)
<1> SUFFICES ASSUME NEW i \in 1 .. Len(s \o t)
             PROVE  (s \o t)[i][1] \in K
  BY DEF Only
<1>1. CASE i \in 1 .. Len(s)
  BY <1>1, ConcatLeft DEF Only
<1>2. ASSUME NEW j \in 1 .. Len(t), i = Len(s) + j  PROVE (s \o t)[i][1] \in K
  BY <1>2, ConcatRight DEF Only
<1> QED
  BY <1>1, <1>2, ConcatSplit

\* What is said of kinds that are not there holds.
LEMMA OnlyWithout ==
  ASSUME NEW s \in Chains, NEW K, Only(s, K), NEW A, K \cap A = {}
  PROVE  /\ ~Has(s, A)
         /\ \A B : After(s, A, B) /\ Never(s, A, B)
         /\ \A k : Before(s, A, k) /\ Directly(s, A, k)
<1>1. \A i \in 1 .. Len(s) : s[i][1] \notin A
  BY DEF Only
<1>2. \A i \in 2 .. Len(s) : i \in 1 .. Len(s)
  BY DEF Chains
<1> QED
  BY <1>1, <1>2 DEF Has, After, Never, Before, Directly

LEMMA HasKind ==
  ASSUME NEW s \in Chains, s # <<>>, NEW K, Only(s, K)
  PROVE  Has(s, K)
BY TailIs DEF Only, Has

LEMMA MappedIs ==
  ASSUME NEW n \in Nat, NEW s, s = [i \in 1 .. n |-> s[i]], \A i \in 1 .. n : s[i] \in AnyLink
  PROVE  s \in Chains /\ Len(s) = n
<1>1. s \in [1 .. n -> AnyLink]
  OBVIOUS
<1> QED
  BY <1>1 DEF Chains

LEMMA BareIs ==
  ASSUME NEW k \in Bare
  PROVE  <<k, None>> \in AnyLink
BY DEF AnyLink

LEMMA Links1 ==
  ASSUME NEW a \in Bare
  PROVE  LET s == Links(<<a>>) IN
         s \in Chains /\ Len(s) = 1 /\ s[1] = <<a, None>>
<1> DEFINE s == Links(<<a>>)
<1>1. s = [i \in 1 .. 1 |-> s[i]] /\ s[1] = <<a, None>>
  BY DEF Links, Link
<1> HIDE DEF s
<1>2. \A i \in 1 .. 1 : s[i] \in AnyLink
  BY <1>1, BareIs
<1> QED
  BY <1>1, <1>2, MappedIs, Zenon DEF s

LEMMA Links2 ==
  ASSUME NEW a \in Bare, NEW b \in Bare
  PROVE  LET s == Links(<<a, b>>) IN
         s \in Chains /\ Len(s) = 2 /\ s[1] = <<a, None>> /\ s[2] = <<b, None>>
<1> DEFINE s == Links(<<a, b>>)
<1>1. s = [i \in 1 .. 2 |-> s[i]] /\ s[1] = <<a, None>> /\ s[2] = <<b, None>>
  BY DEF Links, Link
<1> HIDE DEF s
<1>2. \A i \in 1 .. 2 : s[i] \in AnyLink
  BY <1>1, BareIs
<1> QED
  BY <1>1, <1>2, MappedIs, Zenon DEF s

LEMMA Links3 ==
  ASSUME NEW a \in Bare, NEW b \in Bare, NEW c \in Bare
  PROVE  LET s == Links(<<a, b, c>>) IN
         /\ s \in Chains /\ Len(s) = 3
         /\ s[1] = <<a, None>> /\ s[2] = <<b, None>> /\ s[3] = <<c, None>>
<1> DEFINE s == Links(<<a, b, c>>)
<1>1. s = [i \in 1 .. 3 |-> s[i]] /\ s[1] = <<a, None>> /\ s[2] = <<b, None>> /\ s[3] = <<c, None>>
  BY DEF Links, Link
<1> HIDE DEF s
<1>2. \A i \in 1 .. 3 : s[i] \in AnyLink
  BY <1>1, BareIs
<1> QED
  BY <1>1, <1>2, MappedIs, Zenon DEF s

LEMMA SingleIs ==
  ASSUME NEW link \in AnyLink
  PROVE  <<link>> \in Chains /\ Len(<<link>>) = 1 /\ <<link>>[1] = link
BY DEF Chains

\* One link for each event type.
LEMMA ByName ==
  ASSUME NEW k \in {"alert", "ensure"}
  PROVE  LET s == [i \in DOMAIN Order |-> <<k, Order[i]>>] IN
         s \in Chains /\ Only(s, {k}) /\ \A n \in Names : In(<<k, n>>, s)
<1> DEFINE s == [i \in DOMAIN Order |-> <<k, Order[i]>>]
<1>1. Len(Order) \in Nat /\ DOMAIN Order = 1 .. Len(Order)
  BY CardSubscribeAssumption
<1>2. \A i \in 1 .. Len(Order) : Order[i] \in Names
  BY <1>1 DEF Names
<1>3. s = [i \in 1 .. Len(Order) |-> s[i]] /\ \A i \in 1 .. Len(Order) : s[i] = <<k, Order[i]>>
  BY <1>1
<1> HIDE DEF s
<1>4. ASSUME NEW i \in 1 .. Len(Order)  PROVE s[i] \in AnyLink
  <2>1. s[i] = <<k, Order[i]>> /\ Order[i] \in Names /\ k \in OfName
    BY <1>2, <1>3 DEF OfName
  <2> QED
    BY <2>1 DEF AnyLink
<1>5. s \in Chains /\ Len(s) = Len(Order)
  BY <1>1, <1>3, <1>4, MappedIs
<1>6. ASSUME NEW n \in Names  PROVE In(<<k, n>>, s)
  <2>1. PICK i \in 1 .. Len(Order) : Order[i] = n
    BY <1>1 DEF Names
  <2> QED
    BY <2>1, <1>3, <1>5, Zenon DEF In
<1> QED
  BY <1>3, <1>5, <1>6 DEF s, Only

-----------------------------------------------------------------------------
(* The order of the links, handler by handler                                *)

UsesData == {"render", "try", "alert", "create", "wallets", "adopt"}
Rewrites == {"delete", "create", "update"}
Writers == {"alert", "delete", "create", "update", "targets", "targetsUnlessMade", "ensure"}
Contacting == {"targets", "targetsUnlessMade", "try"}
Grouping == {"wallets", "ensureWallets"}
Joining == {"login", "take", "connect"}

\* Alerts are ensured when the contacts are there; what was fetched is adopted,
\* or made the sources of the wallets, at once; the view changes last.
Orderly(s) ==
  /\ s \in Chains
  /\ Never(s, {"ensure"}, Contacting)
  /\ Directly(s, {"adopt", "wallets"}, "read")
  /\ Never(s, {"show"}, LinkKinds)
  /\ ~Has(s, Rewrites)

\* A chain comes to its end with a render or a view.
Lasting == {"render", "show", "try"}
ComesToEnd(s) == After(s, LinkKinds \ Lasting, Lasting)

\* What is written is fetched, and what is fetched is rendered.
Refreshes(s) ==
  /\ ComesToEnd(s)
  /\ After(s, Writers, {"read", "try"}) /\ After(s, {"read"}, {"render", "try"})

\* What is used was fetched.
Fetched(s) == Before(s, UsesData, "read")

LEMMA OrderlyConcat ==
  ASSUME NEW s, NEW t, Orderly(s), Orderly(t), ~Has(s, {"show"}),
         ~Has(s, {"ensure"}) \/ ~Has(t, Contacting),
         t # <<>> => Head(t)[1] \notin {"adopt", "wallets"}
  PROVE  Orderly(s \o t)
<1>1. s \in Chains /\ t \in Chains
  BY DEF Orderly
<1>2. s \o t \in Chains
  BY <1>1, ConcatIs
<1>3. Never(s \o t, {"ensure"}, Contacting) /\ Never(s \o t, {"show"}, LinkKinds)
  BY <1>1, NeverConcat DEF Orderly
<1>4. Directly(s \o t, {"adopt", "wallets"}, "read")
  BY <1>1, DirectlyConcat DEF Orderly
<1>5. ~Has(s \o t, Rewrites)
  BY <1>1, HasConcat DEF Orderly
<1> QED
  BY <1>2, <1>3, <1>4, <1>5 DEF Orderly

LEMMA RefreshesConcat ==
  ASSUME NEW s \in Chains, NEW t \in Chains, Refreshes(t),
         Refreshes(s) \/ (Has(t, {"read"}) /\ Has(t, {"render"}))
  PROVE  Refreshes(s \o t)
<1>1. Refreshes(s) \/ (Has(t, {"read", "try"}) /\ Has(t, {"render", "try"}) /\ Has(t, Lasting))
  BY DEF Has, Lasting
<1> QED
  BY <1>1, AfterConcat DEF Refreshes, ComesToEnd

\* Kinds of which nothing is to be said.
LEMMA OrderlyPlain ==
  ASSUME NEW s \in Chains, NEW K, Only(s, K), K \cap Rewrites = {},
         K \cap {"ensure", "adopt", "wallets", "show"} = {}
  PROVE  Orderly(s)
<1>1. K \cap {"ensure"} = {} /\ K \cap {"adopt", "wallets"} = {} /\ K \cap {"show"} = {}
  OBVIOUS
<1>2. Never(s, {"ensure"}, Contacting) /\ Never(s, {"show"}, LinkKinds)
  BY <1>1, OnlyWithout, Zenon
<1>3. Directly(s, {"adopt", "wallets"}, "read")
  BY <1>1, OnlyWithout, Zenon
<1>4. ~Has(s, Rewrites)
  BY OnlyWithout
<1> QED
  BY <1>2, <1>3, <1>4 DEF Orderly

LEMMA Kinds1 ==
  ASSUME NEW s \in Chains, NEW a, Len(s) = 1, s[1] = <<a, None>>
  PROVE  /\ Only(s, {a}) /\ s # <<>> /\ Head(s)[1] = a
         /\ \A K : Has(s, K) <=> a \in K
<1>1. \A i \in 1 .. Len(s) : i = 1
  OBVIOUS
<1>2. s # <<>> /\ Head(s) = s[1]
  BY DEF Chains
<1> QED
  BY <1>1, <1>2 DEF Only, Has

LEMMA Kinds2 ==
  ASSUME NEW s \in Chains, NEW a, NEW b, Len(s) = 2, s[1] = <<a, None>>, s[2] = <<b, None>>
  PROVE  /\ Only(s, {a, b}) /\ s # <<>> /\ Head(s)[1] = a
         /\ \A K : Has(s, K) <=> a \in K \/ b \in K
<1>1. \A i \in 1 .. Len(s) : i = 1 \/ i = 2
  OBVIOUS
<1>2. s # <<>> /\ Head(s) = s[1]
  BY DEF Chains
<1>3. s[1][1] = a /\ s[2][1] = b /\ 1 \in 1 .. Len(s) /\ 2 \in 1 .. Len(s)
  OBVIOUS
<1> QED
  BY <1>1, <1>2, <1>3 DEF Only, Has

LEMMA Kinds3 ==
  ASSUME NEW s \in Chains, NEW a, NEW b, NEW c, Len(s) = 3,
         s[1] = <<a, None>>, s[2] = <<b, None>>, s[3] = <<c, None>>
  PROVE  /\ Only(s, {a, b, c}) /\ s # <<>> /\ Head(s)[1] = a
         /\ \A K : Has(s, K) <=> a \in K \/ b \in K \/ c \in K
<1>1. \A i \in 1 .. Len(s) : i = 1 \/ i = 2 \/ i = 3
  OBVIOUS
<1>2. s # <<>> /\ Head(s) = s[1]
  BY DEF Chains
<1>3. /\ s[1][1] = a /\ s[2][1] = b /\ s[3][1] = c
      /\ 1 \in 1 .. Len(s) /\ 2 \in 1 .. Len(s) /\ 3 \in 1 .. Len(s)
  OBVIOUS
<1> QED
  BY <1>1, <1>2, <1>3 DEF Only, Has

\* A chain as it is when a handler starts.
Good(s) == Orderly(s) /\ Fetched(s)

LEMMA OnlyMore ==
  ASSUME NEW s \in Chains, NEW K, NEW L, Only(s, K), K \subseteq L
  PROVE  Only(s, L)
BY DEF Only

LEMMA InHas ==
  ASSUME NEW s, NEW link, In(link, s)
  PROVE  Has(s, {link[1]})
BY DEF In, Has

LEMMA InHasKind ==
  ASSUME NEW s, NEW k, NEW x, In(<<k, x>>, s), NEW K, k \in K
  PROVE  Has(s, K)
<1>1. <<k, x>>[1] = k
  OBVIOUS
<1> QED
  BY <1>1 DEF In, Has

LEMMA GoodConcat ==
  ASSUME NEW s, NEW t, Good(s), Good(t), ~Has(s, {"show"}),
         ~Has(s, {"ensure"}) \/ ~Has(t, Contacting)
  PROVE  Good(s \o t)
<1>1. s \in Chains /\ t \in Chains
  BY DEF Good, Orderly
<1>2. t # <<>> => Head(t)[1] \notin {"adopt", "wallets"}
  BY <1>1, BeforeTail DEF Good, Fetched, UsesData
<1>3. Orderly(s \o t)
  BY <1>2, OrderlyConcat DEF Good
<1>4. Fetched(s \o t)
  BY <1>1, BeforeConcat, Zenon DEF Good, Fetched
<1> QED
  BY <1>3, <1>4 DEF Good

\* The same when the second piece uses what the first has fetched.
LEMMA GoodConcatUses ==
  ASSUME NEW s, NEW t, Good(s), Orderly(t), ~Has(s, {"show"}),
         ~Has(s, {"ensure"}) \/ ~Has(t, Contacting), Has(s, {"read"}),
         t # <<>> => Head(t)[1] \notin {"adopt", "wallets"}
  PROVE  Good(s \o t)
<1>1. s \in Chains /\ t \in Chains
  BY DEF Good, Orderly
<1>2. Orderly(s \o t)
  BY OrderlyConcat DEF Good
<1>3. Fetched(s \o t)
  BY <1>1, BeforeConcat DEF Good, Fetched
<1> QED
  BY <1>2, <1>3 DEF Good

\* Kinds that neither use what was fetched nor have a place of their own.
Simple == {"login", "read", "targets", "targetsUnlessMade", "idle", "ensureWallets",
           "connect", "take"}

LEMMA GoodSimple ==
  ASSUME NEW s \in Chains, Only(s, Simple)
  PROVE  Good(s)
<1>1. /\ Simple \cap Rewrites = {} /\ Simple \cap {"ensure", "adopt", "wallets", "show"} = {}
      /\ Simple \cap UsesData = {}
  BY DEF Simple, Rewrites, UsesData
<1>2. Orderly(s)
  BY <1>1, OrderlyPlain
<1>3. Before(s, UsesData, "read")
  BY <1>1, OnlyWithout
<1> QED
  BY <1>2, <1>3 DEF Good, Fetched

LEMMA EmptyIs ==
  <<>> \in Chains /\ \A K : Only(<<>>, K) /\ ~Has(<<>>, K)
<1>1. <<>> \in Chains /\ Len(<<>>) = 0
  BY DEF Chains
<1> QED
  BY <1>1 DEF Only, Has

\* What is fetched last is rendered.
LEMMA ReadRender ==
  LET s == Links(<<"read", "render">>) IN
  /\ s \in Chains /\ s # <<>> /\ Good(s) /\ Refreshes(s) /\ Only(s, {"read", "render"})
  /\ Has(s, {"read"}) /\ Has(s, {"render"})
<1> DEFINE s == Links(<<"read", "render">>)
<1>1. s \in Chains /\ Len(s) = 2 /\ s[1] = <<"read", None>> /\ s[2] = <<"render", None>>
  BY Links2, Zenon DEF Bare
<1> HIDE DEF s
<1>2. Only(s, {"read", "render"}) /\ s # <<>> /\ \A K : Has(s, K) <=> "read" \in K \/ "render" \in K
  BY <1>1, Kinds2, Zenon
<1>3. Orderly(s)
  <2>1. /\ {"read", "render"} \cap Rewrites = {}
        /\ {"read", "render"} \cap {"ensure", "adopt", "wallets", "show"} = {}
    BY DEF Rewrites
  <2> QED
    BY <1>1, <1>2, <2>1, OrderlyPlain
<1>4. \A i \in 1 .. Len(s) : i = 1 \/ i = 2
  BY <1>1
<1>5. s[1][1] = "read" /\ s[2][1] = "render"
  BY <1>1
<1>6. Fetched(s)
  BY <1>4, <1>5 DEF Fetched, Before, UsesData
<1>7. After(s, {"read"}, {"render", "try"})
  <2>1. 2 \in 1 + 1 .. Len(s)
    BY <1>1
  <2> QED
    BY <1>4, <1>5, <2>1 DEF After
<1>8. After(s, Writers, {"read", "try"})
  BY <1>4, <1>5 DEF After, Writers
<1>9. ComesToEnd(s)
  <2>1. 2 \in 1 + 1 .. Len(s)
    BY <1>1
  <2> QED
    BY <1>4, <1>5, <2>1 DEF ComesToEnd, After, Lasting
<1> QED
  BY <1>1, <1>2, <1>3, <1>6, <1>7, <1>8, <1>9, SMTT(30) DEF s, Good, Refreshes

LEMMA ReadIs ==
  LET s == Links(<<"read">>) IN
  s \in Chains /\ s # <<>> /\ Good(s) /\ Only(s, {"read"}) /\ Has(s, {"read"})
<1> DEFINE s == Links(<<"read">>)
<1>1. s \in Chains /\ Len(s) = 1 /\ s[1] = <<"read", None>>
  BY Links1 DEF Bare
<1> HIDE DEF s
<1>2. Only(s, {"read"}) /\ s # <<>> /\ \A K : Has(s, K) <=> "read" \in K
  BY <1>1, Kinds1
<1>3. Only(s, Simple)
  BY <1>1, <1>2, OnlyMore DEF Simple
<1> QED
  BY <1>1, <1>2, <1>3, GoodSimple DEF s

\* A chain that ends with the render of what it has fetched.
LEMMA ThenRendered ==
  ASSUME NEW s, NEW K, Good(s), Only(s, K), ~Has(s, {"show"})
  PROVE  LET t == s \o Links(<<"read", "render">>) IN
         /\ t \in Chains /\ t # <<>> /\ Good(t) /\ Refreshes(t)
         /\ Only(t, K \cup {"read", "render"})
         /\ Has(t, {"read"}) /\ Has(t, {"render"}) /\ \A L : Has(s, L) => Has(t, L)
<1> DEFINE r == Links(<<"read", "render">>)
           t == s \o r
<1>1. /\ r \in Chains /\ r # <<>> /\ Good(r) /\ Refreshes(r) /\ Only(r, {"read", "render"})
      /\ Has(r, {"read"}) /\ Has(r, {"render"})
  BY ReadRender
<1> HIDE DEF r
<1>2. s \in Chains
  BY DEF Good, Orderly
<1>3. t \in Chains /\ t # <<>>
  BY <1>1, <1>2, ConcatIs DEF Chains
<1>4. ~Has(r, Contacting)
  <2>1. {"read", "render"} \cap Contacting = {}
    BY DEF Contacting
  <2> QED
    BY <1>1, <2>1, OnlyWithout
<1>5. Good(t)
  BY <1>1, <1>4, GoodConcat
<1>6. Refreshes(t)
  BY <1>1, <1>2, RefreshesConcat
<1>7. Only(t, K \cup {"read", "render"})
  <2>1. Only(s, K \cup {"read", "render"}) /\ Only(r, K \cup {"read", "render"})
    BY <1>1, <1>2, OnlyMore
  <2> QED
    BY <1>1, <1>2, <2>1, OnlyConcat
<1>8. Has(t, {"read"}) /\ Has(t, {"render"}) /\ \A L : Has(s, L) => Has(t, L)
  BY <1>1, <1>2, HasConcat
<1> QED
  BY <1>3, <1>5, <1>6, <1>7, <1>8 DEF r

\* A chain that goes on with a fetch.
LEMMA ThenRead ==
  ASSUME NEW s, NEW K, Good(s), Only(s, K), ~Has(s, {"show"})
  PROVE  LET t == s \o Links(<<"read">>) IN
         /\ t \in Chains /\ t # <<>> /\ Good(t) /\ Only(t, K \cup {"read"})
         /\ Has(t, {"read"}) /\ \A L : Has(s, L) => Has(t, L)
<1> DEFINE r == Links(<<"read">>)
           t == s \o r
<1>1. r \in Chains /\ r # <<>> /\ Good(r) /\ Only(r, {"read"}) /\ Has(r, {"read"})
  BY ReadIs
<1> HIDE DEF r
<1>2. s \in Chains
  BY DEF Good, Orderly
<1>3. t \in Chains /\ t # <<>>
  BY <1>1, <1>2, ConcatIs DEF Chains
<1>4. ~Has(r, Contacting)
  <2>1. {"read"} \cap Contacting = {}
    BY DEF Contacting
  <2> QED
    BY <1>1, <2>1, OnlyWithout
<1>5. Good(t)
  BY <1>1, <1>4, GoodConcat
<1>6. Only(t, K \cup {"read"})
  <2>1. Only(s, K \cup {"read"}) /\ Only(r, K \cup {"read"})
    BY <1>1, <1>2, OnlyMore
  <2> QED
    BY <1>1, <1>2, <2>1, OnlyConcat
<1>7. Has(t, {"read"}) /\ \A L : Has(s, L) => Has(t, L)
  BY <1>1, <1>2, HasConcat
<1> QED
  BY <1>3, <1>5, <1>6, <1>7 DEF r

LoggingIn == {"login", "read", "render"}

LEMMA LogInIs ==
  /\ logIn \in Chains /\ logIn # <<>> /\ Good(logIn) /\ Refreshes(logIn)
  /\ Only(logIn, LoggingIn) /\ Has(logIn, {"read"})
<1>1. LogInLinks \in Chains /\ Only(LogInLinks, {"login"})
  <2>1. CASE session.hook
    BY <2>1, EmptyIs DEF LogInLinks
  <2>2. CASE ~session.hook
    <3>1. Links(<<"login">>) \in Chains /\ Only(Links(<<"login">>), {"login"})
      BY Links1, Kinds1 DEF Bare
    <3> QED
      BY <2>2, <3>1 DEF LogInLinks
  <2> QED
    BY <2>1, <2>2
<1>2. Good(LogInLinks) /\ ~Has(LogInLinks, {"show"})
  BY <1>1, GoodSimple, OnlyMore, OnlyWithout DEF Simple
<1>3. {"login"} \cup {"read", "render"} = LoggingIn
  BY DEF LoggingIn
<1> QED
  BY <1>1, <1>2, <1>3, ThenRendered, Zenon DEF logIn

LEMMA EnsureLoggedInIs ==
  /\ EnsureLoggedIn \in Chains /\ Good(EnsureLoggedIn) /\ Refreshes(EnsureLoggedIn)
  /\ Only(EnsureLoggedIn, LoggingIn)
<1>1. Good(<<>>) /\ Refreshes(<<>>)
  <2>1. <<>> \in Chains /\ Only(<<>>, Simple) /\ Only(<<>>, {})
    BY EmptyIs
  <2>2. Good(<<>>)
    BY <2>1, GoodSimple
  <2>3. \A A : {} \cap A = {}
    OBVIOUS
  <2>4. /\ After(<<>>, Writers, {"read", "try"}) /\ After(<<>>, {"read"}, {"render", "try"})
        /\ ComesToEnd(<<>>)
    BY <2>1, <2>3, OnlyWithout, Zenon DEF ComesToEnd
  <2> QED
    BY <2>2, <2>4 DEF Refreshes
<1> QED
  BY <1>1, EmptyIs, LogInIs DEF EnsureLoggedIn

LEMMA LoggingInWithout ==
  ASSUME NEW s \in Chains, Only(s, LoggingIn)
  PROVE  ~Has(s, {"show"}) /\ ~Has(s, {"ensure"}) /\ ~Has(s, Contacting)
<1>1. LoggingIn \cap {"show"} = {} /\ LoggingIn \cap {"ensure"} = {} /\ LoggingIn \cap Contacting = {}
  BY DEF LoggingIn, Contacting
<1> QED
  BY <1>1, OnlyWithout

\* How to tell that a chain is made of two.
LEMMA Joined ==
  ASSUME NEW s \in Chains, NEW h \in Chains, NEW r \in Chains, Len(s) = Len(h) + Len(r),
         \A i \in 1 .. Len(h) : s[i] = h[i],
         \A i \in 1 .. Len(r) : s[Len(h) + i] = r[i]
  PROVE  s = h \o r
<1>1. h \o r \in Chains /\ Len(h \o r) = Len(s)
  BY ConcatIs
<1>2. ASSUME NEW i \in 1 .. Len(h \o r)  PROVE s[i] = (h \o r)[i]
  <2>1. CASE i \in 1 .. Len(h)
    BY <2>1, ConcatLeft
  <2>2. ASSUME NEW j \in 1 .. Len(r), i = Len(h) + j  PROVE s[i] = (h \o r)[i]
    BY <2>2, ConcatRight
  <2> QED
    BY <2>1, <2>2, ConcatSplit
<1> QED
  BY <1>1, <1>2 DEF Chains

LEMMA Split3 ==
  ASSUME NEW a \in Bare
  PROVE  Links(<<a, "read", "render">>) = Links(<<a>>) \o Links(<<"read", "render">>)
<1> DEFINE s == Links(<<a, "read", "render">>)
           h == Links(<<a>>)
           r == Links(<<"read", "render">>)
<1>1. /\ s \in Chains /\ Len(s) = 3
      /\ s[1] = <<a, None>> /\ s[2] = <<"read", None>> /\ s[3] = <<"render", None>>
  BY Links3, ZenonT(40) DEF Bare
<1>2. h \in Chains /\ Len(h) = 1 /\ h[1] = <<a, None>>
  BY Links1
<1>3. r \in Chains /\ Len(r) = 2 /\ r[1] = <<"read", None>> /\ r[2] = <<"render", None>>
  BY Links2, Zenon DEF Bare
<1> HIDE DEF s, h, r
<1>4. Len(s) = Len(h) + Len(r)
  BY <1>1, <1>2, <1>3
<1>5. \A i \in 1 .. Len(h) : s[i] = h[i]
  <2>1. \A i \in 1 .. Len(h) : i = 1
    BY <1>2
  <2> QED
    BY <1>1, <1>2, <2>1
<1>6. \A i \in 1 .. Len(r) : s[Len(h) + i] = r[i]
  <2>1. \A i \in 1 .. Len(r) : i = 1 \/ i = 2
    BY <1>3
  <2>2. Len(h) + 1 = 2 /\ Len(h) + 2 = 3
    BY <1>2
  <2> QED
    BY <1>1, <1>3, <2>1, <2>2
<1>7. s = h \o r
  BY <1>1, <1>2, <1>3, <1>4, <1>5, <1>6, Joined, Zenon
<1> QED
  BY <1>7, Zenon DEF s, h, r

LEMMA Split4 ==
  ASSUME NEW a \in Bare, NEW b \in Bare
  PROVE  Links(<<a, b, "read", "render">>) = Links(<<a, b>>) \o Links(<<"read", "render">>)
<1> DEFINE s == Links(<<a, b, "read", "render">>)
           h == Links(<<a, b>>)
           r == Links(<<"read", "render">>)
<1>1. "read" \in Bare /\ "render" \in Bare
  BY DEF Bare
<1>2. /\ s = [i \in 1 .. 4 |-> s[i]] /\ s[1] = <<a, None>> /\ s[2] = <<b, None>>
      /\ s[3] = <<"read", None>> /\ s[4] = <<"render", None>>
  BY DEF Links, Link
<1>3. s \in Chains /\ Len(s) = 4
  <2> HIDE DEF s
  <2>1. \A i \in 1 .. 4 : s[i] \in AnyLink
    BY <1>1, <1>2, BareIs
  <2> QED
    BY <1>2, <2>1, MappedIs, Zenon
<1>4. h \in Chains /\ Len(h) = 2 /\ h[1] = <<a, None>> /\ h[2] = <<b, None>>
  BY Links2
<1>5. r \in Chains /\ Len(r) = 2 /\ r[1] = <<"read", None>> /\ r[2] = <<"render", None>>
  BY Links2, Zenon DEF Bare
<1> HIDE DEF s, h, r
<1>6. Len(s) = Len(h) + Len(r)
  BY <1>3, <1>4, <1>5
<1>7. \A i \in 1 .. Len(h) : s[i] = h[i]
  <2>1. \A i \in 1 .. Len(h) : i = 1 \/ i = 2
    BY <1>4
  <2> QED
    BY <1>2, <1>3, <1>4, <2>1
<1>8. \A i \in 1 .. Len(r) : s[Len(h) + i] = r[i]
  <2>1. \A i \in 1 .. Len(r) : i = 1 \/ i = 2
    BY <1>5
  <2>2. Len(h) + 1 = 3 /\ Len(h) + 2 = 4
    BY <1>4
  <2> QED
    BY <1>2, <1>3, <1>5, <2>1, <2>2
<1>9. s = h \o r
  BY <1>3, <1>4, <1>5, <1>6, <1>7, <1>8, Joined, Zenon
<1> QED
  BY <1>9, Zenon DEF s, h, r

\* A simple link, and then the render of what is fetched.
LEMMA SimpleRendered ==
  ASSUME NEW a \in Simple \cap Bare
  PROVE  LET t == Links(<<a, "read", "render">>) IN
         /\ t \in Chains /\ t # <<>> /\ Good(t) /\ Refreshes(t)
         /\ Only(t, {a, "read", "render"})
         /\ Has(t, {"read"}) /\ Has(t, {"render"}) /\ Has(t, {a})
<1> DEFINE h == Links(<<a>>)
<1>1. h \in Chains /\ Only(h, {a}) /\ Has(h, {a})
  BY Links1, Kinds1, Zenon
<1> HIDE DEF h
<1>2. Good(h) /\ ~Has(h, {"show"})
  <2>1. {a} \subseteq Simple /\ {a} \cap {"show"} = {}
    BY DEF Simple
  <2> QED
    BY <1>1, <2>1, GoodSimple, OnlyMore, OnlyWithout, ZenonT(40)
<1>3. {a} \cup {"read", "render"} = {a, "read", "render"}
  OBVIOUS
<1>4. Links(<<a, "read", "render">>) = h \o Links(<<"read", "render">>)
  BY Split3, Zenon DEF h
<1> QED
  BY <1>1, <1>2, <1>3, <1>4, ThenRendered, Zenon

\* A chain that fetches and renders after another one.
LEMMA ThenRefreshed ==
  ASSUME NEW s, NEW K, Good(s), Only(s, K), K \cap {"show", "ensure"} = {},
         NEW t, NEW L, Good(t), Refreshes(t), Only(t, L), Has(t, {"read"}), Has(t, {"render"})
  PROVE  /\ s \o t \in Chains /\ s \o t # <<>> /\ Good(s \o t) /\ Refreshes(s \o t)
         /\ Only(s \o t, K \cup L) /\ Has(s \o t, {"read"}) /\ Has(s \o t, {"render"})
         /\ \A M : Has(s, M) \/ Has(t, M) => Has(s \o t, M)
         /\ \A link : In(link, s) \/ In(link, t) => In(link, s \o t)
<1>1. s \in Chains /\ t \in Chains
  BY DEF Good, Orderly
<1>2. K \cap {"show"} = {} /\ K \cap {"ensure"} = {}
  OBVIOUS
<1>3. Good(s \o t)
  BY <1>1, <1>2, OnlyWithout, GoodConcat
<1>4. Refreshes(s \o t)
  BY <1>1, RefreshesConcat
<1>5. s \o t \in Chains
  BY <1>1, ConcatIs
<1>6. s \o t # <<>>
  BY <1>1, <1>5, EmptyIs, HasConcat
<1>7. Only(s \o t, K \cup L)
  <2>1. Only(s, K \cup L) /\ Only(t, K \cup L)
    BY <1>1, OnlyMore
  <2> QED
    BY <1>1, <2>1, OnlyConcat
<1> QED
  BY <1>1, <1>3, <1>4, <1>5, <1>6, <1>7, HasConcat, InConcat

\* What useNotifiSubscribe does, one function after the other.
Subscribing == LoggingIn \cup {"alert", "targetsUnlessMade", "idle"}

LEMMA AlertsIs ==
  ASSUME NEW s, Good(s), Only(s, LoggingIn), NEW a \in Chains, Only(a, {"alert"})
  PROVE  LET t == s \o Links(<<"read">>) \o a IN
         /\ Good(t) /\ Only(t, LoggingIn \cup {"alert"})
         /\ \A link : In(link, a) => In(link, t)
<1> DEFINE h == s \o Links(<<"read">>)
<1>1. s \in Chains /\ ~Has(s, {"show"})
  BY LoggingInWithout DEF Good, Orderly
<1>2. h \in Chains /\ Good(h) /\ Only(h, LoggingIn) /\ Has(h, {"read"})
  <2>1. LoggingIn \cup {"read"} = LoggingIn
    BY DEF LoggingIn
  <2> QED
    BY <1>1, <2>1, ThenRead, ZenonT(40)
<1> HIDE DEF h
<1>3. Orderly(a)
  <2>1. {"alert"} \cap Rewrites = {} /\ {"alert"} \cap {"ensure", "adopt", "wallets", "show"} = {}
    BY DEF Rewrites
  <2> QED
    BY <2>1, OrderlyPlain
<1>4. a # <<>> => Head(a)[1] \notin {"adopt", "wallets"}
  BY TailIs DEF Only
<1>5. Good(h \o a)
  BY <1>2, <1>3, <1>4, LoggingInWithout, GoodConcatUses
<1>6. Only(h \o a, LoggingIn \cup {"alert"})
  <2>1. Only(h, LoggingIn \cup {"alert"}) /\ Only(a, LoggingIn \cup {"alert"})
    BY <1>2, OnlyMore
  <2> QED
    BY <1>2, <2>1, OnlyConcat
<1>7. \A link : In(link, a) => In(link, h \o a)
  BY <1>2, InConcat
<1> QED
  BY <1>5, <1>6, <1>7 DEF h

LEMMA SubscribeIs ==
  /\ subscribe \in Chains /\ subscribe # <<>> /\ Good(subscribe) /\ Refreshes(subscribe)
  /\ Only(subscribe, Subscribing)
  /\ Has(subscribe, {"read"}) /\ Has(subscribe, {"targetsUnlessMade"})
  /\ \A n \in Names : In(<<"alert", n>>, subscribe)
<1> DEFINE a == AlertLinks
           h == EnsureLoggedIn \o Links(<<"read">>) \o a
           t == Links(<<"targetsUnlessMade", "read", "render">>)
<1>1. a \in Chains /\ Only(a, {"alert"}) /\ \A n \in Names : In(<<"alert", n>>, a)
  BY ByName DEF AlertLinks
<1>2. Good(h) /\ Only(h, LoggingIn \cup {"alert"}) /\ \A n \in Names : In(<<"alert", n>>, h)
  BY <1>1, EnsureLoggedInIs, AlertsIs
<1>3. /\ Good(t) /\ Refreshes(t) /\ Only(t, {"targetsUnlessMade", "read", "render"})
      /\ Has(t, {"read"}) /\ Has(t, {"render"}) /\ Has(t, {"targetsUnlessMade"})
  BY SimpleRendered DEF Simple, Bare
<1>4. (LoggingIn \cup {"alert"}) \cap {"show", "ensure"} = {}
  BY DEF LoggingIn
<1>5. (LoggingIn \cup {"alert"}) \cup {"targetsUnlessMade", "read", "render"} \subseteq Subscribing
  BY DEF Subscribing, LoggingIn
<1>6. subscribe = h \o t
  BY DEF subscribe
<1> HIDE DEF h, t
<1>7. /\ subscribe \in Chains /\ subscribe # <<>> /\ Good(subscribe) /\ Refreshes(subscribe)
      /\ Only(subscribe, (LoggingIn \cup {"alert"}) \cup {"targetsUnlessMade", "read", "render"})
      /\ Has(subscribe, {"read"}) /\ Has(subscribe, {"targetsUnlessMade"})
      /\ \A n \in Names : In(<<"alert", n>>, subscribe)
  BY <1>2, <1>3, <1>4, <1>6, ThenRefreshed, Zenon
<1> QED
  BY <1>5, <1>7, OnlyMore

LEMMA InstantSubscribeIs ==
  ASSUME NEW n \in Names
  PROVE  LET s == instantSubscribe(n) IN
         /\ s \in Chains /\ s # <<>> /\ Good(s) /\ Refreshes(s)
         /\ Only(s, Subscribing)
         /\ Has(s, {"read"}) /\ Has(s, {"targetsUnlessMade"}) /\ In(<<"alert", n>>, s)
<1> DEFINE a == <<<<"alert", n>>>>
           h == logIn \o Links(<<"read">>) \o a
           i == Links(<<"targetsUnlessMade", "idle">>)
           r == Links(<<"read", "render">>)
           t == Links(<<"targetsUnlessMade", "idle", "read", "render">>)
<1>1. a \in Chains /\ Only(a, {"alert"}) /\ In(<<"alert", n>>, a)
  <2>1. <<"alert", n>> \in AnyLink
    BY DEF AnyLink, OfName
  <2> QED
    BY <2>1, SingleIs DEF Only, In
<1>2. Good(h) /\ Only(h, LoggingIn \cup {"alert"}) /\ In(<<"alert", n>>, h)
  BY <1>1, LogInIs, AlertsIs, Zenon
<1>3. i \in Chains /\ Only(i, {"targetsUnlessMade", "idle"}) /\ Has(i, {"targetsUnlessMade"})
  <2>1. /\ i \in Chains /\ Len(i) = 2
        /\ i[1] = <<"targetsUnlessMade", None>> /\ i[2] = <<"idle", None>>
    BY Links2, Zenon DEF Bare
  <2> HIDE DEF i
  <2> QED
    BY <2>1, Kinds2, Zenon
<1>4. Good(i) /\ ~Has(i, {"show"})
  <2>1. {"targetsUnlessMade", "idle"} \cap {"show"} = {}
    BY SMTT(30)
  <2> QED
    BY <1>3, <2>1, GoodSimple, OnlyMore, OnlyWithout DEF Simple
<1>5. t = i \o r
  BY Split4, Zenon DEF Bare
<1> HIDE DEF h, t, i
<1> DEFINE K == LoggingIn \cup {"alert"}
           L == {"targetsUnlessMade", "idle"} \cup {"read", "render"}
<1>6. /\ Good(t) /\ Refreshes(t) /\ Only(t, L)
      /\ Has(t, {"read"}) /\ Has(t, {"render"}) /\ Has(t, {"targetsUnlessMade"})
  BY <1>3, <1>4, <1>5, ThenRendered, Zenon
<1>7. K \cap {"show", "ensure"} = {}
  BY DEF LoggingIn
<1>8. K \cup L \subseteq Subscribing
  BY DEF Subscribing, LoggingIn
<1>9. instantSubscribe(n) = h \o t
  BY DEF instantSubscribe, h, t
<1> DEFINE s == instantSubscribe(n)
<1> HIDE DEF s, K, L
<1>10. Only(h, K)
  BY <1>2 DEF K
<1>11. s \in Chains /\ s # <<>> /\ Good(s) /\ Refreshes(s) /\ Only(s, K \cup L)
  <2>1. /\ h \o t \in Chains /\ h \o t # <<>> /\ Good(h \o t) /\ Refreshes(h \o t)
        /\ Only(h \o t, K \cup L)
    BY <1>2, <1>6, <1>7, <1>10, ThenRefreshed, Zenon
  <2> QED
    BY <1>9, <2>1 DEF s
<1>12. Has(s, {"read"}) /\ Has(s, {"targetsUnlessMade"}) /\ In(<<"alert", n>>, s)
  <2>1. h \in Chains /\ t \in Chains
    BY <1>2, <1>6 DEF Good, Orderly
  <2> QED
    BY <1>2, <1>6, <1>9, <2>1, HasConcat, InConcat DEF s
<1> QED
  BY <1>8, <1>11, <1>12, OnlyMore DEF s

LEMMA UpdateTargetGroupsIs ==
  LET s == updateTargetGroups IN
  /\ s \in Chains /\ s # <<>> /\ Good(s) /\ Refreshes(s) /\ Only(s, LoggingIn \cup {"targets"})
  /\ Has(s, {"read"}) /\ Has(s, {"targets"})
<1> DEFINE h == EnsureLoggedIn
           t == Links(<<"targets", "read", "render">>)
           L == {"targets", "read", "render"}
<1>1. /\ Good(t) /\ Refreshes(t) /\ Only(t, L)
      /\ Has(t, {"read"}) /\ Has(t, {"render"}) /\ Has(t, {"targets"})
  BY SimpleRendered DEF Simple, Bare
<1>2. LoggingIn \cap {"show", "ensure"} = {}
  BY DEF LoggingIn
<1>3. LoggingIn \cup L \subseteq LoggingIn \cup {"targets"}
  BY DEF LoggingIn
<1>4. Good(h) /\ Only(h, LoggingIn)
  BY EnsureLoggedInIs
<1>5. updateTargetGroups = h \o t
  BY DEF updateTargetGroups
<1> HIDE DEF h, t, L
<1>6. /\ h \o t \in Chains /\ h \o t # <<>> /\ Good(h \o t) /\ Refreshes(h \o t)
      /\ Only(h \o t, LoggingIn \cup L)
  BY <1>1, <1>2, <1>4, ThenRefreshed, Zenon
<1>7. Has(h \o t, {"read"}) /\ Has(h \o t, {"targets"})
  BY <1>1, <1>2, <1>4, ThenRefreshed, Zenon
<1> QED
  BY <1>3, <1>5, <1>6, <1>7, OnlyMore

\* What is fetched last is made the sources of the wallets, and rendered.
LEMMA ReadWallets ==
  LET s == Links(<<"read", "wallets", "read", "render">>) IN
  /\ s \in Chains /\ Good(s) /\ Refreshes(s) /\ Only(s, {"wallets", "read", "render"})
  /\ Has(s, {"read"}) /\ Has(s, {"render"}) /\ Has(s, Grouping)
<1> DEFINE h == Links(<<"read", "wallets">>)
           t == Links(<<"read", "wallets", "read", "render">>)
<1>1. h \in Chains /\ Len(h) = 2 /\ h[1] = <<"read", None>> /\ h[2] = <<"wallets", None>>
  BY Links2, Zenon DEF Bare
<1>2. t = h \o Links(<<"read", "render">>)
  BY Split4, Zenon DEF Bare
<1> HIDE DEF h, t
<1>3. Only(h, {"read", "wallets"}) /\ \A K : Has(h, K) <=> "read" \in K \/ "wallets" \in K
  BY <1>1, Kinds2, Zenon
<1>4. h[1][1] = "read" /\ h[2][1] = "wallets" /\ \A i \in 1 .. Len(h) : i = 1 \/ i = 2
  BY <1>1
<1>5. Orderly(h)
  <2>1. Never(h, {"ensure"}, Contacting) /\ Never(h, {"show"}, LinkKinds)
    BY <1>4 DEF Never
  <2>2. Directly(h, {"adopt", "wallets"}, "read")
    <3> SUFFICES ASSUME NEW i \in 2 .. Len(h)  PROVE h[i - 1][1] = "read"
      BY DEF Directly
    <3>1. i - 1 = 1
      BY <1>1
    <3> QED
      BY <1>4, <3>1
  <2>3. ~Has(h, Rewrites)
    BY <1>3 DEF Rewrites
  <2> QED
    BY <1>1, <2>1, <2>2, <2>3 DEF Orderly
<1>6. Fetched(h)
  <2>1. ASSUME NEW i \in 1 .. Len(h), h[i][1] \in UsesData
        PROVE  \E j \in 1 .. i - 1 : h[j][1] = "read"
    <3>1. i = 2
      BY <1>4, <2>1 DEF UsesData
    <3>2. 1 \in 1 .. i - 1
      BY <3>1
    <3> QED
      BY <1>4, <3>2
  <2> QED
    BY <2>1 DEF Fetched, Before
<1>7. Good(h) /\ ~Has(h, {"show"})
  BY <1>3, <1>5, <1>6 DEF Good
<1>8. {"read", "wallets"} \cup {"read", "render"} = {"wallets", "read", "render"}
  OBVIOUS
<1>9. Has(h, Grouping)
  BY <1>3 DEF Grouping
<1> QED
  BY <1>2, <1>3, <1>7, <1>8, <1>9, ThenRendered, Zenon DEF t

\* A wallet is verified: what joined the wallets is among their sources then.
LEMMA WalletsIs ==
  ASSUME NEW s, Good(s), Only(s, LoggingIn \cup OfWallet)
  PROVE  LET t == s \o Links(<<"read", "wallets", "read", "render">>) IN
         /\ t \in Chains /\ t # <<>> /\ Good(t) /\ Refreshes(t)
         /\ Only(t, LoggingIn \cup OfWallet \cup {"wallets"})
         /\ Has(t, {"read"}) /\ Has(t, Grouping) /\ After(t, Joining, Grouping)
<1> DEFINE t == Links(<<"read", "wallets", "read", "render">>)
           K == LoggingIn \cup OfWallet
           L == {"wallets", "read", "render"}
<1>1. /\ t \in Chains /\ Good(t) /\ Refreshes(t) /\ Only(t, L)
      /\ Has(t, {"read"}) /\ Has(t, {"render"}) /\ Has(t, Grouping)
  BY ReadWallets
<1>2. K \cap {"show", "ensure"} = {} /\ L \cap Joining = {} /\ K \cup L = K \cup {"wallets"}
  BY DEF LoggingIn, OfWallet, Joining
<1>3. s \in Chains /\ Only(s, K)
  BY DEF Good, Orderly
<1> HIDE DEF t, K, L
<1>4. /\ s \o t \in Chains /\ s \o t # <<>> /\ Good(s \o t) /\ Refreshes(s \o t)
      /\ Only(s \o t, K \cup L)
  BY <1>1, <1>2, <1>3, ThenRefreshed, Zenon
<1>5. Has(s \o t, {"read"}) /\ Has(s \o t, Grouping)
  BY <1>1, <1>3, HasConcat
<1>6. After(s \o t, Joining, Grouping)
  BY <1>1, <1>2, <1>3, OnlyWithout, AfterConcat
<1> QED
  BY <1>2, <1>4, <1>5, <1>6, Zenon DEF t, K

LEMMA UpdateWalletsIs ==
  LET s == updateWallets IN
  /\ s \in Chains /\ s # <<>> /\ Good(s) /\ Refreshes(s)
  /\ Only(s, LoggingIn \cup OfWallet \cup {"wallets"})
  /\ Has(s, {"read"}) /\ Has(s, Grouping) /\ After(s, Joining, Grouping)
<1>1. Good(EnsureLoggedIn) /\ Only(EnsureLoggedIn, LoggingIn \cup OfWallet)
  BY EnsureLoggedInIs, OnlyMore
<1> QED
  BY <1>1, WalletsIs, Zenon DEF updateWallets

LEMMA SubscribeWalletIs ==
  ASSUME NEW w \in Wallets, NEW technique \in OfWallet
  PROVE  LET s == subscribeWallet(w, technique) IN
         /\ s \in Chains /\ s # <<>> /\ Good(s) /\ Refreshes(s)
         /\ Only(s, LoggingIn \cup OfWallet \cup {"wallets"})
         /\ Has(s, {"read"}) /\ Has(s, Grouping) /\ After(s, Joining, Grouping)
<1> DEFINE e == EnsureLoggedIn
           l == <<<<technique, w>>>>
<1>1. e \in Chains /\ Good(e) /\ Only(e, LoggingIn) /\ ~Has(e, {"show"}) /\ ~Has(e, {"ensure"})
  BY EnsureLoggedInIs, LoggingInWithout
<1>2. l \in Chains /\ Only(l, OfWallet)
  <2>1. <<technique, w>> \in AnyLink
    BY DEF AnyLink
  <2> QED
    BY <2>1, SingleIs DEF Only
<1>3. Good(l)
  BY <1>2, OnlyMore, GoodSimple DEF OfWallet, Simple
<1>4. subscribeWallet(w, technique) = (e \o l) \o Links(<<"read", "wallets", "read", "render">>)
  BY DEF subscribeWallet
<1> HIDE DEF e, l
<1>5. Good(e \o l)
  BY <1>1, <1>3, GoodConcat
<1>6. Only(e \o l, LoggingIn \cup OfWallet)
  <2>1. Only(e, LoggingIn \cup OfWallet) /\ Only(l, LoggingIn \cup OfWallet)
    BY <1>1, <1>2, OnlyMore
  <2> QED
    BY <1>1, <1>2, <2>1, OnlyConcat
<1> QED
  BY <1>4, <1>5, <1>6, WalletsIs, Zenon

LEMMA ReadAdopt ==
  LET s == Links(<<"read", "adopt">>) IN
  s \in Chains /\ Good(s) /\ Only(s, {"read", "adopt"})
<1> DEFINE h == Links(<<"read", "adopt">>)
<1>1. h \in Chains /\ Len(h) = 2 /\ h[1] = <<"read", None>> /\ h[2] = <<"adopt", None>>
  BY Links2, Zenon DEF Bare
<1> HIDE DEF h
<1>2. Only(h, {"read", "adopt"}) /\ \A K : Has(h, K) <=> "read" \in K \/ "adopt" \in K
  BY <1>1, Kinds2
<1>3. h[1][1] = "read" /\ h[2][1] = "adopt" /\ \A i \in 1 .. Len(h) : i = 1 \/ i = 2
  BY <1>1
<1>4. Orderly(h)
  <2>1. Never(h, {"ensure"}, Contacting) /\ Never(h, {"show"}, LinkKinds)
    BY <1>3 DEF Never
  <2>2. Directly(h, {"adopt", "wallets"}, "read")
    <3> SUFFICES ASSUME NEW i \in 2 .. Len(h)  PROVE h[i - 1][1] = "read"
      BY DEF Directly
    <3>1. i - 1 = 1
      BY <1>1
    <3> QED
      BY <1>3, <3>1
  <2>3. ~Has(h, Rewrites)
    BY <1>2 DEF Rewrites
  <2> QED
    BY <1>1, <2>1, <2>2, <2>3 DEF Orderly
<1>5. Fetched(h)
  <2>1. ASSUME NEW i \in 1 .. Len(h), h[i][1] \in UsesData
        PROVE  \E j \in 1 .. i - 1 : h[j][1] = "read"
    <3>1. i = 2
      BY <1>3, <2>1 DEF UsesData
    <3>2. 1 \in 1 .. i - 1
      BY <3>1
    <3> QED
      BY <1>3, <3>2
  <2> QED
    BY <2>1 DEF Fetched, Before
<1> QED
  BY <1>1, <1>2, <1>4, <1>5, SMTT(30) DEF h, Good

Ensuring == {"targets", "ensure", "read", "adopt"}

LEMMA SubscribeAlertsIs ==
  LET s == subscribeAlerts IN
  /\ s \in Chains /\ s # <<>> /\ Good(s) /\ Only(s, Ensuring) /\ Has(s, {"targets"})
  /\ \A n \in Names : In(<<"ensure", n>>, s)
<1> DEFINE h == Links(<<"targets">>)
           e == [i \in DOMAIN Order |-> <<"ensure", Order[i]>>]
           t == Links(<<"read", "adopt">>)
<1>1. subscribeAlerts = (h \o e) \o t
  BY DEF subscribeAlerts
<1>2. h \in Chains /\ Only(h, {"targets"}) /\ Has(h, {"targets"})
  BY Links1, Kinds1, ZenonT(40) DEF Bare
<1>3. e \in Chains /\ Only(e, {"ensure"}) /\ \A n \in Names : In(<<"ensure", n>>, e)
  BY ByName
<1>4. t \in Chains /\ Good(t) /\ Only(t, {"read", "adopt"})
  BY ReadAdopt
<1> HIDE DEF h, e, t
<1>5. Good(h) /\ ~Has(h, {"show"}) /\ ~Has(h, {"ensure"})
  BY <1>2, GoodSimple, OnlyMore, OnlyWithout DEF Simple
<1>6. Good(e) /\ ~Has(e, {"show"})
  <2>1. \A i \in 1 .. Len(e) : e[i][1] = "ensure"
    BY <1>3 DEF Only
  <2>2. Never(e, {"ensure"}, Contacting)
    <3>1. \A i \in 1 .. Len(e) : \A j \in i + 1 .. Len(e) : j \in 1 .. Len(e)
      BY <1>3 DEF Chains
    <3> QED
      BY <2>1, <3>1 DEF Never, Contacting
  <2>3. /\ {"ensure"} \cap {"show"} = {} /\ {"ensure"} \cap Rewrites = {}
        /\ {"ensure"} \cap {"adopt", "wallets"} = {} /\ {"ensure"} \cap UsesData = {}
    BY DEF Rewrites, UsesData
  <2> QED
    BY <1>3, <2>2, <2>3, OnlyWithout, Zenon DEF Good, Orderly, Fetched
<1>7. Good(h \o e) /\ h \o e \in Chains
  BY <1>2, <1>3, <1>5, <1>6, GoodConcat, ConcatIs
<1>8. ~Has(h \o e, {"show"})
  BY <1>2, <1>3, <1>5, <1>6, HasConcat
<1>9. ~Has(t, Contacting)
  <2>1. {"read", "adopt"} \cap Contacting = {}
    BY DEF Contacting
  <2> QED
    BY <1>4, <2>1, OnlyWithout
<1>10. Good((h \o e) \o t) /\ (h \o e) \o t \in Chains
  BY <1>4, <1>7, <1>8, <1>9, GoodConcat, ConcatIs
<1>11. Only((h \o e) \o t, Ensuring)
  <2>1. Only(h, Ensuring) /\ Only(e, Ensuring) /\ Only(t, Ensuring)
    BY <1>2, <1>3, <1>4, OnlyMore DEF Ensuring
  <2> QED
    BY <1>2, <1>3, <1>4, <1>7, <2>1, OnlyConcat
<1>12. Has((h \o e) \o t, {"targets"})
  BY <1>2, <1>3, <1>4, <1>7, HasConcat
<1>13. \A n \in Names : In(<<"ensure", n>>, (h \o e) \o t)
  BY <1>2, <1>3, <1>4, <1>7, InConcat, Zenon
<1>14. (h \o e) \o t # <<>>
  BY <1>12, EmptyIs, Zenon
<1> QED
  BY <1>1, <1>10, <1>11, <1>12, <1>13, <1>14

\* At the end a view is shown.
LEMMA ThenShown ==
  ASSUME NEW s, NEW K, Good(s), Only(s, K), "show" \notin K, NEW v \in Views
  PROVE  LET t == s \o <<<<"show", v>>>> IN
         /\ t \in Chains /\ t # <<>> /\ Good(t) /\ Only(t, K \cup {"show"})
         /\ ComesToEnd(t) /\ (Refreshes(s) => Refreshes(t))
         /\ After(s, Joining, Grouping) => After(t, Joining, Grouping)
         /\ \A L : Has(s, L) => Has(t, L)
         /\ \A link : In(link, s) => In(link, t)
         /\ In(<<"show", "verify">>, t) => v = "verify"
<1> DEFINE e == <<<<"show", v>>>>
           t == s \o e
<1>1. e \in Chains /\ Len(e) = 1 /\ e[1] = <<"show", v>>
  <2>1. <<"show", v>> \in AnyLink
    BY DEF AnyLink
  <2> QED
    BY <2>1, SingleIs
<1> HIDE DEF e
<1>2. Only(e, {"show"}) /\ e # <<>>
  BY <1>1, SMTT(30) DEF Only, Chains
<1>3. Orderly(e)
  <2>1. Never(e, {"show"}, LinkKinds)
    BY <1>1 DEF Never
  <2>2. /\ {"show"} \cap {"ensure"} = {} /\ {"show"} \cap Rewrites = {}
        /\ {"show"} \cap {"adopt", "wallets"} = {}
    BY DEF Rewrites
  <2> QED
    BY <1>1, <1>2, <2>1, <2>2, OnlyWithout, Zenon DEF Orderly
<1>4. Good(e) /\ Refreshes(e) /\ After(e, Joining, Grouping) /\ ~Has(e, Contacting)
  <2>1. /\ {"show"} \cap UsesData = {} /\ {"show"} \cap Writers = {} /\ {"show"} \cap {"read"} = {}
        /\ {"show"} \cap Joining = {} /\ {"show"} \cap Contacting = {}
        /\ {"show"} \cap (LinkKinds \ Lasting) = {}
    BY DEF UsesData, Writers, Joining, Contacting, Lasting
  <2> QED
    BY <1>1, <1>2, <1>3, <2>1, OnlyWithout, Zenon DEF Good, Fetched, Refreshes, ComesToEnd
<1>5. s \in Chains /\ ~Has(s, {"show"})
  <2>1. K \cap {"show"} = {}
    OBVIOUS
  <2> QED
    BY <2>1, OnlyWithout DEF Good, Orderly
<1>6. t \in Chains /\ t # <<>>
  BY <1>1, <1>2, <1>5, ConcatIs DEF Chains
<1>7. Good(t)
  BY <1>4, <1>5, GoodConcat
<1>8. Only(t, K \cup {"show"})
  <2>1. Only(s, K \cup {"show"}) /\ Only(e, K \cup {"show"})
    BY <1>1, <1>2, <1>5, OnlyMore
  <2> QED
    BY <1>1, <1>5, <2>1, OnlyConcat
<1>9. ComesToEnd(t) /\ (Refreshes(s) => Refreshes(t))
  <2>1. Has(e, Lasting)
    BY <1>1, <1>2, HasKind, OnlyMore DEF Lasting
  <2>2. ComesToEnd(t)
    BY <1>1, <1>4, <1>5, <2>1, AfterConcat DEF ComesToEnd, Refreshes
  <2> QED
    BY <1>1, <1>4, <1>5, <2>2, RefreshesConcat
<1>10. After(s, Joining, Grouping) => After(t, Joining, Grouping)
  BY <1>1, <1>4, <1>5, AfterConcat
<1>11. (\A L : Has(s, L) => Has(t, L)) /\ \A link : In(link, s) => In(link, t)
  BY <1>1, <1>5, HasConcat, InConcat
<1>12. ASSUME In(<<"show", "verify">>, t)  PROVE v = "verify"
  <2>1. ~In(<<"show", "verify">>, s)
    BY <1>5, InHas
  <2>2. In(<<"show", "verify">>, e)
    BY <1>1, <1>5, <1>12, <2>1, InConcat
  <2> QED
    BY <1>1, <2>2 DEF In
<1> QED
  BY <1>6, <1>7, <1>8, <1>9, <1>10, <1>11, <1>12 DEF e

\* What the button does in its try.
LEMMA ButtonIs ==
  ASSUME NEW firstTime \in BOOLEAN
  PROVE  LET s == ButtonLinks(firstTime) IN
         /\ s \in Chains /\ s # <<>> /\ Good(s) /\ Refreshes(s)
         /\ Has(s, {"read"}) /\ Has(s, {"targets", "targetsUnlessMade"})
         /\ setup.canary => Only(s, Ensuring \cup {"render", "show"})
         /\ ~setup.canary => Only(s, Subscribing \cup {"targets", "show"})
         /\ firstTime /\ ~setup.multi =>
              \A n \in Names : In(<<"alert", n>>, s) \/ In(<<"ensure", n>>, s)
<1> DEFINE firsts == firstTime /\ ~setup.multi
           b == CASE firsts /\ setup.canary -> subscribeAlerts
                  [] firsts /\ ~setup.canary -> subscribe
                  [] ~firsts /\ setup.canary -> Links(<<"targets">>)
                  [] ~firsts /\ ~setup.canary -> updateTargetGroups
           r == IF setup.canary THEN Links(<<"read", "render">>) ELSE <<>>
           v == CASE ~setup.multi -> "preview"
                  [] setup.multi /\ card.view = "signup" -> "verifyonboarding"
                  [] OTHER -> "verify"
           Targets == {"targets", "targetsUnlessMade"}
           C == Ensuring \cup {"render"}
           H == Subscribing \cup {"targets"}
<1>1. ButtonLinks(firstTime) = (b \o r) \o <<<<"show", v>>>>
  BY DEF ButtonLinks
<1>2. v \in Views
  BY DEF Views
<1>3. \A s : Has(s, {"targets"}) \/ Has(s, {"targetsUnlessMade"}) => Has(s, Targets)
  BY DEF Has
<1>4. /\ Good(b \o r) /\ Refreshes(b \o r) /\ Has(b \o r, {"read"}) /\ Has(b \o r, Targets)
      /\ setup.canary => Only(b \o r, C)
      /\ ~setup.canary => Only(b \o r, H)
      /\ firsts => \A n \in Names : In(<<"alert", n>>, b \o r) \/ In(<<"ensure", n>>, b \o r)
  <2>1. CASE setup.canary
    <3>1. /\ b \in Chains /\ Good(b) /\ Only(b, Ensuring) /\ Has(b, Targets)
          /\ firsts => \A n \in Names : In(<<"ensure", n>>, b)
      <4>1. CASE firsts
        BY <2>1, <4>1, <1>3, SubscribeAlertsIs
      <4>2. CASE ~firsts
        <5>1. LET h == Links(<<"targets">>) IN
              h \in Chains /\ Only(h, {"targets"}) /\ Has(h, {"targets"})
          BY Links1, Kinds1, Zenon DEF Bare
        <5>2. b = Links(<<"targets">>)
          BY <2>1, <4>2
        <5> HIDE DEF b
        <5>3. Good(b)
          BY <5>1, <5>2, OnlyMore, GoodSimple DEF Simple
        <5>4. Only(b, Ensuring)
          BY <5>1, <5>2, OnlyMore DEF Ensuring
        <5> QED
          BY <4>2, <5>1, <5>2, <5>3, <5>4, <1>3
      <4> QED
        BY <4>1, <4>2
    <3>2. ~Has(b, {"show"})
      <4>1. Ensuring \cap {"show"} = {}
        BY DEF Ensuring
      <4> QED
        BY <3>1, <4>1, OnlyWithout
    <3>3. r = Links(<<"read", "render">>)
      BY <2>1
    <3>4. Ensuring \cup {"read", "render"} = C
      BY DEF Ensuring
    <3> HIDE DEF b, r, C, firsts
    <3>5. r \in Chains
      BY <3>3, ReadRender
    <3>6. /\ Good(b \o r) /\ Refreshes(b \o r) /\ Only(b \o r, C)
          /\ Has(b \o r, {"read"}) /\ Has(b \o r, Targets)
      BY <3>1, <3>2, <3>3, <3>4, ThenRendered, Zenon
    <3>7. firsts => \A n \in Names : In(<<"ensure", n>>, b \o r)
      BY <3>1, <3>5, InConcat, Zenon
    <3> QED
      BY <2>1, <3>6, <3>7
  <2>2. CASE ~setup.canary
    <3>1. /\ b \in Chains /\ Good(b) /\ Refreshes(b) /\ Only(b, H)
          /\ Has(b, {"read"}) /\ Has(b, Targets)
          /\ firsts => \A n \in Names : In(<<"alert", n>>, b)
      <4>1. CASE firsts
        <5>1. b = subscribe
          BY <2>2, <4>1
        <5>2. Subscribing \subseteq H
          OBVIOUS
        <5> HIDE DEF b, H, Targets
        <5> QED
          BY <5>1, <5>2, <1>3, SubscribeIs, OnlyMore
      <4>2. CASE ~firsts
        <5>1. b = updateTargetGroups
          BY <2>2, <4>2
        <5>2. LoggingIn \cup {"targets"} \subseteq H
          BY DEF Subscribing
        <5> HIDE DEF b, H, Targets
        <5> QED
          BY <4>2, <5>1, <5>2, <1>3, UpdateTargetGroupsIs, OnlyMore
      <4> QED
        BY <4>1, <4>2
    <3>2. b \o r = b
      <4>1. r = <<>>
        BY <2>2
      <4> HIDE DEF b, r
      <4> QED
        BY <3>1, <4>1 DEF Chains
    <3> HIDE DEF b, r, H, firsts
    <3> QED
      BY <2>2, <3>1, <3>2
  <2> QED
    BY <2>1, <2>2
<1>5. "show" \notin C /\ "show" \notin H
  BY DEF Ensuring, Subscribing, LoggingIn
<1>6. C \cup {"show"} = Ensuring \cup {"render", "show"} /\ H \cup {"show"} = Subscribing \cup {"targets", "show"}
  OBVIOUS
<1> DEFINE h == b \o r
           t == h \o <<<<"show", v>>>>
<1> HIDE DEF b, r, v, C, H, h, firsts, Targets
<1>7. ASSUME NEW K, Only(h, K), "show" \notin K
      PROVE  /\ t \in Chains /\ t # <<>> /\ Good(t) /\ Only(t, K \cup {"show"}) /\ Refreshes(t)
             /\ \A L : Has(h, L) => Has(t, L)
             /\ \A link : In(link, h) => In(link, t)
  <2>1. Good(h) /\ Refreshes(h)
    BY <1>4 DEF h
  <2> QED
    BY <1>2, <1>7, <2>1, ThenShown
<1>8. \E K \in {C, H} : Only(h, K) /\ "show" \notin K
  BY <1>4, <1>5 DEF h
<1>9. /\ t \in Chains /\ t # <<>> /\ Good(t) /\ Refreshes(t)
      /\ \A L : Has(h, L) => Has(t, L)
      /\ \A link : In(link, h) => In(link, t)
  BY <1>7, <1>8, Zenon
<1>10. setup.canary => Only(t, C \cup {"show"})
  BY <1>4, <1>5, <1>7 DEF h
<1>11. ~setup.canary => Only(t, H \cup {"show"})
  BY <1>4, <1>5, <1>7 DEF h
<1>12. Has(t, {"read"}) /\ Has(t, Targets)
  BY <1>4, <1>9 DEF h
<1>13. firsts => \A n \in Names : In(<<"alert", n>>, t) \/ In(<<"ensure", n>>, t)
  BY <1>4, <1>9, Zenon DEF h
<1>14. ButtonLinks(firstTime) = t
  BY <1>1 DEF h, t
<1> QED
  BY <1>6, <1>9, <1>10, <1>11, <1>12, <1>13, <1>14, Zenon DEF firsts, Targets

-----------------------------------------------------------------------------
(* A handler that runs. u stands for the setup.                              *)

Mine == Wallets \cup {"own"}
Contacts == Emails \cup {None}
Configurations == [Names -> Configuration \cup {None}]

SetupState ==
  {u \in [canary : BOOLEAN, multi : BOOLEAN, events : [Names -> Kinds], offered : SUBSET Names] :
     u \in Cards}
SessionState ==
  [hook : BOOLEAN, frontend : {"none", "valid", "expired"}, known : BOOLEAN, fetched : BOOLEAN]
CardState ==
  [view : Views, form : Contacts, loading : BOOLEAN, email : Contacts,
   alerts : [Names -> Options \cup {None}], wallets : SUBSET Mine, elsewhere : SUBSET Wallets]
FlowState ==
  [by : Handlers \cup {None}, todo : Chains, tried : BOOLEAN, form : Contacts,
   configs : Configurations, data : ServerState \cup {None}, made : BOOLEAN]

Filtered(u, n, config) == config.sources # {} /\ n \in u.offered

\* One alert is rewritten at a time: its deletion was asked for, or its creation
\* comes next.
Replacing(u, configs, s) ==
  LET n == Head(s)[2] IN
  \/ ~Filtered(u, n, configs[n]) /\ ~Has(Tail(s), Rewrites)
  \/ /\ Tail(s) # <<>> /\ Head(Tail(s)) = <<"create", n>>
     /\ ~Has(Tail(Tail(s)), Rewrites)
Rewriting(u, configs, s) ==
  /\ Head(s)[1] \in Rewrites => Head(s)[2] \in Names /\ configs[Head(s)[2]] # None
  /\ IF Head(s)[1] = "delete" THEN Replacing(u, configs, s) ELSE ~Has(Tail(s), Rewrites)

\* The handlers that fetch for the card; those that sign the user up.
Fetches(u, by) ==
  by # "fetchOnce" /\ ~(u.canary /\ by \in {"verify", "verifyonboarding", "expired"})
Subs == {"button", "verifyonboarding", "toggle"}
Verifying == {"wallet", "verify"}
Working == LinkKinds \ {"read", "render"}

Chained(u, by, s) ==
  /\ s # <<>> /\ ComesToEnd(s)
  /\ by = "fetchOnce" => ~Has(s, Working)
  /\ Never(s, {"ensure"}, Contacting)
  /\ Directly(s, {"adopt", "wallets"}, "read")
  /\ Never(s, {"show"}, LinkKinds)
  /\ by \notin Subs => ~Has(s, Writers \cup {"try"})
  /\ Fetches(u, by) => Refreshes(s)
  /\ by \in Verifying => After(s, Joining, Grouping)
  /\ by # "button" => ~In(<<"show", "verify">>, s) /\ ~Has(s, {"try"})
  /\ u.canary => ~Has(s, {"alert"} \cup Rewrites)
  /\ ~u.canary => ~Has(s, {"try", "ensure", "adopt"})
  /\ u.canary /\ by \in Subs => After(s, Joining, {"try"})

RunsWell(u, r) ==
  /\ r.by \in Handlers
  /\ Chained(u, r.by, r.todo)
  /\ r.data = None => Fetched(r.todo)
  /\ Rewriting(u, r.configs, r.todo)

\* A handler that has just started.
Begun(u, r) ==
  /\ r.todo \in Chains /\ r.data = None /\ ~r.made /\ Good(r.todo)
  /\ Has(r.todo, {"try"}) => r.configs = NoConfigurations
  /\ Fetches(u, r.by) => Has(r.todo, {"read", "try"})
  /\ r.by \in Verifying => Has(r.todo, Grouping)
  /\ r.by \in Subs =>
       /\ Has(r.todo, Contacting)
       /\ \A n \in Names : r.configs[n] # None =>
            Has(r.todo, {"try"}) \/ In(<<"alert", n>>, r.todo) \/ In(<<"ensure", n>>, r.todo)

Typed ==
  /\ setup \in SetupState /\ session \in SessionState /\ server \in ServerState
  /\ card \in CardState /\ flows \in [Flows -> FlowState]
  /\ clicks \in Nat /\ failures \in Nat /\ kept \subseteq Names
  /\ overlap \in BOOLEAN /\ beside \in BOOLEAN /\ cached \in BOOLEAN
  /\ \A f \in Flows : flows[f].by = None => flows[f] = NoFlow
  /\ \A f \in Flows : flows[f].by # None => RunsWell(setup, flows[f])

LEMMA LinkIs ==
  ASSUME NEW s \in Chains, s # <<>>
  PROVE  /\ Head(s) \in AnyLink /\ Tail(s) \in Chains
         /\ Head(s) = <<Head(s)[1], Head(s)[2]>> /\ Head(s)[1] \in LinkKinds
         /\ Head(s)[1] \in OfName => Head(s)[2] \in Names
         /\ Head(s)[1] \in OfWallet => Head(s)[2] \in Wallets
         /\ Head(s)[1] = "show" => Head(s)[2] \in Views
<1>1. Head(s) \in AnyLink /\ Tail(s) \in Chains
  BY DEF Chains
<1> DEFINE h == Head(s)
<1>2. /\ h = <<h[1], h[2]>> /\ h[1] \in LinkKinds
      /\ h[1] \in OfName => h[2] \in Names
      /\ h[1] \in OfWallet => h[2] \in Wallets
      /\ h[1] = "show" => h[2] \in Views
  <2> HIDE DEF h
  <2>1. CASE h \in Bare \X {None}
    BY <2>1 DEF LinkKinds, Bare, OfName, OfWallet
  <2>2. CASE h \in OfName \X Names
    BY <2>2 DEF LinkKinds, OfName, OfWallet
  <2>3. CASE h \in OfWallet \X Wallets
    BY <2>3 DEF LinkKinds, OfName, OfWallet
  <2>4. CASE h \in {"show"} \X Views
    BY <2>4 DEF LinkKinds, OfName, OfWallet
  <2> QED
    BY <1>1, <2>1, <2>2, <2>3, <2>4 DEF AnyLink, h
<1> QED
  BY <1>1, <1>2

\* What was not asked of the kinds of its links is so when a handler starts.
LEMMA GoodRewriting ==
  ASSUME NEW s, s # <<>>, Good(s), NEW u, NEW configs
  PROVE  Rewriting(u, configs, s)
<1>1. s \in Chains /\ ~Has(s, Rewrites)
  BY DEF Good, Orderly
<1>2. Head(s)[1] \notin Rewrites /\ ~Has(Tail(s), Rewrites)
  BY <1>1, HasTail
<1> QED
  BY <1>2 DEF Rewriting, Rewrites

LEMMA TailRewriting ==
  ASSUME NEW s \in Chains, s # <<>>, NEW u, NEW configs, Rewriting(u, configs, s), Tail(s) # <<>>
  PROVE  Rewriting(u, configs, Tail(s))
<1>1. Tail(s) \in Chains
  BY LinkIs
<1>2. CASE ~Has(Tail(s), Rewrites)
  <2>1. Head(Tail(s))[1] \notin Rewrites /\ ~Has(Tail(Tail(s)), Rewrites)
    BY <1>1, <1>2, HasTail, Zenon
  <2> QED
    BY <2>1 DEF Rewriting, Rewrites
<1>3. CASE Has(Tail(s), Rewrites)
  <2>1. Head(s)[1] = "delete" /\ Replacing(u, configs, s)
    BY <1>3 DEF Rewriting
  <2>2. Head(Tail(s)) = <<"create", Head(s)[2]>> /\ ~Has(Tail(Tail(s)), Rewrites)
    BY <1>3, <2>1 DEF Replacing
  <2>3. Head(s)[2] \in Names /\ configs[Head(s)[2]] # None
    BY <2>1 DEF Rewriting, Rewrites
  <2> QED
    BY <2>2, <2>3 DEF Rewriting
<1> QED
  BY <1>2, <1>3

\* A handler goes on with the next link.
LEMMA TailChained ==
  ASSUME NEW s \in Chains, s # <<>>, NEW u, NEW by, Chained(u, by, s)
  PROVE  /\ Tail(s) # <<>> => Chained(u, by, Tail(s))
         /\ Head(s)[1] \notin Lasting => Tail(s) # <<>>
<1>1. Tail(s) \in Chains
  BY LinkIs
<1>2. /\ ComesToEnd(Tail(s)) /\ Never(Tail(s), {"ensure"}, Contacting)
      /\ Directly(Tail(s), {"adopt", "wallets"}, "read") /\ Never(Tail(s), {"show"}, LinkKinds)
  BY AfterTail, NeverTail, DirectlyTail DEF Chained, ComesToEnd
<1>3. Fetches(u, by) => Refreshes(Tail(s))
  BY AfterTail DEF Chained, Refreshes, ComesToEnd
<1>4. /\ by \in Verifying => After(Tail(s), Joining, Grouping)
      /\ u.canary /\ by \in Subs => After(Tail(s), Joining, {"try"})
  BY AfterTail DEF Chained
<1>5. by # "button" => ~In(<<"show", "verify">>, Tail(s)) /\ ~Has(Tail(s), {"try"})
  BY InTail, HasTail DEF Chained
<1>6. /\ by \notin Subs => ~Has(Tail(s), Writers \cup {"try"})
      /\ u.canary => ~Has(Tail(s), {"alert"} \cup Rewrites)
      /\ ~u.canary => ~Has(Tail(s), {"try", "ensure", "adopt"})
      /\ by = "fetchOnce" => ~Has(Tail(s), Working)
  BY HasTail DEF Chained
<1>7. ASSUME Head(s)[1] \notin Lasting  PROVE Tail(s) # <<>>
  <2>1. Has(Tail(s), Lasting)
    BY <1>7, LinkIs, AfterTail DEF Chained, ComesToEnd
  <2> QED
    BY <2>1, EmptyIs, Zenon
<1> QED
  BY <1>2, <1>3, <1>4, <1>5, <1>6, <1>7 DEF Chained

\* What a handler starts with, by the kinds K of its links.
LEMMA Starts ==
  ASSUME NEW r, r.by \in Handlers, r.data = None, ~r.made,
         r.todo \in Chains, r.todo # <<>>, Good(r.todo), ComesToEnd(r.todo),
         NEW K, Only(r.todo, K), "try" \in K => r.by = "button" /\ r.configs = NoConfigurations,
         r.by \notin Subs => K \cap (Writers \cup {"try"}) = {},
         r.by = "fetchOnce" => K \cap Working = {},
         setup.canary => "alert" \notin K,
         ~setup.canary => K \cap {"try", "ensure", "adopt"} = {},
         Fetches(setup, r.by) => Refreshes(r.todo) /\ Has(r.todo, {"read", "try"}),
         r.by \in Verifying => After(r.todo, Joining, Grouping) /\ Has(r.todo, Grouping),
         setup.canary /\ r.by \in Subs => After(r.todo, Joining, {"try"}),
         r.by # "button" => ~In(<<"show", "verify">>, r.todo),
         r.by \in Subs =>
           /\ Has(r.todo, Contacting)
           /\ \A n \in Names : r.configs[n] # None =>
                Has(r.todo, {"try"}) \/ In(<<"alert", n>>, r.todo) \/ In(<<"ensure", n>>, r.todo)
  PROVE  RunsWell(setup, r) /\ Begun(setup, r)
<1> DEFINE s == r.todo
<1>1. /\ Never(s, {"ensure"}, Contacting) /\ Directly(s, {"adopt", "wallets"}, "read")
      /\ Never(s, {"show"}, LinkKinds) /\ ~Has(s, Rewrites)
      /\ Fetched(s)
  BY DEF Good, Orderly
<1>2. /\ r.by \notin Subs => ~Has(s, Writers \cup {"try"})
      /\ r.by = "fetchOnce" => ~Has(s, Working)
  BY OnlyWithout
<1>3. setup.canary => ~Has(s, {"alert"} \cup Rewrites)
  <2>1. ASSUME setup.canary  PROVE K \cap {"alert"} = {}
    BY <2>1
  <2>2. ASSUME setup.canary  PROVE ~Has(s, {"alert"})
    BY <2>1, <2>2, OnlyWithout
  <2> QED
    BY <1>1, <2>2 DEF Has
<1>4. ~setup.canary => ~Has(s, {"try", "ensure", "adopt"})
  BY OnlyWithout
<1>5. Has(s, {"try"}) => r.by = "button" /\ r.configs = NoConfigurations
  <2>1. CASE "try" \notin K
    <3>1. K \cap {"try"} = {}
      BY <2>1
    <3> QED
      BY <3>1, OnlyWithout
  <2> QED
    BY <2>1
<1>6. Chained(setup, r.by, s)
  BY <1>1, <1>2, <1>3, <1>4, <1>5 DEF Chained
<1>7. Rewriting(setup, r.configs, s)
  BY GoodRewriting
<1> QED
  BY <1>1, <1>5, <1>6, <1>7 DEF RunsWell, Begun

LEMMA KindsApart ==
  /\ LoggingIn \cap (Writers \cup {"try"}) = {} /\ "alert" \notin LoggingIn
  /\ LoggingIn \cap {"try", "ensure", "adopt"} = {} /\ "show" \notin LoggingIn
  /\ OfWallet \cap (Writers \cup {"try"}) = {} /\ "alert" \notin OfWallet
  /\ OfWallet \cap {"try", "ensure", "adopt"} = {} /\ "show" \notin OfWallet
  /\ Subscribing \cap {"try", "ensure", "adopt"} = {} /\ "show" \notin Subscribing
  /\ "alert" \notin Ensuring /\ "show" \notin Ensuring /\ "try" \notin Ensuring
  /\ Ensuring \cap Joining = {} /\ {"render", "show"} \cap Joining = {}
BY DEF LoggingIn, OfWallet, Subscribing, Ensuring, Writers, Joining

LEMMA HasMore ==
  ASSUME NEW s, NEW K, NEW L, Has(s, K), K \subseteq L
  PROVE  Has(s, L)
BY DEF Has

LEMMA FetchOnceStarts ==
  LET r == Captured("fetchOnce", Links(<<"read", "render">>), NoConfigurations) IN
  RunsWell(setup, r) /\ Begun(setup, r)
<1> DEFINE s == Links(<<"read", "render">>)
           r == Captured("fetchOnce", s, NoConfigurations)
           K == {"read", "render"}
<1>1. s \in Chains /\ s # <<>> /\ Good(s) /\ ComesToEnd(s) /\ Only(s, K)
  BY ReadRender DEF Refreshes
<1>2. /\ K \cap (Writers \cup {"try"}) = {} /\ "alert" \notin K
      /\ K \cap {"try", "ensure", "adopt"} = {} /\ K \cap {"show"} = {}
      /\ K \cap Working = {}
  BY DEF Writers, Working
<1> HIDE DEF s, K
<1>3. ~In(<<"show", "verify">>, s)
  <2>1. ~Has(s, {"show"})
    BY <1>1, <1>2, OnlyWithout
  <2> QED
    BY <2>1 DEF In, Has
<1>4. r.by = "fetchOnce" /\ r.todo = s /\ r.data = None /\ ~r.made
  BY DEF Captured, NoFlow
<1>5. r.by \in Handlers /\ r.by \notin Subs /\ r.by \notin Verifying /\ ~Fetches(setup, r.by)
  BY <1>4 DEF Handlers, Subs, Verifying, Fetches
<1> HIDE DEF r
<1>6. /\ r.todo \in Chains /\ r.todo # <<>> /\ Good(r.todo) /\ ComesToEnd(r.todo)
      /\ Only(r.todo, K) /\ ~In(<<"show", "verify">>, r.todo)
  BY <1>1, <1>3, <1>4
<1>7. RunsWell(setup, r) /\ Begun(setup, r)
  BY <1>2, <1>4, <1>5, <1>6, Starts
<1> QED
  BY <1>7 DEF s, r

\* The button, when it has to log in first; and in its try.
LEMMA LoginButtonStarts ==
  ASSUME setup.canary
  PROVE  LET r == [Captured("button", Links(<<"login", "read", "try">>), NoConfigurations)
                     EXCEPT !.tried = FALSE]
         IN  RunsWell(setup, r) /\ Begun(setup, r)
<1> DEFINE s == Links(<<"login", "read", "try">>)
           r == [Captured("button", s, NoConfigurations) EXCEPT !.tried = FALSE]
           K == {"login", "read", "try"}
<1>1. /\ s \in Chains /\ Len(s) = 3 /\ s[1] = <<"login", None>>
      /\ s[2] = <<"read", None>> /\ s[3] = <<"try", None>>
  BY Links3, ZenonT(40) DEF Bare
<1>2. /\ r.by = "button" /\ r.todo = s /\ r.configs = NoConfigurations
      /\ r.data = None /\ ~r.made
  BY DEF Captured, NoFlow
<1> HIDE DEF s, r
<1>3. /\ Only(s, K) /\ s # <<>>
      /\ \A L : Has(s, L) <=> "login" \in L \/ "read" \in L \/ "try" \in L
  BY <1>1, Kinds3, SMTT(30)
<1>4. /\ s[1][1] = "login" /\ s[2][1] = "read" /\ s[3][1] = "try"
      /\ \A i \in 1 .. Len(s) : i = 1 \/ i = 2 \/ i = 3
  BY <1>1
<1>5. 3 \in 1 + 1 .. Len(s) /\ 3 \in 2 + 1 .. Len(s) /\ 2 \in 1 .. 3 - 1
  BY <1>1
<1>6. Orderly(s)
  <2>1. K \cap Rewrites = {} /\ K \cap {"ensure", "adopt", "wallets", "show"} = {}
    BY DEF Rewrites
  <2> QED
    BY <1>1, <1>3, <2>1, OrderlyPlain
<1>7. Fetched(s)
  BY <1>4, <1>5 DEF Fetched, Before, UsesData
<1>8. ComesToEnd(s)
  BY <1>4, <1>5 DEF ComesToEnd, After, Lasting
<1>9. After(s, Writers, {"read", "try"}) /\ After(s, {"read"}, {"render", "try"})
  <2>1. K \cap Writers = {}
    BY DEF Writers
  <2>2. After(s, Writers, {"read", "try"})
    BY <1>1, <1>3, <2>1, OnlyWithout
  <2>3. After(s, {"read"}, {"render", "try"})
    BY <1>4, <1>5 DEF After
  <2> QED
    BY <2>2, <2>3
<1>9a. After(s, Joining, {"try"})
  BY <1>4, <1>5 DEF After, Joining
<1>10. ~In(<<"show", "verify">>, s)
  <2>1. ~Has(s, {"show"})
    BY <1>3
  <2> QED
    BY <2>1, InHas
<1>11. Has(s, Contacting) /\ Has(s, {"try"}) /\ Has(s, {"read", "try"})
  BY <1>3 DEF Contacting
<1>12. /\ r.by \in Handlers /\ r.by \in Subs /\ r.by \notin Verifying
       /\ setup.canary => "alert" \notin K
  BY <1>2 DEF Handlers, Subs, Verifying
<1>13. Good(s) /\ Refreshes(s)
  BY <1>6, <1>7, <1>8, <1>9 DEF Good, Refreshes
<1> HIDE DEF K
<1>14. RunsWell(setup, r) /\ Begun(setup, r)
  BY <1>1, <1>2, <1>3, <1>8, <1>9a, <1>10, <1>11, <1>12, <1>13, Starts
<1> QED
  BY <1>14 DEF s, r

LEMMA ButtonStarts ==
  ASSUME NEW firstTime \in BOOLEAN, NEW configs,
         (\E n \in Names : configs[n] # None) => firstTime /\ ~setup.multi
  PROVE  LET r == Captured("button", ButtonLinks(firstTime), configs) IN
         RunsWell(setup, r) /\ Begun(setup, r)
<1> DEFINE s == ButtonLinks(firstTime)
           r == Captured("button", s, configs)
           K == IF setup.canary THEN Ensuring \cup {"render", "show"}
                ELSE Subscribing \cup {"targets", "show"}
<1>1. /\ s \in Chains /\ s # <<>> /\ Good(s) /\ Refreshes(s)
      /\ Has(s, {"read"}) /\ Has(s, {"targets", "targetsUnlessMade"})
      /\ firstTime /\ ~setup.multi =>
           \A n \in Names : In(<<"alert", n>>, s) \/ In(<<"ensure", n>>, s)
  BY ButtonIs
<1>2. Only(s, K)
  BY ButtonIs, Zenon
<1>3. /\ setup.canary => "alert" \notin K
      /\ ~setup.canary => K \cap {"try", "ensure", "adopt"} = {}
      /\ "try" \notin K
      /\ setup.canary => K \cap Joining = {}
  BY KindsApart
<1>4. r.by = "button" /\ r.todo = s /\ r.configs = configs /\ r.data = None /\ ~r.made
  BY DEF Captured, NoFlow
<1>5. r.by \in Handlers /\ r.by \in Subs /\ r.by \notin Verifying
  BY <1>4 DEF Handlers, Subs, Verifying
<1> HIDE DEF s, r, K
<1>6. Has(s, Contacting) /\ Has(s, {"read", "try"}) /\ ComesToEnd(s)
  BY <1>1, HasMore DEF Contacting, Refreshes
<1>7. \A n \in Names : r.configs[n] # None =>
        Has(r.todo, {"try"}) \/ In(<<"alert", n>>, r.todo) \/ In(<<"ensure", n>>, r.todo)
  BY <1>1, <1>4
<1>8. setup.canary => After(s, Joining, {"try"})
  BY <1>1, <1>2, <1>3, OnlyWithout
<1>9. RunsWell(setup, r) /\ Begun(setup, r)
  BY <1>1, <1>2, <1>3, <1>4, <1>5, <1>6, <1>7, <1>8, Starts
<1> QED
  BY <1>9 DEF s, r

\* The view for wallets.
LEMMA VerifyStarts ==
  ASSUME NEW view \in {"verifyonboarding", "verify"}, NEW configs, NEW links,
         links = CASE view = "verifyonboarding" /\ setup.canary -> subscribeAlerts
                   [] view = "verifyonboarding" /\ ~setup.canary -> subscribe
                   [] view = "verify" /\ setup.canary -> Links(<<"ensureWallets">>)
                   [] view = "verify" /\ ~setup.canary -> updateWallets
  PROVE  LET r == Captured(view, links \o <<<<"show", "preview">>>>, configs) IN
         RunsWell(setup, r) /\ Begun(setup, r)
<1> DEFINE s == links \o <<<<"show", "preview">>>>
           r == Captured(view, s, configs)
<1>1. r.by = view /\ r.todo = s /\ r.data = None /\ ~r.made
  BY SMTT(30) DEF Captured, NoFlow
<1>2. r.by \in Handlers /\ r.by # "button"
  BY <1>1, Zenon DEF Handlers
<1>3. "preview" \in Views /\ "preview" # "verify"
  BY DEF Views
<1>4. ASSUME NEW K, Good(links), Only(links, K), "show" \notin K
      PROVE  /\ s \in Chains /\ s # <<>> /\ Good(s) /\ Only(s, K \cup {"show"})
             /\ ComesToEnd(s) /\ (Refreshes(links) => Refreshes(s))
             /\ After(links, Joining, Grouping) => After(s, Joining, Grouping)
             /\ \A L : Has(links, L) => Has(s, L)
             /\ \A link : In(link, links) => In(link, s)
             /\ ~In(<<"show", "verify">>, s)
  BY <1>3, <1>4, ThenShown
<1>5. CASE view = "verifyonboarding" /\ setup.canary
  <2> DEFINE K == Ensuring
  <2>1. links = subscribeAlerts
    BY <1>5
  <2>2. /\ links \in Chains /\ Good(links) /\ Only(links, K) /\ Has(links, {"targets"})
        /\ \A n \in Names : In(<<"ensure", n>>, links)
    BY <2>1, SubscribeAlertsIs
  <2>3. /\ "show" \notin K /\ "alert" \notin K /\ "try" \notin K
        /\ (K \cup {"show"}) \cap Joining = {}
    BY KindsApart
  <2>4. r.by \in Subs /\ r.by \notin Verifying /\ ~Fetches(setup, r.by)
    BY <1>1, <1>5 DEF Subs, Verifying, Fetches
  <2> HIDE DEF K, r, s
  <2>5. /\ s \in Chains /\ s # <<>> /\ Good(s) /\ Only(s, K \cup {"show"}) /\ ComesToEnd(s)
        /\ Has(s, {"targets"}) /\ \A n \in Names : In(<<"ensure", n>>, s)
        /\ ~In(<<"show", "verify">>, s)
    BY <1>4, <2>2, <2>3, Zenon
  <2>6. Has(s, Contacting)
    BY <2>5, HasMore DEF Contacting
  <2>7. "alert" \notin K \cup {"show"} /\ "try" \notin K \cup {"show"}
    BY <2>3
  <2>9. After(s, Joining, {"try"})
    BY <2>3, <2>5, OnlyWithout
  <2>8. RunsWell(setup, r) /\ Begun(setup, r)
    BY <1>1, <1>2, <1>5, <2>4, <2>5, <2>6, <2>7, <2>9, Starts
  <2> QED
    BY <2>8 DEF r, s
<1>6. CASE view = "verifyonboarding" /\ ~setup.canary
  <2> DEFINE K == Subscribing
  <2>1. links = subscribe
    BY <1>6
  <2>2. /\ links \in Chains /\ Good(links) /\ Refreshes(links) /\ Only(links, K)
        /\ Has(links, {"read"}) /\ Has(links, {"targetsUnlessMade"})
        /\ \A n \in Names : In(<<"alert", n>>, links)
    BY <2>1, SubscribeIs
  <2>3. "show" \notin K /\ K \cap {"try", "ensure", "adopt"} = {}
    BY KindsApart
  <2>4. r.by \in Subs /\ r.by \notin Verifying
    BY <1>1, <1>6 DEF Subs, Verifying
  <2> HIDE DEF K, r, s
  <2>5. /\ s \in Chains /\ s # <<>> /\ Good(s) /\ Only(s, K \cup {"show"}) /\ Refreshes(s)
        /\ Has(s, {"read"}) /\ Has(s, {"targetsUnlessMade"})
        /\ \A n \in Names : In(<<"alert", n>>, s)
        /\ ~In(<<"show", "verify">>, s)
    BY <1>4, <2>2, <2>3, Zenon
  <2>6. Has(s, Contacting) /\ Has(s, {"read", "try"}) /\ ComesToEnd(s)
    BY <2>5, HasMore DEF Contacting, Refreshes
  <2>7. (K \cup {"show"}) \cap {"try", "ensure", "adopt"} = {}
    BY <2>3
  <2>8. RunsWell(setup, r) /\ Begun(setup, r)
    BY <1>1, <1>2, <1>6, <2>4, <2>5, <2>6, <2>7, Starts, Zenon
  <2> QED
    BY <2>8 DEF r, s
<1>7. CASE view = "verify" /\ setup.canary
  <2> DEFINE K == {"ensureWallets"}
  <2>1. links = Links(<<"ensureWallets">>)
    BY <1>7
  <2>2. links \in Chains /\ Only(links, K) /\ Has(links, K)
    <3>1. LET l == Links(<<"ensureWallets">>) IN l \in Chains /\ Only(l, K) /\ Has(l, K)
      BY Links1, Kinds1, ZenonT(40) DEF Bare
    <3> QED
      BY <2>1, <3>1
  <2>3. /\ "show" \notin K /\ "alert" \notin K \cup {"show"} /\ K \subseteq Simple /\ K \subseteq Grouping
        /\ (K \cup {"show"}) \cap (Writers \cup {"try"}) = {}
        /\ K \cap Joining = {}
    BY DEF Simple, Grouping, Writers, Joining
  <2>4. r.by \notin Subs /\ ~Fetches(setup, r.by)
    BY <1>1, <1>7 DEF Subs, Fetches
  <2> HIDE DEF K, r, s
  <2>5. Good(links) /\ After(links, Joining, Grouping)
    BY <2>2, <2>3, GoodSimple, OnlyMore, OnlyWithout, Zenon
  <2>6. /\ s \in Chains /\ s # <<>> /\ Good(s) /\ Only(s, K \cup {"show"}) /\ ComesToEnd(s)
        /\ After(s, Joining, Grouping) /\ Has(s, K)
        /\ ~In(<<"show", "verify">>, s)
    BY <1>4, <2>2, <2>3, <2>5, Zenon
  <2>7. Has(s, Grouping)
    BY <2>3, <2>6, HasMore
  <2>8. RunsWell(setup, r) /\ Begun(setup, r)
    BY <1>1, <1>2, <1>7, <2>3, <2>4, <2>6, <2>7, Starts, Zenon
  <2> QED
    BY <2>8 DEF r, s
<1>8. CASE view = "verify" /\ ~setup.canary
  <2> DEFINE K == LoggingIn \cup OfWallet \cup {"wallets"}
  <2>1. links = updateWallets
    BY <1>8
  <2>2. /\ links \in Chains /\ Good(links) /\ Refreshes(links) /\ Only(links, K)
        /\ Has(links, {"read"}) /\ Has(links, Grouping) /\ After(links, Joining, Grouping)
    BY <2>1, UpdateWalletsIs
  <2>3. /\ "show" \notin K /\ (K \cup {"show"}) \cap {"try", "ensure", "adopt"} = {}
        /\ (K \cup {"show"}) \cap (Writers \cup {"try"}) = {}
    BY DEF LoggingIn, OfWallet, Writers
  <2>4. r.by \notin Subs
    BY <1>1, <1>8 DEF Subs
  <2> HIDE DEF K, r, s
  <2>5. /\ s \in Chains /\ s # <<>> /\ Good(s) /\ Only(s, K \cup {"show"}) /\ Refreshes(s)
        /\ After(s, Joining, Grouping) /\ Has(s, {"read"}) /\ Has(s, Grouping)
        /\ ~In(<<"show", "verify">>, s)
    BY <1>4, <2>2, <2>3, Zenon
  <2>6. Has(s, {"read", "try"}) /\ ComesToEnd(s)
    BY <2>5, HasMore DEF Refreshes
  <2>8. RunsWell(setup, r) /\ Begun(setup, r)
    BY <1>1, <1>2, <1>8, <2>3, <2>4, <2>5, <2>6, Starts, Zenon
  <2> QED
    BY <2>8 DEF r, s
<1> QED
  BY <1>5, <1>6, <1>7, <1>8

LEMMA WalletStarts ==
  ASSUME NEW w \in Wallets, NEW technique \in OfWallet
  PROVE  LET r == Captured("wallet", subscribeWallet(w, technique), NoConfigurations) IN
         RunsWell(setup, r) /\ Begun(setup, r)
<1> DEFINE s == subscribeWallet(w, technique)
           r == Captured("wallet", s, NoConfigurations)
           K == LoggingIn \cup OfWallet \cup {"wallets"}
<1>1. /\ s \in Chains /\ s # <<>> /\ Good(s) /\ Refreshes(s) /\ Only(s, K)
      /\ Has(s, {"read"}) /\ Has(s, Grouping) /\ After(s, Joining, Grouping)
  BY SubscribeWalletIs, Zenon
<1>2. /\ K \cap {"show"} = {} /\ "alert" \notin K /\ K \cap {"try", "ensure", "adopt"} = {}
      /\ K \cap (Writers \cup {"try"}) = {}
  BY DEF LoggingIn, OfWallet, Writers
<1>3. r.by = "wallet" /\ r.todo = s /\ r.data = None /\ ~r.made
  BY DEF Captured, NoFlow
<1>4. r.by \in Handlers /\ r.by \notin Subs
  BY <1>3 DEF Handlers, Subs
<1> HIDE DEF s, r, K
<1>5. Has(s, {"read", "try"}) /\ ComesToEnd(s)
  BY <1>1, HasMore DEF Refreshes
<1>6. ~In(<<"show", "verify">>, s)
  <2>1. ~Has(s, {"show"})
    BY <1>1, <1>2, OnlyWithout
  <2> QED
    BY <2>1 DEF In, Has
<1>7. RunsWell(setup, r) /\ Begun(setup, r)
  BY <1>1, <1>2, <1>3, <1>4, <1>5, <1>6, Starts
<1> QED
  BY <1>7 DEF s, r

LEMMA ToggleStarts ==
  ASSUME ~setup.canary, NEW n \in Names, NEW config
  PROVE  LET r == Captured("toggle", instantSubscribe(n), [NoConfigurations EXCEPT ![n] = config]) IN
         RunsWell(setup, r) /\ Begun(setup, r)
<1> DEFINE s == instantSubscribe(n)
           r == Captured("toggle", s, [NoConfigurations EXCEPT ![n] = config])
           K == Subscribing
<1>1. /\ s \in Chains /\ s # <<>> /\ Good(s) /\ Refreshes(s) /\ Only(s, K)
      /\ Has(s, {"read"}) /\ Has(s, {"targetsUnlessMade"}) /\ In(<<"alert", n>>, s)
  BY InstantSubscribeIs
<1>2. K \cap {"show"} = {} /\ K \cap {"try", "ensure", "adopt"} = {}
  BY KindsApart
<1>3. r.by = "toggle" /\ r.todo = s /\ r.data = None /\ ~r.made
  BY DEF Captured, NoFlow
<1>4. r.by \in Handlers /\ r.by \in Subs /\ r.by \notin Verifying
  BY <1>3 DEF Handlers, Subs, Verifying
<1>5. \A m \in Names : r.configs[m] # None => m = n
  BY DEF Captured, NoFlow, NoConfigurations
<1> HIDE DEF s, r, K
<1>6. Has(s, {"read", "try"}) /\ Has(s, Contacting) /\ ComesToEnd(s)
  BY <1>1, HasMore DEF Refreshes, Contacting
<1>7. ~In(<<"show", "verify">>, s)
  <2>1. ~Has(s, {"show"})
    BY <1>1, <1>2, OnlyWithout
  <2> QED
    BY <2>1 DEF In, Has
<1>8. \A m \in Names : r.configs[m] # None =>
        Has(r.todo, {"try"}) \/ In(<<"alert", m>>, r.todo) \/ In(<<"ensure", m>>, r.todo)
  BY <1>1, <1>3, <1>5
<1>9. RunsWell(setup, r) /\ Begun(setup, r)
  BY <1>1, <1>2, <1>3, <1>4, <1>6, <1>7, <1>8, Starts, Zenon
<1> QED
  BY <1>9 DEF s, r

LEMMA ReconnectStarts ==
  ASSUME NEW links, links = IF setup.canary THEN Links(<<"login">>) ELSE logIn
  PROVE  LET r == Captured("expired", links \o <<<<"show", "preview">>>>, NoConfigurations) IN
         RunsWell(setup, r) /\ Begun(setup, r)
<1> DEFINE s == links \o <<<<"show", "preview">>>>
           r == Captured("expired", s, NoConfigurations)
           K == LoggingIn
<1>1. r.by = "expired" /\ r.todo = s /\ r.data = None /\ ~r.made
  BY DEF Captured, NoFlow
<1>2. r.by \in Handlers /\ r.by \notin Subs /\ r.by \notin Verifying /\ r.by # "button"
  BY <1>1 DEF Handlers, Subs, Verifying
<1>3. "preview" \in Views /\ "preview" # "verify"
  BY DEF Views
<1>4. /\ "show" \notin K /\ "alert" \notin K \cup {"show"}
      /\ (K \cup {"show"}) \cap {"try", "ensure", "adopt"} = {}
      /\ (K \cup {"show"}) \cap (Writers \cup {"try"}) = {}
  BY DEF LoggingIn, Writers
<1>5. /\ links \in Chains /\ Good(links) /\ Only(links, K)
      /\ ~setup.canary => Refreshes(links) /\ Has(links, {"read"})
  <2>1. CASE setup.canary
    <3>1. LET l == Links(<<"login">>) IN l \in Chains /\ Only(l, {"login"})
      BY Links1, Kinds1 DEF Bare
    <3>2. {"login"} \subseteq Simple /\ {"login"} \subseteq K
      BY DEF Simple, LoggingIn
    <3>3. links = Links(<<"login">>)
      BY <2>1
    <3> QED
      BY <2>1, <3>1, <3>2, <3>3, OnlyMore, GoodSimple
  <2>2. CASE ~setup.canary
    BY <2>2, LogInIs
  <2> QED
    BY <2>1, <2>2
<1>6. Fetches(setup, r.by) => ~setup.canary
  BY <1>1 DEF Fetches
<1>7. /\ s \in Chains /\ s # <<>> /\ Good(s) /\ Only(s, K \cup {"show"})
      /\ ComesToEnd(s) /\ (Refreshes(links) => Refreshes(s))
      /\ \A L : Has(links, L) => Has(s, L)
      /\ ~In(<<"show", "verify">>, s)
  BY <1>3, <1>4, <1>5, ThenShown
<1> HIDE DEF s, r, K
<1>8. ~setup.canary => Refreshes(s) /\ Has(s, {"read", "try"})
  BY <1>5, <1>7, HasMore
<1>9. RunsWell(setup, r) /\ Begun(setup, r)
  BY <1>1, <1>2, <1>4, <1>6, <1>7, <1>8, Starts, Zenon
<1> QED
  BY <1>9 DEF s, r

-----------------------------------------------------------------------------
(* The types of the state                                                    *)

LEMMA MineAreSources ==
  /\ Mine \subseteq Sources
  /\ \A k \in {"here", "topic", "push", "token"} : {k} \in SUBSET Sources
  /\ {} \in SUBSET Sources
BY DEF Mine, Sources

LEMMA RowIs ==
  ASSUME NEW kind \in Kinds, NEW wallets \in SUBSET Mine
  PROVE  /\ RowConfiguration(kind, wallets) \in Configuration \cup {None}
         /\ kind # "label" => RowConfiguration(kind, wallets) \in Configuration
<1>1. ASSUME NEW k \in {"here", "topic", "push", "token"}, NEW options \in Options
      PROVE  Single(k, options) \in Configuration
  BY MineAreSources DEF Single, Configuration
<1>2. ASSUME NEW s \in SUBSET Sources, NEW options \in Options \cup {"null"}
      PROVE  Multiple(s, options) \in Configuration
  BY DEF Multiple, Configuration
<1>3. "empty" \in Options /\ "ratio" \in Options /\ "other" \in Options
  BY DEF Options
<1>4. ASSUME NEW c \in Configuration
      PROVE  [c EXCEPT !.maintain = TRUE] \in Configuration
             /\ [c EXCEPT !.group = "userWallets"] \in Configuration
  BY <1>4, Zenon DEF Configuration
<1>5. /\ broadcastMessageConfiguration \in Configuration
      /\ customThresholdConfiguration \in Configuration
      /\ customToggleConfiguration \in Configuration
      /\ directMessageConfiguration \in Configuration
      /\ healthThresholdConfiguration \in Configuration
      /\ tradingPairConfiguration \in Configuration
  BY <1>1, <1>3
     DEF broadcastMessageConfiguration, customThresholdConfiguration,
         customToggleConfiguration, directMessageConfiguration,
         healthThresholdConfiguration, tradingPairConfiguration
<1>6. /\ fusionToggleConfiguration \in Configuration
      /\ fusionHealthCheckConfiguration \in Configuration
  BY <1>1, <1>3, <1>4, Zenon DEF fusionToggleConfiguration, fusionHealthCheckConfiguration
<1>7. XMTPToggleConfiguration \in Configuration /\ priceChangeConfiguration \in Configuration
  BY <1>2, <1>3, MineAreSources DEF XMTPToggleConfiguration, priceChangeConfiguration
<1>8. walletBalanceConfiguration(wallets) \in Configuration
  <2>1. wallets \in SUBSET Sources
    BY MineAreSources
  <2> QED
    BY <1>2, <1>4, <2>1, Zenon DEF walletBalanceConfiguration
<1>9. kind # "label" => RowConfiguration(kind, wallets) \in Configuration
  BY <1>5, <1>6, <1>7, <1>8 DEF RowConfiguration, Kinds
<1>10. RowConfiguration("label", wallets) = None
  BY DEF RowConfiguration
<1> QED
  BY <1>9, <1>10

LEMMA NullIs ==
  nullConfiguration \in Configuration /\ nullConfiguration # None
<1>1. nullConfiguration \in Configuration
  BY MineAreSources DEF nullConfiguration, Multiple, Configuration
<1> QED
  BY <1>1, NoneAssumption

LEMMA EventsAre ==
  ASSUME setup \in SetupState, NEW n \in Names
  PROVE  setup.events[n] \in Kinds
BY DEF SetupState

LEMMA ConfigurationsAre ==
  ASSUME setup \in SetupState, server \in ServerState, card \in CardState
  PROVE  NoConfigurations \in Configurations /\ Defaults \in Configurations
<1>1. server.wallets \in SUBSET Mine /\ card.wallets \in SUBSET Mine
  BY DEF ServerState, CardState, Mine
<1>2. NoConfigurations \in Configurations
  BY DEF NoConfigurations, Configurations
<1>3. createConfigurations(card.wallets) \in Configurations
  BY <1>1, EventsAre, RowIs DEF createConfigurations, Configurations
<1>4. FrontendConfigurations \in Configurations
  <2>1. {} \in SUBSET Mine
    OBVIOUS
  <2> QED
    BY <2>1, EventsAre, RowIs DEF FrontendConfigurations, Configurations
<1> QED
  BY <1>2, <1>3, <1>4 DEF Defaults

LEMMA StoredIs ==
  ASSUME NEW options \in Options \cup {"null"}
  PROVE  Stored(options) \in Options
BY DEF Stored, Options

LEMMA NoFlowIs ==
  NoFlow \in FlowState /\ NoFlow.by = None /\ NoFlow.todo = <<>>
<1>1. NoConfigurations \in Configurations
  BY DEF NoConfigurations, Configurations
<1> QED
  BY <1>1, EmptyIs DEF NoFlow, FlowState, Contacts

\* A flow with a link to go is a handler that runs.
LEMMA Runs ==
  ASSUME Typed, NEW f \in Flows, Head1(f) # None
  PROVE  LET r == flows[f]
             s == r.todo
         IN  /\ r \in FlowState /\ r.by \in Handlers /\ r.by # None
             /\ s \in Chains /\ s # <<>> /\ Tail(s) \in Chains
             /\ RunsWell(setup, r) /\ Head1(f) = Head(s)[1] /\ Arg(f) = Head(s)[2]
<1>1. flows[f] \in FlowState
  BY DEF Typed
<1>2. flows[f].todo # <<>> /\ Head1(f) = Head(flows[f].todo)[1] /\ Arg(f) = Head(flows[f].todo)[2]
  BY DEF Head1, Arg
<1>3. flows[f].by # None
  BY <1>2, NoFlowIs DEF Typed
<1>4. RunsWell(setup, flows[f])
  BY <1>3 DEF Typed
<1>5. flows[f].todo \in Chains
  BY <1>1 DEF FlowState
<1> QED
  BY <1>1, <1>2, <1>3, <1>4, <1>5, LinkIs DEF RunsWell

\* The flows, after one of them has taken a step.
LEMMA FlowsTyped ==
  ASSUME Typed, NEW f \in Flows, NEW r \in FlowState,
         r = NoFlow \/ (r.by \in Handlers /\ RunsWell(setup, r)),
         flows' = [flows EXCEPT ![f] = r], setup' = setup
  PROVE  /\ setup' \in SetupState /\ flows' \in [Flows -> FlowState]
         /\ \A g \in Flows : flows'[g].by = None => flows'[g] = NoFlow
         /\ \A g \in Flows : flows'[g].by # None => RunsWell(setup', flows'[g])
<1>1. \A g \in Flows : flows'[g] = IF g = f THEN r ELSE flows[g]
  BY DEF Typed
<1>2. None \notin Handlers
  BY NoneAssumption
<1>3. flows' \in [Flows -> FlowState]
  BY DEF Typed
<1> QED
  BY <1>1, <1>2, <1>3, NoFlowIs DEF Typed

\* A handler that goes on with its next link.
LEMMA GoesOn ==
  ASSUME Typed, NEW f \in Flows, Head1(f) # None,
         Tail(flows[f].todo) # <<>> \/ Head1(f) \notin Lasting,
         NEW r, r.by = flows[f].by, r.todo = Tail(flows[f].todo), r.configs = flows[f].configs,
         r.data = None => flows[f].data = None /\ Head1(f) # "read"
  PROVE  r.by \in Handlers /\ RunsWell(setup, r)
<1> DEFINE s == flows[f].todo
<1>1. /\ flows[f].by \in Handlers /\ s \in Chains /\ s # <<>> /\ RunsWell(setup, flows[f])
      /\ Head1(f) = Head(s)[1]
  BY Runs
<1>2. Chained(setup, r.by, Tail(s)) /\ Tail(s) # <<>>
  BY <1>1, TailChained DEF RunsWell
<1>3. Rewriting(setup, r.configs, Tail(s))
  BY <1>1, <1>2, TailRewriting DEF RunsWell
<1>4. r.data = None => Fetched(Tail(s))
  BY <1>1, BeforeTail DEF RunsWell, Fetched
<1> QED
  BY <1>1, <1>2, <1>3, <1>4 DEF RunsWell

\* Deleting an alert, ensuring one, joining a wallet: what a request leaves.
\* The requests of an alert that write its source group.
LEMMA SourcedIs ==
  ASSUME setup \in SetupState, server \in ServerState, NEW n \in Names,
         NEW config \in Configuration
  PROVE  /\ GroupOf(n, config) \in Groups /\ SourcesOf(n, config) \in SUBSET Sources
         /\ Sourced(n, config, SourcesOf(n, config)) \in ServerState
         /\ \A data \in ServerState : Maintained(n, config, data) \in ServerState
<1>1. GroupOf(n, config) \in Groups
  BY DEF GroupOf, Configuration, Groups
<1>2. SourcesOf(n, config) \in SUBSET Sources /\ config.sources \in SUBSET Sources
  BY MineAreSources DEF SourcesOf, Configuration, ServerState, Mine
<1>3. ASSUME NEW sources \in (SUBSET Sources) \cup {None}
      PROVE  Sourced(n, config, sources) \in ServerState
  BY <1>1, Zenon DEF Sourced, ServerState
<1>4. ASSUME NEW data \in ServerState  PROVE Maintained(n, config, data) \in ServerState
  <2>1. data.groups[GroupOf(n, config)] \in (SUBSET Sources) \cup {None}
    BY <1>1 DEF ServerState
  <2> QED
    BY <1>2, <1>3, <2>1 DEF Maintained
<1> QED
  BY <1>1, <1>2, <1>3, <1>4

LEMMA EffectTyped ==
  ASSUME Typed, NEW f \in Flows, Requesting(f)
  PROVE  Effect(f) \in ServerState
<1> DEFINE r == flows[f]
           k == Head1(f)
           n == Arg(f)
           config == r.configs[n]
<1>1. k # None
  BY NoneAssumption DEF Requesting
<1>2. /\ r \in FlowState /\ r.todo \in Chains /\ r.todo # <<>> /\ RunsWell(setup, r)
      /\ k = Head(r.todo)[1] /\ n = Head(r.todo)[2]
  BY <1>1, Runs
<1>3. /\ server \in ServerState /\ r.form \in Contacts /\ r.configs \in Configurations
      /\ r.data \in ServerState \cup {None}
  BY <1>2 DEF Typed, FlowState
<1>4. k \in OfName => n \in Names /\ config \in Configuration \cup {None}
  BY <1>2, <1>3, LinkIs DEF Configurations
<1>5. k \in Rewrites => config \in Configuration
  <2>1. Rewriting(setup, r.configs, r.todo)
    BY <1>2 DEF RunsWell
  <2> QED
    BY <1>2, <1>4, <2>1 DEF Rewriting, Rewrites, OfName
<1>6. k \in UsesData => r.data \in ServerState
  <2>1. r.data = None => Fetched(r.todo)
    BY <1>2 DEF RunsWell
  <2> QED
    BY <1>2, <1>3, <2>1, BeforeTail DEF Fetched
<1>8. \A c \in Configuration : Stored(c.options) \in Options /\ c.sources \in SUBSET Sources
  BY StoredIs DEF Configuration
<1>9. \A S \in SUBSET (Wallets \cup {"own"}) : S \in SUBSET Sources
  BY MineAreSources DEF Mine
<1> HIDE DEF r, k, n, config
<1>10. CASE k = "delete"
  <2>1. [server EXCEPT !.alerts[n] = None] \in ServerState
    BY <1>3, <1>4, <1>10 DEF ServerState, OfName
  <2> QED
    BY <1>10, <2>1 DEF Effect, k, n
<1>11. CASE k = "create"
  <2>1. n \in Names /\ config \in Configuration /\ r.data \in ServerState
    BY <1>4, <1>5, <1>6, <1>11 DEF OfName, Rewrites, UsesData
  <2>2. Maintained(n, config, r.data) \in ServerState /\ Stored(config.options) \in Options
    BY <1>8, <2>1, SourcedIs DEF Typed
  <2>5. Created(n, config, r.data, r.form) \in ServerState
    BY <1>3, <2>1, <2>2, Zenon DEF Created, ServerState, Contacts
  <2> QED
    BY <1>11, <2>5 DEF Effect, k, n, config, r
<1>12. CASE k \in {"update", "targets", "targetsUnlessMade"}
  <2>1. [server EXCEPT !.targets = r.form] \in ServerState
    BY <1>3 DEF ServerState, Contacts
  <2> QED
    BY <1>3, <1>12, <2>1 DEF Effect, k, r
<1>13. CASE k = "ensure"
  <2>1. n \in Names /\ config \in Configuration \cup {None}
    BY <1>4, <1>13 DEF OfName
  <2>2. ASSUME config \in Configuration  PROVE Ensured(n, config) \in ServerState
    <3> DEFINE sourced == Sourced(n, config, SourcesOf(n, config))
    <3>1. sourced \in ServerState /\ Stored(config.options) \in Options
      BY <1>8, <2>1, <2>2, SourcedIs DEF Typed
    <3>2. [sourced EXCEPT !.alerts[n] = Stored(config.options)] \in ServerState
      BY <2>1, <3>1, Zenon DEF ServerState
    <3> QED
      BY <1>3, <3>1, <3>2 DEF Ensured
  <2>3. config = None => Ensured(n, config) = server
    BY DEF Ensured
  <2>4. Ensured(n, config) \in ServerState
    BY <1>3, <2>1, <2>2, <2>3
  <2> QED
    BY <1>13, <2>4 DEF Effect, k, n, config, r
<1>14. CASE k = "wallets"
  <2>1. r.data.wallets \in SUBSET Sources
    BY <1>6, <1>9, <1>14 DEF UsesData, ServerState
  <2>2. [server EXCEPT !.groups["userWallets"] = r.data.wallets] \in ServerState
    BY <1>3, <2>1 DEF ServerState, Groups
  <2> QED
    BY <1>14, <2>2 DEF Effect, k, r
<1>15. CASE k = "ensureWallets"
  <2>1. server.wallets \in SUBSET Sources
    BY <1>3, <1>9 DEF ServerState
  <2>2. [server EXCEPT !.groups["userWallets"] = server.wallets] \in ServerState
    BY <1>3, <2>1 DEF ServerState, Groups
  <2> QED
    BY <1>15, <2>2 DEF Effect, k
<1>16. CASE k \in {"connect", "take"}
  <2>1. n \in Wallets
    BY <1>2, <1>16, LinkIs DEF OfWallet
  <2>2. [server EXCEPT !.wallets = @ \cup {n}] \in ServerState
    BY <1>3, <2>1 DEF ServerState
  <2> QED
    BY <1>16, <2>2 DEF Effect, k, n
<1>17. CASE k = "adopt"
  BY <1>3, <1>17 DEF Effect, k
<1> QED
  BY <1>10, <1>11, <1>12, <1>13, <1>14, <1>15, <1>16, <1>17 DEF Requesting, k

LEMMA TypedInit == Init => Typed
<1> SUFFICES ASSUME Init PROVE Typed
  OBVIOUS
<1>1. setup \in SetupState
  BY CardSubscribeAssumption DEF Init, SetupState
<1>2. session \in SessionState
  <2>1. CASE session = [hook |-> FALSE, frontend |-> "none", known |-> FALSE, fetched |-> FALSE]
    BY <2>1 DEF SessionState
  <2>2. ASSUME NEW state \in {"none", "valid", "expired"}, NEW valid \in BOOLEAN,
               session = [hook |-> valid, frontend |-> state, known |-> valid, fetched |-> FALSE]
        PROVE  session \in SessionState
    BY <2>2 DEF SessionState
  <2>3. \A state : (~setup.canary /\ state = "valid") \in BOOLEAN
    OBVIOUS
  <2> QED
    BY <2>1, <2>2, <2>3, Zenon DEF Init
<1>3. NewAccount \in ServerState
  BY DEF NewAccount, NoAlerts, ServerState
<1>4. ASSUME NEW alerts \in [Names -> Options \cup {None}], NEW email \in Emails
      PROVE  Account(alerts, email) \in ServerState
  <2>1. [g \in Groups |-> IF g \in Names /\ alerts[g] # None THEN {"there"} ELSE None]
          \in [Groups -> (SUBSET Sources) \cup {None}]
    BY DEF Sources
  <2> QED
    BY <2>1 DEF Account, ServerState
<1>5. ASSUME NEW stored \in SUBSET Names
      PROVE  [n \in Names |->
               IF n \in stored /\ RowConfiguration(setup.events[n], {}) # None
               THEN Stored(RowConfiguration(setup.events[n], {}).options) ELSE None]
               \in [Names -> Options \cup {None}]
  <2> SUFFICES ASSUME NEW n \in Names, RowConfiguration(setup.events[n], {}) # None
               PROVE  Stored(RowConfiguration(setup.events[n], {}).options) \in Options
    OBVIOUS
  <2>1. RowConfiguration(setup.events[n], {}) \in Configuration
    BY <1>1, EventsAre, RowIs
  <2> QED
    BY <2>1, StoredIs DEF Configuration
<1>6. server \in ServerState
  <2>1. CASE server = NewAccount
    BY <1>3, <2>1
  <2>2. ASSUME NEW stored \in SUBSET Names, NEW email \in Emails,
               server = Account([n \in Names |->
                 IF n \in stored /\ RowConfiguration(setup.events[n], {}) # None
                 THEN Stored(RowConfiguration(setup.events[n], {}).options) ELSE None], email)
        PROVE  server \in ServerState
    BY <1>4, <1>5, <2>2
  <2> QED
    BY <2>1, <2>2, Zenon DEF Init
<1>7. card \in CardState
  BY DEF Init, CardState, NoAlerts, Views, Contacts
<1>8. /\ flows \in [Flows -> FlowState]
      /\ \A f \in Flows : flows[f] = NoFlow
  <2>1. flows = [f \in Flows |-> NoFlow]
    BY DEF Init
  <2> QED
    BY <2>1, NoFlowIs
<1>9. /\ kept \subseteq Names /\ clicks \in Nat /\ failures \in Nat
      /\ overlap \in BOOLEAN /\ beside \in BOOLEAN /\ cached \in BOOLEAN
  BY Zenon DEF Init
<1> QED
  BY <1>1, <1>2, <1>6, <1>7, <1>8, <1>9, NoFlowIs DEF Typed

\* A handler that starts.
LEMMA StartTyped ==
  ASSUME Typed, NEW f \in Flows, NEW r \in FlowState, r.by \in Handlers, RunsWell(setup, r),
         Start(f, r), setup' = setup
  PROVE  /\ setup' \in SetupState /\ flows' \in [Flows -> FlowState]
         /\ overlap' \in BOOLEAN /\ beside' \in BOOLEAN
         /\ \A g \in Flows : flows'[g].by = None => flows'[g] = NoFlow
         /\ \A g \in Flows : flows'[g].by # None => RunsWell(setup', flows'[g])
<1>1. overlap' \in BOOLEAN /\ beside' \in BOOLEAN
  BY DEF Start, Typed
<1> QED
  BY <1>1, FlowsTyped, Zenon DEF Start

LEMMA CapturedTyped ==
  ASSUME card \in CardState, NEW by \in Handlers, NEW s \in Chains, NEW configs \in Configurations
  PROVE  /\ Captured(by, s, configs) \in FlowState /\ Captured(by, s, configs).by = by
         /\ [Captured(by, s, configs) EXCEPT !.tried = FALSE] \in FlowState
         /\ [Captured(by, s, configs) EXCEPT !.tried = FALSE].by = by
BY NoFlowIs, Zenon DEF Captured, FlowState, CardState, NoFlow

LEMMA FetchOnceTyped ==
  ASSUME Typed, NEW f \in Flows, FetchOnce(f)
  PROVE  Typed'
<1> DEFINE r == Captured("fetchOnce", Links(<<"read", "render">>), NoConfigurations)
<1>1. RunsWell(setup, r)
  BY FetchOnceStarts
<1>2. r \in FlowState /\ r.by \in Handlers
  <2>1. Links(<<"read", "render">>) \in Chains /\ "fetchOnce" \in Handlers
    BY ReadRender DEF Handlers
  <2> QED
    BY <2>1, CapturedTyped, ConfigurationsAre, Zenon DEF Typed
<1>3. Start(f, r) /\ setup' = setup
  BY DEF FetchOnce
<1> HIDE DEF r
<1>4. /\ setup' \in SetupState /\ flows' \in [Flows -> FlowState]
      /\ overlap' \in BOOLEAN /\ beside' \in BOOLEAN
      /\ \A g \in Flows : flows'[g].by = None => flows'[g] = NoFlow
      /\ \A g \in Flows : flows'[g].by # None => RunsWell(setup', flows'[g])
  BY <1>1, <1>2, <1>3, StartTyped
<1>5. session' \in SessionState
  BY Zenon DEF FetchOnce, Typed, SessionState
<1> QED
  BY <1>4, <1>5 DEF FetchOnce, Typed

\* A click that starts one.
LEMMA ClickTyped ==
  ASSUME Typed, NEW f \in Flows, NEW r \in FlowState, r.by \in Handlers, RunsWell(setup, r),
         NEW busy \in BOOLEAN, Click(f, r, busy)
  PROVE  Typed'
<1>1. Start(f, r) /\ setup' = setup
  BY DEF Click
<1>2. /\ setup' \in SetupState /\ flows' \in [Flows -> FlowState]
      /\ overlap' \in BOOLEAN /\ beside' \in BOOLEAN
      /\ \A g \in Flows : flows'[g].by = None => flows'[g] = NoFlow
      /\ \A g \in Flows : flows'[g].by # None => RunsWell(setup', flows'[g])
  BY <1>1, StartTyped
<1>3. card' \in CardState
  BY DEF Click, Typed, CardState
<1>4. clicks' \in Nat
  BY DEF Click, Typed
<1> QED
  BY <1>2, <1>3, <1>4 DEF Click, Typed

LEMMA SubscribeTyped ==
  ASSUME Typed, NEW f \in Flows, Subscribe(f)
  PROVE  Typed'
<1>1. CASE setup.canary /\ session.frontend # "valid"
  <2> DEFINE s == Links(<<"login", "read", "try">>)
             r == [Captured("button", s, NoConfigurations) EXCEPT !.tried = FALSE]
  <2>1. RunsWell(setup, r)
    BY <1>1, LoginButtonStarts
  <2>2. s \in Chains /\ "button" \in Handlers
    BY Links3, Zenon DEF Bare, Handlers
  <2>3. r \in FlowState /\ r.by \in Handlers
    BY <2>2, CapturedTyped, ConfigurationsAre DEF Typed
  <2>4. Click(f, r, FALSE)
    BY <1>1, Zenon DEF Subscribe
  <2> HIDE DEF r
  <2> QED
    BY <2>1, <2>3, <2>4, ClickTyped, Zenon
<1>2. CASE ~(setup.canary /\ session.frontend # "valid")
  <2> DEFINE configs == IF ~session.known /\ ~setup.multi THEN Defaults ELSE NoConfigurations
             s == ButtonLinks(~session.known)
             r == Captured("button", s, configs)
  <2>1. (\E n \in Names : configs[n] # None) => ~session.known /\ ~setup.multi
    BY DEF NoConfigurations
  <2>2. RunsWell(setup, r) /\ s \in Chains
    BY <2>1, ButtonStarts, ButtonIs, Zenon
  <2>3. configs \in Configurations /\ "button" \in Handlers
    BY ConfigurationsAre DEF Typed, Handlers
  <2>4. Click(f, r, TRUE)
    BY <1>2, Zenon DEF Subscribe
  <2> HIDE DEF s, configs
  <2>5. r \in FlowState /\ r.by \in Handlers
    BY <2>2, <2>3, CapturedTyped, Zenon DEF Typed
  <2> HIDE DEF r
  <2> QED
    BY <2>2, <2>4, <2>5, ClickTyped, Zenon
<1> QED
  BY <1>1, <1>2

LEMMA VerifyTyped ==
  ASSUME Typed, NEW f \in Flows, Verify(f)
  PROVE  Typed'
<1> DEFINE links == CASE card.view = "verifyonboarding" /\ setup.canary -> subscribeAlerts
                      [] card.view = "verifyonboarding" /\ ~setup.canary -> subscribe
                      [] card.view = "verify" /\ setup.canary -> Links(<<"ensureWallets">>)
                      [] card.view = "verify" /\ ~setup.canary -> updateWallets
           s == links \o <<<<"show", "preview">>>>
           configs == IF card.view = "verifyonboarding" THEN Defaults ELSE NoConfigurations
           r == Captured(card.view, s, configs)
<1>1. card.view \in {"verifyonboarding", "verify"} /\ Click(f, r, TRUE)
  BY Zenon DEF Verify
<1>2. RunsWell(setup, r) /\ Begun(setup, r)
  BY <1>1, VerifyStarts
<1>3. configs \in Configurations
  BY ConfigurationsAre DEF Typed
<1>4. card.view \in Handlers
  BY <1>1 DEF Handlers
<1>5. s \in Chains
  BY <1>2, Zenon DEF Begun, Captured, NoFlow
<1> HIDE DEF s, configs
<1>6. r \in FlowState /\ r.by \in Handlers
  BY <1>3, <1>4, <1>5, CapturedTyped, Zenon DEF Typed
<1> HIDE DEF r
<1> QED
  BY <1>1, <1>2, <1>6, ClickTyped, Zenon

LEMMA ConnectWalletTyped ==
  ASSUME Typed, NEW f \in Flows, NEW w \in Wallets, ConnectWallet(f, w)
  PROVE  Typed'
<1> DEFINE technique == IF w \in card.elsewhere THEN "take" ELSE "connect"
           s == subscribeWallet(w, technique)
           r == Captured("wallet", s, NoConfigurations)
<1>1. technique \in OfWallet /\ "wallet" \in Handlers
  BY DEF OfWallet, Handlers
<1>2. Click(f, r, TRUE)
  BY Zenon DEF ConnectWallet
<1> HIDE DEF technique
<1>3. RunsWell(setup, r) /\ s \in Chains
  BY <1>1, WalletStarts, SubscribeWalletIs
<1> HIDE DEF s
<1>4. r \in FlowState /\ r.by \in Handlers
  BY <1>1, <1>3, CapturedTyped, ConfigurationsAre, Zenon DEF Typed
<1> HIDE DEF r
<1> QED
  BY <1>2, <1>3, <1>4, ClickTyped, Zenon

LEMMA ToggleTyped ==
  ASSUME Typed, NEW f \in Flows, NEW n \in Names, Toggle(f, n)
  PROVE  Typed'
<1> DEFINE config == IF card.alerts[n] # None THEN nullConfiguration
                     ELSE RowConfiguration(setup.events[n], card.wallets)
           configs == [NoConfigurations EXCEPT ![n] = config]
           s == instantSubscribe(n)
           r == Captured("toggle", s, configs)
<1>1. ~setup.canary /\ setup.events[n] # "label" /\ Click(f, r, TRUE)
  BY Zenon DEF Toggle
<1>2. config \in Configuration
  <2>1. card.wallets \in SUBSET Mine /\ setup \in SetupState
    BY DEF Typed, CardState
  <2> QED
    BY <1>1, <2>1, EventsAre, RowIs, NullIs
<1> HIDE DEF config
<1>3. configs \in Configurations
  BY <1>2 DEF NoConfigurations, Configurations
<1>4. RunsWell(setup, r) /\ s \in Chains
  BY <1>1, ToggleStarts, InstantSubscribeIs, Zenon
<1> HIDE DEF s, configs
<1>5. r \in FlowState /\ r.by \in Handlers
  <2>1. "toggle" \in Handlers
    BY DEF Handlers
  <2> QED
    BY <1>3, <1>4, <2>1, CapturedTyped, Zenon DEF Typed
<1> HIDE DEF r
<1> QED
  BY <1>1, <1>4, <1>5, ClickTyped, Zenon

LEMMA ReconnectTyped ==
  ASSUME Typed, NEW f \in Flows, Reconnect(f)
  PROVE  Typed'
<1> DEFINE links == IF setup.canary THEN Links(<<"login">>) ELSE logIn
           s == links \o <<<<"show", "preview">>>>
           r == Captured("expired", s, NoConfigurations)
<1>1. Click(f, r, FALSE)
  BY Zenon DEF Reconnect
<1>2. RunsWell(setup, r) /\ Begun(setup, r)
  BY ReconnectStarts
<1>3. s \in Chains
  BY <1>2 DEF Begun, Captured, NoFlow
<1> HIDE DEF s
<1>4. r \in FlowState /\ r.by \in Handlers
  <2>1. "expired" \in Handlers
    BY DEF Handlers
  <2> QED
    BY <1>3, <2>1, CapturedTyped, ConfigurationsAre, Zenon DEF Typed
<1> HIDE DEF r
<1> QED
  BY <1>1, <1>2, <1>4, ClickTyped, Zenon

LEMMA MountingIs ==
  ASSUME Typed, NEW view
  PROVE  Mounting(view) \in SessionState
<1>1. (session.fetched /\ (setup.canary \/ view \in {card.view, "history", "error"})) \in BOOLEAN
  OBVIOUS
<1> QED
  BY <1>1, Zenon DEF Mounting, Typed, SessionState

LEMMA ViewsTyped ==
  ASSUME Typed,
         FirstView \/ Settings \/ Edit \/ Back \/ \E email \in Emails \cup {None} : Type(email)
  PROVE  Typed'
<1>1. ASSUME NEW form \in Contacts, NEW view \in Views, Inputs(form, view)
      PROVE  Typed'
  <2>1. card' \in CardState
    BY <1>1, Zenon DEF Inputs, Typed, CardState
  <2>2. session' \in SessionState
    BY <1>1, MountingIs DEF Inputs
  <2> QED
    BY <1>1, <2>1, <2>2 DEF Inputs, Typed, history
<1>2. card.form \in Contacts /\ card.email \in Contacts /\ card.view \in Views
  BY DEF Typed, CardState
<1>3. CASE FirstView
  <2>1. card' \in CardState
    BY <1>3 DEF FirstView, Typed, CardState, Views
  <2>2. (session.fetched /\ setup.canary) \in BOOLEAN
    OBVIOUS
  <2>3. session' \in SessionState
    BY <1>3, <2>2, Zenon DEF FirstView, Typed, SessionState
  <2> QED
    BY <1>3, <2>1, <2>3 DEF FirstView, Typed, history
<1>4. CASE Settings
  BY <1>1, <1>2, <1>4 DEF Settings, Views
<1>5. CASE Edit
  BY <1>1, <1>2, <1>5 DEF Edit, Views
<1>6. CASE Back
  BY <1>1, <1>2, <1>6 DEF Back, Views
<1>7. ASSUME NEW email \in Emails \cup {None}, Type(email)  PROVE Typed'
  BY <1>1, <1>2, <1>7 DEF Type, Contacts
<1> QED
  BY <1>3, <1>4, <1>5, <1>6, <1>7

\* The flow f goes on with r, or comes to its end.
LEMMA GoesTyped ==
  ASSUME Typed, NEW f \in Flows, NEW r \in FlowState,
         r = NoFlow \/ (r.by \in Handlers /\ RunsWell(setup, r)),
         Goes(f, r), setup' = setup,
         session' \in SessionState, server' \in ServerState, card' \in CardState,
         clicks' \in Nat, failures' \in Nat, kept' \subseteq Names,
         overlap' \in BOOLEAN, beside' \in BOOLEAN, cached' \in BOOLEAN
  PROVE  Typed'
<1>1. /\ setup' \in SetupState /\ flows' \in [Flows -> FlowState]
      /\ \A g \in Flows : flows'[g].by = None => flows'[g] = NoFlow
      /\ \A g \in Flows : flows'[g].by # None => RunsWell(setup', flows'[g])
  BY FlowsTyped, Zenon DEF Goes
<1> QED
  BY <1>1 DEF Typed

LEMMA NextLink ==
  ASSUME Typed, NEW f \in Flows, Head1(f) # None, Head1(f) # "read",
         Tail(flows[f].todo) # <<>> \/ Head1(f) \notin Lasting
  PROVE  /\ Next1(f) \in FlowState /\ Next1(f).by \in Handlers /\ RunsWell(setup, Next1(f))
         /\ Next1(f).todo = Tail(flows[f].todo) /\ Next1(f).data = flows[f].data
         /\ Next1(f).by = flows[f].by /\ Next1(f).configs = flows[f].configs
<1>1. flows[f] \in FlowState /\ Tail(flows[f].todo) \in Chains
  BY Runs
<1>2. /\ Next1(f) \in FlowState
      /\ Next1(f).todo = Tail(flows[f].todo) /\ Next1(f).data = flows[f].data
      /\ Next1(f).by = flows[f].by /\ Next1(f).configs = flows[f].configs
  BY <1>1, Zenon DEF Next1, FlowState
<1>3. Next1(f).by \in Handlers /\ RunsWell(setup, Next1(f))
  BY <1>2, GoesOn
<1> QED
  BY <1>2, <1>3

LEMMA LenIs ==
  ASSUME NEW s \in Chains
  PROVE  Len(s) \in Nat /\ (Len(s) = 0 <=> s = <<>>)
BY DEF Chains

\* A link that may be the last one.
LEMMA EndsIs ==
  ASSUME Typed, NEW f \in Flows, Head1(f) \in {"render", "show"}
  PROVE  /\ Ends(f) \in FlowState
         /\ Ends(f) = NoFlow \/ (Ends(f).by \in Handlers /\ RunsWell(setup, Ends(f)))
         /\ Len(flows[f].todo) > 1 => Tail(flows[f].todo) # <<>> /\ Ends(f) = Next1(f)
         /\ ~(Len(flows[f].todo) > 1) => Tail(flows[f].todo) = <<>> /\ Ends(f) = NoFlow
<1>1. Head1(f) # None /\ Head1(f) # "read"
  BY NoneAssumption
<1>2. flows[f].todo \in Chains /\ flows[f].todo # <<>>
  BY <1>1, Runs
<1> DEFINE s == flows[f].todo
<1>3. /\ Tail(s) \in Chains /\ Len(s) \in Nat /\ Len(Tail(s)) = Len(s) - 1 /\ Len(Tail(s)) \in Nat
      /\ Len(Tail(s)) = 0 <=> Tail(s) = <<>>
  BY <1>2, TailIs, LenIs, Zenon
<1>4. CASE Len(flows[f].todo) > 1
  <2>1. Tail(flows[f].todo) # <<>>
    BY <1>4, <1>3
  <2> QED
    BY <1>1, <1>4, <2>1, NextLink DEF Ends
<1>5. CASE ~(Len(flows[f].todo) > 1)
  <2>1. Tail(flows[f].todo) = <<>>
    BY <1>5, <1>3
  <2> QED
    BY <1>5, <2>1, NoFlowIs DEF Ends
<1> QED
  BY <1>5, <1>4

LEMMA LoginTyped ==
  ASSUME Typed, NEW f \in Flows, Login(f)
  PROVE  Typed'
<1>1. Head1(f) # None /\ Head1(f) \notin Lasting /\ Head1(f) # "read"
  BY NoneAssumption DEF Login, Lasting
<1>2. Next1(f) \in FlowState /\ Next1(f).by \in Handlers /\ RunsWell(setup, Next1(f))
  BY <1>1, NextLink
<1>3. session' \in SessionState
  BY Zenon DEF Login, Typed, SessionState
<1>4. server' \in ServerState
  BY DEF Login, Writes, Typed, ServerState
<1>5. Goes(f, Next1(f)) /\ setup' = setup
  BY DEF Login, Writes
<1>6. /\ card' \in CardState /\ clicks' \in Nat /\ failures' \in Nat /\ kept' \subseteq Names
      /\ overlap' \in BOOLEAN /\ beside' \in BOOLEAN /\ cached' \in BOOLEAN
  BY DEF Login, Writes, Typed
<1> QED
  BY <1>2, <1>3, <1>4, <1>5, <1>6, GoesTyped

LEMMA ReadTyped ==
  ASSUME Typed, NEW f \in Flows, Read(f)
  PROVE  Typed'
<1>1. Head1(f) # None /\ Head1(f) \notin Lasting
  BY NoneAssumption DEF Read, Lasting
<1>2. PICK wallets \in {server.wallets}
              \cup IF ~setup.canary /\ flows[f].by = "wallet" THEN {card.wallets} ELSE {} :
        /\ Goes(f, [Next1(f) EXCEPT !.data = [server EXCEPT !.wallets = wallets]])
        /\ cached' = (cached \/ wallets # server.wallets)
  BY DEF Read
<1> DEFINE data == [server EXCEPT !.wallets = wallets]
           r == [Next1(f) EXCEPT !.data = data]
<1>3. data \in ServerState
  <2>1. wallets \in SUBSET Mine
    BY DEF Typed, CardState, ServerState, Mine
  <2> QED
    BY <2>1 DEF Typed, ServerState, Mine
<1>4. data # None
  BY <1>3, NoneAssumption
<1> HIDE DEF data
<1>5. /\ r \in FlowState /\ r.by = flows[f].by /\ r.todo = Tail(flows[f].todo)
      /\ r.configs = flows[f].configs /\ r.data = data
  <2>1. flows[f] \in FlowState /\ Tail(flows[f].todo) \in Chains
    BY <1>1, Runs
  <2> QED
    BY <1>3, <2>1, Zenon DEF Next1, FlowState
<1> HIDE DEF r
<1>6. r.by \in Handlers /\ RunsWell(setup, r)
  BY <1>1, <1>4, <1>5, GoesOn
<1>7. session' \in SessionState
  BY Zenon DEF Read, Typed, SessionState
<1>8. /\ server' \in ServerState /\ card' \in CardState /\ clicks' \in Nat /\ failures' \in Nat
      /\ kept' \subseteq Names /\ overlap' \in BOOLEAN /\ beside' \in BOOLEAN /\ cached' \in BOOLEAN
  BY <1>2 DEF Read, Typed
<1>9. Goes(f, r) /\ setup' = setup
  BY <1>2 DEF Read, r, data
<1> QED
  BY <1>5, <1>6, <1>7, <1>8, <1>9, GoesTyped

\* What is rendered was fetched.
LEMMA FetchedData ==
  ASSUME Typed, NEW f \in Flows, Head1(f) \in UsesData
  PROVE  flows[f].data \in ServerState
<1>1. Head1(f) # None
  BY NoneAssumption DEF UsesData
<1>2. /\ flows[f] \in FlowState /\ flows[f].todo \in Chains /\ flows[f].todo # <<>>
      /\ RunsWell(setup, flows[f]) /\ Head1(f) = Head(flows[f].todo)[1]
  BY <1>1, Runs
<1>3. flows[f].data = None => Fetched(flows[f].todo)
  BY <1>2 DEF RunsWell
<1>4. flows[f].data # None
  BY <1>2, <1>3, BeforeTail DEF Fetched
<1> QED
  BY <1>2, <1>4 DEF FlowState

LEMMA RenderTyped ==
  ASSUME Typed, NEW f \in Flows, Render(f)
  PROVE  Typed'
<1>1. Head1(f) \in {"render", "show"} /\ Head1(f) \in UsesData
  BY DEF Render, UsesData
<1>2. Ends(f) \in FlowState /\ (Ends(f) = NoFlow \/ (Ends(f).by \in Handlers /\ RunsWell(setup, Ends(f))))
  BY <1>1, EndsIs
<1>3. card' \in CardState
  <2>1. flows[f].data \in ServerState
    BY <1>1, FetchedData
  <2>2. /\ flows[f].data.targets \in Contacts /\ flows[f].data.wallets \in SUBSET Mine
        /\ flows[f].data.alerts \in [Names -> Options \cup {None}]
    BY <2>1 DEF ServerState, Contacts, Mine
  <2>3. Rendered(flows[f].data) \in CardState
    BY <2>2, Zenon DEF Rendered, Typed, CardState
  <2>4. \A b \in BOOLEAN : [Rendered(flows[f].data) EXCEPT !.loading = b] \in CardState
    BY <2>3 DEF CardState
  <2>5. Settled(f, None) \in BOOLEAN /\ Rendered(flows[f].data).loading \in BOOLEAN
    BY <2>3 DEF Settled, CardState
  <2> QED
    BY <2>4, <2>5 DEF Render
<1>4. Goes(f, Ends(f)) /\ setup' = setup
  BY DEF Render
<1>5. /\ session' \in SessionState /\ server' \in ServerState
      /\ clicks' \in Nat /\ failures' \in Nat
      /\ kept' \subseteq Names /\ overlap' \in BOOLEAN /\ beside' \in BOOLEAN /\ cached' \in BOOLEAN
  BY DEF Render, Typed
<1> QED
  BY <1>2, <1>3, <1>4, <1>5, GoesTyped

LEMMA ShowTyped ==
  ASSUME Typed, NEW f \in Flows, Show(f)
  PROVE  Typed'
<1>1. Head1(f) \in {"render", "show"} /\ Head1(f) = "show" /\ Head1(f) # None
  BY NoneAssumption DEF Show
<1>2. Ends(f) \in FlowState /\ (Ends(f) = NoFlow \/ (Ends(f).by \in Handlers /\ RunsWell(setup, Ends(f))))
  BY <1>1, EndsIs
<1>3. card' \in CardState
  <2>1. Arg(f) \in Views
    BY <1>1, Runs, LinkIs
  <2>2. Settled(f, Arg(f)) \in BOOLEAN
    BY DEF Settled, Typed, CardState
  <2> QED
    BY <2>1, <2>2, Zenon DEF Show, Typed, CardState
<1>4. Goes(f, Ends(f)) /\ setup' = setup
  BY DEF Show
<1>6. session' \in SessionState
  BY MountingIs DEF Show
<1>5. /\ server' \in ServerState
      /\ clicks' \in Nat /\ failures' \in Nat
      /\ kept' \subseteq Names /\ overlap' \in BOOLEAN /\ beside' \in BOOLEAN /\ cached' \in BOOLEAN
  BY DEF Show, Typed
<1> QED
  BY <1>2, <1>3, <1>4, <1>5, <1>6, GoesTyped

\* The flow that enters its try.
TryFlow(f) ==
  LET firstTime == flows[f].data.targets = None IN
  [flows[f] EXCEPT !.tried = TRUE, !.todo = ButtonLinks(firstTime),
                   !.configs = IF firstTime /\ ~setup.multi THEN Defaults ELSE @]

LEMMA TryRuns ==
  ASSUME Typed, NEW f \in Flows, Head1(f) = "try"
  PROVE  /\ TryFlow(f) \in FlowState /\ TryFlow(f).by = "button" /\ flows[f].by = "button"
         /\ RunsWell(setup, TryFlow(f)) /\ setup.canary
         /\ TryFlow(f).data \in ServerState /\ TryFlow(f).form = flows[f].form
         /\ TryFlow(f).tried /\ TryFlow(f).made = flows[f].made
<1> DEFINE firstTime == flows[f].data.targets = None
           s == ButtonLinks(firstTime)
           configs == IF firstTime /\ ~setup.multi THEN Defaults ELSE flows[f].configs
           r == TryFlow(f)
<1>1. Head1(f) # None /\ Head1(f) \in UsesData
  BY NoneAssumption DEF UsesData
<1>2. /\ flows[f] \in FlowState /\ flows[f].todo \in Chains /\ flows[f].todo # <<>>
      /\ RunsWell(setup, flows[f]) /\ Head1(f) = Head(flows[f].todo)[1]
  BY <1>1, Runs
<1>3. Has(flows[f].todo, {"try"}) /\ Has(flows[f].todo, {"try", "ensure", "adopt"})
  BY <1>2, HasTail
<1>4. flows[f].by = "button" /\ setup.canary
  BY <1>2, <1>3 DEF RunsWell, Chained
<1>5. flows[f].data \in ServerState
  BY <1>1, FetchedData
<1>6. /\ s \in Chains /\ s # <<>> /\ Good(s)
      /\ Chained(setup, "button", s) /\ Fetched(s)
  <2> DEFINE r0 == Captured("button", s, NoConfigurations)
  <2>1. (\E n \in Names : NoConfigurations[n] # None) => firstTime /\ ~setup.multi
    BY DEF NoConfigurations
  <2>2. RunsWell(setup, r0)
    BY <2>1, ButtonStarts, Zenon
  <2>3. r0.by = "button" /\ r0.todo = s
    BY DEF Captured, NoFlow
  <2>4. s \in Chains /\ s # <<>> /\ Good(s)
    BY ButtonIs, Zenon
  <2> HIDE DEF s, r0
  <2> QED
    BY <2>2, <2>3, <2>4 DEF RunsWell, Good
<1>7. configs \in Configurations
  BY <1>2, ConfigurationsAre DEF Typed, FlowState
<1>8. r = [flows[f] EXCEPT !.tried = TRUE, !.todo = s, !.configs = configs]
  BY DEF TryFlow
<1> HIDE DEF s, configs, r
<1>9. /\ r \in FlowState /\ r.by = flows[f].by /\ r.todo = s /\ r.configs = configs
      /\ r.data = flows[f].data /\ r.form = flows[f].form /\ r.tried /\ r.made = flows[f].made
  BY <1>2, <1>6, <1>7, <1>8, Zenon DEF FlowState
<1>10. Rewriting(setup, configs, s)
  BY <1>6, GoodRewriting
<1>11. RunsWell(setup, r)
  BY <1>4, <1>6, <1>9, <1>10 DEF RunsWell, Handlers
<1> QED
  BY <1>4, <1>5, <1>9, <1>11 DEF r

LEMMA LocalTyped ==
  ASSUME Typed, NEW f \in Flows, Local(f)
  PROVE  Typed'
<1>1. /\ setup' = setup /\ session' \in SessionState /\ server' \in ServerState
      /\ clicks' \in Nat /\ failures' \in Nat
      /\ kept' \subseteq Names /\ overlap' \in BOOLEAN /\ beside' \in BOOLEAN /\ cached' \in BOOLEAN
  BY DEF Local, Typed, history
<1>2. ASSUME NEW b \in BOOLEAN  PROVE [card EXCEPT !.loading = b] \in CardState
  BY DEF Typed, CardState
<1>3. CASE Head1(f) = "try"
  <2>1. TryFlow(f) \in FlowState /\ TryFlow(f).by = "button" /\ RunsWell(setup, TryFlow(f))
    BY <1>3, TryRuns
  <2>2. Goes(f, TryFlow(f)) /\ card' = [card EXCEPT !.loading = TRUE]
    BY <1>3 DEF Local, TryFlow
  <2>3. card' \in CardState /\ "button" \in Handlers
    BY <1>2, <2>2, Zenon DEF Handlers
  <2> QED
    BY <1>1, <2>1, <2>2, <2>3, GoesTyped, Zenon
<1>4. CASE Head1(f) = "idle"
  <2>1. Head1(f) # None /\ Head1(f) \notin Lasting /\ Head1(f) # "read"
    BY <1>4, NoneAssumption DEF Lasting
  <2>2. Next1(f) \in FlowState /\ Next1(f).by \in Handlers /\ RunsWell(setup, Next1(f))
    BY <2>1, NextLink
  <2>3. Goes(f, Next1(f)) /\ card' = [card EXCEPT !.loading = FALSE]
    BY <1>4 DEF Local
  <2>4. card' \in CardState
    BY <1>2, <2>3, Zenon
  <2> QED
    BY <1>1, <2>2, <2>3, <2>4, GoesTyped, Zenon
<1> QED
  BY <1>3, <1>4 DEF Local

\* A link to rewrite an alert, before the rest of a chain.
LEMMA Prepend ==
  ASSUME NEW t \in Chains, NEW u, NEW by \in Subs, Chained(u, by, t), ~u.canary,
         Has(t, {"read", "try"}), Head(t)[1] \notin {"adopt", "wallets"},
         NEW k \in Rewrites, NEW n \in Names
  PROVE  LET s == <<<<k, n>>>> \o t IN
         /\ s \in Chains /\ s # <<>> /\ Chained(u, by, s) /\ Has(s, {"read", "try"})
         /\ Head(s) = <<k, n>> /\ Tail(s) = t
<1> DEFINE l == <<<<k, n>>>>
           s == l \o t
<1>1. <<k, n>> \in AnyLink
  BY DEF AnyLink, OfName, Rewrites
<1>2. l \in Chains /\ Len(l) = 1 /\ l[1] = <<k, n>>
  BY <1>1, SingleIs
<1>3. s \in Chains /\ s # <<>> /\ Head(s) = <<k, n>> /\ Tail(s) = t
  BY <1>1 DEF Chains
<1> HIDE DEF l
<1>4. \A i \in 1 .. Len(l) : i = 1
  BY <1>2
<1>5. Only(l, Rewrites)
  BY <1>2, <1>4 DEF Only
<1>6. /\ Rewrites \cap {"ensure"} = {} /\ Rewrites \cap {"adopt", "wallets"} = {}
      /\ Rewrites \cap {"show"} = {} /\ Rewrites \cap {"read"} = {}
      /\ Rewrites \cap {"try", "ensure", "adopt"} = {} /\ Rewrites \cap {"try"} = {}
  BY DEF Rewrites
<1>7. t # <<>> /\ Has(t, Lasting)
  <2>1. t # <<>>
    BY DEF Chained
  <2>2. CASE Head(t)[1] \in Lasting
    BY <2>1, <2>2, HasTail
  <2>3. CASE Head(t)[1] \notin Lasting
    BY <2>1, <2>3, LinkIs, AfterTail, HasTail DEF Chained, ComesToEnd
  <2> QED
    BY <2>1, <2>2, <2>3
<1>8. ComesToEnd(s)
  BY <1>2, <1>7, AfterConcat DEF ComesToEnd, Chained
<1>9. Never(s, {"ensure"}, Contacting) /\ Never(s, {"show"}, LinkKinds)
  <2>1. ~Has(l, {"ensure"}) /\ ~Has(l, {"show"})
        /\ Never(l, {"ensure"}, Contacting) /\ Never(l, {"show"}, LinkKinds)
    BY <1>2, <1>5, <1>6, OnlyWithout, Zenon
  <2> QED
    BY <1>2, <2>1, NeverConcat DEF Chained
<1>10. Directly(s, {"adopt", "wallets"}, "read")
  <2>1. Directly(l, {"adopt", "wallets"}, "read")
    BY <1>2, <1>5, <1>6, OnlyWithout, Zenon
  <2> QED
    BY <1>2, <2>1, DirectlyConcat DEF Chained
<1>11. Fetches(u, by) => Refreshes(s)
  <2>1. ASSUME Refreshes(t)  PROVE Refreshes(s)
    <3>1. After(s, Writers, {"read", "try"})
      BY <1>2, <2>1, AfterConcat DEF Refreshes
    <3>2. After(l, {"read"}, {"render", "try"})
      BY <1>2, <1>5, <1>6, OnlyWithout, Zenon
    <3>3. After(s, {"read"}, {"render", "try"})
      BY <1>2, <2>1, <3>2, AfterConcat DEF Refreshes
    <3> QED
      BY <1>8, <3>1, <3>3 DEF Refreshes
  <2> QED
    BY <2>1 DEF Chained
<1>12. by \notin Verifying /\ by # "fetchOnce"
  BY DEF Subs, Verifying
<1>13. by # "button" => ~In(<<"show", "verify">>, s) /\ ~Has(s, {"try"})
  <2>1. ~Has(l, {"show"}) /\ ~Has(l, {"try"})
    BY <1>2, <1>5, <1>6, OnlyWithout
  <2>2. ~In(<<"show", "verify">>, l)
    BY <2>1, InHas
  <2> QED
    BY <1>2, <2>1, <2>2, HasConcat, InConcat DEF Chained
<1>14. ~Has(s, {"try", "ensure", "adopt"})
  <2>1. ~Has(l, {"try", "ensure", "adopt"})
    BY <1>2, <1>5, <1>6, OnlyWithout
  <2> QED
    BY <1>2, <2>1, HasConcat DEF Chained
<1>15. Has(s, {"read", "try"})
  BY <1>2, HasConcat
<1>16. Chained(u, by, s)
  BY <1>3, <1>8, <1>9, <1>10, <1>11, <1>12, <1>13, <1>14 DEF Chained
<1> QED
  BY <1>3, <1>15, <1>16 DEF l

\* With the hook an alert has the sources of its configuration.
LEMMA OnHook ==
  ASSUME ~setup.canary
  PROVE  \A n, config :
           /\ SourcesOf(n, config) = config.sources
           /\ HasFilter(n, config) <=> Filtered(setup, n, config)
BY DEF SourcesOf, HasFilter, Filtered

\* The requests for one alert, by what is to be done with it.
LEMMA RequestsIs ==
  ASSUME NEW n \in Names, NEW config, NEW data
  PROVE  LET q == Requests(n, config, data) IN
         \/ q = <<>> /\ (config = None \/ (~HasFilter(n, config) /\ data.alerts[n] = None))
         \/ /\ q = <<<<"delete", n>>>>
            /\ config # None /\ ~HasFilter(n, config) /\ data.alerts[n] # None
         \/ /\ q = <<<<"update", n>>>>
            /\ config # None /\ HasFilter(n, config) /\ data.alerts[n] # None
            /\ ~config.multiple /\ config.options = data.alerts[n]
         \/ q = <<<<"create", n>>>> /\ config # None /\ HasFilter(n, config)
         \/ /\ q = <<<<"delete", n>>>> \o <<<<"create", n>>>>
            /\ config # None /\ HasFilter(n, config)
<1>1. <<>> \o <<<<"create", n>>>> = <<<<"create", n>>>>
  OBVIOUS
<1> QED
  BY <1>1, Zenon DEF Requests

PlanFlow(f) ==
  [flows[f] EXCEPT !.todo =
     Requests(Arg(f), flows[f].configs[Arg(f)], flows[f].data) \o Tail(@)]

LEMMA PlanRuns ==
  ASSUME Typed, NEW f \in Flows, Head1(f) = "alert"
  PROVE  LET n == Arg(f)
             config == flows[f].configs[n]
             q == Requests(n, config, flows[f].data)
             t == Tail(flows[f].todo)
             r == PlanFlow(f)
         IN  /\ r \in FlowState /\ r.by = flows[f].by /\ r.by \in Subs /\ ~setup.canary
             /\ r.form = flows[f].form /\ r.data = flows[f].data /\ r.configs = flows[f].configs
             /\ r.tried = flows[f].tried /\ r.made = flows[f].made
             /\ RunsWell(setup, r) /\ n \in Names /\ r.data \in ServerState
             /\ t \in Chains /\ t # <<>> /\ ~Has(t, Rewrites) /\ Has(t, {"read", "try"})
             /\ \/ r.todo = t /\ q = <<>>
                \/ \E k \in Rewrites :
                     q = <<<<k, n>>>> /\ Head(r.todo) = <<k, n>> /\ Tail(r.todo) = t
                \/ /\ q = <<<<"delete", n>>>> \o <<<<"create", n>>>>
                   /\ Head(r.todo) = <<"delete", n>> /\ Tail(r.todo) # <<>>
                   /\ Head(Tail(r.todo)) = <<"create", n>> /\ Tail(Tail(r.todo)) = t
<1> DEFINE n == Arg(f)
           config == flows[f].configs[n]
           by == flows[f].by
           s == flows[f].todo
           t == Tail(s)
           q == Requests(n, config, flows[f].data)
           r == PlanFlow(f)
           d == <<<<"delete", n>>>>
           c == <<<<"create", n>>>>
<1>1. Head1(f) # None /\ Head1(f) \notin Lasting /\ Head1(f) \in UsesData
  BY NoneAssumption DEF UsesData, Lasting
<1>2. /\ flows[f] \in FlowState /\ by \in Handlers /\ s \in Chains /\ s # <<>> /\ t \in Chains
      /\ RunsWell(setup, flows[f]) /\ Head(s)[1] = "alert" /\ n = Head(s)[2]
  BY <1>1, Runs
<1>3. n \in Names /\ flows[f].data \in ServerState
  BY <1>1, <1>2, LinkIs, FetchedData DEF OfName
<1>4. Chained(setup, by, s) /\ Chained(setup, by, t) /\ t # <<>>
  BY <1>1, <1>2, TailChained DEF RunsWell
<1>5. Has(s, Writers \cup {"try"}) /\ Has(s, {"alert"} \cup Rewrites)
  BY <1>2, HasTail DEF Writers
<1>6. by \in Subs /\ ~setup.canary
  BY <1>4, <1>5 DEF Chained
<1>7. Has(t, {"read", "try"})
  <2>1. Fetches(setup, by)
    BY <1>6 DEF Fetches, Subs
  <2> QED
    BY <1>2, <1>4, <2>1, AfterTail DEF Chained, Refreshes, Writers
<1>8. Head(t)[1] \notin {"adopt", "wallets"}
  BY <1>2, <1>4, DirectlyTail, SMTT(30) DEF Chained
<1>9. ~Has(t, Rewrites) /\ Rewriting(setup, flows[f].configs, t)
  BY <1>2, <1>4, TailRewriting, Zenon DEF RunsWell, Rewriting
<1>10. \A m : HasFilter(n, m) <=> Filtered(setup, n, m)
  BY <1>6, OnHook
<1>11. d \o t \in Chains /\ c \o t \in Chains /\ (d \o c) \o t = d \o (c \o t)
  <2>1. <<"delete", n>> \in AnyLink /\ <<"create", n>> \in AnyLink
    BY <1>3 DEF AnyLink, OfName
  <2>2. d \in Chains /\ c \in Chains
    BY <2>1, SingleIs
  <2> QED
    BY <1>2, <2>2, ConcatIs DEF Chains
<1> HIDE DEF n, config, by, s, t, q, d, c
<1>12. ASSUME NEW todo \in Chains, r.todo = todo, r \in FlowState, todo # <<>>,
              Chained(setup, by, todo), Rewriting(setup, flows[f].configs, todo),
              r.by = by, r.configs = flows[f].configs, r.data = flows[f].data
       PROVE  RunsWell(setup, r)
  <2>1. flows[f].data # None
    BY <1>3, NoneAssumption, SMTT(30)
  <2> QED
    BY <1>2, <1>12, <2>1 DEF RunsWell
<1>13. ASSUME NEW todo \in Chains, q \o t = todo
       PROVE  /\ r \in FlowState /\ r.by = by /\ r.todo = todo
              /\ r.form = flows[f].form /\ r.data = flows[f].data /\ r.configs = flows[f].configs
              /\ r.tried = flows[f].tried /\ r.made = flows[f].made
  BY <1>2, <1>13, ZenonT(40) DEF PlanFlow, FlowState, q, t, s, n, config, by
<1>14. CASE q = <<>>
  <2>1. q \o t = t
    BY <1>2, <1>14 DEF Chains
  <2> QED
    BY <1>2, <1>3, <1>4, <1>6, <1>7, <1>9, <1>12, <1>13, <1>14, <2>1
      , Zenon DEF n, config, by, s, t, q
<1>15. ASSUME NEW k \in Rewrites, q = <<<<k, n>>>>, config # None,
              k = "delete" => ~HasFilter(n, config)
       PROVE  /\ RunsWell(setup, r) /\ q \o t \in Chains
              /\ Head(r.todo) = <<k, n>> /\ Tail(r.todo) = t
  <2> DEFINE todo == <<<<k, n>>>> \o t
  <2>1. /\ todo \in Chains /\ todo # <<>> /\ Chained(setup, by, todo)
        /\ Head(todo) = <<k, n>> /\ Tail(todo) = t
    BY <1>2, <1>3, <1>4, <1>6, <1>7, <1>8, Prepend
  <2>2. q \o t = todo
    BY <1>15
  <2> HIDE DEF todo
  <2>3. Rewriting(setup, flows[f].configs, todo)
    <3>1. Head(todo)[1] = k /\ Head(todo)[2] = n
      BY <2>1
    <3>4. ~Has(Tail(todo), Rewrites)
      BY <1>9, <2>1, Zenon
    <3>2. n \in Names /\ flows[f].configs[n] # None
      BY <1>3, <1>15 DEF config
    <3>3. k = "delete" => ~Filtered(setup, n, flows[f].configs[n])
      BY <1>10, <1>15 DEF config
    <3> QED
      BY <3>1, <3>2, <3>3, <3>4 DEF Rewriting, Replacing
  <2> QED
    BY <1>12, <1>13, <2>1, <2>2, <2>3
<1>16. ASSUME q = d \o c, config # None, HasFilter(n, config)
       PROVE  /\ RunsWell(setup, r) /\ q \o t \in Chains
              /\ Head(r.todo) = <<"delete", n>> /\ Tail(r.todo) # <<>>
              /\ Head(Tail(r.todo)) = <<"create", n>> /\ Tail(Tail(r.todo)) = t
  <2> DEFINE u == <<<<"create", n>>>> \o t
             todo == <<<<"delete", n>>>> \o u
  <2>1. /\ u \in Chains /\ u # <<>> /\ Chained(setup, by, u) /\ Has(u, {"read", "try"})
        /\ Head(u) = <<"create", n>> /\ Tail(u) = t
    BY <1>2, <1>3, <1>4, <1>6, <1>7, <1>8, Prepend DEF Rewrites
  <2>2. q \o t = todo
    BY <1>11, <1>16 DEF d, c
  <2> HIDE DEF u
  <2>3. /\ todo \in Chains /\ todo # <<>> /\ Chained(setup, by, todo)
        /\ Head(todo) = <<"delete", n>> /\ Tail(todo) = u
    <3>1. Head(u)[1] = "create" /\ "delete" \in Rewrites
      BY <2>1 DEF Rewrites
    <3> QED
      BY <1>3, <1>6, <2>1, <3>1, Prepend, ZenonT(40)
  <2> HIDE DEF todo
  <2>4. Rewriting(setup, flows[f].configs, todo)
    <3>1. Head(todo)[1] = "delete" /\ Head(todo)[2] = n
      BY <2>3
    <3>2. n \in Names /\ flows[f].configs[n] # None
      BY <1>3, <1>16 DEF config
    <3>3. /\ Tail(todo) # <<>> /\ Head(Tail(todo)) = <<"create", n>>
          /\ ~Has(Tail(Tail(todo)), Rewrites)
      BY <1>9, <2>1, <2>3, Zenon
    <3>4. Replacing(setup, flows[f].configs, todo)
      BY <3>1, <3>3 DEF Replacing
    <3> QED
      BY <3>1, <3>2, <3>4 DEF Rewriting
  <2> QED
    BY <1>12, <1>13, <2>1, <2>2, <2>3, <2>4, Zenon
<1>17. \/ q = <<>>
       \/ \E k \in Rewrites : q = <<<<k, n>>>> /\ config # None /\ (k = "delete" => ~HasFilter(n, config))
       \/ q = d \o c /\ config # None /\ HasFilter(n, config)
  BY <1>3, RequestsIs DEF q, d, c, Rewrites
<1>18. ASSUME NEW k \in Rewrites, q = <<<<k, n>>>>, config # None,
              k = "delete" => ~HasFilter(n, config)
       PROVE  /\ RunsWell(setup, r) /\ q \o t \in Chains
              /\ \E j \in Rewrites : q = <<<<j, n>>>> /\ Head(r.todo) = <<j, n>> /\ Tail(r.todo) = t
  BY <1>15, <1>18, SMTT(30)
<1>19. CASE \E k \in Rewrites : q = <<<<k, n>>>> /\ config # None /\ (k = "delete" => ~HasFilter(n, config))
  BY <1>2, <1>3, <1>4, <1>6, <1>7, <1>9, <1>13, <1>18, <1>19, ZenonT(40) DEF n, config, by, s, t, q
<1>20. CASE q = d \o c /\ config # None /\ HasFilter(n, config)
  BY <1>2, <1>3, <1>4, <1>6, <1>7, <1>9, <1>13, <1>16, <1>20, Zenon DEF n, config, by, s, t, q, d, c
<1> QED
  BY <1>14, <1>17, <1>19, <1>20, Zenon

LEMMA PlanTyped ==
  ASSUME Typed, NEW f \in Flows, Plan(f)
  PROVE  Typed'
<1>1. Head1(f) = "alert" /\ Goes(f, PlanFlow(f)) /\ setup' = setup
  BY DEF Plan, PlanFlow
<1>2. PlanFlow(f) \in FlowState /\ PlanFlow(f).by \in Subs /\ RunsWell(setup, PlanFlow(f))
  BY <1>1, PlanRuns, Zenon
<1>3. PlanFlow(f).by \in Handlers
  BY <1>2 DEF Subs, Handlers
<1>4. /\ session' \in SessionState /\ server' \in ServerState /\ card' \in CardState
      /\ clicks' \in Nat /\ failures' \in Nat
      /\ kept' \subseteq Names /\ overlap' \in BOOLEAN /\ beside' \in BOOLEAN /\ cached' \in BOOLEAN
  BY DEF Plan, Typed, history
<1> QED
  BY <1>1, <1>2, <1>3, <1>4, GoesTyped

LEMMA RequestTyped ==
  ASSUME Typed, NEW f \in Flows, Request(f)
  PROVE  Typed'
<1>1. Requesting(f)
  BY DEF Request
<1>2. Head1(f) # None /\ Head1(f) \notin Lasting /\ Head1(f) # "read"
  BY <1>1, NoneAssumption DEF Requesting, Lasting
<1>3. /\ Next1(f) \in FlowState /\ Next1(f).by \in Handlers /\ Next1(f).by = flows[f].by
      /\ RunsWell(setup, Next1(f))
  BY <1>2, NextLink
<1> DEFINE r == [Next1(f) EXCEPT !.made = @ \/ Head1(f) \in {"create", "update"}]
<1>4. /\ r \in FlowState /\ r.by = Next1(f).by /\ r.todo = Next1(f).todo
      /\ r.data = Next1(f).data /\ r.configs = Next1(f).configs
  BY <1>3, Zenon DEF FlowState
<1>5. Goes(f, r) /\ setup' = setup
  BY DEF Request, Writes
<1> HIDE DEF r
<1>6. r.by \in Handlers /\ RunsWell(setup, r)
  BY <1>3, <1>4 DEF RunsWell
<1>7. server' \in ServerState
  BY <1>1, EffectTyped DEF Request, Writes
<1>8. session' \in SessionState
  BY Zenon DEF Request, Typed, SessionState
<1>9. /\ card' \in CardState /\ clicks' \in Nat /\ failures' \in Nat
      /\ overlap' \in BOOLEAN /\ beside' \in BOOLEAN /\ cached' \in BOOLEAN
  BY DEF Request, Writes, Typed
<1>10. kept' \subseteq Names
  BY DEF Request, Typed
<1> QED
  BY <1>4, <1>5, <1>6, <1>7, <1>8, <1>9, <1>10, GoesTyped

LEMMA ConflictTyped ==
  ASSUME Typed, NEW f \in Flows, Conflict(f)
  PROVE  Typed'
<1>1. Head1(f) # None /\ Head1(f) = "connect"
  BY NoneAssumption DEF Conflict
<1>2. Arg(f) \in Wallets
  <2>1. /\ flows[f].todo \in Chains /\ flows[f].todo # <<>>
        /\ Head1(f) = Head(flows[f].todo)[1] /\ Arg(f) = Head(flows[f].todo)[2]
    BY <1>1, Runs
  <2> QED
    BY <1>1, <2>1, LinkIs DEF OfWallet
<1>3. card' \in CardState
  BY <1>2, Zenon DEF Conflict, Typed, CardState
<1>4. /\ session' \in SessionState /\ server' \in ServerState
      /\ clicks' \in Nat /\ failures' \in Nat /\ kept' \subseteq Names
      /\ overlap' \in BOOLEAN /\ beside' \in BOOLEAN /\ cached' \in BOOLEAN
  BY DEF Conflict, Typed, history
<1>5. Goes(f, NoFlow) /\ setup' = setup
  BY DEF Conflict
<1> QED
  BY <1>3, <1>4, <1>5, NoFlowIs, GoesTyped

LEMMA HalfwayTyped ==
  ASSUME Typed, NEW f \in Flows
  PROVE  Halfway(f) \subseteq ServerState
<1> DEFINE r == flows[f]
           n == Arg(f)
           config == r.configs[n]
           sourced == Sourced(n, config, SourcesOf(n, config))
           maintained == Maintained(n, config, r.data)
<1>1. ASSUME Head1(f) \in {"create", "ensure"}
      PROVE  /\ n \in Names /\ r \in FlowState /\ config \in Configuration \cup {None}
             /\ Head1(f) = "create" => config # None /\ r.data \in ServerState
  <2>1. Head1(f) # None /\ Head1(f) \in OfName
    BY <1>1, NoneAssumption DEF OfName
  <2>2. /\ r \in FlowState /\ r.todo \in Chains /\ r.todo # <<>> /\ RunsWell(setup, r)
        /\ Head1(f) = Head(r.todo)[1] /\ n = Head(r.todo)[2]
    BY <2>1, Runs
  <2>3. n \in Names /\ config \in Configuration \cup {None}
    BY <2>1, <2>2, LinkIs DEF FlowState, Configurations
  <2>4. Head1(f) = "create" => r.data \in ServerState
    BY FetchedData DEF UsesData
  <2>5. Head1(f) = "create" => config # None
    BY <2>2 DEF RunsWell, Rewriting, Rewrites
  <2> QED
    BY <2>2, <2>3, <2>4, <2>5
<1> HIDE DEF r, n, config
<1>2. CASE Head1(f) = "create"
  <2>1. maintained \in ServerState
    BY <1>1, <1>2, SourcedIs DEF Typed
  <2>2. r.form \in Contacts
    BY <1>1, <1>2 DEF FlowState
  <2> HIDE DEF maintained
  <2>3. [maintained EXCEPT !.targets = r.form] \in ServerState
    BY <2>1, <2>2 DEF ServerState, Contacts
  <2> QED
    BY <1>2, <2>1, <2>3 DEF Halfway, maintained, config, n, r
<1>3. CASE Head1(f) = "ensure" /\ config # None
  <2>1. sourced \in ServerState
    BY <1>1, <1>3, SourcedIs DEF Typed
  <2> HIDE DEF sourced
  <2>2. [sourced EXCEPT !.alerts[n] = None] \in ServerState
    BY <2>1 DEF ServerState
  <2> QED
    BY <1>3, <2>1, <2>2 DEF Halfway, sourced, config, n, r
<1> QED
  BY <1>2, <1>3, Zenon DEF Halfway, config, n, r

LEMMA FailTyped ==
  ASSUME Typed, NEW f \in Flows, Fail(f)
  PROVE  Typed'
<1>1. Requesting(f) \/ Head1(f) \in {"login", "read"}
  BY DEF Fail
<1>2. Head1(f) # None /\ Head1(f) \notin Lasting
  BY <1>1, NoneAssumption DEF Requesting, Lasting
<1>3. server' \in ServerState
  <2>1. server \in ServerState
    BY DEF Typed
  <2>2. Requesting(f) => Effect(f) \in ServerState
    BY EffectTyped
  <2>3. Halfway(f) \subseteq ServerState
    BY HalfwayTyped
  <2> QED
    BY <2>1, <2>2, <2>3, Zenon DEF Fail
<1>4. failures' \in Nat
  BY DEF Fail, Typed
<1>5. /\ session' \in SessionState /\ clicks' \in Nat /\ kept' \subseteq Names
      /\ overlap' \in BOOLEAN /\ beside' \in BOOLEAN /\ cached' \in BOOLEAN /\ setup' = setup
  BY DEF Fail, Typed, history
<1>6. CASE Head1(f) = "ensure"
  <2>1. Next1(f) \in FlowState /\ Next1(f).by \in Handlers /\ RunsWell(setup, Next1(f))
    BY <1>2, <1>6, NextLink
  <2>2. Goes(f, Next1(f)) /\ card' \in CardState
    BY <1>6 DEF Fail, Typed
  <2> QED
    BY <1>3, <1>4, <1>5, <2>1, <2>2, GoesTyped
<1>7. CASE Head1(f) # "ensure"
  <2>1. Thrown(f) \in CardState
    BY Zenon DEF Thrown, Typed, CardState, Views
  <2>2. Goes(f, NoFlow) /\ card' \in CardState
    BY <1>7, <2>1 DEF Fail
  <2> QED
    BY <1>3, <1>4, <1>5, <2>2, NoFlowIs, GoesTyped
<1> QED
  BY <1>6, <1>7

LEMMA TypedNext == Typed /\ [Next]_vars => Typed'
<1> SUFFICES ASSUME Typed, [Next]_vars PROVE Typed'
  OBVIOUS
<1>1. CASE FirstView \/ Settings \/ Edit \/ Back \/ \E email \in Emails \cup {None} : Type(email)
  BY <1>1, ViewsTyped
<1>2. ASSUME NEW f \in Flows, Act(f) PROVE Typed'
  BY <1>2, FetchOnceTyped, SubscribeTyped, VerifyTyped, ReconnectTyped, ConnectWalletTyped, ToggleTyped
     DEF Act
<1>3. ASSUME NEW f \in Flows, Step(f) PROVE Typed'
  BY <1>3, LoginTyped, ReadTyped, RenderTyped, ShowTyped, LocalTyped, PlanTyped, RequestTyped,
     ConflictTyped, FailTyped DEF Step
<1>4. CASE UNCHANGED vars
  BY <1>4 DEF Typed, vars, history
<1> QED
  BY <1>1, <1>2, <1>3, <1>4 DEF Next

\* Type correctness: in particular a slot without a handler is empty.
THEOREM TypeCorrect == Spec => []TypeOK
<1>1. Typed => TypeOK
  BY DEF Typed, TypeOK, SetupState, SessionState, CardState, Views, Contacts, Mine
<1> QED
  BY <1>1, TypedInit, TypedNext, PTL DEF Spec

-----------------------------------------------------------------------------
(* The alerts that are lost                                                  *)

\* The next request of a handler is to create the alert of a name.
Creates(r, n) == r.todo # <<>> /\ Head(r.todo) = <<"create", n>>

\* The alerts that should be there, are not, and are not about to be created.
Lost == {n \in kept : server.alerts[n] = None /\ \A f \in Flows : ~Creates(flows[f], n)}
LossInv == Cardinality(Lost) <= failures

LEMMA NamesFinite == IsFiniteSet(Names)
<1>1. Order \in Seq(Names)
  BY CardSubscribeAssumption
<1>2. Len(Order) \in Nat /\ DOMAIN Order = 1 .. Len(Order) /\ Order \in [1 .. Len(Order) -> Names]
  BY <1>1
<1>3. IsFiniteSet(1 .. Len(Order))
  BY <1>2, FS_Interval
<1>4. \A n \in Names : \E i \in 1 .. Len(Order) : Order[i] = n
  BY <1>2 DEF Names
<1>5. Order \in Surjection(1 .. Len(Order), Names)
  BY <1>2, <1>4 DEF Surjection
<1> QED
  BY <1>3, <1>5, FS_Surjection

\* No more are lost.
LEMMA LostLess ==
  ASSUME Typed, LossInv, failures' = failures, Lost' \subseteq Lost
  PROVE  LossInv'
<1>1. IsFiniteSet(Lost)
  BY NamesFinite, FS_Subset DEF Lost, Typed
<1>2. IsFiniteSet(Lost') /\ Cardinality(Lost') <= Cardinality(Lost)
  BY <1>1, FS_Subset
<1>3. Cardinality(Lost) \in Nat /\ Cardinality(Lost') \in Nat
  BY <1>1, <1>2, FS_CardinalityType
<1> QED
  BY <1>2, <1>3 DEF LossInv, Typed

\* One more is lost, and one more request has failed.
LEMMA LostOne ==
  ASSUME Typed, LossInv, failures' = failures + 1, NEW n, Lost' \subseteq Lost \cup {n}
  PROVE  LossInv'
<1>1. IsFiniteSet(Lost)
  BY NamesFinite, FS_Subset DEF Lost, Typed
<1>2. /\ IsFiniteSet(Lost \cup {n})
      /\ Cardinality(Lost \cup {n}) = IF n \in Lost THEN Cardinality(Lost) ELSE Cardinality(Lost) + 1
  BY <1>1, FS_AddElement
<1>3. IsFiniteSet(Lost') /\ Cardinality(Lost') <= Cardinality(Lost \cup {n})
  BY <1>2, FS_Subset
<1>4. Cardinality(Lost) \in Nat /\ Cardinality(Lost') \in Nat
  BY <1>1, <1>3, FS_CardinalityType
<1> QED
  BY <1>2, <1>3, <1>4 DEF LossInv, Typed

\* A flow that creates no alert does something else.
LEMMA LostKeeps ==
  ASSUME Typed, LossInv, NEW f \in Flows, \A g \in Flows : g # f => flows'[g] = flows[g],
         \A n \in Names : ~Creates(flows[f], n),
         kept' = kept, server'.alerts = server.alerts, failures' = failures
  PROVE  LossInv'
<1>1. kept \subseteq Names
  BY DEF Typed
<1>2. Lost' \subseteq Lost
  BY <1>1 DEF Lost
<1> QED
  BY <1>2, LostLess

LEMMA OthersGo ==
  ASSUME Typed, NEW f \in Flows, NEW r, Goes(f, r) \/ Start(f, r)
  PROVE  flows'[f] = r /\ \A g \in Flows : g # f => flows'[g] = flows[g]
BY DEF Typed, Goes, Start

LEMMA CreatesNot ==
  ASSUME NEW f \in Flows, Head1(f) # "create"
  PROVE  \A n \in Names : ~Creates(flows[f], n)
BY DEF Creates, Head1

\* A new account, or the one of an earlier visit, has lost nothing.
LEMMA LossInit == Init => LossInv
<1> SUFFICES ASSUME Init PROVE LossInv
  OBVIOUS
<1>1. Lost = {}
  BY DEF Init, Lost
<1> QED
  BY <1>1, FS_EmptySet DEF Init, LossInv

\* What a request changes of the alerts: at most its own, and only a deletion
\* removes it.
LEMMA SourcedAlerts ==
  ASSUME server \in ServerState, NEW n, NEW config
  PROVE  \A sources, data :
           Sourced(n, config, sources).alerts = server.alerts
           /\ Maintained(n, config, data).alerts = server.alerts
BY Zenon DEF Sourced, Maintained, ServerState

LEMMA EffectOnAlerts ==
  ASSUME Typed, NEW f \in Flows, Requesting(f)
  PROVE  LET s == Effect(f).alerts
             n == Arg(f) IN
         /\ \A m \in Names : m # n => s[m] = server.alerts[m]
         /\ Head1(f) # "delete" => \A m \in Names : server.alerts[m] # None => s[m] # None
         /\ Head1(f) = "create" => s[n] # None
         /\ Head1(f) = "adopt" => s = server.alerts
<1> DEFINE n == Arg(f)
           config == flows[f].configs[n]
           k == Head1(f)
<1>1. server \in ServerState /\ server.alerts \in [Names -> Options \cup {None}]
  BY DEF Typed, ServerState
<1>2. k # None
  BY NoneAssumption DEF Requesting
<1>3. /\ flows[f] \in FlowState /\ flows[f].todo \in Chains /\ flows[f].todo # <<>>
      /\ RunsWell(setup, flows[f]) /\ k = Head(flows[f].todo)[1] /\ n = Head(flows[f].todo)[2]
  BY <1>2, Runs
<1>4. k \in OfName => n \in Names /\ config \in Configuration \cup {None}
  BY <1>3, LinkIs DEF FlowState, Configurations
<1>10. \A c, sources, data :
         Sourced(n, c, sources).alerts = server.alerts /\ Maintained(n, c, data).alerts = server.alerts
  BY <1>1, SourcedAlerts
<1>5. ASSUME config \in Configuration  PROVE Stored(config.options) # None
  <2>1. config.options \in Options \cup {"null"}
    BY <1>5 DEF Configuration
  <2> QED
    BY <2>1, StoredIs, NoneAssumption
<1>6. CASE k = "delete"
  <2>1. Effect(f).alerts = [server.alerts EXCEPT ![n] = None]
    BY <1>1, <1>6 DEF Effect, ServerState
  <2> QED
    BY <1>1, <1>6, <2>1
<1>7. CASE k = "create"
  <2>1. n \in Names /\ config \in Configuration
    BY <1>3, <1>4, <1>7 DEF RunsWell, Rewriting, Rewrites, OfName
  <2>2. Effect(f).alerts = [server.alerts EXCEPT ![n] = Stored(config.options)]
    <3> DEFINE made == Maintained(n, config, flows[f].data)
    <3>1. [made EXCEPT !.alerts[n] = Stored(config.options), !.targets = flows[f].form].alerts
            = [made.alerts EXCEPT ![n] = Stored(config.options)]
      BY <1>1, <2>1, SourcedIs, Zenon DEF Typed, ServerState, Maintained, Sourced
    <3> HIDE DEF made
    <3>2. Effect(f) = [made EXCEPT !.alerts[n] = Stored(config.options), !.targets = flows[f].form]
      BY <1>7, Zenon DEF Effect, Created, made
    <3>3. made.alerts = server.alerts
      BY <1>10 DEF made
    <3> QED
      BY <3>1, <3>2, <3>3
  <2> QED
    BY <1>1, <1>5, <1>7, <2>1, <2>2
<1>8. CASE k = "ensure"
  <2> DEFINE made == Sourced(n, config, SourcesOf(n, config))
  <2>1. Effect(f) = Ensured(n, config)
    BY <1>8, Zenon DEF Effect
  <2>2. made.alerts = server.alerts
    BY <1>10
  <2>3. ASSUME config \in Configuration
        PROVE  [made EXCEPT !.alerts[n] = Stored(config.options)].alerts
                 = [server.alerts EXCEPT ![n] = Stored(config.options)]
    BY <1>1, <2>2, Zenon DEF Sourced, ServerState
  <2> HIDE DEF made
  <2>4. CASE config \in Configuration /\ Ensured(n, config).alerts # server.alerts
    <3>1. Effect(f).alerts = [server.alerts EXCEPT ![n] = Stored(config.options)]
      BY <2>1, <2>2, <2>3, <2>4 DEF Ensured, made
    <3> QED
      BY <1>1, <1>5, <1>8, <2>4, <3>1
  <2>5. CASE Ensured(n, config).alerts = server.alerts
    BY <1>8, <2>1, <2>5
  <2>6. config \notin Configuration => Ensured(n, config) = server
    BY <1>4, <1>8 DEF Ensured, OfName
  <2> QED
    BY <2>4, <2>5, <2>6
<1>9. CASE k \notin {"delete", "create", "ensure"}
  <2>1. Effect(f).alerts = server.alerts
    BY <1>1, <1>9 DEF Effect, ServerState
  <2> QED
    BY <1>9, <2>1
<1> QED
  BY <1>6, <1>7, <1>8, <1>9

\* An alert is created right after it was deleted, unless that was asked for.
LEMMA RequestLoss ==
  ASSUME Typed, LossInv, NEW f \in Flows, Request(f)
  PROVE  LossInv'
<1> DEFINE n == Arg(f)
           config == flows[f].configs[n]
           r == [Next1(f) EXCEPT !.made = @ \/ Head1(f) \in {"create", "update"}]
<1>1. Requesting(f) /\ server' = Effect(f) /\ failures' = failures
  BY DEF Request, Writes
<1>2. Head1(f) # None
  BY <1>1, NoneAssumption DEF Requesting
<1>3. /\ flows[f] \in FlowState /\ flows[f].todo \in Chains /\ flows[f].todo # <<>>
      /\ RunsWell(setup, flows[f]) /\ Head1(f) = Head(flows[f].todo)[1]
      /\ n = Head(flows[f].todo)[2] /\ Head(flows[f].todo) = <<Head1(f), n>>
  BY <1>2, Runs, LinkIs
<1>4. flows'[f] = r /\ \A g \in Flows : g # f => flows'[g] = flows[g]
  BY OthersGo DEF Request
<1>5. r.todo = Tail(flows[f].todo)
  BY <1>3 DEF Next1, FlowState
<1>6. /\ \A m \in Names : m # n => server'.alerts[m] = server.alerts[m]
      /\ Head1(f) # "delete" => \A m \in Names : server.alerts[m] # None => server'.alerts[m] # None
      /\ Head1(f) = "create" => server'.alerts[n] # None
  BY <1>1, EffectOnAlerts
<1>7. ASSUME Head1(f) = "delete", n \in Names
      PROVE  n \in AskedToDelete(f) \/ Creates(r, n)
  <2>1. config # None /\ Replacing(setup, flows[f].configs, flows[f].todo)
    BY <1>3, <1>7 DEF RunsWell, Rewriting, Rewrites
  <2>2. CASE ~Filtered(setup, n, config)
    <3>1. ~HasFilter(n, config)
      <4>1. ~setup.canary
        BY <1>3, <1>7, HasTail DEF RunsWell, Chained, Rewrites
      <4> QED
        BY <2>2, <4>1, OnHook
    <3> QED
      BY <1>3, <1>7, <2>1, <3>1 DEF AskedToDelete
  <2>3. CASE Filtered(setup, n, config)
    <3>1. Tail(flows[f].todo) # <<>> /\ Head(Tail(flows[f].todo)) = <<"create", n>>
      BY <1>3, <2>1, <2>3, Zenon DEF Replacing
    <3> QED
      BY <1>5, <3>1, Zenon DEF Creates
  <2> QED
    BY <2>2, <2>3
<1> HIDE DEF n, config, r
<1>8. ASSUME NEW m \in Lost'  PROVE m \in Lost
  <2>1. m \in kept' /\ server'.alerts[m] = None /\ \A g \in Flows : ~Creates(flows'[g], m)
    BY <1>8 DEF Lost
  <2>2. m \in kept /\ m \in Names /\ m \notin AskedToDelete(f)
    BY <2>1 DEF Request, Typed
  <2>3. ~Creates(flows[f], m)
    BY <1>3, <1>6, <2>1 DEF Creates
  <2>4. server.alerts[m] = None
    <3>1. CASE Head1(f) # "delete"
      BY <1>6, <2>1, <2>2, <3>1
    <3>2. CASE m # n
      BY <1>6, <2>1, <2>2, <3>2
    <3>3. CASE Head1(f) = "delete" /\ m = n
      BY <1>4, <1>7, <2>1, <2>2, <3>3
    <3> QED
      BY <3>1, <3>2, <3>3
  <2>5. \A g \in Flows : ~Creates(flows[g], m)
    BY <1>4, <2>1, <2>3
  <2> QED
    BY <2>2, <2>4, <2>5 DEF Lost
<1> QED
  BY <1>1, <1>8, LostLess

\* A request that fails in its middle leaves the alerts, but for its own.
LEMMA HalfwayAlerts ==
  ASSUME Typed, NEW f \in Flows, NEW v \in Halfway(f), NEW m \in Names, m # Arg(f)
  PROVE  v.alerts[m] = server.alerts[m]
<1> DEFINE n == Arg(f)
           config == flows[f].configs[n]
           sourced == Sourced(n, config, SourcesOf(n, config))
           maintained == Maintained(n, config, flows[f].data)
<1>1. server \in ServerState
  BY DEF Typed
<1>2. sourced.alerts = server.alerts /\ maintained.alerts = server.alerts
  BY <1>1, SourcedAlerts
<1>3. /\ [maintained EXCEPT !.targets = flows[f].form].alerts = maintained.alerts
      /\ [sourced EXCEPT !.alerts[n] = None].alerts = [sourced.alerts EXCEPT ![n] = None]
  BY <1>1, Zenon DEF Sourced, Maintained, ServerState
<1> HIDE DEF sourced, maintained
<1>4. v \in {maintained, [maintained EXCEPT !.targets = flows[f].form],
              sourced, [sourced EXCEPT !.alerts[n] = None]}
  BY Zenon DEF Halfway, sourced, maintained
<1>5. v.alerts \in {server.alerts, [server.alerts EXCEPT ![n] = None]}
  BY <1>2, <1>3, <1>4
<1> QED
  BY <1>1, <1>5 DEF ServerState

\* A request that fails can cost the alert it is for.
LEMMA FailLoss ==
  ASSUME Typed, LossInv, NEW f \in Flows, Fail(f)
  PROVE  LossInv'
<1> DEFINE n == Arg(f)
<1>1. kept' = kept
  BY DEF Fail, history
<1>2. server \in ServerState
  BY DEF Typed
<1>3. PICK r : Goes(f, r)
  BY DEF Fail
<1>4. \A g \in Flows : g # f => flows'[g] = flows[g]
  BY <1>3, OthersGo
<1>5. CASE Head1(f) = "adopt" \/ Refused(f)
  <2>1. server' = server /\ failures' = failures
    BY <1>5 DEF Fail
  <2>2. ASSUME NEW m \in Lost'  PROVE m \in Lost
    <3>1. m \in kept /\ server.alerts[m] = None
      BY <1>1, <2>1, <2>2 DEF Lost
    <3>2. ~Creates(flows[f], m)
      <4> SUFFICES ASSUME Creates(flows[f], m) PROVE FALSE
        OBVIOUS
      <4>1. Head1(f) = "create" /\ Arg(f) = m
        BY DEF Creates, Head1, Arg
      <4> QED
        BY <1>5, <3>1, <4>1 DEF Refused
    <3>3. \A g \in Flows : ~Creates(flows[g], m)
      BY <1>4, <2>2, <3>2 DEF Lost
    <3> QED
      BY <3>1, <3>3 DEF Lost
  <2> QED
    BY <2>1, <2>2, LostLess
<1>6. CASE ~(Head1(f) = "adopt" \/ Refused(f))
  <2>1. failures' = failures + 1
    BY <1>6 DEF Fail
  <2>2. Requesting(f) \/ Head1(f) \in {"login", "read"}
    BY DEF Fail
  <2>3. \A m \in Names : m # n => server'.alerts[m] = server.alerts[m]
    <3>1. CASE server' = server
      BY <3>1
    <3>2. CASE Requesting(f) /\ server' = Effect(f)
      BY <3>2, EffectOnAlerts
    <3>3. CASE server' \in Halfway(f)
      BY <3>3, HalfwayAlerts
    <3> QED
      BY <1>6, <3>1, <3>2, <3>3, Zenon DEF Fail
  <2>4. \A m \in Names : m # n => ~Creates(flows[f], m)
    BY DEF Creates, Arg
  <2>5. Lost' \subseteq Lost \cup {n}
    <3> SUFFICES ASSUME NEW m \in Lost', m # n PROVE m \in Lost
      OBVIOUS
    <3>1. m \in Names /\ m \in kept
      BY <1>1 DEF Lost, Typed
    <3>2. server.alerts[m] = None
      BY <2>3, <3>1 DEF Lost
    <3>3. \A g \in Flows : ~Creates(flows[g], m)
      BY <1>4, <2>4, <3>1 DEF Lost
    <3> QED
      BY <3>1, <3>2, <3>3 DEF Lost
  <2> QED
    BY <2>1, <2>5, LostOne
<1> QED
  BY <1>5, <1>6

LEMMA LossNext == Typed /\ LossInv /\ [Next]_vars => LossInv'
<1> SUFFICES ASSUME Typed, LossInv, [Next]_vars PROVE LossInv'
  OBVIOUS
<1>1. CASE UNCHANGED <<server, flows, kept, failures>>
  BY <1>1 DEF LossInv, Lost
<1>2. CASE FirstView \/ Settings \/ Edit \/ Back \/ \E email \in Emails \cup {None} : Type(email)
  BY <1>1, <1>2, Zenon DEF FirstView, Settings, Edit, Back, Type, Inputs, history
<1>3. ASSUME NEW f \in Flows, NEW r, Start(f, r), UNCHANGED <<server, failures, kept>>
      PROVE  LossInv'
  <2>1. \A n \in Names : ~Creates(flows[f], n)
    BY <1>3 DEF Start, Typed, NoFlow, Creates
  <2> QED
    BY <1>3, <2>1, OthersGo, LostKeeps
<1>4. ASSUME NEW f \in Flows, Act(f) PROVE LossInv'
  <2>1. \E r : Start(f, r) /\ UNCHANGED <<server, failures, kept>>
    <3>1. CASE FetchOnce(f)
      BY <3>1 DEF FetchOnce
    <3>2. ASSUME NEW r, NEW busy, Click(f, r, busy)
          PROVE  Start(f, r) /\ UNCHANGED <<server, failures, kept>>
      BY <3>2 DEF Click
    <3>3. CASE Subscribe(f)
      BY <3>2, <3>3, Zenon DEF Subscribe
    <3>4. CASE Verify(f)
      BY <3>2, <3>4, Zenon DEF Verify
    <3>5. CASE Reconnect(f)
      BY <3>2, <3>5, Zenon DEF Reconnect
    <3>6. CASE \E w \in Wallets : ConnectWallet(f, w)
      BY <3>2, <3>6, Zenon DEF ConnectWallet
    <3>7. CASE \E n \in Names : Toggle(f, n)
      BY <3>2, <3>7, Zenon DEF Toggle
    <3> QED
      BY <1>4, <3>1, <3>3, <3>4, <3>5, <3>6, <3>7 DEF Act
  <2> QED
    BY <1>3, <2>1
<1>5. ASSUME NEW f \in Flows, NEW r, Goes(f, r), Head1(f) # "create",
             kept' = kept, server'.alerts = server.alerts, failures' = failures
      PROVE  LossInv'
  BY <1>5, CreatesNot, OthersGo, LostKeeps
<1>6. ASSUME NEW f \in Flows, Step(f) PROVE LossInv'
  <2>1. CASE Login(f)
    <3>1. server'.alerts = server.alerts
      BY <2>1 DEF Login, Writes, Typed, ServerState
    <3> QED
      BY <1>5, <2>1, <3>1 DEF Login, Writes
  <2>2. CASE Read(f)
    BY <1>5, <2>2 DEF Read
  <2>3. CASE Render(f)
    BY <1>5, <2>3 DEF Render
  <2>4. CASE Show(f)
    BY <1>5, <2>4 DEF Show
  <2>5. CASE Local(f)
    BY <1>5, <2>5 DEF Local, history
  <2>6. CASE Plan(f)
    BY <1>5, <2>6 DEF Plan, history
  <2>7. CASE Conflict(f)
    BY <1>5, <2>7 DEF Conflict, history
  <2> QED
    BY <1>6, <2>1, <2>2, <2>3, <2>4, <2>5, <2>6, <2>7, RequestLoss, FailLoss DEF Step
<1>7. CASE UNCHANGED vars
  BY <1>1, <1>7 DEF vars, history
<1> QED
  BY <1>2, <1>4, <1>6, <1>7 DEF Next

\* One failed request costs at most one alert: updateAlertInternal deletes an
\* alert right before it creates it anew, so that whatever fails and overlaps,
\* when nothing runs all the alerts that no handler was asked to delete are there,
\* but for one per failure.
THEOREM LossIsBoundedTheorem == Spec => []LossIsBounded
<1>1. ASSUME Typed, LossInv  PROVE LossIsBounded
  <2>1. CASE Quiet
    <3>1. \A f \in Flows : flows[f] = NoFlow
      BY <1>1, <2>1 DEF Quiet, Running, Typed
    <3>2. \A f \in Flows, n \in Names : ~Creates(flows[f], n)
      BY <3>1 DEF Creates, NoFlow
    <3>3. Lost = {n \in kept : server.alerts[n] = None}
      BY <1>1, <3>2 DEF Lost, Typed
    <3> QED
      BY <1>1, <3>3 DEF LossInv, LossIsBounded
  <2> QED
    BY <2>1 DEF LossIsBounded
<1> QED
  BY <1>1, TypedInit, TypedNext, LossInit, LossNext, PTL DEF Spec

-----------------------------------------------------------------------------
(* What the handlers are configured for                                      *)

\* What signing up looks like: what is adopted was ensured before, the contacts
\* come first, and the wallets keep the sources they have.
Signing(s) ==
  /\ Never(s, {"adopt"}, Contacting)
  /\ After(s, {"ensure"}, {"adopt"})
  /\ ~Has(s, Grouping)

\* The configuration of a row with the wallets w, or null to be rid of it.
Fits(u, w, n, config) ==
  \/ config = None
  \/ config = RowConfiguration(u.events[n], w)
  \/ ~u.canary /\ config = nullConfiguration

\* The sources of an alert whose row does not watch the wallets are those of
\* the row, or those of an earlier visit.
GroupsWell(u, v) ==
  \A n \in Names : u.events[n] \notin {"walletBalance", "label"} =>
    LET row == RowConfiguration(u.events[n], {}) IN
    /\ v.groups[n] \in {None, {"there"}, row.sources}
    /\ v.alerts[n] # None /\ ~row.multiple => v.groups[n] # None

Configures(u, r) ==
  /\ r.data # None => GroupsWell(u, r.data)
  /\ \E w \in SUBSET Mine : \A n \in Names : Fits(u, w, n, r.configs[n])
  /\ \A n \in Names : In(<<"create", n>>, r.todo) \/ In(<<"update", n>>, r.todo) =>
       Filtered(u, n, r.configs[n])
  /\ Has(r.todo, {"try"}) => r.configs = NoConfigurations /\ ~r.made
  /\ r.by \in Subs => Signing(r.todo)

ConfiguredInv ==
  /\ GroupsWell(setup, server)
  /\ \A f \in Flows : flows[f].by # None => Configures(setup, flows[f])

LEMMA SigningPlain ==
  ASSUME NEW s \in Chains, NEW K, Only(s, K), K \cap {"ensure", "adopt", "wallets", "ensureWallets"} = {}
  PROVE  Signing(s)
<1>1. K \cap {"adopt"} = {} /\ K \cap {"ensure"} = {} /\ K \cap Grouping = {}
  BY DEF Grouping
<1> QED
  BY <1>1, OnlyWithout, Zenon DEF Signing

LEMMA SigningConcat ==
  ASSUME NEW s \in Chains, NEW t \in Chains, Signing(s), Signing(t), ~Has(t, Contacting)
  PROVE  Signing(s \o t)
<1>1. Never(s \o t, {"adopt"}, Contacting)
  BY NeverConcat DEF Signing
<1>2. After(s \o t, {"ensure"}, {"adopt"})
  BY AfterConcat DEF Signing
<1>3. ~Has(s \o t, Grouping)
  BY HasConcat DEF Signing
<1> QED
  BY <1>1, <1>2, <1>3 DEF Signing

LEMMA SigningTail ==
  ASSUME NEW s \in Chains, s # <<>>, Signing(s)
  PROVE  Signing(Tail(s))
BY NeverTail, AfterTail, HasTail DEF Signing

LEMMA SubscribeAlertsSigns == Signing(subscribeAlerts)
<1> DEFINE h == Links(<<"targets">>)
           e == [i \in DOMAIN Order |-> <<"ensure", Order[i]>>]
           t == Links(<<"read", "adopt">>)
<1>1. subscribeAlerts = (h \o e) \o t
  BY DEF subscribeAlerts
<1>2. h \in Chains /\ Only(h, {"targets"})
  BY Links1, Kinds1 DEF Bare
<1>3. e \in Chains /\ Only(e, {"ensure"})
  BY ByName
<1>4. t \in Chains /\ Only(t, {"read", "adopt"}) /\ Has(t, {"adopt"})
  <2>1. t \in Chains /\ Len(t) = 2 /\ t[1] = <<"read", None>> /\ t[2] = <<"adopt", None>>
    BY Links2, Zenon DEF Bare
  <2> HIDE DEF t
  <2> QED
    BY <2>1, Kinds2
<1> HIDE DEF h, e, t
<1>5. h \o e \in Chains /\ ~Has(h \o e, {"adopt"}) /\ ~Has(h \o e, Grouping)
  <2>1. /\ {"targets"} \cap {"adopt"} = {} /\ {"ensure"} \cap {"adopt"} = {}
        /\ {"targets"} \cap Grouping = {} /\ {"ensure"} \cap Grouping = {}
    BY DEF Grouping
  <2>2. ~Has(h, {"adopt"}) /\ ~Has(h, Grouping) /\ ~Has(e, {"adopt"}) /\ ~Has(e, Grouping)
    BY <1>2, <1>3, <2>1, OnlyWithout
  <2> QED
    BY <1>2, <1>3, <2>2, HasConcat, ConcatIs
<1>6. Never(h \o e, {"adopt"}, Contacting)
  BY <1>5 DEF Never, Has
<1>7. /\ Never(t, {"adopt"}, Contacting) /\ After(t, {"ensure"}, {"adopt"}) /\ ~Has(t, Grouping)
  <2>1. /\ {"read", "adopt"} \cap Grouping = {} /\ {"read", "adopt"} \cap {"ensure"} = {}
        /\ {"read", "adopt"} \cap Contacting = {}
    BY DEF Grouping, Contacting
  <2>2. ~Has(t, Grouping) /\ After(t, {"ensure"}, {"adopt"}) /\ ~Has(t, Contacting)
    BY <1>4, <2>1, OnlyWithout
  <2>3. \A i \in 1 .. Len(t) : \A j \in i + 1 .. Len(t) : j \in 1 .. Len(t)
    BY <1>4 DEF Chains
  <2> QED
    BY <2>2, <2>3 DEF Never, Has
<1>8. Never((h \o e) \o t, {"adopt"}, Contacting)
  BY <1>4, <1>5, <1>6, <1>7, NeverConcat
<1>9. After((h \o e) \o t, {"ensure"}, {"adopt"})
  BY <1>4, <1>5, <1>7, AfterConcat
<1>10. ~Has((h \o e) \o t, Grouping)
  BY <1>4, <1>5, <1>7, HasConcat
<1> QED
  BY <1>1, <1>8, <1>9, <1>10 DEF Signing

\* At the end a view is shown.
LEMMA ShownSigns ==
  ASSUME NEW s \in Chains, Signing(s), NEW v \in Views
  PROVE  s \o <<<<"show", v>>>> \in Chains /\ Signing(s \o <<<<"show", v>>>>)
<1> DEFINE e == <<<<"show", v>>>>
<1>1. e \in Chains /\ Len(e) = 1 /\ e[1] = <<"show", v>>
  <2>1. <<"show", v>> \in AnyLink
    BY DEF AnyLink
  <2> QED
    BY <2>1, SingleIs
<1> HIDE DEF e
<1>2. Only(e, {"show"})
  <2>1. \A i \in 1 .. Len(e) : i = 1
    BY <1>1
  <2> QED
    BY <1>1, <2>1 DEF Only
<1>3. Signing(e) /\ ~Has(e, Contacting)
  <2>1. {"show"} \cap Contacting = {} /\ {"show"} \cap {"ensure", "adopt", "wallets", "ensureWallets"} = {}
    BY DEF Contacting
  <2> QED
    BY <1>1, <1>2, <2>1, SigningPlain, OnlyWithout
<1>4. s \o e \in Chains /\ Signing(s \o e)
  BY <1>1, <1>3, SigningConcat, ConcatIs
<1> QED
  BY <1>4 DEF e

LEMMA ButtonSigns ==
  ASSUME NEW firstTime \in BOOLEAN
  PROVE  Signing(ButtonLinks(firstTime)) /\ ~Has(ButtonLinks(firstTime), {"try"})
<1> DEFINE s == ButtonLinks(firstTime)
<1>1. CASE ~setup.canary
  <2> DEFINE K == Subscribing \cup {"targets", "show"}
  <2>1. s \in Chains /\ Only(s, K)
    BY <1>1, ButtonIs, Zenon
  <2>2. K \cap {"ensure", "adopt", "wallets", "ensureWallets"} = {} /\ K \cap {"try"} = {}
    BY DEF Subscribing, LoggingIn
  <2> HIDE DEF s, K
  <2>3. Signing(s) /\ ~Has(s, {"try"})
    BY <2>1, <2>2, SigningPlain, OnlyWithout
  <2> QED
    BY <2>3 DEF s
<1>2. CASE setup.canary
  <2> DEFINE firsts == firstTime /\ ~setup.multi
             b == IF firsts THEN subscribeAlerts ELSE Links(<<"targets">>)
             r == Links(<<"read", "render">>)
             v == CASE ~setup.multi -> "preview"
                    [] setup.multi /\ card.view = "signup" -> "verifyonboarding"
                    [] OTHER -> "verify"
             e == <<<<"show", v>>>>
  <2>1. s = (b \o r) \o e
    BY <1>2, Zenon DEF ButtonLinks
  <2>2. v \in Views
    BY DEF Views
  <2>3. b \in Chains /\ Signing(b)
    <3>1. CASE firsts
      BY <3>1, SubscribeAlertsIs, SubscribeAlertsSigns
    <3>2. CASE ~firsts
      <4>1. LET h == Links(<<"targets">>) IN h \in Chains /\ Only(h, {"targets"})
        BY Links1, Kinds1 DEF Bare
      <4>2. {"targets"} \cap {"ensure", "adopt", "wallets", "ensureWallets"} = {}
        OBVIOUS
      <4> QED
        BY <3>2, <4>1, <4>2, SigningPlain
    <3> QED
      BY <3>1, <3>2
  <2>4. r \in Chains /\ Signing(r) /\ ~Has(r, Contacting)
    <3>1. r \in Chains /\ Only(r, {"read", "render"})
      BY ReadRender
    <3>2. /\ {"read", "render"} \cap {"ensure", "adopt", "wallets", "ensureWallets"} = {}
          /\ {"read", "render"} \cap Contacting = {}
      BY DEF Contacting
    <3> HIDE DEF r
    <3> QED
      BY <3>1, <3>2, SigningPlain, OnlyWithout
  <2>5. Only(s, Ensuring \cup {"render", "show"}) /\ s \in Chains
    BY <1>2, ButtonIs, Zenon
  <2>6. (Ensuring \cup {"render", "show"}) \cap {"try"} = {}
    BY DEF Ensuring
  <2> HIDE DEF b, r, v, s
  <2>7. b \o r \in Chains /\ Signing(b \o r)
    BY <2>3, <2>4, SigningConcat, ConcatIs
  <2>8. Signing((b \o r) \o e)
    BY <2>2, <2>7, ShownSigns
  <2>9. ~Has(s, {"try"})
    BY <2>5, <2>6, OnlyWithout
  <2> QED
    BY <2>1, <2>8, <2>9 DEF s
<1> QED
  BY <1>1, <1>2

LEMMA BegunConfigures ==
  ASSUME NEW u, NEW r, Begun(u, r), r.by \in Subs => Signing(r.todo),
         NEW w \in SUBSET Mine, \A n \in Names : Fits(u, w, n, r.configs[n])
  PROVE  Configures(u, r)
<1>1. r.todo \in Chains /\ r.data = None /\ ~r.made /\ ~Has(r.todo, Rewrites)
  BY DEF Begun, Good, Orderly
<1>2. ASSUME NEW n, NEW k \in Rewrites  PROVE ~In(<<k, n>>, r.todo)
  BY <1>1 DEF In, Has
<1>3. \A n : ~In(<<"create", n>>, r.todo) /\ ~In(<<"update", n>>, r.todo)
  BY <1>2, Zenon DEF Rewrites
<1>4. Has(r.todo, {"try"}) => r.configs = NoConfigurations
  BY DEF Begun
<1> QED
  BY <1>1, <1>3, <1>4 DEF Configures

\* Nothing, or the configurations by default.
LEMMA DefaultsFit ==
  ASSUME Typed
  PROVE  /\ \E w \in SUBSET Mine : \A n \in Names : Fits(setup, w, n, NoConfigurations[n])
         /\ \E w \in SUBSET Mine : \A n \in Names : Fits(setup, w, n, Defaults[n])
<1>1. card.wallets \in SUBSET Mine /\ server.wallets \in SUBSET Mine
  BY DEF Typed, CardState, ServerState, Mine
<1>2. \A n \in Names : Fits(setup, {}, n, NoConfigurations[n])
  BY DEF Fits, NoConfigurations
<1>3. \A n \in Names : Fits(setup, card.wallets, n, createConfigurations(card.wallets)[n])
  BY DEF Fits, createConfigurations
<1>4. \A n \in Names : Fits(setup, {}, n, FrontendConfigurations[n])
  BY DEF Fits, FrontendConfigurations
<1> QED
  BY <1>1, <1>2, <1>3, <1>4 DEF Defaults

\* How a handler starts, whichever it is.
Starting(f, r) ==
  /\ Start(f, r) /\ r.by \in Handlers /\ RunsWell(setup, r) /\ Begun(setup, r)
  /\ Configures(setup, r)
  /\ r.by = "verify" => card.view = "verify"
  /\ card.view = "verify" => r.by \in {"fetchOnce", "wallet", "verify"}
  /\ card'.loading => card.loading \/ (r.tried /\ r.by # "fetchOnce")
  /\ card'.alerts = card.alerts /\ card'.email = card.email /\ card'.view = card.view
  /\ UNCHANGED <<setup, server, failures, kept, cached>>

LEMMA ClickStarts ==
  ASSUME Typed, NEW f \in Flows, NEW r, NEW busy \in BOOLEAN, Click(f, r, busy),
         RunsWell(setup, r), Begun(setup, r), Configures(setup, r), busy => r.tried,
         r.by # "fetchOnce", r.by = "verify" => card.view = "verify",
         card.view = "verify" => r.by \in {"fetchOnce", "wallet", "verify"}
  PROVE  Starting(f, r)
<1>1. card' = [card EXCEPT !.loading = @ \/ busy] /\ Start(f, r)
      /\ UNCHANGED <<setup, server, failures, kept, cached>>
  BY DEF Click
<1>2. card \in CardState
  BY DEF Typed
<1>3. /\ card'.loading => card.loading \/ busy
      /\ card'.alerts = card.alerts /\ card'.email = card.email /\ card'.view = card.view
  BY <1>1, <1>2 DEF CardState
<1> QED
  BY <1>1, <1>3 DEF Starting, RunsWell

LEMMA ActStarts ==
  ASSUME Typed, NEW f \in Flows, Act(f)
  PROVE  \E r : Starting(f, r)
<1>1. CASE FetchOnce(f)
  <2> DEFINE r == Captured("fetchOnce", Links(<<"read", "render">>), NoConfigurations)
  <2>1. RunsWell(setup, r) /\ Begun(setup, r)
    BY FetchOnceStarts
  <2>2. r.by = "fetchOnce" /\ r.configs = NoConfigurations
    BY DEF Captured, NoFlow
  <2>3. Start(f, r) /\ UNCHANGED <<setup, server, card, failures, kept, cached>>
    BY <1>1 DEF FetchOnce
  <2> HIDE DEF r
  <2>4. Configures(setup, r)
    BY <2>1, <2>2, DefaultsFit, BegunConfigures DEF Subs
  <2>5. Starting(f, r)
    BY <2>1, <2>2, <2>3, <2>4 DEF Starting, Handlers
  <2> QED
    BY <2>5
<1>2. CASE Subscribe(f)
  <2>0. card.view # "verify"
    BY <1>2 DEF Subscribe
  <2>1. CASE setup.canary /\ session.frontend # "valid"
    <3> DEFINE s == Links(<<"login", "read", "try">>)
               r == [Captured("button", s, NoConfigurations) EXCEPT !.tried = FALSE]
    <3>1. RunsWell(setup, r) /\ Begun(setup, r)
      BY <2>1, LoginButtonStarts
    <3>2. Click(f, r, FALSE)
      BY <1>2, <2>1, Zenon DEF Subscribe
    <3>3. r.by = "button" /\ r.configs = NoConfigurations /\ r.todo = s
      BY DEF Captured, NoFlow
    <3>4. Signing(s)
      <4>1. s \in Chains /\ Only(s, {"login", "read", "try"})
        <5>1. /\ s \in Chains /\ Len(s) = 3 /\ s[1] = <<"login", None>>
              /\ s[2] = <<"read", None>> /\ s[3] = <<"try", None>>
          BY Links3, ZenonT(40) DEF Bare
        <5> HIDE DEF s
        <5> QED
          BY <5>1, Kinds3
      <4> HIDE DEF s
      <4>2. {"login", "read", "try"} \cap {"ensure", "adopt", "wallets", "ensureWallets"} = {}
        OBVIOUS
      <4> QED
        BY <4>1, <4>2, SigningPlain
    <3> HIDE DEF r, s
    <3>5. Configures(setup, r)
      BY <3>1, <3>3, <3>4, DefaultsFit, BegunConfigures
    <3>6. Starting(f, r)
      BY <2>0, <3>1, <3>2, <3>3, <3>5, ClickStarts, Zenon
    <3> QED
      BY <3>6
  <2>2. CASE ~(setup.canary /\ session.frontend # "valid")
    <3> DEFINE configs == IF ~session.known /\ ~setup.multi THEN Defaults ELSE NoConfigurations
               s == ButtonLinks(~session.known)
               r == Captured("button", s, configs)
    <3>1. (\E n \in Names : configs[n] # None) => ~session.known /\ ~setup.multi
      BY DEF NoConfigurations
    <3>2. RunsWell(setup, r) /\ Begun(setup, r)
      BY <3>1, ButtonStarts, Zenon
    <3>3. Click(f, r, TRUE)
      BY <1>2, <2>2, Zenon DEF Subscribe
    <3>4. r.by = "button" /\ r.configs = configs /\ r.todo = s /\ r.tried
      BY DEF Captured, NoFlow
    <3>5. Signing(s)
      BY ButtonSigns, Zenon
    <3>6. \E w \in SUBSET Mine : \A n \in Names : Fits(setup, w, n, configs[n])
      BY DefaultsFit
    <3> HIDE DEF r, s, configs
    <3>7. Configures(setup, r)
      BY <3>2, <3>4, <3>5, <3>6, BegunConfigures
    <3>8. Starting(f, r)
      BY <2>0, <3>2, <3>3, <3>4, <3>7, ClickStarts, Zenon
    <3> QED
      BY <3>8
  <2> QED
    BY <2>1, <2>2
<1>3. CASE Verify(f)
  <2> DEFINE links == CASE card.view = "verifyonboarding" /\ setup.canary -> subscribeAlerts
                        [] card.view = "verifyonboarding" /\ ~setup.canary -> subscribe
                        [] card.view = "verify" /\ setup.canary -> Links(<<"ensureWallets">>)
                        [] card.view = "verify" /\ ~setup.canary -> updateWallets
             s == links \o <<<<"show", "preview">>>>
             configs == IF card.view = "verifyonboarding" THEN Defaults ELSE NoConfigurations
             r == Captured(card.view, s, configs)
  <2>1. card.view \in {"verifyonboarding", "verify"} /\ Click(f, r, TRUE)
    BY <1>3, Zenon DEF Verify
  <2>2. RunsWell(setup, r) /\ Begun(setup, r)
    BY <2>1, VerifyStarts
  <2>3. r.by = card.view /\ r.configs = configs /\ r.todo = s /\ r.tried
    BY Zenon DEF Captured, NoFlow
  <2>4. \E w \in SUBSET Mine : \A n \in Names : Fits(setup, w, n, configs[n])
    BY DefaultsFit
  <2>5. card.view = "verifyonboarding" => Signing(s)
    <3> SUFFICES ASSUME card.view = "verifyonboarding" PROVE Signing(s)
      OBVIOUS
    <3>1. links \in Chains /\ Signing(links)
      <4>1. CASE setup.canary
        BY <4>1, SubscribeAlertsIs, SubscribeAlertsSigns
      <4>2. CASE ~setup.canary
        <5>1. subscribe \in Chains /\ Only(subscribe, Subscribing)
          BY SubscribeIs
        <5>2. Subscribing \cap {"ensure", "adopt", "wallets", "ensureWallets"} = {}
          BY DEF Subscribing, LoggingIn
        <5>3. links = subscribe
          BY <4>2
        <5> QED
          BY <5>1, <5>2, <5>3, SigningPlain
      <4> QED
        BY <4>1, <4>2
    <3>2. "preview" \in Views
      BY DEF Views
    <3> HIDE DEF links
    <3> QED
      BY <3>1, <3>2, ShownSigns
  <2> HIDE DEF r, s, configs
  <2>6. r.by \in Subs => Signing(r.todo)
    BY <2>1, <2>3, <2>5 DEF Subs
  <2>7. Configures(setup, r)
    BY <2>2, <2>3, <2>4, <2>6, BegunConfigures
  <2>8. Starting(f, r)
    BY <2>1, <2>2, <2>3, <2>7, ClickStarts, Zenon
  <2> QED
    BY <2>8
<1>4. CASE Reconnect(f)
  <2> DEFINE links == IF setup.canary THEN Links(<<"login">>) ELSE logIn
             s == links \o <<<<"show", "preview">>>>
             r == Captured("expired", s, NoConfigurations)
  <2>1. Click(f, r, FALSE) /\ card.view = "expired"
    BY <1>4, Zenon DEF Reconnect
  <2>2. RunsWell(setup, r) /\ Begun(setup, r)
    BY ReconnectStarts
  <2>3. r.by = "expired" /\ r.configs = NoConfigurations
    BY DEF Captured, NoFlow
  <2> HIDE DEF r
  <2>4. Configures(setup, r)
    BY <2>2, <2>3, DefaultsFit, BegunConfigures DEF Subs
  <2>5. Starting(f, r)
    BY <2>1, <2>2, <2>3, <2>4, ClickStarts, Zenon
  <2> QED
    BY <2>5
<1>5. ASSUME NEW w \in Wallets, ConnectWallet(f, w)  PROVE \E r : Starting(f, r)
  <2> DEFINE technique == IF w \in card.elsewhere THEN "take" ELSE "connect"
             s == subscribeWallet(w, technique)
             r == Captured("wallet", s, NoConfigurations)
  <2>1. technique \in OfWallet
    BY DEF OfWallet
  <2>2. Click(f, r, TRUE)
    BY <1>5, Zenon DEF ConnectWallet
  <2> HIDE DEF technique
  <2>3. RunsWell(setup, r) /\ Begun(setup, r)
    BY <2>1, WalletStarts
  <2>4. r.by = "wallet" /\ r.configs = NoConfigurations /\ r.tried
    BY DEF Captured, NoFlow
  <2> HIDE DEF r
  <2>5. Configures(setup, r)
    BY <2>3, <2>4, DefaultsFit, BegunConfigures DEF Subs
  <2>6. Starting(f, r)
    BY <2>2, <2>3, <2>4, <2>5, ClickStarts, Zenon
  <2> QED
    BY <2>6
<1>6. ASSUME NEW n \in Names, Toggle(f, n)  PROVE \E r : Starting(f, r)
  <2> DEFINE config == IF card.alerts[n] # None THEN nullConfiguration
                       ELSE RowConfiguration(setup.events[n], card.wallets)
             configs == [NoConfigurations EXCEPT ![n] = config]
             s == instantSubscribe(n)
             r == Captured("toggle", s, configs)
  <2>1. ~setup.canary /\ card.view = "preview" /\ Click(f, r, TRUE)
    BY <1>6, Zenon DEF Toggle
  <2>2. RunsWell(setup, r) /\ Begun(setup, r)
    BY <2>1, ToggleStarts
  <2>3. r.by = "toggle" /\ r.configs = configs /\ r.todo = s /\ r.tried
    BY DEF Captured, NoFlow
  <2>4. card.wallets \in SUBSET Mine
    BY DEF Typed, CardState
  <2>5. \A m \in Names : configs[m] = IF m = n THEN config ELSE None
    BY DEF NoConfigurations
  <2>6. \A m \in Names : Fits(setup, card.wallets, m, configs[m])
    BY <2>1, <2>5 DEF Fits
  <2>7. Signing(s)
    <3>1. s \in Chains /\ Only(s, Subscribing)
      BY InstantSubscribeIs, Zenon
    <3>2. Subscribing \cap {"ensure", "adopt", "wallets", "ensureWallets"} = {}
      BY DEF Subscribing, LoggingIn
    <3> HIDE DEF s
    <3> QED
      BY <3>1, <3>2, SigningPlain
  <2> HIDE DEF r, s, configs
  <2>8. Configures(setup, r)
    BY <2>2, <2>3, <2>4, <2>6, <2>7, BegunConfigures
  <2>9. Starting(f, r)
    BY <2>1, <2>2, <2>3, <2>8, ClickStarts, Zenon
  <2> QED
    BY <2>9
<1> QED
  BY <1>1, <1>2, <1>3, <1>4, <1>5, <1>6 DEF Act

-----------------------------------------------------------------------------
(* The card is not left loading                                              *)

\* A handler that resets loading, whether it comes to its end or throws.
Resets(r) == r.by # None /\ r.tried /\ r.by # "fetchOnce"
LoadingInv == card.loading => \E f \in Flows : Resets(flows[f])

LEMMA LoadingGoes ==
  ASSUME Typed, LoadingInv, NEW f \in Flows, NEW r, Goes(f, r) \/ Start(f, r),
         card'.loading => (card.loading /\ (Resets(flows[f]) => Resets(r))) \/ Resets(r)
  PROVE  LoadingInv'
<1>1. flows'[f] = r /\ \A g \in Flows : g # f => flows'[g] = flows[g]
  BY OthersGo
<1>2. ASSUME card.loading, Resets(flows[f]) => Resets(r)
      PROVE  \E g \in Flows : Resets(flows'[g])
  BY <1>1, <1>2 DEF LoadingInv
<1> QED
  BY <1>1, <1>2 DEF LoadingInv

LEMMA LoadingNext == Typed /\ LoadingInv /\ [Next]_vars => LoadingInv'
<1> SUFFICES ASSUME Typed, LoadingInv, [Next]_vars PROVE LoadingInv'
  OBVIOUS
<1>1. CASE flows' = flows /\ card'.loading = card.loading
  BY <1>1 DEF LoadingInv
<1>2. CASE FirstView \/ Settings \/ Edit \/ Back \/ \E email \in Emails \cup {None} : Type(email)
  <2>1. flows' = flows /\ card'.loading = card.loading
    BY <1>2, Zenon DEF FirstView, Settings, Edit, Back, Type, Inputs, Typed, CardState
  <2> QED
    BY <1>1, <2>1
<1>3. ASSUME NEW f \in Flows, Act(f)  PROVE LoadingInv'
  <2>1. PICK r : Starting(f, r)
    BY <1>3, ActStarts
  <2>2. Start(f, r) /\ r.by # None /\ ~Resets(flows[f])
    BY <2>1, NoneAssumption DEF Starting, Start, Resets
  <2>3. card'.loading => card.loading \/ Resets(r)
    BY <2>1, <2>2 DEF Starting, Resets
  <2> QED
    BY <2>2, <2>3, LoadingGoes
<1>4. ASSUME NEW f \in Flows, NEW r, Goes(f, r), r.by = flows[f].by, r.tried = flows[f].tried,
             card' = card
      PROVE  LoadingInv'
  BY <1>4, LoadingGoes DEF Resets
<1>5. ASSUME NEW f \in Flows, NEW r, Goes(f, r), ~card'.loading  PROVE LoadingInv'
  BY <1>5, LoadingGoes
<1>6. ASSUME NEW f \in Flows, Step(f)  PROVE LoadingInv'
  <2>1. flows[f] \in FlowState /\ card \in CardState
    BY DEF Typed
  <2>2. Next1(f).by = flows[f].by /\ Next1(f).tried = flows[f].tried
    BY <2>1 DEF Next1, FlowState
  <2>3. CASE Login(f)
    BY <1>4, <2>2, <2>3 DEF Login, Writes
  <2>4. CASE Read(f)
    <3>1. PICK data : Goes(f, [Next1(f) EXCEPT !.data = data])
      BY <2>4, Zenon DEF Read
    <3>2. LET r == [Next1(f) EXCEPT !.data = data] IN r.by = Next1(f).by /\ r.tried = Next1(f).tried
      BY <2>1 DEF Next1, FlowState
    <3> QED
      BY <1>4, <2>2, <2>4, <3>1, <3>2, Zenon DEF Read
  <2>5. ASSUME Head1(f) \in {"render", "show"}, NEW view, Goes(f, Ends(f)),
               card'.loading = IF flows[f].by = "fetchOnce" /\ Head1(f) = "render"
                               THEN card.loading ELSE Settled(f, view)
        PROVE  LoadingInv'
    <3>1. CASE Len(flows[f].todo) > 1
      <4>1. Ends(f) = Next1(f)
        BY <3>1 DEF Ends
      <4>2. card'.loading => card.loading
        BY <2>5, Zenon DEF Settled
      <4>3. Resets(flows[f]) => Resets(Next1(f))
        BY <2>2 DEF Resets
      <4> QED
        BY <2>5, <4>1, <4>2, <4>3, LoadingGoes
    <3>2. CASE ~(Len(flows[f].todo) > 1)
      <4>1. card'.loading => card.loading /\ ~Resets(flows[f])
        BY <2>5, <3>2, Zenon DEF Settled, Resets
      <4> QED
        BY <2>5, <4>1, LoadingGoes
    <3> QED
      BY <3>1, <3>2
  <2>6. CASE Render(f)
    <3>1. card'.loading = IF flows[f].by = "fetchOnce" THEN card.loading ELSE Settled(f, None)
      <4> DEFINE seen == Rendered(flows[f].data)
      <4>1. "loading" \in DOMAIN seen /\ seen.loading = card.loading /\ DOMAIN seen = DOMAIN card
        BY <2>1 DEF Rendered, CardState
      <4> HIDE DEF seen
      <4>2. card' = [seen EXCEPT !.loading = IF flows[f].by = "fetchOnce" THEN @ ELSE Settled(f, None)]
        BY <2>6 DEF Render, seen
      <4> QED
        BY <4>1, <4>2
    <3>2. Goes(f, Ends(f)) /\ Head1(f) = "render"
      BY <2>6 DEF Render
    <3> QED
      BY <2>5, <3>1, <3>2
  <2>7. CASE Show(f)
    <3>1. card'.loading = Settled(f, Arg(f))
      BY <2>1, <2>7 DEF Show, CardState
    <3>2. Goes(f, Ends(f)) /\ Head1(f) = "show"
      BY <2>7 DEF Show
    <3> QED
      BY <2>5, <3>1, <3>2
  <2>8. CASE Local(f)
    <3>1. CASE Head1(f) = "try"
      <4>1. TryFlow(f).by = "button" /\ TryFlow(f).tried
        BY <3>1, TryRuns
      <4>2. Goes(f, TryFlow(f))
        BY <2>8, <3>1 DEF Local, TryFlow
      <4>3. Resets(TryFlow(f))
        BY <4>1, NoneAssumption DEF Resets, Handlers
      <4> QED
        BY <4>2, <4>3, LoadingGoes
    <3>2. CASE Head1(f) = "idle"
      <4>1. Goes(f, Next1(f)) /\ ~card'.loading
        BY <2>1, <2>8, <3>2 DEF Local, CardState
      <4> QED
        BY <1>5, <4>1
    <3> QED
      BY <2>8, <3>1, <3>2 DEF Local
  <2>9. CASE Plan(f)
    <3>1. Head1(f) = "alert" /\ Goes(f, PlanFlow(f)) /\ card' = card
      BY <2>9 DEF Plan, PlanFlow
    <3> QED
      BY <1>4, <3>1, PlanRuns, Zenon
  <2>10. CASE Request(f)
    <3> DEFINE r == [Next1(f) EXCEPT !.made = @ \/ Head1(f) \in {"create", "update"}]
    <3>1. Goes(f, r) /\ card' = card
      BY <2>10 DEF Request, Writes
    <3>2. r.by = Next1(f).by /\ r.tried = Next1(f).tried
      BY <2>1 DEF Next1, FlowState
    <3> QED
      BY <1>4, <2>2, <3>1, <3>2, Zenon
  <2>11. CASE Conflict(f)
    <3>1. Goes(f, NoFlow) /\ ~card'.loading
      BY <2>1, <2>11 DEF Conflict, CardState
    <3> QED
      BY <1>5, <3>1
  <2>12. CASE Fail(f)
    <3>1. CASE Head1(f) = "ensure"
      BY <1>4, <2>2, <2>12, <3>1 DEF Fail
    <3>2. CASE Head1(f) # "ensure"
      <4>1. Goes(f, NoFlow) /\ card' = Thrown(f)
        BY <2>12, <3>2 DEF Fail
      <4>2. card'.loading => card.loading /\ ~(flows[f].tried /\ flows[f].by # "fetchOnce")
        BY <2>1, <4>1 DEF Thrown, CardState
      <4> QED
        BY <4>1, <4>2, LoadingGoes DEF Resets
    <3> QED
      BY <3>1, <3>2
  <2> QED
    BY <1>6, <2>3, <2>4, <2>6, <2>7, <2>8, <2>9, <2>10, <2>11, <2>12 DEF Step
<1>7. CASE UNCHANGED vars
  BY <1>1, <1>7 DEF vars
<1> QED
  BY <1>2, <1>3, <1>6, <1>7 DEF Next

\* What the rows have in common.
LEMMA RowFacts ==
  ASSUME NEW kind \in Kinds, NEW w \in SUBSET Mine
  PROVE  LET c == RowConfiguration(kind, w) IN
         /\ kind = "walletBalance" =>
              c.group = "userWallets" /\ c.multiple /\ c.sources = w /\ ~c.maintain
         /\ kind # "walletBalance" => c = RowConfiguration(kind, {})
         /\ kind \notin {"walletBalance", "label"} => c.group = None
         /\ kind # "label" /\ c.maintain => ~c.multiple
<1> DEFINE c == RowConfiguration(kind, w)
<1>1. kind = "walletBalance" => c = walletBalanceConfiguration(w)
  BY DEF RowConfiguration
<1>2. LET b == walletBalanceConfiguration(w) IN
      b.group = "userWallets" /\ b.multiple /\ b.sources = w /\ ~b.maintain
  BY DEF walletBalanceConfiguration, Multiple
<1>3. kind # "walletBalance" => c = RowConfiguration(kind, {})
  BY DEF RowConfiguration
<1>4. ASSUME NEW source, NEW options
      PROVE  LET s == Single(source, options) IN s.group = None /\ ~s.multiple /\ ~s.maintain
  BY DEF Single
<1>5. ASSUME NEW sources, NEW options
      PROVE  LET s == Multiple(sources, options) IN s.group = None /\ ~s.maintain
  BY DEF Multiple
<1>6. ASSUME NEW source, NEW options
      PROVE  LET s == [Single(source, options) EXCEPT !.maintain = TRUE] IN
             s.group = None /\ ~s.multiple
  BY DEF Single
<1>7. ASSUME kind \notin {"walletBalance", "label"}
      PROVE  c.group = None /\ (c.maintain => ~c.multiple)
  <2>1. CASE kind = "broadcast"
    BY <1>4, <2>1 DEF RowConfiguration, broadcastMessageConfiguration
  <2>2. CASE kind = "custom"
    BY <1>4, <2>2 DEF RowConfiguration, customToggleConfiguration
  <2>3. CASE kind = "customHealthCheck"
    BY <1>4, <2>3 DEF RowConfiguration, customThresholdConfiguration
  <2>4. CASE kind = "directPush"
    BY <1>4, <2>4 DEF RowConfiguration, directMessageConfiguration
  <2>5. CASE kind = "priceChange"
    BY <1>5, <2>5 DEF RowConfiguration, priceChangeConfiguration
  <2>6. CASE kind = "fusion"
    BY <1>6, <2>6, Zenon DEF RowConfiguration, fusionToggleConfiguration
  <2>7. CASE kind = "fusionHealthCheck"
    BY <1>6, <2>7, Zenon DEF RowConfiguration, fusionHealthCheckConfiguration
  <2>8. CASE kind = "healthCheck"
    BY <1>4, <2>8 DEF RowConfiguration, healthThresholdConfiguration
  <2>9. CASE kind = "tradingPair"
    BY <1>4, <2>9 DEF RowConfiguration, tradingPairConfiguration
  <2>10. CASE kind = "XMTP"
    BY <1>5, <2>10 DEF RowConfiguration, XMTPToggleConfiguration
  <2> QED
    BY <1>7, <2>1, <2>2, <2>3, <2>4, <2>5, <2>6, <2>7, <2>8, <2>9, <2>10 DEF Kinds
<1> QED
  BY <1>1, <1>2, <1>3, <1>7

\* What a configuration is that fits the row of an event.
Tailored(n, w, config) ==
  LET kind == setup.events[n] IN
  /\ kind \in Kinds \ {"label"}
  /\ config = RowConfiguration(kind, w) /\ config \in Configuration
  /\ config.sources \in SUBSET Sources /\ config.sources # None
  /\ kind = "walletBalance" =>
       /\ GroupOf(n, config) = IF setup.canary THEN n ELSE "userWallets"
       /\ config.multiple /\ config.sources = w /\ ~config.maintain
  /\ kind # "walletBalance" =>
       /\ GroupOf(n, config) = n /\ SourcesOf(n, config) = config.sources
       /\ config = RowConfiguration(kind, {}) /\ (config.maintain => ~config.multiple)

\* An alert that is wanted has the configuration of its row.
LEMMA FitsRow ==
  ASSUME setup \in SetupState, NEW n \in Names, NEW w \in SUBSET Mine, NEW config,
         config # None, Fits(setup, w, n, config), Filtered(setup, n, config) \/ setup.canary
  PROVE  Tailored(n, w, config)
<1> DEFINE kind == setup.events[n]
<1>1. kind \in Kinds
  BY EventsAre
<1>2. config # nullConfiguration \/ setup.canary
  BY DEF nullConfiguration, Multiple, Filtered
<1>3. config = RowConfiguration(kind, w)
  BY <1>2, SMTT(30) DEF Fits
<1>4. kind # "label"
  BY <1>3, Zenon DEF RowConfiguration
<1>5. config \in Configuration
  BY <1>1, <1>3, <1>4, RowIs
<1>6. config.sources \in SUBSET Sources /\ config.sources # None
  BY <1>5, NoneAssumption DEF Configuration
<1> HIDE DEF kind
<1>7. kind = "walletBalance" =>
        config.group = "userWallets" /\ config.multiple /\ config.sources = w /\ ~config.maintain
  BY <1>1, <1>3, RowFacts
<1>8. kind # "walletBalance" =>
        config.group = None /\ config = RowConfiguration(kind, {})
        /\ (config.maintain => ~config.multiple)
  BY <1>1, <1>3, <1>4, RowFacts
<1>9. "userWallets" # None
  BY NoneAssumption
<1>10. kind # "walletBalance" => SourcesOf(n, config) = config.sources
  BY DEF SourcesOf, kind
<1>11. GroupOf(n, config) = IF setup.canary \/ config.group = None THEN n ELSE config.group
  BY DEF GroupOf
<1> QED
  BY <1>1, <1>3, <1>4, <1>5, <1>6, <1>7, <1>8, <1>9, <1>10, <1>11 DEF kind, Tailored

\* A request that writes the source group of its alert.
Groups1(f) ==
  LET n == Arg(f)
      config == flows[f].configs[n]
  IN IF Head1(f) = "create" THEN Maintained(n, config, flows[f].data)
     ELSE Sourced(n, config, SourcesOf(n, config))

\* It leaves the sources of an alert as they should be.
LEMMA SourcedWell ==
  ASSUME Typed, ConfiguredInv, NEW f \in Flows, Head1(f) \in {"create", "ensure"},
         flows[f].configs[Arg(f)] # None, NEW v, v.groups = Groups1(f).groups,
         \A m \in Names : m # Arg(f) => v.alerts[m] = server.alerts[m]
  PROVE  GroupsWell(setup, v)
<1> DEFINE n == Arg(f)
           config == flows[f].configs[n]
           k == Head1(f)
           data == flows[f].data
           kind == setup.events[n]
           g == GroupOf(n, config)
<1>1. /\ server \in ServerState /\ setup \in SetupState /\ GroupsWell(setup, server)
      /\ server.groups \in [Groups -> (SUBSET Sources) \cup {None}]
  BY DEF Typed, ConfiguredInv, ServerState
<1>2. k # None /\ k \in OfName
  BY NoneAssumption DEF OfName
<1>3. /\ flows[f] \in FlowState /\ flows[f].todo \in Chains /\ flows[f].todo # <<>> /\ flows[f].by # None
      /\ RunsWell(setup, flows[f]) /\ k = Head(flows[f].todo)[1] /\ n = Head(flows[f].todo)[2]
  BY <1>2, Runs
<1>4. Configures(setup, flows[f])
  BY <1>3 DEF ConfiguredInv
<1>5. n \in Names /\ config \in Configuration
  BY <1>2, <1>3, LinkIs DEF FlowState, Configurations
<1>6. PICK w \in SUBSET Mine : \A m \in Names : Fits(setup, w, m, flows[f].configs[m])
  BY <1>4 DEF Configures
<1>7. Fits(setup, w, n, config)
  BY <1>5, <1>6
<1>8. Filtered(setup, n, config) \/ setup.canary
  <2>1. CASE k = "create"
    <3>1. Head(flows[f].todo) = <<"create", n>>
      BY <1>3, <2>1, LinkIs
    <3>2. In(<<"create", n>>, flows[f].todo)
      BY <1>3, <3>1, InTail
    <3> QED
      BY <1>4, <1>5, <3>2 DEF Configures
  <2>2. CASE k = "ensure"
    <3>1. Has(flows[f].todo, {"try", "ensure", "adopt"})
      BY <1>3, <2>2, HasTail
    <3> QED
      BY <1>3, <3>1 DEF RunsWell, Chained
  <2> QED
    BY <2>1, <2>2
<1> HIDE DEF n, config, k, data, kind, g
<1>9. /\ kind # "label" /\ config.sources \in SUBSET Sources
      /\ kind = "walletBalance" => g \in {n, "userWallets"}
      /\ kind # "walletBalance" =>
           g = n /\ SourcesOf(n, config) = config.sources /\ config = RowConfiguration(kind, {})
  <2>1. config # None
    BY <1>5, NoneAssumption
  <2>2. setup \in SetupState
    BY <1>1
  <2>3. config.sources \in SUBSET Sources
    BY <1>5 DEF Configuration
  <2>4. /\ kind # "label"
        /\ kind = "walletBalance" => g = IF setup.canary THEN n ELSE "userWallets"
        /\ kind # "walletBalance" =>
             g = n /\ SourcesOf(n, config) = config.sources /\ config = RowConfiguration(kind, {})
    BY <1>5, <1>7, <1>8, <2>1, <2>2, FitsRow DEF Tailored, kind, g
  <2> QED
    BY <2>3, <2>4
<1>10. k = "create" => data \in ServerState /\ GroupsWell(setup, data)
  <2>1. k = "create" => data \in ServerState
    BY FetchedData DEF UsesData, data, k
  <2> QED
    BY <1>4, <2>1, NoneAssumption DEF Configures, data
<1>11. g \in Groups /\ "userWallets" \notin Names /\ \A m \in Names : m \in Groups
  BY <1>5, <1>9, CardSubscribeAssumption DEF Groups
<1>12. PICK sources \in SUBSET Sources :
         /\ v.groups = [server.groups EXCEPT ![g] = sources]
         /\ kind # "walletBalance" => sources \in {{"there"}, config.sources}
  <2>1. \A sources : Sourced(n, config, sources).groups = [server.groups EXCEPT ![g] = sources]
    BY <1>1 DEF Sourced, ServerState, g
  <2>2. CASE k = "create"
    <3> DEFINE sources == IF config.maintain /\ data.groups[g] # None THEN data.groups[g]
                          ELSE config.sources
    <3>1. Groups1(f) = Sourced(n, config, sources)
      BY <2>2 DEF Groups1, Maintained, k, n, config, data, g
    <3>2. data.groups[g] \in (SUBSET Sources) \cup {None}
      BY <1>10, <1>11, <2>2 DEF ServerState
    <3>3. ASSUME kind # "walletBalance", data.groups[g] # None
          PROVE  data.groups[g] \in {{"there"}, config.sources}
      BY <1>5, <1>9, <1>10, <2>2, <3>3 DEF GroupsWell, kind
    <3>4. sources \in SUBSET Sources
          /\ (kind # "walletBalance" => sources \in {{"there"}, config.sources})
      BY <1>9, <3>2, <3>3
    <3> HIDE DEF sources
    <3> QED
      BY <2>1, <3>1, <3>4
  <2>3. CASE k = "ensure"
    <3>1. Groups1(f) = Sourced(n, config, SourcesOf(n, config))
      BY <2>3 DEF Groups1, k, n, config
    <3>2. SourcesOf(n, config) \in SUBSET Sources
      BY <1>1, <1>5, SourcedIs
    <3> QED
      BY <1>9, <2>1, <3>1, <3>2
  <2> QED
    BY <2>2, <2>3 DEF k
<1>13. sources # None
  BY NoneAssumption
<1>14. ASSUME NEW m \in Names, setup.events[m] \notin {"walletBalance", "label"}
       PROVE  LET row == RowConfiguration(setup.events[m], {}) IN
              /\ v.groups[m] \in {None, {"there"}, row.sources}
              /\ v.alerts[m] # None /\ ~row.multiple => v.groups[m] # None
  <2>1. CASE m = n
    <3>1. g = n /\ config = RowConfiguration(setup.events[m], {})
      BY <1>9, <1>14, <2>1 DEF kind
    <3>2. v.groups[m] = sources
      BY <1>1, <1>11, <1>12, <2>1, <3>1
    <3>3. sources \in {{"there"}, config.sources}
      BY <1>12, <1>14, <2>1 DEF kind
    <3> QED
      BY <1>13, <3>1, <3>2, <3>3
  <2>2. CASE m # n
    <3>1. m # g
      BY <1>9, <1>11, <2>2
    <3>2. v.groups[m] = server.groups[m] /\ v.alerts[m] = server.alerts[m]
      BY <1>1, <1>11, <1>12, <2>2, <3>1 DEF n
    <3> QED
      BY <1>1, <1>14, <3>2 DEF GroupsWell
  <2> QED
    BY <2>1, <2>2
<1> QED
  BY <1>14 DEF GroupsWell

LEMMA EffectSourced ==
  ASSUME server \in ServerState, NEW f \in Flows, Head1(f) \in {"create", "ensure"},
         flows[f].configs[Arg(f)] # None
  PROVE  Effect(f).groups = Groups1(f).groups
<1> DEFINE n == Arg(f)
           config == flows[f].configs[n]
           s == Groups1(f)
<1>1. s = [server EXCEPT !.groups = s.groups]
  BY Zenon DEF Groups1, Maintained, Sourced, ServerState
<1> HIDE DEF s
<1>2. \A a, form : /\ [s EXCEPT !.alerts[n] = a].groups = s.groups
                   /\ [s EXCEPT !.alerts[n] = a, !.targets = form].groups = s.groups
  BY <1>1 DEF ServerState
<1>3. CASE Head1(f) = "create"
  <2>1. Effect(f) = [s EXCEPT !.alerts[n] = Stored(config.options), !.targets = flows[f].form]
    BY <1>3, Zenon DEF Effect, Created, Groups1, s
  <2> QED
    BY <1>2, <2>1 DEF s
<1>4. CASE Head1(f) = "ensure"
  <2>1. Effect(f) \in {s, [s EXCEPT !.alerts[n] = Stored(config.options)]}
    BY <1>4, Zenon DEF Effect, Ensured, Groups1, s
  <2> QED
    BY <1>2, <2>1 DEF s
<1> QED
  BY <1>3, <1>4

LEMMA EffectGroups ==
  ASSUME Typed, ConfiguredInv, NEW f \in Flows, Requesting(f)
  PROVE  GroupsWell(setup, Effect(f))
<1> DEFINE n == Arg(f)
           config == flows[f].configs[n]
           k == Head1(f)
<1>1. /\ server \in ServerState /\ GroupsWell(setup, server)
      /\ server.groups \in [Groups -> (SUBSET Sources) \cup {None}]
      /\ server.alerts \in [Names -> Options \cup {None}]
  BY DEF Typed, ConfiguredInv, ServerState
<1>2. "userWallets" \notin Names /\ \A m \in Names : m \in Groups
  BY CardSubscribeAssumption DEF Groups
<1>3. ASSUME NEW v, \A m \in Names : setup.events[m] \notin {"walletBalance", "label"} =>
               /\ v.groups[m] = server.groups[m]
               /\ v.alerts[m] # None => server.alerts[m] # None
      PROVE  GroupsWell(setup, v)
  BY <1>1, <1>3 DEF GroupsWell
<1>4. CASE k = "delete"
  <2>1. Effect(f) = [server EXCEPT !.alerts[n] = None]
    BY <1>4 DEF Effect
  <2>2. Effect(f).groups = server.groups /\ Effect(f).alerts = [server.alerts EXCEPT ![n] = None]
    BY <1>1, <2>1 DEF ServerState
  <2>3. \A m \in Names : Effect(f).alerts[m] # None => server.alerts[m] # None
    BY <1>1, <2>2
  <2> QED
    BY <1>3, <2>2, <2>3, Zenon
<1>5. \A m \in Names : m # n => Effect(f).alerts[m] = server.alerts[m]
  BY EffectOnAlerts
<1>6. CASE k \in {"create", "ensure"} /\ config # None
  <2>1. Effect(f).groups = Groups1(f).groups
    BY <1>1, <1>6, EffectSourced
  <2> QED
    BY <1>5, <1>6, <2>1, SourcedWell
<1>7. CASE k \in {"create", "ensure"} /\ config = None
  <2>1. k = "ensure"
    <3>1. k # None
      BY <1>7, NoneAssumption
    <3>2. RunsWell(setup, flows[f]) /\ k = Head(flows[f].todo)[1] /\ n = Head(flows[f].todo)[2]
      BY <3>1, Runs
    <3> QED
      BY <1>7, <3>2 DEF RunsWell, Rewriting, Rewrites
  <2>2. Effect(f) = server
    BY <1>7, <2>1, Zenon DEF Effect, Ensured
  <2> QED
    BY <1>1, <2>2
<1>8. CASE k \in {"wallets", "ensureWallets"}
  <2>1. PICK wallets : Effect(f) = [server EXCEPT !.groups["userWallets"] = wallets]
    BY <1>8, Zenon DEF Effect
  <2>2. /\ Effect(f).alerts = server.alerts
        /\ Effect(f).groups = [server.groups EXCEPT !["userWallets"] = wallets]
    BY <1>1, <2>1 DEF ServerState
  <2>3. \A m \in Names : Effect(f).groups[m] = server.groups[m]
    BY <1>1, <1>2, <2>2
  <2> QED
    BY <1>3, <2>2, <2>3, Zenon
<1>9. CASE k \notin {"delete", "create", "ensure", "wallets", "ensureWallets"}
  <2>1. Effect(f).alerts = server.alerts /\ Effect(f).groups = server.groups
    BY <1>1, <1>9 DEF Effect, ServerState
  <2> QED
    BY <1>3, <2>1
<1> QED
  BY <1>4, <1>6, <1>7, <1>8, <1>9

LEMMA HalfwayGroups ==
  ASSUME Typed, ConfiguredInv, NEW f \in Flows, NEW v \in Halfway(f)
  PROVE  GroupsWell(setup, v)
<1> DEFINE config == flows[f].configs[Arg(f)]
<1>1. server \in ServerState
  BY DEF Typed
<1>2. \A m \in Names : m # Arg(f) => v.alerts[m] = server.alerts[m]
  BY HalfwayAlerts
<1>3. Head1(f) \in {"create", "ensure"} /\ (Head1(f) = "ensure" => config # None)
  BY Zenon DEF Halfway
<1>4. config # None
  <2>1. Head1(f) # None
    BY <1>3, NoneAssumption
  <2>2. RunsWell(setup, flows[f]) /\ Head1(f) = Head(flows[f].todo)[1] /\ Arg(f) = Head(flows[f].todo)[2]
    BY <2>1, Runs
  <2> QED
    BY <1>3, <2>2 DEF RunsWell, Rewriting, Rewrites
<1>5. v.groups = Groups1(f).groups
  <2> DEFINE s == Groups1(f)
  <2>1. v \in {s, [s EXCEPT !.targets = flows[f].form], [s EXCEPT !.alerts[Arg(f)] = None]}
    BY <1>3, Zenon DEF Halfway, Groups1
  <2>2. s = [server EXCEPT !.groups = s.groups]
    BY <1>1, Zenon DEF Groups1, Maintained, Sourced, ServerState
  <2> HIDE DEF s
  <2>3. /\ [s EXCEPT !.targets = flows[f].form].groups = s.groups
        /\ [s EXCEPT !.alerts[Arg(f)] = None].groups = s.groups
    BY <1>1, <2>2 DEF ServerState
  <2> QED
    BY <2>1, <2>3 DEF s
<1> QED
  BY <1>2, <1>3, <1>4, <1>5, SourcedWell

\* An account has the sources it was left with.
LEMMA ConfiguredInit == Init => ConfiguredInv
<1> SUFFICES ASSUME Init PROVE ConfiguredInv
  OBVIOUS
<1>1. \A n \in Names : n \in Groups
  BY DEF Groups
<1>2. {"there"} # None
  <2>1. {"there"} \in SUBSET Sources
    BY DEF Sources
  <2> QED
    BY <2>1, NoneAssumption
<1>3. \A n \in Names : NewAccount.groups[n] = None /\ NewAccount.alerts[n] = None
  BY <1>1 DEF NewAccount, NoAlerts
<1>4. GroupsWell(setup, NewAccount)
  BY <1>3 DEF GroupsWell
<1>5. ASSUME NEW alerts, NEW email  PROVE GroupsWell(setup, Account(alerts, email))
  <2> DEFINE a == Account(alerts, email)
  <2>1. /\ a.alerts = alerts
        /\ \A n \in Names : a.groups[n] = IF alerts[n] # None THEN {"there"} ELSE None
    BY <1>1 DEF Account
  <2> HIDE DEF a
  <2>2. GroupsWell(setup, a)
    BY <1>2, <2>1 DEF GroupsWell
  <2> QED
    BY <2>2 DEF a
<1>6. GroupsWell(setup, server)
  <2>1. server = NewAccount \/ \E alerts, email : server = Account(alerts, email)
    BY Zenon DEF Init
  <2> QED
    BY <1>4, <1>5, <2>1
<1>7. \A f \in Flows : flows[f].by = None
  BY DEF Init, NoFlow
<1> QED
  BY <1>6, <1>7 DEF ConfiguredInv

LEMMA ConfiguredGoes ==
  ASSUME Typed, ConfiguredInv, NEW f \in Flows, NEW r, Goes(f, r) \/ Start(f, r),
         setup' = setup, GroupsWell(setup, server'), r.by # None => Configures(setup, r)
  PROVE  ConfiguredInv'
<1>1. flows'[f] = r /\ \A g \in Flows : g # f => flows'[g] = flows[g]
  BY OthersGo
<1>2. \A g \in Flows : flows'[g].by # None => Configures(setup', flows'[g])
  BY <1>1 DEF ConfiguredInv
<1> QED
  BY <1>2 DEF ConfiguredInv

\* The next link needs nothing more.
LEMMA ConfiguresTail ==
  ASSUME Typed, ConfiguredInv, NEW f \in Flows, Head1(f) # None,
         NEW r, r.by = flows[f].by, r.todo = Tail(flows[f].todo), r.configs = flows[f].configs,
         r.data # None => GroupsWell(setup, r.data),
         r.made => flows[f].made \/ Head1(f) \in Rewrites
  PROVE  Configures(setup, r)
<1> DEFINE s == flows[f].todo
<1>1. /\ s \in Chains /\ s # <<>> /\ flows[f].by # None /\ RunsWell(setup, flows[f])
      /\ Head1(f) = Head(s)[1]
  BY Runs
<1>2. Configures(setup, flows[f])
  BY <1>1 DEF ConfiguredInv
<1>3. \A n \in Names : In(<<"create", n>>, Tail(s)) \/ In(<<"update", n>>, Tail(s)) =>
        Filtered(setup, n, r.configs[n])
  BY <1>1, <1>2, InTail DEF Configures
<1>4. Has(Tail(s), {"try"}) => r.configs = NoConfigurations /\ ~r.made
  <2> SUFFICES ASSUME Has(Tail(s), {"try"}) PROVE r.configs = NoConfigurations /\ ~r.made
    OBVIOUS
  <2>1. Has(s, {"try"}) /\ Has(s, {"try", "ensure", "adopt"})
    BY <1>1, HasTail DEF Has
  <2>2. r.configs = NoConfigurations /\ ~flows[f].made
    BY <1>2, <2>1 DEF Configures
  <2>3. ~Has(s, {"alert"} \cup Rewrites)
    BY <1>1, <2>1 DEF RunsWell, Chained
  <2>4. Head1(f) \notin Rewrites
    BY <1>1, <2>3, HasTail
  <2> QED
    BY <2>2, <2>4
<1>5. r.by \in Subs => Signing(Tail(s))
  BY <1>1, <1>2, SigningTail DEF Configures
<1> QED
  BY <1>2, <1>3, <1>4, <1>5 DEF Configures

LEMMA SigningHead ==
  ASSUME NEW s \in Chains, s # <<>>, Head(s)[1] \in Rewrites, Signing(Tail(s))
  PROVE  Signing(s)
<1>1. Tail(s) \in Chains
  BY LinkIs
<1>2. Head(s)[1] \notin {"adopt", "ensure"} \cup Grouping
  BY DEF Rewrites, Grouping
<1>3. ~Has(s, Grouping)
  BY <1>2, HasTail DEF Signing
<1>4. \A i \in 1 .. Len(s) : s[i][1] \in {"adopt", "ensure"} =>
        i \in 2 .. Len(s) /\ i - 1 \in 1 .. Len(Tail(s)) /\ Tail(s)[i - 1] = s[i]
  BY <1>2, TailIs
<1>5. Never(s, {"adopt"}, Contacting)
  <2> SUFFICES ASSUME NEW i \in 1 .. Len(s), s[i][1] = "adopt", NEW j \in i + 1 .. Len(s)
               PROVE  s[j][1] \notin Contacting
    BY DEF Never
  <2>1. i - 1 \in 1 .. Len(Tail(s)) /\ Tail(s)[i - 1] = s[i]
    BY <1>4
  <2>2. j \in 2 .. Len(s) /\ j - 1 \in (i - 1) + 1 .. Len(Tail(s)) /\ Tail(s)[j - 1] = s[j]
    BY TailIs
  <2> QED
    BY <2>1, <2>2, Zenon DEF Signing, Never
<1>6. After(s, {"ensure"}, {"adopt"})
  <2> SUFFICES ASSUME NEW i \in 1 .. Len(s), s[i][1] = "ensure"
               PROVE  \E j \in i + 1 .. Len(s) : s[j][1] = "adopt"
    BY DEF After
  <2>1. i - 1 \in 1 .. Len(Tail(s)) /\ Tail(s)[i - 1][1] = "ensure"
    BY <1>4
  <2>2. PICK j \in (i - 1) + 1 .. Len(Tail(s)) : Tail(s)[j][1] = "adopt"
    BY <2>1 DEF Signing, After
  <2>3. j \in 1 .. Len(Tail(s)) /\ j + 1 \in i + 1 .. Len(s)
    BY <2>2, TailIs
  <2>4. s[j + 1] = Tail(s)[j]
    BY <2>3, TailIs
  <2> QED
    BY <2>2, <2>3, <2>4
<1> QED
  BY <1>3, <1>5, <1>6 DEF Signing

\* An alert is created or updated if its filter is there.
LEMMA RequestsFilter ==
  ASSUME NEW n \in Names, NEW config, NEW data, NEW q, q = Requests(n, config, data),
         \/ \E k \in {"create", "update"} : q = <<<<k, n>>>>
         \/ q = <<<<"delete", n>>>> \o <<<<"create", n>>>>
  PROVE  config # None /\ HasFilter(n, config)
<1>1. CASE q = <<>>
  <2>1. Len(q) = 0
    BY <1>1
  <2> QED
    BY <2>1
<1>2. CASE q = <<<<"delete", n>>>>
  <2>1. Len(q) = 1 /\ q[1] = <<"delete", n>>
    BY <1>2
  <2>2. q[1][1] = "delete"
    BY <2>1
  <2> QED
    BY <2>1, <2>2
<1>3. \/ config # None /\ HasFilter(n, config)
      \/ q = <<>> \/ q = <<<<"delete", n>>>>
  BY RequestsIs
<1> QED
  BY <1>1, <1>2, <1>3

LEMMA PlanConfigures ==
  ASSUME Typed, ConfiguredInv, NEW f \in Flows, Head1(f) = "alert"
  PROVE  Configures(setup, PlanFlow(f))
<1> DEFINE n == Arg(f)
           config == flows[f].configs[n]
           s == flows[f].todo
           t == Tail(s)
           q == Requests(n, config, flows[f].data)
           r == PlanFlow(f)
<1>1. /\ r \in FlowState /\ r.by = flows[f].by /\ r.by \in Subs /\ ~setup.canary
      /\ r.data = flows[f].data /\ r.configs = flows[f].configs /\ r.made = flows[f].made
      /\ RunsWell(setup, r) /\ n \in Names
      /\ t \in Chains /\ ~Has(t, Rewrites)
      /\ \/ r.todo = t /\ q = <<>>
         \/ \E k \in Rewrites :
              q = <<<<k, n>>>> /\ Head(r.todo) = <<k, n>> /\ Tail(r.todo) = t
         \/ /\ q = <<<<"delete", n>>>> \o <<<<"create", n>>>>
            /\ Head(r.todo) = <<"delete", n>> /\ Tail(r.todo) # <<>>
            /\ Head(Tail(r.todo)) = <<"create", n>> /\ Tail(Tail(r.todo)) = t
  BY PlanRuns
<1>2. flows[f].by # None /\ s \in Chains /\ s # <<>>
  BY Runs, NoneAssumption
<1>3. Configures(setup, flows[f])
  BY <1>2 DEF ConfiguredInv
<1> HIDE DEF r, s, t, q
<1>4. r.todo \in Chains /\ r.todo # <<>> /\ Tail(r.todo) \in Chains
  BY <1>1, LinkIs DEF FlowState, RunsWell, Chained
<1>5. \A m : \A k \in Rewrites : ~In(<<k, m>>, t)
  BY <1>1 DEF In, Has
<1>6. "create" \in Rewrites /\ "update" \in Rewrites /\ "delete" \in Rewrites
  BY DEF Rewrites
<1>7. Signing(t)
  <2>1. Signing(s)
    BY <1>1, <1>3 DEF Configures, s
  <2> QED
    BY <1>2, <2>1, SigningTail DEF t
<1>8. ~Has(r.todo, {"try"})
  <2>1. ~Has(r.todo, {"try", "ensure", "adopt"})
    BY <1>1 DEF RunsWell, Chained
  <2> QED
    BY <2>1 DEF Has
<1> DEFINE Found == \A m \in Names :
             In(<<"create", m>>, r.todo) \/ In(<<"update", m>>, r.todo) =>
               Filtered(setup, m, r.configs[m])
<1>9. Signing(r.todo) /\ Found
  <2>1. CASE r.todo = t
    BY <1>5, <1>6, <1>7, <2>1
  <2>2. ASSUME NEW k \in Rewrites, q = <<<<k, n>>>>, Head(r.todo) = <<k, n>>, Tail(r.todo) = t
        PROVE  Signing(r.todo) /\ Found
    <3>1. Signing(r.todo)
      <4>1. Head(r.todo)[1] \in Rewrites
        BY <2>2
      <4>2. Signing(Tail(r.todo))
        BY <1>7, <2>2, Zenon
      <4> QED
        BY <1>4, <4>1, <4>2, SigningHead
    <3>2. ASSUME NEW m \in Names, NEW j \in {"create", "update"}, In(<<j, m>>, r.todo)
          PROVE  Filtered(setup, m, r.configs[m])
      <4>1. <<j, m>> = <<k, n>>
        <5>1. ~In(<<j, m>>, Tail(r.todo))
          BY <1>5, <1>6, <2>2, <3>2, Zenon
        <5>2. Head(r.todo) = <<j, m>>
          BY <1>4, <3>2, <5>1, InTail
        <5> QED
          BY <2>2, <5>2
      <4>2. j = k /\ m = n /\ k \in {"create", "update"}
        BY <4>1
      <4>3. HasFilter(n, config)
        BY <1>1, <2>2, <4>2, RequestsFilter, Zenon DEF q
      <4> QED
        BY <1>1, <4>2, <4>3, OnHook
    <3> QED
      BY <3>1, <3>2
  <2>3. ASSUME q = <<<<"delete", n>>>> \o <<<<"create", n>>>>,
               Head(r.todo) = <<"delete", n>>, Tail(r.todo) # <<>>,
               Head(Tail(r.todo)) = <<"create", n>>, Tail(Tail(r.todo)) = t
        PROVE  Signing(r.todo) /\ Found
    <3>1. Signing(r.todo)
      <4>1. Head(Tail(r.todo))[1] \in Rewrites
        BY <1>6, <2>3
      <4>2. Signing(Tail(Tail(r.todo)))
        BY <1>7, <2>3, Zenon
      <4>3. Signing(Tail(r.todo))
        BY <1>4, <2>3, <4>1, <4>2, SigningHead, Zenon
      <4>4. Head(r.todo)[1] \in Rewrites
        BY <1>6, <2>3
      <4> QED
        BY <1>4, <4>3, <4>4, SigningHead
    <3>2. ASSUME NEW m \in Names, NEW j \in {"create", "update"}, In(<<j, m>>, r.todo)
          PROVE  Filtered(setup, m, r.configs[m])
      <4>1. <<j, m>> # <<"delete", n>>
        BY <3>2
      <4>2. <<j, m>> = <<"create", n>>
        <5>1. ~In(<<j, m>>, Tail(Tail(r.todo)))
          BY <1>5, <1>6, <2>3, <3>2, Zenon
        <5>2. In(<<j, m>>, Tail(r.todo))
          BY <1>4, <2>3, <3>2, <4>1, InTail
        <5>3. Head(Tail(r.todo)) = <<j, m>>
          BY <1>4, <2>3, <5>1, <5>2, InTail, Zenon
        <5> QED
          BY <2>3, <5>3
      <4>3. HasFilter(n, config)
        BY <1>1, <2>3, RequestsFilter, Zenon DEF q
      <4> QED
        BY <1>1, <4>2, <4>3, OnHook
    <3> QED
      BY <3>1, <3>2
  <2> QED
    BY <1>1, <2>1, <2>2, <2>3, Zenon
<1>10. Configures(setup, r)
  BY <1>1, <1>3, <1>8, <1>9, Zenon DEF Configures
<1> QED
  BY <1>10 DEF r

LEMMA TryConfigures ==
  ASSUME Typed, ConfiguredInv, NEW f \in Flows, Head1(f) = "try"
  PROVE  Configures(setup, TryFlow(f))
<1> DEFINE firstTime == flows[f].data.targets = None
           configs == IF firstTime /\ ~setup.multi THEN Defaults ELSE flows[f].configs
           s == ButtonLinks(firstTime)
           r == TryFlow(f)
<1>1. r.by = "button" /\ r.data = flows[f].data /\ r.configs = configs /\ r.todo = s
  <2>1. flows[f] \in FlowState
    BY DEF Typed
  <2> QED
    BY <2>1, TryRuns, Zenon DEF TryFlow, FlowState
<1>2. flows[f].by # None /\ Has(flows[f].todo, {"try"})
  BY Runs, HasTail, NoneAssumption
<1>3. Configures(setup, flows[f])
  BY <1>2 DEF ConfiguredInv
<1>4. \E w \in SUBSET Mine : \A n \in Names : Fits(setup, w, n, configs[n])
  BY <1>2, <1>3, DefaultsFit DEF Configures
<1>5. Signing(s) /\ ~Has(s, {"try"})
  BY ButtonSigns, Zenon
<1>6. ~Has(s, Rewrites)
  BY ButtonIs, Zenon DEF Good, Orderly
<1> HIDE DEF s, r, configs
<1>7. \A n : ~In(<<"create", n>>, s) /\ ~In(<<"update", n>>, s)
  BY <1>6 DEF In, Has, Rewrites
<1>8. Configures(setup, r)
  BY <1>1, <1>3, <1>4, <1>5, <1>7 DEF Configures
<1> QED
  BY <1>8 DEF r

\* The handlers keep to what they are configured for.
LEMMA ConfiguredNext == Typed /\ ConfiguredInv /\ [Next]_vars => ConfiguredInv'
<1> SUFFICES ASSUME Typed, ConfiguredInv, [Next]_vars PROVE ConfiguredInv'
  OBVIOUS
<1>1. server \in ServerState /\ GroupsWell(setup, server)
  BY DEF Typed, ConfiguredInv
<1>2. CASE UNCHANGED <<setup, server, flows>>
  BY <1>2 DEF ConfiguredInv
<1>3. CASE FirstView \/ Settings \/ Edit \/ Back \/ \E email \in Emails \cup {None} : Type(email)
  BY <1>2, <1>3, Zenon DEF FirstView, Settings, Edit, Back, Type, Inputs
<1>4. ASSUME NEW f \in Flows, Act(f)  PROVE ConfiguredInv'
  <2>1. PICK r : Starting(f, r)
    BY <1>4, ActStarts
  <2> QED
    BY <1>1, <2>1, ConfiguredGoes DEF Starting
<1>5. ASSUME NEW v, v.groups = server.groups,
             \A n \in Names : v.alerts[n] # None => server.alerts[n] # None
      PROVE  GroupsWell(setup, v)
  BY <1>1, <1>5 DEF GroupsWell
<1>6. ASSUME NEW f \in Flows, Goes(f, Next1(f)), Head1(f) # None, setup' = setup,
             GroupsWell(setup, server')
      PROVE  ConfiguredInv'
  <2>1. flows[f] \in FlowState /\ flows[f].by # None
    BY <1>6, Runs
  <2>2. /\ Next1(f).by = flows[f].by /\ Next1(f).todo = Tail(flows[f].todo)
        /\ Next1(f).configs = flows[f].configs /\ Next1(f).data = flows[f].data
        /\ Next1(f).made = flows[f].made
    BY <2>1 DEF Next1, FlowState
  <2>3. flows[f].data # None => GroupsWell(setup, flows[f].data)
    BY <2>1 DEF ConfiguredInv, Configures
  <2>4. Configures(setup, Next1(f))
    BY <1>6, <2>2, <2>3, ConfiguresTail
  <2> QED
    BY <1>6, <2>4, ConfiguredGoes
<1>7. ASSUME NEW f \in Flows, Goes(f, NoFlow), setup' = setup, GroupsWell(setup, server')
      PROVE  ConfiguredInv'
  BY <1>7, NoFlowIs, ConfiguredGoes
<1>8. ASSUME NEW f \in Flows, Step(f)  PROVE ConfiguredInv'
  <2>1. CASE Login(f)
    <3>1. server'.groups = server.groups /\ server'.alerts = server.alerts
      BY <1>1, <2>1 DEF Login, Writes, ServerState
    <3>2. GroupsWell(setup, server')
      BY <1>5, <3>1
    <3> QED
      BY <1>6, <2>1, <3>2, NoneAssumption DEF Login, Writes
  <2>2. CASE Read(f)
    <3>1. PICK wallets : Goes(f, [Next1(f) EXCEPT !.data = [server EXCEPT !.wallets = wallets]])
      BY <2>2, Zenon DEF Read
    <3> DEFINE data == [server EXCEPT !.wallets = wallets]
               r == [Next1(f) EXCEPT !.data = data]
    <3>2. data.groups = server.groups /\ data.alerts = server.alerts
      BY <1>1 DEF ServerState
    <3> HIDE DEF data
    <3>3. GroupsWell(setup, data)
      BY <1>5, <3>2
    <3>4. flows[f] \in FlowState
      BY DEF Typed
    <3>5. /\ r.by = flows[f].by /\ r.todo = Tail(flows[f].todo) /\ r.data = data
          /\ r.configs = flows[f].configs /\ r.made = flows[f].made
      BY <3>4 DEF Next1, FlowState
    <3> HIDE DEF r
    <3>6. Head1(f) # None
      BY <2>2, NoneAssumption DEF Read
    <3>7. Configures(setup, r)
      BY <3>3, <3>5, <3>6, ConfiguresTail
    <3>8. Goes(f, r) /\ setup' = setup /\ server' = server
      BY <2>2, <3>1 DEF Read, r, data
    <3> QED
      BY <1>1, <3>7, <3>8, ConfiguredGoes
  <2>3. CASE Render(f) \/ Show(f)
    <3>1. Head1(f) # None /\ Goes(f, Ends(f)) /\ setup' = setup /\ server' = server
      BY <2>3, NoneAssumption DEF Render, Show
    <3> QED
      BY <1>1, <1>6, <1>7, <3>1 DEF Ends
  <2>4. CASE Local(f)
    <3>1. CASE Head1(f) = "try"
      <4>1. Goes(f, TryFlow(f)) /\ setup' = setup /\ server' = server
        BY <2>4, <3>1 DEF Local, TryFlow
      <4> QED
        BY <1>1, <3>1, <4>1, TryConfigures, ConfiguredGoes
    <3>2. CASE Head1(f) = "idle"
      BY <1>1, <1>6, <2>4, <3>2, NoneAssumption DEF Local
    <3> QED
      BY <2>4, <3>1, <3>2 DEF Local
  <2>5. CASE Plan(f)
    <3>1. Head1(f) = "alert" /\ Goes(f, PlanFlow(f)) /\ setup' = setup /\ server' = server
      BY <2>5 DEF Plan, PlanFlow
    <3> QED
      BY <1>1, <3>1, PlanConfigures, ConfiguredGoes
  <2>6. CASE Request(f)
    <3> DEFINE r == [Next1(f) EXCEPT !.made = @ \/ Head1(f) \in {"create", "update"}]
    <3>1. /\ Requesting(f) /\ Goes(f, r) /\ setup' = setup /\ server' = Effect(f)
      BY <2>6 DEF Request, Writes
    <3>2. flows[f] \in FlowState /\ Head1(f) # None
      BY <3>1, NoneAssumption DEF Typed, Requesting
    <3>3. /\ r.by = flows[f].by /\ r.todo = Tail(flows[f].todo) /\ r.data = flows[f].data
          /\ r.configs = flows[f].configs
          /\ r.made = (flows[f].made \/ Head1(f) \in {"create", "update"})
      BY <3>2 DEF Next1, FlowState
    <3> HIDE DEF r
    <3>4. flows[f].by # None
      BY <3>2, Runs
    <3>5. r.data # None => GroupsWell(setup, r.data)
      BY <3>3, <3>4 DEF ConfiguredInv, Configures
    <3>6. Configures(setup, r)
      BY <3>2, <3>3, <3>5, ConfiguresTail, Zenon DEF Rewrites
    <3>7. GroupsWell(setup, server')
      BY <3>1, EffectGroups
    <3> QED
      BY <3>1, <3>6, <3>7, ConfiguredGoes
  <2>7. CASE Conflict(f)
    BY <1>1, <1>7, <2>7 DEF Conflict
  <2>8. CASE Fail(f)
    <3>1. GroupsWell(setup, server')
      <4>1. CASE server' = server
        BY <1>1, <4>1
      <4>2. CASE Requesting(f) /\ server' = Effect(f)
        BY <4>2, EffectGroups
      <4>3. CASE server' \in Halfway(f)
        BY <4>3, HalfwayGroups
      <4> QED
        BY <2>8, <4>1, <4>2, <4>3, Zenon DEF Fail
    <3>2. CASE Head1(f) = "ensure"
      BY <1>6, <2>8, <3>1, <3>2, NoneAssumption DEF Fail
    <3>3. CASE Head1(f) # "ensure"
      BY <1>7, <2>8, <3>1, <3>3 DEF Fail
    <3> QED
      BY <3>2, <3>3
  <2> QED
    BY <1>8, <2>1, <2>2, <2>3, <2>4, <2>5, <2>6, <2>7, <2>8 DEF Step
<1>9. CASE UNCHANGED vars
  BY <1>2, <1>9 DEF vars
<1> QED
  BY <1>3, <1>4, <1>8, <1>9 DEF Next

-----------------------------------------------------------------------------
(* A handler that runs alone, with no failure: what it does to the service,  *)
(* first fetches beside it or not, and, with nothing beside it, what the     *)
(* card shows. u, v, c and x stand for the setup, what the service has, the  *)
(* card, and whether a fetch was answered with earlier wallets; r is the     *)
(* handler that runs.                                                        *)

\* GroupOf, SourcesOf and HasFilter.
GroupIn(u, n, config) == IF u.canary \/ config.group = None THEN n ELSE config.group
Attached(u, v, n, config) ==
  IF u.canary /\ u.events[n] = "walletBalance" THEN v.wallets ELSE config.sources
Offered(u, v, n, config) ==
  /\ Attached(u, v, n, config) # {} /\ n \in u.offered
  /\ u.canary => u.events[n] \notin FrontendOptIn

Wanted(u, v, configs, n) == configs[n] # None /\ Offered(u, v, n, configs[n])

\* The alert is there, with its options and on its sources.
Stands(u, v, n, config) ==
  LET group == v.groups[GroupIn(u, n, config)] IN
  /\ v.alerts[n] = Stored(config.options)
  /\ group = Attached(u, v, n, config) \/ (group = {"there"} /\ ~config.multiple /\ ~u.canary)

\* The alert is still to be seen to.
Seeing == {"alert", "ensure", "create", "update"}
Pending(s, n) == Has(s, {"try"}) \/ \E k \in Seeing : In(<<k, n>>, s)

Shows(c, v) == c.alerts = v.alerts /\ c.email = v.targets
Agrees(data, v) == data.alerts = v.alerts /\ data.targets = v.targets

\* The contacts are those of the form once the chain has no link to set them.
Contacted(v, r) ==
  /\ Head(r.todo)[1] = "adopt" => r.data.targets = v.targets
  /\ r.made => v.targets = r.form
  /\ r.by \in Subs /\ ~Has(r.todo, Contacting) => v.targets = r.form

\* A wanted alert is still to be seen to, or stands - or there were no contacts
\* to ensure it for, and nothing is adopted then. What is to be decided by the
\* data that was fetched is as it was then, if it is not what is wanted.
Settles(u, v, r, n) ==
  LET config == r.configs[n] IN
  /\ \/ Pending(r.todo, n) \/ Stands(u, v, n, config)
     \/ u.canary /\ r.form = None /\ Has(r.todo, {"adopt"})
  /\ In(<<"alert", n>>, r.todo) /\ r.data # None =>
       \/ r.data.alerts[n] = v.alerts[n] \/ v.alerts[n] = Stored(config.options)
       \/ In(<<"create", n>>, r.todo)
  /\ In(<<"update", n>>, r.todo) => Stands(u, v, n, config)
Subscribed(u, v, r) ==
  r.by \in Subs => \A n \in Names : Wanted(u, v, r.configs, n) => Settles(u, v, r, n)

\* The wallets are the sources of their group.
Grouped(v, x, r) ==
  /\ Head(r.todo)[1] = "wallets" => x \/ r.data.wallets = v.wallets
  /\ r.by \in Verifying /\ ~Has(r.todo, Grouping) => x \/ v.groups["userWallets"] = v.wallets

Promise(u, v, x, r) == Contacted(v, r) /\ Subscribed(u, v, r) /\ Grouped(v, x, r)

\* What the handler d that has ended has achieved.
Result(u, v, x, d) ==
  /\ d.by \in Subs =>
       /\ v.targets = d.form
       /\ \A n \in Names : Wanted(u, v, d.configs, n) => Stands(u, v, n, d.configs[n])
  /\ d.by \in Verifying /\ ~x => v.groups["userWallets"] = v.wallets

Handles(r) == r.by \notin {None, "fetchOnce"}

ServeInv ==
  ~overlap /\ failures = 0 =>
    /\ \A f, g \in Flows : Handles(flows[f]) /\ Handles(flows[g]) => f = g
    /\ \A f \in Flows : Handles(flows[f]) => Promise(setup, server, cached, flows[f])
    /\ done # None =>
         (\A f \in Flows : ~Handles(flows[f])) /\ Result(setup, server, cached, done)

\* The card shows what the service has once nothing more is fetched and rendered.
Showing(u, v, c, r) ==
  /\ Fetches(u, r.by) /\ ~Has(r.todo, {"read", "try"}) =>
       IF Has(r.todo, {"render"}) THEN Agrees(r.data, v) ELSE Shows(c, v)
  /\ r.by \in {"fetchOnce", "wallet", "verify"} /\ r.data # None => Agrees(r.data, v)
  /\ r.by = "verify" => Shows(c, v)

\* After the handler d.
Seen(u, v, c, d) == ~(u.canary /\ d.by \in {"verifyonboarding", "expired"}) => Shows(c, v)

\* Who may run while the view to verify wallets is shown.
Watching == {"fetchOnce", "wallet", "verify"}

ShowInv ==
  ~beside /\ failures = 0 =>
    /\ \A f, g \in Flows : flows[f].by # None /\ flows[g].by # None => f = g
    /\ \A f \in Flows : flows[f].by # None => Showing(setup, server, card, flows[f])
    /\ done # None =>
         (\A f \in Flows : ~Handles(flows[f])) /\ Seen(setup, server, card, done)
    /\ card.view = "verify" =>
         Shows(card, server) /\ \A f \in Flows : flows[f].by # None => flows[f].by \in Watching

LEMMA InSetup ==
  ASSUME NEW n, NEW config
  PROVE  /\ GroupOf(n, config) = GroupIn(setup, n, config)
         /\ SourcesOf(n, config) = Attached(setup, server, n, config)
         /\ HasFilter(n, config) <=> Offered(setup, server, n, config)
BY DEF GroupOf, GroupIn, SourcesOf, Attached, HasFilter, Offered

\* With the hook, what is wanted does not depend on the wallets.
LEMMA WantedSame ==
  ASSUME NEW v, NEW v1, v1.wallets = v.wallets \/ ~setup.canary
  PROVE  /\ \A n, config : Attached(setup, v1, n, config) = Attached(setup, v, n, config)
         /\ \A n, config : Offered(setup, v1, n, config) <=> Offered(setup, v, n, config)
         /\ \A n, configs : Wanted(setup, v1, configs, n) <=> Wanted(setup, v, configs, n)
BY DEF Attached, Offered, Wanted

LEMMA OfferedIsFiltered ==
  ASSUME ~setup.canary, NEW v, NEW n, NEW config
  PROVE  /\ Offered(setup, v, n, config) <=> Filtered(setup, n, config)
         /\ Attached(setup, v, n, config) = config.sources
BY DEF Offered, Attached, Filtered

\* A chain, and what is left of it after the next link.
LEMMA Ahead ==
  ASSUME Typed, NEW f \in Flows, Head1(f) # None
  PROVE  LET s == flows[f].todo IN
         /\ \A K : Has(s, K) <=> Head1(f) \in K \/ Has(Tail(s), K)
         /\ \A link : In(link, s) <=> Head(s) = link \/ In(link, Tail(s))
         /\ Tail(s) # <<>> /\ Head(Tail(s))[1] \in {"adopt", "wallets"} => Head1(f) = "read"
         /\ Head(s) = <<Head1(f), Arg(f)>>
<1> DEFINE s == flows[f].todo
<1>1. /\ s \in Chains /\ s # <<>> /\ RunsWell(setup, flows[f])
      /\ Head1(f) = Head(s)[1] /\ Arg(f) = Head(s)[2]
  BY Runs
<1>2. ASSUME NEW K  PROVE Has(s, K) <=> Head1(f) \in K \/ Has(Tail(s), K)
  BY <1>1, HasTail
<1>3. ASSUME NEW link  PROVE In(link, s) <=> Head(s) = link \/ In(link, Tail(s))
  BY <1>1, InTail
<1>4. Tail(s) # <<>> /\ Head(Tail(s))[1] \in {"adopt", "wallets"} => Head1(f) = "read"
  BY <1>1, DirectlyTail, Zenon DEF RunsWell, Chained
<1>5. Head(s) = <<Head1(f), Arg(f)>>
  BY <1>1, LinkIs
<1> HIDE DEF s
<1> QED
  BY <1>2, <1>3, <1>4, <1>5 DEF s

\* A handler that starts, or enters its try.
LEMMA PromiseStarts ==
  ASSUME NEW u, NEW v, NEW x, NEW r,
         r.todo \in Chains, r.todo # <<>>, Good(r.todo), ~r.made,
         r.data = None \/ (r.by = "button" /\ ~Has(r.todo, {"alert"})),
         r.by \in Verifying => Has(r.todo, Grouping),
         r.by \in Subs =>
           /\ Has(r.todo, Contacting)
           /\ \A n \in Names : r.configs[n] # None =>
                Has(r.todo, {"try"}) \/ In(<<"alert", n>>, r.todo) \/ In(<<"ensure", n>>, r.todo)
  PROVE  Promise(u, v, x, r)
<1>1. Head(r.todo)[1] \notin {"adopt", "wallets"}
  <2>1. Head(r.todo)[1] \notin UsesData
    BY BeforeTail DEF Good, Fetched
  <2> QED
    BY <2>1 DEF UsesData
<1>2. \A n : ~In(<<"update", n>>, r.todo)
  BY DEF Good, Orderly, In, Has, Rewrites
<1>3. Contacted(v, r)
  BY <1>1 DEF Contacted
<1>4. Subscribed(u, v, r)
  <2> SUFFICES ASSUME r.by \in Subs, NEW n \in Names, Wanted(u, v, r.configs, n)
               PROVE  Settles(u, v, r, n)
    BY DEF Subscribed
  <2>1. Pending(r.todo, n)
    BY DEF Pending, Seeing, Wanted
  <2>2. ~(In(<<"alert", n>>, r.todo) /\ r.data # None)
    BY DEF In, Has
  <2> QED
    BY <1>2, <2>1, <2>2 DEF Settles
<1>5. Grouped(v, x, r)
  BY <1>1 DEF Grouped
<1> QED
  BY <1>3, <1>4, <1>5 DEF Promise

LEMMA ShowingStarts ==
  ASSUME NEW u, NEW v, NEW c, NEW r, r.data = None \/ r.by = "button",
         Fetches(u, r.by) => Has(r.todo, {"read", "try"}),
         r.by = "verify" => Shows(c, v)
  PROVE  Showing(u, v, c, r)
BY DEF Showing

\* The contacts, after a link.
LEMMA ContactedTail ==
  ASSUME Typed, NEW f \in Flows, Head1(f) # None, Head1(f) # "try", Tail(flows[f].todo) # <<>>,
         NEW r, r.by = flows[f].by, r.todo = Tail(flows[f].todo), r.form = flows[f].form,
         NEW v, Contacted(server, flows[f]),
         Head1(f) = "read" => r.data.targets = v.targets,
         Head1(f) \in Contacting => v.targets = r.form,
         v.targets \in {server.targets, r.form},
         r.made => flows[f].made \/ v.targets = r.form
  PROVE  Contacted(v, r)
<1>1. Head(r.todo)[1] = "adopt" => r.data.targets = v.targets
  BY Ahead, Zenon
<1>2. r.made => v.targets = r.form
  BY DEF Contacted
<1>3. r.by \in Subs /\ ~Has(r.todo, Contacting) => v.targets = r.form
  <2> SUFFICES ASSUME r.by \in Subs, ~Has(r.todo, Contacting), Head1(f) \notin Contacting
               PROVE  v.targets = r.form
    OBVIOUS
  <2>1. ~Has(flows[f].todo, Contacting)
    BY Ahead
  <2> QED
    BY <2>1 DEF Contacted
<1> QED
  BY <1>1, <1>2, <1>3 DEF Contacted

\* The sources of the wallets, after a link.
LEMMA GroupedTail ==
  ASSUME Typed, NEW f \in Flows, Head1(f) # None, Tail(flows[f].todo) # <<>>,
         NEW r, r.by = flows[f].by, r.todo = Tail(flows[f].todo),
         NEW v, NEW x, Grouped(server, cached, flows[f]), cached => x,
         Head1(f) = "read" => x \/ r.data.wallets = v.wallets,
         Head1(f) = "wallets" =>
           v.groups["userWallets"] = flows[f].data.wallets /\ v.wallets = server.wallets,
         Head1(f) = "ensureWallets" => v.groups["userWallets"] = v.wallets,
         Head1(f) \notin Grouping \cup Joining \cup Writers =>
           v.groups = server.groups /\ v.wallets = server.wallets
  PROVE  Grouped(v, x, r)
<1>1. Head(r.todo)[1] = "wallets" => x \/ r.data.wallets = v.wallets
  BY Ahead
<1>2. ASSUME r.by \in Verifying, ~Has(r.todo, Grouping)
      PROVE  x \/ v.groups["userWallets"] = v.wallets
  <2>1. /\ flows[f].todo \in Chains /\ flows[f].todo # <<>> /\ RunsWell(setup, flows[f])
        /\ Head1(f) = Head(flows[f].todo)[1]
    BY Runs
  <2>2. Head1(f) \notin Joining
    BY <1>2, <2>1, AfterTail DEF RunsWell, Chained
  <2>3. Head1(f) \notin Writers
    <3>1. ~Has(flows[f].todo, Writers \cup {"try"})
      BY <1>2, <2>1 DEF RunsWell, Chained, Verifying, Subs
    <3> QED
      BY <3>1, Ahead, Zenon
  <2>4. CASE Head1(f) = "wallets"
    <3>1. cached \/ flows[f].data.wallets = server.wallets
      BY <2>1, <2>4 DEF Grouped
    <3> QED
      BY <2>4, <3>1
  <2>5. CASE Head1(f) = "ensureWallets"
    BY <2>5
  <2>6. CASE Head1(f) \notin Grouping
    <3>1. ~Has(flows[f].todo, Grouping)
      BY <1>2, <2>6, Ahead
    <3>2. cached \/ server.groups["userWallets"] = server.wallets
      BY <1>2, <3>1 DEF Grouped
    <3> QED
      BY <2>2, <2>3, <2>6, <3>2
  <2> QED
    BY <2>4, <2>5, <2>6 DEF Grouping
<1> QED
  BY <1>1, <1>2, Zenon DEF Grouped

\* What the card shows, after a link.
LEMMA ShowingTail ==
  ASSUME Typed, NEW f \in Flows, Head1(f) # None, Head1(f) # "try",
         NEW r, r.by = flows[f].by, r.todo = Tail(flows[f].todo),
         NEW v, NEW c, Showing(setup, server, card, flows[f]),
         Head1(f) = "read" => r.data.alerts = v.alerts /\ r.data.targets = v.targets,
         Head1(f) # "read" => r.data = flows[f].data,
         Head1(f) \notin Writers => v.alerts = server.alerts /\ v.targets = server.targets,
         IF Head1(f) = "render"
         THEN c.alerts = flows[f].data.alerts /\ c.email = flows[f].data.targets
         ELSE c.alerts = card.alerts /\ c.email = card.email
  PROVE  Showing(setup, v, c, r)
<1> DEFINE s == flows[f].todo
<1>1. /\ s \in Chains /\ s # <<>> /\ RunsWell(setup, flows[f]) /\ Head1(f) = Head(s)[1]
  BY Runs
<1>2. ASSUME NEW K  PROVE Has(s, K) <=> Head1(f) \in K \/ Has(Tail(s), K)
  BY Ahead
<1>3. CASE Head1(f) \in Writers
  <2>1. r.by \in Subs
    <3>1. Has(s, Writers \cup {"try"})
      BY <1>2, <1>3
    <3> QED
      BY <1>1, <3>1 DEF RunsWell, Chained
  <2>2. r.by \notin {"fetchOnce", "wallet", "verify"}
    BY <2>1 DEF Subs
  <2>3. Fetches(setup, r.by) => Has(r.todo, {"read", "try"})
    BY <1>1, <1>3, AfterTail DEF RunsWell, Chained, Refreshes
  <2> QED
    BY <2>2, <2>3 DEF Showing
<1>4. CASE Head1(f) = "read"
  <2>0. Head1(f) \notin Writers
    BY <1>4 DEF Writers
  <2>1. Agrees(r.data, v) /\ (Shows(card, server) => Shows(c, v))
    BY <1>4, <2>0 DEF Agrees, Shows
  <2>2. Fetches(setup, r.by) => Has(r.todo, {"render", "try"})
    BY <1>1, <1>4, AfterTail DEF RunsWell, Chained, Refreshes
  <2>3. Fetches(setup, r.by) /\ ~Has(r.todo, {"read", "try"}) => Has(r.todo, {"render"})
    BY <2>2 DEF Has
  <2> QED
    BY <2>1, <2>3 DEF Showing
<1>5. CASE Head1(f) = "render"
  <2>0. Head1(f) \notin Writers
    BY <1>5 DEF Writers
  <2>1. /\ Agrees(flows[f].data, server) => Agrees(r.data, v) /\ Shows(c, v)
    BY <1>5, <2>0 DEF Agrees, Shows
  <2>2. flows[f].data # None
    BY <1>5, FetchedData, NoneAssumption DEF UsesData
  <2>3. ~Has(r.todo, {"read", "try"}) => ~Has(s, {"read", "try"})
    BY <1>2, <1>5
  <2>4. Has(s, {"render"})
    BY <1>2, <1>5
  <2> HIDE DEF s
  <2> QED
    BY <1>5, <2>1, <2>2, <2>3, <2>4 DEF Showing, s
<1>6. CASE Head1(f) \notin Writers \cup {"read", "render"}
  <2>1. /\ Agrees(flows[f].data, server) => Agrees(r.data, v)
        /\ Shows(card, server) => Shows(c, v)
    BY <1>6 DEF Agrees, Shows
  <2>2. /\ Has(s, {"read", "try"}) <=> Has(r.todo, {"read", "try"})
        /\ Has(s, {"render"}) <=> Has(r.todo, {"render"})
    BY <1>2, <1>6
  <2> HIDE DEF s
  <2> QED
    BY <1>6, <2>1, <2>2 DEF Showing, s
<1> QED
  BY <1>3, <1>4, <1>5, <1>6

\* The alert m was written, to the sources given.
Written(u, v, v1, m, config, options, sources) ==
  /\ v1.alerts = [v.alerts EXCEPT ![m] = options]
  /\ v1.groups = [v.groups EXCEPT ![GroupIn(u, m, config)] = sources]
  /\ v1.wallets = v.wallets
  /\ config.maintain \/ sources = Attached(u, v, m, config)

\* The alert n is as it was, and stands if it did.
StillStands(u, v, v1, n, config) ==
  /\ v1.alerts[n] = v.alerts[n]
  /\ config # None /\ Offered(u, v, n, config) /\ Stands(u, v, n, config) =>
       Stands(u, v1, n, config)

\* Another alert stands as it did: the two share a group if both watch the
\* wallets through the hook, and then they have the same sources.
LEMMA OthersStand ==
  ASSUME Typed, NEW f \in Flows, Configures(setup, flows[f]),
         NEW m \in Names, NEW config, config = flows[f].configs[m], config # None,
         Filtered(setup, m, config) \/ setup.canary,
         NEW v, NEW options, NEW sources, Written(setup, server, v, m, config, options, sources),
         NEW n \in Names \ {m}
  PROVE  StillStands(setup, server, v, n, flows[f].configs[n])
<1> DEFINE b == flows[f].configs[n]
<1>1. setup \in SetupState
  BY DEF Typed
<1>2. /\ server.groups \in [Groups -> (SUBSET Sources) \cup {None}]
      /\ server.alerts \in [Names -> Options \cup {None}]
  BY DEF Typed, ServerState
<1>3. PICK w \in SUBSET Mine : \A i \in Names : Fits(setup, w, i, flows[f].configs[i])
  BY DEF Configures
<1>4. v.alerts[n] = server.alerts[n] /\ n \in Names /\ n # m /\ v.wallets = server.wallets
  BY <1>2 DEF Written
<1>5. ASSUME NEW i \in Names, NEW d, d # None, Fits(setup, w, i, d),
             Filtered(setup, i, d) \/ setup.canary
      PROVE  /\ setup.events[i] = "walletBalance" =>
                  GroupIn(setup, i, d) = (IF setup.canary THEN i ELSE "userWallets")
                  /\ d.sources = w /\ ~d.maintain
             /\ setup.events[i] # "walletBalance" => GroupIn(setup, i, d) = i
  <2>1. GroupOf(i, d) = GroupIn(setup, i, d)
    BY InSetup
  <2>2. i \in Names /\ w \in SUBSET Mine
    BY <1>3
  <2>3. /\ setup.events[i] = "walletBalance" =>
             GroupOf(i, d) = (IF setup.canary THEN i ELSE "userWallets")
             /\ d.sources = w /\ ~d.maintain
        /\ setup.events[i] # "walletBalance" => GroupOf(i, d) = i
    <3>1. Tailored(i, w, d)
      BY <1>1, <1>5, <2>2, FitsRow, Zenon
    <3> QED
      BY <3>1 DEF Tailored
  <2> QED
    BY <2>1, <2>3
<1>6. Fits(setup, w, m, config) /\ Fits(setup, w, n, b)
  BY <1>3
<1>7. "userWallets" \notin Names /\ \A i \in Names : i \in Groups
  BY CardSubscribeAssumption DEF Groups
<1>8. ASSUME b # None, Offered(setup, server, n, b), Stands(setup, server, n, b)
      PROVE  Stands(setup, v, n, b)
  <2> DEFINE g == GroupIn(setup, m, config)
             h == GroupIn(setup, n, b)
  <2>1. /\ setup.events[m] = "walletBalance" =>
             g = (IF setup.canary THEN m ELSE "userWallets")
             /\ config.sources = w /\ ~config.maintain
        /\ setup.events[m] # "walletBalance" => g = m
    BY <1>5, <1>6
  <2>2. /\ setup.events[n] = "walletBalance" =>
             h = (IF setup.canary THEN n ELSE "userWallets") /\ b.sources = w
        /\ setup.events[n] # "walletBalance" => h = n
    <3>1. Filtered(setup, n, b) \/ setup.canary
      BY <1>8, OfferedIsFiltered
    <3> HIDE DEF b, h
    <3> QED
      BY <1>4, <1>5, <1>6, <1>8, <3>1 DEF h
  <2>3. h \in Groups
    BY <1>4, <1>7, <2>2 DEF Groups
  <2>4. Attached(setup, v, n, b) = Attached(setup, server, n, b)
    BY <1>4, WantedSame
  <2>5. v.groups = [server.groups EXCEPT ![g] = sources]
    BY DEF Written
  <2>6. config.maintain \/ sources = Attached(setup, server, m, config)
    BY DEF Written
  <2> HIDE DEF b, g, h
  <2>7. CASE h = g
    <3>1. setup.events[m] = "walletBalance" /\ setup.events[n] = "walletBalance" /\ ~setup.canary
      BY <1>4, <1>7, <2>1, <2>2, <2>7
    <3>2. sources = w /\ Attached(setup, server, n, b) = w
      BY <2>1, <2>2, <2>6, <3>1, OfferedIsFiltered
    <3>3. v.groups[h] = Attached(setup, v, n, b)
      BY <1>2, <2>3, <2>4, <2>5, <2>7, <3>2
    <3> QED
      BY <1>4, <1>8, <3>3 DEF Stands, h
  <2>8. CASE h # g
    <3>1. v.groups[h] = server.groups[h]
      BY <1>2, <2>3, <2>5, <2>8
    <3> QED
      BY <1>4, <1>8, <2>4, <3>1 DEF Stands, h
  <2> QED
    BY <2>7, <2>8
<1> QED
  BY <1>4, <1>8 DEF StillStands

\* An alert that is not the one of the link.
LEMMA SettlesElsewhere ==
  ASSUME Typed, NEW f \in Flows, Head1(f) # None, Head1(f) # "try", Head1(f) # "adopt",
         NEW r, r.todo = Tail(flows[f].todo), r.form = flows[f].form,
         r.configs = flows[f].configs, NEW n \in Names,
         NEW v, v.alerts[n] = server.alerts[n],
         Stands(setup, server, n, r.configs[n]) => Stands(setup, v, n, r.configs[n]),
         Head1(f) \in OfName => n # Arg(f),
         Head1(f) = "read" => r.data.alerts[n] = v.alerts[n],
         Head1(f) # "read" => r.data = flows[f].data,
         Settles(setup, server, flows[f], n)
  PROVE  Settles(setup, v, r, n)
<1> DEFINE s == flows[f].todo
<1>1. ASSUME NEW k \in Seeing \cup {"update"}  PROVE In(<<k, n>>, s) <=> In(<<k, n>>, r.todo)
  <2>1. Head(s) # <<k, n>>
    <3>1. Head(s) = <<Head1(f), Arg(f)>>
      BY Ahead
    <3>2. k \in OfName
      BY DEF Seeing, OfName
    <3> QED
      BY <3>1, <3>2
  <2> QED
    BY <2>1, Ahead
<1>2. Has(s, {"try"}) <=> Has(r.todo, {"try"})
  BY Ahead, Zenon
<1>3. Has(s, {"adopt"}) <=> Has(r.todo, {"adopt"})
  BY Ahead, Zenon
<1>4. Pending(s, n) => Pending(r.todo, n)
  BY <1>1, <1>2 DEF Pending
<1>5. /\ In(<<"alert", n>>, s) <=> In(<<"alert", n>>, r.todo)
      /\ In(<<"create", n>>, s) <=> In(<<"create", n>>, r.todo)
      /\ In(<<"update", n>>, s) <=> In(<<"update", n>>, r.todo)
  BY <1>1 DEF Seeing
<1> HIDE DEF s
<1>6. \/ Pending(r.todo, n) \/ Stands(setup, v, n, r.configs[n])
      \/ setup.canary /\ r.form = None /\ Has(r.todo, {"adopt"})
  BY <1>3, <1>4 DEF Settles, s
<1>7. In(<<"alert", n>>, r.todo) /\ r.data # None =>
       \/ r.data.alerts[n] = v.alerts[n] \/ v.alerts[n] = Stored(r.configs[n].options)
       \/ In(<<"create", n>>, r.todo)
  BY <1>5 DEF Settles, s
<1>8. In(<<"update", n>>, r.todo) => Stands(setup, v, n, r.configs[n])
  BY <1>5 DEF Settles, s
<1> QED
  BY <1>6, <1>7, <1>8 DEF Settles

\* A link that is of no alert leaves them where they were. To log in adds a
\* wallet: what is wanted with it is decided in the try that follows.
LEMMA SubscribedTail ==
  ASSUME Typed, NEW f \in Flows, Head1(f) # None, Head1(f) # "try",
         Head1(f) \notin OfName \cup {"adopt"},
         NEW r, r.by = flows[f].by, r.todo = Tail(flows[f].todo), r.form = flows[f].form,
         r.configs = flows[f].configs,
         NEW v, r.by \in Subs =>
           /\ v.alerts = server.alerts /\ v.groups = server.groups
           /\ Head1(f) \in Joining \/ v.wallets = server.wallets,
         Head1(f) = "read" => r.data.alerts = v.alerts,
         Head1(f) # "read" => r.data = flows[f].data,
         Subscribed(setup, server, flows[f])
  PROVE  Subscribed(setup, v, r)
<1> SUFFICES ASSUME r.by \in Subs, NEW n \in Names, Wanted(setup, v, r.configs, n)
             PROVE  Settles(setup, v, r, n)
  BY DEF Subscribed
<1>1. CASE v.wallets = server.wallets \/ ~setup.canary
  <2>1. Wanted(setup, server, r.configs, n)
        /\ Attached(setup, v, n, r.configs[n]) = Attached(setup, server, n, r.configs[n])
    <3>1. \A m, d : Attached(setup, v, m, d) = Attached(setup, server, m, d)
      BY <1>1, WantedSame
    <3>2. \A m, d : Wanted(setup, v, d, m) <=> Wanted(setup, server, d, m)
      BY <1>1, WantedSame
    <3> QED
      BY <3>1, <3>2
  <2>2. Stands(setup, server, n, r.configs[n]) => Stands(setup, v, n, r.configs[n])
    BY <2>1 DEF Stands
  <2>3. Settles(setup, server, flows[f], n)
    BY <2>1 DEF Subscribed
  <2> QED
    BY <2>2, <2>3, SettlesElsewhere
<1>2. CASE setup.canary /\ Head1(f) \in Joining
  <2> DEFINE s == flows[f].todo
  <2>1. /\ s \in Chains /\ s # <<>> /\ RunsWell(setup, flows[f]) /\ Head1(f) = Head(s)[1]
    BY Runs
  <2>2. Has(Tail(s), {"try"})
    BY <1>2, <2>1, AfterTail DEF RunsWell, Chained
  <2>3. ~Has(Tail(s), {"alert"} \cup Rewrites)
    BY <1>2, <2>1, HasTail DEF RunsWell, Chained
  <2>4. ~In(<<"alert", n>>, Tail(s)) /\ ~In(<<"update", n>>, Tail(s))
    BY <2>3 DEF In, Has, Rewrites
  <2> HIDE DEF s
  <2> QED
    BY <2>2, <2>4 DEF Settles, Pending, s
<1> QED
  BY <1>1, <1>2

\* What was fetched is adopted: there are contacts, those of the form, and so the
\* alerts were ensured.
LEMMA SubscribedAdopt ==
  ASSUME Typed, NEW f \in Flows, Head1(f) = "adopt", ConfiguredInv,
         flows[f].data.targets # None,
         NEW r, r.by = flows[f].by, r.todo = Tail(flows[f].todo), r.data = flows[f].data,
         r.configs = flows[f].configs,
         Contacted(server, flows[f]), Subscribed(setup, server, flows[f])
  PROVE  Subscribed(setup, server, r)
<1> DEFINE s == flows[f].todo
<1> SUFFICES ASSUME r.by \in Subs, NEW n \in Names, Wanted(setup, server, r.configs, n)
             PROVE  Settles(setup, server, r, n)
  BY DEF Subscribed
<1>1. Head1(f) # None
  BY NoneAssumption
<1>2. /\ s \in Chains /\ s # <<>> /\ flows[f].by # None /\ RunsWell(setup, flows[f])
      /\ Head1(f) = Head(s)[1]
  BY <1>1, Runs
<1>3. Signing(s)
  BY <1>2 DEF ConfiguredInv, Configures
<1>4. ~Has(s, Contacting)
  <2>1. ~Has(Tail(s), Contacting)
    BY <1>2, <1>3, NeverTail DEF Signing
  <2> QED
    BY <1>1, <2>1, Ahead, Zenon DEF Contacting
<1>5. flows[f].form # None
  BY <1>2, <1>4 DEF Contacted
<1>6. Settles(setup, server, flows[f], n)
  BY DEF Subscribed
<1>7. setup.canary
  <2>1. Has(s, {"try", "ensure", "adopt"})
    BY <1>1, Ahead
  <2> QED
    BY <1>2, <2>1 DEF RunsWell, Chained
<1>8. ~Has(s, {"alert"} \cup Rewrites)
  BY <1>2, <1>7 DEF RunsWell, Chained
<1>9. ~Has(Tail(s), {"alert"} \cup Rewrites)
  BY <1>1, <1>8, Ahead
<1>10. ~In(<<"alert", n>>, Tail(s)) /\ ~In(<<"update", n>>, Tail(s))
  BY <1>9 DEF In, Has, Rewrites
<1>11. Pending(s, n) => Pending(Tail(s), n)
  <2>1. Has(s, {"try"}) => Has(Tail(s), {"try"})
    BY <1>1, Ahead
  <2>2. ASSUME NEW k \in Seeing, In(<<k, n>>, s)  PROVE In(<<k, n>>, Tail(s))
    <3>1. Head(s) # <<k, n>>
      <4>1. Head(s)[1] = "adopt" /\ k # "adopt"
        BY <1>2 DEF Seeing
      <4> QED
        BY <4>1
    <3> QED
      BY <1>1, <2>2, <3>1, Ahead
  <2> QED
    BY <2>1, <2>2 DEF Pending
<1> HIDE DEF s
<1> QED
  BY <1>5, <1>6, <1>10, <1>11 DEF Settles, s

\* What is known of a link for an alert, of a handler that signs the user up.
LEMMA AlertLink ==
  ASSUME Typed, ConfiguredInv, NEW f \in Flows, Head1(f) \in OfName
  PROVE  LET s == flows[f].todo
             n == Arg(f)
             config == flows[f].configs[n]
         IN  /\ n \in Names /\ s \in Chains /\ s # <<>> /\ Tail(s) \in Chains
             /\ Head(s) = <<Head1(f), n>>
             /\ flows[f] \in FlowState /\ flows[f].by # None /\ flows[f].by \in Subs
             /\ RunsWell(setup, flows[f]) /\ Configures(setup, flows[f]) /\ Signing(s)
             /\ config \in Configuration \cup {None}
             /\ Head1(f) \in Rewrites => ~setup.canary /\ config # None
             /\ setup.canary => ~Has(s, {"alert"} \cup Rewrites)
<1> DEFINE s == flows[f].todo
           n == Arg(f)
<1>1. Head1(f) # None
  BY NoneAssumption DEF OfName
<1>2. /\ s \in Chains /\ s # <<>> /\ Tail(s) \in Chains /\ flows[f].by # None
      /\ flows[f] \in FlowState /\ RunsWell(setup, flows[f])
      /\ Head1(f) = Head(s)[1] /\ n = Head(s)[2]
  BY <1>1, Runs
<1>3. n \in Names /\ Head(s) = <<Head1(f), n>>
  BY <1>2, LinkIs
<1>4. flows[f].by \in Subs
  <2>1. Has(s, Writers \cup {"try"})
    BY <1>2, HasTail DEF Writers, OfName
  <2> QED
    BY <1>2, <2>1 DEF RunsWell, Chained
<1>5. Configures(setup, flows[f]) /\ Signing(s)
  BY <1>2, <1>4, Zenon DEF ConfiguredInv, Configures
<1>6. flows[f].configs[n] \in Configuration \cup {None}
  BY <1>2, <1>3 DEF FlowState, Configurations
<1>7. Head1(f) \in Rewrites => ~setup.canary /\ flows[f].configs[n] # None
  <2> SUFFICES ASSUME Head1(f) \in Rewrites  PROVE ~setup.canary /\ flows[f].configs[n] # None
    OBVIOUS
  <2>1. Has(s, {"alert"} \cup Rewrites)
    BY <1>2, HasTail
  <2> QED
    BY <1>2, <2>1 DEF RunsWell, Chained, Rewriting
<1>8. setup.canary => ~Has(s, {"alert"} \cup Rewrites)
  BY <1>2 DEF RunsWell, Chained
<1> QED
  BY <1>2, <1>3, <1>4, <1>5, <1>6, <1>7, <1>8

\* After a link for an alert, if that is settled and the others stand as they did.
LEMMA SubscribedLink ==
  ASSUME Typed, ConfiguredInv, NEW f \in Flows, Head1(f) \in OfName \ {"alert"},
         NEW r, r.by = flows[f].by, r.todo = Tail(flows[f].todo), r.form = flows[f].form,
         r.configs = flows[f].configs, r.data = flows[f].data,
         Subscribed(setup, server, flows[f]), NEW v, v.wallets = server.wallets,
         Wanted(setup, v, r.configs, Arg(f)) => Settles(setup, v, r, Arg(f)),
         \A n \in Names \ {Arg(f)} : StillStands(setup, server, v, n, flows[f].configs[n])
  PROVE  Subscribed(setup, v, r)
<1> SUFFICES ASSUME r.by \in Subs, NEW n \in Names, Wanted(setup, v, r.configs, n)
             PROVE  Settles(setup, v, r, n)
  BY DEF Subscribed
<1>1. CASE n = Arg(f)
  BY <1>1
<1>2. CASE n # Arg(f)
  <2>1. Head1(f) \notin {None, "try", "adopt", "read"}
    BY NoneAssumption DEF OfName
  <2>2. Wanted(setup, server, r.configs, n)
    BY WantedSame, Zenon
  <2>3. Settles(setup, server, flows[f], n)
    BY <2>2 DEF Subscribed
  <2>4. /\ v.alerts[n] = server.alerts[n]
        /\ Stands(setup, server, n, r.configs[n]) => Stands(setup, v, n, r.configs[n])
    BY <1>2, <2>2 DEF StillStands, Wanted
  <2> QED
    BY <1>2, <2>1, <2>3, <2>4, SettlesElsewhere
<1> QED
  BY <1>1, <1>2

\* An alert is deleted: it is created next, if it is wanted.
LEMMA SubscribedDelete ==
  ASSUME Typed, ConfiguredInv, NEW f \in Flows, Head1(f) = "delete",
         NEW r, r.by = flows[f].by, r.todo = Tail(flows[f].todo), r.form = flows[f].form,
         r.configs = flows[f].configs, r.data = flows[f].data,
         Subscribed(setup, server, flows[f])
  PROVE  Subscribed(setup, Effect(f), r)
<1> DEFINE n == Arg(f)
           s == flows[f].todo
<1>1. /\ n \in Names /\ s \in Chains /\ s # <<>> /\ Tail(s) \in Chains /\ Head(s) = <<"delete", n>>
      /\ RunsWell(setup, flows[f]) /\ ~setup.canary
  BY AlertLink DEF OfName, Rewrites
<1>2. Replacing(setup, r.configs, s)
  BY <1>1 DEF RunsWell, Rewriting
<1>3. /\ Effect(f).alerts = [server.alerts EXCEPT ![n] = None]
      /\ Effect(f).groups = server.groups /\ Effect(f).wallets = server.wallets
  BY DEF Effect, Typed, ServerState
<1>4. ASSUME NEW m \in Names \ {n}
      PROVE  StillStands(setup, server, Effect(f), m, flows[f].configs[m])
  BY <1>3 DEF StillStands, Stands, Attached, Typed, ServerState
<1>5. ASSUME Wanted(setup, Effect(f), r.configs, n)  PROVE Settles(setup, Effect(f), r, n)
  <2>0. Filtered(setup, n, r.configs[n])
    BY <1>1, <1>5, OfferedIsFiltered DEF Wanted
  <2>1. Tail(s) # <<>> /\ Head(Tail(s)) = <<"create", n>> /\ ~Has(Tail(Tail(s)), Rewrites)
    BY <1>1, <1>2, <2>0 DEF Replacing
  <2>2. In(<<"create", n>>, r.todo)
    BY <1>1, <2>1, InTail, Zenon
  <2>3. ~In(<<"update", n>>, r.todo)
    <3>1. Head(Tail(s)) # <<"update", n>>
      BY <2>1
    <3>2. ~In(<<"update", n>>, Tail(Tail(s)))
      <4>1. "update" \in Rewrites
        BY DEF Rewrites
      <4> QED
        BY <2>1, <4>1, InHasKind
    <3> QED
      BY <1>1, <2>1, <3>1, <3>2, InTail, Zenon
  <2>4. Pending(r.todo, n)
    BY <2>2 DEF Pending, Seeing
  <2> QED
    BY <2>2, <2>3, <2>4 DEF Settles
<1> QED
  BY <1>3, <1>4, <1>5, SubscribedLink DEF OfName

\* An alert is updated: it stands where it was.
LEMMA SubscribedUpdate ==
  ASSUME Typed, ConfiguredInv, NEW f \in Flows, Head1(f) = "update",
         NEW r, r.by = flows[f].by, r.todo = Tail(flows[f].todo), r.form = flows[f].form,
         r.configs = flows[f].configs, r.data = flows[f].data,
         Subscribed(setup, server, flows[f])
  PROVE  Subscribed(setup, Effect(f), r)
<1> DEFINE n == Arg(f)
           s == flows[f].todo
<1>1. /\ n \in Names /\ s \in Chains /\ s # <<>> /\ Head(s) = <<"update", n>>
      /\ flows[f].by \in Subs /\ RunsWell(setup, flows[f])
  BY AlertLink DEF OfName
<1>2. /\ Effect(f).alerts = server.alerts /\ Effect(f).groups = server.groups
      /\ Effect(f).wallets = server.wallets
  BY DEF Effect, Typed, ServerState
<1>3. ASSUME NEW m
      PROVE  /\ Stands(setup, server, m, r.configs[m]) =>
                  Stands(setup, Effect(f), m, r.configs[m])
             /\ StillStands(setup, server, Effect(f), m, flows[f].configs[m])
  BY <1>2 DEF Stands, StillStands, Attached
<1>4. ASSUME Wanted(setup, Effect(f), r.configs, n)  PROVE Settles(setup, Effect(f), r, n)
  <2>1. In(<<"update", n>>, s)
    BY <1>1, InTail
  <2>2. Settles(setup, server, flows[f], n)
    <3>1. Wanted(setup, server, r.configs, n)
      BY <1>2, <1>4, WantedSame, Zenon
    <3> QED
      BY <1>1, <3>1 DEF Subscribed
  <2>3. Stands(setup, Effect(f), n, r.configs[n])
    BY <1>3, <2>1, <2>2 DEF Settles
  <2>4. Effect(f).alerts[n] = Stored(r.configs[n].options)
    BY <2>3 DEF Stands
  <2> QED
    BY <2>3, <2>4 DEF Settles
<1> QED
  BY <1>2, <1>3, <1>4, SubscribedLink DEF OfName

\* An alert is created: it has the sources it is to have, for a group that is to
\* be maintained has them, or is where an earlier visit left it.
LEMMA SubscribedCreate ==
  ASSUME Typed, ConfiguredInv, NEW f \in Flows, Head1(f) = "create",
         NEW r, r.by = flows[f].by, r.todo = Tail(flows[f].todo), r.form = flows[f].form,
         r.configs = flows[f].configs, r.data = flows[f].data,
         Subscribed(setup, server, flows[f])
  PROVE  Subscribed(setup, Effect(f), r)
<1> DEFINE n == Arg(f)
           config == flows[f].configs[n]
           s == flows[f].todo
           g == GroupOf(n, config)
           data == flows[f].data
           sources == IF config.maintain /\ data.groups[g] # None THEN data.groups[g]
                      ELSE config.sources
           v == Effect(f)
<1>1. /\ n \in Names /\ s \in Chains /\ s # <<>> /\ Tail(s) \in Chains /\ Head(s) = <<"create", n>>
      /\ config # None /\ ~setup.canary /\ RunsWell(setup, flows[f])
      /\ Configures(setup, flows[f])
  BY AlertLink DEF OfName, Rewrites
<1>2. setup \in SetupState /\ server.alerts \in [Names -> Options \cup {None}]
      /\ server.groups \in [Groups -> (SUBSET Sources) \cup {None}]
  BY SMTT(30) DEF Typed, ServerState
<1>3. /\ v.alerts = [server.alerts EXCEPT ![n] = Stored(config.options)]
      /\ v.groups = [server.groups EXCEPT ![g] = sources]
      /\ v.wallets = server.wallets
  <2> DEFINE maintained == Maintained(n, config, data)
  <2>1. maintained = [server EXCEPT !.groups[g] = sources]
    BY DEF Maintained, Sourced
  <2>2. v = [maintained EXCEPT !.alerts[n] = Stored(config.options), !.targets = flows[f].form]
    BY DEF Effect, Created
  <2>3. DOMAIN server = {"alerts", "targets", "wallets", "groups"}
    BY DEF Typed, ServerState
  <2> HIDE DEF maintained, config, data, g, sources, n, v
  <2>4. /\ maintained.alerts = server.alerts /\ maintained.wallets = server.wallets
        /\ maintained.groups = [server.groups EXCEPT ![g] = sources]
        /\ DOMAIN maintained = DOMAIN server
    BY <2>1, <2>3
  <2> HIDE DEF maintained
  <2> QED
    BY <2>2, <2>3, <2>4
<1>4. PICK w \in SUBSET Mine : \A m \in Names : Fits(setup, w, m, flows[f].configs[m])
  BY <1>1, Zenon DEF Configures
<1>5. Filtered(setup, n, config)
  <2>1. In(<<"create", n>>, s)
    BY <1>1, InTail
  <2> QED
    BY <1>1, <2>1, Zenon DEF Configures
<1>6. data \in ServerState /\ GroupsWell(setup, data)
  <2>1. data \in ServerState
    BY FetchedData DEF UsesData
  <2> QED
    BY <1>1, <2>1, NoneAssumption DEF Configures
<1> HIDE DEF v, sources, config, g, s, data
<1>7. /\ setup.events[n] \in Kinds \ {"label"}
      /\ setup.events[n] = "walletBalance" => g = "userWallets" /\ ~config.maintain
      /\ setup.events[n] # "walletBalance" =>
           /\ g = n /\ config = RowConfiguration(setup.events[n], {})
           /\ config.maintain => ~config.multiple
  <2>1. Fits(setup, w, n, config)
    BY <1>1, <1>4 DEF config
  <2>2. setup \in SetupState /\ n \in Names /\ config # None /\ ~setup.canary
    BY <1>1, <1>2
  <2>3. Filtered(setup, n, config) \/ setup.canary
    BY <1>5
  <2>4. /\ setup.events[n] \in Kinds \ {"label"}
        /\ setup.events[n] = "walletBalance" =>
             g = (IF setup.canary THEN n ELSE "userWallets") /\ ~config.maintain
        /\ setup.events[n] # "walletBalance" =>
             /\ g = n /\ config = RowConfiguration(setup.events[n], {})
             /\ config.maintain => ~config.multiple
    <3>1. Tailored(n, w, config)
      BY <2>1, <2>2, <2>3, FitsRow, Zenon
    <3> QED
      BY <2>2, <3>1 DEF Tailored, g
  <2> QED
    BY <2>2, <2>4
<1>8. g = GroupIn(setup, n, config) /\ \A v1 : Attached(setup, v1, n, config) = config.sources
  BY <1>1, InSetup, OfferedIsFiltered DEF g
<1>9. ASSUME NEW m \in Names \ {n}
      PROVE  StillStands(setup, server, v, m, flows[f].configs[m])
  <2>1. Written(setup, server, v, n, config, Stored(config.options), sources)
    BY <1>3, <1>8 DEF Written, sources
  <2>2. config = flows[f].configs[n]
    BY DEF config
  <2>3. n \in Names /\ config # None /\ Configures(setup, flows[f])
    BY <1>1
  <2> HIDE DEF n
  <2> QED
    BY <1>5, <1>9, <2>1, <2>2, <2>3, OthersStand, Zenon
<1>10. Stands(setup, v, n, config)
  <2>1. v.alerts[n] = Stored(config.options)
    BY <1>1, <1>2, <1>3
  <2>2. g \in Groups
    BY <1>1, <1>7 DEF Groups
  <2>3. v.groups[g] = sources
    BY <1>2, <1>3, <2>2
  <2>4. CASE sources = config.sources
    BY <1>8, <2>1, <2>3, <2>4 DEF Stands
  <2>5. CASE sources # config.sources
    <3>1. config.maintain /\ data.groups[g] # None /\ sources = data.groups[g]
      BY <2>5 DEF sources
    <3>2. data.groups[g] \in {{"there"}, config.sources}
      BY <1>1, <1>6, <1>7, <3>1 DEF GroupsWell
    <3>3. ~config.multiple
      BY <1>7, <3>1
    <3> QED
      BY <1>1, <1>8, <2>1, <2>3, <2>5, <3>1, <3>2, <3>3 DEF Stands
  <2> QED
    BY <2>4, <2>5
<1>11. Settles(setup, v, r, n)
  <2>1. ~Has(r.todo, Rewrites)
    BY <1>1 DEF RunsWell, Rewriting, s
  <2>2. ~In(<<"update", n>>, r.todo)
    BY <2>1 DEF In, Has, Rewrites
  <2>3. v.alerts[n] = Stored(config.options)
    BY <1>10 DEF Stands
  <2> QED
    BY <1>10, <2>2, <2>3 DEF Settles, config
<1>12. Subscribed(setup, v, r)
  BY <1>3, <1>9, <1>11, SubscribedLink DEF OfName
<1> QED
  BY <1>12 DEF v

\* An alert is ensured: without contacts none is, and then nothing is adopted.
LEMMA SubscribedEnsure ==
  ASSUME Typed, ConfiguredInv, NEW f \in Flows, Head1(f) = "ensure",
         NEW r, r.by = flows[f].by, r.todo = Tail(flows[f].todo), r.form = flows[f].form,
         r.configs = flows[f].configs, r.data = flows[f].data,
         Contacted(server, flows[f]), Subscribed(setup, server, flows[f])
  PROVE  Subscribed(setup, Effect(f), r)
<1> DEFINE n == Arg(f)
           config == flows[f].configs[n]
           s == flows[f].todo
           g == GroupOf(n, config)
           v == Effect(f)
<1>1. /\ n \in Names /\ s \in Chains /\ s # <<>> /\ Tail(s) \in Chains /\ Head(s) = <<"ensure", n>>
      /\ RunsWell(setup, flows[f]) /\ Configures(setup, flows[f]) /\ Signing(s)
      /\ flows[f].by \in Subs
  BY AlertLink DEF OfName
<1>2. setup \in SetupState /\ server.alerts \in [Names -> Options \cup {None}]
      /\ server.groups \in [Groups -> (SUBSET Sources) \cup {None}]
  BY SMTT(30) DEF Typed, ServerState
<1>3. setup.canary
  <2>1. Has(s, {"try", "ensure", "adopt"})
    BY <1>1, HasTail
  <2> QED
    BY <1>1, <2>1 DEF RunsWell, Chained
<1>4. ~In(<<"alert", n>>, r.todo) /\ ~In(<<"update", n>>, r.todo)
  <2>1. ~Has(s, {"alert"} \cup Rewrites) /\ Head(s)[1] = "ensure"
    BY <1>1, <1>3 DEF RunsWell, Chained
  <2>2. ~Has(Tail(s), {"alert"} \cup Rewrites)
    BY <1>1, <2>1, HasTail
  <2> QED
    BY <2>2 DEF In, Has, Rewrites
<1>5. PICK w \in SUBSET Mine : \A m \in Names : Fits(setup, w, m, flows[f].configs[m])
  BY <1>1, Zenon DEF Configures
<1>6. CASE config = None
  <2>1. v = server
    BY <1>6 DEF Effect, Ensured
  <2>2. \A m : StillStands(setup, server, v, m, flows[f].configs[m])
    BY <2>1 DEF StillStands
  <2>3. ~Wanted(setup, v, r.configs, n)
    BY <1>6 DEF Wanted
  <2> QED
    BY <2>1, <2>2, <2>3, SubscribedLink DEF OfName
<1>7. CASE config # None
  <2> DEFINE attached == SourcesOf(n, config)
             sourced == Sourced(n, config, attached)
  <2>1. PICK options :
          /\ v.alerts = [server.alerts EXCEPT ![n] = options]
          /\ v.groups = [server.groups EXCEPT ![g] = attached]
          /\ v.wallets = server.wallets
          /\ server.targets # None /\ HasFilter(n, config) => options = Stored(config.options)
    <3>1. sourced = [server EXCEPT !.groups[g] = attached]
      BY DEF Sourced
    <3>2. v = IF server.targets = None \/ ~HasFilter(n, config) THEN sourced
              ELSE [sourced EXCEPT !.alerts[n] = Stored(config.options)]
      BY <1>7 DEF Effect, Ensured
    <3>3. DOMAIN server = {"alerts", "targets", "wallets", "groups"}
      BY DEF Typed, ServerState
    <3>4. server.alerts = [server.alerts EXCEPT ![n] = server.alerts[n]]
      BY <1>2
    <3> HIDE DEF sourced, config, attached, g, n, v
    <3>5. /\ sourced.alerts = server.alerts /\ sourced.wallets = server.wallets
          /\ sourced.groups = [server.groups EXCEPT ![g] = attached]
          /\ DOMAIN sourced = DOMAIN server
      BY <3>1, <3>3
    <3> HIDE DEF sourced
    <3>6. CASE server.targets = None \/ ~HasFilter(n, config)
      BY <3>2, <3>4, <3>5, <3>6
    <3>7. CASE ~(server.targets = None \/ ~HasFilter(n, config))
      <4>1. v = [sourced EXCEPT !.alerts[n] = Stored(config.options)]
        BY <3>2, <3>7
      <4>2. /\ v.alerts = [server.alerts EXCEPT ![n] = Stored(config.options)]
            /\ v.groups = sourced.groups /\ v.wallets = sourced.wallets
        BY <3>3, <3>5, <4>1
      <4> QED
        BY <3>5, <4>2
    <3> QED
      BY <3>6, <3>7
  <2> HIDE DEF v
  <2>2. /\ g = GroupIn(setup, n, config) /\ attached = Attached(setup, server, n, config)
        /\ HasFilter(n, config) <=> Offered(setup, server, n, config)
        /\ Attached(setup, v, n, config) = Attached(setup, server, n, config)
        /\ Wanted(setup, v, r.configs, n) => Offered(setup, server, n, config)
    <3>1. \A m, c : Attached(setup, v, m, c) = Attached(setup, server, m, c)
      BY <2>1, WantedSame
    <3>2. \A m, c : Offered(setup, v, m, c) <=> Offered(setup, server, m, c)
      BY <2>1, WantedSame
    <3> QED
      BY <3>1, <3>2, InSetup DEF Wanted
  <2>3. g \in Groups
    <3>1. Fits(setup, w, n, config)
      BY <1>1, <1>5
    <3> HIDE DEF config
    <3>2. GroupOf(n, config) = n
      <4>1. setup \in SetupState /\ n \in Names /\ config # None
        BY <1>1, <1>2, <1>7
      <4>2. /\ setup.events[n] = "walletBalance" =>
                 GroupOf(n, config) = IF setup.canary THEN n ELSE "userWallets"
            /\ setup.events[n] # "walletBalance" => GroupOf(n, config) = n
        BY <1>3, <3>1, <4>1, FitsRow DEF Tailored
      <4> QED
        BY <1>3, <4>2
    <3> QED
      BY <1>1, <3>2 DEF Groups
  <2> HIDE DEF attached, g
  <2>4. ASSUME NEW m \in Names \ {n}
        PROVE  StillStands(setup, server, v, m, flows[f].configs[m])
    <3>1. Written(setup, server, v, n, config, options, attached)
      BY <2>1, <2>2 DEF Written
    <3>2. config # None /\ config = flows[f].configs[n]
      BY <1>7
    <3>3. n \in Names /\ Configures(setup, flows[f])
      BY <1>1
    <3> HIDE DEF config, n
    <3> QED
      BY <1>3, <2>4, <3>1, <3>2, <3>3, OthersStand, Zenon
  <2>5. ASSUME Wanted(setup, v, r.configs, n), server.targets = None
        PROVE  Settles(setup, v, r, n)
    <3>1. ~Has(s, Contacting) /\ Has(Tail(s), {"adopt"})
      <4>1. ~Has(Tail(s), Contacting) /\ Has(Tail(s), {"adopt"})
        BY <1>1, NeverTail, AfterTail DEF Signing, RunsWell, Chained
      <4>2. Head(s)[1] \notin Contacting
        BY <1>1 DEF Contacting
      <4> QED
        BY <1>1, <4>1, <4>2, HasTail
    <3>2. r.form = None
      BY <1>1, <2>5, <3>1 DEF Contacted
    <3> QED
      BY <1>3, <1>4, <3>1, <3>2 DEF Settles
  <2>6. ASSUME Wanted(setup, v, r.configs, n), server.targets # None
        PROVE  Settles(setup, v, r, n)
    <3>1. options = Stored(config.options)
      BY <2>1, <2>2, <2>6
    <3>2. v.alerts[n] = Stored(config.options) /\ v.groups[g] = attached
      BY <1>1, <1>2, <2>1, <2>3, <3>1
    <3>3. Stands(setup, v, n, r.configs[n])
      BY <2>2, <3>2 DEF Stands
    <3> QED
      BY <1>4, <3>3 DEF Settles
  <2> QED
    BY <2>1, <2>4, <2>5, <2>6, SubscribedLink DEF OfName, v
<1> QED
  BY <1>6, <1>7

\* The requests for an alert that are now in the place of its link.
LEMMA PlanLinks ==
  ASSUME Typed, NEW f \in Flows, Head1(f) = "alert"
  PROVE  LET n == Arg(f)
             q == Requests(n, flows[f].configs[n], flows[f].data)
             t == Tail(flows[f].todo)
             r == PlanFlow(f)
         IN  /\ \A K : K \cap Rewrites = {} => (Has(r.todo, K) <=> Has(t, K))
             /\ \A k, m : k \notin Rewrites => (In(<<k, m>>, r.todo) <=> In(<<k, m>>, t))
             /\ \A k \in Rewrites : \A m : In(<<k, m>>, r.todo) => m = n
             /\ Head(r.todo)[1] \notin {"adopt", "wallets"}
             /\ q = <<<<"delete", n>>>> \o <<<<"create", n>>>> \/ q = <<<<"create", n>>>> =>
                  In(<<"create", n>>, r.todo) /\ ~In(<<"update", n>>, r.todo)
             /\ q = <<<<"update", n>>>> => In(<<"update", n>>, r.todo)
<1> DEFINE n == Arg(f)
           s == flows[f].todo
           t == Tail(s)
           q == Requests(n, flows[f].configs[n], flows[f].data)
           r == PlanFlow(f)
           z == r.todo
<1>1. /\ r \in FlowState /\ RunsWell(setup, r) /\ t \in Chains /\ t # <<>> /\ ~Has(t, Rewrites)
      /\ \/ r.todo = t /\ q = <<>>
         \/ \E k \in Rewrites :
              q = <<<<k, n>>>> /\ Head(r.todo) = <<k, n>> /\ Tail(r.todo) = t
         \/ /\ q = <<<<"delete", n>>>> \o <<<<"create", n>>>>
            /\ Head(r.todo) = <<"delete", n>> /\ Tail(r.todo) # <<>>
            /\ Head(Tail(r.todo)) = <<"create", n>> /\ Tail(Tail(r.todo)) = t
  BY PlanRuns, SMTT(30)
<1>2. Head(t)[1] \notin {"adopt", "wallets"}
  BY <1>1, Ahead, NoneAssumption, Zenon
<1> HIDE DEF r, s, t, q, n
<1>3. z \in Chains /\ z # <<>> /\ Tail(z) \in Chains
  BY <1>1, LinkIs DEF FlowState, RunsWell, Chained
<1>4. "create" \in Rewrites /\ "update" \in Rewrites /\ "delete" \in Rewrites
      /\ "adopt" \notin Rewrites /\ "wallets" \notin Rewrites
  BY DEF Rewrites
<1>5. ASSUME NEW k \in Rewrites, NEW m  PROVE ~In(<<k, m>>, t)
  BY <1>1, <1>5 DEF In, Has
<1> HIDE DEF z
<1>6. ASSUME NEW l \in {"delete", "create", "update"}, NEW y \in Chains, NEW x \in Chains, y # <<>>,
             Head(y) = <<l, n>>, Tail(y) = x
      PROVE  /\ \A K : K \cap Rewrites = {} => (Has(y, K) <=> Has(x, K))
             /\ \A k, m : In(<<k, m>>, y) <=> (k = l /\ m = n) \/ In(<<k, m>>, x)
  <2>1. Head(y)[1] = l /\ l \in Rewrites
    BY <1>6 DEF Rewrites
  <2>2. ASSUME NEW K, K \cap Rewrites = {}  PROVE Has(y, K) <=> Has(x, K)
    <3>1. l \notin K
      BY <2>1, <2>2
    <3> QED
      BY <1>6, <2>1, <3>1, HasTail, Zenon
  <2>3. ASSUME NEW k, NEW m  PROVE In(<<k, m>>, y) <=> (k = l /\ m = n) \/ In(<<k, m>>, x)
    <3>1. In(<<k, m>>, y) <=> <<k, m>> = <<l, n>> \/ In(<<k, m>>, x)
      BY <1>6, InTail, Zenon
    <3>2. <<k, m>> = <<l, n>> <=> k = l /\ m = n
      OBVIOUS
    <3> QED
      BY <3>1, <3>2
  <2> QED
    BY <2>2, <2>3
<1> DEFINE Goal ==
        /\ \A K : K \cap Rewrites = {} => (Has(z, K) <=> Has(t, K))
        /\ \A k, m : k \notin Rewrites => (In(<<k, m>>, z) <=> In(<<k, m>>, t))
        /\ \A k \in Rewrites : \A m : In(<<k, m>>, z) => m = n
        /\ Head(z)[1] \notin {"adopt", "wallets"}
        /\ q = <<<<"delete", n>>>> \o <<<<"create", n>>>> \/ q = <<<<"create", n>>>> =>
             In(<<"create", n>>, z) /\ ~In(<<"update", n>>, z)
        /\ q = <<<<"update", n>>>> => In(<<"update", n>>, z)
<1>7. ASSUME z = t, q = <<>>  PROVE Goal
  BY <1>2, <1>5, <1>7
<1>8. ASSUME NEW k \in Rewrites, q = <<<<k, n>>>>, Head(z) = <<k, n>>, Tail(z) = t
      PROVE  Goal
  <2>1. /\ \A K : K \cap Rewrites = {} => (Has(z, K) <=> Has(t, K))
        /\ \A j, m : In(<<j, m>>, z) <=> (j = k /\ m = n) \/ In(<<j, m>>, t)
    BY <1>1, <1>3, <1>6, <1>8 DEF Rewrites
  <2>2. Head(z)[1] \notin {"adopt", "wallets"}
    BY <1>4, <1>8
  <2>3. /\ \A j, m : j \notin Rewrites => (In(<<j, m>>, z) <=> In(<<j, m>>, t))
        /\ \A j \in Rewrites : \A m : In(<<j, m>>, z) => m = n
    BY <1>5, <2>1
  <2>4. /\ q = <<<<"delete", n>>>> \o <<<<"create", n>>>> \/ q = <<<<"create", n>>>> =>
             k = "create"
        /\ q = <<<<"update", n>>>> => k = "update"
    BY <1>8
  <2>5. /\ k = "create" => In(<<"create", n>>, z) /\ ~In(<<"update", n>>, z)
        /\ k = "update" => In(<<"update", n>>, z)
    BY <1>4, <1>5, <2>1
  <2> HIDE DEF z
  <2> QED
    BY <2>1, <2>2, <2>3, <2>4, <2>5
<1>9. ASSUME q = <<<<"delete", n>>>> \o <<<<"create", n>>>>, Head(z) = <<"delete", n>>,
             Tail(z) # <<>>, Head(Tail(z)) = <<"create", n>>, Tail(Tail(z)) = t
      PROVE  Goal
  <2>1. /\ \A K : K \cap Rewrites = {} => (Has(Tail(z), K) <=> Has(t, K))
        /\ \A j, m : In(<<j, m>>, Tail(z)) <=> (j = "create" /\ m = n) \/ In(<<j, m>>, t)
    BY <1>1, <1>3, <1>6, <1>9, ZenonT(40)
  <2>2. /\ \A K : K \cap Rewrites = {} => (Has(z, K) <=> Has(Tail(z), K))
        /\ \A j, m : In(<<j, m>>, z) <=> (j = "delete" /\ m = n) \/ In(<<j, m>>, Tail(z))
    BY <1>3, <1>6, <1>9, Zenon
  <2>3. Head(z)[1] \notin {"adopt", "wallets"}
    BY <1>9
  <2>4. /\ \A j, m : j \notin Rewrites => (In(<<j, m>>, z) <=> In(<<j, m>>, t))
        /\ \A j \in Rewrites : \A m : In(<<j, m>>, z) => m = n
    BY <1>4, <1>5, <2>1, <2>2
  <2>5. In(<<"create", n>>, z) /\ ~In(<<"update", n>>, z)
    BY <1>4, <1>5, <2>1, <2>2
  <2>6. q # <<<<"update", n>>>>
    BY <1>9, SMTT(30)
  <2>7. \A K : K \cap Rewrites = {} => (Has(z, K) <=> Has(t, K))
    BY <2>1, <2>2
  <2> QED
    BY <2>3, <2>4, <2>5, <2>6, <2>7
<1>10. Goal
  <2> HIDE DEF Goal
  <2> QED
    BY <1>1, <1>7, <1>8, <1>9, Zenon DEF z
<1> QED
  BY <1>10 DEF Goal, z, r, s, t, q, n

\* An alert is planned: one that is only updated is there, and stands.
LEMMA SubscribedPlan ==
  ASSUME Typed, ConfiguredInv, NEW f \in Flows, Head1(f) = "alert",
         Subscribed(setup, server, flows[f])
  PROVE  Subscribed(setup, server, PlanFlow(f))
<1> DEFINE n == Arg(f)
           config == flows[f].configs[n]
           s == flows[f].todo
           t == Tail(s)
           q == Requests(n, config, flows[f].data)
           r == PlanFlow(f)
           z == r.todo
           data == flows[f].data
<1>1. /\ r.by = flows[f].by /\ r.by \in Subs /\ ~setup.canary
      /\ r.form = flows[f].form /\ r.data = data /\ r.configs = flows[f].configs
      /\ n \in Names /\ data \in ServerState /\ ~Has(t, Rewrites)
  BY PlanRuns, Zenon
<1>2. /\ \A K : K \cap Rewrites = {} => (Has(z, K) <=> Has(t, K))
      /\ \A k, m : k \notin Rewrites => (In(<<k, m>>, z) <=> In(<<k, m>>, t))
      /\ \A k \in Rewrites : \A m : In(<<k, m>>, z) => m = n
      /\ q = <<<<"delete", n>>>> \o <<<<"create", n>>>> \/ q = <<<<"create", n>>>> =>
           In(<<"create", n>>, z) /\ ~In(<<"update", n>>, z)
      /\ q = <<<<"update", n>>>> => In(<<"update", n>>, z)
  BY PlanLinks, Zenon
<1>3. /\ Head(s) = <<"alert", n>>
      /\ \A K : Has(s, K) <=> "alert" \in K \/ Has(t, K)
      /\ \A link : In(link, s) <=> Head(s) = link \/ In(link, t)
  BY Ahead, NoneAssumption
<1>4. Configures(setup, flows[f]) /\ config \in Configuration \cup {None}
  BY AlertLink DEF OfName
<1>5. setup \in SetupState /\ GroupsWell(setup, server)
  BY DEF Typed, ConfiguredInv
<1> HIDE DEF r, s, t, q, n, z, data, config
<1>6. ASSUME NEW k \in Rewrites, NEW m  PROVE ~In(<<k, m>>, t)
  BY <1>1, <1>6 DEF In, Has
<1>7. "create" \in Rewrites /\ "update" \in Rewrites /\ "alert" \notin Rewrites
      /\ "ensure" \notin Rewrites /\ {"try"} \cap Rewrites = {}
  BY DEF Rewrites
<1>8. ~In(<<"create", n>>, s) /\ \A m : ~In(<<"create", m>>, s) /\ ~In(<<"update", m>>, s)
  BY <1>3, <1>6, <1>7
<1>9. ASSUME NEW m, In(<<"alert", m>>, z)  PROVE In(<<"alert", m>>, s)
  BY <1>2, <1>3, <1>7, <1>9
<1>10. ASSUME NEW m \in Names, m # n, Settles(setup, server, flows[f], m)
       PROVE  Settles(setup, server, r, m)
  <2>1. Pending(s, m) => Pending(z, m)
    <3>1. Has(s, {"try"}) => Has(z, {"try"})
      BY <1>2, <1>3, <1>7
    <3>2. ASSUME NEW k \in Seeing, In(<<k, m>>, s)  PROVE In(<<k, m>>, z)
      <4>1. k \in {"alert", "ensure"}
        BY <1>8, <3>2, Zenon DEF Seeing
      <4>2. In(<<k, m>>, t)
        <5>1. Head(s) # <<k, m>>
          BY <1>3, <1>10
        <5> QED
          BY <1>3, <3>2, <5>1
      <4> QED
        BY <1>2, <1>7, <4>1, <4>2
    <3> QED
      BY <3>1, <3>2 DEF Pending
  <2>2. ~In(<<"update", m>>, z) /\ ~In(<<"create", m>>, z)
    BY <1>2, <1>7, <1>10
  <2>3. \/ Pending(z, m) \/ Stands(setup, server, m, r.configs[m])
        \/ setup.canary /\ r.form = None /\ Has(z, {"adopt"})
    BY <1>1, <1>10, <2>1 DEF Settles, s
  <2>4. In(<<"alert", m>>, z) /\ r.data # None =>
       \/ r.data.alerts[m] = server.alerts[m] \/ server.alerts[m] = Stored(r.configs[m].options)
    BY <1>1, <1>8, <1>9, <1>10 DEF Settles, s, data
  <2> QED
    BY <2>2, <2>3, <2>4 DEF Settles, z
<1>11. ASSUME config # None, Filtered(setup, n, config), Settles(setup, server, flows[f], n)
       PROVE  Settles(setup, server, r, n)
  <2>1. HasFilter(n, config)
    BY <1>1, <1>11, OnHook
  <2>2. \/ /\ q = <<<<"update", n>>>> /\ data.alerts[n] # None
           /\ ~config.multiple /\ config.options = data.alerts[n]
        \/ q = <<<<"create", n>>>>
        \/ q = <<<<"delete", n>>>> \o <<<<"create", n>>>>
    BY <1>1, <1>11, <2>1, RequestsIs DEF q, data
  <2>3. In(<<"alert", n>>, s)
    BY <1>3
  <2>4. data # None
    BY <1>1, NoneAssumption
  <2>5. data.alerts[n] = server.alerts[n] \/ server.alerts[n] = Stored(config.options)
    BY <1>8, <1>11, <2>3, <2>4 DEF Settles, s, data, config
  <2>6. CASE In(<<"create", n>>, z) /\ ~In(<<"update", n>>, z)
    BY <1>1, <2>6 DEF Settles, z, Pending, Seeing
  <2>7. CASE /\ q = <<<<"update", n>>>> /\ data.alerts[n] # None
             /\ ~config.multiple /\ config.options = data.alerts[n]
    <3>1. config.options \in Options
      BY <1>1, <2>7 DEF ServerState
    <3>2. Stored(config.options) = config.options
      BY <3>1 DEF Stored, Options
    <3>3. server.alerts[n] = Stored(config.options) /\ server.alerts[n] # None
      BY <2>5, <2>7, <3>2
    <3>4. PICK w \in SUBSET Mine : Fits(setup, w, n, config)
      BY <1>1, <1>4 DEF Configures, config
    <3>5. /\ GroupIn(setup, n, config) = GroupOf(n, config)
          /\ Attached(setup, server, n, config) = config.sources
      BY <1>1, InSetup, OfferedIsFiltered
    <3>6. /\ setup.events[n] \notin {"walletBalance", "label"}
          /\ GroupOf(n, config) = n /\ config = RowConfiguration(setup.events[n], {})
      BY <1>1, <1>5, <1>11, <2>7, <3>4, FitsRow DEF Tailored
    <3>7. server.groups[n] \in {{"there"}, config.sources}
      BY <1>1, <1>5, <2>7, <3>3, <3>6 DEF GroupsWell
    <3>8. Stands(setup, server, n, config)
      BY <1>1, <2>7, <3>3, <3>5, <3>6, <3>7 DEF Stands
    <3> QED
      BY <1>1, <3>3, <3>8 DEF Settles, config
  <2> QED
    BY <1>2, <2>2, <2>6, <2>7
<1> QED
  <2> SUFFICES ASSUME NEW m \in Names, Wanted(setup, server, r.configs, m)
               PROVE  Settles(setup, server, r, m)
    BY DEF Subscribed, r
  <2>1. Settles(setup, server, flows[f], m)
    BY <1>1 DEF Subscribed, r
  <2>2. r.configs[m] # None /\ Filtered(setup, m, r.configs[m])
    BY <1>1, OfferedIsFiltered DEF Wanted, r
  <2>3. CASE m = n
    BY <1>1, <1>11, <2>1, <2>2, <2>3 DEF config
  <2> QED
    BY <1>10, <2>1, <2>3

\* An alert is planned.
LEMMA PromisePlan ==
  ASSUME Typed, ConfiguredInv, NEW f \in Flows, Head1(f) = "alert",
         Promise(setup, server, cached, flows[f])
  PROVE  Promise(setup, server, cached, PlanFlow(f))
<1> DEFINE s == flows[f].todo
           t == Tail(s)
           r == PlanFlow(f)
           z == r.todo
<1>1. /\ r.by = flows[f].by /\ r.form = flows[f].form /\ r.data = flows[f].data
      /\ r.made = flows[f].made
  BY PlanRuns, Zenon
<1>2. /\ \A K : K \cap Rewrites = {} => (Has(z, K) <=> Has(t, K))
      /\ Head(z)[1] \notin {"adopt", "wallets"}
  BY PlanLinks, Zenon
<1>3. \A K : Has(s, K) <=> "alert" \in K \/ Has(t, K)
  BY Ahead, NoneAssumption
<1> HIDE DEF r, s, t, z
<1>4. ASSUME NEW K, K \cap Rewrites = {}, "alert" \notin K  PROVE Has(z, K) <=> Has(s, K)
  BY <1>2, <1>3, <1>4
<1>5. /\ Has(z, Contacting) <=> Has(s, Contacting)
      /\ Has(z, Grouping) <=> Has(s, Grouping)
  <2>1. /\ Contacting \cap Rewrites = {} /\ Grouping \cap Rewrites = {}
        /\ "alert" \notin Contacting /\ "alert" \notin Grouping
    BY DEF Contacting, Grouping, Rewrites
  <2> QED
    BY <1>4, <2>1
<1>6. Contacted(server, r)
  BY <1>1, <1>2, <1>5 DEF Promise, Contacted, s, z
<1>7. Grouped(server, cached, r)
  BY <1>1, <1>2, <1>5 DEF Promise, Grouped, s, z
<1>8. Subscribed(setup, server, r)
  BY SubscribedPlan DEF Promise, r
<1> QED
  BY <1>6, <1>7, <1>8 DEF Promise, r

LEMMA ShowingPlan ==
  ASSUME Typed, NEW f \in Flows, Head1(f) = "alert",
         Showing(setup, server, card, flows[f])
  PROVE  Showing(setup, server, card, PlanFlow(f))
<1> DEFINE s == flows[f].todo
           t == Tail(s)
           r == PlanFlow(f)
           z == r.todo
<1>1. r.by = flows[f].by /\ r.data = flows[f].data
  BY PlanRuns, Zenon
<1>2. \A K : K \cap Rewrites = {} => (Has(z, K) <=> Has(t, K))
  BY PlanLinks, Zenon
<1>3. \A K : Has(s, K) <=> "alert" \in K \/ Has(t, K)
  BY Ahead, NoneAssumption
<1> HIDE DEF r, s, t, z
<1>4. ASSUME NEW K, K \cap Rewrites = {}, "alert" \notin K  PROVE Has(z, K) <=> Has(s, K)
  BY <1>2, <1>3, <1>4
<1>5. /\ Has(z, {"read", "try"}) <=> Has(s, {"read", "try"})
      /\ Has(z, {"render"}) <=> Has(s, {"render"})
  <2>1. {"read", "try"} \cap Rewrites = {} /\ {"render"} \cap Rewrites = {}
    BY DEF Rewrites
  <2> QED
    BY <1>4, <2>1
<1> QED
  BY <1>1, <1>5 DEF Showing, s, z, r

\* The button enters its try.
LEMMA PromiseTry ==
  ASSUME Typed, ConfiguredInv, NEW f \in Flows, Head1(f) = "try", NEW v, NEW x
  PROVE  Promise(setup, v, x, TryFlow(f))
<1> DEFINE firstTime == flows[f].data.targets = None
           configs == IF firstTime /\ ~setup.multi THEN Defaults ELSE flows[f].configs
           s == ButtonLinks(firstTime)
           r == TryFlow(f)
           r0 == Captured("button", s, configs)
<1>1. r.by = "button" /\ r.configs = configs /\ r.todo = s /\ RunsWell(setup, r) /\ setup.canary
      /\ r.made = flows[f].made
  <2>1. flows[f] \in FlowState
    BY DEF Typed
  <2>2. r.configs = configs /\ r.todo = s
    BY <2>1 DEF TryFlow, FlowState
  <2> HIDE DEF r, configs, s
  <2> QED
    BY <2>2, TryRuns DEF r
<1>2. flows[f].configs = NoConfigurations /\ ~flows[f].made
  <2>1. Has(flows[f].todo, {"try"}) /\ flows[f].by # None
    BY Runs, HasTail, NoneAssumption
  <2> QED
    BY <2>1 DEF ConfiguredInv, Configures
<1>3. Begun(setup, r0)
  <2>1. (\E n \in Names : configs[n] # None) => firstTime /\ ~setup.multi
    BY <1>2 DEF NoConfigurations
  <2> QED
    BY <2>1, ButtonStarts, Zenon
<1>4. r0.by = "button" /\ r0.todo = s /\ r0.configs = configs
  BY DEF Captured, NoFlow
<1> HIDE DEF r, r0, s, configs
<1>5. ~Has(s, {"alert"})
  <2>1. ~Has(s, {"alert"} \cup Rewrites)
    BY <1>1 DEF RunsWell, Chained
  <2> QED
    BY <2>1 DEF Has
<1>6. s # <<>>
  BY <1>1 DEF RunsWell, Chained
<1>7. Promise(setup, v, x, r)
  <2>1. /\ s \in Chains /\ Good(s)
        /\ Has(s, Contacting)
        /\ \A n \in Names : configs[n] # None =>
             Has(s, {"try"}) \/ In(<<"alert", n>>, s) \/ In(<<"ensure", n>>, s)
    BY <1>3, <1>4 DEF Begun, Subs
  <2>2. r.by \notin Verifying
    BY <1>1 DEF Verifying
  <2> QED
    BY <1>1, <1>2, <1>5, <1>6, <2>1, <2>2, PromiseStarts
<1> QED
  BY <1>7 DEF r

LEMMA ShowingTry ==
  ASSUME Typed, ConfiguredInv, NEW f \in Flows, Head1(f) = "try", NEW v, NEW c
  PROVE  Showing(setup, v, c, TryFlow(f))
<1> DEFINE firstTime == flows[f].data.targets = None
           configs == IF firstTime /\ ~setup.multi THEN Defaults ELSE flows[f].configs
           s == ButtonLinks(firstTime)
           r == TryFlow(f)
           r0 == Captured("button", s, configs)
<1>1. r.by = "button" /\ r.todo = s
  <2>1. flows[f] \in FlowState
    BY DEF Typed
  <2>2. r.todo = s
    BY <2>1 DEF TryFlow, FlowState
  <2> HIDE DEF r, s
  <2> QED
    BY <2>2, TryRuns DEF r
<1>2. flows[f].configs = NoConfigurations
  <2>1. Has(flows[f].todo, {"try"}) /\ flows[f].by # None
    BY Runs, HasTail, NoneAssumption
  <2> QED
    BY <2>1 DEF ConfiguredInv, Configures
<1>3. Begun(setup, r0)
  <2>1. (\E n \in Names : configs[n] # None) => firstTime /\ ~setup.multi
    BY <1>2 DEF NoConfigurations
  <2> QED
    BY <2>1, ButtonStarts, Zenon
<1>4. r0.by = "button" /\ r0.todo = s
  BY DEF Captured, NoFlow
<1> HIDE DEF r, r0, s, configs
<1>5. Fetches(setup, r.by) => Has(r.todo, {"read", "try"})
  BY <1>1, <1>3, <1>4 DEF Begun
<1>6. Showing(setup, v, c, r)
  BY <1>1, <1>5, ShowingStarts
<1> QED
  BY <1>6 DEF r

\* A handler that has just started.
LEMMA PromiseBegun ==
  ASSUME NEW u, NEW v, NEW x, NEW r, Begun(u, r), r.todo # <<>>
  PROVE  Promise(u, v, x, r)
BY PromiseStarts DEF Begun

LEMMA ShowingBegun ==
  ASSUME NEW u, NEW v, NEW c, NEW r, Begun(u, r), r.by = "verify" => Shows(c, v)
  PROVE  Showing(u, v, c, r)
BY ShowingStarts DEF Begun

\* The handler r is what f is after its next link.
Follows(f, r) ==
  /\ r.by = flows[f].by /\ r.todo = Tail(flows[f].todo) /\ r.form = flows[f].form
  /\ r.configs = flows[f].configs

\* After a link.
LEMMA PromiseTail ==
  ASSUME Typed, NEW f \in Flows, Head1(f) \notin {None, "try"}, Tail(flows[f].todo) # <<>>,
         NEW r, Follows(f, r), NEW v, NEW x,
         Promise(setup, server, cached, flows[f]), Subscribed(setup, v, r),
         Head1(f) = "read" =>
           r.data.targets = v.targets /\ (x \/ r.data.wallets = v.wallets),
         cached => x,
         Head1(f) \in Contacting => v.targets = r.form,
         v.targets \in {server.targets, r.form},
         r.made => flows[f].made \/ v.targets = r.form,
         Head1(f) = "wallets" =>
           v.groups["userWallets"] = flows[f].data.wallets /\ v.wallets = server.wallets,
         Head1(f) = "ensureWallets" => v.groups["userWallets"] = v.wallets,
         Head1(f) \notin Grouping \cup Joining \cup Writers =>
           v.groups = server.groups /\ v.wallets = server.wallets
  PROVE  Promise(setup, v, x, r)
<1>1. /\ r.by = flows[f].by /\ r.todo = Tail(flows[f].todo) /\ r.form = flows[f].form
      /\ Head1(f) # None /\ Head1(f) # "try"
      /\ Contacted(server, flows[f]) /\ Grouped(server, cached, flows[f])
  BY DEF Follows, Promise
<1>2. Contacted(v, r)
  BY <1>1, ContactedTail
<1>3. Grouped(v, x, r)
  BY <1>1, GroupedTail
<1> QED
  BY <1>2, <1>3 DEF Promise

\* After a link that changes nothing of the service.
LEMMA PromiseKept ==
  ASSUME Typed, NEW f \in Flows, Tail(flows[f].todo) # <<>>,
         Head1(f) \notin OfName \cup Writers \cup Contacting \cup Grouping
                        \cup {None, "adopt", "try", "read"},
         NEW r, Follows(f, r), r.made = flows[f].made,
         Promise(setup, server, cached, flows[f]), Subscribed(setup, server, r)
  PROVE  Promise(setup, server, cached, r)
<1>1. /\ Head1(f) \notin {None, "try"} /\ Head1(f) # "read" /\ Head1(f) \notin Contacting
      /\ Head1(f) # "wallets" /\ Head1(f) # "ensureWallets"
  BY DEF Grouping
<1>2. /\ r.by = flows[f].by /\ r.todo = Tail(flows[f].todo) /\ r.form = flows[f].form
      /\ Head1(f) # None /\ Head1(f) # "try"
      /\ Contacted(server, flows[f]) /\ Grouped(server, cached, flows[f])
  BY <1>1 DEF Follows, Promise
<1>3. Contacted(server, r)
  BY <1>1, <1>2, ContactedTail
<1>4. Grouped(server, cached, r)
  BY <1>1, <1>2, GroupedTail
<1> QED
  BY <1>3, <1>4 DEF Promise

\* What is done by a handler at its last link.
LEMMA LastLink ==
  ASSUME Typed, NEW f \in Flows, Head1(f) \in {"render", "show"}, Tail(flows[f].todo) = <<>>
  PROVE  LET s == flows[f].todo IN
         /\ Head(s)[1] = Head1(f) /\ flows[f].by # None
         /\ ~Has(s, {"read", "try"}) /\ (Has(s, {"render"}) <=> Head1(f) = "render")
         /\ ~Has(s, Contacting) /\ ~Has(s, Grouping) /\ ~Has(s, {"adopt"})
         /\ \A n : ~Pending(s, n)
<1> DEFINE s == flows[f].todo
<1>1. Head1(f) # None
  BY NoneAssumption
<1>2. /\ \A K : Has(s, K) <=> Head1(f) \in K
      /\ \A link : In(link, s) <=> link = <<Head1(f), Arg(f)>>
  <2>1. \A K : ~Has(<<>>, K) /\ \A link : ~In(link, <<>>)
    BY DEF Has, In
  <2> QED
    BY <1>1, <2>1, Ahead, Zenon
<1>3. Head(s)[1] = Head1(f) /\ flows[f].by # None
  BY <1>1, Runs
<1> HIDE DEF s
<1>4. ~Has(s, {"read", "try"}) /\ (Has(s, {"render"}) <=> Head1(f) = "render")
      /\ ~Has(s, Contacting) /\ ~Has(s, Grouping) /\ ~Has(s, {"adopt"}) /\ ~Has(s, {"try"})
  BY <1>2 DEF Contacting, Grouping
<1>5. ASSUME NEW n  PROVE ~Pending(s, n)
  <2>1. \A k \in Seeing : <<k, n>> # <<Head1(f), Arg(f)>>
    BY DEF Seeing
  <2> QED
    BY <1>2, <1>4, <2>1, Zenon DEF Pending
<1> QED
  BY <1>3, <1>4, <1>5 DEF s

Outcome(r) == [by |-> r.by, form |-> r.form, configs |-> r.configs]

\* A handler that comes to its end has done what it was to do.
LEMMA ResultIs ==
  ASSUME Typed, NEW f \in Flows, Head1(f) \in {"render", "show"}, Tail(flows[f].todo) = <<>>,
         Promise(setup, server, cached, flows[f])
  PROVE  Result(setup, server, cached, Outcome(flows[f]))
<1> DEFINE s == flows[f].todo
           by == flows[f].by
           d == Outcome(flows[f])
<1>1. /\ ~Has(s, Contacting) /\ ~Has(s, Grouping) /\ ~Has(s, {"adopt"})
      /\ \A n : ~Pending(s, n)
  BY LastLink
<1>2. ASSUME by \in Subs
      PROVE  /\ server.targets = flows[f].form
             /\ \A n \in Names : Wanted(setup, server, flows[f].configs, n) =>
                  Stands(setup, server, n, flows[f].configs[n])
  <2>1. server.targets = flows[f].form
    BY <1>1, <1>2 DEF Promise, Contacted
  <2>2. ASSUME NEW n \in Names, Wanted(setup, server, flows[f].configs, n)
        PROVE  Stands(setup, server, n, flows[f].configs[n])
    <3>1. Settles(setup, server, flows[f], n)
      BY <1>2, <2>2 DEF Promise, Subscribed
    <3> QED
      BY <1>1, <3>1 DEF Settles
  <2> QED
    BY <2>1, <2>2
<1>3. by \in Verifying => cached \/ server.groups["userWallets"] = server.wallets
  BY <1>1 DEF Promise, Grouped
<1>4. d.by = by /\ d.form = flows[f].form /\ d.configs = flows[f].configs
  BY DEF Outcome
<1> HIDE DEF d
<1> QED
  BY <1>2, <1>3, <1>4 DEF Result, d

\* And the card shows what the service has.
LEMMA SeenIs ==
  ASSUME Typed, NEW f \in Flows, Head1(f) \in {"render", "show"}, Tail(flows[f].todo) = <<>>,
         Showing(setup, server, card, flows[f]), NEW c,
         IF Head1(f) = "render"
         THEN c.alerts = flows[f].data.alerts /\ c.email = flows[f].data.targets
         ELSE c.alerts = card.alerts /\ c.email = card.email
  PROVE  /\ flows[f].by # "fetchOnce" => Seen(setup, server, c, Outcome(flows[f]))
         /\ Fetches(setup, flows[f].by) => Shows(c, server)
<1> DEFINE s == flows[f].todo
           by == flows[f].by
           d == Outcome(flows[f])
<1>1. ~Has(s, {"read", "try"}) /\ (Has(s, {"render"}) <=> Head1(f) = "render")
  BY LastLink
<1>2. Agrees(flows[f].data, server) /\ Head1(f) = "render" => Shows(c, server)
  BY DEF Agrees, Shows
<1>3. Shows(card, server) /\ Head1(f) = "show" => Shows(c, server)
  BY DEF Shows
<1>4. Fetches(setup, by) => Shows(c, server)
  BY <1>1, <1>2, <1>3 DEF Showing
<1>5. by = "verify" => Shows(c, server)
  <2> SUFFICES ASSUME by = "verify" PROVE Shows(c, server)
    OBVIOUS
  <2>1. Shows(card, server) /\ (flows[f].data # None => Agrees(flows[f].data, server))
    BY DEF Showing
  <2>2. Head1(f) = "render" => flows[f].data # None
    BY FetchedData, NoneAssumption DEF UsesData
  <2> QED
    BY <1>2, <1>3, <2>1, <2>2
<1>6. d.by = by
  BY DEF Outcome
<1> HIDE DEF d
<1>7. by # "fetchOnce" => Seen(setup, server, c, d)
  BY <1>4, <1>5, <1>6 DEF Fetches, Seen
<1> QED
  BY <1>4, <1>7 DEF d

-----------------------------------------------------------------------------
(* What a handler does to the service, first fetches beside it or not.       *)

LEMMA ServeRuns ==
  ASSUME ServeInv, ~overlap, failures = 0, NEW f \in Flows, Handles(flows[f])
  PROVE  /\ Promise(setup, server, cached, flows[f])
         /\ \A g \in Flows : Handles(flows[g]) => g = f
         /\ done = None
BY DEF ServeInv

LEMMA ServeGoes ==
  ASSUME Typed, ServeInv, NEW f \in Flows, Handles(flows[f]), NEW r, Goes(f, r),
         setup' = setup, overlap' = overlap,
         ~overlap /\ failures = 0 /\ failures' = 0 =>
           /\ Handles(r) => Promise(setup, server', cached', r)
           /\ done' # None => ~Handles(r) /\ Result(setup, server', cached', done'),
         failures' = 0 => failures = 0
  PROVE  ServeInv'
<1> SUFFICES ASSUME ~overlap', failures' = 0
             PROVE  /\ \A g, h \in Flows : Handles(flows'[g]) /\ Handles(flows'[h]) => g = h
                    /\ \A g \in Flows : Handles(flows'[g]) =>
                         Promise(setup', server', cached', flows'[g])
                    /\ done' # None =>
                         (\A g \in Flows : ~Handles(flows'[g]))
                         /\ Result(setup', server', cached', done')
  BY DEF ServeInv, Handles
<1>1. flows'[f] = r /\ \A g \in Flows : g # f => flows'[g] = flows[g]
  BY OthersGo
<1>2. \A g \in Flows : Handles(flows[g]) => g = f
  BY ServeRuns
<1>3. \A g \in Flows : Handles(flows'[g]) => g = f /\ flows'[g] = r
  BY <1>1, <1>2
<1>4. /\ Handles(r) => Promise(setup, server', cached', r)
      /\ done' # None => ~Handles(r) /\ Result(setup, server', cached', done')
  OBVIOUS
<1> QED
  BY <1>3, <1>4

\* A first fetch changes nothing of the service.
LEMMA ServeBeside ==
  ASSUME Typed, ServeInv, NEW f \in Flows, ~Handles(flows[f]), NEW r, Goes(f, r), ~Handles(r),
         UNCHANGED <<setup, server, done, overlap, cached>>, failures' = 0 => failures = 0
  PROVE  ServeInv'
<1>1. flows'[f] = r /\ \A g \in Flows : g # f => flows'[g] = flows[g]
  BY OthersGo
<1>2. \A g \in Flows : /\ Handles(flows'[g]) <=> Handles(flows[g])
                       /\ Handles(flows[g]) => flows'[g] = flows[g]
  BY <1>1
<1> SUFFICES ASSUME ~overlap, failures = 0
             PROVE  /\ \A g, h \in Flows : Handles(flows'[g]) /\ Handles(flows'[h]) => g = h
                    /\ \A g \in Flows : Handles(flows'[g]) =>
                         Promise(setup, server, cached, flows'[g])
                    /\ done # None =>
                         (\A g \in Flows : ~Handles(flows'[g]))
                         /\ Result(setup, server, cached, done)
  BY DEF ServeInv, Handles
<1> QED
  BY <1>2 DEF ServeInv

LEMMA ServeInit == Init => ServeInv
<1> SUFFICES ASSUME Init PROVE ServeInv
  OBVIOUS
<1>1. \A f \in Flows : ~Handles(flows[f])
  BY DEF Init, NoFlow, Handles
<1>2. done = None
  BY DEF Init
<1> QED
  BY <1>1, <1>2 DEF ServeInv

\* A handler starts where none runs, or a first fetch.
LEMMA ServeStarts ==
  ASSUME Typed, ServeInv, NEW f \in Flows, NEW r, Starting(f, r)
  PROVE  ServeInv'
<1>1. /\ Start(f, r) /\ r.by # None /\ RunsWell(setup, r) /\ Begun(setup, r)
      /\ UNCHANGED <<setup, server, failures, kept, cached>>
  BY NoneAssumption DEF Starting
<1>2. flows'[f] = r /\ \A g \in Flows : g # f => flows'[g] = flows[g]
  BY <1>1, OthersGo
<1>3. ~Handles(flows[f])
  BY <1>1 DEF Start, Handles
<1>4. CASE r.by = "fetchOnce"
  <2>1. ~Handles(r) /\ done' = done /\ overlap' = overlap
    BY <1>1, <1>4 DEF Start, Handles
  <2>2. Goes(f, r)
    BY <1>1 DEF Start, Goes
  <2> QED
    BY <1>1, <1>3, <2>1, <2>2, ServeBeside
<1>5. CASE r.by # "fetchOnce"
  <2> SUFFICES ASSUME ~overlap', failures' = 0
               PROVE  /\ \A g, h \in Flows : Handles(flows'[g]) /\ Handles(flows'[h]) => g = h
                      /\ \A g \in Flows : Handles(flows'[g]) =>
                           Promise(setup', server', cached', flows'[g])
                      /\ done' = None
    BY DEF ServeInv, Handles
  <2>1. Handling = {} /\ done' = None
    BY <1>1, <1>5, Zenon DEF Start
  <2>2. \A g \in Flows : ~Handles(flows[g])
    BY <2>1 DEF Handling, Running, Handles
  <2>3. \A g \in Flows : Handles(flows'[g]) => g = f /\ flows'[g] = r
    BY <1>2, <2>2
  <2>4. Promise(setup, server', cached', r)
    <3>1. r.todo # <<>>
      BY <1>1 DEF RunsWell, Chained
    <3> QED
      BY <1>1, <3>1, PromiseBegun
  <2> QED
    BY <1>1, <2>1, <2>3, <2>4
<1> QED
  BY <1>4, <1>5

\* The user looks elsewhere.
LEMMA ServeViews ==
  ASSUME ServeInv, UNCHANGED <<setup, server, flows, failures, history>>
  PROVE  ServeInv'
<1>1. done' = done /\ overlap' = overlap /\ cached' = cached
  BY DEF history
<1> QED
  BY <1>1 DEF ServeInv

LEMMA GoesFurther ==
  ASSUME Typed, NEW f \in Flows, Head1(f) \notin Lasting \cup {None}
  PROVE  Tail(flows[f].todo) # <<>>
<1>1. /\ flows[f].todo \in Chains /\ flows[f].todo # <<>> /\ RunsWell(setup, flows[f])
      /\ Head1(f) = Head(flows[f].todo)[1] /\ Head1(f) # None /\ Head1(f) \notin Lasting
  BY Runs
<1> QED
  BY <1>1, TailChained DEF RunsWell

\* Who may run while the view for wallets is shown writes no alerts.
LEMMA WatchingWrites ==
  ASSUME Typed, NEW f \in Flows, Head1(f) # None, flows[f].by \in Watching
  PROVE  Head1(f) \notin Writers \cup {"try"}
<1>1. RunsWell(setup, flows[f]) /\ flows[f].by \notin Subs
  BY Runs DEF Watching, Subs
<1>2. ~Has(flows[f].todo, Writers \cup {"try"})
  BY <1>1 DEF RunsWell, Chained
<1> QED
  BY <1>2, Ahead

LEMMA Next1Is ==
  ASSUME Typed, NEW f \in Flows
  PROVE  /\ Follows(f, Next1(f)) /\ Next1(f).data = flows[f].data
         /\ Next1(f).made = flows[f].made
<1>1. flows[f] \in FlowState
  BY DEF Typed
<1> QED
  BY <1>1 DEF Next1, Follows, FlowState

\* What a request changes.
LEMMA EffectIs ==
  ASSUME Typed, NEW f \in Flows, Requesting(f)
  PROVE  LET v == Effect(f)
             form == flows[f].form
         IN  /\ v.targets \in {server.targets, form}
             /\ Head1(f) \in {"create", "update", "targets"} => v.targets = form
             /\ Head1(f) = "targetsUnlessMade" => v.targets = form \/ (flows[f].made /\ v = server)
             /\ Head1(f) \notin OfName => v.alerts = server.alerts
             /\ Head1(f) \notin OfName \cup Grouping => v.groups = server.groups
             /\ Head1(f) \notin Writers => v.targets = server.targets
             /\ Head1(f) \notin Joining => v.wallets = server.wallets
             /\ Head1(f) = "wallets" => v.groups["userWallets"] = flows[f].data.wallets
             /\ Head1(f) = "ensureWallets" => v.groups["userWallets"] = server.wallets
             /\ Head1(f) = "adopt" => v = server
<1> DEFINE v == Effect(f)
           n == Arg(f)
           config == flows[f].configs[n]
           form == flows[f].form
<1>1. /\ server = [alerts |-> server.alerts, targets |-> server.targets,
                   wallets |-> server.wallets, groups |-> server.groups]
      /\ server.groups \in [Groups -> (SUBSET Sources) \cup {None}] /\ "userWallets" \in Groups
  BY DEF Typed, ServerState, Groups
<1> DEFINE Goal ==
             /\ v.targets \in {server.targets, form}
             /\ Head1(f) \in {"create", "update", "targets"} => v.targets = form
             /\ Head1(f) = "targetsUnlessMade" => v.targets = form \/ (flows[f].made /\ v = server)
             /\ Head1(f) \notin OfName => v.alerts = server.alerts
             /\ Head1(f) \notin OfName \cup Grouping => v.groups = server.groups
             /\ Head1(f) \notin Writers => v.targets = server.targets
             /\ Head1(f) \notin Joining => v.wallets = server.wallets
             /\ Head1(f) = "wallets" => v.groups["userWallets"] = flows[f].data.wallets
             /\ Head1(f) = "ensureWallets" => v.groups["userWallets"] = server.wallets
             /\ Head1(f) = "adopt" => v = server
<1>2. ASSUME Head1(f) = "delete"  PROVE Goal
  BY <1>1, <1>2 DEF Effect, OfName, Writers
<1>3. ASSUME Head1(f) = "create"  PROVE Goal
  <2>1. v = Created(n, config, flows[f].data, form)
    BY <1>3 DEF Effect
  <2>2. v.targets = form /\ v.wallets = server.wallets
    <3> DEFINE m == Maintained(n, config, flows[f].data)
    <3>1. DOMAIN m = DOMAIN server /\ m.wallets = server.wallets
      BY <1>1 DEF Maintained, Sourced
    <3>2. v = [m EXCEPT !.alerts[n] = Stored(config.options), !.targets = form]
      BY <2>1 DEF Created
    <3> HIDE DEF m
    <3> QED
      BY <1>1, <3>1, <3>2
  <2> QED
    BY <1>3, <2>2 DEF OfName, Writers
<1>4. ASSUME Head1(f) \in {"update", "targets"}  PROVE Goal
  <2>1. v = [server EXCEPT !.targets = form]
    BY <1>4 DEF Effect
  <2> QED
    BY <1>1, <1>4, <2>1 DEF Writers
<1>5. ASSUME Head1(f) = "targetsUnlessMade"  PROVE Goal
  <2>1. v = IF flows[f].made THEN server ELSE [server EXCEPT !.targets = form]
    BY <1>5 DEF Effect
  <2> QED
    BY <1>1, <1>5, <2>1 DEF Writers
<1>6. ASSUME Head1(f) = "ensure"  PROVE Goal
  <2>1. v = server \/ v = Ensured(n, config)
    BY <1>6 DEF Effect
  <2>2. v.targets = server.targets /\ v.wallets = server.wallets
    <3> DEFINE m == Sourced(n, config, SourcesOf(n, config))
    <3>1. /\ m.targets = server.targets /\ m.wallets = server.wallets
          /\ {"targets", "wallets"} \subseteq DOMAIN m
      <4>1. {"targets", "wallets"} \subseteq DOMAIN server
        BY DEF Typed, ServerState
      <4> QED
        BY <4>1 DEF Sourced
    <3>2. v = server \/ v = m \/ v = [m EXCEPT !.alerts[n] = Stored(config.options)]
      BY <2>1 DEF Ensured
    <3> HIDE DEF m, v
    <3> QED
      BY <3>1, <3>2
  <2> QED
    BY <1>6, <2>2 DEF OfName, Writers
<1>7. ASSUME Head1(f) = "wallets"  PROVE Goal
  <2>1. v = [server EXCEPT !.groups["userWallets"] = flows[f].data.wallets]
    BY <1>7 DEF Effect
  <2> QED
    BY <1>1, <1>7, <2>1 DEF Grouping
<1>8. ASSUME Head1(f) = "ensureWallets"  PROVE Goal
  <2>1. v = [server EXCEPT !.groups["userWallets"] = server.wallets]
    BY <1>8 DEF Effect
  <2> QED
    BY <1>1, <1>8, <2>1 DEF Grouping
<1>9. ASSUME Head1(f) \in {"connect", "take"}  PROVE Goal
  <2>1. v = [server EXCEPT !.wallets = @ \cup {n}]
    BY <1>9 DEF Effect
  <2> QED
    BY <1>1, <1>9, <2>1 DEF Joining
<1>10. ASSUME Head1(f) = "adopt"  PROVE Goal
  <2>1. v = server
    BY <1>10 DEF Effect
  <2> QED
    BY <1>10, <2>1
<1>11. Goal
  <2> HIDE DEF Goal
  <2> QED
    BY <1>2, <1>3, <1>4, <1>5, <1>6, <1>7, <1>8, <1>9, <1>10 DEF Requesting
<1> QED
  BY <1>11

\* The alerts after a request.
LEMMA SubscribedRequest ==
  ASSUME Typed, ConfiguredInv, NEW f \in Flows, Requesting(f),
         Head1(f) = "adopt" => flows[f].data.targets # None,
         NEW r, Follows(f, r), r.data = flows[f].data,
         Contacted(server, flows[f]), Subscribed(setup, server, flows[f])
  PROVE  Subscribed(setup, Effect(f), r)
<1>1. /\ r.by = flows[f].by /\ r.todo = Tail(flows[f].todo) /\ r.form = flows[f].form
      /\ r.configs = flows[f].configs
  BY DEF Follows
<1>2. CASE Head1(f) = "delete"
  BY <1>1, <1>2, SubscribedDelete
<1>3. CASE Head1(f) = "create"
  BY <1>1, <1>3, SubscribedCreate
<1>4. CASE Head1(f) = "update"
  BY <1>1, <1>4, SubscribedUpdate
<1>5. CASE Head1(f) = "ensure"
  BY <1>1, <1>5, SubscribedEnsure
<1>6. CASE Head1(f) = "adopt"
  <2>1. Effect(f) = server
    BY <1>6 DEF Effect
  <2> QED
    BY <1>1, <1>6, <2>1, SubscribedAdopt
<1>7. CASE Head1(f) \in {"targets", "targetsUnlessMade", "wallets", "ensureWallets",
                          "connect", "take"}
  <2>1. Head1(f) \notin OfName \cup {"adopt", "try", "read"} /\ Head1(f) # None
    BY <1>7, NoneAssumption DEF OfName
  <2>2. flows[f].by \in Subs => Head1(f) \notin Grouping
    <3> SUFFICES ASSUME flows[f].by \in Subs PROVE Head1(f) \notin Grouping
      OBVIOUS
    <3>1. flows[f].by # None
      BY <2>1, Runs
    <3>2. ~Has(flows[f].todo, Grouping)
      BY <3>1 DEF ConfiguredInv, Configures, Signing
    <3> QED
      BY <2>1, <3>2, Ahead
  <2>3. r.by \in Subs =>
          /\ Effect(f).alerts = server.alerts /\ Effect(f).groups = server.groups
          /\ Head1(f) \in Joining \/ Effect(f).wallets = server.wallets
    BY <1>1, <2>1, <2>2, EffectIs
  <2> QED
    BY <1>1, <2>1, <2>3, SubscribedTail
<1> QED
  BY <1>2, <1>3, <1>4, <1>5, <1>6, <1>7 DEF Requesting

LEMMA ServeLogin ==
  ASSUME Typed, ServeInv, NEW f \in Flows, Login(f), Handles(flows[f])
  PROVE  ServeInv'
<1> DEFINE r == Next1(f)
<1>1. /\ Head1(f) = "login" /\ Goes(f, r)
      /\ server' = [server EXCEPT !.wallets = @ \cup {"own"}]
      /\ UNCHANGED <<setup, failures, done, overlap, cached>>
  BY DEF Login, Writes
<1>2. /\ server'.alerts = server.alerts /\ server'.groups = server.groups
      /\ server'.targets = server.targets
  BY <1>1 DEF Typed, ServerState
<1>3. Head1(f) # None /\ Tail(flows[f].todo) # <<>>
  BY <1>1, NoneAssumption, GoesFurther DEF Lasting
<1>4. Follows(f, r) /\ r.data = flows[f].data /\ r.made = flows[f].made
  BY Next1Is
<1> HIDE DEF r
<1>5. /\ Head1(f) \notin OfName \cup Writers \cup Contacting \cup Grouping \cup {"adopt", "try"}
      /\ Head1(f) \in Joining
  BY <1>1 DEF OfName, Writers, Contacting, Grouping, Joining
<1>6. ASSUME Promise(setup, server, cached, flows[f])
      PROVE  Promise(setup, server', cached', r)
  <2>1. Subscribed(setup, server', r)
    BY <1>1, <1>2, <1>3, <1>4, <1>5, <1>6, SubscribedTail, Zenon DEF Promise, Follows
  <2> QED
    BY <1>1, <1>2, <1>3, <1>4, <1>5, <1>6, <2>1, PromiseTail, Zenon
<1> QED
  BY <1>1, <1>6, ServeRuns, ServeGoes, Zenon

LEMMA ServeRead ==
  ASSUME Typed, ServeInv, NEW f \in Flows, Read(f), Handles(flows[f])
  PROVE  ServeInv'
<1>1. /\ Head1(f) = "read"
      /\ UNCHANGED <<setup, server, failures, done, overlap>>
  BY DEF Read
<1>2. PICK wallets : /\ Goes(f, [Next1(f) EXCEPT !.data = [server EXCEPT !.wallets = wallets]])
                     /\ cached' = (cached \/ wallets # server.wallets)
  BY DEF Read
<1> DEFINE data == [server EXCEPT !.wallets = wallets]
           r == [Next1(f) EXCEPT !.data = data]
<1>3. Head1(f) # None /\ Tail(flows[f].todo) # <<>>
  BY <1>1, NoneAssumption, GoesFurther DEF Lasting
<1>4. data.alerts = server.alerts /\ data.targets = server.targets /\ data.wallets = wallets
  BY DEF Typed, ServerState
<1> HIDE DEF data
<1>5. Follows(f, r) /\ r.data = data /\ r.made = flows[f].made
  <2>1. flows[f] \in FlowState
    BY DEF Typed
  <2> QED
    BY <2>1 DEF Next1, Follows, FlowState
<1>6. Goes(f, r)
  BY <1>2 DEF data
<1> HIDE DEF r
<1>7. Head1(f) \notin OfName \cup Writers \cup Contacting \cup Grouping \cup {"adopt", "try"}
  BY <1>1 DEF OfName, Writers, Contacting, Grouping
<1>8. ASSUME Promise(setup, server, cached, flows[f])
      PROVE  Promise(setup, server', cached', r)
  <2>1. Subscribed(setup, server, r)
    BY <1>1, <1>3, <1>4, <1>5, <1>7, <1>8, SubscribedTail DEF Promise, Follows
  <2>2. cached' \/ r.data.wallets = server.wallets
    BY <1>2, <1>4, <1>5, Zenon
  <2>3. cached => cached'
    BY <1>2, Zenon
  <2>4. Promise(setup, server, cached', r)
    BY <1>1, <1>3, <1>4, <1>5, <1>7, <1>8, <2>1, <2>2, <2>3, PromiseTail
  <2> QED
    BY <1>1, <2>4
<1> QED
  BY <1>1, <1>6, <1>8, ServeRuns, ServeGoes

\* A render, or a view, be there more links or not.
LEMMA ServeEnds ==
  ASSUME Typed, ServeInv, NEW f \in Flows, Render(f) \/ Show(f), Handles(flows[f])
  PROVE  ServeInv'
<1> DEFINE r == Ends(f)
           s == flows[f].todo
<1>0. /\ Head1(f) \in {"render", "show"} /\ Goes(f, r) /\ done' = Through(f)
      /\ UNCHANGED <<setup, server, failures, overlap, cached>>
  BY DEF Render, Show
<1>1. /\ Len(s) > 1 => Tail(s) # <<>> /\ r = Next1(f)
      /\ ~(Len(s) > 1) => Tail(s) = <<>> /\ r = NoFlow
  BY <1>0, EndsIs
<1>2. Head1(f) # None
  BY <1>0, NoneAssumption
<1>3. Follows(f, Next1(f)) /\ Next1(f).data = flows[f].data /\ Next1(f).made = flows[f].made
  BY Next1Is
<1>4. Head1(f) \notin OfName \cup Writers \cup Contacting \cup Grouping \cup {"adopt", "try", "read"}
  BY <1>0 DEF OfName, Writers, Contacting, Grouping
<1> HIDE DEF r
<1>5. ASSUME Promise(setup, server, cached, flows[f]), Len(s) > 1
      PROVE  Promise(setup, server, cached, r)
  <2>1. Subscribed(setup, server, r)
    BY <1>1, <1>2, <1>3, <1>4, <1>5, SubscribedTail DEF Promise, Follows
  <2>2. Tail(s) # <<>> /\ Follows(f, r) /\ r.data = flows[f].data /\ r.made = flows[f].made
    BY <1>1, <1>3, <1>5
  <2>3. Head1(f) \notin OfName \cup Writers \cup Contacting \cup Grouping
                         \cup {None, "adopt", "try", "read"}
    BY <1>2, <1>4
  <2> QED
    BY <1>5, <2>1, <2>2, <2>3, PromiseKept
<1>6. ASSUME done = None, done' # None, Promise(setup, server, cached, flows[f])
      PROVE  r = NoFlow /\ Result(setup, server, cached, done')
  <2>1. ~(Len(s) > 1) /\ done' = Outcome(flows[f])
    BY <1>0, <1>6 DEF Through, Outcome
  <2>2. Tail(s) = <<>> /\ r = NoFlow
    BY <1>1, <2>1
  <2> QED
    BY <1>0, <1>6, <2>1, <2>2, ResultIs
<1>7. Handles(r) => Len(s) > 1
  BY <1>1, NoFlowIs DEF Handles
<1>8. ~Handles(NoFlow)
  BY NoFlowIs DEF Handles
<1> HIDE DEF s
<1>9. ASSUME ~overlap, failures = 0
      PROVE  /\ Handles(r) => Promise(setup, server', cached', r)
             /\ done' # None => ~Handles(r) /\ Result(setup, server', cached', done')
  BY <1>0, <1>5, <1>6, <1>7, <1>8, <1>9, ServeRuns
<1> QED
  BY <1>0, <1>9, ServeGoes

LEMMA ServeLocal ==
  ASSUME Typed, ConfiguredInv, ServeInv, NEW f \in Flows, Local(f), Handles(flows[f])
  PROVE  ServeInv'
<1>1. UNCHANGED <<setup, server, failures, done, overlap, cached>>
  BY DEF Local, history
<1>2. CASE Head1(f) = "try"
  <2>1. Goes(f, TryFlow(f))
    BY <1>2 DEF Local, TryFlow
  <2>2. Promise(setup, server', cached', TryFlow(f))
    BY <1>2, PromiseTry
  <2> QED
    BY <1>1, <2>1, <2>2, ServeRuns, ServeGoes, Zenon
<1>3. CASE Head1(f) = "idle"
  <2> DEFINE r == Next1(f)
  <2>1. Goes(f, r)
    BY <1>3 DEF Local
  <2>2. Head1(f) # None /\ Tail(flows[f].todo) # <<>>
    BY <1>3, NoneAssumption, GoesFurther DEF Lasting
  <2>3. Follows(f, r) /\ r.data = flows[f].data /\ r.made = flows[f].made
    BY Next1Is
  <2> HIDE DEF r
  <2>4. Head1(f) \notin OfName \cup Writers \cup Contacting \cup Grouping
                         \cup {"adopt", "try", "read", "render"}
    BY <1>3 DEF OfName, Writers, Contacting, Grouping
  <2>5. ASSUME Promise(setup, server, cached, flows[f])
        PROVE  Promise(setup, server', cached', r)
    <3>1. Subscribed(setup, server, r)
      BY <2>2, <2>3, <2>4, <2>5, SubscribedTail DEF Promise, Follows
    <3>2. Head1(f) \notin OfName \cup Writers \cup Contacting \cup Grouping
                           \cup {None, "adopt", "try", "read"}
      BY <2>2, <2>4
    <3>3. Promise(setup, server, cached, r)
      BY <2>2, <2>3, <2>5, <3>1, <3>2, PromiseKept
    <3> QED
      BY <1>1, <3>3
  <2> QED
    BY <1>1, <2>1, <2>5, ServeRuns, ServeGoes, Zenon
<1> QED
  BY <1>2, <1>3 DEF Local

LEMMA ServePlan ==
  ASSUME Typed, ConfiguredInv, ServeInv, NEW f \in Flows, Plan(f), Handles(flows[f])
  PROVE  ServeInv'
<1>1. /\ Head1(f) = "alert" /\ Goes(f, PlanFlow(f))
      /\ UNCHANGED <<setup, server, failures, done, overlap, cached>>
  BY DEF Plan, PlanFlow, history
<1>2. ASSUME Promise(setup, server, cached, flows[f])
      PROVE  Promise(setup, server', cached', PlanFlow(f))
  <2>1. Promise(setup, server, cached, PlanFlow(f))
    BY <1>1, <1>2, PromisePlan
  <2> QED
    BY <1>1, <2>1
<1> QED
  BY <1>1, <1>2, ServeRuns, ServeGoes, Zenon

LEMMA ServeRequest ==
  ASSUME Typed, ConfiguredInv, ServeInv, NEW f \in Flows, Request(f), Handles(flows[f])
  PROVE  ServeInv'
<1> DEFINE made == Head1(f) \in {"create", "update"}
           r == [Next1(f) EXCEPT !.made = @ \/ made]
           v == Effect(f)
<1>1. /\ Requesting(f) /\ Goes(f, r) /\ server' = v
      /\ Head1(f) = "adopt" => flows[f].data.targets # None
      /\ UNCHANGED <<setup, failures, done, overlap, cached>>
  BY DEF Request, Writes
<1>2. Head1(f) # None /\ Tail(flows[f].todo) # <<>>
  <2>1. Head1(f) \notin Lasting \cup {None}
    BY <1>1, NoneAssumption DEF Requesting, Lasting
  <2> QED
    BY <2>1, GoesFurther
<1>3. Follows(f, r) /\ r.data = flows[f].data /\ r.made = (flows[f].made \/ made)
  <2>1. flows[f] \in FlowState
    BY DEF Typed
  <2> QED
    BY <2>1 DEF Next1, Follows, FlowState
<1>4. Head1(f) \notin {None, "try", "read", "render", "login"}
  BY <1>1, NoneAssumption DEF Requesting
<1> HIDE DEF r, v, made
<1>5. r.form = flows[f].form /\ r.by = flows[f].by
  BY <1>3 DEF Follows
<1>6. /\ v.targets \in {server.targets, r.form}
      /\ Head1(f) \in {"create", "update", "targets"} => v.targets = r.form
      /\ Head1(f) = "targetsUnlessMade" => v.targets = r.form \/ (flows[f].made /\ v = server)
      /\ Head1(f) \notin OfName => v.alerts = server.alerts
      /\ Head1(f) \notin OfName \cup Grouping => v.groups = server.groups
      /\ Head1(f) \notin Writers => v.targets = server.targets
      /\ Head1(f) \notin Joining => v.wallets = server.wallets
      /\ Head1(f) = "wallets" => v.groups["userWallets"] = flows[f].data.wallets
      /\ Head1(f) = "ensureWallets" => v.groups["userWallets"] = server.wallets
  BY <1>1, <1>5, EffectIs DEF v
<1>7. OfName \subseteq Writers
  BY DEF OfName, Writers
<1>8. ASSUME Promise(setup, server, cached, flows[f])
      PROVE  Promise(setup, v, cached, r)
  <2>1. Subscribed(setup, v, r)
    BY <1>1, <1>3, <1>8, SubscribedRequest DEF Promise, v
  <2>2. flows[f].made => server.targets = r.form
    BY <1>5, <1>8 DEF Promise, Contacted
  <2>3. Head1(f) \in Contacting => v.targets = r.form
    BY <1>4, <1>6, <2>2 DEF Contacting
  <2>4. r.made => flows[f].made \/ v.targets = r.form
    BY <1>3, <1>6, Zenon DEF made
  <2>5. /\ Head1(f) = "wallets" =>
             v.groups["userWallets"] = flows[f].data.wallets /\ v.wallets = server.wallets
        /\ Head1(f) = "ensureWallets" => v.groups["userWallets"] = v.wallets
    BY <1>6 DEF Joining
  <2>6. Head1(f) \notin Grouping \cup Joining \cup Writers =>
          v.groups = server.groups /\ v.wallets = server.wallets
    BY <1>6, <1>7
  <2> QED
    BY <1>2, <1>3, <1>4, <1>6, <1>8, <2>1, <2>3, <2>4, <2>5, <2>6, PromiseTail
<1>9. ASSUME ~overlap, failures = 0
      PROVE  /\ Promise(setup, server', cached', r) /\ done' = None
  BY <1>1, <1>8, <1>9, ServeRuns
<1> QED
  BY <1>1, <1>9, ServeGoes

\* A handler that is through for nothing.
LEMMA ServeStops ==
  ASSUME Typed, ServeInv, NEW f \in Flows, Goes(f, NoFlow), Handles(flows[f]),
         UNCHANGED <<setup, failures, overlap, done, cached>>, server' = server
  PROVE  ServeInv'
<1>1. ~Handles(NoFlow)
  BY NoFlowIs DEF Handles
<1> QED
  BY <1>1, ServeRuns, ServeGoes

LEMMA ServeFail ==
  ASSUME Typed, ServeInv, NEW f \in Flows, Fail(f), Handles(flows[f])
  PROVE  ServeInv'
<1>1. failures \in Nat
  BY DEF Typed
<1>2. CASE Head1(f) = "adopt" \/ Refused(f)
  <2>1. Head1(f) # "ensure"
    BY <1>2 DEF Refused
  <2>2. /\ server' = server /\ Goes(f, NoFlow)
        /\ UNCHANGED <<setup, failures, done, overlap, cached>>
    BY <1>2, <2>1 DEF Fail, history
  <2> QED
    BY <2>2, ServeStops
<1>3. CASE ~(Head1(f) = "adopt" \/ Refused(f))
  <2>1. failures' = failures + 1
    BY <1>3 DEF Fail
  <2>2. failures' # 0
    BY <1>1, <2>1
  <2> QED
    BY <2>2 DEF ServeInv
<1> QED
  BY <1>2, <1>3

\* A first fetch fetches and renders.
LEMMA FetchOnceSteps ==
  ASSUME Typed, NEW f \in Flows, flows[f].by = "fetchOnce", Step(f)
  PROVE  Read(f) \/ Render(f) \/ (Head1(f) = "read" /\ Fail(f))
<1>1. Head1(f) # None
  BY NoneAssumption DEF Step, Login, Read, Render, Show, Local, Plan, Request, Conflict, Fail,
                        Requesting
<1>2. RunsWell(setup, flows[f]) /\ flows[f].todo \in Chains /\ flows[f].todo # <<>>
      /\ Head1(f) = Head(flows[f].todo)[1]
  BY <1>1, Runs
<1>3. Head1(f) \in {"read", "render"}
  <2>1. Head1(f) \notin Working
    BY <1>2, HasTail DEF RunsWell, Chained
  <2> QED
    BY <1>2, <2>1, LinkIs DEF Working
<1> QED
  BY <1>3 DEF Step, Login, Read, Render, Show, Local, Plan, Request, Conflict, Fail, Requesting

LEMMA ServeFetchOnce ==
  ASSUME Typed, ServeInv, NEW f \in Flows, flows[f].by = "fetchOnce", Step(f)
  PROVE  ServeInv'
<1>1. ~Handles(flows[f]) /\ flows[f] \in FlowState
  BY DEF Handles, Typed
<1>2. CASE Read(f)
  <2>1. PICK wallets \in {server.wallets} :
          /\ Goes(f, [Next1(f) EXCEPT !.data = [server EXCEPT !.wallets = wallets]])
          /\ cached' = (cached \/ wallets # server.wallets)
    BY <1>2 DEF Read
  <2> DEFINE r == [Next1(f) EXCEPT !.data = [server EXCEPT !.wallets = wallets]]
  <2>2. r.by = "fetchOnce"
    BY <1>1 DEF Next1, FlowState
  <2>3. Goes(f, r) /\ cached' = cached
    BY <2>1 DEF Typed
  <2> HIDE DEF r
  <2>4. ~Handles(r)
    BY <2>2 DEF Handles
  <2> QED
    BY <1>1, <1>2, <2>3, <2>4, ServeBeside DEF Read
<1>3. CASE Render(f)
  <2> DEFINE r == Ends(f)
  <2>1. /\ Goes(f, r) /\ done' = done
        /\ UNCHANGED <<setup, server, failures, overlap, cached>>
    BY <1>3 DEF Render, Through
  <2>2. ~Handles(r)
    <3>1. Next1(f).by = "fetchOnce" /\ NoFlow.by = None
      BY <1>1, NoFlowIs DEF Next1, FlowState
    <3> QED
      BY <3>1 DEF Ends, Handles
  <2> HIDE DEF r
  <2> QED
    BY <1>1, <2>1, <2>2, ServeBeside
<1>4. CASE Head1(f) = "read" /\ Fail(f)
  <2>1. failures \in Nat /\ failures' = failures + 1
    BY <1>4 DEF Fail, Refused, Typed
  <2>2. failures' # 0
    BY <2>1
  <2> QED
    BY <2>2 DEF ServeInv
<1> QED
  BY <1>2, <1>3, <1>4, FetchOnceSteps

LEMMA ServeNext == Typed /\ ConfiguredInv /\ ServeInv /\ [Next]_vars => ServeInv'
<1> SUFFICES ASSUME Typed, ConfiguredInv, ServeInv, [Next]_vars PROVE ServeInv'
  OBVIOUS
<1>1. CASE FirstView \/ Settings \/ Edit \/ Back \/ \E email \in Emails \cup {None} : Type(email)
  <2>1. UNCHANGED <<setup, server, flows, failures, history>>
    BY <1>1, Zenon DEF FirstView, Settings, Edit, Back, Type, Inputs
  <2> QED
    BY <2>1, ServeViews
<1>2. ASSUME NEW f \in Flows, Act(f)  PROVE ServeInv'
  BY <1>2, ActStarts, ServeStarts
<1>3. ASSUME NEW f \in Flows, Step(f)  PROVE ServeInv'
  <2>1. CASE flows[f].by = "fetchOnce"
    BY <1>3, <2>1, ServeFetchOnce
  <2>2. CASE flows[f].by # "fetchOnce"
    <3>1. Handles(flows[f])
      <4>1. Head1(f) # None
        BY <1>3, NoneAssumption DEF Step, Login, Read, Render, Show, Local, Plan, Request,
                                    Conflict, Fail, Requesting
      <4> QED
        BY <2>2, <4>1, Runs DEF Handles
    <3>2. CASE Conflict(f)
      <4>1. Goes(f, NoFlow) /\ server' = server
            /\ UNCHANGED <<setup, failures, overlap, done, cached>>
        BY <3>2 DEF Conflict, history
      <4> QED
        BY <3>1, <4>1, ServeStops
    <3> QED
      BY <1>3, <3>1, <3>2, ServeLogin, ServeRead, ServeEnds, ServeLocal, ServePlan,
         ServeRequest, ServeFail DEF Step
  <2> QED
    BY <2>1, <2>2
<1>4. CASE UNCHANGED vars
  <2>1. UNCHANGED <<setup, server, flows, failures, history>>
    BY <1>4 DEF vars
  <2> QED
    BY <2>1, ServeViews
<1> QED
  BY <1>1, <1>2, <1>3, <1>4 DEF Next

-----------------------------------------------------------------------------
(* What the card shows, with nothing beside the handler.                     *)

Watches1(v, c, r) ==
  c.view = "verify" => Shows(c, v) /\ (r.by # None => r.by \in Watching)

LEMMA ShowRuns ==
  ASSUME ShowInv, ~beside, failures = 0, NEW f \in Flows, flows[f].by # None
  PROVE  /\ Showing(setup, server, card, flows[f])
         /\ \A g \in Flows : flows[g].by # None => g = f
         /\ Handles(flows[f]) => done = None
         /\ done # None => Seen(setup, server, card, done)
         /\ Watches1(server, card, flows[f])
BY DEF ShowInv, Watches1

LEMMA ShowGoes ==
  ASSUME Typed, ShowInv, NEW f \in Flows, flows[f].by # None, NEW r, Goes(f, r),
         setup' = setup, beside' = beside,
         ~beside /\ failures = 0 /\ failures' = 0 =>
           /\ r.by # None => Showing(setup, server', card', r)
           /\ done' # None => ~Handles(r) /\ Seen(setup, server', card', done')
           /\ Watches1(server', card', r),
         failures' = 0 => failures = 0
  PROVE  ShowInv'
<1> SUFFICES ASSUME ~beside', failures' = 0
             PROVE  /\ \A g, h \in Flows : flows'[g].by # None /\ flows'[h].by # None => g = h
                    /\ \A g \in Flows : flows'[g].by # None =>
                         Showing(setup', server', card', flows'[g])
                    /\ done' # None =>
                         (\A g \in Flows : ~Handles(flows'[g]))
                         /\ Seen(setup', server', card', done')
                    /\ card'.view = "verify" =>
                         Shows(card', server') /\ \A g \in Flows : flows'[g].by # None =>
                                                    flows'[g].by \in Watching
  BY DEF ShowInv, Handles
<1>1. flows'[f] = r /\ \A g \in Flows : g # f => flows'[g] = flows[g]
  BY OthersGo
<1>2. \A g \in Flows : flows[g].by # None => g = f
  BY ShowRuns
<1>3. \A g \in Flows : flows'[g].by # None => g = f /\ flows'[g] = r
  BY <1>1, <1>2
<1>4. /\ r.by # None => Showing(setup, server', card', r)
      /\ done' # None => ~Handles(r) /\ Seen(setup, server', card', done')
      /\ Watches1(server', card', r)
  OBVIOUS
<1>5. done' # None => \A g \in Flows : ~Handles(flows'[g])
  BY <1>3, <1>4 DEF Handles
<1> QED
  BY <1>3, <1>4, <1>5 DEF Watches1

LEMMA ShowInit == Init => ShowInv
<1> SUFFICES ASSUME Init PROVE ShowInv
  OBVIOUS
<1>1. \A f \in Flows : flows[f].by = None
  BY DEF Init, NoFlow
<1>2. done = None /\ card.view # "verify"
  BY DEF Init
<1> QED
  BY <1>1, <1>2 DEF ShowInv

\* Of two cards with the same alerts and contacts, both show what the service has
\* or none does.
LEMMA SameShown ==
  ASSUME NEW c, NEW c1, c1.alerts = c.alerts, c1.email = c.email, NEW u, NEW v
  PROVE  /\ Shows(c1, v) <=> Shows(c, v)
         /\ \A r : Showing(u, v, c1, r) <=> Showing(u, v, c, r)
         /\ \A d : Seen(u, v, c1, d) <=> Seen(u, v, c, d)
<1>1. Shows(c1, v) <=> Shows(c, v)
  BY DEF Shows
<1> QED
  BY <1>1 DEF Showing, Seen

\* A handler starts where none runs.
LEMMA ShowStarts ==
  ASSUME Typed, ShowInv, NEW f \in Flows, NEW r, Starting(f, r)
  PROVE  ShowInv'
<1>1. /\ Start(f, r) /\ r.by # None /\ Begun(setup, r)
      /\ r.by = "verify" => card.view = "verify"
      /\ card.view = "verify" => r.by \in Watching
      /\ card'.alerts = card.alerts /\ card'.email = card.email /\ card'.view = card.view
      /\ UNCHANGED <<setup, server, failures, kept, cached>>
  BY NoneAssumption DEF Starting, Watching
<1> SUFFICES ASSUME ~beside', failures' = 0
             PROVE  /\ \A g, h \in Flows : flows'[g].by # None /\ flows'[h].by # None => g = h
                    /\ \A g \in Flows : flows'[g].by # None =>
                         Showing(setup', server', card', flows'[g])
                    /\ done' # None =>
                         (\A g \in Flows : ~Handles(flows'[g]))
                         /\ Seen(setup', server', card', done')
                    /\ card'.view = "verify" =>
                         Shows(card', server') /\ \A g \in Flows : flows'[g].by # None =>
                                                    flows'[g].by \in Watching
  BY DEF ShowInv, Handles
<1>2. flows'[f] = r /\ \A g \in Flows : g # f => flows'[g] = flows[g]
  BY <1>1, OthersGo
<1>3. ~beside /\ Running = {} /\ (done' # None => done' = done /\ r.by = "fetchOnce")
  BY <1>1, Zenon DEF Start
<1>4. \A g \in Flows : flows'[g].by # None => g = f /\ flows'[g] = r
  BY <1>2, <1>3 DEF Running
<1>5. /\ card.view = "verify" => Shows(card, server)
      /\ done # None => Seen(setup, server, card, done)
  BY <1>1, <1>3 DEF ShowInv
<1>6. /\ card.view = "verify" => Shows(card', server)
      /\ done # None => Seen(setup, server, card', done)
  BY <1>1, <1>5, SameShown
<1>7. Showing(setup, server', card', r)
  BY <1>1, <1>6, ShowingBegun
<1>8. done' # None => \A g \in Flows : ~Handles(flows'[g])
  BY <1>3, <1>4 DEF Handles
<1> QED
  BY <1>1, <1>3, <1>4, <1>6, <1>7, <1>8

\* The user looks elsewhere.
LEMMA ShowViews ==
  ASSUME Typed, ShowInv,
         UNCHANGED <<setup, server, flows, failures, history>>,
         card'.alerts = card.alerts, card'.email = card.email,
         card'.view = "verify" => card.view = "verify"
  PROVE  ShowInv'
<1>1. /\ Shows(card', server) <=> Shows(card, server)
      /\ \A r : Showing(setup, server, card', r) <=> Showing(setup, server, card, r)
      /\ \A d : Seen(setup, server, card', d) <=> Seen(setup, server, card, d)
  BY SameShown
<1>2. done' = done /\ beside' = beside
  BY DEF history
<1> SUFFICES ASSUME ~beside, failures = 0
             PROVE  /\ \A f, g \in Flows : flows[f].by # None /\ flows[g].by # None => f = g
                    /\ \A f \in Flows : flows[f].by # None =>
                         Showing(setup, server, card', flows[f])
                    /\ done # None =>
                         (\A f \in Flows : ~Handles(flows[f])) /\ Seen(setup, server, card', done)
                    /\ card'.view = "verify" =>
                         Shows(card', server) /\ \A f \in Flows : flows[f].by # None =>
                                                   flows[f].by \in Watching
  BY <1>2 DEF ShowInv
<1> QED
  BY <1>1 DEF ShowInv

\* A link that neither ends a handler nor renders.
LEMMA ShowLink ==
  ASSUME Typed, ShowInv, NEW f \in Flows, Head1(f) \notin {None, "try", "render", "show"},
         NEW r, Follows(f, r), Goes(f, r),
         setup' = setup, beside' = beside, done' = done, failures' = failures,
         Head1(f) = "read" =>
           r.data.alerts = server'.alerts /\ r.data.targets = server'.targets,
         Head1(f) # "read" => r.data = flows[f].data /\ Handles(flows[f]),
         Head1(f) \notin Writers =>
           server'.alerts = server.alerts /\ server'.targets = server.targets,
         card'.alerts = card.alerts, card'.email = card.email, card'.view = card.view
  PROVE  ShowInv'
<1>1. flows[f].by # None /\ r.by = flows[f].by /\ r.todo = Tail(flows[f].todo)
  BY Runs DEF Follows
<1>2. ASSUME ~beside, failures = 0
      PROVE  /\ Showing(setup, server', card', r)
             /\ done' # None => ~Handles(r) /\ Seen(setup, server', card', done')
             /\ Watches1(server', card', r)
  <2>1. /\ Showing(setup, server, card, flows[f])
        /\ Handles(flows[f]) => done = None
        /\ done # None => Seen(setup, server, card, done)
        /\ Watches1(server, card, flows[f])
    BY <1>1, <1>2, ShowRuns
  <2>2. Showing(setup, server', card', r)
    <3>1. Head1(f) # None /\ Head1(f) # "try" /\ Head1(f) # "render"
      OBVIOUS
    <3> QED
      BY <1>1, <2>1, <3>1, ShowingTail
  <2>3. ASSUME done' # None  PROVE ~Handles(r) /\ Seen(setup, server', card', done')
    <3>1. ~Handles(flows[f]) /\ Seen(setup, server, card, done)
      BY <2>1, <2>3
    <3>2. Head1(f) = "read"
      BY <3>1
    <3>3. server'.alerts = server.alerts /\ server'.targets = server.targets
      BY <3>2 DEF Writers
    <3> QED
      BY <1>1, <3>1, <3>3 DEF Handles, Seen, Shows
  <2>4. Watches1(server', card', r)
    <3> SUFFICES ASSUME card'.view = "verify"
                 PROVE  Shows(card', server') /\ r.by \in Watching
      BY DEF Watches1
    <3>1. Shows(card, server) /\ flows[f].by \in Watching
      BY <1>1, <2>1 DEF Watches1
    <3>2. Head1(f) \notin Writers
      BY <3>1, WatchingWrites
    <3> QED
      BY <1>1, <3>1, <3>2 DEF Shows
  <2> QED
    BY <2>2, <2>3, <2>4
<1> QED
  BY <1>1, <1>2, ShowGoes

LEMMA ShowRead ==
  ASSUME Typed, ShowInv, NEW f \in Flows, Read(f)
  PROVE  ShowInv'
<1>1. /\ Head1(f) = "read"
      /\ UNCHANGED <<setup, server, card, failures, done, beside>>
  BY DEF Read
<1>2. PICK wallets : Goes(f, [Next1(f) EXCEPT !.data = [server EXCEPT !.wallets = wallets]])
  BY DEF Read
<1> DEFINE data == [server EXCEPT !.wallets = wallets]
           r == [Next1(f) EXCEPT !.data = data]
<1>3. data.alerts = server.alerts /\ data.targets = server.targets
  BY DEF Typed, ServerState
<1> HIDE DEF data
<1>4. Follows(f, r) /\ r.data = data
  <2>1. flows[f] \in FlowState
    BY DEF Typed
  <2> QED
    BY <2>1 DEF Next1, Follows, FlowState
<1>5. Goes(f, r)
  BY <1>2 DEF data
<1> HIDE DEF r
<1>6. Head1(f) \notin {None, "try", "render", "show"}
  BY <1>1, NoneAssumption
<1> QED
  BY <1>1, <1>3, <1>4, <1>5, <1>6, ShowLink

\* A render, or a view, be there more links or not.
LEMMA ShowEnds ==
  ASSUME Typed, ShowInv, NEW f \in Flows, Head1(f) \in {"render", "show"},
         Goes(f, Ends(f)), done' = Through(f),
         UNCHANGED <<setup, server, failures, beside>>,
         IF Head1(f) = "render"
         THEN card'.alerts = flows[f].data.alerts /\ card'.email = flows[f].data.targets
              /\ card'.view = card.view
         ELSE /\ card'.alerts = card.alerts /\ card'.email = card.email
              /\ card'.view = Arg(f) /\ flows[f].by # "fetchOnce"
  PROVE  ShowInv'
<1> DEFINE r == Ends(f)
           s == flows[f].todo
<1>1. /\ Len(s) > 1 => Tail(s) # <<>> /\ r = Next1(f)
      /\ ~(Len(s) > 1) => Tail(s) = <<>> /\ r = NoFlow
  BY EndsIs
<1>2. /\ Head1(f) # None /\ flows[f].by # None /\ s \in Chains /\ s # <<>>
      /\ Head1(f) = Head(s)[1] /\ RunsWell(setup, flows[f])
  BY NoneAssumption, Runs
<1>3. Follows(f, Next1(f)) /\ Next1(f).data = flows[f].data
  BY Next1Is
<1>4. Head1(f) \notin Writers \cup {"try", "read"}
  BY DEF Writers
<1> HIDE DEF r
<1>5. ASSUME Showing(setup, server, card, flows[f]), Len(s) > 1
      PROVE  Showing(setup, server, card', r)
  <2>1. r.by = flows[f].by /\ r.todo = Tail(s) /\ r.data = flows[f].data
    BY <1>1, <1>3, <1>5 DEF Follows
  <2>2. Head1(f) # "try" /\ Head1(f) # "read" /\ Head1(f) \notin Writers
    BY <1>4
  <2> HIDE DEF s
  <2> QED
    BY <1>2, <1>5, <2>1, <2>2, ShowingTail DEF s
<1>6. Head1(f) = "render" => flows[f].data # None
  BY FetchedData, NoneAssumption DEF UsesData
<1>7. ASSUME Showing(setup, server, card, flows[f]), flows[f].by = "fetchOnce"
      PROVE  Shows(card', server)
  BY <1>6, <1>7 DEF Showing, Agrees, Shows
<1>8. r.by = flows[f].by \/ r.by = None
  BY <1>1, <1>3, NoFlowIs DEF Follows
<1>9. ASSUME ~beside, failures = 0, done' # None
      PROVE  ~Handles(r) /\ Seen(setup, server, card', done')
  <2>1. Showing(setup, server, card, flows[f]) /\ (Handles(flows[f]) => done = None)
    BY <1>2, <1>9, ShowRuns
  <2>2. CASE flows[f].by = "fetchOnce"
    BY <1>7, <1>8, <2>1, <2>2 DEF Handles, Seen
  <2>3. CASE flows[f].by # "fetchOnce"
    <3>1. ~(Len(s) > 1) /\ done' = Outcome(flows[f])
      BY <1>2, <1>9, <2>1, <2>3 DEF Through, Outcome, Handles
    <3>2. Tail(s) = <<>> /\ r = NoFlow
      BY <1>1, <3>1
    <3>3. Seen(setup, server, card', Outcome(flows[f]))
      BY <2>1, <2>3, <3>2, SeenIs
    <3> QED
      BY <3>1, <3>2, <3>3, NoFlowIs DEF Handles
  <2> QED
    BY <2>2, <2>3
<1>10. ASSUME Watches1(server, card, flows[f]), Showing(setup, server, card, flows[f])
       PROVE  Watches1(server, card', r)
  <2> SUFFICES ASSUME card'.view = "verify"
               PROVE  Shows(card', server) /\ (r.by # None => r.by \in Watching)
    BY DEF Watches1
  <2>1. CASE Head1(f) = "render"
    <3>1. flows[f].by \in Watching
      BY <1>2, <1>10, <2>1 DEF Watches1
    <3>2. Agrees(flows[f].data, server)
      BY <1>6, <1>10, <2>1, <3>1 DEF Showing, Watching
    <3>3. Shows(card', server)
      BY <2>1, <3>2 DEF Agrees, Shows
    <3> QED
      BY <1>8, <3>1, <3>3
  <2>2. CASE Head1(f) = "show"
    <3>1. Head(s) = <<"show", "verify">>
      BY <1>2, <2>2, Ahead
    <3>2. In(<<"show", "verify">>, s)
      BY <1>2, <3>1, InTail
    <3>3. flows[f].by = "button"
      BY <1>2, <3>2 DEF RunsWell, Chained
    <3>4. Tail(s) = <<>>
      <4>1. ~Has(Tail(s), LinkKinds)
        BY <1>2, <2>2, NeverTail DEF RunsWell, Chained
      <4> QED
        BY <1>2, <4>1, LinkIs, HasTail, Zenon
    <3>5. r.by = None
      BY <1>1, <3>4, NoFlowIs
    <3>6. Shows(card', server)
      BY <1>10, <2>2, <3>3, <3>4, SeenIs, Zenon DEF Fetches
    <3> QED
      BY <3>5, <3>6
  <2> QED
    BY <2>1, <2>2
<1>11. r.by # None => Len(s) > 1
  BY <1>1, NoFlowIs
<1>12. Goes(f, r)
  BY DEF r
<1> HIDE DEF s
<1>13. ASSUME ~beside, failures = 0
       PROVE  /\ r.by # None => Showing(setup, server', card', r)
              /\ done' # None => ~Handles(r) /\ Seen(setup, server', card', done')
              /\ Watches1(server', card', r)
  <2>1. Showing(setup, server, card, flows[f]) /\ Watches1(server, card, flows[f])
    BY <1>2, <1>13, ShowRuns
  <2> QED
    BY <1>5, <1>9, <1>10, <1>11, <1>13, <2>1
<1> QED
  BY <1>2, <1>12, <1>13, ShowGoes

LEMMA ShowRender ==
  ASSUME Typed, ShowInv, NEW f \in Flows, Render(f)
  PROVE  ShowInv'
<1> DEFINE data == flows[f].data
           seen == Rendered(data)
<1>1. /\ Head1(f) = "render" /\ Goes(f, Ends(f)) /\ done' = Through(f)
      /\ UNCHANGED <<setup, server, failures, beside>>
      /\ card' = [seen EXCEPT !.loading = IF flows[f].by = "fetchOnce" THEN @ ELSE Settled(f, None)]
  BY DEF Render
<1>2. card \in CardState
  BY DEF Typed
<1>3. /\ seen.alerts = data.alerts /\ seen.email = data.targets /\ seen.view = card.view
      /\ DOMAIN seen = DOMAIN card
  BY <1>2 DEF Rendered, CardState
<1>4. /\ "alerts" \in DOMAIN card /\ "email" \in DOMAIN card /\ "view" \in DOMAIN card
  BY <1>2 DEF CardState
<1> HIDE DEF seen
<1>5. card'.alerts = seen.alerts /\ card'.email = seen.email /\ card'.view = seen.view
  BY <1>1, <1>3, <1>4
<1> QED
  BY <1>1, <1>3, <1>5, ShowEnds

LEMMA ShowShow ==
  ASSUME Typed, ShowInv, NEW f \in Flows, Show(f), flows[f].by # "fetchOnce"
  PROVE  ShowInv'
<1>1. /\ Head1(f) = "show" /\ Goes(f, Ends(f)) /\ done' = Through(f)
      /\ UNCHANGED <<setup, server, failures, beside>>
      /\ card' = [card EXCEPT !.view = Arg(f), !.loading = Settled(f, Arg(f))]
  BY DEF Show
<1>2. card'.alerts = card.alerts /\ card'.email = card.email /\ card'.view = Arg(f)
  BY <1>1 DEF Typed, CardState
<1> QED
  BY <1>1, <1>2, ShowEnds

LEMMA ShowLocal ==
  ASSUME Typed, ConfiguredInv, ShowInv, NEW f \in Flows, Local(f), Handles(flows[f])
  PROVE  ShowInv'
<1>1. UNCHANGED <<setup, server, failures, done, beside>>
  BY DEF Local, history
<1>2. CASE Head1(f) = "try"
  <2>1. Goes(f, TryFlow(f)) /\ card' = [card EXCEPT !.loading = TRUE]
    BY <1>2 DEF Local, TryFlow
  <2>2. card'.alerts = card.alerts /\ card'.email = card.email /\ card'.view = card.view
    BY <2>1 DEF Typed, CardState
  <2>3. flows[f].by = "button" /\ flows[f].by # None
    BY <1>2, TryRuns, Runs, NoneAssumption
  <2>4. Showing(setup, server', card', TryFlow(f))
    BY <1>2, ShowingTry
  <2>5. ~Watches1(server, card, flows[f]) \/ card.view # "verify"
    BY <2>3 DEF Watches1, Watching
  <2>6. Watches1(server, card, flows[f]) => Watches1(server', card', TryFlow(f))
    BY <2>2, <2>5 DEF Watches1
  <2> QED
    BY <1>1, <2>1, <2>3, <2>4, <2>6, ShowRuns, ShowGoes, Zenon
<1>3. CASE Head1(f) = "idle"
  <2>1. Goes(f, Next1(f)) /\ card' = [card EXCEPT !.loading = FALSE]
    BY <1>3 DEF Local
  <2>2. card'.alerts = card.alerts /\ card'.email = card.email /\ card'.view = card.view
    BY <2>1 DEF Typed, CardState
  <2>3. Head1(f) \notin {None, "try", "render", "show"} /\ Head1(f) # "read"
    BY <1>3, NoneAssumption
  <2>4. Follows(f, Next1(f)) /\ Next1(f).data = flows[f].data
    BY Next1Is
  <2> QED
    BY <1>1, <2>1, <2>2, <2>3, <2>4, ShowLink
<1> QED
  BY <1>2, <1>3 DEF Local

LEMMA ShowPlan ==
  ASSUME Typed, ShowInv, NEW f \in Flows, Plan(f), Handles(flows[f])
  PROVE  ShowInv'
<1>1. /\ Head1(f) = "alert" /\ Goes(f, PlanFlow(f))
      /\ UNCHANGED <<setup, server, card, failures, done, beside>>
  BY DEF Plan, PlanFlow, history
<1>2. flows[f].by # None /\ PlanFlow(f).by = flows[f].by
  BY <1>1, PlanRuns, Zenon DEF Handles
<1>3. ASSUME Showing(setup, server, card, flows[f])
      PROVE  Showing(setup, server', card', PlanFlow(f))
  <2>1. Showing(setup, server, card, PlanFlow(f))
    BY <1>1, <1>3, ShowingPlan
  <2> QED
    BY <1>1, <2>1
<1>4. Watches1(server, card, flows[f]) => Watches1(server', card', PlanFlow(f))
  BY <1>1, <1>2 DEF Watches1
<1> QED
  BY <1>1, <1>2, <1>3, <1>4, ShowRuns, ShowGoes

LEMMA ShowLogin ==
  ASSUME Typed, ShowInv, NEW f \in Flows, Login(f), Handles(flows[f])
  PROVE  ShowInv'
<1>1. /\ Head1(f) = "login" /\ Goes(f, Next1(f))
      /\ server' = [server EXCEPT !.wallets = @ \cup {"own"}]
      /\ UNCHANGED <<setup, card, failures, done, beside>>
  BY DEF Login, Writes
<1>2. server'.alerts = server.alerts /\ server'.targets = server.targets
  BY <1>1 DEF Typed, ServerState
<1>3. Head1(f) \notin {None, "try", "render", "show"} /\ Head1(f) # "read"
  BY <1>1, NoneAssumption
<1>4. Follows(f, Next1(f)) /\ Next1(f).data = flows[f].data
  BY Next1Is
<1> QED
  BY <1>1, <1>2, <1>3, <1>4, ShowLink

LEMMA ShowRequest ==
  ASSUME Typed, ShowInv, NEW f \in Flows, Request(f), Handles(flows[f])
  PROVE  ShowInv'
<1> DEFINE made == Head1(f) \in {"create", "update"}
           r == [Next1(f) EXCEPT !.made = @ \/ made]
<1>1. /\ Requesting(f) /\ Goes(f, r) /\ server' = Effect(f)
      /\ UNCHANGED <<setup, card, failures, done, beside>>
  BY DEF Request, Writes
<1>2. Follows(f, r) /\ r.data = flows[f].data
  <2>1. flows[f] \in FlowState
    BY DEF Typed
  <2> QED
    BY <2>1 DEF Next1, Follows, FlowState
<1> HIDE DEF r
<1>3. Head1(f) \notin {None, "try", "render", "show"} /\ Head1(f) # "read"
  BY <1>1, NoneAssumption DEF Requesting
<1>4. OfName \subseteq Writers
  BY DEF OfName, Writers
<1>5. Head1(f) \notin Writers =>
        server'.alerts = server.alerts /\ server'.targets = server.targets
  BY <1>1, <1>4, EffectIs
<1> QED
  BY <1>1, <1>2, <1>3, <1>5, ShowLink

\* A handler that is through for nothing.
LEMMA ShowStops ==
  ASSUME Typed, ShowInv, NEW f \in Flows, Handles(flows[f]), Goes(f, NoFlow),
         UNCHANGED <<setup, failures, beside, done>>, server' = server,
         card'.alerts = card.alerts, card'.email = card.email,
         card'.view = "verify" => card.view = "verify"
  PROVE  ShowInv'
<1>1. flows[f].by # None /\ NoFlow.by = None
  BY NoFlowIs DEF Handles
<1>2. Watches1(server, card, flows[f]) => Watches1(server', card', NoFlow)
  BY <1>1 DEF Watches1, Shows
<1> QED
  BY <1>1, <1>2, ShowRuns, ShowGoes

LEMMA ShowFail ==
  ASSUME Typed, ShowInv, NEW f \in Flows, Fail(f)
  PROVE  ShowInv'
<1>1. failures \in Nat
  BY DEF Typed
<1>2. CASE Head1(f) = "adopt" \/ Refused(f)
  <2>1. Head1(f) \notin {None, "ensure", "read", "render"}
    BY <1>2, NoneAssumption DEF Refused
  <2>2. /\ server' = server /\ Goes(f, NoFlow) /\ card' = Thrown(f)
        /\ UNCHANGED <<setup, failures, done, beside>>
    BY <1>2, <2>1 DEF Fail, history
  <2>3. /\ card'.alerts = card.alerts /\ card'.email = card.email
        /\ card'.view = "verify" => card.view = "verify"
    BY <2>2 DEF Thrown, Typed, CardState
  <2>4. Handles(flows[f])
    <3>1. flows[f].by # None
      BY <2>1, Runs
    <3>2. flows[f].by # "fetchOnce"
      <4>1. ~Read(f) /\ ~Render(f)
        BY <2>1 DEF Read, Render
      <4> QED
        BY <2>1, <4>1, FetchOnceSteps DEF Step
    <3> QED
      BY <3>1, <3>2 DEF Handles
  <2> QED
    BY <2>2, <2>3, <2>4, ShowStops
<1>3. CASE ~(Head1(f) = "adopt" \/ Refused(f))
  <2>1. failures' = failures + 1
    BY <1>3 DEF Fail
  <2>2. failures' # 0
    BY <1>1, <2>1
  <2> QED
    BY <2>2 DEF ShowInv
<1> QED
  BY <1>2, <1>3

LEMMA ShowNext == Typed /\ ConfiguredInv /\ ShowInv /\ [Next]_vars => ShowInv'
<1> SUFFICES ASSUME Typed, ConfiguredInv, ShowInv, [Next]_vars PROVE ShowInv'
  OBVIOUS
<1>1. card \in CardState
  BY DEF Typed
<1>2. CASE FirstView \/ Settings \/ Edit \/ Back \/ \E email \in Emails \cup {None} : Type(email)
  <2>1. UNCHANGED <<setup, server, flows, failures, history>>
    BY <1>2, Zenon DEF FirstView, Settings, Edit, Back, Type, Inputs
  <2>2. /\ card'.alerts = card.alerts /\ card'.email = card.email
        /\ card'.view = "verify" => card.view = "verify"
    BY <1>1, <1>2, ZenonT(40) DEF FirstView, Settings, Edit, Back, Type, Inputs, CardState
  <2> QED
    BY <2>1, <2>2, ShowViews
<1>3. ASSUME NEW f \in Flows, Act(f)  PROVE ShowInv'
  BY <1>3, ActStarts, ShowStarts
<1>4. ASSUME NEW f \in Flows, Step(f)  PROVE ShowInv'
  <2>1. CASE flows[f].by = "fetchOnce"
    BY <1>4, <2>1, FetchOnceSteps, ShowRead, ShowRender, ShowFail
  <2>2. CASE flows[f].by # "fetchOnce"
    <3>1. Handles(flows[f])
      <4>1. Head1(f) # None
        BY <1>4, NoneAssumption DEF Step, Login, Read, Render, Show, Local, Plan, Request,
                                    Conflict, Fail, Requesting
      <4> QED
        BY <2>2, <4>1, Runs DEF Handles
    <3>2. CASE Conflict(f)
      <4>1. Goes(f, NoFlow) /\ server' = server
            /\ UNCHANGED <<setup, failures, beside, done>>
        BY <3>2 DEF Conflict, history
      <4>2. card'.alerts = card.alerts /\ card'.email = card.email /\ card'.view = card.view
        BY <1>1, <3>2 DEF Conflict, CardState
      <4> QED
        BY <3>1, <4>1, <4>2, ShowStops
    <3> QED
      BY <1>4, <2>2, <3>1, <3>2, ShowLogin, ShowRead, ShowRender, ShowShow, ShowLocal, ShowPlan,
         ShowRequest, ShowFail DEF Step
  <2> QED
    BY <2>1, <2>2
<1>5. CASE UNCHANGED vars
  <2>1. UNCHANGED <<setup, server, flows, failures, history>> /\ card' = card
    BY <1>5 DEF vars
  <2> QED
    BY <2>1, ShowViews
<1> QED
  BY <1>2, <1>3, <1>4, <1>5 DEF Next

-----------------------------------------------------------------------------
(* The properties.                                                           *)

\* A handler that was alone has subscribed to all it was to.
LEMMA CompleteWhenAlone == ServeInv => SubscriptionComplete
<1> SUFFICES ASSUME ServeInv, Undisturbed, done.by \in {"button", "verifyonboarding", "toggle"}
             PROVE  /\ server.targets = done.form
                    /\ \A n \in Names : LET config == done.configs[n] IN
                         config # None /\ HasFilter(n, config) =>
                           server.alerts[n] = Stored(config.options) /\ Watches(n, config)
  BY DEF SubscriptionComplete
<1>1. Result(setup, server, cached, done) /\ done.by \in Subs
  BY DEF ServeInv, Undisturbed, Subs
<1>2. server.targets = done.form
  BY <1>1 DEF Result
<1>3. ASSUME NEW n \in Names, NEW config, config = done.configs[n],
             config # None, HasFilter(n, config)
      PROVE  server.alerts[n] = Stored(config.options) /\ Watches(n, config)
  <2>1. Wanted(setup, server, done.configs, n)
    BY <1>3, InSetup DEF Wanted
  <2>2. Stands(setup, server, n, config)
    BY <1>1, <1>3, <2>1 DEF Result
  <2> QED
    BY <2>2, InSetup DEF Stands, Watches
<1> QED
  BY <1>2, <1>3

LEMMA TruthWhenAlone == LoadingInv /\ ServeInv /\ ShowInv => CardTellsTruth
<1> SUFFICES ASSUME LoadingInv, ServeInv, ShowInv PROVE CardTellsTruth
  OBVIOUS
<1>1. Quiet => ~card.loading
  BY DEF Quiet, Running, LoadingInv, Resets
<1>2. Undisturbed => Result(setup, server, cached, done)
  BY DEF ServeInv, Undisturbed
<1>3. Undisturbed /\ ~beside => Seen(setup, server, card, done)
  BY DEF ShowInv, Undisturbed
<1> QED
  BY <1>1, <1>2, <1>3 DEF CardTellsTruth, Result, Seen, Shows, Verifying

LEMMA LoadingInit == Init => LoadingInv
BY DEF Init, LoadingInv

\* The subscription is complete: contacts, alerts, options and sources, after a
\* handler that no other ran beside, and without a failure, whatever it found,
\* however many links it took, and whatever the first fetches rendered meanwhile.
THEOREM SubscriptionCompleteTheorem == Spec => []SubscriptionComplete
<1>1. Init => Typed /\ ConfiguredInv /\ ServeInv
  BY TypedInit, ConfiguredInit, ServeInit
<1>2. Typed /\ ConfiguredInv /\ ServeInv /\ [Next]_vars => (Typed /\ ConfiguredInv /\ ServeInv)'
  BY TypedNext, ConfiguredNext, ServeNext
<1>3. ServeInv => SubscriptionComplete
  BY CompleteWhenAlone
<1> QED
  BY <1>1, <1>2, <1>3, PTL DEF Spec

\* The card tells the truth: it is not left loading, whatever fails or overlaps,
\* and after a handler that ran alone it shows what the service has.
THEOREM CardTellsTruthTheorem == Spec => []CardTellsTruth
<1>1. Init => Typed /\ ConfiguredInv /\ LoadingInv /\ ServeInv /\ ShowInv
  BY TypedInit, ConfiguredInit, LoadingInit, ServeInit, ShowInit
<1>2. Typed /\ ConfiguredInv /\ LoadingInv /\ ServeInv /\ ShowInv /\ [Next]_vars
        => (Typed /\ ConfiguredInv /\ LoadingInv /\ ServeInv /\ ShowInv)'
  BY TypedNext, ConfiguredNext, LoadingNext, ServeNext, ShowNext
<1>3. LoadingInv /\ ServeInv /\ ShowInv => CardTellsTruth
  BY TruthWhenAlone
<1> QED
  BY <1>1, <1>2, <1>3, PTL DEF Spec

===============================================================================
