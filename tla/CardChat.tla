------------------------------- MODULE CardChat -------------------------------
(***************************************************************************)
(* The chat card: IntercomCard, which subscribes the user to the chat's    *)
(* alert, opens the support conversation and decides what is shown, and    *)
(* useIntercomChat, which keeps the messages of the window: it polls every *)
(* five seconds, loads a page when the user scrolls to the top, and sends. *)
(*                                                                         *)
(* Every request of the window captures the messages that are listed when  *)
(* it is made, and its answer sets the list to those and what it brings:   *)
(* answers that overtake each other undo each other. Messages are numbered *)
(* in the order in which the service stores them; the service gives the    *)
(* newest first.                                                           *)
(***************************************************************************)
EXTENDS Naturals, Sequences, SequencesExt

CONSTANTS
  Page,         \* MESSAGES_NUMBER: the messages of a page
  PollSize,     \* the messages that a poll asks for
  MaxMessages,  \* bound: messages of the conversation
  MaxRequests,  \* bound: requests in flight when the user or the timer makes one
  MaxLoads,     \* bound: pages loaded by scrolling, per visit of the window
  MaxClicks,    \* bound: what the user does on the card
  MaxFailures,  \* bound: requests refused or replies lost
  None

ASSUME CardChatAssumption ==
  /\ Page \in Nat \ {0} /\ PollSize \in Nat \ {0}
  /\ {MaxMessages, MaxRequests, MaxLoads, MaxClicks, MaxFailures} \subseteq Nat
  /\ None \notin Nat \cup BOOLEAN

VARIABLES
  server,    \* the number of messages stored, and whether there is a chat alert
  card,      \* what IntercomCard and the subscription context keep
  chat,      \* the state of useIntercomChat, while the window is shown
  requests,  \* what is in flight, the oldest first
  clicks, failures,
  past       \* history of this visit of the window, see NewVisit

vars == <<server, card, chat, requests, clicks, failures, past>>

-----------------------------------------------------------------------------
(* Messages *)

Smaller(a, b) == IF a < b THEN a ELSE b
Larger(a, b) == IF a < b THEN b ELSE a

\* What the service gives: the newest messages, or those before the cursor.
Nodes(cursor, first) ==
  LET newest == IF cursor = None THEN server.messages ELSE cursor - 1
  IN [i \in 1 .. Smaller(first, newest) |-> newest + 1 - i]

Unlisted(nodes, listed) == SelectSeq(nodes, LAMBDA m : m \notin ToSet(listed))

\* Mutants of MergedMessages: only what the poll has brought, and only what
\* was listed before.
MergedNodes(listed, nodes) == nodes
MergedListed(listed, nodes) ==
  SortSeq(SelectSeq(nodes, LAMBDA m : m \in ToSet(listed)) \o listed, >)

\* A poll: the new messages and those listed, by date.
MergedMessages(listed, nodes) == SortSeq(Unlisted(nodes, listed) \o listed, >)

WithPage(listed, nodes) == listed \o nodes

-----------------------------------------------------------------------------
(* State *)

Views == {"loadingView", "startChatView", "chatWindowView", "settingView"}
WindowKinds == {"poll", "page", "send"}
CardKinds == {"subscribe", "fetch", "create", "open"}

Request(kind) == [kind |-> kind, listed |-> <<>>, cursor |-> None, heard |-> TRUE,
                  nodes |-> None, more |-> FALSE]

\* Mutants of SendRequest: the callback keeps the messages of the first render;
\* the message is listed before the service has given it an identity.
SendFirstRender(window) == Request("send")
SendOptimistic(window) == [Request("send") EXCEPT !.listed = <<None>> \o window.list]

SendRequest(window) == [Request("send") EXCEPT !.listed = window.list]
PollRequest(window) == [Request("poll") EXCEPT !.listed = window.list]
PageRequest(window) ==
  [Request("page") EXCEPT !.listed = window.list, !.cursor = window.cursor]

\* The window comes on the screen and loads its first page.
NewWindow == [list |-> <<>>, cursor |-> None, more |-> None, loading |-> TRUE,
              top |-> FALSE, loads |-> 0]

\* muddled: two requests of the window overlapped, or a poll did not reach back
\* to what was brought before. deep: a poll brought messages before the cursor.
\* seen: the newest message that a poll or a page has brought.
NewVisit == [muddled |-> FALSE, deep |-> FALSE, seen |-> 0]

Heard(reqs) == {i \in DOMAIN reqs : reqs[i].kind \in WindowKinds /\ reqs[i].heard}

Init ==
  /\ \E stored \in 0 .. MaxMessages, alert \in BOOLEAN :
       server = [messages |-> stored, alert |-> alert]
  /\ \E canary \in BOOLEAN :
       card = [canary |-> canary, view |-> "loadingView", initialized |-> FALSE,
               rendered |-> FALSE, alert |-> FALSE, loading |-> FALSE,
               conversation |-> FALSE, refused |-> FALSE]
  /\ chat = NewWindow
  /\ requests = <<>>
  /\ clicks = 0 /\ failures = 0
  /\ past = NewVisit

-----------------------------------------------------------------------------
(* The card *)

\* The window is left: nobody hears the answers, but a message is still sent.
Unheard(reqs) ==
  LET sends == SelectSeq(reqs, LAMBDA q : q.kind \notin {"poll", "page"}
                                          /\ ~(q.kind = "send" /\ q.nodes # None))
  IN [i \in DOMAIN sends |->
        IF sends[i].kind = "send" THEN [sends[i] EXCEPT !.heard = FALSE, !.listed = <<>>]
        ELSE sends[i]]

\* The card and the requests become these: the window is left or entered.
Shows(newCard, reqs) ==
  LET was == card.view = "chatWindowView"
      is == newCard.view = "chatWindowView"
      left == IF was /\ ~is THEN Unheard(reqs) ELSE reqs
  IN
  /\ card' = newCard
  /\ requests' = IF is /\ ~was THEN Append(left, PageRequest(NewWindow)) ELSE left
  /\ chat' = IF is = was THEN chat ELSE NewWindow
  /\ past' = IF is = was THEN past ELSE NewVisit

\* When the alerts, loading or isClientInitialized have changed: the card, and
\* the request that it makes.
Effect(c) ==
  IF c.loading \/ ~c.initialized \/ c.view = "settingView" THEN <<c, <<>>>>
  ELSE IF c.alert THEN <<c, <<Request("open")>>>>
  ELSE <<[c EXCEPT !.view = "startChatView"], <<>>>>

Changed(c, reqs) == LET e == Effect(c) IN Shows(e[1], reqs \o e[2])

\* The client is initialized.
Initialize ==
  /\ ~card.initialized
  /\ Changed([card EXCEPT !.initialized = TRUE], requests)
  /\ UNCHANGED <<server, clicks, failures>>

\* The data of a user who is logged in are rendered.
RenderData ==
  /\ ~card.rendered
  /\ Changed([card EXCEPT !.rendered = TRUE, !.alert = server.alert], requests)
  /\ UNCHANGED <<server, clicks, failures>>

\* handleStartChatClick: Start Chatting, or Save Changes of the settings.
StartChat ==
  /\ clicks < MaxClicks
  /\ card.view \in {"startChatView", "settingView"}
  /\ ~card.loading
  /\ Len(requests) < MaxRequests
  /\ clicks' = clicks + 1
  /\ LET c == [card EXCEPT !.refused = FALSE, !.loading = ~card.canary]
         reqs == Append(requests, Request("subscribe"))
     IN Shows(c, reqs)
  /\ UNCHANGED <<server, failures>>

\* The icons in the headers of the window and of the settings.
OpenSettings ==
  /\ clicks < MaxClicks
  /\ card.view = "chatWindowView"
  /\ clicks' = clicks + 1
  /\ Shows([card EXCEPT !.view = "settingView"], requests)
  /\ UNCHANGED <<server, failures>>

LeaveSettings ==
  /\ card.view = "settingView"
  /\ Shows([card EXCEPT !.view = "chatWindowView"], requests)
  /\ UNCHANGED <<server, clicks, failures>>

\* instantSubscribe has the alert, and fetches; the frontend client has fetched,
\* and its data are not rendered.
Subscribed(i) ==
  LET rest == RemoveAt(requests, i) IN
  /\ requests[i].kind = "subscribe"
  /\ server' = [server EXCEPT !.alert = TRUE]
  /\ IF card.canary THEN Shows(card, Append(rest, Request("create")))
     ELSE Changed([card EXCEPT !.loading = FALSE], Append(rest, Request("fetch")))
  /\ UNCHANGED <<clicks, failures>>

\* render of instantSubscribe.
Fetched(i) ==
  /\ requests[i].kind = "fetch"
  /\ Changed([card EXCEPT !.alert = server.alert, !.rendered = TRUE],
             Append(RemoveAt(requests, i), Request("create")))
  /\ UNCHANGED <<server, clicks, failures>>

\* createSupportConversation answers the effect or the click.
Opened(i) ==
  /\ requests[i].kind \in {"open", "create"}
  /\ Shows([card EXCEPT !.conversation = TRUE, !.view = "chatWindowView"],
           RemoveAt(requests, i))
  /\ UNCHANGED <<server, clicks, failures>>

-----------------------------------------------------------------------------
(* The window *)

Watching == card.view = "chatWindowView"

Due(window) == window.top /\ window.more = TRUE /\ window.loads < MaxLoads

\* The window becomes this one, and its effect loads a page if it is at the top.
Renders(window, reqs) ==
  /\ chat' = IF Due(window) THEN [window EXCEPT !.loading = TRUE, !.loads = @ + 1]
             ELSE window
  /\ requests' = IF Due(window) THEN Append(reqs, PageRequest(window)) ELSE reqs

\* There is room for one more message, within the bound.
RoomLeft ==
  server.messages
    + Len(SelectSeq(requests, LAMBDA q : q.kind = "send" /\ q.nodes = None)) < MaxMessages

\* That page overlaps with another request.
Overlaps(window, reqs) == Due(window) /\ Heard(reqs) # {}

\* The interval has passed. It starts anew with every list of messages.
Tick ==
  /\ Watching
  /\ Len(requests) < MaxRequests
  /\ requests' = Append(requests, PollRequest(chat))
  /\ past' = [past EXCEPT !.muddled = @ \/ Heard(requests) # {}]
  /\ UNCHANGED <<server, card, chat, clicks, failures>>

\* The user scrolls to the top, or stops or leaves it.
Scroll ==
  /\ Watching
  /\ Len(chat.list) > 0
  /\ chat.top \/ (clicks < MaxClicks /\ Len(requests) < MaxRequests)
  /\ clicks' = IF chat.top THEN clicks ELSE clicks + 1
  /\ LET window == [chat EXCEPT !.top = ~@] IN
       /\ Renders(window, requests)
       /\ past' = [past EXCEPT !.muddled = @ \/ Overlaps(window, requests)]
  /\ UNCHANGED <<server, card, failures>>

SendMessage ==
  /\ Watching
  /\ RoomLeft
  /\ clicks < MaxClicks
  /\ clicks' = clicks + 1
  /\ Len(requests) < MaxRequests
  /\ requests' = Append(requests, SendRequest(chat))
  /\ past' = [past EXCEPT !.muddled = @ \/ Heard(requests) # {}]
  /\ UNCHANGED <<server, card, chat, failures>>

\* Somebody of the support team writes.
Post ==
  /\ RoomLeft
  /\ server' = [server EXCEPT !.messages = @ + 1]
  /\ UNCHANGED <<card, chat, requests, clicks, failures, past>>

\* The service handles a request of the window: it reads, or stores the message.
Handle(i) ==
  LET q == requests[i]
      nodes == CASE q.kind = "poll" -> Nodes(None, PollSize)
                 [] q.kind = "page" -> Nodes(q.cursor, Page)
                 [] q.kind = "send" -> <<server.messages + 1>>
  IN
  /\ q.kind \in WindowKinds /\ q.nodes = None
  /\ IF q.kind = "send"
     THEN server' = [server EXCEPT !.messages = @ + 1]
     ELSE UNCHANGED server
  /\ requests' = IF q.heard
                 THEN [requests EXCEPT ![i].nodes = nodes,
                                       ![i].more = nodes # <<>> /\ Last(nodes) > 1]
                 ELSE RemoveAt(requests, i)
  /\ UNCHANGED <<card, chat, clicks, failures, past>>

\* The answer to q arrives, and the window becomes this one.
Answered(q, rest, window) ==
  LET polled == q.kind = "poll" /\ q.nodes # <<>>
  IN
  /\ Renders(window, rest)
  /\ past' = [past EXCEPT
       !.seen = IF q.kind = "send" \/ q.nodes = <<>> THEN @ ELSE Larger(@, Head(q.nodes)),
       !.muddled = @ \/ Overlaps(window, rest) \/ (polled /\ Last(q.nodes) > past.seen + 1),
       !.deep = @ \/ (polled /\ chat.cursor # None /\ Last(q.nodes) < chat.cursor)]
  /\ UNCHANGED <<server, card, clicks, failures>>

PollAnswered(i) ==
  LET q == requests[i] IN
  /\ q.kind = "poll" /\ q.nodes # None
  /\ Answered(q, RemoveAt(requests, i),
              [chat EXCEPT !.list = MergedMessages(q.listed, q.nodes)])

PageAnswered(i) ==
  LET q == requests[i] IN
  /\ q.kind = "page" /\ q.nodes # None
  /\ Answered(q, RemoveAt(requests, i),
              [chat EXCEPT !.list = WithPage(q.listed, q.nodes),
                           !.cursor = IF q.nodes = <<>> THEN None ELSE Last(q.nodes),
                           !.more = q.more,
                           !.loading = FALSE])

SendAnswered(i) ==
  LET q == requests[i] IN
  /\ q.kind = "send" /\ q.nodes # None
  /\ Answered(q, RemoveAt(requests, i), [chat EXCEPT !.list = q.nodes \o q.listed])

\* A request is refused, or its reply is lost. A click shows an error; a page
\* leaves the window loading; what a send has stored, the next poll brings.
Fail(i) ==
  LET q == requests[i]
      rest == RemoveAt(requests, i)
  IN
  /\ failures < MaxFailures
  /\ failures' = failures + 1
  /\ IF q.kind = "subscribe"
     THEN /\ server' \in {server, [server EXCEPT !.alert = TRUE]}
          /\ Changed([card EXCEPT !.refused = TRUE, !.loading = FALSE], rest)
     ELSE /\ UNCHANGED server
          /\ Shows([card EXCEPT !.refused = @ \/ q.kind \in {"fetch", "create"}], rest)
  /\ UNCHANGED clicks

Do == Initialize \/ RenderData \/ StartChat \/ OpenSettings \/ LeaveSettings
        \/ Scroll \/ SendMessage

Answer(i) == \/ Subscribed(i) \/ Fetched(i) \/ Opened(i)
             \/ Handle(i) \/ PollAnswered(i) \/ PageAnswered(i) \/ SendAnswered(i)

Next == \/ Do \/ Post \/ Tick
        \/ \E i \in DOMAIN requests : Answer(i) \/ Fail(i)

Spec == Init /\ [][Next]_vars

-----------------------------------------------------------------------------
(* Fairness *)

AnswerOldest == requests # <<>> /\ Answer(1)

\* The interval passes again and again, and what is in flight is answered, or
\* fails, some time.
FairSpec == Spec /\ WF_vars(Tick) /\ WF_vars(AnswerOldest)

-----------------------------------------------------------------------------
(* Properties *)

Messages == 1 .. MaxMessages

TypeOK ==
  /\ server.messages \in 0 .. MaxMessages /\ server.alert \in BOOLEAN
  /\ card.view \in Views
  /\ {card.canary, card.initialized, card.rendered, card.alert, card.loading,
      card.conversation, card.refused} \subseteq BOOLEAN
  /\ ToSet(chat.list) \subseteq Messages
  /\ chat.cursor \in Messages \cup {None} /\ chat.more \in BOOLEAN \cup {None}
  /\ chat.loading \in BOOLEAN /\ chat.top \in BOOLEAN
  /\ \A i \in DOMAIN requests :
       /\ requests[i].kind \in WindowKinds \cup CardKinds
       /\ ToSet(requests[i].listed) \subseteq Messages

\* As long as no two requests of the window have overlapped, what is listed
\* stays listed.
NothingVanishesAlone ==
  [][(Watching /\ Watching' /\ ~past'.muddled)
       => ToSet(chat.list) \subseteq ToSet(chat'.list)]_vars

\* The window is shown only when the conversation is there: without one it would
\* stay at its first load for good. As long as no two requests have overlapped,
\* and no more messages came between two polls than a poll brings, no message
\* is skipped: whatever lies between
\* the oldest page and the newest message fetched is listed. And, as long as no
\* poll has brought messages before the cursor of the pages, they are listed
\* once each, the newest first.
ListedInOrderAlone ==
  Watching =>
    /\ card.conversation
    /\ ~past.muddled /\ chat.cursor # None =>
         chat.cursor .. past.seen \subseteq ToSet(chat.list)
    /\ ~past.muddled /\ ~past.deep =>
         \A i, j \in DOMAIN chat.list : i < j => chat.list[i] > chat.list[j]

\* Scrolling to the top loads more messages: none that is listed already. Not
\* kept by the code once a poll has gone past the cursor (see the README).
ListedOnce == Watching => IsInjective(chat.list)

Newest == {m \in Messages : m <= server.messages /\ m + PollSize > server.messages}

\* Whatever was lost or overtaken: once nobody writes and the user stays, the
\* newest messages are listed for good.
ChatCatchesUp == <>[](Watching => Newest \subseteq ToSet(chat.list))

=============================================================================
