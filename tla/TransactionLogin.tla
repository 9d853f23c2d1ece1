-------------------------- MODULE TransactionLogin --------------------------
(***************************************************************************)
(* Logging in with a transaction instead of a signed message: begin gets a *)
(* nonce, makes up a random uuid and returns the hash of both; the         *)
(* application puts it into a transaction; complete sends the uuid with    *)
(* the signature of that transaction, so that the service can recompute    *)
(* the hash it finds on the chain.                                         *)
(*                                                                         *)
(* The uuid is kept in one variable of the client between the two calls,   *)
(* and both calls wait for the network in the middle. The React hook and   *)
(* the frontend client have the same protocol but set and clear that       *)
(* variable at different points; client says which one it is.              *)
(***************************************************************************)
EXTENDS Naturals

CONSTANTS
  Calls,      \* activations of the two functions
  MaxCalls,  \* bound: calls
  NoUuid

ASSUME TransactionLoginAssumption ==
  MaxCalls \in Nat /\ NoUuid \notin Nat

VARIABLES
  client,  \* "hook" (useNotifiClient) or "frontend" (NotifiFrontendClient)
  uuid,    \* clientRandomUuid: the begin that made it up, or NoUuid
  calls,   \* the calls under way
  called,  \* the number of calls; a begin has its number as its name
  returned,\* the begins whose log value the application has
  quiet,   \* history: the begins since whose call no complete was called
  alone,   \* history: the begin that no other call has disturbed so far
  sent,    \* history: how often each uuid was sent to the service
  answered \* history: the uuids of the completes that have ended

loginVars == <<client, uuid, calls, called, returned, quiet, alone, sent, answered>>

Begins == 1 .. MaxCalls

Call == [pc : {"idle", "nonce", "digest", "complete"},
         b : Begins \cup {NoUuid},      \* this begin, or the one of the transaction
         uuid : Begins \cup {NoUuid}]   \* what complete has sent
IdleCall == [pc |-> "idle", b |-> NoUuid, uuid |-> NoUuid]

CallsAt(pc) == {c \in Calls : calls[c].pc = pc}

\* The calls that can spoil a begin which starts now: in the hook a complete
\* clears the uuid when it ends, in the frontend client when it starts.
Spoilers == CallsAt("nonce") \cup CallsAt("digest") \cup (IF client = "hook" THEN CallsAt("complete") ELSE {})

LoginInit ==
  /\ client \in {"hook", "frontend"}
  /\ uuid = NoUuid /\ calls = [c \in Calls |-> IdleCall] /\ called = 0
  /\ returned = {} /\ quiet = {} /\ alone = NoUuid
  /\ sent = [n \in Begins |-> 0] /\ answered = {}

-----------------------------------------------------------------------------

Begin(c) ==
  /\ calls[c].pc = "idle" /\ called < MaxCalls
  /\ called' = called + 1
  /\ calls' = [calls EXCEPT ![c] = [IdleCall EXCEPT !.pc = "nonce", !.b = called + 1]]
  /\ alone' = IF Spoilers = {} THEN called + 1 ELSE NoUuid
  /\ quiet' = quiet \cup {called + 1}
  /\ UNCHANGED <<client, uuid, returned, sent, answered>>

\* Mutant: the first uuid is not overwritten.
RememberFirst(b) == IF uuid = NoUuid THEN b ELSE uuid

\* Mutant: the begin is named by the number of calls so far.
RememberLatest(b) == IF client = "frontend" THEN called + 1 ELSE uuid

\* The nonce is here. The frontend client remembers its uuid before the hash is
\* computed, the hook after it.
RememberAtNonce(b) == IF client = "frontend" THEN b ELSE uuid
RememberAtReturn(b) == IF client = "hook" THEN b ELSE uuid

NonceAnswered(c) ==
  /\ calls[c].pc = "nonce"
  /\ uuid' = RememberAtNonce(calls[c].b)
  /\ calls' = [calls EXCEPT ![c].pc = "digest"]
  /\ UNCHANGED <<client, called, returned, quiet, alone, sent, answered>>

\* The request fails or brings no nonce.
BeginFails(c) ==
  /\ calls[c].pc = "nonce"
  /\ calls' = [calls EXCEPT ![c] = IdleCall]
  /\ UNCHANGED <<client, uuid, called, returned, quiet, alone, sent, answered>>

BeginReturns(c) ==
  /\ calls[c].pc = "digest"
  /\ uuid' = RememberAtReturn(calls[c].b)
  /\ returned' = returned \cup {calls[c].b}
  /\ calls' = [calls EXCEPT ![c] = IdleCall]
  /\ UNCHANGED <<client, called, quiet, alone, sent, answered>>

-----------------------------------------------------------------------------

\* Mutants: the uuid stays, or either client clears it in the end.
UuidKept == uuid
UuidCleared == NoUuid

\* The frontend client takes the uuid out before it asks the service, the hook
\* clears it in the end, whatever it then is.
UuidWhileCompleting == IF client = "frontend" THEN NoUuid ELSE uuid
UuidAfterCompleting == IF client = "hook" THEN NoUuid ELSE uuid

\* complete is called for the transaction that carries the log value of b.
Complete(c, b) ==
  /\ calls[c].pc = "idle" /\ called < MaxCalls /\ uuid # NoUuid
  /\ b \in returned
  /\ called' = called + 1
  /\ calls' = [calls EXCEPT ![c] = [pc |-> "complete", b |-> b, uuid |-> uuid]]
  /\ sent' = [sent EXCEPT ![uuid] = @ + 1]
  /\ uuid' = UuidWhileCompleting
  /\ quiet' = {}
  /\ alone' = IF alone = b THEN alone ELSE NoUuid
  /\ UNCHANGED <<client, returned, answered>>

\* "BeginLoginViaTransaction is required to be called first"
NotBegun(c, b) ==
  /\ calls[c].pc = "idle" /\ called < MaxCalls /\ uuid = NoUuid
  /\ b \in returned
  /\ called' = called + 1 /\ quiet' = {} /\ alone' = NoUuid
  /\ UNCHANGED <<client, uuid, calls, returned, sent, answered>>

\* The answer, a success or a failure, has been handled.
CompleteEnds(c) ==
  /\ calls[c].pc = "complete"
  /\ uuid' = UuidAfterCompleting
  /\ answered' = answered \cup {calls[c].uuid}
  /\ calls' = [calls EXCEPT ![c] = IdleCall]
  /\ UNCHANGED <<client, called, returned, quiet, alone, sent>>

LoginNext ==
  \E c \in Calls :
    \/ Begin(c) \/ NonceAnswered(c) \/ BeginFails(c) \/ BeginReturns(c)
    \/ \E b \in Begins : Complete(c, b) \/ NotBegun(c, b)
    \/ CompleteEnds(c)

LoginSpec == LoginInit /\ [][LoginNext]_loginVars

-----------------------------------------------------------------------------

\* Every variable keeps to its type: uuids, calls and histories name begins
\* that were called (the calls of begin- and completeLoginViaTransaction).
LoginTypeOK ==
  /\ client \in {"hook", "frontend"} /\ called \in 0 .. MaxCalls
  /\ uuid \in Begins \cup {NoUuid} /\ calls \in [Calls -> Call]
  /\ returned \subseteq Begins /\ quiet \subseteq Begins /\ alone \in Begins \cup {NoUuid}
  /\ sent \in [Begins -> Nat] /\ answered \subseteq Begins

\* The random uuid is a one-time secret: however calls overlap and whatever
\* fails, the frontend client sends each at most once, because complete takes it
\* out before its first await. (Two completes of the hook that overlap send it
\* twice.)
UuidSentOnce == client = "frontend" => \A n \in Begins : sent[n] <= 1

\* After begin has returned its log value, a complete of the frontend client does
\* not throw that begin "is required to be called first", unless another
\* complete was called since begin was. (In the hook an earlier complete clears
\* the uuid when it ends.)
BeginNotForgotten == client = "frontend" /\ quiet \cap returned # {} => uuid # NoUuid

\* Begin, transaction and complete with no other call in between: complete sends
\* the uuid that is hashed in its own transaction, in either client. For the
\* frontend client a complete still under way when begin is called does no harm.
UndisturbedLoginMatches ==
  \A c \in CallsAt("complete") : calls[c].b = alone => calls[c].uuid = calls[c].b
=============================================================================
