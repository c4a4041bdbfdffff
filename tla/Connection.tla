----------------------------- MODULE Connection -----------------------------
(***************************************************************************)
(* The connection of the Realtime Database library to its server:          *)
(* FPersistentConnection with the FConnection it opens, its FIRRetryHelper *)
(* and the token provider it asks.  All of their code runs on one serial   *)
(* dispatch queue, so each block of that queue is one action.              *)
(*                                                                         *)
(* A request number only ties an answer to the callback that waits for it; *)
(* here the answer carries what the callback knows, and the callback table *)
(* (requestCBHash) is what is on its way in "up" and "down".  The server   *)
(* is not in the repository: it handles requests in the order sent, except *)
(* that a listen may be answered after requests sent later, which is what  *)
(* putsToAck is for.                                                       *)
(***************************************************************************)
EXTENDS Integers, Sequences, FiniteSets

CONSTANTS
  LastPut,       \* writes are numbered 1..LastPut, as putCounter does
  Transactions,  \* the writes that carry a hash: runTransaction's
  Queries,       \* the queries that are listened to
  MaxListens,    \* bound: calls of listen
  Users,         \* accounts that sign in
  NoToken,       \* nil
  MaxIssue,      \* bound: how often every token becomes invalid
  MaxWire,       \* bound: requests on their way when the application adds one
  MaxEvents,     \* bound: token events waiting when Auth adds one
  MaxTroubles    \* bound: losses, interruptions, changes of user and the like

ASSUME BoundsAssumption ==
  /\ LastPut \in Nat /\ MaxListens \in Nat /\ MaxIssue \in Nat /\ MaxWire \in Nat /\ MaxEvents \in Nat
  /\ MaxTroubles \in Nat
  /\ Transactions \subseteq 1 .. LastPut
  /\ NoToken \notin [user : Users, issue : 0 .. MaxIssue]
  /\ IsFiniteSet(Queries)

Puts == 1 .. LastPut
Token == [user : Users, issue : 0 .. MaxIssue]
MaybeToken == Token \cup {NoToken}
Reasons == {"waiting_for_open", "repo_interrupt", "server_kill"}

(* A FOutstandingQuery is told from another by identity: it is the number  *)
(* of the call of listen that made it.  Fetches of tokens are told apart   *)
(* by currentFetchTokenAttempt: a number is used again only when the fetch *)
(* that had it has been answered.                                          *)
Specs == 1 .. MaxListens
Attempts == {0, 1}

VARIABLES
  connectionState,       \* as in the code
  realtime,              \* the FConnection: nil, connecting or connected
  interruptReasons,
  scheduledRetry,        \* of FIRRetryHelper: none, or a block that fetches a token
  forceAuthTokenRefresh,
  attempt,               \* currentFetchTokenAttempt
  authToken,
  listens,               \* query -> its FOutstandingQuery, or 0
  listenCalls,           \* how often listen was called
  outstandingPuts,       \* numbers of the writes without an answer
  sent,                  \* those whose "sent" flag is set
  putCounter,            \* number of the last write
  putsToAck,             \* answered writes whose completion is held back
  unackedListensCount,
  account,               \* token of the signed-in user in FIRAuth
  issue,                 \* tokens issued before this one are invalid
  fetches,               \* tokens being fetched from the network
  authQueue,             \* token changes and fetched tokens, dispatched in order
  up, down,              \* requests and answers of the current connection
  session,               \* token the server's session is authenticated with
  applied,               \* write -> how often the server applied it (at most 2 counted)
  lastApplied,           \* the write the server applied last
  completed,             \* write -> what its completion was told
  stranded,              \* held back when the connection was lost
  outpaced,              \* authToken was fetched for a user who is gone by now
  troubles               \* how much trouble there was

library == <<connectionState, realtime, interruptReasons, scheduledRetry,
             forceAuthTokenRefresh, attempt, authToken>>
requests == <<listens, listenCalls, outstandingPuts, sent, putCounter, putsToAck,
              unackedListensCount, completed, stranded>>
auth == <<account, issue, fetches, authQueue>>
server == <<session, applied, lastApplied>>
vars == <<library, requests, auth, up, down, server, outpaced, troubles>>

Request ==
  [type : {"auth"}, token : Token, restore : BOOLEAN]
    \cup [type : {"unauth"}]
    \cup [type : {"listen"}, query : Queries, spec : Specs]
    \cup [type : {"unlisten"}, query : Queries]
    \cup [type : {"put"}, put : Puts]

Message ==
  [type : {"auth"}, ok : BOOLEAN, restore : BOOLEAN]
    \cup [type : {"listen"}, query : Queries, spec : Specs, ok : BOOLEAN]
    \cup [type : {"put"}, put : Puts]
    \cup [type : {"auth_revoked", "reset", "shutdown"}]
    \cup [type : {"listen_revoked"}, query : Queries]

AuthEvent ==
  [type : {"change"}, token : MaybeToken]
    \cup [type : {"fetched"}, attempt : Attempts, token : MaybeToken, late : BOOLEAN]
    \cup [type : {"error"}, attempt : Attempts]

(***************************************************************************)
(* Type invariant.                                                         *)
(***************************************************************************)
TypeOK ==
  /\ connectionState \in {"Disconnected", "GettingToken", "Connecting",
                          "Authenticating", "Connected"}
  /\ realtime \in {"none", "connecting", "connected"}
  /\ interruptReasons \subseteq Reasons
  /\ scheduledRetry \in {"none", "plain", "forced"}
  /\ forceAuthTokenRefresh \in BOOLEAN
  /\ attempt \in Attempts
  /\ authToken \in MaybeToken
  /\ listens \in [Queries -> Specs \cup {0}]
  /\ listenCalls \in 0 .. MaxListens
  /\ outstandingPuts \subseteq Puts
  /\ sent \subseteq Puts
  /\ putCounter \in 0 .. LastPut
  /\ putsToAck \in Seq(Puts)
  /\ unackedListensCount \in Nat
  /\ account \in MaybeToken
  /\ issue \in 0 .. MaxIssue
  /\ fetches \subseteq [attempt : Attempts, user : Users]
  /\ authQueue \in Seq(AuthEvent)
  /\ up \in Seq(Request)
  /\ down \in Seq(Message)
  /\ session \in MaybeToken
  /\ applied \in [Puts -> 0 .. 2]
  /\ lastApplied \in 0 .. LastPut
  /\ completed \in [Puts -> {"no", "ok", "disconnect", "canceled"}]
  /\ stranded \subseteq Puts
  /\ outpaced \in BOOLEAN
  /\ troubles \in 0 .. MaxTroubles

(* init ends with interruptForReason: nothing connects until open.         *)
Init ==
  /\ connectionState = "Disconnected" /\ realtime = "none"
  /\ interruptReasons = {"waiting_for_open"}
  /\ scheduledRetry = "none" /\ forceAuthTokenRefresh = FALSE /\ attempt = 0
  /\ authToken = NoToken
  /\ listens = [q \in Queries |-> 0] /\ listenCalls = 0
  /\ outstandingPuts = {} /\ sent = {} /\ putCounter = 0 /\ putsToAck = <<>>
  /\ unackedListensCount = 0
  /\ issue = 0 /\ account \in [user : Users, issue : {0}] \cup {NoToken}
  /\ fetches = {} /\ authQueue = <<>>
  /\ up = <<>> /\ down = <<>> /\ session = NoToken
  /\ applied = [i \in Puts |-> 0] /\ lastApplied = 0
  /\ completed = [i \in Puts |-> "no"]
  /\ stranded = {} /\ outpaced = FALSE /\ troubles = 0

-----------------------------------------------------------------------------
(***************************************************************************)
(* Pieces of the handlers.                                                 *)
(***************************************************************************)
connected == connectionState \in {"Authenticating", "Connected"}

(* Mutant: writes are sent while authenticating, and again afterwards.     *)
canSendEarly == connectionState \in {"Authenticating", "Connected"}

canSendWrites == connectionState = "Connected"

Members(s) == {s[k] : k \in DOMAIN s}
Listening == {q \in Queries : listens[q] # 0}

Without(s, k) == [j \in 1 .. Len(s) - 1 |-> IF j < k THEN s[j] ELSE s[j + 1]]

Auth(token, restore) == [type |-> "auth", token |-> token, restore |-> restore]
Listen(q, spec) == [type |-> "listen", query |-> q, spec |-> spec]
Put(i) == [type |-> "put", put |-> i]

(* The completions of the writes in S are called with status.              *)
Completed(S, status) == [i \in Puts |-> IF i \in S THEN status ELSE completed[i]]

(* Mutant: an interrupted connection is retried.                           *)
TryScheduleReconnectAlways(reasons, force) ==
  scheduledRetry' = (IF force THEN "forced" ELSE "plain") /\ forceAuthTokenRefresh' = FALSE

(* Mutant: a refused token is not refreshed.                               *)
TryScheduleReconnectUnforced(reasons, force) ==
  IF reasons = {}
    THEN scheduledRetry' = "plain" /\ forceAuthTokenRefresh' = FALSE
    ELSE UNCHANGED <<scheduledRetry, forceAuthTokenRefresh>>

(* tryScheduleReconnect: a new retry block replaces the scheduled one and  *)
(* takes the request for a forced refresh with it.                         *)
TryScheduleReconnect(reasons, force) ==
  IF reasons = {}
    THEN /\ scheduledRetry' = IF force THEN "forced" ELSE "plain"
         /\ forceAuthTokenRefresh' = FALSE
    ELSE /\ forceAuthTokenRefresh' = force
         /\ UNCHANGED scheduledRetry

(* Mutant: transactions are sent again like other writes.                  *)
NoTransactions == {}

(* cancelSentTransactions.                                                 *)
SentTransactions == outstandingPuts \cap sent \cap Transactions

(* onDisconnect.  What is held in putsToAck stays there.                   *)
OnDisconnect(reasons, force) ==
  /\ connectionState' = "Disconnected" /\ realtime' = "none"
  /\ interruptReasons' = reasons
  /\ completed' = Completed(SentTransactions, "disconnect")
  /\ outstandingPuts' = outstandingPuts \ SentTransactions
  /\ unackedListensCount' = 0
  /\ TryScheduleReconnect(reasons, force)
  /\ up' = <<>> /\ down' = <<>> /\ session' = NoToken
  /\ stranded' = stranded \cup Members(putsToAck)
  /\ UNCHANGED <<attempt, listens, listenCalls, sent, putCounter, putsToAck>>

(* interruptForReason.                                                     *)
Interrupted(reason, force) ==
  \/ /\ realtime # "none"
     /\ OnDisconnect(interruptReasons \cup {reason}, force)
  \/ /\ realtime = "none"
     /\ interruptReasons' = interruptReasons \cup {reason}
     /\ scheduledRetry' = "none" /\ connectionState' = "Disconnected"
     /\ UNCHANGED <<realtime, forceAuthTokenRefresh, attempt, requests, up, down, session>>

(* The orders in which a dictionary may enumerate the keys S.              *)
Enumerations(S) ==
  {order \in [1 .. Cardinality(S) -> S] : \A x \in S : \E k \in DOMAIN order : order[k] = x}

Ascending(order) == \A j, k \in DOMAIN order : j < k => order[j] < order[k]

Listens(qs) == [k \in DOMAIN qs |-> Listen(qs[k], listens[qs[k]])]
PutRequests(ps) == [k \in DOMAIN ps |-> Put(ps[k])]

(* Mutants: restored listens are not counted; writes that were sent before *)
(* are not sent again.                                                     *)
RestoreStateUncounted(before) ==
  /\ connectionState' = "Connected"
  /\ \E qs \in Enumerations(Listening), ps \in Enumerations(outstandingPuts) :
       Ascending(ps) /\ up' = before \o Listens(qs) \o PutRequests(ps)
  /\ sent' = sent \cup outstandingPuts
  /\ UNCHANGED unackedListensCount
RestoreStateUnsent(before) ==
  /\ connectionState' = "Connected"
  /\ \E qs \in Enumerations(Listening), ps \in Enumerations(outstandingPuts \ sent) :
       Ascending(ps) /\ up' = before \o Listens(qs) \o PutRequests(ps)
  /\ sent' = sent \cup outstandingPuts
  /\ unackedListensCount' = unackedListensCount + Cardinality(Listening)

(* restoreState after the requests "before": every listen, in any order,   *)
(* then every outstanding write, in the order they were made.              *)
RestoreState(before) ==
  /\ connectionState' = "Connected"
  /\ \E qs \in Enumerations(Listening), ps \in Enumerations(outstandingPuts) :
       Ascending(ps) /\ up' = before \o Listens(qs) \o PutRequests(ps)
  /\ sent' = sent \cup outstandingPuts
  /\ unackedListensCount' = unackedListensCount + Cardinality(Listening)

(* Mutants: the completions that were called stay in the list; only the    *)
(* latest one is called.                                                   *)
AckPutsKeeping ==
  completed' = Completed(Members(putsToAck), "ok") /\ UNCHANGED <<putsToAck, stranded>>
AckPutsLast ==
  IF putsToAck = <<>> THEN UNCHANGED <<completed, putsToAck, stranded>>
  ELSE /\ completed' = Completed({putsToAck[Len(putsToAck)]}, "ok")
       /\ putsToAck' = SubSeq(putsToAck, 1, Len(putsToAck) - 1)
       /\ UNCHANGED stranded

(* ackPuts.                                                                *)
AckPuts ==
  /\ completed' = Completed(Members(putsToAck), "ok")
  /\ putsToAck' = <<>> /\ stranded' = {}

-----------------------------------------------------------------------------
(***************************************************************************)
(* What FRepo asks for.                                                    *)
(***************************************************************************)

(* Mutant: the connection is not scheduled when it is resumed.             *)
ResumeForReasonOnly(reason) ==
  /\ interruptReasons' = interruptReasons \ {reason}
  /\ UNCHANGED <<connectionState, realtime, scheduledRetry, forceAuthTokenRefresh, attempt,
                 authToken, requests, auth, up, down, server, outpaced>>

(* open is called once, by deferredInit.                                   *)
ResumeForReason(reason) ==
  /\ reason = "waiting_for_open" => reason \in interruptReasons
  /\ interruptReasons' = interruptReasons \ {reason}
  /\ IF connectionState = "Disconnected"
       THEN TryScheduleReconnect(interruptReasons', forceAuthTokenRefresh)
       ELSE UNCHANGED <<scheduledRetry, forceAuthTokenRefresh>>
  /\ UNCHANGED <<connectionState, realtime, attempt, authToken, requests, auth,
                 up, down, server, outpaced>>

InterruptForReason(reason) ==
  /\ Interrupted(reason, forceAuthTokenRefresh)
  /\ UNCHANGED <<authToken, auth, applied, lastApplied, outpaced>>

(* listen.                                                                 *)
ListenTo(q) ==
  LET spec == listenCalls + 1
  IN  /\ listens[q] = 0 /\ spec \in Specs
      /\ listenCalls' = spec
      /\ listens' = [listens EXCEPT ![q] = spec]
      /\ IF connected
           THEN /\ Len(up) < MaxWire
                /\ up' = Append(up, Listen(q, spec))
                /\ unackedListensCount' = unackedListensCount + 1
           ELSE UNCHANGED <<up, unackedListensCount>>
      /\ UNCHANGED <<library, outstandingPuts, sent, putCounter, putsToAck, completed,
                     stranded, auth, down, server, outpaced>>

Unlisten(q) ==
  /\ listens[q] # 0
  /\ listens' = [listens EXCEPT ![q] = 0]
  /\ IF connected
       THEN /\ Len(up) < MaxWire
            /\ up' = Append(up, [type |-> "unlisten", query |-> q])
       ELSE UNCHANGED up
  /\ UNCHANGED <<library, listenCalls, outstandingPuts, sent, putCounter, putsToAck,
                 unackedListensCount, completed, stranded, auth, down, server, outpaced>>

(* putInternal and sendPut.                                                *)
PutData ==
  LET i == putCounter + 1
  IN  /\ i \in Puts
      /\ putCounter' = i
      /\ outstandingPuts' = outstandingPuts \cup {i}
      /\ IF canSendWrites
           THEN up' = Append(up, Put(i)) /\ sent' = sent \cup {i}
           ELSE UNCHANGED <<up, sent>>
      /\ UNCHANGED <<library, listens, listenCalls, putsToAck, unackedListensCount, completed,
                     stranded, auth, down, server, outpaced>>

PurgeOutstandingWrites ==
  /\ outstandingPuts # {} \/ putsToAck # <<>>
  /\ completed' = [i \in Puts |-> IF i \in Members(putsToAck) THEN "ok"
                                  ELSE IF i \in outstandingPuts THEN "canceled"
                                  ELSE completed[i]]
  /\ outstandingPuts' = {} /\ putsToAck' = <<>> /\ stranded' = {}
  /\ UNCHANGED <<library, listens, listenCalls, sent, putCounter, unackedListensCount, auth,
                 up, down, server, outpaced>>

(* enteringForeground and reachabilityCallback.                            *)
Wake ==
  /\ connectionState = "Disconnected"
  /\ TryScheduleReconnect(interruptReasons, forceAuthTokenRefresh)
  /\ UNCHANGED <<connectionState, realtime, interruptReasons, attempt, authToken,
                 requests, auth, up, down, server, outpaced>>

-----------------------------------------------------------------------------
(***************************************************************************)
(* Tokens.  Auth answers a fetch at once with the token it has, or asks    *)
(* the network; changes and answers reach the queue in the order of        *)
(* authQueue.                                                              *)
(***************************************************************************)

(* The block handed to retry runs.                                         *)
RunRetry ==
  LET this == (attempt + 1) % 2
  IN  /\ scheduledRetry # "none"
      /\ \A f \in fetches : f.attempt # this
      /\ \A e \in Members(authQueue) : e.type # "change" => e.attempt # this
      /\ scheduledRetry' = "none" /\ connectionState' = "GettingToken"
      /\ attempt' = this
      /\ \/ /\ scheduledRetry = "plain" \/ account = NoToken
            /\ authQueue' = Append(authQueue, [type |-> "fetched", attempt |-> this,
                                               token |-> account, late |-> FALSE])
            /\ UNCHANGED fetches
         \/ /\ account # NoToken
            /\ fetches' = fetches \cup {[attempt |-> this, user |-> account.user]}
            /\ UNCHANGED authQueue
      /\ UNCHANGED <<realtime, interruptReasons, forceAuthTokenRefresh, authToken,
                     requests, account, issue, up, down, server, outpaced>>

(* The network answers a fetch.  If the user is still signed in FIRAuth    *)
(* keeps the new token and announces it first.                             *)
TokenFetched(f) ==
  LET token == [user |-> f.user, issue |-> issue]
      current == account # NoToken /\ account.user = f.user
      answer == [type |-> "fetched", attempt |-> f.attempt, token |-> token, late |-> ~current]
  IN  /\ f \in fetches
      /\ fetches' = fetches \ {f}
      /\ account' = IF current THEN token ELSE account
      /\ authQueue' = IF current /\ token # account
                        THEN authQueue \o <<[type |-> "change", token |-> token], answer>>
                        ELSE Append(authQueue, answer)
      /\ UNCHANGED <<library, requests, issue, up, down, server, outpaced>>

TokenFetchFails(f) ==
  /\ f \in fetches
  /\ fetches' = fetches \ {f}
  /\ authQueue' = Append(authQueue, [type |-> "error", attempt |-> f.attempt])
  /\ UNCHANGED <<library, requests, account, issue, up, down, server, outpaced>>

(* A user signs in or out.                                                 *)
ChangeAccount(token) ==
  /\ Len(authQueue) < MaxEvents
  /\ token \in [user : Users, issue : {issue}] \cup {NoToken}
  /\ token # account
  /\ account' = token
  /\ authQueue' = Append(authQueue, [type |-> "change", token |-> token])
  /\ UNCHANGED <<library, requests, issue, fetches, up, down, server, outpaced>>

(* Every token there is expires or is revoked.                             *)
InvalidateTokens ==
  /\ issue < MaxIssue
  /\ issue' = issue + 1
  /\ UNCHANGED <<library, requests, account, fetches, authQueue, up, down, server, outpaced>>

(* Mutant: a new token waits for the next connection.                      *)
RefreshAuthTokenLater ==
  /\ authQueue # <<>> /\ Head(authQueue).type = "change"
  /\ authQueue' = Tail(authQueue)
  /\ authToken' = Head(authQueue).token
  /\ outpaced' = FALSE
  /\ UNCHANGED <<connectionState, realtime, interruptReasons, scheduledRetry,
                 forceAuthTokenRefresh, attempt, requests, account, issue, fetches,
                 up, down, server>>

(* refreshAuthToken, for the token change at the head of authQueue.        *)
RefreshAuthToken ==
  /\ authQueue # <<>> /\ Head(authQueue).type = "change"
  /\ authQueue' = Tail(authQueue)
  /\ authToken' = Head(authQueue).token
  /\ up' = IF ~connected THEN up
           ELSE IF authToken' = NoToken THEN Append(up, [type |-> "unauth"])
           ELSE Append(up, Auth(authToken', FALSE))
  /\ outpaced' = FALSE
  /\ UNCHANGED <<connectionState, realtime, interruptReasons, scheduledRetry,
                 forceAuthTokenRefresh, attempt, requests, account, issue, fetches,
                 down, server>>

(* The callback of fetchTokenForcingRefresh: openNetworkConnectionWithToken*)
(* or a new retry, unless another attempt or an interruption came first.   *)
OnFetch ==
  LET e == Head(authQueue)
  IN  /\ authQueue # <<>> /\ e.type # "change"
      /\ authQueue' = Tail(authQueue)
      /\ \/ /\ e.attempt = attempt /\ e.type = "error"
            /\ connectionState' = "Disconnected"
            /\ TryScheduleReconnect(interruptReasons, forceAuthTokenRefresh)
            /\ UNCHANGED <<realtime, authToken, outpaced>>
         \/ /\ e.attempt = attempt /\ e.type = "fetched" /\ connectionState = "GettingToken"
            /\ connectionState' = "Connecting" /\ realtime' = "connecting"
            /\ authToken' = e.token /\ outpaced' = e.late
            /\ UNCHANGED <<scheduledRetry, forceAuthTokenRefresh>>
         \/ /\ e.attempt # attempt \/ (e.type = "fetched" /\ connectionState # "GettingToken")
            /\ UNCHANGED <<connectionState, realtime, authToken, outpaced, scheduledRetry,
                           forceAuthTokenRefresh>>
      /\ UNCHANGED <<interruptReasons, attempt, requests, account, issue, fetches, up,
                     down, server>>

-----------------------------------------------------------------------------
(***************************************************************************)
(* The connection.                                                         *)
(***************************************************************************)

(* The handshake: FConnection's onHandshake, onReady and restoreAuth.      *)
OnReady ==
  /\ realtime = "connecting"
  /\ realtime' = "connected"
  /\ IF authToken = NoToken
       THEN RestoreState(up)
       ELSE /\ connectionState' = "Authenticating"
            /\ up' = Append(up, Auth(authToken, TRUE))
            /\ UNCHANGED <<unackedListensCount, sent>>
  /\ UNCHANGED <<interruptReasons, scheduledRetry, forceAuthTokenRefresh, attempt,
                 authToken, listens, listenCalls, outstandingPuts, putCounter, putsToAck, completed,
                 stranded, auth, down, server, outpaced>>

(* The connection is lost, or cannot be made.                              *)
Drop ==
  /\ realtime # "none"
  /\ OnDisconnect(interruptReasons, forceAuthTokenRefresh)
  /\ UNCHANGED <<authToken, auth, applied, lastApplied, outpaced>>

(* The first message of "down" reaches the client.                         *)
Receive(type) ==
  /\ down # <<>> /\ Head(down).type = type

(* The callback of sendAuthAndRestoreStateAfterComplete.                   *)
OnAuth ==
  LET m == Head(down)
  IN  /\ Receive("auth")
      /\ \/ /\ m.ok /\ m.restore
            /\ RestoreState(up)
            /\ down' = Tail(down)
            /\ UNCHANGED <<realtime, interruptReasons, scheduledRetry, forceAuthTokenRefresh,
                           attempt, authToken, listens, listenCalls, outstandingPuts, putCounter,
                           putsToAck, completed, stranded, session>>
         \/ /\ m.ok /\ ~m.restore
            /\ connectionState' = "Connected"
            /\ down' = Tail(down)
            /\ UNCHANGED <<realtime, interruptReasons, scheduledRetry, forceAuthTokenRefresh,
                           attempt, authToken, requests, up, session>>
         \/ /\ ~m.ok
            /\ authToken' = NoToken
            /\ OnDisconnect(interruptReasons, TRUE)
      /\ UNCHANGED <<auth, applied, lastApplied, outpaced>>

(* The callback of sendPut.                                                *)
OnPut ==
  LET i == Head(down).put
  IN  /\ Receive("put")
      /\ down' = Tail(down)
      /\ outstandingPuts' = outstandingPuts \ {i}
      /\ IF i \notin outstandingPuts THEN UNCHANGED <<completed, putsToAck>>
         ELSE IF unackedListensCount = 0
           THEN completed' = Completed({i}, "ok") /\ UNCHANGED putsToAck
           ELSE putsToAck' = Append(putsToAck, i) /\ UNCHANGED completed
      /\ UNCHANGED <<library, listens, listenCalls, sent, putCounter, unackedListensCount, stranded,
                     auth, up, server, outpaced>>

(* The callback of sendListen.                                             *)
OnListen ==
  LET m == Head(down)
  IN  /\ Receive("listen")
      /\ down' = Tail(down)
      /\ listens' = IF listens[m.query] = m.spec /\ ~m.ok
                      THEN [listens EXCEPT ![m.query] = 0] ELSE listens
      /\ unackedListensCount' = unackedListensCount - 1
      /\ IF unackedListensCount = 1 THEN AckPuts
         ELSE UNCHANGED <<completed, putsToAck, stranded>>
      /\ UNCHANGED <<library, listenCalls, outstandingPuts, sent, putCounter, auth, up, server, outpaced>>

(* onAuthRevoked and onReset.                                              *)
OnClose ==
  \/ /\ Receive("auth_revoked")
     /\ authToken' = NoToken
     /\ OnDisconnect(interruptReasons, TRUE)
     /\ UNCHANGED <<auth, applied, lastApplied, outpaced>>
  \/ /\ Receive("reset")
     /\ OnDisconnect(interruptReasons, forceAuthTokenRefresh)
     /\ UNCHANGED <<authToken, auth, applied, lastApplied, outpaced>>

(* onConnectionShutdown: onKill, then close, which finds it closed.        *)
OnShutdown ==
  /\ Receive("shutdown")
  /\ InterruptForReason("server_kill")

(* onListenRevoked.                                                        *)
OnListenRevoked ==
  /\ Receive("listen_revoked")
  /\ down' = Tail(down)
  /\ listens' = [listens EXCEPT ![Head(down).query] = 0]
  /\ UNCHANGED <<library, listenCalls, outstandingPuts, sent, putCounter, putsToAck, unackedListensCount,
                 completed, stranded, auth, up, server, outpaced>>

-----------------------------------------------------------------------------
(***************************************************************************)
(* The server.                                                             *)
(***************************************************************************)

(* It handles a request that only listens precede.                         *)
ServerHandle(k) ==
  LET r == up[k]
      Answer(m) == down' = Append(down, m)
  IN  /\ k \in DOMAIN up
      /\ \A j \in 1 .. k - 1 : up[j].type = "listen"
      /\ up' = Without(up, k)
      /\ \/ /\ r.type = "auth"
            /\ session' = IF r.token.issue = issue THEN r.token ELSE session
            /\ Answer([type |-> "auth", ok |-> r.token.issue = issue, restore |-> r.restore])
            /\ UNCHANGED <<applied, lastApplied>>
         \/ /\ r.type = "unauth" /\ session' = NoToken
            /\ UNCHANGED <<down, applied, lastApplied>>
         \/ /\ r.type = "listen"
            /\ \E ok \in BOOLEAN :
                 Answer([type |-> "listen", query |-> r.query, spec |-> r.spec, ok |-> ok])
            /\ UNCHANGED server
         \/ /\ r.type = "unlisten"
            /\ UNCHANGED <<down, server>>
         \/ /\ r.type = "put"
            /\ applied' = [applied EXCEPT ![r.put] = IF @ < 2 THEN @ + 1 ELSE 2]
            /\ lastApplied' = r.put
            /\ Answer([type |-> "put", put |-> r.put])
            /\ UNCHANGED session
      /\ UNCHANGED <<library, requests, auth, outpaced>>

(* It revokes the credential of the session, or a listen, moves the client *)
(* to another host, or turns it away for good.                             *)
ServerPush(m) ==
  /\ realtime = "connected" /\ Len(down) < MaxWire
  /\ m.type = "auth_revoked" => session # NoToken /\ session.issue # issue
  /\ session' = IF m.type = "auth_revoked" THEN NoToken ELSE session
  /\ down' = Append(down, m)
  /\ UNCHANGED <<library, requests, auth, up, applied, lastApplied, outpaced>>

Pushes ==
  [type : {"auth_revoked", "reset", "shutdown"}] \cup [type : {"listen_revoked"}, query : Queries]

-----------------------------------------------------------------------------
Repo ==
  \/ ResumeForReason("waiting_for_open")
  \/ \E q \in Queries : ListenTo(q) \/ Unlisten(q)
  \/ PutData

Queue ==
  \/ RunRetry \/ RefreshAuthToken \/ OnFetch \/ OnReady
  \/ OnAuth \/ OnPut \/ OnListen \/ OnClose \/ OnShutdown \/ OnListenRevoked

Service ==
  \/ \E f \in fetches : TokenFetched(f)
  \/ \E k \in DOMAIN up : ServerHandle(k)

Trouble ==
  \/ Drop \/ Wake \/ PurgeOutstandingWrites
  \/ InterruptForReason("repo_interrupt") \/ ResumeForReason("repo_interrupt")
  \/ \E f \in fetches : TokenFetchFails(f)
  \/ \E token \in MaybeToken : ChangeAccount(token)
  \/ InvalidateTokens
  \/ \E m \in Pushes : ServerPush(m)

Next ==
  \/ (Repo \/ Queue \/ Service) /\ UNCHANGED troubles
  \/ Trouble /\ troubles < MaxTroubles /\ troubles' = troubles + 1

Spec == Init /\ [][Next]_vars

(* The queue runs its blocks, the network and the server answer.           *)
Fairness ==
  /\ WF_vars(Queue /\ UNCHANGED troubles)
  /\ WF_vars((\E f \in fetches : TokenFetched(f)) /\ UNCHANGED troubles)
  /\ WF_vars((\E k \in DOMAIN up : ServerHandle(k)) /\ UNCHANGED troubles)

FairSpec == Spec /\ Fairness

-----------------------------------------------------------------------------
(***************************************************************************)
(* Safety.                                                                 *)
(***************************************************************************)
Count(s, type) == Cardinality({k \in DOMAIN s : s[k].type = type})

(* The answer of the current attempt has not been taken.                   *)
CurrentFetchOut ==
  \/ \E f \in fetches : f.attempt = attempt
  \/ \E e \in Members(authQueue) : e.type # "change" /\ e.attempt = attempt

(* No assertion of FPersistentConnection fails and FConnection never       *)
(* throws: a retry runs only while disconnected and wanted, the state and  *)
(* the FConnection agree, so that requests are sent only when it is open,  *)
(* and the answer of a fetch finds the connection closed.                  *)
AssertionsHold ==
  /\ scheduledRetry # "none" => connectionState = "Disconnected" /\ interruptReasons = {}
  /\ realtime = "none" <=> connectionState \in {"Disconnected", "GettingToken"}
  /\ realtime = "connecting" <=> connectionState = "Connecting"
  /\ CurrentFetchOut => realtime = "none"

(* The library never stops trying: a connection that nothing interrupts is *)
(* retried, waits for a token that is on its way, is being opened, or has  *)
(* an authentication on its way that will restore its state.               *)
AlwaysUnderWay ==
  /\ interruptReasons = {} /\ connectionState = "Disconnected" => scheduledRetry # "none"
  /\ connectionState = "GettingToken" => CurrentFetchOut
  /\ connectionState = "Authenticating" =>
       \E m \in Members(up) \cup Members(down) : m.type = "auth" /\ m.restore

(* unackedListensCount counts the listens on their way or unanswered, so   *)
(* that completions are held back exactly while one is.                    *)
UnackedListensOut ==
  unackedListensCount = Count(up, "listen") + Count(down, "listen")

(* Every write is in one place: outstanding, answered and held back once,  *)
(* or completed.  No completion is called twice and none is lost.          *)
WritesAccountedFor ==
  /\ \A j, k \in DOMAIN putsToAck : putsToAck[j] = putsToAck[k] => j = k
  /\ \A i \in Puts :
       IF i > putCounter
         THEN i \notin outstandingPuts \cup Members(putsToAck) /\ completed[i] = "no"
         ELSE \/ i \in outstandingPuts /\ i \notin Members(putsToAck) /\ completed[i] = "no"
              \/ i \notin outstandingPuts /\ i \in Members(putsToAck) /\ completed[i] = "no"
              \/ i \notin outstandingPuts \cup Members(putsToAck) /\ completed[i] # "no"

(* A completion says ok only for a write the server applied, and a write   *)
(* of a transaction is never applied twice, although others are sent again *)
(* after every loss.                                                       *)
AppliedAsReported ==
  /\ \A i \in Puts : completed[i] = "ok" \/ i \in Members(putsToAck) => applied[i] > 0
  /\ \A i \in Transactions : applied[i] < 2

(* Once token changes have been taken and no authentication is on its way, *)
(* the server's session is the signed-in user's: except with a token that  *)
(* was fetched from the network for a user who left meanwhile, whose       *)
(* answer overtakes the change.                                            *)
SessionOfAccount ==
  connected /\ ~outpaced /\ authQueue = <<>>
      /\ (\A m \in Members(up) \cup Members(down) :
             m.type \notin {"auth", "unauth", "auth_revoked"})
    => IF account = NoToken THEN session = NoToken
       ELSE session # NoToken /\ session.user = account.user

(* Completions are called in the order of the writes, but for those that   *)
(* were held back when a connection was lost: onDisconnect forgets the     *)
(* listens they wait for and leaves them to the next listen's answer.      *)
CompletedInOrder ==
  [][\A i \in Puts : (completed[i] = "no" /\ completed'[i] = "ok") =>
       \A j \in 1 .. i - 1 : completed'[j] # "no" \/ j \in stranded]_vars

(***************************************************************************)
(* Liveness.  MaxTroubles, MaxListens and LastPut make every behaviour one *)
(* in which only the queue, the network and the server act from some point *)
(* on.                                                                     *)
(***************************************************************************)

(* An uninterrupted connection is restored.                                *)
Restored == []<>(interruptReasons # {} \/ connectionState = "Connected")

(* Every write reaches the server and is answered, or is given up.         *)
WritesArrive ==
  \A i \in Puts :
    i \in outstandingPuts ~> (i \notin outstandingPuts \/ interruptReasons # {})

(* A completion held back is called, unless nothing is listened to any     *)
(* more: then it stays uncalled.                                           *)
HeldDelivered ==
  putsToAck # <<>> ~> (putsToAck = <<>> \/ Listening = {} \/ interruptReasons # {})
=============================================================================
