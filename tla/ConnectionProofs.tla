--------------------------- MODULE ConnectionProofs ---------------------------
(***************************************************************************)
(* Machine-checked proofs about Connection, for any number of writes,      *)
(* queries, users and faults; first of its state, then of what it promises *)
(* to its user:                                                            *)
(*   - a completion says ok only for what the server applied, and a write  *)
(*     of a transaction is applied at most once;                           *)
(*   - requests are sent in the session of the signed-in user;             *)
(*   - completions are called in the order of the writes;                  *)
(*   - the writes are a queue: Connection implements WriteQueue.           *)
(***************************************************************************)
EXTENDS ConnectionRefinement, FiniteSetTheorems, FunctionTheorems, SequenceTheorems, TLAPS

(* TypeOK but for unackedListensCount, which needs UnackedListensOut.      *)
Shapes ==
  /\ connectionState \in {"Disconnected", "GettingToken", "Connecting",
                          "Authenticating", "Connected"}
  /\ realtime \in {"none", "connecting", "connected"}
  /\ interruptReasons \subseteq Reasons
  /\ scheduledRetry \in {"none", "plain", "forced"}
  /\ forceAuthTokenRefresh \in BOOLEAN
  /\ attempt \in Attempts
  /\ authToken \in MaybeToken
  /\ listens \in [Queries -> Specs \cup {0}]
  /\ listenCalls \in 0 .. MaxListens
  /\ outstandingPuts \subseteq Puts
  /\ sent \subseteq Puts
  /\ putCounter \in 0 .. LastPut
  /\ putsToAck \in Seq(Puts)
  /\ account \in MaybeToken
  /\ issue \in 0 .. MaxIssue
  /\ fetches \subseteq [attempt : Attempts, user : Users]
  /\ authQueue \in Seq(AuthEvent)
  /\ up \in Seq(Request)
  /\ down \in Seq(Message)
  /\ session \in MaybeToken
  /\ applied \in [Puts -> 0 .. 2]
  /\ lastApplied \in 0 .. LastPut
  /\ completed \in [Puts -> {"no", "ok", "disconnect", "canceled"}]
  /\ stranded \subseteq Puts
  /\ outpaced \in BOOLEAN

-----------------------------------------------------------------------------
(***************************************************************************)
(* Requests, messages and the pieces of the handlers are well typed.       *)
(***************************************************************************)
LEMMA PutsRange == \A i \in Puts : i \in Nat /\ i \in 0 .. LastPut
BY BoundsAssumption DEF Puts

LEMMA RequestTypes ==
  /\ \A t \in Token, b \in BOOLEAN : Auth(t, b) \in Request
  /\ [type |-> "unauth"] \in Request
  /\ \A q \in Queries, s \in Specs : Listen(q, s) \in Request
  /\ \A q \in Queries : [type |-> "unlisten", query |-> q] \in Request
  /\ \A i \in Puts : Put(i) \in Request
BY DEF Request, Auth, Listen, Put

LEMMA MessageTypes ==
  /\ \A a, b \in BOOLEAN : [type |-> "auth", ok |-> a, restore |-> b] \in Message
  /\ \A q \in Queries, s \in Specs, b \in BOOLEAN :
       [type |-> "listen", query |-> q, spec |-> s, ok |-> b] \in Message
  /\ \A i \in Puts : [type |-> "put", put |-> i] \in Message
  /\ Pushes \subseteq Message
BY DEF Message, Pushes

LEMMA EventTypes ==
  /\ \A t \in MaybeToken : [type |-> "change", token |-> t] \in AuthEvent
  /\ \A a \in Attempts, t \in MaybeToken, b \in BOOLEAN :
       [type |-> "fetched", attempt |-> a, token |-> t, late |-> b] \in AuthEvent
  /\ \A a \in Attempts : [type |-> "error", attempt |-> a] \in AuthEvent
BY DEF AuthEvent

(* What a request, a message or an event of each type carries. *)
LEMMA RequestFields ==
  ASSUME NEW r \in Request
  PROVE  /\ r.type \in {"auth", "unauth", "listen", "unlisten", "put"}
         /\ r.type = "auth" => r.token \in Token /\ r.restore \in BOOLEAN
         /\ r.type = "listen" => r.query \in Queries /\ r.spec \in Specs
         /\ r.type = "put" => r.put \in Puts
BY DEF Request

LEMMA MessageFields ==
  ASSUME NEW m \in Message
  PROVE  /\ m.type \in {"auth", "listen", "put", "auth_revoked", "reset", "shutdown",
                        "listen_revoked"}
         /\ m.type = "auth" => m.ok \in BOOLEAN /\ m.restore \in BOOLEAN
         /\ m.type = "listen" => m.query \in Queries /\ m.spec \in Specs /\ m.ok \in BOOLEAN
         /\ m.type = "put" => m.put \in Puts
         /\ m.type = "listen_revoked" => m.query \in Queries
BY DEF Message

LEMMA EventFields ==
  ASSUME NEW e \in AuthEvent
  PROVE  /\ e.type \in {"change", "fetched", "error"}
         /\ e.type = "change" => e.token \in MaybeToken
         /\ e.type # "change" => e.attempt \in Attempts
         /\ e.type = "fetched" => e.token \in MaybeToken /\ e.late \in BOOLEAN
BY DEF AuthEvent

LEMMA AppendRequest ==
  ASSUME Shapes, NEW r \in Request
  PROVE  Append(up, r) \in Seq(Request)
BY AppendProperties DEF Shapes

LEMMA ConcatAt ==
  ASSUME NEW S, NEW a \in Seq(S), NEW b \in Seq(S)
  PROVE  /\ a \o b \in Seq(S) /\ Len(a \o b) = Len(a) + Len(b)
         /\ Len(a) \in Nat /\ Len(b) \in Nat
         /\ \A j \in 1 .. Len(a) : (a \o b)[j] = a[j]
         /\ \A j \in 1 .. Len(b) : (a \o b)[Len(a) + j] = b[j]
OBVIOUS

LEMMA WithoutSeq ==
  ASSUME NEW S, NEW s \in Seq(S), NEW k \in DOMAIN s
  PROVE  /\ Without(s, k) \in Seq(S)
         /\ Len(Without(s, k)) = Len(s) - 1
         /\ \A j \in 1 .. Len(s) - 1 : Without(s, k)[j] = IF j < k THEN s[j] ELSE s[j + 1]
<1>1. k \in 1 .. Len(s) /\ Len(s) \in Nat
  OBVIOUS
<1>2. \A j \in 1 .. Len(s) - 1 : (IF j < k THEN s[j] ELSE s[j + 1]) \in S
  BY <1>1
<1> QED
  BY <1>1, <1>2 DEF Without

LEMMA CompletedType ==
  ASSUME Shapes, NEW S, NEW status \in {"ok", "disconnect", "canceled"}
  PROVE  /\ Completed(S, status) \in [Puts -> {"no", "ok", "disconnect", "canceled"}]
         /\ \A i \in Puts : Completed(S, status)[i] = IF i \in S THEN status ELSE completed[i]
BY DEF Completed, Shapes

LEMMA MembersType ==
  ASSUME NEW S, NEW s \in Seq(S)
  PROVE  Members(s) \subseteq S
BY DEF Members

LEMMA FinitePuts == \A S \in SUBSET Puts : IsFiniteSet(S) /\ Cardinality(S) \in Nat
<1>1. IsFiniteSet(Puts)
  BY BoundsAssumption, FS_Interval DEF Puts
<1> QED
  BY <1>1, FS_Subset, FS_CardinalityType

LEMMA FiniteQueries == \A S \in SUBSET Queries : IsFiniteSet(S) /\ Cardinality(S) \in Nat
BY BoundsAssumption, FS_Subset, FS_CardinalityType

LEMMA ListensType ==
  ASSUME Shapes, NEW qs \in Enumerations(Listening)
  PROVE  /\ Listens(qs) \in Seq(Request)
         /\ Len(Listens(qs)) = Cardinality(Listening)
         /\ \A k \in 1 .. Cardinality(Listening) :
              Listens(qs)[k] = Listen(qs[k], listens[qs[k]]) /\ qs[k] \in Listening
<1>1. Listening \subseteq Queries /\ \A q \in Listening : listens[q] \in Specs
  BY DEF Listening, Shapes
<1>2. Cardinality(Listening) \in Nat
  BY <1>1, FiniteQueries
<1>3. qs \in [1 .. Cardinality(Listening) -> Listening]
  BY DEF Enumerations
<1> QED
  BY <1>1, <1>2, <1>3, RequestTypes DEF Listens

LEMMA PutRequestsType ==
  ASSUME NEW S \in SUBSET Puts, NEW ps \in Enumerations(S)
  PROVE  /\ PutRequests(ps) \in Seq(Request)
         /\ Len(PutRequests(ps)) = Cardinality(S)
         /\ \A k \in 1 .. Cardinality(S) : PutRequests(ps)[k] = Put(ps[k]) /\ ps[k] \in S
<1>1. Cardinality(S) \in Nat
  BY FinitePuts
<1>2. ps \in [1 .. Cardinality(S) -> S]
  BY DEF Enumerations
<1> QED
  BY <1>1, <1>2, RequestTypes DEF PutRequests

LEMMA RestoreStateShapes ==
  ASSUME Shapes, NEW before \in Seq(Request), RestoreState(before)
  PROVE  up' \in Seq(Request) /\ sent' \subseteq Puts /\ connectionState' = "Connected"
<1> outstandingPuts \in SUBSET Puts /\ sent \subseteq Puts
  BY DEF Shapes
<1>1. PICK qs \in Enumerations(Listening), ps \in Enumerations(outstandingPuts) :
        up' = before \o Listens(qs) \o PutRequests(ps)
  BY DEF RestoreState
<1>2. Listens(qs) \in Seq(Request) /\ PutRequests(ps) \in Seq(Request)
  BY ListensType, PutRequestsType
<1> QED
  BY <1>1, <1>2, ConcatProperties DEF RestoreState

LEMMA DisconnectShapes ==
  ASSUME Shapes, NEW reasons \in SUBSET Reasons, NEW force \in BOOLEAN,
         OnDisconnect(reasons, force)
  PROVE  /\ connectionState' = "Disconnected" /\ realtime' = "none"
         /\ interruptReasons' \subseteq Reasons
         /\ scheduledRetry' \in {"none", "plain", "forced"}
         /\ forceAuthTokenRefresh' \in BOOLEAN
         /\ outstandingPuts' \subseteq Puts
         /\ completed' \in [Puts -> {"no", "ok", "disconnect", "canceled"}]
         /\ up' = <<>> /\ down' = <<>> /\ session' = NoToken
         /\ stranded' \subseteq Puts
         /\ UNCHANGED <<attempt, listens, listenCalls, sent, putCounter, putsToAck>>
<1>1. completed' \in [Puts -> {"no", "ok", "disconnect", "canceled"}]
  BY CompletedType DEF OnDisconnect
<1>2. Members(putsToAck) \subseteq Puts
  BY MembersType DEF Shapes
<1> QED
  BY <1>1, <1>2 DEF OnDisconnect, TryScheduleReconnect, Shapes

LEMMA RepoShapes ==
  ASSUME Shapes, Repo PROVE Shapes'
<1>1. ASSUME NEW reason \in Reasons, ResumeForReason(reason) PROVE Shapes'
  BY <1>1 DEF ResumeForReason, TryScheduleReconnect, Shapes, requests, auth, server
<1>2. ASSUME NEW q \in Queries, ListenTo(q) PROVE Shapes'
  <2>1. listenCalls + 1 \in Specs
    BY <1>2 DEF ListenTo
  <2>2. listens' \in [Queries -> Specs \cup {0}] /\ listenCalls' \in 0 .. MaxListens
    BY <1>2, <2>1, BoundsAssumption DEF ListenTo, Shapes, Specs
  <2>3. Append(up, Listen(q, listenCalls + 1)) \in Seq(Request)
    BY <2>1, RequestTypes, AppendRequest
  <2>4. up' \in Seq(Request)
    BY <1>2, <2>3 DEF ListenTo, Shapes
  <2> QED
    BY <1>2, <2>2, <2>4 DEF ListenTo, Shapes, library, auth, server
<1>3. ASSUME NEW q \in Queries, Unlisten(q) PROVE Shapes'
  <2>3. Append(up, [type |-> "unlisten", query |-> q]) \in Seq(Request)
    BY RequestTypes, AppendRequest
  <2>1. up' \in Seq(Request)
    BY <1>3, <2>3 DEF Unlisten, Shapes
  <2>2. listens' \in [Queries -> Specs \cup {0}]
    BY <1>3 DEF Unlisten, Shapes
  <2> QED
    BY <1>3, <2>1, <2>2 DEF Unlisten, Shapes, library, auth, server
<1>4. ASSUME PutData PROVE Shapes'
  <2>1. putCounter + 1 \in Puts /\ putCounter' \in 0 .. LastPut
    BY <1>4, PutsRange DEF PutData
  <2>3. Append(up, Put(putCounter + 1)) \in Seq(Request)
    BY <2>1, RequestTypes, AppendRequest
  <2>2. up' \in Seq(Request) /\ sent' \subseteq Puts /\ outstandingPuts' \subseteq Puts
    BY <1>4, <2>1, <2>3 DEF PutData, Shapes
  <2> QED
    BY <1>4, <2>1, <2>2 DEF PutData, Shapes, library, auth, server
<1> QED
  BY <1>1, <1>2, <1>3, <1>4 DEF Repo, Reasons

LEMMA AttemptTypes ==
  ASSUME Shapes
  PROVE  (attempt + 1) % 2 \in Attempts
BY DEF Shapes, Attempts

LEMMA AppendEvent ==
  ASSUME Shapes, NEW e \in AuthEvent
  PROVE  Append(authQueue, e) \in Seq(AuthEvent)
BY AppendProperties DEF Shapes

LEMMA HeadEvent ==
  ASSUME Shapes, authQueue # <<>>
  PROVE  /\ Head(authQueue) \in AuthEvent /\ Tail(authQueue) \in Seq(AuthEvent)
         /\ Head(authQueue) \in Members(authQueue)
<1>1. authQueue \in Seq(AuthEvent)
  BY DEF Shapes
<1>2. Head(authQueue) = authQueue[1] /\ 1 \in DOMAIN authQueue
  BY <1>1
<1> QED
  BY <1>1, <1>2, HeadTailProperties DEF Members

LEMMA HeadMessage ==
  ASSUME Shapes, down # <<>>
  PROVE  /\ Head(down) \in Message /\ Tail(down) \in Seq(Message)
         /\ Head(down) \in Members(down)
<1>1. down \in Seq(Message)
  BY DEF Shapes
<1>2. Head(down) = down[1] /\ 1 \in DOMAIN down
  BY <1>1
<1> QED
  BY <1>1, <1>2, HeadTailProperties DEF Members

LEMMA TokenShapes ==
  ASSUME Shapes, RunRetry \/ RefreshAuthToken \/ OnFetch
  PROVE  Shapes'
<1>1. CASE RunRetry
  <2> DEFINE this == (attempt + 1) % 2
  <2>1. this \in Attempts
    BY AttemptTypes
  <2>2. /\ Append(authQueue, [type |-> "fetched", attempt |-> this, token |-> account,
                              late |-> FALSE]) \in Seq(AuthEvent)
        /\ account # NoToken => [attempt |-> this, user |-> account.user]
                                  \in [attempt : Attempts, user : Users]
    BY <2>1, EventTypes, AppendEvent DEF Shapes, MaybeToken, Token
  <2>3. authQueue' \in Seq(AuthEvent) /\ fetches' \subseteq [attempt : Attempts, user : Users]
    BY <1>1, <2>2 DEF RunRetry, Shapes
  <2> QED
    BY <1>1, <2>1, <2>3 DEF RunRetry, Shapes, requests, server
<1>2. CASE RefreshAuthToken
  <2>1. Head(authQueue).token \in MaybeToken /\ Tail(authQueue) \in Seq(AuthEvent)
    BY <1>2, HeadEvent, EventFields DEF RefreshAuthToken
  <2>2. /\ Append(up, [type |-> "unauth"]) \in Seq(Request)
        /\ Head(authQueue).token # NoToken
             => Append(up, Auth(Head(authQueue).token, FALSE)) \in Seq(Request)
    BY <2>1, RequestTypes, AppendRequest DEF MaybeToken
  <2>3. up' \in Seq(Request)
    BY <1>2, <2>1, <2>2 DEF RefreshAuthToken, Shapes
  <2> QED
    BY <1>2, <2>1, <2>3 DEF RefreshAuthToken, Shapes, requests, server
<1>3. CASE OnFetch
  <2>1. /\ Tail(authQueue) \in Seq(AuthEvent)
        /\ Head(authQueue).type = "fetched" =>
             Head(authQueue).token \in MaybeToken /\ Head(authQueue).late \in BOOLEAN
    BY <1>3, HeadEvent, EventFields DEF OnFetch
  <2> QED
    BY <1>3, <2>1 DEF OnFetch, TryScheduleReconnect, Shapes, requests, server
<1> QED
  BY <1>1, <1>2, <1>3

LEMMA DisconnectedShapes ==
  ASSUME Shapes, NEW reasons \in SUBSET Reasons, NEW force \in BOOLEAN,
         OnDisconnect(reasons, force), authToken' \in MaybeToken,
         UNCHANGED <<auth, applied, lastApplied, outpaced>>
  PROVE  Shapes'
<1>1. /\ connectionState' = "Disconnected" /\ realtime' = "none"
      /\ interruptReasons' \subseteq Reasons
      /\ scheduledRetry' \in {"none", "plain", "forced"}
      /\ forceAuthTokenRefresh' \in BOOLEAN
      /\ outstandingPuts' \subseteq Puts
      /\ completed' \in [Puts -> {"no", "ok", "disconnect", "canceled"}]
      /\ up' = <<>> /\ down' = <<>> /\ session' = NoToken
      /\ stranded' \subseteq Puts
      /\ UNCHANGED <<attempt, listens, listenCalls, sent, putCounter, putsToAck>>
  BY DisconnectShapes
<1>2. up' \in Seq(Request) /\ down' \in Seq(Message)
  BY <1>1, EmptySeq
<1> QED
  BY <1>1, <1>2 DEF Shapes, auth, MaybeToken

LEMMA InterruptShapes ==
  ASSUME Shapes, NEW reason \in Reasons, InterruptForReason(reason)
  PROVE  Shapes'
<1>1. CASE OnDisconnect(interruptReasons \cup {reason}, forceAuthTokenRefresh)
  <2>1. interruptReasons \cup {reason} \in SUBSET Reasons /\ forceAuthTokenRefresh \in BOOLEAN
    BY DEF Shapes
  <2>2. authToken' \in MaybeToken /\ UNCHANGED <<auth, applied, lastApplied, outpaced>>
    BY DEF InterruptForReason, Shapes
  <2> QED
    BY <1>1, <2>1, <2>2, DisconnectedShapes
<1>2. CASE realtime = "none" /\ ~OnDisconnect(interruptReasons \cup {reason},
                                              forceAuthTokenRefresh)
  BY <1>2 DEF InterruptForReason, Interrupted, Shapes, requests, auth
<1> QED
  BY <1>1, <1>2 DEF InterruptForReason, Interrupted

LEMMA ConnectionShapes ==
  ASSUME Shapes, OnReady \/ OnAuth \/ OnPut \/ OnListen \/ OnClose \/ OnShutdown \/ OnListenRevoked
  PROVE  Shapes'
<1>0. up \in Seq(Request)
  BY DEF Shapes
<1>1. CASE OnReady
  <2>1. CASE authToken = NoToken
    <3>1. RestoreState(up)
      BY <1>1, <2>1 DEF OnReady
    <3>2. up' \in Seq(Request) /\ sent' \subseteq Puts /\ connectionState' = "Connected"
      BY <1>0, <3>1, RestoreStateShapes
    <3> QED
      BY <1>1, <3>1, <3>2 DEF OnReady, RestoreState, Shapes, auth, server
  <2>2. CASE authToken # NoToken
    <3>1. Append(up, Auth(authToken, TRUE)) \in Seq(Request)
      BY <2>2, RequestTypes, AppendRequest DEF Shapes, MaybeToken
    <3> QED
      BY <1>1, <2>2, <3>1 DEF OnReady, Shapes, auth, server
  <2> QED
    BY <2>1, <2>2
<1>2. CASE OnAuth
  <2>1. Tail(down) \in Seq(Message)
    BY <1>2, HeadMessage DEF OnAuth, Receive
  <2>2. CASE Head(down).ok /\ Head(down).restore
    <3>1. RestoreState(up)
      BY <1>2, <2>2 DEF OnAuth
    <3>2. up' \in Seq(Request) /\ sent' \subseteq Puts /\ connectionState' = "Connected"
      BY <1>0, <3>1, RestoreStateShapes
    <3>3. /\ down' = Tail(down)
          /\ UNCHANGED <<realtime, interruptReasons, scheduledRetry, forceAuthTokenRefresh,
                         attempt, authToken, listens, listenCalls, outstandingPuts, putCounter,
                         putsToAck, completed, stranded, session>>
          /\ UNCHANGED <<account, issue, fetches, authQueue, applied, lastApplied, outpaced>>
      BY <1>2, <2>2 DEF OnAuth, auth
    <3> QED
      BY <2>1, <3>2, <3>3 DEF Shapes
  <2>3. CASE Head(down).ok /\ ~Head(down).restore
    <3>1. /\ connectionState' = "Connected"
          /\ UNCHANGED <<realtime, interruptReasons, scheduledRetry, forceAuthTokenRefresh,
                         attempt, authToken, up, session, applied, lastApplied, outpaced>>
      BY <1>2, <2>3 DEF OnAuth
    <3>2. UNCHANGED <<listens, listenCalls, outstandingPuts, sent, putCounter, putsToAck,
                      completed, stranded, account, issue, fetches, authQueue>>
      BY <1>2, <2>3 DEF OnAuth, requests, auth
    <3>3. down' \in Seq(Message)
      BY <1>2, <2>1, <2>3 DEF OnAuth
    <3> QED
      BY <3>1, <3>2, <3>3 DEF Shapes
  <2>4. CASE ~Head(down).ok
    <3>1. authToken' = NoToken /\ OnDisconnect(interruptReasons, TRUE)
          /\ UNCHANGED <<auth, applied, lastApplied, outpaced>>
      BY <1>2, <2>4 DEF OnAuth
    <3> QED
      BY <3>1, DisconnectedShapes DEF Shapes, MaybeToken
  <2> QED
    BY <1>2, <2>2, <2>3, <2>4 DEF OnAuth
<1>3. CASE OnPut
  <2>1. Tail(down) \in Seq(Message) /\ Head(down).put \in Puts
    BY <1>3, HeadMessage, MessageFields DEF OnPut, Receive
  <2>2. completed' \in [Puts -> {"no", "ok", "disconnect", "canceled"}]
    BY <1>3, CompletedType DEF OnPut, Shapes
  <2>3. putsToAck' \in Seq(Puts)
    <3>1. putsToAck \in Seq(Puts) /\ Append(putsToAck, Head(down).put) \in Seq(Puts)
      BY <2>1, AppendProperties DEF Shapes
    <3> QED
      BY <1>3, <3>1 DEF OnPut
  <2> QED
    BY <1>3, <2>1, <2>2, <2>3 DEF OnPut, Shapes, library, auth, server
<1>4. CASE OnListen
  <2>1. Tail(down) \in Seq(Message)
    BY <1>4, HeadMessage DEF OnListen, Receive
  <2>2. listens' \in [Queries -> Specs \cup {0}]
    BY <1>4 DEF OnListen, Shapes
  <2>3. /\ completed' \in [Puts -> {"no", "ok", "disconnect", "canceled"}]
        /\ putsToAck' \in Seq(Puts) /\ stranded' \subseteq Puts
    <3>1. CASE unackedListensCount = 1
      BY <1>4, <3>1, CompletedType DEF OnListen, AckPuts
    <3>2. CASE unackedListensCount # 1
      BY <1>4, <3>2 DEF OnListen, Shapes
    <3> QED
      BY <3>1, <3>2
  <2> QED
    BY <1>4, <2>1, <2>2, <2>3 DEF OnListen, Shapes, library, auth, server
<1>5. CASE OnClose
  <2>1. CASE OnDisconnect(interruptReasons, TRUE) /\ authToken' = NoToken
             /\ UNCHANGED <<auth, applied, lastApplied, outpaced>>
    BY <2>1, DisconnectedShapes DEF Shapes, MaybeToken
  <2>2. CASE OnDisconnect(interruptReasons, forceAuthTokenRefresh)
             /\ UNCHANGED <<authToken, auth, applied, lastApplied, outpaced>>
    BY <2>2, DisconnectedShapes DEF Shapes
  <2> QED
    BY <1>5, <2>1, <2>2 DEF OnClose
<1>6. CASE OnShutdown
  BY <1>6, InterruptShapes DEF OnShutdown, Reasons
<1>7. CASE OnListenRevoked
  <2>1. Tail(down) \in Seq(Message)
    BY <1>7, HeadMessage DEF OnListenRevoked, Receive
  <2>2. listens' \in [Queries -> Specs \cup {0}]
    BY <1>7 DEF OnListenRevoked, Shapes
  <2> QED
    BY <1>7, <2>1, <2>2 DEF OnListenRevoked, Shapes, library, auth, server
<1> QED
  BY <1>1, <1>2, <1>3, <1>4, <1>5, <1>6, <1>7

LEMMA AppendMessage ==
  ASSUME Shapes, NEW m \in Message
  PROVE  Append(down, m) \in Seq(Message)
BY AppendProperties DEF Shapes

LEMMA RequestOf ==
  ASSUME Shapes, NEW k \in DOMAIN up
  PROVE  up[k] \in Request /\ Without(up, k) \in Seq(Request)
BY WithoutSeq DEF Shapes

LEMMA ServiceShapes ==
  ASSUME Shapes, Service PROVE Shapes'
<1>1. ASSUME NEW f \in fetches, TokenFetched(f) PROVE Shapes'
  <2> DEFINE token == [user |-> f.user, issue |-> issue]
             late == ~(account # NoToken /\ account.user = f.user)
             answer == [type |-> "fetched", attempt |-> f.attempt, token |-> token, late |-> late]
             change == [type |-> "change", token |-> token]
  <2>1. f.user \in Users /\ f.attempt \in Attempts
    BY DEF Shapes
  <2>2. token \in Token /\ token \in MaybeToken
    BY <2>1 DEF Shapes, Token, MaybeToken
  <2>3. late \in BOOLEAN
    OBVIOUS
  <2>4. answer \in AuthEvent /\ change \in AuthEvent
    BY <2>1, <2>2, <2>3, EventTypes
  <2>5. Append(authQueue, answer) \in Seq(AuthEvent)
    BY <2>4, AppendEvent
  <2>6. authQueue \o <<change, answer>> \in Seq(AuthEvent)
    <3> HIDE DEF change, answer
    <3>1. <<change, answer>> \in Seq(AuthEvent)
      BY <2>4
    <3> QED
      BY <3>1, ConcatAt DEF Shapes
  <2>7. account' \in MaybeToken
    BY <1>1, <2>2 DEF TokenFetched, Shapes
  <2>8. authQueue' \in Seq(AuthEvent)
    BY <1>1, <2>5, <2>6 DEF TokenFetched
  <2>9. fetches' \subseteq [attempt : Attempts, user : Users]
    BY <1>1 DEF TokenFetched, Shapes
  <2> QED
    BY <1>1, <2>7, <2>8, <2>9 DEF TokenFetched, Shapes, library, requests, server
<1>2. ASSUME NEW k \in DOMAIN up, ServerHandle(k) PROVE Shapes'
  <2>1. up[k] \in Request /\ up' \in Seq(Request)
    BY <1>2, RequestOf DEF ServerHandle
  <2>2. CASE up[k].type = "auth"
    <3>1. up[k].token \in Token /\ up[k].restore \in BOOLEAN
      BY <2>1, <2>2, RequestFields
    <3>2. \A b \in BOOLEAN :
            Append(down, [type |-> "auth", ok |-> b, restore |-> up[k].restore]) \in Seq(Message)
      BY <3>1, MessageTypes, AppendMessage
    <3>3. session' \in MaybeToken /\ down' \in Seq(Message)
      BY <1>2, <2>2, <3>1, <3>2 DEF ServerHandle, Shapes, MaybeToken
    <3> QED
      BY <1>2, <2>1, <2>2, <3>3 DEF ServerHandle, Shapes, library, requests, auth
  <2>3. CASE up[k].type = "unauth"
    BY <1>2, <2>1, <2>3 DEF ServerHandle, Shapes, library, requests, auth, MaybeToken
  <2>4. CASE up[k].type = "listen"
    <3>1. up[k].query \in Queries /\ up[k].spec \in Specs
      BY <2>1, <2>4, RequestFields
    <3>2. \A b \in BOOLEAN :
            Append(down, [type |-> "listen", query |-> up[k].query, spec |-> up[k].spec,
                          ok |-> b]) \in Seq(Message)
      BY <3>1, MessageTypes, AppendMessage
    <3>3. down' \in Seq(Message) /\ UNCHANGED <<session, applied, lastApplied>>
      BY <1>2, <2>4, <3>2 DEF ServerHandle, server
    <3> QED
      BY <1>2, <2>1, <3>3 DEF ServerHandle, Shapes, library, requests, auth
  <2>5. CASE up[k].type = "unlisten"
    BY <1>2, <2>1, <2>5 DEF ServerHandle, Shapes, library, requests, auth, server
  <2>6. CASE up[k].type = "put"
    <3>1. up[k].put \in Puts /\ up[k].put \in 0 .. LastPut
      BY <2>1, <2>6, RequestFields, PutsRange
    <3>2. Append(down, [type |-> "put", put |-> up[k].put]) \in Seq(Message)
      BY <3>1, MessageTypes, AppendMessage
    <3>3. /\ down' \in Seq(Message) /\ lastApplied' = up[k].put /\ UNCHANGED session
          /\ applied' = [applied EXCEPT ![up[k].put] = IF @ < 2 THEN @ + 1 ELSE 2]
      BY <1>2, <2>6, <3>2 DEF ServerHandle
    <3>4. applied' \in [Puts -> 0 .. 2]
      <4>1. applied \in [Puts -> 0 .. 2] /\ applied[up[k].put] \in 0 .. 2
        BY <3>1 DEF Shapes
      <4>2. (IF applied[up[k].put] < 2 THEN applied[up[k].put] + 1 ELSE 2) \in 0 .. 2
        BY <4>1
      <4> QED
        BY <3>1, <3>3, <4>1, <4>2
    <3> QED
      BY <1>2, <2>1, <3>1, <3>3, <3>4 DEF ServerHandle, Shapes, library, requests, auth
  <2> QED
    BY <2>1, <2>2, <2>3, <2>4, <2>5, <2>6, RequestFields
<1> QED
  BY <1>1, <1>2 DEF Service

LEMMA TroubleShapes ==
  ASSUME Shapes, Trouble PROVE Shapes'
<1>1. CASE Drop
  BY <1>1, DisconnectedShapes DEF Drop, Shapes
<1>2. CASE Wake
  BY <1>2 DEF Wake, TryScheduleReconnect, Shapes, requests, auth, server
<1>3. CASE PurgeOutstandingWrites
  BY <1>3, EmptySeq DEF PurgeOutstandingWrites, Shapes, library, auth, server
<1>4. CASE InterruptForReason("repo_interrupt")
  BY <1>4, InterruptShapes DEF Reasons
<1>5. CASE ResumeForReason("repo_interrupt")
  BY <1>5 DEF ResumeForReason, TryScheduleReconnect, Shapes, requests, auth, server
<1>6. ASSUME NEW f \in fetches, TokenFetchFails(f) PROVE Shapes'
  <2>1. Append(authQueue, [type |-> "error", attempt |-> f.attempt]) \in Seq(AuthEvent)
    BY EventTypes, AppendEvent DEF Shapes
  <2> QED
    BY <1>6, <2>1 DEF TokenFetchFails, Shapes, library, requests, server
<1>7. ASSUME NEW token \in MaybeToken, ChangeAccount(token) PROVE Shapes'
  <2>1. Append(authQueue, [type |-> "change", token |-> token]) \in Seq(AuthEvent)
    BY EventTypes, AppendEvent
  <2> QED
    BY <1>7, <2>1 DEF ChangeAccount, Shapes, library, requests, server
<1>8. CASE InvalidateTokens
  BY <1>8, BoundsAssumption DEF InvalidateTokens, Shapes, library, requests, server
<1>9. ASSUME NEW m \in Pushes, ServerPush(m) PROVE Shapes'
  <2>1. Append(down, m) \in Seq(Message)
    BY MessageTypes, AppendMessage
  <2> QED
    BY <1>9, <2>1 DEF ServerPush, Shapes, library, requests, auth, MaybeToken
<1> QED
  BY <1>1, <1>2, <1>3, <1>4, <1>5, <1>6, <1>7, <1>8, <1>9 DEF Trouble

LEMMA ShapesStep ==
  ASSUME Shapes, [Next]_vars PROVE Shapes'
<1>1. CASE Next
  <2>1. Repo \/ Queue \/ Service \/ Trouble
    BY <1>1 DEF Next
  <2>2. ASSUME Queue PROVE Shapes'
    BY <2>2, TokenShapes, ConnectionShapes DEF Queue
  <2> QED
    BY <2>1, <2>2, RepoShapes, ServiceShapes, TroubleShapes
<1>2. CASE UNCHANGED vars
  BY <1>2 DEF vars, library, requests, auth, server, Shapes
<1> QED
  BY <1>1, <1>2

LEMMA ShapesInit ==
  Init => Shapes
<1> SUFFICES ASSUME Init PROVE Shapes
  OBVIOUS
<1>1. account \in MaybeToken
  BY BoundsAssumption DEF Init, MaybeToken, Token
<1>2. /\ applied \in [Puts -> 0 .. 2] /\ completed \in [Puts -> {"no", "ok", "disconnect", "canceled"}]
      /\ listens \in [Queries -> Specs \cup {0}]
  BY DEF Init
<1>3. putCounter \in 0 .. LastPut /\ lastApplied \in 0 .. LastPut /\ issue \in 0 .. MaxIssue
      /\ listenCalls \in 0 .. MaxListens
  BY BoundsAssumption DEF Init
<1>4. up \in Seq(Request) /\ down \in Seq(Message) /\ putsToAck \in Seq(Puts)
      /\ authQueue \in Seq(AuthEvent)
  BY EmptySeq DEF Init
<1> QED
  BY <1>1, <1>2, <1>3, <1>4 DEF Init, Shapes, Reasons, Attempts, MaybeToken

-----------------------------------------------------------------------------
(***************************************************************************)
(* The inductive invariant behind AssertionsHold and AlwaysUnderWay.       *)
(***************************************************************************)
StatesAgree ==
  /\ scheduledRetry # "none" => connectionState = "Disconnected" /\ interruptReasons = {}
  /\ realtime = "none" <=> connectionState \in {"Disconnected", "GettingToken"}
  /\ realtime = "connecting" <=> connectionState = "Connecting"
  /\ interruptReasons = {} /\ connectionState = "Disconnected" => scheduledRetry # "none"

(* Requests and answers need an open connection. *)
WireOpen == up # <<>> \/ down # <<>> => realtime = "connected"

(* At most one fetch or answer of a fetch has the number of an attempt. *)
Answering(e) == e.type # "change"

SingleAnswers(s) ==
  \A j, k \in DOMAIN s :
    Answering(s[j]) /\ Answering(s[k]) /\ s[j].attempt = s[k].attempt => j = k

FetchesUnique ==
  /\ \A f, g \in fetches : f.attempt = g.attempt => f = g
  /\ \A f \in fetches, e \in Members(authQueue) : Answering(e) => e.attempt # f.attempt
  /\ SingleAnswers(authQueue)

FetchAgrees ==
  /\ CurrentFetchOut => realtime = "none"
  /\ connectionState = "GettingToken" => CurrentFetchOut

Restoring(m) == m.type = "auth" /\ m.restore

AuthOut ==
  connectionState = "Authenticating" =>
    \E m \in Members(up) \cup Members(down) : Restoring(m)

ControlInv == StatesAgree /\ WireOpen /\ FetchesUnique /\ FetchAgrees /\ AuthOut

(* What is in a sequence after an Append, a Tail or a Without. *)
LEMMA MembersAppend ==
  ASSUME NEW S, NEW s \in Seq(S), NEW e \in S
  PROVE  Members(Append(s, e)) = Members(s) \cup {e}
<1>1. DOMAIN Append(s, e) = 1 .. Len(s) + 1 /\ DOMAIN s = 1 .. Len(s) /\ Len(s) \in Nat
  OBVIOUS
<1>2. \A j \in 1 .. Len(s) : Append(s, e)[j] = s[j]
  OBVIOUS
<1>3. Append(s, e)[Len(s) + 1] = e
  OBVIOUS
<1>4. 1 .. Len(s) + 1 = (1 .. Len(s)) \cup {Len(s) + 1}
  BY <1>1
<1> QED
  BY <1>1, <1>2, <1>3, <1>4 DEF Members

LEMMA TailAt ==
  ASSUME NEW S, NEW s \in Seq(S), s # <<>>
  PROVE  /\ Len(s) \in Nat /\ Len(s) > 0 /\ Head(s) = s[1] /\ DOMAIN s = 1 .. Len(s)
         /\ DOMAIN Tail(s) = 1 .. Len(s) - 1
         /\ \A j \in 1 .. Len(s) - 1 : Tail(s)[j] = s[j + 1]
OBVIOUS

LEMMA MembersTail ==
  ASSUME NEW S, NEW s \in Seq(S), s # <<>>
  PROVE  Members(s) = {Head(s)} \cup Members(Tail(s))
<1>1. ASSUME NEW j \in DOMAIN s PROVE s[j] \in {Head(s)} \cup Members(Tail(s))
  <2>1. CASE j = 1
    BY <2>1, TailAt
  <2>2. CASE j # 1
    <3>1. j - 1 \in 1 .. Len(s) - 1 /\ (j - 1) + 1 = j
      BY <2>2, TailAt
    <3>2. Tail(s)[j - 1] = s[j] /\ j - 1 \in DOMAIN Tail(s)
      BY <3>1, TailAt
    <3> QED
      BY <3>2 DEF Members
  <2> QED
    BY <2>1, <2>2
<1>2. ASSUME NEW j \in DOMAIN Tail(s) PROVE Tail(s)[j] \in Members(s)
  <2>1. j \in 1 .. Len(s) - 1 /\ j + 1 \in DOMAIN s
    BY TailAt
  <2> QED
    BY <2>1, TailAt DEF Members
<1>3. Head(s) \in Members(s)
  <2>1. 1 \in DOMAIN s /\ Head(s) = s[1]
    BY TailAt
  <2> QED
    BY <2>1 DEF Members
<1> QED
  BY <1>1, <1>2, <1>3 DEF Members

LEMMA MembersWithout ==
  ASSUME NEW S, NEW s \in Seq(S), NEW k \in DOMAIN s
  PROVE  Members(s) = {s[k]} \cup Members(Without(s, k))
<1>0. Len(s) \in Nat /\ DOMAIN s = 1 .. Len(s) /\ k \in 1 .. Len(s)
  OBVIOUS
<1>1. /\ DOMAIN Without(s, k) = 1 .. Len(s) - 1
      /\ \A j \in 1 .. Len(s) - 1 : Without(s, k)[j] = IF j < k THEN s[j] ELSE s[j + 1]
  BY <1>0 DEF Without
<1>2. ASSUME NEW j \in DOMAIN s, j # k PROVE s[j] \in Members(Without(s, k))
  <2>1. CASE j < k
    <3>1. j \in 1 .. Len(s) - 1
      BY <1>0, <2>1
    <3> QED
      BY <1>1, <2>1, <3>1 DEF Members
  <2>2. CASE ~(j < k)
    <3>1. j - 1 \in 1 .. Len(s) - 1 /\ ~(j - 1 < k) /\ (j - 1) + 1 = j
      BY <1>0, <1>2, <2>2
    <3>2. Without(s, k)[j - 1] = s[j]
      BY <1>1, <3>1
    <3> QED
      BY <1>1, <3>1, <3>2 DEF Members
  <2> QED
    BY <2>1, <2>2
<1>3. ASSUME NEW j \in DOMAIN Without(s, k) PROVE Without(s, k)[j] \in Members(s)
  <2>1. j \in DOMAIN s /\ j + 1 \in DOMAIN s
    BY <1>0, <1>1
  <2> QED
    BY <1>1, <2>1 DEF Members
<1> QED
  BY <1>2, <1>3 DEF Members

LEMMA SingleTail ==
  ASSUME NEW s \in Seq(AuthEvent), s # <<>>, SingleAnswers(s)
  PROVE  /\ SingleAnswers(Tail(s))
         /\ \A e \in Members(Tail(s)) :
              Answering(e) /\ Answering(Head(s)) => e.attempt # Head(s).attempt
<1>1. ASSUME NEW j \in DOMAIN Tail(s)
      PROVE  j + 1 \in DOMAIN s /\ j + 1 # 1 /\ Tail(s)[j] = s[j + 1] /\ j \in Int
  BY TailAt
<1>2. 1 \in DOMAIN s /\ Head(s) = s[1]
  BY TailAt
<1>3. SingleAnswers(Tail(s))
  <2> SUFFICES ASSUME NEW j \in DOMAIN Tail(s), NEW k \in DOMAIN Tail(s),
                      Answering(Tail(s)[j]), Answering(Tail(s)[k]),
                      Tail(s)[j].attempt = Tail(s)[k].attempt
               PROVE  j = k
    BY DEF SingleAnswers
  <2>1. j + 1 = k + 1
    BY <1>1 DEF SingleAnswers
  <2> QED
    BY <1>1, <2>1
<1>4. ASSUME NEW j \in DOMAIN Tail(s), Answering(Tail(s)[j]), Answering(Head(s))
      PROVE  Tail(s)[j].attempt # Head(s).attempt
  BY <1>1, <1>2, <1>4 DEF SingleAnswers
<1> QED
  BY <1>3, <1>4 DEF Members

LEMMA SingleAppend ==
  ASSUME NEW s \in Seq(AuthEvent), NEW e \in AuthEvent, SingleAnswers(s),
         \A d \in Members(s) : Answering(d) /\ Answering(e) => d.attempt # e.attempt
  PROVE  SingleAnswers(Append(s, e))
<1>1. /\ Len(s) \in Nat /\ DOMAIN s = 1 .. Len(s) /\ DOMAIN Append(s, e) = 1 .. Len(s) + 1
      /\ Append(s, e)[Len(s) + 1] = e
      /\ \A j \in 1 .. Len(s) : Append(s, e)[j] = s[j]
  OBVIOUS
<1>2. \A j \in 1 .. Len(s) : Answering(s[j]) /\ Answering(e) => s[j].attempt # e.attempt
  BY <1>1 DEF Members
<1> SUFFICES ASSUME NEW j \in 1 .. Len(s) + 1, NEW k \in 1 .. Len(s) + 1,
                    Answering(Append(s, e)[j]), Answering(Append(s, e)[k]),
                    Append(s, e)[j].attempt = Append(s, e)[k].attempt
             PROVE  j = k
  BY <1>1 DEF SingleAnswers
<1>3. CASE j = Len(s) + 1 \/ k = Len(s) + 1
  BY <1>1, <1>2, <1>3
<1>4. CASE j \in 1 .. Len(s) /\ k \in 1 .. Len(s)
  BY <1>1, <1>4 DEF SingleAnswers
<1> QED
  BY <1>1, <1>3, <1>4

LEMMA DisconnectStates ==
  ASSUME Shapes, StatesAgree, realtime # "none", NEW reasons, NEW force,
         OnDisconnect(reasons, force), interruptReasons \subseteq reasons
  PROVE  StatesAgree' /\ WireOpen'
BY DEF OnDisconnect, TryScheduleReconnect, StatesAgree, WireOpen, Shapes

LEMMA InterruptStates ==
  ASSUME Shapes, StatesAgree, NEW reason, Interrupted(reason, forceAuthTokenRefresh), WireOpen
  PROVE  StatesAgree' /\ WireOpen'
<1>1. CASE realtime # "none"
  BY <1>1, DisconnectStates DEF Interrupted
<1>2. CASE realtime = "none"
  BY <1>2 DEF Interrupted, StatesAgree, WireOpen
<1> QED
  BY <1>1, <1>2

(* The states agree, and what is on its way needs an open connection. *)
LEMMA RepoStates ==
  ASSUME Shapes, StatesAgree, WireOpen, Repo
  PROVE  StatesAgree' /\ WireOpen'
<1>1. CASE ResumeForReason("waiting_for_open")
  BY <1>1 DEF ResumeForReason, TryScheduleReconnect, StatesAgree, WireOpen, Shapes
<1>2. ASSUME NEW q \in Queries, ListenTo(q) PROVE StatesAgree' /\ WireOpen'
  BY <1>2 DEF ListenTo, connected, library, StatesAgree, WireOpen, Shapes
<1>3. ASSUME NEW q \in Queries, Unlisten(q) PROVE StatesAgree' /\ WireOpen'
  BY <1>3 DEF Unlisten, connected, library, StatesAgree, WireOpen, Shapes
<1>4. CASE PutData
  BY <1>4 DEF PutData, canSendWrites, library, StatesAgree, WireOpen, Shapes
<1> QED
  BY <1>1, <1>2, <1>3, <1>4 DEF Repo

LEMMA QueueStates ==
  ASSUME Shapes, StatesAgree, WireOpen, FetchAgrees, Queue
  PROVE  StatesAgree' /\ WireOpen'
<1>0. down # <<>> => realtime = "connected"
  BY DEF WireOpen
<1>1. CASE RunRetry
  BY <1>1 DEF RunRetry, StatesAgree, WireOpen
<1>2. CASE RefreshAuthToken
  BY <1>2 DEF RefreshAuthToken, connected, StatesAgree, WireOpen, Shapes
<1>3. CASE OnFetch
  <2>1. Head(authQueue).attempt = attempt => realtime = "none"
    BY <1>3, HeadEvent DEF OnFetch, FetchAgrees, CurrentFetchOut
  <2>2. (up = <<>> /\ down = <<>>) \/ realtime = "connected"
    BY DEF WireOpen
  <2>3. Head(authQueue).type \in {"fetched", "error"}
    BY <1>3, HeadEvent, EventFields DEF OnFetch
  <2>4. CASE Head(authQueue).attempt = attempt /\ Head(authQueue).type = "error"
    BY <1>3, <2>1, <2>2, <2>4 DEF OnFetch, TryScheduleReconnect, StatesAgree, WireOpen, Shapes
  <2>5. CASE /\ Head(authQueue).attempt = attempt /\ Head(authQueue).type = "fetched"
             /\ connectionState = "GettingToken"
    BY <1>3, <2>1, <2>2, <2>5 DEF OnFetch, StatesAgree, WireOpen, Shapes
  <2>6. CASE \/ Head(authQueue).attempt # attempt
             \/ Head(authQueue).type = "fetched" /\ connectionState # "GettingToken"
    BY <1>3, <2>6 DEF OnFetch, StatesAgree, WireOpen, Shapes
  <2> QED
    BY <2>3, <2>4, <2>5, <2>6
<1>4. CASE OnReady
  BY <1>4 DEF OnReady, RestoreState, StatesAgree, WireOpen, Shapes
<1>5. CASE OnAuth
  <2>1. realtime = "connected"
    BY <1>0, <1>5 DEF OnAuth, Receive
  <2>2. CASE OnDisconnect(interruptReasons, TRUE)
    BY <2>1, <2>2, DisconnectStates
  <2>3. CASE /\ connectionState' = "Connected"
             /\ UNCHANGED <<realtime, interruptReasons, scheduledRetry>>
    BY <2>1, <2>3 DEF StatesAgree, WireOpen, Shapes
  <2> QED
    BY <1>5, <2>2, <2>3 DEF OnAuth, RestoreState
<1>6. CASE OnPut
  BY <1>0, <1>6 DEF OnPut, Receive, library, StatesAgree, WireOpen
<1>7. CASE OnListen
  BY <1>0, <1>7 DEF OnListen, Receive, library, StatesAgree, WireOpen
<1>8. CASE OnClose
  <2>1. realtime = "connected"
    BY <1>0, <1>8 DEF OnClose, Receive
  <2> QED
    BY <1>8, <2>1, DisconnectStates DEF OnClose
<1>9. CASE OnShutdown
  BY <1>9, InterruptStates DEF OnShutdown, InterruptForReason
<1>10. CASE OnListenRevoked
  BY <1>0, <1>10 DEF OnListenRevoked, Receive, library, StatesAgree, WireOpen
<1> QED
  BY <1>1, <1>2, <1>3, <1>4, <1>5, <1>6, <1>7, <1>8, <1>9, <1>10 DEF Queue

LEMMA ServiceStates ==
  ASSUME Shapes, StatesAgree, WireOpen, Service
  PROVE  StatesAgree' /\ WireOpen'
<1>1. ASSUME NEW f \in fetches, TokenFetched(f) PROVE StatesAgree' /\ WireOpen'
  BY <1>1 DEF TokenFetched, library, StatesAgree, WireOpen
<1>2. ASSUME NEW k \in DOMAIN up, ServerHandle(k) PROVE StatesAgree' /\ WireOpen'
  <2>1. realtime = "connected" /\ UNCHANGED library
    BY <1>2 DEF ServerHandle, WireOpen
  <2> QED
    BY <2>1 DEF library, StatesAgree, WireOpen
<1> QED
  BY <1>1, <1>2 DEF Service

LEMMA TroubleStates ==
  ASSUME Shapes, StatesAgree, WireOpen, Trouble
  PROVE  StatesAgree' /\ WireOpen'
<1>1. CASE Drop
  BY <1>1, DisconnectStates DEF Drop
<1>2. CASE Wake
  BY <1>2 DEF Wake, TryScheduleReconnect, StatesAgree, WireOpen, Shapes
<1>3. CASE PurgeOutstandingWrites
  BY <1>3 DEF PurgeOutstandingWrites, library, StatesAgree, WireOpen
<1>4. CASE InterruptForReason("repo_interrupt")
  BY <1>4, InterruptStates DEF InterruptForReason
<1>5. CASE ResumeForReason("repo_interrupt")
  BY <1>5 DEF ResumeForReason, TryScheduleReconnect, StatesAgree, WireOpen, Shapes
<1>6. ASSUME NEW f \in fetches, TokenFetchFails(f) PROVE StatesAgree' /\ WireOpen'
  BY <1>6 DEF TokenFetchFails, library, StatesAgree, WireOpen
<1>7. ASSUME NEW token \in MaybeToken, ChangeAccount(token) PROVE StatesAgree' /\ WireOpen'
  BY <1>7 DEF ChangeAccount, library, StatesAgree, WireOpen
<1>8. CASE InvalidateTokens
  BY <1>8 DEF InvalidateTokens, library, StatesAgree, WireOpen
<1>9. ASSUME NEW m \in Pushes, ServerPush(m) PROVE StatesAgree' /\ WireOpen'
  BY <1>9 DEF ServerPush, library, StatesAgree, WireOpen
<1> QED
  BY <1>1, <1>2, <1>3, <1>4, <1>5, <1>6, <1>7, <1>8, <1>9 DEF Trouble

(* Fetches of tokens. *)
LEMMA FetchesKept ==
  ASSUME FetchesUnique, FetchAgrees, UNCHANGED <<attempt, fetches, authQueue>>,
         realtime = "none" => realtime' = "none",
         connectionState' = "GettingToken" => connectionState = "GettingToken"
  PROVE  FetchesUnique' /\ FetchAgrees'
BY DEF FetchesUnique, FetchAgrees, CurrentFetchOut, SingleAnswers, Members

LEMMA DisconnectFetches ==
  ASSUME FetchesUnique, FetchAgrees, NEW reasons, NEW force, OnDisconnect(reasons, force),
         UNCHANGED auth
  PROVE  FetchesUnique' /\ FetchAgrees'
<1>1. /\ UNCHANGED <<attempt, fetches, authQueue>>
      /\ realtime' = "none" /\ connectionState' = "Disconnected"
  BY DEF OnDisconnect, auth
<1> QED
  BY <1>1, FetchesKept

LEMMA InterruptFetches ==
  ASSUME FetchesUnique, FetchAgrees, NEW reason, Interrupted(reason, forceAuthTokenRefresh),
         UNCHANGED auth
  PROVE  FetchesUnique' /\ FetchAgrees'
<1>1. /\ UNCHANGED <<attempt, fetches, authQueue>>
      /\ realtime' = "none" /\ connectionState' = "Disconnected"
  BY DEF Interrupted, OnDisconnect, auth
<1> QED
  BY <1>1, FetchesKept

LEMMA RepoFetches ==
  ASSUME FetchesUnique, FetchAgrees, Repo
  PROVE  FetchesUnique' /\ FetchAgrees'
<1>1. UNCHANGED <<connectionState, realtime, attempt, fetches, authQueue>>
  BY DEF Repo, ResumeForReason, ListenTo, Unlisten, PutData, library, auth
<1> QED
  BY <1>1, FetchesKept

LEMMA RetryFetches ==
  ASSUME Shapes, StatesAgree, FetchesUnique, FetchAgrees, RunRetry
  PROVE  FetchesUnique' /\ FetchAgrees'
<1> DEFINE this == (attempt + 1) % 2
           answer == [type |-> "fetched", attempt |-> this, token |-> account, late |-> FALSE]
<1>1. /\ \A f \in fetches : f.attempt # this
      /\ \A e \in Members(authQueue) : Answering(e) => e.attempt # this
      /\ attempt' = this /\ realtime' = "none" /\ realtime = "none"
  BY DEF RunRetry, Answering, StatesAgree
<1>2. answer \in AuthEvent /\ authQueue \in Seq(AuthEvent)
  BY AttemptTypes, EventTypes DEF Shapes
<1>5. answer.attempt = this /\ answer.type # "change"
  OBVIOUS
<1> HIDE DEF answer
<1>3. CASE authQueue' = Append(authQueue, answer) /\ fetches' = fetches
  <2>1. Members(authQueue') = Members(authQueue) \cup {answer}
    BY <1>2, <1>3, MembersAppend
  <2>2. SingleAnswers(authQueue)'
    <3>1. SingleAnswers(authQueue)
      BY DEF FetchesUnique
    <3>2. \A d \in Members(authQueue) : Answering(d) /\ Answering(answer) => d.attempt # answer.attempt
      BY <1>1, <1>5
    <3>3. SingleAnswers(Append(authQueue, answer))
      BY <1>2, <3>1, <3>2, SingleAppend
    <3> QED
      BY <1>3, <3>3 DEF SingleAnswers
  <2>3. CurrentFetchOut'
    <3>1. answer \in Members(authQueue')
      BY <2>1
    <3> QED
      BY <1>1, <1>5, <3>1 DEF CurrentFetchOut
  <2> QED
    <3>1. FetchesUnique'
      BY <1>1, <1>3, <1>5, <2>1, <2>2 DEF FetchesUnique
    <3> QED
      BY <1>1, <2>3, <3>1 DEF FetchAgrees
<1>4. CASE account # NoToken /\ authQueue' = authQueue
           /\ fetches' = fetches \cup {[attempt |-> this, user |-> account.user]}
  <2>1. CurrentFetchOut'
    <3> DEFINE f == [attempt |-> this, user |-> account.user]
    <3>1. f \in fetches' /\ f.attempt = this
      BY <1>4
    <3> HIDE DEF f
    <3> QED
      BY <1>1, <3>1 DEF CurrentFetchOut
  <2>2. FetchesUnique'
    BY <1>1, <1>4 DEF FetchesUnique, SingleAnswers, Members
  <2> QED
    BY <1>1, <2>1, <2>2 DEF FetchAgrees
<1> QED
  BY <1>3, <1>4 DEF RunRetry, answer

LEMMA RefreshFetches ==
  ASSUME Shapes, FetchesUnique, FetchAgrees, RefreshAuthToken
  PROVE  FetchesUnique' /\ FetchAgrees'
<1>1. /\ authQueue # <<>> /\ ~Answering(Head(authQueue)) /\ authQueue' = Tail(authQueue)
      /\ UNCHANGED <<connectionState, realtime, attempt, fetches>>
  BY DEF RefreshAuthToken, Answering
<1>2. authQueue \in Seq(AuthEvent)
  BY DEF Shapes
<1>3. Members(authQueue) = {Head(authQueue)} \cup Members(authQueue')
  BY <1>1, <1>2, MembersTail
<1>4. SingleAnswers(authQueue)'
  <2>1. SingleAnswers(Tail(authQueue))
    BY <1>1, <1>2, SingleTail DEF FetchesUnique
  <2> QED
    BY <1>1, <2>1 DEF SingleAnswers
<1>5. CurrentFetchOut' <=> CurrentFetchOut
  BY <1>1, <1>3 DEF CurrentFetchOut, Answering
<1> QED
  BY <1>1, <1>3, <1>4, <1>5 DEF FetchesUnique, FetchAgrees

LEMMA OnFetchFetches ==
  ASSUME Shapes, StatesAgree, FetchesUnique, FetchAgrees, OnFetch
  PROVE  FetchesUnique' /\ FetchAgrees'
<1> DEFINE e == Head(authQueue)
<1>1. /\ authQueue # <<>> /\ Answering(e) /\ authQueue' = Tail(authQueue)
      /\ UNCHANGED <<attempt, fetches>>
  BY DEF OnFetch, Answering
<1>2. authQueue \in Seq(AuthEvent)
  BY DEF Shapes
<1>3. Members(authQueue) = {e} \cup Members(authQueue')
  BY <1>1, <1>2, MembersTail
<1>4. /\ SingleAnswers(Tail(authQueue))
      /\ \A d \in Members(authQueue') : Answering(d) => d.attempt # e.attempt
  BY <1>1, <1>2, SingleTail DEF FetchesUnique
<1>5. FetchesUnique'
  <2>1. SingleAnswers(authQueue)'
    BY <1>1, <1>4 DEF SingleAnswers
  <2> QED
    BY <1>1, <1>3, <2>1 DEF FetchesUnique
<1>6. CASE e.attempt = attempt
  <2>1. ~CurrentFetchOut'
    BY <1>1, <1>3, <1>4, <1>6 DEF CurrentFetchOut, FetchesUnique, Answering
  <2>2. connectionState' # "GettingToken"
    <3>1. e.type \in {"fetched", "error"}
      BY <1>1, HeadEvent, EventFields DEF Answering
    <3> QED
      BY <1>6, <3>1 DEF OnFetch
  <2> QED
    BY <1>5, <2>1, <2>2 DEF FetchAgrees
<1>7. CASE e.attempt # attempt
  <2>1. CurrentFetchOut' <=> CurrentFetchOut
    BY <1>1, <1>3, <1>7 DEF CurrentFetchOut, Answering
  <2>2. UNCHANGED <<realtime, connectionState>>
    BY <1>7 DEF OnFetch
  <2> QED
    BY <1>5, <2>1, <2>2 DEF FetchAgrees
<1> QED
  BY <1>6, <1>7

LEMMA QueueFetches ==
  ASSUME Shapes, StatesAgree, WireOpen, FetchesUnique, FetchAgrees, Queue
  PROVE  FetchesUnique' /\ FetchAgrees'
<1>1. CASE OnReady
  <2>1. /\ UNCHANGED <<attempt, fetches, authQueue>> /\ realtime = "connecting"
        /\ connectionState' # "GettingToken"
    BY <1>1 DEF OnReady, RestoreState, auth
  <2> QED
    BY <2>1, FetchesKept
<1>2. CASE OnAuth
  <2>1. CASE OnDisconnect(interruptReasons, TRUE)
    BY <1>2, <2>1, DisconnectFetches DEF OnAuth
  <2>2. CASE connectionState' = "Connected" /\ UNCHANGED <<attempt, realtime>>
    BY <1>2, <2>2, FetchesKept DEF OnAuth, auth
  <2> QED
    BY <1>2, <2>1, <2>2 DEF OnAuth, RestoreState
<1>3. CASE OnPut \/ OnListen \/ OnListenRevoked
  <2>1. UNCHANGED <<connectionState, realtime, attempt, fetches, authQueue>>
    BY <1>3 DEF OnPut, OnListen, OnListenRevoked, library, auth
  <2> QED
    BY <2>1, FetchesKept
<1>4. CASE OnClose
  BY <1>4, DisconnectFetches DEF OnClose
<1>5. CASE OnShutdown
  BY <1>5, InterruptFetches DEF OnShutdown, InterruptForReason
<1> QED
  BY <1>1, <1>2, <1>3, <1>4, <1>5, RetryFetches, RefreshFetches, OnFetchFetches DEF Queue

(* The answer of a fetch that is added to the queue. *)
LEMMA AnswerFetches ==
  ASSUME Shapes, FetchesUnique, FetchAgrees, NEW f \in fetches, NEW answer \in AuthEvent,
         NEW q \in Seq(AuthEvent), SingleAnswers(q),
         \A e \in Members(q) : Answering(e) => e \in Members(authQueue),
         \A e \in Members(authQueue) : Answering(e) => e \in Members(q),
         answer.attempt = f.attempt, Answering(answer),
         fetches' = fetches \ {f}, authQueue' = Append(q, answer),
         UNCHANGED <<attempt, realtime, connectionState>>
  PROVE  FetchesUnique' /\ FetchAgrees'
<1>1. Members(authQueue') = Members(q) \cup {answer}
  BY MembersAppend
<1>2. \A e \in Members(q) : Answering(e) => e.attempt # answer.attempt
  BY DEF FetchesUnique
<1>3. SingleAnswers(authQueue)'
  <2>1. SingleAnswers(Append(q, answer))
    BY <1>2, SingleAppend
  <2> QED
    BY <2>1 DEF SingleAnswers
<1>4. FetchesUnique'
  BY <1>1, <1>3 DEF FetchesUnique
<1>5. CurrentFetchOut' <=> CurrentFetchOut
  <2>1. CASE f.attempt = attempt
    <3>1. answer \in Members(authQueue') /\ answer.type # "change" /\ answer.attempt = attempt'
      BY <1>1, <2>1 DEF Answering
    <3> QED
      BY <2>1, <3>1 DEF CurrentFetchOut
  <2>2. CASE f.attempt # attempt
    BY <1>1, <2>2 DEF CurrentFetchOut, Answering
  <2> QED
    BY <2>1, <2>2
<1> QED
  BY <1>4, <1>5 DEF FetchAgrees

LEMMA ServiceFetches ==
  ASSUME Shapes, FetchesUnique, FetchAgrees, Service
  PROVE  FetchesUnique' /\ FetchAgrees'
<1>1. ASSUME NEW f \in fetches, TokenFetched(f) PROVE FetchesUnique' /\ FetchAgrees'
  <2> DEFINE token == [user |-> f.user, issue |-> issue]
             late == ~(account # NoToken /\ account.user = f.user)
             answer == [type |-> "fetched", attempt |-> f.attempt, token |-> token, late |-> late]
             change == [type |-> "change", token |-> token]
  <2>1. token \in MaybeToken /\ f.attempt \in Attempts /\ late \in BOOLEAN
    BY DEF Shapes, Token, MaybeToken
  <2>2. answer \in AuthEvent /\ change \in AuthEvent
    BY <2>1, EventTypes
  <2>3. answer.attempt = f.attempt /\ Answering(answer) /\ ~Answering(change)
    BY DEF Answering
  <2>4. \/ authQueue' = Append(authQueue, answer)
        \/ authQueue' = authQueue \o <<change, answer>>
    BY <1>1 DEF TokenFetched
  <2>5. fetches' = fetches \ {f} /\ UNCHANGED <<attempt, realtime, connectionState>>
    BY <1>1 DEF TokenFetched, library
  <2>6. authQueue \in Seq(AuthEvent) /\ SingleAnswers(authQueue)
    BY DEF Shapes, FetchesUnique
  <2> HIDE DEF answer, change
  <2>7. CASE authQueue' = Append(authQueue, answer)
    BY <2>2, <2>3, <2>5, <2>6, <2>7, AnswerFetches
  <2>8. CASE authQueue' = authQueue \o <<change, answer>>
    <3>1. authQueue \o <<change, answer>> = Append(Append(authQueue, change), answer)
      BY <2>2, <2>6
    <3>2. Append(authQueue, change) \in Seq(AuthEvent)
      BY <2>2, AppendEvent
    <3>3. Members(Append(authQueue, change)) = Members(authQueue) \cup {change}
      BY <2>2, <2>6, MembersAppend
    <3>4. SingleAnswers(Append(authQueue, change))
      BY <2>2, <2>3, <2>6, SingleAppend
    <3> QED
      BY <2>2, <2>3, <2>5, <2>8, <3>1, <3>2, <3>3, <3>4, AnswerFetches
  <2> QED
    BY <2>4, <2>7, <2>8
<1>2. ASSUME NEW k \in DOMAIN up, ServerHandle(k) PROVE FetchesUnique' /\ FetchAgrees'
  <2>1. UNCHANGED <<connectionState, realtime, attempt, fetches, authQueue>>
    BY <1>2 DEF ServerHandle, library, auth
  <2> QED
    BY <2>1, FetchesKept
<1> QED
  BY <1>1, <1>2 DEF Service

LEMMA TroubleFetches ==
  ASSUME Shapes, FetchesUnique, FetchAgrees, Trouble
  PROVE  FetchesUnique' /\ FetchAgrees'
<1>1. CASE Drop
  BY <1>1, DisconnectFetches DEF Drop
<1>2. CASE InterruptForReason("repo_interrupt")
  BY <1>2, InterruptFetches DEF InterruptForReason
<1>3. CASE \/ Wake \/ PurgeOutstandingWrites \/ ResumeForReason("repo_interrupt")
           \/ InvalidateTokens \/ \E m \in Pushes : ServerPush(m)
  <2>1. UNCHANGED <<connectionState, realtime, attempt, fetches, authQueue>>
    BY <1>3 DEF Wake, PurgeOutstandingWrites, ResumeForReason, InvalidateTokens, ServerPush,
                library, auth
  <2> QED
    BY <2>1, FetchesKept
<1>4. ASSUME NEW f \in fetches, TokenFetchFails(f) PROVE FetchesUnique' /\ FetchAgrees'
  <2> DEFINE answer == [type |-> "error", attempt |-> f.attempt]
  <2>1. answer \in AuthEvent
    BY EventTypes DEF Shapes
  <2>2. answer.attempt = f.attempt /\ Answering(answer)
    BY DEF Answering
  <2>3. /\ authQueue' = Append(authQueue, answer) /\ fetches' = fetches \ {f}
        /\ UNCHANGED <<attempt, realtime, connectionState>>
    BY <1>4 DEF TokenFetchFails, library
  <2>4. authQueue \in Seq(AuthEvent) /\ SingleAnswers(authQueue)
    BY DEF Shapes, FetchesUnique
  <2> HIDE DEF answer
  <2> QED
    BY <2>1, <2>2, <2>3, <2>4, AnswerFetches
<1>5. ASSUME NEW token \in MaybeToken, ChangeAccount(token) PROVE FetchesUnique' /\ FetchAgrees'
  <2> DEFINE change == [type |-> "change", token |-> token]
  <2>1. change \in AuthEvent /\ ~Answering(change)
    BY EventTypes DEF Answering
  <2>2. /\ authQueue' = Append(authQueue, change)
        /\ UNCHANGED <<attempt, realtime, connectionState, fetches>>
    BY <1>5 DEF ChangeAccount, library
  <2>3. authQueue \in Seq(AuthEvent) /\ SingleAnswers(authQueue)
    BY DEF Shapes, FetchesUnique
  <2> HIDE DEF change
  <2>4. Members(authQueue') = Members(authQueue) \cup {change}
    BY <2>1, <2>2, <2>3, MembersAppend
  <2>5. SingleAnswers(authQueue)'
    <3>1. SingleAnswers(Append(authQueue, change))
      BY <2>1, <2>3, SingleAppend
    <3> QED
      BY <2>2, <3>1 DEF SingleAnswers
  <2>6. CurrentFetchOut' <=> CurrentFetchOut
    BY <2>1, <2>2, <2>4 DEF CurrentFetchOut, Answering
  <2> QED
    BY <2>1, <2>2, <2>4, <2>5, <2>6 DEF FetchesUnique, FetchAgrees
<1> QED
  BY <1>1, <1>2, <1>3, <1>4, <1>5 DEF Trouble

(* The authentication that will restore the state. *)
LEMMA AuthKept ==
  ASSUME AuthOut,
         connectionState' = "Authenticating" => connectionState = "Authenticating",
         \A m \in Members(up) \cup Members(down) :
           Restoring(m) => \E n \in Members(up)' \cup Members(down)' : Restoring(n)
  PROVE  AuthOut'
BY DEF AuthOut, Restoring

LEMMA AuthUnchanged ==
  ASSUME AuthOut, UNCHANGED <<connectionState, up, down>>
  PROVE  AuthOut'
BY DEF AuthOut, Restoring, Members

LEMMA MembersUp ==
  ASSUME Shapes, NEW r \in Request, up' = Append(up, r)
  PROVE  Members(up)' = Members(up) \cup {r}
<1>1. Members(Append(up, r)) = Members(up) \cup {r}
  BY MembersAppend DEF Shapes
<1> QED
  BY <1>1 DEF Members

LEMMA MembersReceived ==
  ASSUME Shapes, down # <<>>, down' = Tail(down)
  PROVE  Members(down) = {Head(down)} \cup Members(down)'
<1>1. Members(down) = {Head(down)} \cup Members(Tail(down))
  BY MembersTail DEF Shapes
<1> QED
  BY <1>1 DEF Members

LEMMA RepoAuth ==
  ASSUME Shapes, AuthOut, Repo
  PROVE  AuthOut'
<1>1. CASE ResumeForReason("waiting_for_open")
  BY <1>1, AuthUnchanged DEF ResumeForReason
<1>2. ASSUME NEW r \in Request, up' = Append(up, r), UNCHANGED <<connectionState, down>>
      PROVE  AuthOut'
  <2>1. Members(up)' = Members(up) \cup {r} /\ Members(down)' = Members(down)
    BY <1>2, MembersUp DEF Members
  <2> QED
    BY <1>2, <2>1, AuthKept
<1>3. ASSUME NEW q \in Queries, ListenTo(q) PROVE AuthOut'
  <2>1. Listen(q, listenCalls + 1) \in Request
    BY <1>3, RequestTypes DEF ListenTo
  <2>2. /\ up' = Append(up, Listen(q, listenCalls + 1)) \/ up' = up
        /\ UNCHANGED <<connectionState, down>>
    BY <1>3 DEF ListenTo, library
  <2> QED
    BY <1>2, <2>1, <2>2, AuthUnchanged
<1>4. ASSUME NEW q \in Queries, Unlisten(q) PROVE AuthOut'
  <2>1. [type |-> "unlisten", query |-> q] \in Request
    BY RequestTypes
  <2>2. /\ up' = Append(up, [type |-> "unlisten", query |-> q]) \/ up' = up
        /\ UNCHANGED <<connectionState, down>>
    BY <1>4 DEF Unlisten, library
  <2> QED
    BY <1>2, <2>1, <2>2, AuthUnchanged
<1>5. CASE PutData
  <2>1. Put(putCounter + 1) \in Request
    BY <1>5, RequestTypes DEF PutData
  <2>2. /\ up' = Append(up, Put(putCounter + 1)) \/ up' = up
        /\ UNCHANGED <<connectionState, down>>
    BY <1>5 DEF PutData, library
  <2> QED
    BY <1>2, <2>1, <2>2, AuthUnchanged
<1> QED
  BY <1>1, <1>3, <1>4, <1>5 DEF Repo

LEMMA DisconnectedAuth ==
  ASSUME connectionState' \in {"Disconnected", "GettingToken", "Connecting", "Connected"}
  PROVE  AuthOut'
BY DEF AuthOut

LEMMA QueueAuth ==
  ASSUME Shapes, AuthOut, Queue
  PROVE  AuthOut'
<1>1. CASE RunRetry
  BY <1>1, DisconnectedAuth DEF RunRetry
<1>2. CASE RefreshAuthToken
  <2>1. Head(authQueue).token \in MaybeToken
    BY <1>2, HeadEvent, EventFields DEF RefreshAuthToken
  <2>2. PICK r \in Request : up' = up \/ up' = Append(up, r)
    BY <1>2, <2>1, RequestTypes DEF RefreshAuthToken, MaybeToken
  <2>3. UNCHANGED <<connectionState, down>>
    BY <1>2 DEF RefreshAuthToken
  <2>4. CASE up' = Append(up, r)
    <3>1. Members(up)' = Members(up) \cup {r} /\ Members(down)' = Members(down)
      BY <2>3, <2>4, MembersUp DEF Members
    <3> QED
      BY <2>3, <3>1, AuthKept
  <2> QED
    BY <2>2, <2>3, <2>4, AuthUnchanged
<1>3. CASE OnFetch
  <2>1. CASE UNCHANGED connectionState
    BY <1>3, <2>1, AuthUnchanged DEF OnFetch
  <2>2. CASE connectionState' \in {"Disconnected", "Connecting"}
    BY <2>2, DisconnectedAuth
  <2> QED
    BY <1>3, <2>1, <2>2 DEF OnFetch
<1>4. CASE OnReady
  <2>1. CASE authToken = NoToken
    BY <1>4, <2>1, DisconnectedAuth DEF OnReady, RestoreState
  <2>2. CASE authToken # NoToken
    <3> DEFINE r == Auth(authToken, TRUE)
    <3>1. r \in Request /\ Restoring(r)
      BY <2>2, RequestTypes DEF Shapes, MaybeToken, Auth, Restoring
    <3>2. up' = Append(up, r)
      BY <1>4, <2>2 DEF OnReady
    <3> HIDE DEF r
    <3>3. r \in Members(up)'
      BY <3>1, <3>2, MembersUp
    <3> QED
      BY <3>1, <3>3 DEF AuthOut
  <2> QED
    BY <2>1, <2>2
<1>5. CASE OnAuth
  <2>1. connectionState' \in {"Disconnected", "Connected"}
    BY <1>5 DEF OnAuth, OnDisconnect, RestoreState
  <2> QED
    BY <2>1, DisconnectedAuth
<1>6. CASE OnPut \/ OnListen \/ OnListenRevoked
  <2>1. /\ down # <<>> /\ down' = Tail(down) /\ ~Restoring(Head(down))
        /\ UNCHANGED <<connectionState, up>>
    BY <1>6 DEF OnPut, OnListen, OnListenRevoked, Receive, Restoring, library
  <2>2. Members(down) = {Head(down)} \cup Members(down)' /\ Members(up)' = Members(up)
    BY <2>1, MembersReceived DEF Members
  <2> QED
    BY <2>1, <2>2, AuthKept
<1>7. CASE OnClose \/ OnShutdown
  <2>1. connectionState' = "Disconnected"
    BY <1>7 DEF OnClose, OnShutdown, InterruptForReason, Interrupted, OnDisconnect
  <2> QED
    BY <2>1, DisconnectedAuth
<1> QED
  BY <1>1, <1>2, <1>3, <1>4, <1>5, <1>6, <1>7 DEF Queue

LEMMA ServiceAuth ==
  ASSUME Shapes, AuthOut, Service
  PROVE  AuthOut'
<1>1. ASSUME NEW f \in fetches, TokenFetched(f) PROVE AuthOut'
  BY <1>1, AuthUnchanged DEF TokenFetched, library
<1>2. ASSUME NEW k \in DOMAIN up, ServerHandle(k) PROVE AuthOut'
  <2>0. Members(up) = {up[k]} \cup Members(up)' /\ UNCHANGED connectionState
    <3>1. Members(up) = {up[k]} \cup Members(Without(up, k))
      BY MembersWithout DEF Shapes
    <3>2. up' = Without(up, k) /\ UNCHANGED connectionState
      BY <1>2 DEF ServerHandle, library
    <3>3. Members(up)' = Members(Without(up, k))
      BY <3>2 DEF Members
    <3> QED
      BY <3>1, <3>2, <3>3
  <2>1. up[k] \in Request
    BY RequestOf
  <2>2. CASE up[k].type = "auth"
    <3> DEFINE m == [type |-> "auth", ok |-> up[k].token.issue = issue,
                     restore |-> up[k].restore]
    <3>1. m \in Message /\ (Restoring(up[k]) => Restoring(m))
      BY <2>1, <2>2, RequestFields, MessageTypes DEF Restoring
    <3>2. down' = Append(down, m)
      BY <1>2, <2>2 DEF ServerHandle
    <3> HIDE DEF m
    <3>3. Members(down)' = Members(down) \cup {m}
      <4>1. Members(Append(down, m)) = Members(down) \cup {m}
        BY <3>1, MembersAppend DEF Shapes
      <4> QED
        BY <3>2, <4>1 DEF Members
    <3> QED
      BY <2>0, <3>1, <3>3, AuthKept
  <2>3. CASE up[k].type # "auth"
    <3>1. ~Restoring(up[k])
      BY <2>3 DEF Restoring
    <3>2. \/ down' = down
          \/ \E m \in Message : down' = Append(down, m)
      BY <1>2, <2>1, <2>3, RequestFields, MessageTypes DEF ServerHandle, server
    <3>3. Members(down) \subseteq Members(down)'
      <4>1. \A m \in Message : Members(Append(down, m)) = Members(down) \cup {m}
        BY MembersAppend DEF Shapes
      <4> QED
        BY <3>2, <4>1 DEF Members
    <3> QED
      BY <2>0, <3>1, <3>3, AuthKept
  <2> QED
    BY <2>2, <2>3
<1> QED
  BY <1>1, <1>2 DEF Service

LEMMA TroubleAuth ==
  ASSUME Shapes, AuthOut, Trouble
  PROVE  AuthOut'
<1>1. CASE Drop \/ InterruptForReason("repo_interrupt")
  <2>1. connectionState' = "Disconnected"
    BY <1>1 DEF Drop, InterruptForReason, Interrupted, OnDisconnect
  <2> QED
    BY <2>1, DisconnectedAuth
<1>2. CASE \/ Wake \/ PurgeOutstandingWrites \/ ResumeForReason("repo_interrupt")
           \/ (\E f \in fetches : TokenFetchFails(f))
           \/ (\E token \in MaybeToken : ChangeAccount(token)) \/ InvalidateTokens
  <2>1. UNCHANGED <<connectionState, up, down>>
    BY <1>2 DEF Wake, PurgeOutstandingWrites, ResumeForReason, TokenFetchFails, ChangeAccount,
                InvalidateTokens, library
  <2> QED
    BY <2>1, AuthUnchanged
<1>3. ASSUME NEW m \in Pushes, ServerPush(m) PROVE AuthOut'
  <2>1. down' = Append(down, m) /\ UNCHANGED <<connectionState, up>>
    BY <1>3 DEF ServerPush, library
  <2>2. Members(Append(down, m)) = Members(down) \cup {m}
    BY MembersAppend, MessageTypes DEF Shapes
  <2> QED
    BY <2>1, <2>2, AuthKept DEF Members
<1> QED
  BY <1>1, <1>2, <1>3 DEF Trouble

(* The invariant is inductive. *)
LEMMA ControlStep ==
  ASSUME Shapes, ControlInv, [Next]_vars
  PROVE  ControlInv'
<1>1. CASE Next
  <2>1. Repo \/ Queue \/ Service \/ Trouble
    BY <1>1 DEF Next
  <2>2. StatesAgree' /\ WireOpen'
    BY <2>1, RepoStates, QueueStates, ServiceStates, TroubleStates DEF ControlInv
  <2>3. FetchesUnique' /\ FetchAgrees'
    BY <2>1, RepoFetches, QueueFetches, ServiceFetches, TroubleFetches DEF ControlInv
  <2>4. AuthOut'
    BY <2>1, RepoAuth, QueueAuth, ServiceAuth, TroubleAuth DEF ControlInv
  <2> QED
    BY <2>2, <2>3, <2>4 DEF ControlInv
<1>2. CASE UNCHANGED vars
  BY <1>2 DEF vars, library, requests, auth, server, ControlInv, StatesAgree, WireOpen,
              FetchesUnique, FetchAgrees, AuthOut, CurrentFetchOut, SingleAnswers, Members
<1> QED
  BY <1>1, <1>2

LEMMA ControlInit ==
  Init => ControlInv
BY DEF Init, ControlInv, StatesAgree, WireOpen, FetchesUnique, FetchAgrees, AuthOut,
       CurrentFetchOut, SingleAnswers, Members

LEMMA ControlInductive ==
  Spec => [](Shapes /\ ControlInv)
<1>1. Init => Shapes /\ ControlInv
  BY ShapesInit, ControlInit
<1>2. Shapes /\ ControlInv /\ [Next]_vars => (Shapes /\ ControlInv)'
  BY ShapesStep, ControlStep
<1> QED
  BY <1>1, <1>2, PTL DEF Spec

(* No assertion of the library fails and no request is sent on a closed    *)
(* connection, however many fetches, faults and changes of user there are. *)
THEOREM AssertionsNeverFail ==
  Spec => []AssertionsHold
<1>1. Shapes /\ ControlInv => AssertionsHold
  BY DEF ControlInv, StatesAgree, FetchAgrees, AssertionsHold
<1> QED
  BY <1>1, ControlInductive, PTL

(* The library never stops trying to connect. *)
THEOREM NeverStopsTrying ==
  Spec => []AlwaysUnderWay
<1>1. Shapes /\ ControlInv => AlwaysUnderWay
  BY DEF ControlInv, StatesAgree, FetchAgrees, AuthOut, Restoring, AlwaysUnderWay
<1> QED
  BY <1>1, ControlInductive, PTL

-----------------------------------------------------------------------------
(***************************************************************************)
(* Every write is accounted for.  Only five steps touch the writes: a put, *)
(* its answer, an answer that releases completions, the loss of the        *)
(* connection and the purge.                                               *)
(***************************************************************************)
writes == <<outstandingPuts, putsToAck, completed, putCounter>>

LEMMA AccountUnchanged ==
  ASSUME WritesAccountedFor, UNCHANGED writes
  PROVE  WritesAccountedFor'
BY DEF WritesAccountedFor, writes, Members

LEMMA AccountPut ==
  ASSUME Shapes, WritesAccountedFor, PutData
  PROVE  WritesAccountedFor'
<1>1. /\ putCounter + 1 \in Puts /\ putCounter' = putCounter + 1
      /\ outstandingPuts' = outstandingPuts \cup {putCounter + 1}
      /\ UNCHANGED <<putsToAck, completed>>
  BY DEF PutData
<1>2. putCounter \in Nat /\ Puts \subseteq Nat
  BY PutsRange, BoundsAssumption DEF Shapes
<1>3. Members(putsToAck)' = Members(putsToAck)
  BY <1>1 DEF Members
<1> QED
  BY <1>1, <1>2, <1>3 DEF WritesAccountedFor

(* The connection is lost: sent transactions are completed. *)
LEMMA AccountDisconnect ==
  ASSUME Shapes, WritesAccountedFor, NEW reasons, NEW force, OnDisconnect(reasons, force)
  PROVE  WritesAccountedFor'
<1>1. /\ outstandingPuts' = outstandingPuts \ SentTransactions
      /\ completed' = Completed(SentTransactions, "disconnect")
      /\ UNCHANGED <<putsToAck, putCounter>>
      /\ SentTransactions \subseteq outstandingPuts
  BY DEF OnDisconnect, SentTransactions
<1>2. \A i \in Puts : completed'[i] = IF i \in SentTransactions THEN "disconnect" ELSE completed[i]
  BY <1>1, CompletedType
<1>3. Members(putsToAck)' = Members(putsToAck)
  BY <1>1 DEF Members
<1> QED
  BY <1>1, <1>2, <1>3 DEF WritesAccountedFor

LEMMA AccountInterrupt ==
  ASSUME Shapes, WritesAccountedFor, NEW reason, InterruptForReason(reason)
  PROVE  WritesAccountedFor'
<1>1. CASE OnDisconnect(interruptReasons \cup {reason}, forceAuthTokenRefresh)
  BY <1>1, AccountDisconnect
<1>2. CASE UNCHANGED requests
  BY <1>2, AccountUnchanged DEF requests, writes
<1> QED
  BY <1>1, <1>2 DEF InterruptForReason, Interrupted

(* The held-back completions are called. *)
LEMMA AccountRelease ==
  ASSUME Shapes, WritesAccountedFor, AckPuts, UNCHANGED <<outstandingPuts, putCounter>>
  PROVE  WritesAccountedFor'
<1>1. \A i \in Puts : completed'[i] = IF i \in Members(putsToAck) THEN "ok" ELSE completed[i]
  BY CompletedType DEF AckPuts
<1>2. putsToAck' = <<>> /\ Members(putsToAck)' = {}
  BY DEF AckPuts, Members
<1> QED
  BY <1>1, <1>2 DEF WritesAccountedFor

LEMMA AccountPurge ==
  ASSUME Shapes, WritesAccountedFor, PurgeOutstandingWrites
  PROVE  WritesAccountedFor'
<1>1. \A i \in Puts : completed'[i] = IF i \in Members(putsToAck) THEN "ok"
                                      ELSE IF i \in outstandingPuts THEN "canceled"
                                      ELSE completed[i]
  BY DEF PurgeOutstandingWrites
<1>2. outstandingPuts' = {} /\ putsToAck' = <<>> /\ Members(putsToAck)' = {}
      /\ UNCHANGED putCounter
  BY DEF PurgeOutstandingWrites, Members
<1> QED
  BY <1>1, <1>2 DEF WritesAccountedFor

LEMMA AccountAnswer ==
  ASSUME Shapes, WritesAccountedFor, OnPut
  PROVE  WritesAccountedFor'
<1> DEFINE i == Head(down).put
<1>1. i \in Puts /\ UNCHANGED putCounter /\ outstandingPuts' = outstandingPuts \ {i}
  BY HeadMessage, MessageFields DEF OnPut, Receive
<1>2. CASE i \notin outstandingPuts
  BY <1>1, <1>2, AccountUnchanged DEF OnPut, writes
<1>3. CASE i \in outstandingPuts /\ unackedListensCount = 0
  <2>1. completed' = Completed({i}, "ok") /\ UNCHANGED putsToAck
    BY <1>3 DEF OnPut
  <2>2. \A j \in Puts : completed'[j] = IF j = i THEN "ok" ELSE completed[j]
    BY <2>1, CompletedType
  <2>3. Members(putsToAck)' = Members(putsToAck)
    BY <2>1 DEF Members
  <2> QED
    BY <1>1, <1>3, <2>1, <2>2, <2>3 DEF WritesAccountedFor
<1>4. CASE i \in outstandingPuts /\ unackedListensCount # 0
  <2>1. putsToAck' = Append(putsToAck, i) /\ UNCHANGED completed
    BY <1>4 DEF OnPut
  <2>2. putsToAck \in Seq(Puts)
    BY DEF Shapes
  <2> HIDE DEF i
  <2>3. Members(putsToAck)' = Members(putsToAck) \cup {i}
    <3>1. Members(Append(putsToAck, i)) = Members(putsToAck) \cup {i}
      BY <1>1, <2>2, MembersAppend
    <3> QED
      BY <2>1, <3>1 DEF Members
  <2>4. i \notin Members(putsToAck) /\ ~(i > putCounter)
    BY <1>1, <1>4 DEF WritesAccountedFor
  <2>5. ASSUME NEW j \in DOMAIN putsToAck', NEW k \in DOMAIN putsToAck',
               putsToAck'[j] = putsToAck'[k]
        PROVE  j = k
    <3>1. /\ Len(putsToAck) \in Nat /\ DOMAIN putsToAck = 1 .. Len(putsToAck)
          /\ DOMAIN putsToAck' = 1 .. Len(putsToAck) + 1
          /\ putsToAck'[Len(putsToAck) + 1] = i
          /\ \A n \in DOMAIN putsToAck : putsToAck'[n] = putsToAck[n]
      BY <1>1, <2>1, <2>2
    <3>2. \A n \in DOMAIN putsToAck : putsToAck'[n] # i
      BY <2>4, <3>1 DEF Members
    <3>3. CASE j \in DOMAIN putsToAck /\ k \in DOMAIN putsToAck
      BY <2>5, <3>1, <3>3 DEF WritesAccountedFor
    <3>4. CASE j \notin DOMAIN putsToAck \/ k \notin DOMAIN putsToAck
      BY <2>5, <3>1, <3>2, <3>4
    <3> QED
      BY <3>3, <3>4
  <2> QED
    BY <1>1, <1>4, <2>1, <2>3, <2>4, <2>5 DEF WritesAccountedFor
<1> QED
  BY <1>2, <1>3, <1>4

LEMMA AccountQueue ==
  ASSUME Shapes, WritesAccountedFor, Queue
  PROVE  WritesAccountedFor'
<1>1. CASE RunRetry \/ RefreshAuthToken \/ OnFetch \/ OnReady \/ OnListenRevoked
  <2>1. UNCHANGED writes
    BY <1>1 DEF RunRetry, RefreshAuthToken, OnFetch, OnReady, OnListenRevoked, requests, writes
  <2> QED
    BY <2>1, AccountUnchanged
<1>2. CASE OnAuth
  <2>1. UNCHANGED writes \/ OnDisconnect(interruptReasons, TRUE)
    BY <1>2 DEF OnAuth, requests, writes
  <2> QED
    BY <2>1, AccountUnchanged, AccountDisconnect
<1>3. CASE OnPut
  BY <1>3, AccountAnswer
<1>4. CASE OnListen
  <2>1. UNCHANGED writes \/ (AckPuts /\ UNCHANGED <<outstandingPuts, putCounter>>)
    BY <1>4 DEF OnListen, writes
  <2> QED
    BY <2>1, AccountUnchanged, AccountRelease
<1>5. CASE OnClose
  BY <1>5, AccountDisconnect DEF OnClose
<1>6. CASE OnShutdown
  BY <1>6, AccountInterrupt DEF OnShutdown
<1> QED
  BY <1>1, <1>2, <1>3, <1>4, <1>5, <1>6 DEF Queue

LEMMA AccountTrouble ==
  ASSUME Shapes, WritesAccountedFor, Trouble
  PROVE  WritesAccountedFor'
<1>1. CASE Drop
  BY <1>1, AccountDisconnect DEF Drop
<1>2. CASE InterruptForReason("repo_interrupt")
  BY <1>2, AccountInterrupt
<1>3. CASE PurgeOutstandingWrites
  BY <1>3, AccountPurge
<1>4. CASE \/ Wake \/ ResumeForReason("repo_interrupt")
           \/ (\E f \in fetches : TokenFetchFails(f))
           \/ (\E token \in MaybeToken : ChangeAccount(token)) \/ InvalidateTokens
           \/ (\E m \in Pushes : ServerPush(m))
  <2>1. UNCHANGED writes
    BY <1>4 DEF Wake, ResumeForReason, TokenFetchFails, ChangeAccount, InvalidateTokens,
                ServerPush, requests, writes
  <2> QED
    BY <2>1, AccountUnchanged
<1> QED
  BY <1>1, <1>2, <1>3, <1>4 DEF Trouble

LEMMA AccountStep ==
  ASSUME Shapes, WritesAccountedFor, [Next]_vars
  PROVE  WritesAccountedFor'
<1>1. CASE Repo
  <2>1. UNCHANGED writes \/ PutData
    BY <1>1 DEF Repo, ResumeForReason, ListenTo, Unlisten, requests, writes
  <2> QED
    BY <2>1, AccountUnchanged, AccountPut
<1>2. CASE Service \/ UNCHANGED vars
  <2>1. UNCHANGED writes
    BY <1>2 DEF Service, TokenFetched, ServerHandle, vars, requests, writes
  <2> QED
    BY <2>1, AccountUnchanged
<1> QED
  BY <1>1, <1>2, AccountQueue, AccountTrouble DEF Next

(* Every write is outstanding, held back or completed, each completion is  *)
(* called at most once and none is lost, however often the connection is   *)
(* lost and restored.                                                      *)
THEOREM EveryWriteAccounted ==
  Spec => []WritesAccountedFor
<1>1. Init => WritesAccountedFor
  BY PutsRange DEF Init, WritesAccountedFor, Members
<1>2. Shapes /\ WritesAccountedFor /\ [Next]_vars => WritesAccountedFor'
  BY AccountStep
<1> QED
  BY <1>1, <1>2, ControlInductive, PTL DEF Spec

-----------------------------------------------------------------------------
(***************************************************************************)
(* unackedListensCount is exact.  Requests and messages are counted by the *)
(* places they are at.                                                     *)
(***************************************************************************)
Places(s, type) == {k \in DOMAIN s : s[k].type = type}

LEMMA PlacesFinite ==
  ASSUME NEW S, NEW s \in Seq(S), NEW type
  PROVE  /\ IsFiniteSet(Places(s, type))
         /\ Count(s, type) = Cardinality(Places(s, type)) /\ Count(s, type) \in Nat
<1>1. IsFiniteSet(DOMAIN s)
  BY FS_Interval
<1>2. IsFiniteSet(Places(s, type))
  BY <1>1, FS_Subset DEF Places
<1> QED
  BY <1>2, FS_CardinalityType DEF Count, Places

LEMMA CountEmpty ==
  ASSUME NEW type
  PROVE  Count(<<>>, type) = 0
<1>1. {k \in DOMAIN <<>> : <<>>[k].type = type} = {}
  OBVIOUS
<1> QED
  BY <1>1, FS_EmptySet DEF Count

(* Two sequences without the type, but for places that match one to one,   *)
(* count the same.                                                         *)
LEMMA SameCount ==
  ASSUME NEW A, NEW B, IsFiniteSet(A), NEW F \in [A -> B],
         \A x, y \in A : F[x] = F[y] => x = y,
         \A z \in B : \E x \in A : F[x] = z
  PROVE  IsFiniteSet(B) /\ Cardinality(B) = Cardinality(A)
<1>1. F \in Bijection(A, B)
  BY Fun_IsBij
<1>2. ExistsBijection(A, B)
  BY <1>1 DEF ExistsBijection
<1> QED
  BY <1>2, FS_Bijection

LEMMA CountAppend ==
  ASSUME NEW S, NEW s \in Seq(S), NEW e \in S, NEW type
  PROVE  Count(Append(s, e), type) = Count(s, type) + (IF e.type = type THEN 1 ELSE 0)
<1>1. /\ Len(s) \in Nat /\ DOMAIN s = 1 .. Len(s) /\ DOMAIN Append(s, e) = 1 .. Len(s) + 1
      /\ \A j \in 1 .. Len(s) : Append(s, e)[j] = s[j]
      /\ Append(s, e)[Len(s) + 1] = e
  OBVIOUS
<1>2. Len(s) + 1 \notin Places(s, type)
  BY <1>1 DEF Places
<1>3. CASE e.type = type
  <2>1. Places(Append(s, e), type) = Places(s, type) \cup {Len(s) + 1}
    BY <1>1, <1>3 DEF Places
  <2>2. Cardinality(Places(s, type) \cup {Len(s) + 1}) = Cardinality(Places(s, type)) + 1
    BY <1>2, PlacesFinite, FS_AddElement
  <2> QED
    BY <1>3, <2>1, <2>2 DEF Count, Places
<1>4. CASE e.type # type
  <2>1. Places(Append(s, e), type) = Places(s, type)
    BY <1>1, <1>4 DEF Places
  <2>2. Count(Append(s, e), type) = Count(s, type) /\ Count(s, type) \in Nat
    BY <2>1, PlacesFinite DEF Count, Places
  <2> QED
    BY <1>4, <2>2
<1> QED
  BY <1>3, <1>4

LEMMA CountWithout ==
  ASSUME NEW S, NEW s \in Seq(S), NEW k \in DOMAIN s, NEW type
  PROVE  Count(s, type) = Count(Without(s, k), type) + (IF s[k].type = type THEN 1 ELSE 0)
<1>1. Len(s) \in Nat /\ DOMAIN s = 1 .. Len(s) /\ k \in 1 .. Len(s)
  OBVIOUS
<1>2. /\ Without(s, k) \in Seq(S) /\ DOMAIN Without(s, k) = 1 .. Len(s) - 1
      /\ \A j \in 1 .. Len(s) - 1 : Without(s, k)[j] = IF j < k THEN s[j] ELSE s[j + 1]
  BY <1>1, WithoutSeq DEF Without
<1> DEFINE A == Places(Without(s, k), type)
           B == Places(s, type) \ {k}
           F == [j \in A |-> IF j < k THEN j ELSE j + 1]
<1>3. A \subseteq 1 .. Len(s) - 1
  BY <1>2 DEF Places
<1>4. \A j \in A : (IF j < k THEN j ELSE j + 1) \in B
  BY <1>1, <1>2, <1>3 DEF Places
<1>5. F \in [A -> B]
  BY <1>4
<1>6. \A x, y \in A : F[x] = F[y] => x = y
  BY <1>1, <1>3
<1>7. \A z \in B : \E x \in A : F[x] = z
  <2> TAKE z \in B
  <2>1. z \in 1 .. Len(s) /\ z # k /\ s[z].type = type
    BY <1>1 DEF Places
  <2> DEFINE x == IF z < k THEN z ELSE z - 1
  <2>2. /\ x \in 1 .. Len(s) - 1
        /\ (IF x < k THEN x ELSE x + 1) = z
    BY <1>1, <2>1
  <2>3. Without(s, k)[x] = s[z]
    BY <1>2, <2>2, <2>1, <1>1
  <2>4. x \in A
    BY <1>2, <2>1, <2>2, <2>3 DEF Places
  <2> QED
    BY <2>2, <2>4
<1>8. IsFiniteSet(A) /\ Count(Without(s, k), type) = Cardinality(A)
  BY <1>2, PlacesFinite
<1>9. Cardinality(B) = Cardinality(A)
  <2> HIDE DEF A, B, F
  <2> QED
    BY <1>5, <1>6, <1>7, <1>8, SameCount
<1>10. /\ IsFiniteSet(Places(s, type)) /\ Count(s, type) = Cardinality(Places(s, type))
       /\ Count(s, type) \in Nat
  BY PlacesFinite
<1>11. Cardinality(B) = IF k \in Places(s, type) THEN Count(s, type) - 1 ELSE Count(s, type)
  BY <1>10, FS_RemoveElement
<1>12. k \in Places(s, type) <=> s[k].type = type
  BY <1>1 DEF Places
<1> QED
  BY <1>8, <1>9, <1>10, <1>11, <1>12

LEMMA TailWithout ==
  ASSUME NEW S, NEW s \in Seq(S), s # <<>>
  PROVE  Tail(s) = Without(s, 1) /\ 1 \in DOMAIN s /\ Head(s) = s[1]
<1>1. 1 \in DOMAIN s /\ Head(s) = s[1] /\ Len(s) \in Nat /\ DOMAIN s = 1 .. Len(s)
  BY TailAt
<1>2. \A j \in 1 .. Len(s) - 1 : (IF j < 1 THEN s[j] ELSE s[j + 1]) = s[j + 1]
  BY <1>1
<1>3. /\ Tail(s) \in Seq(S) /\ Len(Tail(s)) = Len(s) - 1
      /\ \A j \in 1 .. Len(s) - 1 : Tail(s)[j] = s[j + 1]
  BY <1>1, TailAt, HeadTailProperties
<1>4. /\ Without(s, 1) \in Seq(S) /\ Len(Without(s, 1)) = Len(s) - 1
      /\ \A j \in 1 .. Len(s) - 1 : Without(s, 1)[j] = s[j + 1]
  BY <1>1, <1>2, WithoutSeq
<1>5. \A j \in 1 .. Len(Tail(s)) : Tail(s)[j] = Without(s, 1)[j]
  BY <1>3, <1>4
<1> QED
  BY <1>1, <1>3, <1>4, <1>5, SeqEqual

LEMMA CountTail ==
  ASSUME NEW S, NEW s \in Seq(S), s # <<>>, NEW type
  PROVE  Count(s, type) = Count(Tail(s), type) + (IF Head(s).type = type THEN 1 ELSE 0)
<1>1. 1 \in DOMAIN s /\ Head(s) = s[1] /\ Tail(s) = Without(s, 1)
  BY TailWithout
<1>2. Count(s, type) = Count(Without(s, 1), type) + (IF s[1].type = type THEN 1 ELSE 0)
  BY <1>1, CountWithout
<1> QED
  BY <1>1, <1>2

LEMMA CountConcat ==
  ASSUME NEW S, NEW a \in Seq(S), NEW b \in Seq(S), NEW type
  PROVE  Count(a \o b, type) = Count(a, type) + Count(b, type)
<1>1. /\ a \o b \in Seq(S) /\ Len(a \o b) = Len(a) + Len(b)
      /\ Len(a) \in Nat /\ Len(b) \in Nat
      /\ \A j \in 1 .. Len(a) : (a \o b)[j] = a[j]
      /\ \A j \in 1 .. Len(b) : (a \o b)[Len(a) + j] = b[j]
      /\ DOMAIN a = 1 .. Len(a) /\ DOMAIN b = 1 .. Len(b)
      /\ DOMAIN (a \o b) = 1 .. Len(a) + Len(b)
  BY ConcatAt
<1> DEFINE A == Places(b, type)
           B == {k \in Places(a \o b, type) : k > Len(a)}
           F == [j \in A |-> Len(a) + j]
<1>2. A \subseteq 1 .. Len(b)
  BY <1>1 DEF Places
<1>3. F \in [A -> B]
  BY <1>1, <1>2 DEF Places
<1>4. \A x, y \in A : F[x] = F[y] => x = y
  BY <1>1, <1>2
<1>5. \A z \in B : \E x \in A : F[x] = z
  <2> TAKE z \in B
  <2>1. z \in 1 .. Len(a) + Len(b) /\ z > Len(a) /\ (a \o b)[z].type = type
    BY <1>1 DEF Places
  <2>2. z - Len(a) \in 1 .. Len(b) /\ Len(a) + (z - Len(a)) = z
    BY <1>1, <2>1
  <2>3. b[z - Len(a)] = (a \o b)[z]
    BY <1>1, <2>2
  <2>4. z - Len(a) \in A
    BY <1>1, <2>1, <2>2, <2>3 DEF Places
  <2> QED
    BY <2>2, <2>4
<1>6. /\ IsFiniteSet(A) /\ Count(b, type) = Cardinality(A) /\ Count(b, type) \in Nat
      /\ IsFiniteSet(Places(a, type)) /\ Count(a, type) = Cardinality(Places(a, type))
      /\ Count(a, type) \in Nat
  BY PlacesFinite
<1>7. IsFiniteSet(B) /\ Cardinality(B) = Cardinality(A)
  <2> HIDE DEF A, B, F
  <2> QED
    BY <1>3, <1>4, <1>5, <1>6, SameCount
<1>8. Places(a \o b, type) = Places(a, type) \cup B
  <2>1. \A k \in 1 .. Len(a) + Len(b) : k \in 1 .. Len(a) \/ k > Len(a)
    BY <1>1
  <2> QED
    BY <1>1, <2>1 DEF Places
<1>9. Places(a, type) \cap B = {}
  BY <1>1 DEF Places
<1>10. Cardinality(Places(a \o b, type)) = Count(a, type) + Count(b, type)
  <2>1. Cardinality(Places(a, type) \cup B)
          = Cardinality(Places(a, type)) + Cardinality(B) - Cardinality(Places(a, type) \cap B)
    BY <1>6, <1>7, FS_Union
  <2>2. Cardinality(Places(a, type) \cap B) = 0
    BY <1>9, FS_EmptySet
  <2>3. Cardinality(Places(a \o b, type)) = Cardinality(Places(a, type) \cup B)
    BY <1>8
  <2> HIDE DEF A, B
  <2> QED
    BY <1>6, <1>7, <2>1, <2>2, <2>3
<1> QED
  BY <1>1, <1>10, PlacesFinite

(* A sequence all of the type counts its length; one without it, nothing.  *)
LEMMA CountAll ==
  ASSUME NEW S, NEW s \in Seq(S), NEW type, \A k \in DOMAIN s : s[k].type = type
  PROVE  Count(s, type) = Len(s)
<1>1. Places(s, type) = 1 .. Len(s) /\ Len(s) \in Nat
  BY DEF Places
<1>2. Cardinality(1 .. Len(s)) = Len(s)
  BY <1>1, FS_Interval
<1>3. Count(s, type) = Cardinality(1 .. Len(s))
  BY <1>1 DEF Count, Places
<1> QED
  BY <1>2, <1>3

LEMMA CountNone ==
  ASSUME NEW S, NEW s \in Seq(S), NEW type, \A k \in DOMAIN s : s[k].type # type
  PROVE  Count(s, type) = 0
<1>1. Places(s, type) = {}
  BY DEF Places
<1> QED
  BY <1>1, PlacesFinite, FS_EmptySet

LEMMA CountNat ==
  ASSUME Shapes
  PROVE  Count(up, "listen") \in Nat /\ Count(down, "listen") \in Nat
BY PlacesFinite DEF Shapes

(* Appending to, or taking from, the two ends of the connection. *)
LEMMA CountSent ==
  ASSUME Shapes, NEW r \in Request, up' = Append(up, r)
  PROVE  Count(up, "listen")' = Count(up, "listen") + (IF r.type = "listen" THEN 1 ELSE 0)
<1>1. Count(Append(up, r), "listen") = Count(up, "listen") + (IF r.type = "listen" THEN 1 ELSE 0)
  BY CountAppend DEF Shapes
<1> QED
  BY <1>1 DEF Count

LEMMA CountAnswered ==
  ASSUME Shapes, NEW m \in Message, down' = Append(down, m)
  PROVE  Count(down, "listen")' = Count(down, "listen") + (IF m.type = "listen" THEN 1 ELSE 0)
<1>1. Count(Append(down, m), "listen")
        = Count(down, "listen") + (IF m.type = "listen" THEN 1 ELSE 0)
  BY CountAppend DEF Shapes
<1> QED
  BY <1>1 DEF Count

LEMMA CountTaken ==
  ASSUME Shapes, down # <<>>, down' = Tail(down)
  PROVE  Count(down, "listen")
           = Count(down, "listen")' + (IF Head(down).type = "listen" THEN 1 ELSE 0)
<1>1. Count(down, "listen")
        = Count(Tail(down), "listen") + (IF Head(down).type = "listen" THEN 1 ELSE 0)
  BY CountTail DEF Shapes
<1> QED
  BY <1>1 DEF Count

LEMMA CountHandled ==
  ASSUME Shapes, NEW k \in DOMAIN up, up' = Without(up, k)
  PROVE  Count(up, "listen")
           = Count(up, "listen")' + (IF up[k].type = "listen" THEN 1 ELSE 0)
<1>1. Count(up, "listen")
        = Count(Without(up, k), "listen") + (IF up[k].type = "listen" THEN 1 ELSE 0)
  BY CountWithout DEF Shapes
<1> QED
  BY <1>1 DEF Count

(* A restored connection sends every listen once. *)
LEMMA CountRestored ==
  ASSUME Shapes, RestoreState(up)
  PROVE  /\ Count(up, "listen")' = Count(up, "listen") + Cardinality(Listening)
         /\ unackedListensCount' = unackedListensCount + Cardinality(Listening)
<1>1. PICK qs \in Enumerations(Listening), ps \in Enumerations(outstandingPuts) :
        up' = up \o Listens(qs) \o PutRequests(ps)
  BY DEF RestoreState
<1> outstandingPuts \in SUBSET Puts /\ up \in Seq(Request)
  BY DEF Shapes
<1> DEFINE L == Listens(qs)
           P == PutRequests(ps)
<1>2. L \in Seq(Request) /\ Len(L) = Cardinality(Listening)
      /\ \A k \in DOMAIN L : L[k].type = "listen"
  <2>1. /\ L \in Seq(Request) /\ Len(L) = Cardinality(Listening)
        /\ \A k \in 1 .. Cardinality(Listening) : L[k] = Listen(qs[k], listens[qs[k]])
    BY ListensType
  <2>2. DOMAIN L = 1 .. Cardinality(Listening)
    <3> HIDE DEF L
    <3> QED
      BY <2>1
  <2>3. \A q, spec : Listen(q, spec).type = "listen"
    BY DEF Listen
  <2> QED
    BY <2>1, <2>2, <2>3
<1>3. P \in Seq(Request) /\ \A k \in DOMAIN P : P[k].type # "listen"
  <2>1. /\ P \in Seq(Request) /\ Len(P) = Cardinality(outstandingPuts)
        /\ \A k \in 1 .. Cardinality(outstandingPuts) : P[k] = Put(ps[k])
    BY PutRequestsType
  <2>2. DOMAIN P = 1 .. Cardinality(outstandingPuts)
    <3> HIDE DEF P
    <3> QED
      BY <2>1
  <2>3. \A i : Put(i).type = "put"
    BY DEF Put
  <2> QED
    BY <2>1, <2>2, <2>3
<1> HIDE DEF L, P
<1>4. Count(L, "listen") = Cardinality(Listening) /\ Count(P, "listen") = 0
  BY <1>2, <1>3, CountAll, CountNone
<1>5. up \o L \in Seq(Request) /\ Count(up \o L, "listen") = Count(up, "listen") + Count(L, "listen")
  BY <1>2, CountConcat
<1>6. Count((up \o L) \o P, "listen") = Count(up \o L, "listen") + Count(P, "listen")
  <2>1. up \o L \in Seq(Request) /\ P \in Seq(Request)
    BY <1>3, <1>5
  <2>2. \A a, b \in Seq(Request) : Count(a \o b, "listen") = Count(a, "listen") + Count(b, "listen")
    BY CountConcat
  <2> QED
    BY ONLY <2>1, <2>2
<1>7. Count(up, "listen") \in Nat /\ Cardinality(Listening) \in Nat
  BY <1>2, CountNat
<1>8. up' = (up \o L) \o P
  BY <1>1 DEF L, P
<1>9. Count(up, "listen")' = Count((up \o L) \o P, "listen")
  BY <1>8 DEF Count
<1> QED
  BY <1>4, <1>5, <1>6, <1>7, <1>9 DEF RestoreState

LEMMA CountUnchanged ==
  ASSUME UnackedListensOut, UNCHANGED <<unackedListensCount, up, down>>
  PROVE  UnackedListensOut'
BY DEF UnackedListensOut, Count

LEMMA CountDisconnect ==
  ASSUME NEW reasons, NEW force, OnDisconnect(reasons, force)
  PROVE  UnackedListensOut'
<1>1. unackedListensCount' = 0 /\ up' = <<>> /\ down' = <<>>
  BY DEF OnDisconnect
<1>2. Count(up, "listen")' = 0 /\ Count(down, "listen")' = 0
  BY <1>1, CountEmpty DEF Count
<1> QED
  BY <1>1, <1>2 DEF UnackedListensOut

LEMMA CountInterrupt ==
  ASSUME UnackedListensOut, NEW reason, InterruptForReason(reason)
  PROVE  UnackedListensOut'
<1>1. CASE OnDisconnect(interruptReasons \cup {reason}, forceAuthTokenRefresh)
  BY <1>1, CountDisconnect
<1>2. CASE UNCHANGED <<requests, up, down>>
  BY <1>2, CountUnchanged DEF requests
<1> QED
  BY <1>1, <1>2 DEF InterruptForReason, Interrupted

LEMMA CountTailNat ==
  ASSUME Shapes, down # <<>>, down' = Tail(down)
  PROVE  Count(down, "listen")' \in Nat
<1>1. Tail(down) \in Seq(Message)
  BY HeadMessage
<1>2. Count(Tail(down), "listen") \in Nat
  BY <1>1, PlacesFinite
<1> QED
  BY <1>2 DEF Count

LEMMA CountWithoutNat ==
  ASSUME Shapes, NEW k \in DOMAIN up, up' = Without(up, k)
  PROVE  Count(up, "listen")' \in Nat
<1>1. Without(up, k) \in Seq(Request)
  BY WithoutSeq DEF Shapes
<1>2. Count(Without(up, k), "listen") \in Nat
  BY <1>1, PlacesFinite
<1> QED
  BY <1>2 DEF Count

(* A request that is no listen is sent, or none. *)
LEMMA CountUnsent ==
  ASSUME Shapes, UnackedListensOut, NEW r \in Request, r.type # "listen",
         up' = up \/ up' = Append(up, r), UNCHANGED <<down, unackedListensCount>>
  PROVE  UnackedListensOut'
<1>1. CASE up' = up
  BY <1>1, CountUnchanged
<1>2. CASE up' = Append(up, r)
  <2>1. Count(up, "listen")' = Count(up, "listen") /\ Count(down, "listen")' = Count(down, "listen")
    BY <1>2, CountSent, CountNat DEF Count
  <2> QED
    BY <2>1 DEF UnackedListensOut
<1> QED
  BY <1>1, <1>2

(* A message that is no listen's answer is taken. *)
LEMMA CountReceived ==
  ASSUME Shapes, UnackedListensOut, down # <<>>, Head(down).type # "listen",
         down' = Tail(down), UNCHANGED <<up, unackedListensCount>>
  PROVE  UnackedListensOut'
<1>1. Count(down, "listen")' = Count(down, "listen")
  BY CountTaken, CountTailNat, CountNat
<1>2. Count(up, "listen")' = Count(up, "listen")
  BY DEF Count
<1> QED
  BY <1>1, <1>2 DEF UnackedListensOut

(* The state is restored before any message is taken. *)
LEMMA CountReplayed ==
  ASSUME Shapes, UnackedListensOut, RestoreState(up), UNCHANGED down
  PROVE  UnackedListensOut'
<1>1. Cardinality(Listening) \in Nat
  BY FiniteQueries DEF Listening
<1>2. Count(down, "listen")' = Count(down, "listen")
  BY DEF Count
<1> QED
  BY <1>1, <1>2, CountRestored, CountNat DEF UnackedListensOut

LEMMA CountRepo ==
  ASSUME Shapes, UnackedListensOut, Repo
  PROVE  UnackedListensOut'
<1>1. ASSUME NEW reason, ResumeForReason(reason) PROVE UnackedListensOut'
  BY <1>1, CountUnchanged DEF ResumeForReason, requests
<1>2. ASSUME NEW q \in Queries, ListenTo(q) PROVE UnackedListensOut'
  <2> DEFINE r == Listen(q, listenCalls + 1)
  <2>1. r \in Request /\ r.type = "listen"
    BY <1>2, RequestTypes DEF ListenTo, Listen
  <2>2. CASE connected
    <3>1. up' = Append(up, r) /\ unackedListensCount' = unackedListensCount + 1 /\ UNCHANGED down
      BY <1>2, <2>2 DEF ListenTo
    <3> HIDE DEF r
    <3>2. Count(up, "listen")' = Count(up, "listen") + 1 /\ Count(down, "listen")' = Count(down, "listen")
      BY <2>1, <3>1, CountSent DEF Count
    <3> QED
      BY <3>1, <3>2, CountNat DEF UnackedListensOut
  <2>3. CASE ~connected
    BY <1>2, <2>3, CountUnchanged DEF ListenTo
  <2> QED
    BY <2>2, <2>3
<1>3. ASSUME NEW q \in Queries, Unlisten(q) PROVE UnackedListensOut'
  <2> DEFINE r == [type |-> "unlisten", query |-> q]
  <2>1. r \in Request /\ r.type # "listen"
    BY RequestTypes
  <2>2. (up' = up \/ up' = Append(up, r)) /\ UNCHANGED <<down, unackedListensCount>>
    BY <1>3 DEF Unlisten
  <2> HIDE DEF r
  <2> QED
    BY <2>1, <2>2, CountUnsent
<1>4. ASSUME PutData PROVE UnackedListensOut'
  <2> DEFINE r == Put(putCounter + 1)
  <2>1. r \in Request /\ r.type # "listen"
    BY <1>4, RequestTypes DEF PutData, Put
  <2>2. (up' = up \/ up' = Append(up, r)) /\ UNCHANGED <<down, unackedListensCount>>
    BY <1>4 DEF PutData
  <2> HIDE DEF r
  <2> QED
    BY <2>1, <2>2, CountUnsent
<1> QED
  BY <1>1, <1>2, <1>3, <1>4 DEF Repo

LEMMA CountQueue ==
  ASSUME Shapes, UnackedListensOut, Queue
  PROVE  UnackedListensOut'
<1>1. CASE RunRetry \/ OnFetch
  BY <1>1, CountUnchanged DEF RunRetry, OnFetch, requests
<1>2. CASE RefreshAuthToken
  <2>1. CASE ~connected
    BY <1>2, <2>1, CountUnchanged DEF RefreshAuthToken, requests
  <2>2. CASE connected /\ authToken' = NoToken
    <3>1. up' = Append(up, [type |-> "unauth"]) /\ UNCHANGED <<down, unackedListensCount>>
      BY <1>2, <2>2 DEF RefreshAuthToken, requests
    <3> QED
      BY <3>1, RequestTypes, CountUnsent
  <2>3. CASE connected /\ authToken' # NoToken
    <3> DEFINE r == Auth(authToken', FALSE)
    <3>1. up' = Append(up, r) /\ UNCHANGED <<down, unackedListensCount>>
      BY <1>2, <2>3 DEF RefreshAuthToken, requests
    <3>2. authToken' \in Token
      BY <1>2, <2>3, HeadEvent, EventFields DEF RefreshAuthToken, MaybeToken
    <3>3. r \in Request /\ r.type # "listen"
      BY <3>2, RequestTypes DEF Auth
    <3> HIDE DEF r
    <3> QED
      BY <3>1, <3>3, CountUnsent
  <2> QED
    BY <2>1, <2>2, <2>3
<1>3. CASE OnReady
  <2>1. CASE authToken = NoToken
    <3>1. RestoreState(up) /\ UNCHANGED down
      BY <1>3, <2>1 DEF OnReady
    <3> QED
      BY <3>1, CountReplayed
  <2>2. CASE authToken # NoToken
    <3> DEFINE r == Auth(authToken, TRUE)
    <3>1. up' = Append(up, r) /\ UNCHANGED <<down, unackedListensCount>>
      BY <1>3, <2>2 DEF OnReady
    <3>2. r \in Request /\ r.type # "listen"
      BY <2>2, RequestTypes DEF Auth, Shapes, MaybeToken
    <3> HIDE DEF r
    <3> QED
      BY <3>1, <3>2, CountUnsent
  <2> QED
    BY <2>1, <2>2
<1>4. CASE OnAuth
  <2>1. CASE RestoreState(up) /\ down' = Tail(down)
    <3>1. down # <<>> /\ Head(down).type # "listen"
      BY <1>4 DEF OnAuth, Receive
    <3>2. Count(down, "listen")' = Count(down, "listen")
      BY <2>1, <3>1, CountTaken, CountNat, CountTailNat
    <3>3. Cardinality(Listening) \in Nat
      BY FiniteQueries DEF Listening
    <3>4. /\ Count(up, "listen")' = Count(up, "listen") + Cardinality(Listening)
          /\ unackedListensCount' = unackedListensCount + Cardinality(Listening)
      BY <2>1, CountRestored
    <3> QED
      BY <3>2, <3>3, <3>4, CountNat DEF UnackedListensOut
  <2>2. CASE down' = Tail(down) /\ UNCHANGED <<up, unackedListensCount>>
    BY <1>4, <2>2, CountReceived DEF OnAuth, Receive
  <2>3. CASE OnDisconnect(interruptReasons, TRUE)
    BY <2>3, CountDisconnect
  <2> QED
    BY <1>4, <2>1, <2>2, <2>3 DEF OnAuth, requests
<1>5. CASE OnPut \/ OnListenRevoked
  BY <1>5, CountReceived DEF OnPut, OnListenRevoked, Receive
<1>6. CASE OnListen
  <2>1. /\ down # <<>> /\ Head(down).type = "listen" /\ down' = Tail(down) /\ UNCHANGED up
        /\ unackedListensCount' = unackedListensCount - 1
    BY <1>6 DEF OnListen, Receive
  <2>2. Count(down, "listen") = Count(down, "listen")' + 1 /\ Count(up, "listen")' = Count(up, "listen")
    BY <2>1, CountTaken DEF Count
  <2> QED
    BY <2>1, <2>2, CountNat, CountTailNat DEF UnackedListensOut
<1>7. CASE OnClose
  BY <1>7, CountDisconnect DEF OnClose
<1>8. CASE OnShutdown
  BY <1>8, CountInterrupt DEF OnShutdown
<1> QED
  BY <1>1, <1>2, <1>3, <1>4, <1>5, <1>6, <1>7, <1>8 DEF Queue

LEMMA CountService ==
  ASSUME Shapes, UnackedListensOut, Service
  PROVE  UnackedListensOut'
<1>1. ASSUME NEW f \in fetches, TokenFetched(f) PROVE UnackedListensOut'
  BY <1>1, CountUnchanged DEF TokenFetched, requests
<1>2. ASSUME NEW k \in DOMAIN up, ServerHandle(k) PROVE UnackedListensOut'
  <2>1. up[k] \in Request /\ up' = Without(up, k) /\ UNCHANGED unackedListensCount
    BY <1>2, RequestOf DEF ServerHandle, requests
  <2>2. Count(up, "listen")
          = Count(up, "listen")' + (IF up[k].type = "listen" THEN 1 ELSE 0)
    BY <2>1, CountHandled
  <2>3. Count(down, "listen")'
          = Count(down, "listen") + (IF up[k].type = "listen" THEN 1 ELSE 0)
    <3>1. CASE up[k].type = "listen"
      <4>1. PICK m \in Message : m.type = "listen" /\ down' = Append(down, m)
        BY <1>2, <2>1, <3>1, RequestFields, MessageTypes DEF ServerHandle
      <4> QED
        BY <3>1, <4>1, CountAnswered
    <3>2. CASE up[k].type # "listen"
      <4>1. \/ down' = down
            \/ \E m \in Message : m.type # "listen" /\ down' = Append(down, m)
        BY <1>2, <2>1, <3>2, RequestFields, MessageTypes DEF ServerHandle
      <4>2. CASE down' = down
        BY <3>2, <4>2, CountNat DEF Count
      <4>3. ASSUME NEW m \in Message, m.type # "listen", down' = Append(down, m)
            PROVE  Count(down, "listen")' = Count(down, "listen")
        BY <4>3, CountAnswered, CountNat
      <4> QED
        BY <3>2, <4>1, <4>2, <4>3, CountNat
    <3> QED
      BY <3>1, <3>2
  <2>4. Count(up, "listen")' \in Nat
    BY <2>1, CountWithoutNat
  <2> QED
    BY <2>1, <2>2, <2>3, <2>4, CountNat DEF UnackedListensOut
<1> QED
  BY <1>1, <1>2 DEF Service

LEMMA CountTrouble ==
  ASSUME Shapes, UnackedListensOut, Trouble
  PROVE  UnackedListensOut'
<1>1. CASE Drop
  BY <1>1, CountDisconnect DEF Drop
<1>2. CASE InterruptForReason("repo_interrupt")
  BY <1>2, CountInterrupt
<1>3. CASE \/ Wake \/ PurgeOutstandingWrites \/ ResumeForReason("repo_interrupt")
           \/ (\E f \in fetches : TokenFetchFails(f))
           \/ (\E token \in MaybeToken : ChangeAccount(token)) \/ InvalidateTokens
  <2>1. UNCHANGED <<unackedListensCount, up, down>>
    BY <1>3 DEF Wake, PurgeOutstandingWrites, ResumeForReason, TokenFetchFails, ChangeAccount,
                InvalidateTokens, requests
  <2> QED
    BY <2>1, CountUnchanged
<1>4. ASSUME NEW m \in Pushes, ServerPush(m) PROVE UnackedListensOut'
  <2>1. m \in Message /\ m.type # "listen"
    BY MessageTypes DEF Pushes
  <2>2. down' = Append(down, m) /\ UNCHANGED <<up, unackedListensCount>>
    BY <1>4 DEF ServerPush, requests
  <2>3. Count(down, "listen")' = Count(down, "listen") /\ Count(up, "listen")' = Count(up, "listen")
    BY <2>1, <2>2, CountAnswered, CountNat DEF Count
  <2> QED
    BY <2>2, <2>3 DEF UnackedListensOut
<1> QED
  BY <1>1, <1>2, <1>3, <1>4 DEF Trouble

LEMMA CountStep ==
  ASSUME Shapes, UnackedListensOut, [Next]_vars
  PROVE  UnackedListensOut'
<1>1. CASE UNCHANGED vars
  BY <1>1, CountUnchanged DEF vars, requests
<1> QED
  BY <1>1, CountRepo, CountQueue, CountService, CountTrouble DEF Next

LEMMA CountInit ==
  Init => UnackedListensOut
BY CountEmpty DEF Init, UnackedListensOut

LEMMA CountInductive ==
  Spec => [](Shapes /\ UnackedListensOut)
<1>1. Init => UnackedListensOut
  BY CountInit
<1>2. Shapes /\ UnackedListensOut /\ [Next]_vars => UnackedListensOut'
  BY CountStep
<1> QED
  BY <1>1, <1>2, ControlInductive, PTL DEF Spec

(* Completions are held back exactly while a listen is unanswered, whatever*)
(* order listens and writes are answered in.                               *)
THEOREM HeldBackWhileListening ==
  Spec => []UnackedListensOut
BY CountInductive, PTL

(* The types, with the counter that never goes below zero.                 *)
THEOREM TypeCorrect ==
  Spec => []TypeOK
<1>1. Shapes /\ UnackedListensOut => unackedListensCount \in Nat
  BY CountNat DEF UnackedListensOut
<1>2. Init => troubles \in 0 .. MaxTroubles
  BY BoundsAssumption DEF Init
<1>3. troubles \in 0 .. MaxTroubles /\ [Next]_vars => (troubles \in 0 .. MaxTroubles)'
  BY BoundsAssumption DEF Next, vars
<1>4. Shapes /\ unackedListensCount \in Nat /\ troubles \in 0 .. MaxTroubles => TypeOK
  BY DEF Shapes, TypeOK
<1> QED
  BY <1>1, <1>2, <1>3, <1>4, CountInductive, PTL DEF Spec

-----------------------------------------------------------------------------
(* What was answered was applied.                                          *)
AnsweredApplied == \A m \in Members(down) : m.type = "put" => applied[m.put] > 0

ReportedApplied ==
  \A i \in Puts : completed[i] = "ok" \/ i \in Members(putsToAck) => applied[i] > 0

(* A put is sent only after it was made.                                   *)
SentMade == \A i \in sent \cup outstandingPuts : i <= putCounter

(* The authentication that restores the state is the first of its          *)
(* connection, and until it is answered the library is authenticating: the *)
(* state is restored once.                                                 *)
RestoreFirst ==
  /\ \A j \in DOMAIN up : Restoring(up[j]) =>
       /\ connectionState = "Authenticating"
       /\ \A k \in DOMAIN up : k < j => up[k].type # "auth"
       /\ \A k \in DOMAIN down : down[k].type # "auth"
  /\ \A j \in DOMAIN down : Restoring(down[j]) =>
       /\ connectionState = "Authenticating"
       /\ \A k \in DOMAIN down : k < j => down[k].type # "auth"

(* Transactions that were sent have been cancelled before that.            *)
CancelledFirst == connectionState # "Connected" => SentTransactions = {}

(* A write of a transaction is on its way at most once, only when it was   *)
(* not applied, and neither before it is marked as sent.                   *)
IsPut(r, i) == r.type = "put" /\ r.put = i

SentOnce(i) ==
  /\ applied[i] < 2
  /\ i \notin sent => applied[i] = 0 /\ \A k \in DOMAIN up : ~IsPut(up[k], i)
  /\ \A k \in DOMAIN up : IsPut(up[k], i) =>
       applied[i] = 0 /\ \A j \in DOMAIN up : IsPut(up[j], i) => j = k

TransactionsOnce == \A i \in Transactions : SentOnce(i)

ReportInv ==
  /\ AnsweredApplied /\ ReportedApplied /\ SentMade
  /\ RestoreFirst /\ CancelledFirst /\ TransactionsOnce

-----------------------------------------------------------------------------
(***************************************************************************)
(* What is reported was applied.                                           *)
(***************************************************************************)
LEMMA DownMessages ==
  ASSUME Shapes
  PROVE  /\ \A m \in Members(down) : m \in Message /\ (m.type = "put" => m.put \in Puts)
         /\ \A i \in Puts : applied[i] \in 0 .. 2
<1>1. Members(down) \subseteq Message
  BY MembersType DEF Shapes
<1> QED
  BY <1>1, MessageFields DEF Shapes

LEMMA AnswersKept ==
  ASSUME Shapes, AnsweredApplied, ReportedApplied,
         \A i \in Puts : applied[i] > 0 => applied'[i] > 0,
         \A m \in Members(down)' :
           m \in Members(down) \/ m.type # "put" \/ applied'[m.put] > 0,
         \A i \in Puts : completed'[i] = "ok" \/ i \in Members(putsToAck)' =>
           completed[i] = "ok" \/ i \in Members(putsToAck) \/ applied[i] > 0
  PROVE  AnsweredApplied' /\ ReportedApplied'
<1>1. AnsweredApplied'
  BY DownMessages DEF AnsweredApplied
<1>2. ReportedApplied'
  BY DEF ReportedApplied
<1> QED
  BY <1>1, <1>2

LEMMA AnswersUnchanged ==
  ASSUME AnsweredApplied, ReportedApplied, UNCHANGED <<applied, completed, putsToAck>>,
         UNCHANGED down \/ down' = <<>>
  PROVE  AnsweredApplied' /\ ReportedApplied'
<1>1. Members(down)' = Members(down) \/ Members(down)' = {}
  BY DEF Members
<1>2. Members(putsToAck)' = Members(putsToAck)
  BY DEF Members
<1> QED
  BY <1>1, <1>2 DEF AnsweredApplied, ReportedApplied

LEMMA AnswersDisconnect ==
  ASSUME Shapes, AnsweredApplied, ReportedApplied, UNCHANGED applied,
         NEW reasons, NEW force, OnDisconnect(reasons, force)
  PROVE  AnsweredApplied' /\ ReportedApplied'
<1>1. completed' = Completed(SentTransactions, "disconnect") /\ down' = <<>> /\ UNCHANGED putsToAck
  BY DEF OnDisconnect
<1>2. \A i \in Puts : completed'[i] = "ok" => completed[i] = "ok"
  BY <1>1, CompletedType
<1>3. Members(down)' = {} /\ Members(putsToAck)' = Members(putsToAck)
  BY <1>1 DEF Members
<1> QED
  BY <1>2, <1>3, AnswersKept

LEMMA AnswersInterrupt ==
  ASSUME Shapes, AnsweredApplied, ReportedApplied, NEW reason, InterruptForReason(reason)
  PROVE  AnsweredApplied' /\ ReportedApplied'
<1>1. CASE OnDisconnect(interruptReasons \cup {reason}, forceAuthTokenRefresh)
  BY <1>1, AnswersDisconnect DEF InterruptForReason
<1>2. CASE UNCHANGED <<requests, down>>
  BY <1>2, AnswersUnchanged DEF InterruptForReason, requests
<1> QED
  BY <1>1, <1>2 DEF InterruptForReason, Interrupted

(* An answer is taken from the connection. *)
LEMMA AnswersTaken ==
  ASSUME Shapes, AnsweredApplied, ReportedApplied, down # <<>>, down' = Tail(down),
         UNCHANGED applied,
         \A i \in Puts : completed'[i] = "ok" \/ i \in Members(putsToAck)' =>
           completed[i] = "ok" \/ i \in Members(putsToAck) \/ applied[i] > 0
  PROVE  AnsweredApplied' /\ ReportedApplied'
<1>1. Members(down)' \subseteq Members(down)
  BY MembersReceived
<1> QED
  BY <1>1, AnswersKept

LEMMA AnswersQueue ==
  ASSUME Shapes, AnsweredApplied, ReportedApplied, Queue
  PROVE  AnsweredApplied' /\ ReportedApplied'
<1>0. putsToAck \in Seq(Puts)
  BY DEF Shapes
<1>1. CASE RunRetry \/ RefreshAuthToken \/ OnFetch \/ OnReady
  <2>1. UNCHANGED <<applied, completed, putsToAck, down>>
    BY <1>1 DEF RunRetry, RefreshAuthToken, OnFetch, OnReady, requests, server
  <2> QED
    BY <2>1, AnswersUnchanged
<1>2. CASE OnAuth
  <2>1. CASE OnDisconnect(interruptReasons, TRUE)
    BY <1>2, <2>1, AnswersDisconnect DEF OnAuth
  <2>2. CASE down' = Tail(down) /\ UNCHANGED <<completed, putsToAck>>
    BY <1>2, <2>2, AnswersTaken DEF OnAuth, Receive, Members
  <2> QED
    BY <1>2, <2>1, <2>2 DEF OnAuth, requests
<1>3. CASE OnPut
  <2> DEFINE i == Head(down).put
  <2>1. i \in Puts /\ applied[i] > 0 /\ down # <<>> /\ down' = Tail(down) /\ UNCHANGED applied
    BY <1>3, HeadMessage, MessageFields DEF OnPut, Receive, AnsweredApplied, server
  <2>2. \/ UNCHANGED <<completed, putsToAck>>
        \/ completed' = Completed({i}, "ok") /\ UNCHANGED putsToAck
        \/ putsToAck' = Append(putsToAck, i) /\ UNCHANGED completed
    BY <1>3 DEF OnPut
  <2> HIDE DEF i
  <2>3. \A j \in Puts : completed'[j] = "ok" => completed[j] = "ok" \/ j = i
    BY <2>2, CompletedType
  <2>4. Members(putsToAck)' \subseteq Members(putsToAck) \cup {i}
    <3>1. Members(Append(putsToAck, i)) = Members(putsToAck) \cup {i}
      BY <1>0, <2>1, MembersAppend
    <3> QED
      BY <2>2, <3>1 DEF Members
  <2> QED
    BY <2>1, <2>3, <2>4, AnswersTaken
<1>4. CASE OnListen
  <2>1. down # <<>> /\ down' = Tail(down) /\ UNCHANGED applied
    BY <1>4 DEF OnListen, Receive, server
  <2>2. CASE AckPuts
    <3>1. \A j \in Puts : completed'[j] = "ok" => completed[j] = "ok" \/ j \in Members(putsToAck)
      BY <2>2, CompletedType DEF AckPuts
    <3>2. Members(putsToAck)' = {}
      BY <2>2 DEF AckPuts, Members
    <3> QED
      BY <2>1, <3>1, <3>2, AnswersTaken
  <2>3. CASE UNCHANGED <<completed, putsToAck>>
    BY <2>1, <2>3, AnswersTaken DEF Members
  <2> QED
    BY <1>4, <2>2, <2>3 DEF OnListen
<1>5. CASE OnListenRevoked
  BY <1>5, AnswersTaken DEF OnListenRevoked, Receive, server, Members
<1>6. CASE OnClose
  BY <1>6, AnswersDisconnect DEF OnClose
<1>7. CASE OnShutdown
  BY <1>7, AnswersInterrupt DEF OnShutdown
<1> QED
  BY <1>1, <1>2, <1>3, <1>4, <1>5, <1>6, <1>7 DEF Queue

(* What a handled request does to the messages and the applied writes. *)
LEMMA HandledRequest ==
  ASSUME Shapes, NEW k \in DOMAIN up, ServerHandle(k)
  PROVE  /\ up[k] \in Request /\ up' = Without(up, k)
         /\ UNCHANGED <<library, requests, auth, outpaced>>
         /\ up[k].type = "put" =>
              /\ up[k].put \in Puts
              /\ down' = Append(down, [type |-> "put", put |-> up[k].put])
              /\ \A i \in Puts : applied'[i] = IF i # up[k].put THEN applied[i]
                                               ELSE IF applied[i] < 2 THEN applied[i] + 1 ELSE 2
         /\ up[k].type = "auth" =>
              /\ UNCHANGED applied
              /\ \E ok \in BOOLEAN : down' = Append(down, [type |-> "auth", ok |-> ok,
                                                          restore |-> up[k].restore])
         /\ up[k].type \notin {"put", "auth"} =>
              /\ UNCHANGED applied
              /\ down' = down \/ \E m \in Message :
                                   m.type \notin {"put", "auth"} /\ down' = Append(down, m)
<1>1. up[k] \in Request /\ up' = Without(up, k) /\ UNCHANGED <<library, requests, auth, outpaced>>
  BY RequestOf DEF ServerHandle
<1>2. CASE up[k].type = "put"
  BY <1>1, <1>2, RequestFields DEF ServerHandle, Shapes
<1>3. CASE up[k].type = "auth"
  BY <1>1, <1>3 DEF ServerHandle
<1>4. CASE up[k].type \notin {"put", "auth"}
  BY <1>1, <1>4, RequestFields, MessageTypes DEF ServerHandle, server
<1> QED
  BY <1>1, <1>2, <1>3, <1>4

LEMMA MembersDown ==
  ASSUME Shapes, NEW m \in Message, down' = Append(down, m)
  PROVE  Members(down)' = Members(down) \cup {m}
<1>1. Members(Append(down, m)) = Members(down) \cup {m}
  BY MembersAppend DEF Shapes
<1> QED
  BY <1>1 DEF Members

LEMMA AnswersHandled ==
  ASSUME Shapes, AnsweredApplied, ReportedApplied, NEW k \in DOMAIN up, ServerHandle(k)
  PROVE  AnsweredApplied' /\ ReportedApplied'
<1>1. up[k] \in Request /\ UNCHANGED <<completed, putsToAck>>
  BY HandledRequest DEF requests
<1>2. Members(putsToAck)' = Members(putsToAck)
  BY <1>1 DEF Members
<1>3. CASE up[k].type = "put"
  <2> DEFINE m == [type |-> "put", put |-> up[k].put]
  <2>1. /\ up[k].put \in Puts /\ down' = Append(down, m)
        /\ \A i \in Puts : applied'[i] = IF i # up[k].put THEN applied[i]
                                         ELSE IF applied[i] < 2 THEN applied[i] + 1 ELSE 2
    BY <1>3, HandledRequest
  <2>2. m \in Message /\ m.put = up[k].put
    BY <2>1, MessageTypes
  <2>3. applied'[up[k].put] > 0 /\ \A i \in Puts : applied[i] > 0 => applied'[i] > 0
    BY <2>1, DownMessages
  <2> HIDE DEF m
  <2>4. Members(down)' = Members(down) \cup {m}
    BY <2>1, <2>2, MembersDown
  <2> QED
    BY <1>1, <1>2, <2>2, <2>3, <2>4, AnswersKept
<1>4. CASE up[k].type # "put"
  <2>1. UNCHANGED applied
    BY <1>4, HandledRequest
  <2>2. down' = down \/ \E m \in Message : m.type # "put" /\ down' = Append(down, m)
    <3>1. CASE up[k].type = "auth"
      BY <1>1, <3>1, HandledRequest, RequestFields, MessageTypes
    <3>2. CASE up[k].type # "auth"
      BY <1>4, <3>2, HandledRequest
    <3> QED
      BY <3>1, <3>2
  <2>3. CASE down' = down
    BY <1>1, <2>1, <2>3, AnswersUnchanged
  <2>4. ASSUME NEW m \in Message, m.type # "put", down' = Append(down, m)
        PROVE  AnsweredApplied' /\ ReportedApplied'
    <3>1. Members(down)' = Members(down) \cup {m}
      BY <2>4, MembersDown
    <3> QED
      BY <1>1, <1>2, <2>1, <2>4, <3>1, AnswersKept
  <2> QED
    BY <2>2, <2>3, <2>4
<1> QED
  BY <1>3, <1>4

LEMMA AnswersTrouble ==
  ASSUME Shapes, AnsweredApplied, ReportedApplied, Trouble
  PROVE  AnsweredApplied' /\ ReportedApplied'
<1>1. CASE Drop
  BY <1>1, AnswersDisconnect DEF Drop
<1>2. CASE InterruptForReason("repo_interrupt")
  BY <1>2, AnswersInterrupt
<1>3. CASE PurgeOutstandingWrites
  <2>1. \A i \in Puts : completed'[i] = "ok" => completed[i] = "ok" \/ i \in Members(putsToAck)
    BY <1>3 DEF PurgeOutstandingWrites
  <2>2. Members(putsToAck)' = {} /\ Members(down)' = Members(down) /\ UNCHANGED applied
    BY <1>3 DEF PurgeOutstandingWrites, Members, server
  <2> QED
    BY <2>1, <2>2, AnswersKept
<1>4. CASE \/ Wake \/ ResumeForReason("repo_interrupt")
           \/ (\E f \in fetches : TokenFetchFails(f))
           \/ (\E token \in MaybeToken : ChangeAccount(token)) \/ InvalidateTokens
  <2>1. UNCHANGED <<applied, completed, putsToAck, down>>
    BY <1>4 DEF Wake, ResumeForReason, TokenFetchFails, ChangeAccount, InvalidateTokens, requests, server
  <2> QED
    BY <2>1, AnswersUnchanged
<1>5. ASSUME NEW m \in Pushes, ServerPush(m) PROVE AnsweredApplied' /\ ReportedApplied'
  <2>1. m \in Message /\ m.type # "put" /\ down' = Append(down, m)
        /\ UNCHANGED <<applied, completed, putsToAck>>
    BY <1>5, MessageTypes DEF ServerPush, Pushes, requests
  <2>2. Members(down)' = Members(down) \cup {m} /\ Members(putsToAck)' = Members(putsToAck)
    BY <2>1, MembersDown DEF Members
  <2> QED
    BY <2>1, <2>2, AnswersKept
<1> QED
  BY <1>1, <1>2, <1>3, <1>4, <1>5 DEF Trouble

LEMMA AnswersStep ==
  ASSUME Shapes, AnsweredApplied, ReportedApplied, [Next]_vars
  PROVE  AnsweredApplied' /\ ReportedApplied'
<1>1. CASE Repo \/ UNCHANGED vars \/ (\E f \in fetches : TokenFetched(f))
  <2>1. UNCHANGED <<applied, completed, putsToAck, down>>
    BY <1>1 DEF Repo, ResumeForReason, ListenTo, Unlisten, PutData, TokenFetched, vars, requests, server
  <2> QED
    BY <2>1, AnswersUnchanged
<1> QED
  BY <1>1, AnswersQueue, AnswersHandled, AnswersTrouble DEF Next, Service

-----------------------------------------------------------------------------
(***************************************************************************)
(* The state is restored once in a connection.                             *)
(***************************************************************************)
LEMMA OrderUnchanged ==
  ASSUME RestoreFirst, UNCHANGED <<connectionState, up, down>>
  PROVE  RestoreFirst'
BY DEF RestoreFirst, Restoring

LEMMA OrderClosed ==
  ASSUME up' = <<>>, down' = <<>>
  PROVE  RestoreFirst'
BY DEF RestoreFirst

(* No authentication that restores the state is on its way. *)
LEMMA OrderNone ==
  ASSUME \A r \in Members(up)' \cup Members(down)' : ~Restoring(r)
  PROVE  RestoreFirst'
BY DEF RestoreFirst, Restoring, Members

LEMMA AppendAt ==
  ASSUME NEW S, NEW s \in Seq(S), NEW e \in S
  PROVE  /\ Len(s) \in Nat /\ DOMAIN s = 1 .. Len(s)
         /\ DOMAIN Append(s, e) = 1 .. Len(s) + 1
         /\ Append(s, e)[Len(s) + 1] = e
         /\ \A j \in DOMAIN s : Append(s, e)[j] = s[j]
OBVIOUS

LEMMA OrderSent ==
  ASSUME Shapes, RestoreFirst, NEW r \in Request, ~Restoring(r),
         up' = up \/ up' = Append(up, r), UNCHANGED <<connectionState, down>>
  PROVE  RestoreFirst'
<1>1. CASE up' = up
  BY <1>1, OrderUnchanged
<1>2. CASE up' = Append(up, r)
  <2>1. /\ Len(up) \in Nat /\ DOMAIN up = 1 .. Len(up) /\ DOMAIN up' = 1 .. Len(up) + 1
        /\ up'[Len(up) + 1] = r /\ \A j \in DOMAIN up : up'[j] = up[j]
    BY <1>2, AppendAt DEF Shapes
  <2>2. ASSUME NEW j \in DOMAIN up', Restoring(up'[j])
        PROVE  j \in DOMAIN up /\ \A k \in DOMAIN up' : k < j => k \in DOMAIN up
    BY <2>1, <2>2
  <2> QED
    BY <2>1, <2>2 DEF RestoreFirst, Restoring
<1> QED
  BY <1>1, <1>2

LEMMA OrderAnswered ==
  ASSUME Shapes, RestoreFirst, NEW m \in Message, m.type # "auth",
         down' = Append(down, m), UNCHANGED connectionState,
         \A j \in DOMAIN up' : Restoring(up'[j]) =>
           /\ connectionState = "Authenticating"
           /\ \A k \in DOMAIN up' : k < j => up'[k].type # "auth"
           /\ \A k \in DOMAIN down : down[k].type # "auth"
  PROVE  RestoreFirst'
<1>1. /\ Len(down) \in Nat /\ DOMAIN down = 1 .. Len(down) /\ DOMAIN down' = 1 .. Len(down) + 1
      /\ down'[Len(down) + 1] = m /\ \A j \in DOMAIN down : down'[j] = down[j]
  BY AppendAt DEF Shapes
<1>2. ASSUME NEW j \in DOMAIN down', Restoring(down'[j])
      PROVE  j \in DOMAIN down /\ \A k \in DOMAIN down' : k < j => k \in DOMAIN down
  BY <1>1, <1>2 DEF Restoring
<1>3. \A k \in DOMAIN down' : k \in DOMAIN down \/ down'[k].type # "auth"
  BY <1>1
<1> QED
  BY <1>1, <1>2, <1>3 DEF RestoreFirst, Restoring

LEMMA OrderTaken ==
  ASSUME Shapes, RestoreFirst, down # <<>>, down' = Tail(down), UNCHANGED <<connectionState, up>>
  PROVE  RestoreFirst'
<1>1. /\ Len(down) \in Nat /\ DOMAIN down = 1 .. Len(down) /\ DOMAIN down' = 1 .. Len(down) - 1
      /\ \A j \in 1 .. Len(down) - 1 : down'[j] = down[j + 1]
  BY TailAt DEF Shapes
<1>2. \A j \in DOMAIN down' : j \in Int /\ j + 1 \in DOMAIN down /\ down'[j] = down[j + 1]
  BY <1>1
<1>3. ASSUME NEW j \in DOMAIN down', Restoring(down'[j]), NEW k \in DOMAIN down', k < j
      PROVE  down'[k].type # "auth" /\ connectionState = "Authenticating"
  <2>1. k + 1 < j + 1 /\ Restoring(down[j + 1])
    BY <1>2, <1>3
  <2> QED
    BY <1>2, <2>1 DEF RestoreFirst
<1>4. \A j \in DOMAIN down' : Restoring(down'[j]) => connectionState = "Authenticating"
  BY <1>2 DEF RestoreFirst
<1>5. \A j \in DOMAIN up : Restoring(up[j]) => \A k \in DOMAIN down' : down'[k].type # "auth"
  BY <1>2 DEF RestoreFirst
<1> QED
  BY <1>3, <1>4, <1>5 DEF RestoreFirst, Restoring

(* Where the requests are when one of them is handled. *)
LEMMA WithoutAt ==
  ASSUME Shapes, NEW k \in DOMAIN up, up' = Without(up, k)
  PROVE  \A j \in DOMAIN up' :
           LET h == IF j < k THEN j ELSE j + 1
           IN  /\ h \in DOMAIN up /\ h # k /\ up'[j] = up[h]
               /\ \A i \in DOMAIN up' : i < j => (IF i < k THEN i ELSE i + 1) < h
<1>1. /\ Len(up) \in Nat /\ DOMAIN up = 1 .. Len(up) /\ DOMAIN up' = 1 .. Len(up) - 1
      /\ \A j \in 1 .. Len(up) - 1 : up'[j] = IF j < k THEN up[j] ELSE up[j + 1]
  BY WithoutSeq DEF Shapes, Without
<1> QED
  BY <1>1

LEMMA OrderHandled ==
  ASSUME Shapes, RestoreFirst, NEW k \in DOMAIN up, ServerHandle(k)
  PROVE  RestoreFirst'
<1>1. /\ up' = Without(up, k) /\ up[k] \in Request /\ UNCHANGED connectionState
      /\ \A j \in DOMAIN up : j < k => up[j].type = "listen"
  <2>1. DOMAIN up = 1 .. Len(up) /\ Len(up) \in Nat
    BY DEF Shapes
  <2>2. \A j \in DOMAIN up : j < k => j \in 1 .. k - 1
    BY <2>1
  <2> QED
    BY <2>2, HandledRequest DEF ServerHandle, library
<1>2. ASSUME NEW j \in DOMAIN up', Restoring(up'[j])
      PROVE  /\ connectionState = "Authenticating" /\ ~Restoring(up[k])
             /\ \A i \in DOMAIN up' : i < j => up'[i].type # "auth"
             /\ \A i \in DOMAIN down : down[i].type # "auth"
             /\ up[k].type # "auth"
  <2> DEFINE At(i) == IF i < k THEN i ELSE i + 1
  <2>1. /\ \A i \in DOMAIN up' : At(i) \in DOMAIN up /\ At(i) # k /\ up'[i] = up[At(i)]
        /\ \A i \in DOMAIN up' : i < j => At(i) < At(j)
    BY <1>1, WithoutAt
  <2>2. Restoring(up[At(j)]) /\ At(j) \in Int /\ k \in Int
    <3>1. DOMAIN up \subseteq Int
      BY DEF Shapes
    <3> QED
      BY <1>2, <2>1, <3>1
  <2> HIDE DEF At
  <2>3. /\ connectionState = "Authenticating"
        /\ \A i \in DOMAIN up' : i < j => up'[i].type # "auth"
        /\ \A i \in DOMAIN down : down[i].type # "auth"
    BY <2>1, <2>2 DEF RestoreFirst
  <2>4. k < At(j)
    <3>1. ~(At(j) < k)
      BY <1>1, <2>1, <2>2 DEF Restoring
    <3> QED
      BY <2>1, <2>2, <3>1
  <2>5. up[k].type # "auth"
    BY <2>1, <2>2, <2>4 DEF RestoreFirst
  <2> QED
    BY <2>3, <2>5 DEF Restoring
<1>3. CASE up[k].type = "auth"
  <2>1. PICK ok \in BOOLEAN : down' = Append(down, [type |-> "auth", ok |-> ok, restore |-> up[k].restore])
    BY <1>3, HandledRequest
  <2> DEFINE m == [type |-> "auth", ok |-> ok, restore |-> up[k].restore]
  <2>2. m \in Message /\ (Restoring(m) => Restoring(up[k]))
    BY <1>1, <1>3, RequestFields, MessageTypes DEF Restoring
  <2>3. down' = Append(down, m)
    BY <2>1
  <2> HIDE DEF m
  <2>4. /\ Len(down) \in Nat /\ DOMAIN down = 1 .. Len(down) /\ DOMAIN down' = 1 .. Len(down) + 1
        /\ down'[Len(down) + 1] = m /\ \A j \in DOMAIN down : down'[j] = down[j]
    BY <2>2, <2>3, AppendAt DEF Shapes
  <2>5. \A j \in DOMAIN up' : ~Restoring(up'[j])
    BY <1>2, <1>3
  <2>6. ASSUME NEW j \in DOMAIN down', Restoring(down'[j])
        PROVE  /\ connectionState = "Authenticating"
               /\ \A i \in DOMAIN down' : i < j => down'[i].type # "auth"
    <3>1. CASE j \in DOMAIN down
      BY <2>4, <2>6, <3>1 DEF RestoreFirst
    <3>2. CASE j \notin DOMAIN down
      <4>1. j = Len(down) + 1 /\ Restoring(up[k])
        BY <2>2, <2>4, <2>6, <3>2
      <4> QED
        BY <2>4, <4>1 DEF RestoreFirst
    <3> QED
      BY <3>1, <3>2
  <2> QED
    BY <1>1, <2>5, <2>6 DEF RestoreFirst, Restoring
<1>4. CASE up[k].type # "auth"
  <2>1. down' = down \/ \E m \in Message : m.type # "auth" /\ down' = Append(down, m)
    <3>1. CASE up[k].type = "put"
      <4>1. up[k].put \in Puts /\ down' = Append(down, [type |-> "put", put |-> up[k].put])
        BY <3>1, HandledRequest
      <4> QED
        BY <4>1, MessageTypes
    <3>2. CASE up[k].type # "put"
      BY <1>4, <3>2, HandledRequest
    <3> QED
      BY <3>1, <3>2
  <2>2. CASE down' = down
    BY <1>1, <1>2, <2>2 DEF RestoreFirst, Restoring
  <2>3. ASSUME NEW m \in Message, m.type # "auth", down' = Append(down, m) PROVE RestoreFirst'
    BY <1>1, <1>2, <2>3, OrderAnswered
  <2> QED
    BY <2>1, <2>2, <2>3
<1> QED
  BY <1>3, <1>4

(* What a restored connection sends. *)
LEMMA RestoredAt ==
  ASSUME Shapes, RestoreState(up)
  PROVE  \E n, l, c \in Nat, ps \in Enumerations(outstandingPuts) :
           /\ DOMAIN up = 1 .. n /\ DOMAIN up' = 1 .. n + l + c
           /\ Ascending(ps) /\ DOMAIN ps = 1 .. c
           /\ \A j \in 1 .. n : up'[j] = up[j]
           /\ \A j \in n + 1 .. n + l : up'[j].type = "listen"
           /\ \A j \in n + l + 1 .. n + l + c : j - n - l \in 1 .. c /\ up'[j] = Put(ps[j - n - l])
<1>1. PICK qs \in Enumerations(Listening), ps \in Enumerations(outstandingPuts) :
        Ascending(ps) /\ up' = up \o Listens(qs) \o PutRequests(ps)
  BY DEF RestoreState
<1> outstandingPuts \in SUBSET Puts /\ up \in Seq(Request)
  BY DEF Shapes
<1> DEFINE L == Listens(qs)
           P == PutRequests(ps)
           c == Cardinality(outstandingPuts)
<1>2. L \in Seq(Request) /\ \A j \in 1 .. Len(L) : L[j].type = "listen"
  <2>1. /\ L \in Seq(Request) /\ Len(L) = Cardinality(Listening)
        /\ \A j \in 1 .. Cardinality(Listening) : L[j] = Listen(qs[j], listens[qs[j]])
    BY ListensType
  <2>2. \A q, spec : Listen(q, spec).type = "listen"
    BY DEF Listen
  <2> HIDE DEF L
  <2> QED
    BY <2>1, <2>2
<1>3. P \in Seq(Request) /\ Len(P) = c /\ \A j \in 1 .. c : P[j] = Put(ps[j])
  BY PutRequestsType
<1>4. c \in Nat /\ DOMAIN ps = 1 .. c
  BY FinitePuts DEF Enumerations
<1>5. up' = (up \o L) \o P
  BY <1>1
<1> HIDE DEF L, P, c
<1>6. /\ up \o L \in Seq(Request) /\ Len(up \o L) = Len(up) + Len(L)
      /\ Len(up) \in Nat /\ Len(L) \in Nat
      /\ \A j \in 1 .. Len(up) : (up \o L)[j] = up[j]
      /\ \A j \in 1 .. Len(L) : (up \o L)[Len(up) + j] = L[j]
  BY <1>2, ConcatAt
<1>7. /\ up' \in Seq(Request) /\ Len(up') = Len(up) + Len(L) + c
      /\ \A j \in 1 .. Len(up) + Len(L) : up'[j] = (up \o L)[j]
      /\ \A j \in 1 .. c : up'[Len(up) + Len(L) + j] = P[j]
  <2> DEFINE V == up \o L
  <2>1. V \in Seq(Request) /\ Len(V) = Len(up) + Len(L) /\ up' = V \o P
    BY <1>5, <1>6
  <2>2. \A j \in 1 .. Len(V) : up'[j] = V[j]
    <3> HIDE DEF V
    <3> QED
      BY <1>3, <2>1, ConcatAt
  <2>3. up' \in Seq(Request) /\ Len(up') = Len(V) + c /\ \A j \in 1 .. c : up'[Len(V) + j] = P[j]
    <3> HIDE DEF V
    <3>0. V \in Seq(Request) /\ P \in Seq(Request)
      BY <1>3, <2>1
    <3>1. /\ V \o P \in Seq(Request) /\ Len(V \o P) = Len(V) + Len(P)
          /\ \A j \in 1 .. Len(P) : (V \o P)[Len(V) + j] = P[j]
      BY <3>0, ConcatAt
    <3>2. up' = V \o P /\ Len(P) = c
      BY <1>3, <2>1
    <3> QED
      BY <3>1, <3>2
  <2> QED
    BY <2>1, <2>2, <2>3
<1> DEFINE n == Len(up)
           l == Len(L)
<1>8. n \in Nat /\ l \in Nat /\ DOMAIN up = 1 .. n /\ DOMAIN up' = 1 .. n + l + c
  BY <1>6, <1>7
<1>9. \A j \in 1 .. n : up'[j] = up[j]
  <2>1. \A j \in 1 .. n : j \in 1 .. n + l
    BY <1>6
  <2> QED
    BY <1>6, <1>7, <2>1
<1>10. ASSUME NEW j \in n + 1 .. n + l PROVE up'[j].type = "listen"
  <2>1. j - n \in 1 .. l /\ n + (j - n) = j /\ j \in 1 .. n + l
    BY <1>6
  <2>2. up'[j] = L[j - n]
    BY <1>6, <1>7, <2>1
  <2> QED
    BY <1>2, <2>1, <2>2
<1>11. ASSUME NEW j \in n + l + 1 .. n + l + c
       PROVE  j - n - l \in 1 .. c /\ up'[j] = Put(ps[j - n - l])
  <2>1. j - n - l \in 1 .. c /\ n + l + (j - n - l) = j
    BY <1>4, <1>6
  <2>2. up'[j] = P[j - n - l]
    BY <1>7, <2>1
  <2> QED
    BY <1>3, <2>1, <2>2
<1> HIDE DEF n, l
<1> QED
  BY <1>1, <1>4, <1>8, <1>9, <1>10, <1>11

LEMMA RestoredMembers ==
  ASSUME Shapes, RestoreState(up)
  PROVE  \A r \in Members(up)' : r \in Members(up) \/ r.type \in {"listen", "put"}
<1>1. PICK n \in Nat, l \in Nat, c \in Nat, ps \in Enumerations(outstandingPuts) :
           /\ DOMAIN up = 1 .. n /\ DOMAIN up' = 1 .. n + l + c
           /\ \A j \in 1 .. n : up'[j] = up[j]
           /\ \A j \in n + 1 .. n + l : up'[j].type = "listen"
           /\ \A j \in n + l + 1 .. n + l + c : up'[j] = Put(ps[j - n - l])
  BY RestoredAt
<1>2. ASSUME NEW j \in DOMAIN up' PROVE up'[j] \in Members(up) \/ up'[j].type \in {"listen", "put"}
  <2>1. j \in 1 .. n \/ j \in n + 1 .. n + l \/ j \in n + l + 1 .. n + l + c
    BY <1>1
  <2>2. \A i : Put(i).type = "put"
    BY DEF Put
  <2>3. CASE j \in 1 .. n
    BY <1>1, <2>3 DEF Members
  <2>4. CASE j \in n + l + 1 .. n + l + c
    <3>1. up'[j] = Put(ps[j - n - l])
      BY <1>1, <2>4
    <3> QED
      BY <2>2, <3>1
  <2> QED
    BY <1>1, <2>1, <2>3, <2>4
<1> QED
  BY <1>2 DEF Members

LEMMA WireClosed ==
  ASSUME Shapes, WireOpen, realtime # "connected"
  PROVE  up = <<>> /\ down = <<>> /\ Members(up) = {} /\ Members(down) = {}
BY DEF WireOpen, Members

LEMMA DisconnectOrder ==
  ASSUME NEW reasons, NEW force, OnDisconnect(reasons, force)
  PROVE  RestoreFirst'
BY OrderClosed DEF OnDisconnect

LEMMA InterruptOrder ==
  ASSUME Shapes, WireOpen, NEW reason, InterruptForReason(reason)
  PROVE  RestoreFirst'
<1>1. CASE OnDisconnect(interruptReasons \cup {reason}, forceAuthTokenRefresh)
  BY <1>1, DisconnectOrder
<1>2. CASE realtime = "none" /\ UNCHANGED <<up, down>>
  BY <1>2, WireClosed, OrderClosed
<1> QED
  BY <1>1, <1>2 DEF InterruptForReason, Interrupted

LEMMA RepoOrder ==
  ASSUME Shapes, RestoreFirst, Repo
  PROVE  RestoreFirst'
<1>1. CASE ResumeForReason("waiting_for_open")
  BY <1>1, OrderUnchanged DEF ResumeForReason
<1>2. ASSUME NEW q \in Queries, ListenTo(q) PROVE RestoreFirst'
  <2> DEFINE r == Listen(q, listenCalls + 1)
  <2>1. r \in Request /\ ~Restoring(r)
    BY <1>2, RequestTypes DEF ListenTo, Listen, Restoring
  <2>2. (up' = up \/ up' = Append(up, r)) /\ UNCHANGED <<connectionState, down>>
    BY <1>2 DEF ListenTo, library
  <2> HIDE DEF r
  <2> QED
    BY <2>1, <2>2, OrderSent
<1>3. ASSUME NEW q \in Queries, Unlisten(q) PROVE RestoreFirst'
  <2> DEFINE r == [type |-> "unlisten", query |-> q]
  <2>1. r \in Request /\ ~Restoring(r)
    BY RequestTypes DEF Restoring
  <2>2. (up' = up \/ up' = Append(up, r)) /\ UNCHANGED <<connectionState, down>>
    BY <1>3 DEF Unlisten, library
  <2> HIDE DEF r
  <2> QED
    BY <2>1, <2>2, OrderSent
<1>4. CASE PutData
  <2> DEFINE r == Put(putCounter + 1)
  <2>1. r \in Request /\ ~Restoring(r)
    BY <1>4, RequestTypes DEF PutData, Put, Restoring
  <2>2. (up' = up \/ up' = Append(up, r)) /\ UNCHANGED <<connectionState, down>>
    BY <1>4 DEF PutData, library
  <2> HIDE DEF r
  <2> QED
    BY <2>1, <2>2, OrderSent
<1> QED
  BY <1>1, <1>2, <1>3, <1>4 DEF Repo

(* At the head of the messages, what restores the state is the only one;   *)
(* behind another authentication there is none.                            *)
LEMMA AuthTaken ==
  ASSUME Shapes, RestoreFirst, OnAuth, down' = Tail(down)
  PROVE  /\ Restoring(Head(down)) => connectionState = "Authenticating"
         /\ \A r \in Members(up) \cup Members(down)' : ~Restoring(r)
<1>1. /\ Len(down) \in Nat /\ Len(down) > 0 /\ Head(down) = down[1] /\ DOMAIN down = 1 .. Len(down)
      /\ DOMAIN down' = 1 .. Len(down) - 1
      /\ \A j \in 1 .. Len(down) - 1 : down'[j] = down[j + 1]
  BY TailAt DEF Shapes, OnAuth, Receive
<1>2. 1 \in DOMAIN down /\ down[1].type = "auth"
  BY <1>1 DEF OnAuth, Receive
<1>3. \A j \in DOMAIN up : ~Restoring(up[j])
  BY <1>2 DEF RestoreFirst
<1>4. ASSUME NEW j \in DOMAIN down' PROVE ~Restoring(down'[j])
  <2>1. j + 1 \in DOMAIN down /\ 1 < j + 1 /\ down'[j] = down[j + 1]
    BY <1>1
  <2> QED
    BY <1>2, <2>1 DEF RestoreFirst
<1> QED
  BY <1>1, <1>2, <1>3, <1>4 DEF RestoreFirst, Members

LEMMA QueueOrder ==
  ASSUME Shapes, ControlInv, RestoreFirst, Queue
  PROVE  RestoreFirst'
<1> Shapes /\ StatesAgree /\ WireOpen /\ FetchAgrees
  BY DEF ControlInv
<1>1. CASE RunRetry
  <2>1. realtime = "none" /\ UNCHANGED <<up, down>>
    BY <1>1 DEF RunRetry, StatesAgree
  <2> QED
    BY <2>1, WireClosed, OrderClosed
<1>2. CASE RefreshAuthToken
  <2>1. UNCHANGED <<connectionState, down>>
    BY <1>2 DEF RefreshAuthToken
  <2>2. CASE up' = up
    BY <2>1, <2>2, OrderUnchanged
  <2>3. CASE up' = Append(up, [type |-> "unauth"])
    BY <2>1, <2>3, RequestTypes, OrderSent DEF Restoring
  <2>4. CASE authToken' # NoToken /\ up' = Append(up, Auth(authToken', FALSE))
    <3> DEFINE r == Auth(authToken', FALSE)
    <3>1. authToken' \in Token
      BY <1>2, <2>4, HeadEvent, EventFields DEF RefreshAuthToken, MaybeToken
    <3>2. r \in Request /\ ~Restoring(r) /\ up' = Append(up, r)
      BY <2>4, <3>1, RequestTypes DEF Auth, Restoring
    <3> HIDE DEF r
    <3> QED
      BY <2>1, <3>2, OrderSent
  <2> QED
    BY <1>2, <2>2, <2>3, <2>4 DEF RefreshAuthToken
<1>3. CASE OnFetch
  <2>1. UNCHANGED <<up, down>>
    BY <1>3 DEF OnFetch
  <2>2. CASE UNCHANGED connectionState
    BY <2>1, <2>2, OrderUnchanged
  <2>3. CASE connectionState' # connectionState
    <3>1. Head(authQueue) \in Members(authQueue) /\ Head(authQueue).attempt = attempt
          /\ Head(authQueue).type # "change"
      BY <1>3, <2>3, HeadEvent DEF OnFetch
    <3>2. realtime = "none"
      BY <3>1 DEF FetchAgrees, CurrentFetchOut
    <3> QED
      BY <2>1, <3>2, WireClosed, OrderClosed
  <2> QED
    BY <2>2, <2>3
<1>4. CASE OnReady
  <2>1. up = <<>> /\ down' = <<>> /\ Members(up) = {} /\ Members(down)' = {}
    BY <1>4, WireClosed DEF OnReady, Members
  <2>2. CASE authToken = NoToken
    <3>1. RestoreState(up)
      BY <1>4, <2>2 DEF OnReady
    <3>2. \A r \in Members(up)' : ~Restoring(r)
      BY <2>1, <3>1, RestoredMembers DEF Restoring
    <3> QED
      BY <2>1, <3>2, OrderNone
  <2>3. CASE authToken # NoToken
    <3> DEFINE r == Auth(authToken, TRUE)
    <3>1. up' = Append(up, r) /\ connectionState' = "Authenticating"
      BY <1>4, <2>3 DEF OnReady
    <3>2. r \in Request
      BY <2>3, RequestTypes DEF Auth, Shapes, MaybeToken
    <3> HIDE DEF r
    <3>3. DOMAIN up' = 1 .. 1 /\ DOMAIN down' = {}
      <4>1. DOMAIN Append(up, r) = 1 .. Len(up) + 1
        BY <3>2, AppendAt DEF Shapes
      <4> QED
        BY <2>1, <3>1, <4>1
    <3> QED
      BY <3>1, <3>3 DEF RestoreFirst
  <2> QED
    BY <2>2, <2>3
<1>5. CASE OnAuth
  <2>1. CASE OnDisconnect(interruptReasons, TRUE)
    BY <2>1, DisconnectOrder
  <2>2. CASE RestoreState(up) /\ down' = Tail(down)
    <3>1. \A r \in Members(up)' : r \in Members(up) \/ ~Restoring(r)
      BY <2>2, RestoredMembers DEF Restoring
    <3> QED
      BY <1>5, <2>2, <3>1, AuthTaken, OrderNone
  <2>3. CASE down' = Tail(down) /\ UNCHANGED up
    <3>1. Members(up)' = Members(up)
      BY <2>3 DEF Members
    <3> QED
      BY <1>5, <2>3, <3>1, AuthTaken, OrderNone
  <2> QED
    BY <1>5, <2>1, <2>2, <2>3 DEF OnAuth
<1>6. CASE OnPut \/ OnListen \/ OnListenRevoked
  <2>1. down # <<>> /\ down' = Tail(down) /\ UNCHANGED <<connectionState, up>>
    BY <1>6 DEF OnPut, OnListen, OnListenRevoked, Receive, library
  <2> QED
    BY <2>1, OrderTaken
<1>7. CASE OnClose
  BY <1>7, DisconnectOrder DEF OnClose
<1>8. CASE OnShutdown
  BY <1>8, InterruptOrder DEF OnShutdown
<1> QED
  BY <1>1, <1>2, <1>3, <1>4, <1>5, <1>6, <1>7, <1>8 DEF Queue

LEMMA TroubleOrder ==
  ASSUME Shapes, WireOpen, RestoreFirst, Trouble
  PROVE  RestoreFirst'
<1>1. CASE Drop
  BY <1>1, DisconnectOrder DEF Drop
<1>2. CASE InterruptForReason("repo_interrupt")
  BY <1>2, InterruptOrder
<1>3. CASE \/ Wake \/ PurgeOutstandingWrites \/ ResumeForReason("repo_interrupt")
           \/ (\E f \in fetches : TokenFetchFails(f))
           \/ (\E token \in MaybeToken : ChangeAccount(token)) \/ InvalidateTokens
  <2>1. UNCHANGED <<connectionState, up, down>>
    BY <1>3 DEF Wake, PurgeOutstandingWrites, ResumeForReason, TokenFetchFails, ChangeAccount,
                InvalidateTokens, library
  <2> QED
    BY <2>1, OrderUnchanged
<1>4. ASSUME NEW m \in Pushes, ServerPush(m) PROVE RestoreFirst'
  <2>1. m \in Message /\ m.type # "auth" /\ down' = Append(down, m)
        /\ UNCHANGED <<connectionState, up>>
    BY <1>4, MessageTypes DEF ServerPush, Pushes, library
  <2> QED
    BY <2>1, OrderAnswered DEF RestoreFirst
<1> QED
  BY <1>1, <1>2, <1>3, <1>4 DEF Trouble

LEMMA OrderStep ==
  ASSUME Shapes, ControlInv, RestoreFirst, [Next]_vars
  PROVE  RestoreFirst'
<1>1. CASE UNCHANGED vars \/ (\E f \in fetches : TokenFetched(f))
  BY <1>1, OrderUnchanged DEF TokenFetched, vars, library
<1> QED
  BY <1>1, RepoOrder, QueueOrder, OrderHandled, TroubleOrder DEF Next, Service, ControlInv

-----------------------------------------------------------------------------
(***************************************************************************)
(* Sent transactions are cancelled before the state is restored.           *)
(***************************************************************************)
LEMMA MadeStep ==
  ASSUME Shapes, SentMade, [Next]_vars
  PROVE  SentMade'
<1>1. putCounter \in Nat /\ putCounter + 1 > putCounter
  BY BoundsAssumption DEF Shapes
<1>2. CASE PutData
  <2>1. /\ putCounter' = putCounter + 1 /\ outstandingPuts' = outstandingPuts \cup {putCounter + 1}
        /\ sent' \subseteq sent \cup {putCounter + 1}
    BY <1>2 DEF PutData
  <2>2. \A i \in sent \cup outstandingPuts : i \in Nat
    BY PutsRange DEF Shapes
  <2> QED
    BY <1>1, <2>1, <2>2 DEF SentMade
<1>3. CASE /\ putCounter' = putCounter /\ outstandingPuts' \subseteq outstandingPuts
           /\ sent' \subseteq sent \cup outstandingPuts
  BY <1>3 DEF SentMade
<1>4. CASE Repo
  BY <1>2, <1>3, <1>4 DEF Repo, ResumeForReason, ListenTo, Unlisten, requests
<1>5. CASE Queue
  <2>1. CASE RunRetry \/ RefreshAuthToken \/ OnFetch \/ OnListenRevoked \/ OnListen \/ OnPut
    BY <1>3, <2>1 DEF RunRetry, RefreshAuthToken, OnFetch, OnListenRevoked, OnListen, OnPut, requests
  <2>2. CASE OnReady \/ OnAuth \/ OnClose \/ OnShutdown
    BY <1>3, <2>2 DEF OnReady, OnAuth, OnClose, OnShutdown, InterruptForReason, Interrupted,
                      OnDisconnect, RestoreState, requests
  <2> QED
    BY <1>5, <2>1, <2>2 DEF Queue
<1>6. CASE Service \/ UNCHANGED vars
  BY <1>3, <1>6 DEF Service, TokenFetched, ServerHandle, vars, requests
<1>7. CASE Trouble
  BY <1>3, <1>7 DEF Trouble, Drop, Wake, PurgeOutstandingWrites, InterruptForReason, Interrupted,
                    OnDisconnect, ResumeForReason, TokenFetchFails, ChangeAccount,
                    InvalidateTokens, ServerPush, requests
<1> QED
  BY <1>4, <1>5, <1>6, <1>7 DEF Next

LEMMA CancelledKept ==
  ASSUME CancelledFirst, connectionState' # "Connected" => connectionState # "Connected",
         SentTransactions' \subseteq SentTransactions
  PROVE  CancelledFirst'
BY DEF CancelledFirst

LEMMA CancelledDisconnect ==
  ASSUME NEW reasons, NEW force, OnDisconnect(reasons, force)
  PROVE  CancelledFirst'
BY DEF OnDisconnect, SentTransactions, CancelledFirst

LEMMA CancelledInterrupt ==
  ASSUME CancelledFirst, StatesAgree, NEW reason, InterruptForReason(reason)
  PROVE  CancelledFirst'
<1>1. CASE OnDisconnect(interruptReasons \cup {reason}, forceAuthTokenRefresh)
  BY <1>1, CancelledDisconnect
<1>2. CASE realtime = "none" /\ UNCHANGED requests
  <2>1. connectionState # "Connected" /\ SentTransactions' = SentTransactions
    BY <1>2 DEF StatesAgree, SentTransactions, requests
  <2> QED
    BY <2>1, CancelledKept
<1> QED
  BY <1>1, <1>2 DEF InterruptForReason, Interrupted

LEMMA CancelledStep ==
  ASSUME Shapes, ControlInv, SentMade, CancelledFirst, [Next]_vars
  PROVE  CancelledFirst'
<1> StatesAgree /\ FetchAgrees
  BY DEF ControlInv
<1>1. CASE UNCHANGED <<connectionState, outstandingPuts, sent>>
  BY <1>1, CancelledKept DEF SentTransactions
<1>2. CASE PutData
  <2>1. putCounter + 1 \notin sent
    BY PutsRange, BoundsAssumption DEF Shapes, SentMade
  <2>2. UNCHANGED connectionState /\ outstandingPuts' = outstandingPuts \cup {putCounter + 1}
        /\ (connectionState # "Connected" => sent' = sent)
    BY <1>2 DEF PutData, canSendWrites, library
  <2> QED
    BY <2>1, <2>2 DEF CancelledFirst, SentTransactions
<1>3. CASE Repo
  BY <1>1, <1>2, <1>3 DEF Repo, ResumeForReason, ListenTo, Unlisten, requests, library
<1>4. CASE Queue
  <2>1. CASE RunRetry
    <3>1. connectionState # "Connected" /\ UNCHANGED requests
      BY <2>1 DEF RunRetry, StatesAgree
    <3> QED
      BY <3>1, CancelledKept DEF SentTransactions, requests
  <2>2. CASE RefreshAuthToken \/ OnListen \/ OnListenRevoked
    BY <1>1, <2>2 DEF RefreshAuthToken, OnListen, OnListenRevoked, requests, library
  <2>3. CASE OnFetch
    <3>1. CASE connectionState' # connectionState
      <4>1. Head(authQueue) \in Members(authQueue) /\ Head(authQueue).attempt = attempt
            /\ Head(authQueue).type # "change" /\ UNCHANGED requests
        BY <2>3, <3>1, HeadEvent DEF OnFetch
      <4>2. connectionState # "Connected"
        BY <4>1 DEF FetchAgrees, CurrentFetchOut, StatesAgree
      <4> QED
        BY <4>1, <4>2, CancelledKept DEF SentTransactions, requests
    <3>2. CASE UNCHANGED connectionState
      BY <1>1, <2>3, <3>2 DEF OnFetch, requests
    <3> QED
      BY <3>1, <3>2
  <2>4. CASE OnReady
    <3>1. connectionState # "Connected"
      BY <2>4 DEF OnReady, StatesAgree
    <3>2. connectionState' = "Connected" \/ UNCHANGED <<outstandingPuts, sent>>
      BY <2>4 DEF OnReady, RestoreState
    <3> QED
      BY <3>1, <3>2 DEF CancelledFirst, SentTransactions
  <2>5. CASE OnAuth
    <3>1. connectionState' = "Connected" \/ OnDisconnect(interruptReasons, TRUE)
      BY <2>5 DEF OnAuth, RestoreState
    <3> QED
      BY <3>1, CancelledDisconnect DEF CancelledFirst
  <2>6. CASE OnPut
    <3>1. UNCHANGED <<connectionState, sent>> /\ outstandingPuts' \subseteq outstandingPuts
      BY <2>6 DEF OnPut, library
    <3> QED
      BY <3>1, CancelledKept DEF SentTransactions
  <2>7. CASE OnClose
    BY <2>7, CancelledDisconnect DEF OnClose
  <2>8. CASE OnShutdown
    BY <2>8, CancelledInterrupt DEF OnShutdown
  <2> QED
    BY <1>4, <2>1, <2>2, <2>3, <2>4, <2>5, <2>6, <2>7, <2>8 DEF Queue
<1>5. CASE Service \/ UNCHANGED vars
  BY <1>1, <1>5 DEF Service, TokenFetched, ServerHandle, vars, requests, library
<1>6. CASE Trouble
  <2>1. CASE Drop
    BY <2>1, CancelledDisconnect DEF Drop
  <2>2. CASE InterruptForReason("repo_interrupt")
    BY <2>2, CancelledInterrupt
  <2>3. CASE PurgeOutstandingWrites
    <3>1. UNCHANGED <<connectionState, sent>> /\ outstandingPuts' \subseteq outstandingPuts
      BY <2>3 DEF PurgeOutstandingWrites, library
    <3> QED
      BY <3>1, CancelledKept DEF SentTransactions
  <2>4. CASE \/ Wake \/ ResumeForReason("repo_interrupt")
             \/ (\E f \in fetches : TokenFetchFails(f))
             \/ (\E token \in MaybeToken : ChangeAccount(token)) \/ InvalidateTokens
             \/ (\E m \in Pushes : ServerPush(m))
    BY <1>1, <2>4 DEF Wake, ResumeForReason, TokenFetchFails, ChangeAccount, InvalidateTokens,
                      ServerPush, requests, library
  <2> QED
    BY <1>6, <2>1, <2>2, <2>3, <2>4 DEF Trouble
<1> QED
  BY <1>3, <1>4, <1>5, <1>6 DEF Next

-----------------------------------------------------------------------------
(***************************************************************************)
(* A write of a transaction is on its way at most once.                    *)
(***************************************************************************)
LEMMA TransactionsRange == \A i \in Transactions : i \in Puts /\ i \in Nat
BY BoundsAssumption DEF Puts

LEMMA OnceClosed ==
  ASSUME TransactionsOnce, up' = <<>>, UNCHANGED <<sent, applied>>
  PROVE  TransactionsOnce'
<1>1. DOMAIN up' = {}
  OBVIOUS
<1> QED
  BY <1>1 DEF TransactionsOnce, SentOnce

LEMMA OnceUnchanged ==
  ASSUME TransactionsOnce, UNCHANGED <<up, sent, applied>>
  PROVE  TransactionsOnce'
BY DEF TransactionsOnce, SentOnce, IsPut

LEMMA OnceSent ==
  ASSUME Shapes, TransactionsOnce, NEW r \in Request, r.type # "put",
         up' = up \/ up' = Append(up, r), UNCHANGED <<sent, applied>>
  PROVE  TransactionsOnce'
<1>1. CASE up' = up
  BY <1>1, OnceUnchanged
<1>2. CASE up' = Append(up, r)
  <2>1. /\ Len(up) \in Nat /\ DOMAIN up = 1 .. Len(up) /\ DOMAIN up' = 1 .. Len(up) + 1
        /\ up'[Len(up) + 1] = r /\ \A j \in DOMAIN up : up'[j] = up[j]
    BY <1>2, AppendAt DEF Shapes
  <2>2. ASSUME NEW i \in Transactions, NEW k \in DOMAIN up', IsPut(up'[k], i)
        PROVE  k \in DOMAIN up /\ IsPut(up[k], i)
    BY <2>1, <2>2 DEF IsPut
  <2>3. ASSUME NEW i \in Transactions PROVE SentOnce(i)'
    BY <2>2 DEF TransactionsOnce, SentOnce, IsPut
  <2> QED
    BY <2>3 DEF TransactionsOnce
<1> QED
  BY <1>1, <1>2

LEMMA OncePut ==
  ASSUME Shapes, SentMade, TransactionsOnce, PutData
  PROVE  TransactionsOnce'
<1> DEFINE n == putCounter + 1
           r == Put(n)
<1>1. r \in Request /\ r.type = "put" /\ r.put = n /\ UNCHANGED applied
  BY RequestTypes DEF PutData, Put, server
<1>2. n \notin sent
  BY PutsRange, BoundsAssumption DEF Shapes, SentMade
<1>3. (UNCHANGED <<up, sent>>) \/ (up' = Append(up, r) /\ sent' = sent \cup {n})
  BY DEF PutData
<1> HIDE DEF n, r
<1>4. CASE UNCHANGED <<up, sent>>
  BY <1>1, <1>4, OnceUnchanged
<1>5. CASE up' = Append(up, r) /\ sent' = sent \cup {n}
  <2>1. /\ Len(up) \in Nat /\ DOMAIN up = 1 .. Len(up) /\ DOMAIN up' = 1 .. Len(up) + 1
        /\ up'[Len(up) + 1] = r /\ \A j \in DOMAIN up : up'[j] = up[j]
    BY <1>1, <1>5, AppendAt DEF Shapes
  <2>2. ASSUME NEW i \in Transactions, i # n PROVE SentOnce(i)'
    <3>1. \A k \in DOMAIN up' : IsPut(up'[k], i) => k \in DOMAIN up /\ IsPut(up[k], i)
      BY <1>1, <2>1, <2>2 DEF IsPut
    <3> QED
      BY <1>1, <1>5, <2>2, <3>1 DEF TransactionsOnce, SentOnce, IsPut
  <2>3. ASSUME NEW i \in Transactions, i = n PROVE SentOnce(i)'
    <3>1. applied'[i] = 0 /\ \A k \in DOMAIN up : ~IsPut(up[k], i)
      BY <1>1, <1>2, <2>3 DEF TransactionsOnce, SentOnce
    <3>2. \A k \in DOMAIN up' : IsPut(up'[k], i) => k = Len(up) + 1
      BY <2>1, <3>1 DEF IsPut
    <3>3. i \in sent'
      BY <1>5, <2>3
    <3> QED
      BY <3>1, <3>2, <3>3 DEF SentOnce, IsPut
  <2> QED
    BY <2>2, <2>3 DEF TransactionsOnce
<1> QED
  BY <1>3, <1>4, <1>5

LEMMA OnceHandled ==
  ASSUME Shapes, TransactionsOnce, NEW k \in DOMAIN up, ServerHandle(k)
  PROVE  TransactionsOnce'
<1> DEFINE At(j) == IF j < k THEN j ELSE j + 1
<1>1. up' = Without(up, k) /\ UNCHANGED sent /\ DOMAIN up \subseteq Int
  <2>1. DOMAIN up \subseteq Int
    BY DEF Shapes
  <2> QED
    BY <2>1, HandledRequest DEF requests
<1>2. \A j \in DOMAIN up' : j \in Int /\ At(j) \in DOMAIN up /\ At(j) # k /\ up'[j] = up[At(j)]
  <2>1. DOMAIN up' \subseteq Int
    BY <1>1 DEF Without
  <2> QED
    BY <1>1, <2>1, WithoutAt
<1>3. \A j, h \in DOMAIN up' : At(j) = At(h) => j = h
  <2>1. k \in Int
    BY <1>1
  <2> QED
    BY <1>2, <2>1
<1> HIDE DEF At
<1>4. ASSUME NEW i \in Transactions PROVE SentOnce(i)'
  <2>1. SentOnce(i) /\ i \in Puts /\ applied[i] \in 0 .. 2
    BY TransactionsRange, DownMessages DEF TransactionsOnce
  <2>2. \A j \in DOMAIN up' : IsPut(up'[j], i) => At(j) \in DOMAIN up /\ At(j) # k /\ IsPut(up[At(j)], i)
    BY <1>2 DEF IsPut
  <2>3. CASE IsPut(up[k], i)
    <3>1. applied[i] = 0 /\ i \in sent /\ \A j \in DOMAIN up : IsPut(up[j], i) => j = k
      BY <2>1, <2>3 DEF SentOnce
    <3>2. applied'[i] = 1
      <4>1. up[k].type = "put" /\ up[k].put = i
        BY <2>3 DEF IsPut
      <4>2. applied'[i] = IF applied[i] < 2 THEN applied[i] + 1 ELSE 2
        BY <2>1, <4>1, HandledRequest
      <4> QED
        BY <3>1, <4>2
    <3>3. \A j \in DOMAIN up' : ~IsPut(up'[j], i)
      BY <2>2, <3>1
    <3> QED
      BY <1>1, <3>1, <3>2, <3>3 DEF SentOnce, IsPut
  <2>4. CASE ~IsPut(up[k], i)
    <3>1. applied'[i] = applied[i]
      <4>1. CASE up[k].type = "put"
        BY <2>1, <2>4, <4>1, HandledRequest DEF IsPut
      <4>2. CASE up[k].type # "put"
        BY <4>2, HandledRequest
      <4> QED
        BY <4>1, <4>2
    <3>2. i \notin sent' => applied'[i] = 0 /\ \A j \in DOMAIN up' : ~IsPut(up'[j], i)
      BY <1>1, <2>1, <2>2, <3>1 DEF SentOnce
    <3>3. ASSUME NEW j \in DOMAIN up', IsPut(up'[j], i)
          PROVE  applied'[i] = 0 /\ \A h \in DOMAIN up' : IsPut(up'[h], i) => h = j
      <4>1. /\ applied[i] = 0
            /\ \A h \in DOMAIN up' : IsPut(up'[h], i) => At(h) = At(j)
        BY <2>1, <2>2, <3>3 DEF SentOnce
      <4> QED
        BY <1>3, <3>1, <4>1
    <3> QED
      BY <2>1, <3>1, <3>2, <3>3 DEF SentOnce, IsPut
  <2> QED
    BY <2>3, <2>4
<1> QED
  BY <1>4 DEF TransactionsOnce

(* Writes are sent again when the state is restored, but no transaction.   *)
LEMMA OnceRestored ==
  ASSUME Shapes, TransactionsOnce, CancelledFirst, connectionState # "Connected",
         RestoreState(up), UNCHANGED applied
  PROVE  TransactionsOnce'
<1>1. PICK n \in Nat, l \in Nat, c \in Nat, ps \in Enumerations(outstandingPuts) :
        /\ DOMAIN up = 1 .. n /\ DOMAIN up' = 1 .. n + l + c
        /\ Ascending(ps) /\ DOMAIN ps = 1 .. c
        /\ \A j \in 1 .. n : up'[j] = up[j]
        /\ \A j \in n + 1 .. n + l : up'[j].type = "listen"
        /\ \A j \in n + l + 1 .. n + l + c : j - n - l \in 1 .. c /\ up'[j] = Put(ps[j - n - l])
  BY RestoredAt
<1>2. sent' = sent \cup outstandingPuts
  BY DEF RestoreState
<1>3. \A j \in 1 .. c : ps[j] \in outstandingPuts /\ ps[j] \in Nat
  <2>1. \A j \in 1 .. c : ps[j] \in outstandingPuts
    BY <1>1 DEF Enumerations
  <2> QED
    BY <2>1, PutsRange DEF Shapes
<1>4. \A i : Put(i).type = "put" /\ Put(i).put = i
  BY DEF Put
<1>5. ASSUME NEW i \in Transactions, NEW j \in DOMAIN up', IsPut(up'[j], i)
      PROVE  \/ j \in DOMAIN up /\ IsPut(up[j], i)
             \/ /\ i \in outstandingPuts /\ j \in Int
                /\ j - n - l \in 1 .. c /\ ps[j - n - l] = i
  <2>1. j \in 1 .. n \/ j \in n + 1 .. n + l \/ j \in n + l + 1 .. n + l + c
    BY <1>1
  <2>2. CASE j \in 1 .. n
    BY <1>1, <1>5, <2>2
  <2>3. CASE j \in n + 1 .. n + l
    BY <1>1, <1>5, <2>3 DEF IsPut
  <2>4. CASE j \in n + l + 1 .. n + l + c
    <3>1. j - n - l \in 1 .. c /\ up'[j] = Put(ps[j - n - l])
      BY <1>1, <2>4
    <3>2. ps[j - n - l] = i
      BY <1>4, <1>5, <3>1 DEF IsPut
    <3> QED
      BY <1>3, <2>4, <3>1, <3>2
  <2> QED
    BY <2>1, <2>2, <2>3, <2>4
<1>6. ASSUME NEW i \in Transactions PROVE SentOnce(i)'
  <2>1. SentOnce(i)
    BY DEF TransactionsOnce
  <2>2. CASE i \notin outstandingPuts
    <3>1. \A j \in DOMAIN up' : IsPut(up'[j], i) => j \in DOMAIN up /\ IsPut(up[j], i)
      BY <1>5, <2>2
    <3> QED
      BY <1>2, <2>1, <2>2, <3>1 DEF SentOnce, IsPut
  <2>3. CASE i \in outstandingPuts
    <3>1. i \notin sent
      BY <2>3 DEF CancelledFirst, SentTransactions
    <3>2. applied[i] = 0 /\ \A j \in DOMAIN up : ~IsPut(up[j], i)
      BY <2>1, <3>1 DEF SentOnce
    <3>3. ASSUME NEW j \in DOMAIN up', IsPut(up'[j], i), NEW h \in DOMAIN up', IsPut(up'[h], i)
          PROVE  h = j
      <4>1. /\ j \in Int /\ j - n - l \in 1 .. c /\ ps[j - n - l] = i
            /\ h \in Int /\ h - n - l \in 1 .. c /\ ps[h - n - l] = i
        BY <1>5, <3>2, <3>3
      <4> DEFINE a == j - n - l
                 b == h - n - l
      <4>2. a \in 1 .. c /\ b \in 1 .. c /\ ps[a] = i /\ ps[b] = i
        BY <4>1
      <4>3. a = b
        <5> HIDE DEF a, b
        <5>1. \A x, y \in 1 .. c : x < y => ps[x] < ps[y]
          BY <1>1 DEF Ascending
        <5>2. i \in Nat
          BY TransactionsRange
        <5>3. ~(a < b) /\ ~(b < a)
          BY <4>2, <5>1, <5>2
        <5> QED
          BY <4>2, <5>3
      <4> QED
        BY <4>1, <4>3
    <3>4. i \in sent'
      BY <1>2, <2>3
    <3> QED
      BY <3>2, <3>3, <3>4 DEF SentOnce, IsPut
  <2> QED
    BY <2>2, <2>3
<1> QED
  BY <1>6 DEF TransactionsOnce

LEMMA OnceInterrupt ==
  ASSUME TransactionsOnce, NEW reason, InterruptForReason(reason)
  PROVE  TransactionsOnce'
<1>1. CASE OnDisconnect(interruptReasons \cup {reason}, forceAuthTokenRefresh)
  BY <1>1, OnceClosed DEF InterruptForReason, OnDisconnect
<1>2. CASE UNCHANGED <<requests, up>>
  BY <1>2, OnceUnchanged DEF InterruptForReason, requests
<1> QED
  BY <1>1, <1>2 DEF InterruptForReason, Interrupted

LEMMA OnceRepo ==
  ASSUME Shapes, SentMade, TransactionsOnce, Repo
  PROVE  TransactionsOnce'
<1>1. CASE ResumeForReason("waiting_for_open")
  BY <1>1, OnceUnchanged DEF ResumeForReason, requests, server
<1>2. ASSUME NEW q \in Queries, ListenTo(q) PROVE TransactionsOnce'
  <2> DEFINE r == Listen(q, listenCalls + 1)
  <2>1. r \in Request /\ r.type # "put"
    BY <1>2, RequestTypes DEF ListenTo, Listen
  <2>2. (up' = up \/ up' = Append(up, r)) /\ UNCHANGED <<sent, applied>>
    BY <1>2 DEF ListenTo, server
  <2> HIDE DEF r
  <2> QED
    BY <2>1, <2>2, OnceSent
<1>3. ASSUME NEW q \in Queries, Unlisten(q) PROVE TransactionsOnce'
  <2> DEFINE r == [type |-> "unlisten", query |-> q]
  <2>1. r \in Request /\ r.type # "put"
    BY RequestTypes
  <2>2. (up' = up \/ up' = Append(up, r)) /\ UNCHANGED <<sent, applied>>
    BY <1>3 DEF Unlisten, server
  <2> HIDE DEF r
  <2> QED
    BY <2>1, <2>2, OnceSent
<1> QED
  BY <1>1, <1>2, <1>3, OncePut DEF Repo

LEMMA OnceQueue ==
  ASSUME Shapes, ControlInv, RestoreFirst, CancelledFirst, TransactionsOnce, Queue
  PROVE  TransactionsOnce'
<1>1. CASE \/ RunRetry \/ OnFetch \/ OnPut \/ OnListen \/ OnListenRevoked
  <2>1. UNCHANGED <<up, sent, applied>>
    BY <1>1 DEF RunRetry, OnFetch, OnPut, OnListen, OnListenRevoked, requests, server
  <2> QED
    BY <2>1, OnceUnchanged
<1>2. CASE RefreshAuthToken
  <2>1. UNCHANGED <<sent, applied>>
    BY <1>2 DEF RefreshAuthToken, requests, server
  <2>2. CASE up' = up
    BY <2>1, <2>2, OnceUnchanged
  <2>3. CASE up' = Append(up, [type |-> "unauth"])
    BY <2>1, <2>3, RequestTypes, OnceSent
  <2>4. CASE authToken' # NoToken /\ up' = Append(up, Auth(authToken', FALSE))
    <3> DEFINE r == Auth(authToken', FALSE)
    <3>1. authToken' \in Token
      BY <1>2, <2>4, HeadEvent, EventFields DEF RefreshAuthToken, MaybeToken
    <3>2. r \in Request /\ r.type # "put" /\ up' = Append(up, r)
      BY <2>4, <3>1, RequestTypes DEF Auth
    <3> HIDE DEF r
    <3> QED
      BY <2>1, <3>2, OnceSent
  <2> QED
    BY <1>2, <2>2, <2>3, <2>4 DEF RefreshAuthToken
<1>3. CASE OnReady
  <2>1. connectionState # "Connected" /\ UNCHANGED applied
    BY <1>3 DEF OnReady, ControlInv, StatesAgree, server
  <2>2. CASE authToken = NoToken
    BY <1>3, <2>1, <2>2, OnceRestored DEF OnReady
  <2>3. CASE authToken # NoToken
    <3> DEFINE r == Auth(authToken, TRUE)
    <3>1. up' = Append(up, r) /\ UNCHANGED sent
      BY <1>3, <2>3 DEF OnReady
    <3>2. r \in Request /\ r.type # "put"
      BY <2>3, RequestTypes DEF Auth, Shapes, MaybeToken
    <3> HIDE DEF r
    <3> QED
      BY <2>1, <3>1, <3>2, OnceSent
  <2> QED
    BY <2>2, <2>3
<1>4. CASE OnAuth
  <2>1. UNCHANGED applied
    BY <1>4 DEF OnAuth
  <2>2. CASE OnDisconnect(interruptReasons, TRUE)
    BY <2>1, <2>2, OnceClosed DEF OnDisconnect
  <2>3. CASE Restoring(Head(down)) /\ RestoreState(up) /\ down' = Tail(down)
    <3>1. connectionState = "Authenticating"
      BY <1>4, <2>3, AuthTaken
    <3> QED
      BY <2>1, <2>3, <3>1, OnceRestored
  <2>4. CASE UNCHANGED <<up, sent>>
    BY <2>1, <2>4, OnceUnchanged
  <2> QED
    BY <1>4, <2>2, <2>3, <2>4 DEF OnAuth, Receive, Restoring, requests
<1>5. CASE OnClose
  BY <1>5, OnceClosed DEF OnClose, OnDisconnect
<1>6. CASE OnShutdown
  BY <1>6, OnceInterrupt DEF OnShutdown
<1> QED
  BY <1>1, <1>2, <1>3, <1>4, <1>5, <1>6 DEF Queue

LEMMA OnceTrouble ==
  ASSUME TransactionsOnce, Trouble
  PROVE  TransactionsOnce'
<1>1. CASE Drop
  BY <1>1, OnceClosed DEF Drop, OnDisconnect
<1>2. CASE InterruptForReason("repo_interrupt")
  BY <1>2, OnceInterrupt
<1>3. CASE \/ Wake \/ PurgeOutstandingWrites \/ ResumeForReason("repo_interrupt")
           \/ (\E f \in fetches : TokenFetchFails(f))
           \/ (\E token \in MaybeToken : ChangeAccount(token)) \/ InvalidateTokens
           \/ (\E m \in Pushes : ServerPush(m))
  <2>1. UNCHANGED <<up, sent, applied>>
    BY <1>3 DEF Wake, PurgeOutstandingWrites, ResumeForReason, TokenFetchFails, ChangeAccount,
                InvalidateTokens, ServerPush, requests, server
  <2> QED
    BY <2>1, OnceUnchanged
<1> QED
  BY <1>1, <1>2, <1>3 DEF Trouble

LEMMA OnceStep ==
  ASSUME Shapes, ControlInv, SentMade, RestoreFirst, CancelledFirst, TransactionsOnce, [Next]_vars
  PROVE  TransactionsOnce'
<1>1. CASE UNCHANGED vars \/ (\E f \in fetches : TokenFetched(f))
  BY <1>1, OnceUnchanged DEF TokenFetched, vars, requests, server
<1> QED
  BY <1>1, OnceRepo, OnceQueue, OnceHandled, OnceTrouble DEF Next, Service

-----------------------------------------------------------------------------
LEMMA ReportInit ==
  ASSUME Init
  PROVE  ReportInv
<1>1. /\ up = <<>> /\ down = <<>> /\ putsToAck = <<>> /\ sent = {} /\ outstandingPuts = {}
      /\ \A i \in Puts : completed[i] = "no" /\ applied[i] = 0
  BY DEF Init
<1>2. Members(down) = {} /\ Members(putsToAck) = {} /\ DOMAIN up = {} /\ DOMAIN down = {}
  BY <1>1 DEF Members
<1>3. AnsweredApplied /\ ReportedApplied /\ SentMade /\ RestoreFirst /\ CancelledFirst
  BY <1>1, <1>2 DEF AnsweredApplied, ReportedApplied, SentMade, RestoreFirst, CancelledFirst,
                    SentTransactions
<1>4. TransactionsOnce
  BY <1>1, <1>2, TransactionsRange DEF TransactionsOnce, SentOnce
<1> QED
  BY <1>3, <1>4 DEF ReportInv

LEMMA ReportStep ==
  ASSUME Shapes, ControlInv, ReportInv, [Next]_vars
  PROVE  ReportInv'
BY AnswersStep, OrderStep, MadeStep, CancelledStep, OnceStep DEF ReportInv

(* A completion says ok only for a write the server applied, and no write  *)
(* of a transaction is applied twice, however often the connection is lost *)
(* and its state restored (restoreState, cancelSentTransactions, sendPut). *)
THEOREM AppliedIsReported == Spec => []AppliedAsReported
<1>1. ReportInv => AppliedAsReported
  BY DEF ReportInv, ReportedApplied, TransactionsOnce, SentOnce, AppliedAsReported
<1> QED
  BY <1>1, ControlInductive, ReportInit, ReportStep, PTL DEF Spec

-----------------------------------------------------------------------------
(***************************************************************************)
(* The session of the server is that of the signed-in user.                *)
(***************************************************************************)

(* The token t is of the account a. *)
SameUser(t, a) == IF a = NoToken THEN t = NoToken ELSE t # NoToken /\ t.user = a.user

NoChange(s) == \A k \in DOMAIN s : s[k].type # "change"

(* The last change that waits, and what was fetched after it for a user    *)
(* who is still there, is of the account.                                  *)
Current(e) == e.type = "change" \/ (e.type = "fetched" /\ ~e.late)

EventsAgree(s, a) ==
  \A k \in DOMAIN s :
    Current(s[k]) /\ (\A j \in DOMAIN s : k < j => s[j].type # "change") => SameUser(s[k].token, a)

TokensAgree ==
  /\ EventsAgree(authQueue, account)
  /\ realtime # "none" /\ ~outpaced /\ NoChange(authQueue) => SameUser(authToken, account)

(* The last request that says who the user is says what authToken does;    *)
(* when it was handled, and not refused, the session does.                 *)
Authorizing(r) == r.type \in {"auth", "unauth"}
TokenOf(r) == IF r.type = "auth" THEN r.token ELSE NoToken
Closing(m) == m.type = "auth_revoked" \/ (m.type = "auth" /\ ~m.ok)

LastSays(s, token) ==
  \A k \in DOMAIN s :
    Authorizing(s[k]) /\ (\A j \in DOMAIN s : k < j => ~Authorizing(s[j])) => TokenOf(s[k]) = token

Unsaid(s) == \A r \in Members(s) : ~Authorizing(r)
Unharmed(s) == \A m \in Members(s) : ~Closing(m)

SessionFollows ==
  /\ realtime # "connected" => session = NoToken
  /\ LastSays(up, authToken)
  /\ realtime = "connected" /\ Unsaid(up) /\ Unharmed(down) => session = authToken

SessionInv == TokensAgree /\ SessionFollows

(* What waits after an event was added, or the first was taken. *)
LEMMA EventsAppended ==
  ASSUME NEW s \in Seq(AuthEvent), NEW e \in AuthEvent, NEW a, NEW b,
         e.type # "change" => EventsAgree(s, a) /\ b = a,
         Current(e) => SameUser(e.token, b)
  PROVE  /\ EventsAgree(Append(s, e), b)
         /\ NoChange(Append(s, e)) <=> NoChange(s) /\ e.type # "change"
<1>1. /\ Len(s) \in Nat /\ DOMAIN s = 1 .. Len(s) /\ DOMAIN Append(s, e) = 1 .. Len(s) + 1
      /\ Append(s, e)[Len(s) + 1] = e /\ \A j \in DOMAIN s : Append(s, e)[j] = s[j]
  BY AppendAt
<1> DEFINE t == Append(s, e)
<1>2. ASSUME NEW k \in DOMAIN t, Current(t[k]), \A j \in DOMAIN t : k < j => t[j].type # "change"
      PROVE  SameUser(t[k].token, b)
  <2>1. CASE k = Len(s) + 1
    BY <1>1, <1>2, <2>1
  <2>2. CASE k \in DOMAIN s
    <3>1. e.type # "change"
      BY <1>1, <1>2, <2>2
    <3>2. \A j \in DOMAIN s : k < j => s[j].type # "change"
      BY <1>1, <1>2
    <3> QED
      BY <1>1, <1>2, <2>2, <3>1, <3>2 DEF EventsAgree
  <2> QED
    BY <1>1, <2>1, <2>2
<1>3. EventsAgree(t, b)
  BY <1>2 DEF EventsAgree
<1>4. NoChange(t) <=> NoChange(s) /\ e.type # "change"
  <2>1. \A j \in DOMAIN t : j \in DOMAIN s \/ t[j] = e
    BY <1>1
  <2>2. Len(s) + 1 \in DOMAIN t /\ \A j \in DOMAIN s : j \in DOMAIN t
    BY <1>1
  <2> QED
    BY <1>1, <2>1, <2>2 DEF NoChange
<1> QED
  BY <1>3, <1>4

LEMMA EventTaken ==
  ASSUME NEW s \in Seq(AuthEvent), s # <<>>, NEW a, EventsAgree(s, a)
  PROVE  /\ EventsAgree(Tail(s), a)
         /\ NoChange(Tail(s)) /\ Current(Head(s)) => SameUser(Head(s).token, a)
         /\ NoChange(Tail(s)) /\ Head(s).type # "change" => NoChange(s)
<1>1. /\ Len(s) \in Nat /\ Len(s) > 0 /\ Head(s) = s[1] /\ DOMAIN s = 1 .. Len(s)
      /\ DOMAIN Tail(s) = 1 .. Len(s) - 1
      /\ \A j \in 1 .. Len(s) - 1 : Tail(s)[j] = s[j + 1]
  BY TailAt
<1>2. ASSUME NEW j \in DOMAIN s, j # 1
      PROVE  j - 1 \in DOMAIN Tail(s) /\ Tail(s)[j - 1] = s[j]
  <2>1. j - 1 \in 1 .. Len(s) - 1 /\ (j - 1) + 1 = j
    BY <1>1, <1>2
  <2> QED
    BY <1>1, <2>1
<1>3. ASSUME NEW k \in DOMAIN Tail(s), Current(Tail(s)[k]),
             \A j \in DOMAIN Tail(s) : k < j => Tail(s)[j].type # "change"
      PROVE  SameUser(Tail(s)[k].token, a)
  <2>1. k + 1 \in DOMAIN s /\ Tail(s)[k] = s[k + 1] /\ k \in Nat /\ k >= 1
    BY <1>1
  <2>2. ASSUME NEW j \in DOMAIN s, k + 1 < j PROVE s[j].type # "change"
    <3>1. j # 1 /\ k < j - 1
      BY <1>1, <2>1, <2>2
    <3> QED
      BY <1>2, <1>3, <3>1
  <2> QED
    BY <1>3, <2>1, <2>2 DEF EventsAgree
<1>4. ASSUME NoChange(Tail(s)), NEW j \in DOMAIN s, j # 1 PROVE s[j].type # "change"
  BY <1>2, <1>4 DEF NoChange
<1>5. NoChange(Tail(s)) /\ Current(Head(s)) => SameUser(Head(s).token, a)
  <2>1. 1 \in DOMAIN s /\ \A j \in DOMAIN s : 1 < j => j # 1
    BY <1>1
  <2> QED
    BY <1>1, <1>4, <2>1 DEF EventsAgree
<1>6. NoChange(Tail(s)) /\ Head(s).type # "change" => NoChange(s)
  BY <1>1, <1>4 DEF NoChange
<1> QED
  BY <1>3, <1>5, <1>6 DEF EventsAgree

LEMMA TokensUnchanged ==
  ASSUME TokensAgree, UNCHANGED <<account, authQueue>>,
         realtime' = "none" \/ (realtime # "none" /\ UNCHANGED <<authToken, outpaced>>)
  PROVE  TokensAgree'
BY DEF TokensAgree, EventsAgree, NoChange, Current, SameUser

LEMMA TokensDisconnect ==
  ASSUME TokensAgree, UNCHANGED auth, NEW reasons, NEW force, OnDisconnect(reasons, force)
  PROVE  TokensAgree'
BY TokensUnchanged DEF OnDisconnect, auth

LEMMA TokensInterrupt ==
  ASSUME TokensAgree, NEW reason, InterruptForReason(reason)
  PROVE  TokensAgree'
<1>1. CASE OnDisconnect(interruptReasons \cup {reason}, forceAuthTokenRefresh)
  BY <1>1, TokensDisconnect DEF InterruptForReason
<1>2. CASE realtime = "none" /\ UNCHANGED realtime
  BY <1>2, TokensUnchanged DEF InterruptForReason, auth
<1> QED
  BY <1>1, <1>2 DEF InterruptForReason, Interrupted

(* An event is added to the queue, with the account it is about. *)
LEMMA TokensAdded ==
  ASSUME Shapes, TokensAgree, NEW e \in AuthEvent, authQueue' = Append(authQueue, e),
         e.type # "change" => UNCHANGED account,
         Current(e) => SameUser(e.token, account'),
         UNCHANGED <<realtime, authToken, outpaced>>
  PROVE  TokensAgree'
<1>1. authQueue \in Seq(AuthEvent)
  BY DEF Shapes
<1>2. e.type # "change" => EventsAgree(authQueue, account) /\ account' = account
  BY DEF TokensAgree
<1>3. /\ EventsAgree(Append(authQueue, e), account')
      /\ NoChange(Append(authQueue, e)) <=> NoChange(authQueue) /\ e.type # "change"
  BY <1>1, <1>2, EventsAppended
<1>4. EventsAgree(authQueue, account)' /\ (NoChange(authQueue)' <=> NoChange(authQueue) /\ e.type # "change")
  BY <1>3 DEF EventsAgree, NoChange
<1>5. SameUser(authToken, account) /\ e.type # "change" => SameUser(authToken, account)'
  BY DEF SameUser
<1> QED
  BY <1>4, <1>5 DEF TokensAgree

LEMMA TokensQueue ==
  ASSUME Shapes, StatesAgree, TokensAgree, Queue
  PROVE  TokensAgree'
<1>0. authQueue \in Seq(AuthEvent) /\ EventsAgree(authQueue, account)
  BY DEF Shapes, TokensAgree
<1>1. CASE RunRetry
  <2>1. realtime = "none" /\ UNCHANGED <<realtime, account, authToken, outpaced>>
    BY <1>1 DEF RunRetry, StatesAgree
  <2>2. CASE UNCHANGED authQueue
    BY <2>1, <2>2, TokensUnchanged
  <2>3. CASE authQueue' = Append(authQueue, [type |-> "fetched", attempt |-> attempt',
                                             token |-> account, late |-> FALSE])
    <3> DEFINE e == [type |-> "fetched", attempt |-> attempt', token |-> account, late |-> FALSE]
    <3>1. attempt' \in Attempts /\ account \in MaybeToken
      BY <1>1, AttemptTypes DEF RunRetry, Shapes
    <3>2. e \in AuthEvent /\ e.type # "change"
      BY <3>1, EventTypes
    <3>3. SameUser(e.token, account')
      BY <2>1 DEF SameUser
    <3>4. authQueue' = Append(authQueue, e)
      BY <2>3
    <3> HIDE DEF e
    <3> QED
      BY <2>1, <3>2, <3>3, <3>4, TokensAdded
  <2> QED
    BY <1>1, <2>2, <2>3 DEF RunRetry
<1>2. CASE RefreshAuthToken
  <2>1. /\ authQueue # <<>> /\ Current(Head(authQueue)) /\ authQueue' = Tail(authQueue)
        /\ authToken' = Head(authQueue).token /\ UNCHANGED account
    BY <1>2 DEF RefreshAuthToken, Current
  <2>2. /\ EventsAgree(Tail(authQueue), account)
        /\ NoChange(Tail(authQueue)) => SameUser(Head(authQueue).token, account)
    BY <1>0, <2>1, EventTaken
  <2>3. EventsAgree(authQueue, account)' /\ (NoChange(authQueue)' => SameUser(authToken, account)')
    BY <2>1, <2>2 DEF EventsAgree, NoChange, SameUser
  <2> QED
    BY <2>3 DEF TokensAgree
<1>3. CASE OnFetch
  <2>1. /\ authQueue # <<>> /\ Head(authQueue).type # "change" /\ authQueue' = Tail(authQueue)
        /\ UNCHANGED account
    BY <1>3 DEF OnFetch
  <2>2. /\ EventsAgree(Tail(authQueue), account)
        /\ NoChange(Tail(authQueue)) /\ Current(Head(authQueue)) => SameUser(Head(authQueue).token, account)
        /\ NoChange(Tail(authQueue)) => NoChange(authQueue)
    BY <1>0, <2>1, EventTaken
  <2>3. EventsAgree(authQueue, account)' /\ (NoChange(authQueue)' => NoChange(authQueue))
    BY <2>1, <2>2 DEF EventsAgree, NoChange
  <2>4. CASE UNCHANGED <<realtime, authToken, outpaced>>
    BY <2>1, <2>3, <2>4 DEF TokensAgree, SameUser
  <2>5. CASE /\ Head(authQueue).type = "fetched" /\ authToken' = Head(authQueue).token
             /\ outpaced' = Head(authQueue).late
    <3>1. ~outpaced' => Current(Head(authQueue))
      BY <2>5 DEF Current
    <3>2. NoChange(authQueue)' => NoChange(Tail(authQueue))
      BY <2>1 DEF NoChange
    <3>3. ~outpaced' /\ NoChange(authQueue)' => SameUser(authToken, account)'
      BY <2>1, <2>2, <2>5, <3>1, <3>2 DEF SameUser
    <3> QED
      BY <2>3, <3>3 DEF TokensAgree
  <2> QED
    BY <1>3, <2>4, <2>5 DEF OnFetch
<1>4. CASE OnReady
  BY <1>4, TokensUnchanged DEF OnReady, auth
<1>5. CASE OnAuth
  <2>1. CASE OnDisconnect(interruptReasons, TRUE)
    BY <1>5, <2>1, TokensDisconnect DEF OnAuth
  <2>2. CASE UNCHANGED <<realtime, authToken>>
    <3>1. UNCHANGED <<account, authQueue, outpaced>>
      BY <1>5 DEF OnAuth, auth
    <3> QED
      BY <2>2, <3>1, TokensUnchanged
  <2> QED
    BY <1>5, <2>1, <2>2 DEF OnAuth
<1>6. CASE OnPut \/ OnListen \/ OnListenRevoked
  <2>1. UNCHANGED <<account, authQueue, realtime, authToken, outpaced>>
    BY <1>6 DEF OnPut, OnListen, OnListenRevoked, library, auth
  <2> QED
    BY <2>1, TokensUnchanged
<1>7. CASE OnClose
  BY <1>7, TokensDisconnect DEF OnClose
<1>8. CASE OnShutdown
  BY <1>8, TokensInterrupt DEF OnShutdown
<1> QED
  BY <1>1, <1>2, <1>3, <1>4, <1>5, <1>6, <1>7, <1>8 DEF Queue

(* A token comes from the network. *)
LEMMA TokensFetched ==
  ASSUME Shapes, TokensAgree, NEW f \in fetches, TokenFetched(f)
  PROVE  TokensAgree'
<1> DEFINE token == [user |-> f.user, issue |-> issue]
           late == ~(account # NoToken /\ account.user = f.user)
           answer == [type |-> "fetched", attempt |-> f.attempt, token |-> token, late |-> late]
           change == [type |-> "change", token |-> token]
<1>1. token \in Token /\ token \in MaybeToken /\ f.attempt \in Attempts /\ late \in BOOLEAN
  BY DEF Shapes, Token, MaybeToken
<1>2. answer \in AuthEvent /\ change \in AuthEvent
  BY <1>1, EventTypes
<1>3. UNCHANGED <<realtime, authToken, outpaced>>
  BY DEF TokenFetched, library
<1>4. authQueue \in Seq(AuthEvent) /\ EventsAgree(authQueue, account)
  BY DEF Shapes, TokensAgree
<1>5. token # NoToken
  BY <1>1, BoundsAssumption DEF Token
<1>6. CASE late
  <2>1. UNCHANGED account /\ authQueue' = Append(authQueue, answer)
    BY <1>6 DEF TokenFetched
  <2>2. answer.type # "change" /\ ~Current(answer)
    BY <1>6 DEF Current
  <2> HIDE DEF answer
  <2> QED
    BY <1>2, <1>3, <2>1, <2>2, TokensAdded
<1>7. CASE ~late /\ token = account
  <2>1. UNCHANGED account /\ authQueue' = Append(authQueue, answer)
    BY <1>7 DEF TokenFetched
  <2>2. answer.type # "change" /\ SameUser(answer.token, account')
    BY <1>7, <2>1 DEF SameUser
  <2> HIDE DEF answer
  <2> QED
    BY <1>2, <1>3, <2>1, <2>2, TokensAdded
<1>8. CASE ~late /\ token # account
  <2>1. account' = token /\ authQueue' = authQueue \o <<change, answer>>
    BY <1>8 DEF TokenFetched
  <2>2. SameUser(token, token)
    BY DEF SameUser
  <2>3. /\ change.type = "change" /\ change.token = token
        /\ answer.type # "change" /\ answer.token = token
    OBVIOUS
  <2> HIDE DEF answer, change, token, late
  <2>4. authQueue \o <<change, answer>> = Append(Append(authQueue, change), answer)
    BY <1>2, <1>4
  <2>5. Append(authQueue, change) \in Seq(AuthEvent)
    BY <1>2, AppendEvent
  <2>6. EventsAgree(Append(authQueue, change), token) /\ ~NoChange(Append(authQueue, change))
    BY <1>2, <1>4, <2>2, <2>3, EventsAppended
  <2>7. /\ EventsAgree(Append(Append(authQueue, change), answer), token)
        /\ ~NoChange(Append(Append(authQueue, change), answer))
    <3> DEFINE s == Append(authQueue, change)
    <3>1. s \in Seq(AuthEvent) /\ EventsAgree(s, token) /\ ~NoChange(s)
      BY <2>5, <2>6
    <3>2. SameUser(answer.token, token)
      BY <2>2, <2>3
    <3> HIDE DEF s
    <3>3. /\ EventsAgree(Append(s, answer), token)
          /\ NoChange(Append(s, answer)) <=> NoChange(s) /\ answer.type # "change"
      BY <1>2, <3>1, <3>2, EventsAppended
    <3> QED BY <3>1, <3>3 DEF s
  <2>8. EventsAgree(authQueue, account)' /\ ~NoChange(authQueue)'
    BY <2>1, <2>4, <2>7 DEF EventsAgree, NoChange
  <2> QED
    BY <2>8 DEF TokensAgree
<1> QED
  BY <1>6, <1>7, <1>8

LEMMA TokensStep ==
  ASSUME Shapes, ControlInv, TokensAgree, [Next]_vars
  PROVE  TokensAgree'
<1> StatesAgree
  BY DEF ControlInv
<1>1. CASE UNCHANGED <<account, authQueue, realtime, authToken, outpaced>>
  BY <1>1, TokensUnchanged DEF TokensAgree, EventsAgree, NoChange, SameUser, Current
<1>2. CASE Repo
  BY <1>1, <1>2 DEF Repo, ResumeForReason, ListenTo, Unlisten, PutData, library, auth
<1>3. CASE UNCHANGED vars \/ \E k \in DOMAIN up : ServerHandle(k)
  BY <1>1, <1>3 DEF ServerHandle, vars, library, auth
<1>4. CASE Trouble
  <2>1. CASE Drop
    BY <2>1, TokensDisconnect DEF Drop
  <2>2. CASE InterruptForReason("repo_interrupt")
    BY <2>2, TokensInterrupt
  <2>3. ASSUME NEW f \in fetches, TokenFetchFails(f) PROVE TokensAgree'
    <3> DEFINE e == [type |-> "error", attempt |-> f.attempt]
    <3>1. e \in AuthEvent /\ e.type # "change" /\ ~Current(e)
      BY EventTypes DEF Shapes, Current
    <3>2. authQueue' = Append(authQueue, e) /\ UNCHANGED <<account, realtime, authToken, outpaced>>
      BY <2>3 DEF TokenFetchFails, library
    <3> HIDE DEF e
    <3> QED
      BY <3>1, <3>2, TokensAdded
  <2>4. ASSUME NEW token \in MaybeToken, ChangeAccount(token) PROVE TokensAgree'
    <3> DEFINE e == [type |-> "change", token |-> token]
    <3>1. e \in AuthEvent /\ e.type = "change" /\ e.token = token
      BY EventTypes
    <3>2. authQueue' = Append(authQueue, e) /\ account' = token
          /\ UNCHANGED <<realtime, authToken, outpaced>>
      BY <2>4 DEF ChangeAccount, library
    <3>3. SameUser(token, token)
      BY DEF SameUser
    <3> HIDE DEF e
    <3> QED
      BY <3>1, <3>2, <3>3, TokensAdded
  <2>5. CASE \/ Wake \/ PurgeOutstandingWrites \/ ResumeForReason("repo_interrupt")
             \/ InvalidateTokens \/ (\E m \in Pushes : ServerPush(m))
    BY <1>1, <2>5 DEF Wake, PurgeOutstandingWrites, ResumeForReason, InvalidateTokens, ServerPush,
                      library, auth
  <2> QED
    BY <1>4, <2>1, <2>2, <2>3, <2>4, <2>5 DEF Trouble
<1> QED
  BY <1>2, <1>3, <1>4, TokensQueue, TokensFetched DEF Next, Service

-----------------------------------------------------------------------------
LEMMA LastAppended ==
  ASSUME NEW s \in Seq(Request), NEW r \in Request, NEW t, NEW u,
         Authorizing(r) => TokenOf(r) = u,
         ~Authorizing(r) => LastSays(s, t) /\ u = t
  PROVE  /\ LastSays(Append(s, r), u)
         /\ Unsaid(Append(s, r)) <=> Unsaid(s) /\ ~Authorizing(r)
<1>1. /\ Len(s) \in Nat /\ DOMAIN s = 1 .. Len(s) /\ DOMAIN Append(s, r) = 1 .. Len(s) + 1
      /\ Append(s, r)[Len(s) + 1] = r /\ \A j \in DOMAIN s : Append(s, r)[j] = s[j]
  BY AppendAt
<1>2. Members(Append(s, r)) = Members(s) \cup {r}
  BY MembersAppend
<1>3. ASSUME NEW k \in DOMAIN Append(s, r), Authorizing(Append(s, r)[k]),
             \A j \in DOMAIN Append(s, r) : k < j => ~Authorizing(Append(s, r)[j])
      PROVE  TokenOf(Append(s, r)[k]) = u
  <2>1. CASE k = Len(s) + 1
    BY <1>1, <1>3, <2>1
  <2>2. CASE k \in DOMAIN s
    <3>1. ~Authorizing(r) /\ \A j \in DOMAIN s : k < j => ~Authorizing(s[j])
      BY <1>1, <1>3, <2>2
    <3> QED
      BY <1>1, <1>3, <2>2, <3>1 DEF LastSays
  <2> QED
    BY <1>1, <2>1, <2>2
<1> QED
  BY <1>2, <1>3 DEF LastSays, Unsaid

(* What follows says nothing of the user. *)
LEMMA LastRestored ==
  ASSUME Shapes, RestoreState(up), NEW t, LastSays(up, t)
  PROVE  LastSays(up', t) /\ (Unsaid(up') <=> Unsaid(up))
<1>1. PICK n \in Nat, l \in Nat, c \in Nat, ps \in Enumerations(outstandingPuts) :
           /\ DOMAIN up = 1 .. n /\ DOMAIN up' = 1 .. n + l + c
           /\ \A j \in 1 .. n : up'[j] = up[j]
           /\ \A j \in n + 1 .. n + l : up'[j].type = "listen"
           /\ \A j \in n + l + 1 .. n + l + c : up'[j] = Put(ps[j - n - l])
  BY RestoredAt
<1>2. \A i : ~Authorizing(Put(i))
  BY DEF Put, Authorizing
<1>3. ASSUME NEW j \in DOMAIN up', j \notin DOMAIN up PROVE ~Authorizing(up'[j])
  <2>1. j \in n + 1 .. n + l \/ j \in n + l + 1 .. n + l + c
    BY <1>1, <1>3
  <2>2. CASE j \in n + 1 .. n + l
    BY <1>1, <2>2 DEF Authorizing
  <2>3. CASE j \in n + l + 1 .. n + l + c
    BY <1>1, <1>2, <2>3
  <2> QED BY <2>1, <2>2, <2>3
<1>4. \A j \in DOMAIN up : j \in DOMAIN up' /\ up'[j] = up[j]
  BY <1>1
<1>5. LastSays(up', t)
  BY <1>3, <1>4 DEF LastSays
<1>6. Unsaid(up') <=> Unsaid(up)
  BY <1>3, <1>4 DEF Unsaid, Members
<1> QED
  BY <1>5, <1>6

(* A request is handled that only listens precede. *)
LEMMA LastHandled ==
  ASSUME Shapes, NEW k \in DOMAIN up, up' = Without(up, k),
         \A j \in DOMAIN up : j < k => up[j].type = "listen",
         NEW t, LastSays(up, t)
  PROVE  /\ LastSays(up', t)
         /\ Unsaid(up') => (IF Authorizing(up[k]) THEN TokenOf(up[k]) = t ELSE Unsaid(up))
<1>1. Members(up) = {up[k]} \cup Members(up')
  <2>1. Members(up) = {up[k]} \cup Members(Without(up, k))
    BY MembersWithout DEF Shapes
  <2> QED BY <2>1
<1> DEFINE At(i) == IF i < k THEN i ELSE i + 1
<1>2. /\ Len(up) \in Nat /\ DOMAIN up = 1 .. Len(up) /\ DOMAIN up' = 1 .. Len(up) - 1
      /\ \A j \in 1 .. Len(up) - 1 : up'[j] = IF j < k THEN up[j] ELSE up[j + 1]
  BY WithoutSeq DEF Shapes, Without
<1>3. \A j \in DOMAIN up' : At(j) \in DOMAIN up /\ up'[j] = up[At(j)] /\ At(j) \in Int /\ At(j) # k
  BY <1>2
<1>4. ASSUME NEW h \in DOMAIN up, h # k
      PROVE  \E i \in DOMAIN up' : At(i) = h
  <2>1. CASE h < k
    <3>1. h \in DOMAIN up' /\ At(h) = h
      BY <1>2, <2>1
    <3> QED BY <3>1
  <2>2. CASE ~(h < k)
    <3>1. h - 1 \in DOMAIN up' /\ At(h - 1) = h
      BY <1>2, <1>4, <2>2
    <3> QED BY <3>1
  <2> QED BY <2>1, <2>2
<1>5. ASSUME NEW i \in DOMAIN up', NEW j \in DOMAIN up', At(j) < At(i) PROVE j < i
  BY <1>2, <1>5
<1> HIDE DEF At
<1>6. ASSUME NEW j \in DOMAIN up', Authorizing(up'[j]),
             \A i \in DOMAIN up' : j < i => ~Authorizing(up'[i])
      PROVE  TokenOf(up'[j]) = t
  <2>1. ASSUME NEW h \in DOMAIN up, At(j) < h, h # k PROVE ~Authorizing(up[h])
    <3>1. PICK i \in DOMAIN up' : At(i) = h
      BY <1>4, <2>1
    <3> QED BY <1>3, <1>5, <1>6, <2>1, <3>1
  <2>2. ~(At(j) < k)
    BY <1>3, <1>6 DEF Authorizing
  <2>3. \A h \in DOMAIN up : At(j) < h => ~Authorizing(up[h])
    BY <2>1, <2>2
  <2> QED BY <1>3, <1>6, <2>3 DEF LastSays
<1>7. ASSUME Unsaid(up'), Authorizing(up[k]) PROVE TokenOf(up[k]) = t
  <2>1. ASSUME NEW h \in DOMAIN up, h # k PROVE ~Authorizing(up[h])
    <3>1. PICK i \in DOMAIN up' : At(i) = h
      BY <1>4, <2>1
    <3> QED BY <1>3, <1>7, <3>1 DEF Unsaid, Members
  <2>2. \A h \in DOMAIN up : k < h => ~Authorizing(up[h])
    BY <1>2, <2>1
  <2> QED BY <1>7, <2>2 DEF LastSays
<1> QED
  BY <1>1, <1>6, <1>7 DEF LastSays, Unsaid

LEMMA SessionUnchanged ==
  ASSUME SessionFollows, UNCHANGED <<realtime, up, down, authToken, session>>
  PROVE  SessionFollows'
BY DEF SessionFollows, LastSays, Unsaid, Unharmed, Members, Authorizing, TokenOf, Closing

LEMMA SessionClosed ==
  ASSUME realtime' # "connected", up' = <<>>, session' = NoToken
  PROVE  SessionFollows'
BY DEF SessionFollows, LastSays

LEMMA SessionDisconnect ==
  ASSUME NEW reasons, NEW force, OnDisconnect(reasons, force)
  PROVE  SessionFollows'
BY SessionClosed DEF OnDisconnect

LEMMA SessionInterrupt ==
  ASSUME Shapes, WireOpen, SessionFollows, NEW reason, InterruptForReason(reason)
  PROVE  SessionFollows'
<1>1. CASE OnDisconnect(interruptReasons \cup {reason}, forceAuthTokenRefresh)
  BY <1>1, SessionDisconnect
<1>2. CASE realtime = "none" /\ UNCHANGED <<realtime, up, session>>
  <2>1. up = <<>> /\ session = NoToken
    BY <1>2 DEF WireOpen, SessionFollows
  <2> QED BY <1>2, <2>1, SessionClosed
<1> QED
  BY <1>1, <1>2 DEF InterruptForReason, Interrupted

(* A request that says nothing of the user is sent. *)
LEMMA SessionSent ==
  ASSUME Shapes, SessionFollows, NEW r \in Request, ~Authorizing(r),
         up' = up \/ up' = Append(up, r), UNCHANGED <<realtime, down, authToken, session>>
  PROVE  SessionFollows'
<1>1. CASE up' = up
  BY <1>1, SessionUnchanged
<1>2. CASE up' = Append(up, r)
  <2>1. up \in Seq(Request) /\ LastSays(up, authToken)
    BY DEF Shapes, SessionFollows
  <2>2. LastSays(Append(up, r), authToken) /\ (Unsaid(Append(up, r)) <=> Unsaid(up))
    BY <2>1, LastAppended
  <2>3. LastSays(up, authToken)' /\ (Unsaid(up)' <=> Unsaid(up)) /\ (Unharmed(down)' <=> Unharmed(down))
    BY <1>2, <2>2 DEF LastSays, Unsaid, Unharmed, Members
  <2> QED BY <2>3 DEF SessionFollows
<1> QED
  BY <1>1, <1>2

(* A message that does not end the connection is taken. *)
LEMMA SessionTaken ==
  ASSUME Shapes, SessionFollows, down # <<>>, down' = Tail(down), ~Closing(Head(down)),
         UNCHANGED <<realtime, authToken, session>>, UNCHANGED up \/ RestoreState(up)
  PROVE  SessionFollows'
<1>1. Unharmed(down)' => Unharmed(down)
  BY MembersReceived DEF Unharmed
<1>2. LastSays(up, authToken)' /\ (Unsaid(up)' <=> Unsaid(up))
  <2>1. LastSays(up, authToken)
    BY DEF SessionFollows
  <2>2. CASE UNCHANGED up
    BY <2>1, <2>2 DEF LastSays, Unsaid, Members, Authorizing, TokenOf
  <2>3. CASE RestoreState(up)
    <3>1. LastSays(up', authToken) /\ (Unsaid(up') <=> Unsaid(up))
      BY <2>1, <2>3, LastRestored
    <3> QED BY <3>1 DEF LastSays, Unsaid
  <2> QED BY <2>2, <2>3
<1> QED
  BY <1>1, <1>2 DEF SessionFollows

LEMMA SessionRepo ==
  ASSUME Shapes, SessionFollows, Repo
  PROVE  SessionFollows'
<1>1. CASE ResumeForReason("waiting_for_open")
  BY <1>1, SessionUnchanged DEF ResumeForReason, server
<1>2. ASSUME NEW q \in Queries, ListenTo(q) PROVE SessionFollows'
  <2> DEFINE r == Listen(q, listenCalls + 1)
  <2>1. r \in Request /\ ~Authorizing(r)
    BY <1>2, RequestTypes DEF ListenTo, Listen, Authorizing
  <2>2. (up' = up \/ up' = Append(up, r)) /\ UNCHANGED <<realtime, down, authToken, session>>
    BY <1>2 DEF ListenTo, library, server
  <2> HIDE DEF r
  <2> QED BY <2>1, <2>2, SessionSent
<1>3. ASSUME NEW q \in Queries, Unlisten(q) PROVE SessionFollows'
  <2> DEFINE r == [type |-> "unlisten", query |-> q]
  <2>1. r \in Request /\ ~Authorizing(r)
    BY RequestTypes DEF Authorizing
  <2>2. (up' = up \/ up' = Append(up, r)) /\ UNCHANGED <<realtime, down, authToken, session>>
    BY <1>3 DEF Unlisten, library, server
  <2> HIDE DEF r
  <2> QED BY <2>1, <2>2, SessionSent
<1>4. CASE PutData
  <2> DEFINE r == Put(putCounter + 1)
  <2>1. r \in Request /\ ~Authorizing(r)
    BY <1>4, RequestTypes DEF PutData, Put, Authorizing
  <2>2. (up' = up \/ up' = Append(up, r)) /\ UNCHANGED <<realtime, down, authToken, session>>
    BY <1>4 DEF PutData, library, server
  <2> HIDE DEF r
  <2> QED BY <2>1, <2>2, SessionSent
<1> QED
  BY <1>1, <1>2, <1>3, <1>4 DEF Repo

LEMMA SessionQueue ==
  ASSUME Shapes, ControlInv, SessionFollows, Queue
  PROVE  SessionFollows'
<1> StatesAgree /\ WireOpen /\ FetchAgrees
  BY DEF ControlInv
<1>1. CASE RunRetry
  BY <1>1, SessionUnchanged DEF RunRetry, server
<1>2. CASE RefreshAuthToken
  <2>1. /\ UNCHANGED <<realtime, down, session>>
        /\ authToken' = Head(authQueue).token /\ authToken' \in MaybeToken
    <3>1. Head(authQueue) \in AuthEvent
      BY <1>2, HeadEvent DEF RefreshAuthToken
    <3> QED BY <1>2, <3>1, EventFields DEF RefreshAuthToken, server
  <2>2. CASE ~connected
    <3>1. up' = up /\ realtime # "connected"
      BY <1>2, <2>2 DEF RefreshAuthToken, connected, StatesAgree, Shapes
    <3>2. up = <<>> /\ session = NoToken
      BY <3>1 DEF WireOpen, SessionFollows
    <3> QED BY <2>1, <3>1, <3>2, SessionClosed
  <2>3. ASSUME NEW r \in Request, Authorizing(r), TokenOf(r) = authToken', up' = Append(up, r),
               realtime = "connected"
        PROVE  SessionFollows'
    <3>1. up \in Seq(Request)
      BY DEF Shapes
    <3>2. LastSays(Append(up, r), authToken') /\ ~Unsaid(Append(up, r))
      BY <2>3, <3>1, LastAppended
    <3>3. LastSays(up, authToken)' /\ ~Unsaid(up)'
      BY <2>3, <3>2 DEF LastSays, Unsaid
    <3> QED BY <2>1, <2>3, <3>3 DEF SessionFollows
  <2>4. CASE connected
    <3>1. realtime = "connected"
      BY <2>4 DEF connected, StatesAgree, Shapes
    <3>2. CASE authToken' = NoToken
      <4> DEFINE r == [type |-> "unauth"]
      <4>1. r \in Request /\ Authorizing(r) /\ TokenOf(r) = authToken'
        BY <3>2, RequestTypes DEF Authorizing, TokenOf
      <4>2. up' = Append(up, r)
        BY <1>2, <2>4, <3>2 DEF RefreshAuthToken
      <4> HIDE DEF r
      <4> QED BY <2>3, <3>1, <4>1, <4>2
    <3>3. CASE authToken' # NoToken
      <4> DEFINE r == Auth(authToken', FALSE)
      <4>1. authToken' \in Token
        BY <2>1, <3>3 DEF MaybeToken
      <4>2. r \in Request /\ Authorizing(r) /\ TokenOf(r) = authToken'
        BY <4>1, RequestTypes DEF Auth, Authorizing, TokenOf
      <4>3. up' = Append(up, r)
        BY <1>2, <2>4, <3>3 DEF RefreshAuthToken
      <4> HIDE DEF r
      <4> QED BY <2>3, <3>1, <4>2, <4>3
    <3> QED BY <3>2, <3>3
  <2> QED BY <2>2, <2>4
<1>3. CASE OnFetch
  <2>1. UNCHANGED <<up, down, session>>
    BY <1>3 DEF OnFetch, server
  <2>2. CASE UNCHANGED <<realtime, authToken>>
    BY <2>1, <2>2, SessionUnchanged
  <2>3. CASE realtime' = "connecting" /\ connectionState = "GettingToken"
    <3>1. up = <<>> /\ session = NoToken
      BY <2>3 DEF WireOpen, StatesAgree, SessionFollows
    <3> QED BY <2>1, <2>3, <3>1, SessionClosed
  <2> QED BY <1>3, <2>2, <2>3 DEF OnFetch
<1>4. CASE OnReady
  <2>1. /\ realtime # "connected" /\ up = <<>> /\ session = NoToken
        /\ UNCHANGED <<authToken, session, down>>
    BY <1>4 DEF OnReady, WireOpen, SessionFollows, server
  <2>2. CASE authToken = NoToken /\ RestoreState(up)
    <3>1. LastSays(up, authToken)
      BY DEF SessionFollows
    <3>2. LastSays(up', authToken)
      BY <2>2, <3>1, LastRestored
    <3>3. LastSays(up, authToken)'
      BY <2>1, <3>2 DEF LastSays
    <3> QED BY <2>1, <2>2, <3>3 DEF SessionFollows, OnReady
  <2>3. CASE authToken # NoToken /\ up' = Append(up, Auth(authToken, TRUE))
    <3> DEFINE r == Auth(authToken, TRUE)
    <3>1. authToken \in Token
      BY <2>3 DEF MaybeToken, Shapes
    <3>2. r \in Request /\ Authorizing(r) /\ TokenOf(r) = authToken
      BY <3>1, RequestTypes DEF Auth, Authorizing, TokenOf
    <3>3. up' = Append(up, r) /\ up \in Seq(Request)
      BY <2>3 DEF Shapes
    <3> HIDE DEF r
    <3>4. LastSays(Append(up, r), authToken) /\ ~Unsaid(Append(up, r))
      BY <3>2, <3>3, LastAppended
    <3>5. LastSays(up, authToken)' /\ ~Unsaid(up)'
      BY <2>1, <3>3, <3>4 DEF LastSays, Unsaid
    <3>6. realtime' = "connected"
      BY <1>4 DEF OnReady
    <3> QED BY <3>5, <3>6 DEF SessionFollows
  <2> QED BY <1>4, <2>2, <2>3 DEF OnReady
<1>5. CASE OnAuth
  <2>1. CASE OnDisconnect(interruptReasons, TRUE)
    BY <2>1, SessionDisconnect
  <2>2. CASE Head(down).ok /\ down' = Tail(down) /\ (UNCHANGED up \/ RestoreState(up))
             /\ UNCHANGED <<realtime, authToken, session>>
    <3>1. down # <<>> /\ ~Closing(Head(down))
      BY <1>5, <2>2 DEF OnAuth, Receive, Closing
    <3> QED BY <2>2, <3>1, SessionTaken
  <2> QED BY <1>5, <2>1, <2>2 DEF OnAuth
<1>6. CASE OnPut \/ OnListen \/ OnListenRevoked
  <2>1. down # <<>> /\ down' = Tail(down) /\ ~Closing(Head(down))
        /\ UNCHANGED <<realtime, up, authToken, session>>
    BY <1>6 DEF OnPut, OnListen, OnListenRevoked, Receive, Closing, library, server
  <2> QED BY <2>1, SessionTaken
<1>7. CASE OnClose
  BY <1>7, SessionDisconnect DEF OnClose
<1>8. CASE OnShutdown
  BY <1>8, SessionInterrupt DEF OnShutdown
<1> QED
  BY <1>1, <1>2, <1>3, <1>4, <1>5, <1>6, <1>7, <1>8 DEF Queue

LEMMA SessionHandled ==
  ASSUME Shapes, WireOpen, SessionFollows, NEW k \in DOMAIN up, ServerHandle(k)
  PROVE  SessionFollows'
<1>1. /\ up' = Without(up, k) /\ up[k] \in Request /\ UNCHANGED <<realtime, authToken>>
      /\ \A j \in DOMAIN up : j < k => up[j].type = "listen"
  <2>1. DOMAIN up = 1 .. Len(up) /\ Len(up) \in Nat
    BY DEF Shapes
  <2>2. \A j \in DOMAIN up : j < k => j \in 1 .. k - 1
    BY <2>1
  <2> QED BY <2>2, HandledRequest DEF ServerHandle, library
<1>2. realtime = "connected"
  <2>1. up # <<>>
    OBVIOUS
  <2> QED BY <2>1 DEF WireOpen
<1>3. /\ LastSays(up', authToken)
      /\ Unsaid(up') => (IF Authorizing(up[k]) THEN TokenOf(up[k]) = authToken ELSE Unsaid(up))
  <2>1. LastSays(up, authToken)
    BY DEF SessionFollows
  <2> QED BY <1>1, <2>1, LastHandled
<1>4. \E m \in Message : down' = down \/ down' = Append(down, m)
  <2>1. CASE up[k].type = "put"
    <3>1. [type |-> "put", put |-> up[k].put] \in Message
      BY <2>1, HandledRequest, MessageTypes
    <3> QED BY <2>1, <3>1, HandledRequest
  <2>2. CASE up[k].type = "auth"
    <3>1. \A ok \in BOOLEAN : [type |-> "auth", ok |-> ok, restore |-> up[k].restore] \in Message
      BY <1>1, <2>2, RequestFields, MessageTypes
    <3> QED BY <2>2, <3>1, HandledRequest
  <2>3. CASE up[k].type \notin {"put", "auth"}
    <3>1. [type |-> "reset"] \in Message
      BY DEF Message
    <3> QED BY <2>3, <3>1, HandledRequest
  <2> QED BY <2>1, <2>2, <2>3
<1>5. Unharmed(down') => Unharmed(down)
  <2>1. PICK m \in Message : down' = down \/ down' = Append(down, m)
    BY <1>4
  <2>2. CASE down' = down
    BY <2>2
  <2>3. CASE down' = Append(down, m)
    BY <2>3, MembersDown DEF Unharmed, Members
  <2> QED BY <2>1, <2>2, <2>3
<1>6. ASSUME Unsaid(up'), Unharmed(down') PROVE session' = authToken
  <2>1. CASE up[k].type = "auth"
    <3>1. TokenOf(up[k]) = authToken /\ TokenOf(up[k]) = up[k].token
      BY <1>3, <1>6, <2>1 DEF Authorizing, TokenOf
    <3>2. up[k].token.issue = issue
      <4>1. SUFFICES ASSUME up[k].token.issue # issue PROVE FALSE
        OBVIOUS
      <4> DEFINE m == [type |-> "auth", ok |-> FALSE, restore |-> up[k].restore]
      <4>2. down' = Append(down, m)
        BY <2>1, <4>1 DEF ServerHandle
      <4>3. m \in Message /\ Closing(m)
        BY <1>1, <2>1, RequestFields, MessageTypes DEF Closing
      <4> HIDE DEF m
      <4>4. m \in Members(down)'
        BY <4>2, <4>3, MembersDown
      <4> QED BY <1>6, <4>3, <4>4 DEF Unharmed, Members
    <3> QED BY <2>1, <3>1, <3>2 DEF ServerHandle
  <2>2. CASE up[k].type = "unauth"
    <3>1. TokenOf(up[k]) = authToken /\ TokenOf(up[k]) = NoToken
      BY <1>3, <1>6, <2>2 DEF Authorizing, TokenOf
    <3> QED BY <2>2, <3>1 DEF ServerHandle
  <2>3. CASE up[k].type \notin {"auth", "unauth"}
    <3>1. UNCHANGED session
      BY <2>3 DEF ServerHandle, server
    <3>2. Unsaid(up) /\ Unharmed(down)
      BY <1>3, <1>5, <1>6, <2>3 DEF Authorizing
    <3> QED BY <1>2, <3>1, <3>2 DEF SessionFollows
  <2> QED BY <2>1, <2>2, <2>3
<1>7. LastSays(up, authToken)' /\ (Unsaid(up)' => Unsaid(up')) /\ (Unharmed(down)' => Unharmed(down'))
  BY <1>1, <1>3 DEF LastSays, Unsaid, Unharmed
<1> QED
  BY <1>1, <1>2, <1>6, <1>7 DEF SessionFollows

LEMMA SessionPushed ==
  ASSUME Shapes, SessionFollows, NEW m \in Pushes, ServerPush(m)
  PROVE  SessionFollows'
<1>1. /\ m \in Message /\ down' = Append(down, m) /\ realtime = "connected"
      /\ UNCHANGED <<realtime, up, authToken>>
      /\ session' = IF m.type = "auth_revoked" THEN NoToken ELSE session
  BY MessageTypes DEF ServerPush, Pushes, library
<1>2. Members(down)' = Members(down) \cup {m}
  BY <1>1, MembersDown
<1>3. Unharmed(down)' => Unharmed(down) /\ m.type # "auth_revoked"
  BY <1>2 DEF Unharmed, Closing
<1>4. LastSays(up, authToken)' /\ (Unsaid(up)' => Unsaid(up))
  BY <1>1 DEF SessionFollows, LastSays, Unsaid, Members, Authorizing, TokenOf
<1> QED
  BY <1>1, <1>3, <1>4 DEF SessionFollows

LEMMA SessionStep ==
  ASSUME Shapes, ControlInv, SessionFollows, [Next]_vars
  PROVE  SessionFollows'
<1> WireOpen
  BY DEF ControlInv
<1>1. CASE UNCHANGED vars \/ (\E f \in fetches : TokenFetched(f))
  BY <1>1, SessionUnchanged DEF TokenFetched, vars, library, server
<1>2. CASE Trouble
  <2>1. CASE Drop
    BY <2>1, SessionDisconnect DEF Drop
  <2>2. CASE InterruptForReason("repo_interrupt")
    BY <2>2, SessionInterrupt
  <2>3. CASE \/ Wake \/ PurgeOutstandingWrites \/ ResumeForReason("repo_interrupt")
             \/ (\E f \in fetches : TokenFetchFails(f))
             \/ (\E token \in MaybeToken : ChangeAccount(token)) \/ InvalidateTokens
    BY <2>3, SessionUnchanged DEF Wake, PurgeOutstandingWrites, ResumeForReason, TokenFetchFails,
                ChangeAccount, InvalidateTokens, library, server
  <2> QED BY <1>2, <2>1, <2>2, <2>3, SessionPushed DEF Trouble
<1> QED
  BY <1>1, <1>2, SessionRepo, SessionQueue, SessionHandled DEF Next, Service

LEMMA SessionInit ==
  ASSUME Init
  PROVE  SessionInv
BY DEF Init, SessionInv, TokensAgree, EventsAgree, SessionFollows, LastSays

(* Once token changes were taken and no authentication is on its way,      *)
(* requests are sent in the session of the user who is signed in, however  *)
(* often users change, tokens expire and connections are lost              *)
(* (refreshAuthToken, sendAuthAndRestoreStateAfterComplete).               *)
THEOREM SessionIsTheUsers == Spec => []SessionOfAccount
<1>1. ASSUME Shapes, ControlInv, SessionInv PROVE SessionOfAccount
  <2> SUFFICES ASSUME connected, ~outpaced, authQueue = <<>>,
                      \A m \in Members(up) \cup Members(down) :
                        m.type \notin {"auth", "unauth", "auth_revoked"}
               PROVE  IF account = NoToken THEN session = NoToken
                      ELSE session # NoToken /\ session.user = account.user
    BY DEF SessionOfAccount
  <2>1. realtime = "connected"
    BY <1>1 DEF ControlInv, StatesAgree, Shapes, connected
  <2>2. Unsaid(up) /\ Unharmed(down)
    BY DEF Unsaid, Unharmed, Authorizing, Closing
  <2>3. session = authToken
    BY <1>1, <2>1, <2>2 DEF SessionInv, SessionFollows
  <2>4. NoChange(authQueue)
    BY DEF NoChange
  <2>5. SameUser(authToken, account)
    BY <1>1, <2>1, <2>4 DEF SessionInv, TokensAgree
  <2> QED BY <2>3, <2>5 DEF SameUser
<1>2. Shapes /\ ControlInv /\ SessionInv /\ [Next]_vars => SessionInv'
  BY TokensStep, SessionStep DEF SessionInv
<1>3. Init => SessionInv
  BY SessionInit
<1> QED
  BY <1>1, <1>2, <1>3, ControlInductive, PTL DEF Spec

-----------------------------------------------------------------------------
(***************************************************************************)
(* Completions come in the order of the writes.                            *)
(***************************************************************************)

(* The writes a sequence of requests or messages is about, and that they   *)
(* are in the order they were made.                                        *)
PutsOf(s) == {i \in Puts : \E k \in DOMAIN s : IsPut(s[k], i)}

Rising(s) ==
  \A j, k \in DOMAIN s :
    j < k /\ s[j].type = "put" /\ s[k].type = "put" => s[j].put < s[k].put

Asked == PutsOf(up)
Answered == PutsOf(down)

WireRises == Rising(up) /\ Rising(down)

(* The server answers in order: what is asked comes after what is answered.*)
AnswersFirst == \A i \in Answered, j \in Asked : i < j

(* A write is on its way only when the state was restored, and is then     *)
(* outstanding unless it was cancelled by a purge.                         *)
WireKnown ==
  \A i \in Asked \cup Answered :
    connectionState = "Connected" /\ (i \in outstandingPuts \/ completed[i] = "canceled")

AllOut == connectionState = "Connected" => outstandingPuts \subseteq Asked \cup Answered

(* What is held back is older than what is outstanding; when no listen is  *)
(* unanswered it was stranded by a loss of the connection.                 *)
HeldFirst == \A i \in Members(putsToAck), j \in outstandingPuts : i < j
HeldStranded == unackedListensCount = 0 => Members(putsToAck) \subseteq stranded

OrderInv == WireRises /\ AnswersFirst /\ WireKnown /\ AllOut /\ HeldFirst /\ HeldStranded

(* What the order rests on. *)
Accounted == Shapes /\ ControlInv /\ SentMade /\ RestoreFirst /\ WritesAccountedFor /\ unackedListensCount \in Nat

-----------------------------------------------------------------------------
PutsIn(s) == \A k \in DOMAIN s : s[k].type = "put" => s[k].put \in Puts

LEMMA PutsTyped ==
  ASSUME Shapes
  PROVE  PutsIn(up) /\ PutsIn(down)
<1>1. \A k \in DOMAIN up : up[k] \in Request
  BY DEF Shapes
<1>2. \A k \in DOMAIN down : down[k] \in Message
  BY DEF Shapes
<1> QED
  BY <1>1, <1>2, RequestFields, MessageFields DEF PutsIn

LEMMA PutsOrdered == \A i, j \in Puts : i \in Int /\ (i < j \/ i = j \/ j < i)
BY PutsRange

LEMMA PutsAppend ==
  ASSUME NEW S, NEW s \in Seq(S), NEW e \in S, PutsIn(s)
  PROVE  /\ PutsOf(Append(s, e)) = PutsOf(s) \cup {i \in Puts : IsPut(e, i)}
         /\ Rising(s) /\ (e.type = "put" => \A i \in PutsOf(s) : i < e.put) => Rising(Append(s, e))
<1>1. /\ Len(s) \in Nat /\ DOMAIN s = 1 .. Len(s) /\ DOMAIN Append(s, e) = 1 .. Len(s) + 1
      /\ Append(s, e)[Len(s) + 1] = e /\ \A j \in DOMAIN s : Append(s, e)[j] = s[j]
  BY AppendAt
<1> DEFINE t == Append(s, e)
           n == Len(s)
<1>2. n \in Nat /\ DOMAIN s = 1 .. n /\ DOMAIN t = 1 .. n + 1 /\ t[n + 1] = e
      /\ \A j \in 1 .. n : t[j] = s[j]
  BY <1>1
<1> HIDE DEF t, n
<1>3. PutsOf(t) = PutsOf(s) \cup {i \in Puts : IsPut(e, i)}
  <2>1. ASSUME NEW i \in PutsOf(t) PROVE i \in PutsOf(s) \/ IsPut(e, i)
    <3>1. PICK k \in DOMAIN t : IsPut(t[k], i)
      BY DEF PutsOf
    <3>2. k = n + 1 \/ k \in 1 .. n
      BY <1>2
    <3> QED
      BY <1>2, <3>1, <3>2 DEF PutsOf
  <2>2. ASSUME NEW i \in PutsOf(s) PROVE i \in PutsOf(t)
    <3>1. PICK k \in DOMAIN s : IsPut(s[k], i)
      BY DEF PutsOf
    <3>2. k \in DOMAIN t /\ t[k] = s[k]
      BY <1>2
    <3> QED
      BY <3>1, <3>2 DEF PutsOf
  <2>3. ASSUME NEW i \in Puts, IsPut(e, i) PROVE i \in PutsOf(t)
    <3>1. n + 1 \in DOMAIN t
      BY <1>2
    <3> QED
      BY <1>2, <2>3, <3>1 DEF PutsOf
  <2>4. PutsOf(s) \subseteq Puts /\ PutsOf(t) \subseteq Puts
    BY DEF PutsOf
  <2> QED
    BY <2>1, <2>2, <2>3, <2>4
<1>4. ASSUME Rising(s), e.type = "put" => \A i \in PutsOf(s) : i < e.put,
             NEW j \in DOMAIN t, NEW k \in DOMAIN t, j < k, t[j].type = "put", t[k].type = "put"
      PROVE  t[j].put < t[k].put
  <2>1. j \in 1 .. n
    BY <1>2, <1>4
  <2>2. CASE k \in 1 .. n
    BY <1>2, <1>4, <2>1, <2>2 DEF Rising
  <2>3. CASE k = n + 1
    <3>1. s[j].put \in PutsOf(s)
      BY <1>2, <1>4, <2>1 DEF PutsOf, PutsIn, IsPut
    <3> QED
      BY <1>2, <1>4, <2>1, <2>3, <3>1
  <2> QED
    BY <1>2, <2>2, <2>3
<1>5. Rising(s) /\ (e.type = "put" => \A i \in PutsOf(s) : i < e.put) => Rising(t)
  BY <1>4 DEF Rising
<1> QED
  BY <1>3, <1>5 DEF t

LEMMA PutsWithout ==
  ASSUME NEW S, NEW s \in Seq(S), NEW k \in DOMAIN s, PutsIn(s), Rising(s),
         \A j \in DOMAIN s : j < k => s[j].type # "put"
  PROVE  /\ PutsOf(s) = PutsOf(Without(s, k)) \cup {i \in Puts : IsPut(s[k], i)}
         /\ Rising(Without(s, k))
         /\ s[k].type = "put" => \A i \in PutsOf(Without(s, k)) : s[k].put < i
<1> DEFINE t == Without(s, k)
           n == Len(s)
           At(j) == IF j < k THEN j ELSE j + 1
<1>1. /\ n \in Nat /\ DOMAIN s = 1 .. n /\ k \in 1 .. n /\ DOMAIN t = 1 .. n - 1
      /\ \A j \in 1 .. n - 1 : t[j] = s[At(j)]
  BY WithoutSeq DEF Without
<1>2. /\ \A j \in DOMAIN t : At(j) \in DOMAIN s /\ At(j) # k /\ t[j] = s[At(j)]
      /\ \A i, j \in DOMAIN t : i < j => At(i) < At(j)
      /\ \A m \in DOMAIN s : m # k => \E j \in DOMAIN t : At(j) = m
  <2>1. \A j \in DOMAIN t : At(j) \in DOMAIN s /\ At(j) # k /\ t[j] = s[At(j)]
    BY <1>1
  <2>2. \A i, j \in DOMAIN t : i < j => At(i) < At(j)
    BY <1>1
  <2>3. ASSUME NEW m \in DOMAIN s, m # k PROVE \E j \in DOMAIN t : At(j) = m
    <3>1. CASE m < k
      BY <1>1, <3>1
    <3>2. CASE m > k
      <4>1. m - 1 \in DOMAIN t /\ At(m - 1) = m
        BY <1>1, <3>2
      <4> QED
        BY <4>1
    <3> QED
      BY <1>1, <2>3, <3>1, <3>2
  <2> QED
    BY <2>1, <2>2, <2>3
<1> HIDE DEF t, n, At
<1>3. PutsOf(s) = PutsOf(t) \cup {i \in Puts : IsPut(s[k], i)}
  <2>1. ASSUME NEW i \in PutsOf(s) PROVE i \in PutsOf(t) \/ IsPut(s[k], i)
    <3>1. PICK m \in DOMAIN s : IsPut(s[m], i)
      BY DEF PutsOf
    <3>2. CASE m # k
      BY <1>2, <3>1, <3>2 DEF PutsOf
    <3> QED
      BY <3>1, <3>2
  <2>2. ASSUME NEW i \in PutsOf(t) PROVE i \in PutsOf(s)
    BY <1>2 DEF PutsOf
  <2>3. PutsOf(s) \subseteq Puts /\ PutsOf(t) \subseteq Puts
    BY DEF PutsOf
  <2> QED
    BY <2>1, <2>2, <2>3 DEF PutsOf
<1>4. Rising(t)
  BY <1>2 DEF Rising
<1>5. ASSUME s[k].type = "put", NEW i \in PutsOf(t) PROVE s[k].put < i
  <2>1. PICK j \in DOMAIN t : IsPut(t[j], i)
    BY DEF PutsOf
  <2>2. At(j) \in DOMAIN s /\ At(j) # k /\ IsPut(s[At(j)], i)
    BY <1>2, <2>1
  <2>3. k < At(j)
    <3>1. DOMAIN s \subseteq Int
      BY <1>1
    <3>2. ~(At(j) < k)
      BY <2>2 DEF IsPut
    <3> QED
      BY <2>2, <3>1, <3>2
  <2> QED
    BY <1>5, <2>2, <2>3 DEF Rising, IsPut
<1> QED
  BY <1>3, <1>4, <1>5 DEF t

(* The head of the messages is taken. *)
LEMMA PutsTaken ==
  ASSUME Shapes, WireRises, down # <<>>, down' = Tail(down)
  PROVE  /\ Rising(down')
         /\ Answered = Answered' \cup {i \in Puts : IsPut(Head(down), i)}
         /\ Head(down).type = "put" => \A i \in Answered' : Head(down).put < i
<1>1. down \in Seq(Message) /\ PutsIn(down) /\ Rising(down)
  BY PutsTyped DEF Shapes, WireRises
<1>2. down' = Without(down, 1) /\ 1 \in DOMAIN down /\ Head(down) = down[1]
  BY <1>1, TailWithout
<1>3. \A j \in DOMAIN down : ~(j < 1)
  BY <1>1
<1>4. /\ PutsOf(down) = PutsOf(down') \cup {i \in Puts : IsPut(Head(down), i)}
      /\ Rising(down')
      /\ Head(down).type = "put" => \A i \in PutsOf(down') : Head(down).put < i
  <2> DEFINE t == Without(down, 1)
  <2>1. /\ PutsOf(down) = PutsOf(t) \cup {i \in Puts : IsPut(down[1], i)} /\ Rising(t)
        /\ down[1].type = "put" => \A i \in PutsOf(t) : down[1].put < i
    BY <1>1, <1>2, <1>3, PutsWithout
  <2>2. down' = t /\ Head(down) = down[1]
    BY <1>2
  <2> HIDE DEF t
  <2> QED
    BY <2>1, <2>2
<1>5. Answered' = PutsOf(down') /\ Answered = PutsOf(down)
  BY DEF Answered, PutsOf
<1> QED
  BY <1>4, <1>5

(* A request or a message is added. *)
LEMMA PutsSent ==
  ASSUME Shapes, WireRises, NEW r \in Request, up' = Append(up, r),
         r.type = "put" => \A i \in Asked : i < r.put
  PROVE  Rising(up') /\ Asked' = Asked \cup {i \in Puts : IsPut(r, i)}
<1>1. up \in Seq(Request) /\ PutsIn(up) /\ Rising(up)
  BY PutsTyped DEF Shapes, WireRises
<1>2. Asked' = PutsOf(up') /\ Asked = PutsOf(up)
  BY DEF Asked, PutsOf
<1> QED
  BY <1>1, <1>2, PutsAppend

LEMMA PutsSaid ==
  ASSUME Shapes, WireRises, NEW m \in Message, down' = Append(down, m),
         m.type = "put" => \A i \in Answered : i < m.put
  PROVE  Rising(down') /\ Answered' = Answered \cup {i \in Puts : IsPut(m, i)}
<1>1. down \in Seq(Message) /\ PutsIn(down) /\ Rising(down)
  BY PutsTyped DEF Shapes, WireRises
<1>2. Answered' = PutsOf(down') /\ Answered = PutsOf(down)
  BY DEF Answered, PutsOf
<1> QED
  BY <1>1, <1>2, PutsAppend

-----------------------------------------------------------------------------
(* The writes on the wire are the same, as are those that wait.            *)
LEMMA OrderKept ==
  ASSUME OrderInv, WireRises', Asked' = Asked, Answered' = Answered,
         connectionState' = "Connected" <=> connectionState = "Connected",
         UNCHANGED <<outstandingPuts, completed, putsToAck, stranded>>,
         unackedListensCount' = 0 => unackedListensCount = 0
  PROVE  OrderInv'
<1>1. Members(putsToAck)' = Members(putsToAck)
  BY DEF Members
<1> QED
  BY <1>1 DEF OrderInv, AnswersFirst, WireKnown, AllOut, HeldFirst, HeldStranded

LEMMA OrderStill ==
  ASSUME OrderInv, UNCHANGED <<up, down, outstandingPuts, completed, putsToAck, stranded>>,
         connectionState' = "Connected" <=> connectionState = "Connected",
         unackedListensCount' = 0 => unackedListensCount = 0
  PROVE  OrderInv'
<1>1. Asked' = Asked /\ Answered' = Answered /\ WireRises'
  BY DEF Asked, Answered, PutsOf, IsPut, WireRises, Rising, OrderInv
<1> QED
  BY <1>1, OrderKept

(* A request that is no write is sent.                                     *)
LEMMA OrderRequest ==
  ASSUME Shapes, OrderInv, NEW r \in Request, r.type # "put", up' = Append(up, r),
         UNCHANGED <<down, connectionState, outstandingPuts, completed, putsToAck, stranded>>,
         unackedListensCount' = 0 => unackedListensCount = 0
  PROVE  OrderInv'
<1>1. Rising(up') /\ Asked' = Asked
  BY PutsSent DEF OrderInv, IsPut
<1>2. Answered' = Answered /\ WireRises'
  BY <1>1 DEF Answered, PutsOf, IsPut, WireRises, Rising, OrderInv
<1> QED
  BY <1>1, <1>2, OrderKept

LEMMA OrderMessage ==
  ASSUME Shapes, OrderInv, NEW m \in Message, m.type # "put", down' = Append(down, m),
         Rising(up'), Asked' = Asked,
         UNCHANGED <<connectionState, outstandingPuts, completed, putsToAck, stranded, unackedListensCount>>
  PROVE  OrderInv'
<1>1. Rising(down') /\ Answered' = Answered
  BY PutsSaid DEF OrderInv, IsPut
<1>2. WireRises'
  BY <1>1 DEF WireRises, Rising
<1> QED
  BY <1>1, <1>2, OrderKept

(* A message that answers no write is taken.                               *)
LEMMA OrderRead ==
  ASSUME Shapes, OrderInv, down # <<>>, Head(down).type # "put", down' = Tail(down), UNCHANGED up
  PROVE  Asked' = Asked /\ Answered' = Answered /\ WireRises'
<1>1. Rising(down') /\ Answered' = Answered
  BY PutsTaken DEF OrderInv, IsPut
<1> QED
  BY <1>1 DEF Asked, PutsOf, IsPut, WireRises, Rising, OrderInv

(* Nothing is on the wire outside the restored connection.                 *)
LEMMA WireQuiet ==
  ASSUME Shapes, OrderInv, connectionState # "Connected"
  PROVE  Asked = {} /\ Answered = {}
BY DEF OrderInv, WireKnown

LEMMA WireEmpty ==
  ASSUME up' = <<>>, down' = <<>>
  PROVE  Asked' = {} /\ Answered' = {} /\ WireRises'
BY DEF Asked, Answered, PutsOf, WireRises, Rising

LEMMA OrderDisconnect ==
  ASSUME Shapes, OrderInv, NEW reasons, NEW force, OnDisconnect(reasons, force)
  PROVE  OrderInv'
<1>1. /\ up' = <<>> /\ down' = <<>> /\ connectionState' = "Disconnected"
      /\ outstandingPuts' \subseteq outstandingPuts /\ UNCHANGED putsToAck
      /\ stranded' = stranded \cup Members(putsToAck)
  BY DEF OnDisconnect
<1>2. Members(putsToAck)' = Members(putsToAck)
  BY <1>1 DEF Members
<1> QED
  BY <1>1, <1>2, WireEmpty DEF OrderInv, AnswersFirst, WireKnown, AllOut, HeldFirst, HeldStranded

LEMMA OrderInterrupt ==
  ASSUME Accounted, OrderInv, NEW reason, InterruptForReason(reason)
  PROVE  OrderInv'
<1>1. CASE OnDisconnect(interruptReasons \cup {reason}, forceAuthTokenRefresh)
  BY <1>1, OrderDisconnect DEF Accounted
<1>2. CASE realtime = "none" /\ connectionState' = "Disconnected" /\ UNCHANGED <<requests, up, down>>
  <2>1. connectionState # "Connected"
    BY <1>2 DEF Accounted, ControlInv, StatesAgree
  <2> QED
    BY <1>2, <2>1, OrderStill DEF requests
<1> QED
  BY <1>1, <1>2 DEF InterruptForReason, Interrupted

(* Every outstanding write is sent again, in order.                        *)
LEMMA OrderRestored ==
  ASSUME Shapes, OrderInv, connectionState # "Connected", RestoreState(up),
         down' = <<>> \/ down' = down \/ (down # <<>> /\ down' = Tail(down)),
         UNCHANGED <<outstandingPuts, completed, putsToAck, stranded>>,
         unackedListensCount \in Nat
  PROVE  OrderInv'
<1> outstandingPuts \in SUBSET Puts /\ Listening \in SUBSET Queries
  BY DEF Shapes, Listening
<1>1. Asked = {} /\ Answered = {}
  BY WireQuiet
<1>2. PICK n \in Nat, l \in Nat, c \in Nat, ps \in Enumerations(outstandingPuts) :
        /\ DOMAIN up = 1 .. n /\ DOMAIN up' = 1 .. n + l + c
        /\ Ascending(ps) /\ DOMAIN ps = 1 .. c
        /\ \A j \in 1 .. n : up'[j] = up[j]
        /\ \A j \in n + 1 .. n + l : up'[j].type = "listen"
        /\ \A j \in n + l + 1 .. n + l + c : j - n - l \in 1 .. c /\ up'[j] = Put(ps[j - n - l])
  BY RestoredAt
<1>3. \A j \in 1 .. n : up[j].type # "put"
  BY <1>1, <1>2, PutsTyped DEF Asked, PutsOf, IsPut, PutsIn
<1>4. ASSUME NEW j \in DOMAIN up', up'[j].type = "put"
      PROVE  /\ j \in n + l + 1 .. n + l + c /\ j - n - l \in 1 .. c
             /\ up'[j].put = ps[j - n - l] /\ ps[j - n - l] \in outstandingPuts
  <2>1. j \in 1 .. n \/ j \in n + 1 .. n + l \/ j \in n + l + 1 .. n + l + c
    BY <1>2
  <2>2. j \in n + l + 1 .. n + l + c
    BY <1>2, <1>3, <1>4, <2>1
  <2>3. \A i : Put(i).put = i
    BY DEF Put
  <2> QED
    BY <1>2, <2>2, <2>3 DEF Enumerations
<1>5. Asked' = outstandingPuts
  <2>1. ASSUME NEW i \in Asked' PROVE i \in outstandingPuts
    <3>1. PICK j \in DOMAIN up' : IsPut(up'[j], i)
      BY DEF Asked, PutsOf, IsPut
    <3> QED
      BY <1>4, <3>1 DEF IsPut
  <2>2. ASSUME NEW i \in outstandingPuts PROVE i \in Asked'
    <3>1. PICK k \in 1 .. c : ps[k] = i
      BY <1>2 DEF Enumerations
    <3>2. n + l + k \in n + l + 1 .. n + l + c /\ n + l + k - n - l = k /\ n + l + k \in DOMAIN up'
      BY <1>2
    <3>3. up'[n + l + k] = Put(i)
      BY <1>2, <3>1, <3>2
    <3>4. IsPut(Put(i), i)
      BY DEF IsPut, Put
    <3> QED
      BY <3>2, <3>3, <3>4 DEF Asked, PutsOf, IsPut
  <2> QED
    BY <2>1, <2>2
<1>6. Rising(up')
  <2>1. ASSUME NEW j \in DOMAIN up', NEW k \in DOMAIN up', j < k, up'[j].type = "put", up'[k].type = "put"
        PROVE  up'[j].put < up'[k].put
    <3>1. /\ j - n - l \in 1 .. c /\ k - n - l \in 1 .. c
          /\ up'[j].put = ps[j - n - l] /\ up'[k].put = ps[k - n - l]
      BY <1>4, <2>1
    <3>2. j - n - l < k - n - l
      BY <1>2, <2>1
    <3> QED
      BY <1>2, <3>1, <3>2 DEF Ascending
  <2> QED
    BY <2>1 DEF Rising
<1>7. Answered' = {} /\ Rising(down')
  <2>1. CASE down' = <<>>
    BY <2>1 DEF Answered, PutsOf, Rising
  <2>2. CASE down' = down
    BY <1>1, <2>2 DEF Answered, PutsOf, IsPut, Rising, OrderInv, WireRises
  <2>3. CASE down # <<>> /\ down' = Tail(down)
    BY <1>1, <2>3, PutsTaken DEF OrderInv
  <2> QED
    BY <2>1, <2>2, <2>3
<1>8. connectionState' = "Connected" /\ (unackedListensCount' = 0 => unackedListensCount = 0)
  <2>1. Cardinality(Listening) \in Nat
    BY FiniteQueries
  <2> QED
    BY <2>1 DEF RestoreState
<1>9. Members(putsToAck)' = Members(putsToAck)
  BY DEF Members
<1>10. WireRises'
  BY <1>6, <1>7 DEF WireRises, Rising
<1> QED
  BY <1>5, <1>7, <1>8, <1>9, <1>10 DEF OrderInv, AnswersFirst, WireKnown, AllOut, HeldFirst, HeldStranded

-----------------------------------------------------------------------------
(* A new write comes after all others.                                     *)
LEMMA InOrderPut ==
  ASSUME Accounted, OrderInv, PutData
  PROVE  OrderInv'
<1> DEFINE i == putCounter + 1
<1>1. /\ i \in Puts /\ outstandingPuts' = outstandingPuts \cup {i}
      /\ UNCHANGED <<connectionState, putsToAck, unackedListensCount, completed, stranded, down>>
      /\ \/ connectionState = "Connected" /\ up' = Append(up, Put(i))
         \/ connectionState # "Connected" /\ up' = up
  BY DEF PutData, canSendWrites, library
<1>2. /\ \A j \in outstandingPuts \cup Members(putsToAck) \cup Asked \cup Answered : j < i
  <2>1. Asked \cup Answered \subseteq Puts
    BY DEF Asked, Answered, PutsOf
  <2>2. outstandingPuts \subseteq Puts /\ Members(putsToAck) \subseteq Puts
    BY MembersType DEF Accounted, Shapes
  <2>3. ASSUME NEW j \in Puts, j > putCounter
        PROVE  j \notin outstandingPuts \cup Members(putsToAck) \cup Asked \cup Answered
    <3>1. j \notin outstandingPuts \cup Members(putsToAck) /\ completed[j] = "no"
      BY <2>3 DEF Accounted, WritesAccountedFor
    <3> QED
      BY <3>1 DEF OrderInv, WireKnown
  <2>4. putCounter \in Int /\ \A j \in Puts : j \in Int
    BY PutsOrdered DEF Accounted, Shapes
  <2> QED
    BY <2>1, <2>2, <2>3, <2>4
<1>3. Answered' = Answered /\ Members(putsToAck)' = Members(putsToAck)
  BY <1>1 DEF Answered, PutsOf, IsPut, Members
<1>4. Put(i) \in Request /\ Put(i).type = "put" /\ Put(i).put = i /\ \A j : IsPut(Put(i), j) <=> j = i
  BY <1>1, RequestTypes DEF Put, IsPut
<1> HIDE DEF i
<1>5. CASE connectionState = "Connected" /\ up' = Append(up, Put(i))
  <2>1. Rising(up') /\ Asked' = Asked \cup {i}
    BY <1>1, <1>2, <1>4, <1>5, PutsSent DEF Accounted, OrderInv
  <2>2. WireRises'
    BY <1>1, <2>1 DEF WireRises, Rising, OrderInv
  <2> QED
    BY <1>1, <1>2, <1>3, <1>5, <2>1, <2>2
    DEF OrderInv, AnswersFirst, WireKnown, AllOut, HeldFirst, HeldStranded
<1>6. CASE connectionState # "Connected" /\ up' = up
  <2>1. Asked' = Asked /\ WireRises'
    BY <1>1, <1>6 DEF Asked, PutsOf, IsPut, WireRises, Rising, OrderInv
  <2> QED
    BY <1>1, <1>2, <1>3, <1>6, <2>1
    DEF OrderInv, AnswersFirst, WireKnown, AllOut, HeldFirst, HeldStranded
<1> QED
  BY <1>1, <1>5, <1>6

LEMMA InOrderRepo ==
  ASSUME Accounted, OrderInv, Repo
  PROVE  OrderInv'
<1>0. Shapes /\ unackedListensCount \in Nat
  BY DEF Accounted
<1>1. CASE ResumeForReason("waiting_for_open")
  BY <1>1, OrderStill DEF ResumeForReason, requests
<1>2. ASSUME NEW q \in Queries, ListenTo(q) PROVE OrderInv'
  <2> DEFINE r == Listen(q, listenCalls + 1)
  <2>1. r \in Request /\ r.type = "listen"
    BY <1>2, RequestTypes DEF ListenTo, Listen
  <2>2. /\ \/ up' = up /\ UNCHANGED unackedListensCount
           \/ up' = Append(up, r) /\ unackedListensCount' = unackedListensCount + 1
        /\ UNCHANGED <<down, connectionState, outstandingPuts, completed, putsToAck, stranded>>
    BY <1>2 DEF ListenTo, library
  <2> HIDE DEF r
  <2>3. unackedListensCount' = 0 => unackedListensCount = 0
    BY <1>0, <2>2
  <2> QED
    BY <1>0, <2>1, <2>2, <2>3, OrderRequest, OrderStill
<1>3. ASSUME NEW q \in Queries, Unlisten(q) PROVE OrderInv'
  <2> DEFINE r == [type |-> "unlisten", query |-> q]
  <2>1. r \in Request /\ r.type = "unlisten"
    BY RequestTypes
  <2>2. /\ up' = up \/ up' = Append(up, r)
        /\ UNCHANGED <<down, connectionState, outstandingPuts, completed, putsToAck, stranded, unackedListensCount>>
    BY <1>3 DEF Unlisten, library
  <2> HIDE DEF r
  <2> QED
    BY <1>0, <2>1, <2>2, OrderRequest, OrderStill
<1> QED
  BY <1>1, <1>2, <1>3, InOrderPut DEF Repo

(* An answer is for the oldest write on the wire.                          *)
LEMMA InOrderAnswer ==
  ASSUME Accounted, OrderInv, OnPut
  PROVE  OrderInv'
<1> DEFINE i == Head(down).put
<1>0. Shapes
  BY DEF Accounted
<1>1. /\ i \in Puts /\ down # <<>> /\ Head(down).type = "put" /\ down' = Tail(down)
      /\ outstandingPuts' = outstandingPuts \ {i}
      /\ UNCHANGED <<connectionState, up, unackedListensCount, stranded>>
  BY <1>0, HeadMessage, MessageFields DEF OnPut, Receive, library
<1>2. \/ i \notin outstandingPuts /\ UNCHANGED <<completed, putsToAck>>
      \/ i \in outstandingPuts /\ unackedListensCount = 0
           /\ completed' = Completed({i}, "ok") /\ UNCHANGED putsToAck
      \/ i \in outstandingPuts /\ unackedListensCount # 0
           /\ putsToAck' = Append(putsToAck, i) /\ UNCHANGED completed
  BY DEF OnPut
<1>3. Rising(down') /\ Answered = Answered' \cup {i} /\ \A j \in Answered' : i < j
  BY <1>0, <1>1, PutsTaken DEF OrderInv, IsPut
<1> HIDE DEF i
<1>4. Asked' = Asked /\ WireRises'
  BY <1>1, <1>3 DEF Asked, PutsOf, IsPut, WireRises, Rising, OrderInv
<1>5. i \in Answered /\ i \notin Answered' /\ i \notin Asked
  <2>1. i \in Int /\ ~(i < i)
    BY <1>1, PutsOrdered
  <2> QED
    BY <1>3, <2>1 DEF OrderInv, AnswersFirst
<1>6. \A j \in outstandingPuts' : i < j
  BY <1>1, <1>3 DEF OrderInv, AllOut, WireKnown, AnswersFirst
<1>7. \A j \in Puts : j # i => completed'[j] = completed[j]
  BY <1>0, <1>2, CompletedType
<1>8. Members(putsToAck)' = Members(putsToAck)
        \/ (unackedListensCount # 0 /\ i \in outstandingPuts /\ Members(putsToAck)' = Members(putsToAck) \cup {i})
  <2>1. Members(Append(putsToAck, i)) = Members(putsToAck) \cup {i}
    BY <1>0, <1>1, MembersAppend DEF Shapes
  <2> QED
    BY <1>2, <2>1 DEF Members
<1>9. Asked \subseteq Puts /\ Answered \subseteq Puts
  BY DEF Asked, Answered, PutsOf
<1>10. AnswersFirst' /\ WireKnown' /\ AllOut'
  BY <1>1, <1>3, <1>4, <1>5, <1>7, <1>9 DEF OrderInv, AnswersFirst, WireKnown, AllOut
<1>11. HeldFirst' /\ HeldStranded'
  BY <1>1, <1>6, <1>8 DEF OrderInv, HeldFirst, HeldStranded
<1> QED
  BY <1>4, <1>10, <1>11 DEF OrderInv

LEMMA InOrderListen ==
  ASSUME Accounted, OrderInv, OnListen
  PROVE  OrderInv'
<1>1. /\ Head(down).type # "put" /\ down # <<>> /\ down' = Tail(down)
      /\ unackedListensCount' = unackedListensCount - 1
      /\ UNCHANGED <<connectionState, up, outstandingPuts>>
      /\ \/ unackedListensCount = 1 /\ AckPuts
         \/ unackedListensCount # 1 /\ UNCHANGED <<completed, putsToAck, stranded>>
  BY DEF OnListen, Receive, library
<1>2. Asked' = Asked /\ Answered' = Answered /\ WireRises'
  BY <1>1, OrderRead DEF Accounted
<1>3. CASE AckPuts
  <2>1. Members(putsToAck)' = {} /\ \A i \in Puts : i \notin Members(putsToAck) => completed'[i] = completed[i]
    BY <1>3, CompletedType DEF AckPuts, Members, Accounted
  <2>2. \A i \in Puts : completed[i] = "canceled" => i \notin Members(putsToAck)
    BY DEF Accounted, WritesAccountedFor
  <2>3. Asked \subseteq Puts /\ Answered \subseteq Puts
    BY DEF Asked, Answered, PutsOf
  <2> QED
    BY <1>1, <1>2, <2>1, <2>2, <2>3 DEF OrderInv, AnswersFirst, WireKnown, AllOut, HeldFirst, HeldStranded
<1>4. CASE unackedListensCount # 1 /\ UNCHANGED <<completed, putsToAck, stranded>>
  <2>1. unackedListensCount' # 0
    BY <1>1, <1>4 DEF Accounted
  <2> QED
    BY <1>1, <1>2, <1>4, <2>1, OrderKept
<1> QED
  BY <1>1, <1>3, <1>4

LEMMA InOrderAuth ==
  ASSUME Accounted, OrderInv, OnAuth
  PROVE  OrderInv'
<1>0. Shapes /\ RestoreFirst /\ StatesAgree /\ WireOpen /\ AuthOut /\ unackedListensCount \in Nat
  BY DEF Accounted, ControlInv
<1>1. down # <<>> /\ Head(down).type = "auth"
  BY DEF OnAuth, Receive
<1>2. CASE Head(down).restore /\ RestoreState(up) /\ down' = Tail(down)
           /\ UNCHANGED <<outstandingPuts, completed, putsToAck, stranded>>
  <2>1. connectionState = "Authenticating"
    BY <1>0, <1>1, <1>2, AuthTaken DEF Restoring
  <2> QED
    BY <1>0, <1>1, <1>2, <2>1, OrderRestored
<1>3. CASE ~Head(down).restore /\ connectionState' = "Connected" /\ down' = Tail(down)
           /\ UNCHANGED <<requests, up>>
  <2>1. realtime = "connected"
    BY <1>0, <1>1 DEF WireOpen
  <2>2. \A r \in Members(up) \cup Members(down)' : ~Restoring(r)
    BY <1>0, <1>3, AuthTaken
  <2>3. Members(down) = {Head(down)} \cup Members(down)'
    BY <1>0, <1>1, <1>3, MembersReceived
  <2>4. connectionState # "Authenticating"
    BY <1>0, <1>3, <2>2, <2>3 DEF AuthOut, Restoring
  <2>5. connectionState = "Connected"
    BY <1>0, <2>1, <2>4 DEF StatesAgree, Shapes
  <2>6. Asked' = Asked /\ Answered' = Answered /\ WireRises'
    BY <1>0, <1>1, <1>3, OrderRead
  <2> QED
    BY <1>3, <2>5, <2>6, OrderKept DEF requests
<1>4. CASE OnDisconnect(interruptReasons, TRUE)
  BY <1>0, <1>4, OrderDisconnect
<1> QED
  BY <1>2, <1>3, <1>4 DEF OnAuth

LEMMA InOrderQueue ==
  ASSUME Accounted, OrderInv, Queue
  PROVE  OrderInv'
<1>0. Shapes /\ StatesAgree /\ WireOpen /\ unackedListensCount \in Nat
  BY DEF Accounted, ControlInv
<1>1. CASE RunRetry
  <2>1. connectionState # "Connected" /\ connectionState' # "Connected"
    BY <1>0, <1>1 DEF RunRetry, StatesAgree
  <2> QED
    BY <1>1, <2>1, OrderStill DEF RunRetry, requests
<1>2. CASE RefreshAuthToken
  <2>1. Head(authQueue).token \in MaybeToken
    BY <1>0, <1>2, HeadEvent, EventFields DEF RefreshAuthToken
  <2>2. /\ UNCHANGED <<down, connectionState, outstandingPuts, completed, putsToAck, stranded, unackedListensCount>>
        /\ authToken' = Head(authQueue).token
        /\ \/ up' = up
           \/ authToken' = NoToken /\ up' = Append(up, [type |-> "unauth"])
           \/ authToken' # NoToken /\ up' = Append(up, Auth(authToken', FALSE))
    BY <1>2 DEF RefreshAuthToken, requests
  <2>3. up' = up \/ \E r \in Request : r.type # "put" /\ up' = Append(up, r)
    <3>1. CASE authToken' # NoToken /\ up' = Append(up, Auth(authToken', FALSE))
      <4>1. Auth(authToken', FALSE) \in Request /\ Auth(authToken', FALSE).type = "auth"
        BY <2>1, <2>2, <3>1, RequestTypes DEF Auth, MaybeToken
      <4> QED
        BY <3>1, <4>1
    <3>2. CASE up' = Append(up, [type |-> "unauth"])
      BY <3>2, RequestTypes
    <3> QED
      BY <2>2, <3>1, <3>2
  <2> QED
    BY <1>0, <2>2, <2>3, OrderRequest, OrderStill
<1>3. CASE OnFetch
  <2>1. UNCHANGED <<up, down, outstandingPuts, completed, putsToAck, stranded, unackedListensCount>>
    BY <1>3 DEF OnFetch, requests
  <2>2. connectionState' = "Connected" <=> connectionState = "Connected"
    <3>1. ASSUME connectionState = "Connected", Head(authQueue).attempt = attempt, authQueue # <<>>,
                 Head(authQueue).type # "change"
          PROVE  FALSE
      BY <1>0, <3>1, HeadEvent DEF Accounted, ControlInv, FetchAgrees, CurrentFetchOut, StatesAgree
    <3> QED
      BY <1>3, <3>1 DEF OnFetch
  <2> QED
    BY <2>1, <2>2, OrderStill
<1>4. CASE OnReady
  <2>1. up = <<>> /\ down = <<>> /\ connectionState # "Connected"
        /\ UNCHANGED <<down, outstandingPuts, completed, putsToAck, stranded>>
    BY <1>0, <1>4 DEF OnReady, WireOpen, StatesAgree
  <2>2. CASE RestoreState(up)
    BY <1>0, <2>1, <2>2, OrderRestored
  <2>3. CASE authToken # NoToken /\ connectionState' = "Authenticating"
             /\ up' = Append(up, Auth(authToken, TRUE)) /\ UNCHANGED unackedListensCount
    <3>1. Auth(authToken, TRUE) \in Request /\ Auth(authToken, TRUE).type = "auth"
      BY <1>0, <2>3, RequestTypes DEF Auth, MaybeToken, Shapes
    <3>2. Asked' = Asked /\ Rising(up')
      BY <1>0, <2>3, <3>1, PutsSent DEF OrderInv, IsPut
    <3>3. Answered' = Answered /\ WireRises'
      BY <2>1, <3>2 DEF Answered, PutsOf, IsPut, WireRises, Rising, OrderInv
    <3> QED
      BY <2>1, <2>3, <3>2, <3>3, OrderKept
  <2> QED
    BY <1>4, <2>2, <2>3 DEF OnReady
<1>5. CASE OnListenRevoked
  <2>1. /\ down # <<>> /\ Head(down).type # "put" /\ down' = Tail(down)
        /\ UNCHANGED <<up, connectionState, outstandingPuts, completed, putsToAck, stranded, unackedListensCount>>
    BY <1>5 DEF OnListenRevoked, Receive, library
  <2>2. Asked' = Asked /\ Answered' = Answered /\ WireRises'
    BY <1>0, <2>1, OrderRead
  <2> QED
    BY <2>1, <2>2, OrderKept
<1>6. CASE OnClose
  BY <1>0, <1>6, OrderDisconnect DEF OnClose
<1>7. CASE OnShutdown
  BY <1>7, OrderInterrupt DEF OnShutdown
<1> QED
  BY <1>1, <1>2, <1>3, <1>4, <1>5, <1>6, <1>7, InOrderAnswer, InOrderListen, InOrderAuth DEF Queue

(* The server takes the oldest write that is asked for.                    *)
LEMMA InOrderHandled ==
  ASSUME Accounted, OrderInv, NEW k \in DOMAIN up, ServerHandle(k)
  PROVE  OrderInv'
<1>0. Shapes
  BY DEF Accounted
<1>1. /\ up[k] \in Request /\ up' = Without(up, k) /\ up \in Seq(Request)
      /\ UNCHANGED <<connectionState, outstandingPuts, completed, putsToAck, stranded, unackedListensCount>>
      /\ \A j \in DOMAIN up : j < k => up[j].type # "put"
  <2>1. DOMAIN up = 1 .. Len(up) /\ Len(up) \in Nat /\ up \in Seq(Request)
    BY <1>0 DEF Shapes
  <2>2. \A j \in DOMAIN up : j < k => j \in 1 .. k - 1
    BY <2>1
  <2> QED
    BY <1>0, <2>1, <2>2, HandledRequest DEF ServerHandle, library, requests
<1>2. /\ Asked = Asked' \cup {i \in Puts : IsPut(up[k], i)} /\ Rising(up')
      /\ up[k].type = "put" => \A i \in Asked' : up[k].put < i
  <2> DEFINE t == Without(up, k)
  <2>1. /\ PutsOf(up) = PutsOf(t) \cup {i \in Puts : IsPut(up[k], i)} /\ Rising(t)
        /\ up[k].type = "put" => \A i \in PutsOf(t) : up[k].put < i
    BY <1>0, <1>1, PutsTyped, PutsWithout DEF OrderInv, WireRises
  <2>2. Asked = PutsOf(up) /\ Asked' = PutsOf(up') /\ up' = t
    BY <1>1 DEF Asked, PutsOf
  <2> HIDE DEF t
  <2> QED
    BY <2>1, <2>2
<1>3. CASE up[k].type = "put"
  <2> DEFINE i == up[k].put
             m == [type |-> "put", put |-> i]
  <2>1. i \in Puts /\ down' = Append(down, m)
    BY <1>0, <1>3, HandledRequest
  <2>2. m \in Message /\ m.put = i /\ \A j : IsPut(m, j) <=> j = i
    BY <2>1, MessageTypes DEF IsPut
  <2>3. Asked = Asked' \cup {i} /\ \A j \in Asked' : i < j
    BY <1>2, <1>3, <2>1 DEF IsPut
  <2> HIDE DEF m, i
  <2>4. Rising(down') /\ Answered' = Answered \cup {i}
    BY <1>0, <2>1, <2>2, <2>3, PutsSaid DEF OrderInv, AnswersFirst
  <2>5. WireRises'
    BY <1>2, <2>4 DEF WireRises, Rising
  <2>6. Members(putsToAck)' = Members(putsToAck)
    BY <1>1 DEF Members
  <2> QED
    BY <1>1, <2>3, <2>4, <2>5, <2>6
    DEF OrderInv, AnswersFirst, WireKnown, AllOut, HeldFirst, HeldStranded
<1>4. CASE up[k].type # "put"
  <2>1. Asked' = Asked
    BY <1>2, <1>4 DEF IsPut
  <2>2. down' = down \/ \E m \in Message : m.type # "put" /\ down' = Append(down, m)
    <3>1. CASE up[k].type = "auth"
      BY <1>0, <1>1, <3>1, HandledRequest, RequestFields, MessageTypes
    <3>2. CASE up[k].type # "auth"
      BY <1>0, <1>4, <3>2, HandledRequest
    <3> QED
      BY <3>1, <3>2
  <2>3. CASE down' = down
    <3>1. Answered' = Answered /\ WireRises'
      BY <1>2, <2>3 DEF Answered, PutsOf, IsPut, WireRises, Rising, OrderInv
    <3> QED
      BY <1>1, <2>1, <3>1, OrderKept
  <2> QED
    BY <1>0, <1>1, <1>2, <2>1, <2>2, <2>3, OrderMessage
<1> QED
  BY <1>3, <1>4

LEMMA InOrderTrouble ==
  ASSUME Accounted, OrderInv, Trouble
  PROVE  OrderInv'
<1>0. Shapes
  BY DEF Accounted
<1>1. CASE Drop
  BY <1>0, <1>1, OrderDisconnect DEF Drop
<1>2. CASE InterruptForReason("repo_interrupt")
  BY <1>2, OrderInterrupt
<1>3. CASE PurgeOutstandingWrites
  <2>1. /\ outstandingPuts' = {} /\ Members(putsToAck)' = {}
        /\ \A i \in Puts : completed'[i] = IF i \in Members(putsToAck) THEN "ok"
                                           ELSE IF i \in outstandingPuts THEN "canceled" ELSE completed[i]
        /\ UNCHANGED <<up, down, connectionState>>
    BY <1>3 DEF PurgeOutstandingWrites, Members, library
  <2>2. \A i \in Puts : i \in outstandingPuts \/ completed[i] = "canceled" => i \notin Members(putsToAck)
    BY DEF Accounted, WritesAccountedFor
  <2>3. Asked' = Asked /\ Answered' = Answered /\ WireRises' /\ Asked \cup Answered \subseteq Puts
    BY <2>1 DEF Asked, Answered, PutsOf, IsPut, WireRises, Rising, OrderInv
  <2> QED
    BY <2>1, <2>2, <2>3 DEF OrderInv, AnswersFirst, WireKnown, AllOut, HeldFirst, HeldStranded
<1>4. CASE \/ Wake \/ ResumeForReason("repo_interrupt")
           \/ (\E f \in fetches : TokenFetchFails(f))
           \/ (\E token \in MaybeToken : ChangeAccount(token)) \/ InvalidateTokens
  BY <1>4, OrderStill DEF Wake, ResumeForReason, TokenFetchFails, ChangeAccount, InvalidateTokens,
                          library, requests
<1>5. ASSUME NEW m \in Pushes, ServerPush(m) PROVE OrderInv'
  <2>1. /\ m \in Message /\ m.type # "put" /\ down' = Append(down, m)
        /\ UNCHANGED <<up, connectionState, outstandingPuts, completed, putsToAck, stranded, unackedListensCount>>
    BY <1>5, MessageTypes DEF ServerPush, Pushes, library, requests
  <2>2. Asked' = Asked /\ Rising(up')
    BY <2>1 DEF Asked, PutsOf, IsPut, WireRises, Rising, OrderInv
  <2> QED
    BY <1>0, <2>1, <2>2, OrderMessage
<1> QED
  BY <1>1, <1>2, <1>3, <1>4, <1>5 DEF Trouble

LEMMA InOrderStep ==
  ASSUME Accounted, OrderInv, [Next]_vars
  PROVE  OrderInv'
<1>1. CASE UNCHANGED vars \/ (\E f \in fetches : TokenFetched(f))
  BY <1>1, OrderStill DEF TokenFetched, vars, library, requests
<1> QED
  BY <1>1, InOrderRepo, InOrderQueue, InOrderHandled, InOrderTrouble DEF Next, Service

LEMMA InOrderInit ==
  ASSUME Init
  PROVE  OrderInv
BY DEF Init, OrderInv, WireRises, Rising, AnswersFirst, WireKnown, AllOut, HeldFirst, HeldStranded,
       Asked, Answered, PutsOf, Members

-----------------------------------------------------------------------------
(* Which steps call a completion with ok.                                  *)
InTurn ==
  \A i \in Puts : (completed[i] = "no" /\ completed'[i] = "ok") =>
    \A j \in 1 .. i - 1 : completed'[j] # "no" \/ j \in stranded

LEMMA TurnKept ==
  ASSUME \A i \in Puts : completed'[i] = "ok" => completed[i] = "ok"
  PROVE  InTurn
BY DEF InTurn

LEMMA TurnDisconnect ==
  ASSUME Shapes, NEW reasons, NEW force, OnDisconnect(reasons, force)
  PROVE  InTurn
<1>1. \A i \in Puts : completed'[i] = "ok" => completed[i] = "ok"
  BY CompletedType DEF OnDisconnect
<1> QED
  BY <1>1, TurnKept

LEMMA TurnInterrupt ==
  ASSUME Shapes, NEW reason, InterruptForReason(reason)
  PROVE  InTurn
<1>1. CASE UNCHANGED completed
  BY <1>1, TurnKept
<1> QED
  BY <1>1, TurnDisconnect DEF InterruptForReason, Interrupted, requests

(* An older write that is not completed is outstanding or held back.       *)
LEMMA OlderWaits ==
  ASSUME Accounted, NEW i \in outstandingPuts \cup Members(putsToAck), NEW j \in 1 .. i - 1
  PROVE  /\ i \in Puts /\ j \in Puts /\ j < i
         /\ completed[j] = "no" => j \in outstandingPuts \cup Members(putsToAck)
<1>1. i \in Puts
  BY MembersType DEF Accounted, Shapes
<1>2. i <= putCounter
  <2>1. putCounter \in Int /\ i \in Int
    BY <1>1, PutsOrdered DEF Accounted, Shapes
  <2> QED
    BY <1>1, <2>1 DEF Accounted, WritesAccountedFor
<1>3. j \in Puts /\ j < i /\ j <= putCounter
  BY <1>1, <1>2, BoundsAssumption DEF Puts, Accounted, Shapes
<1> QED
  BY <1>1, <1>3 DEF Accounted, WritesAccountedFor, Puts, Shapes

LEMMA TurnPut ==
  ASSUME Accounted, OrderInv, OnPut
  PROVE  InTurn
<1> DEFINE i == Head(down).put
<1>0. Shapes
  BY DEF Accounted
<1>1. i \in Puts /\ down # <<>> /\ Head(down).type = "put" /\ down' = Tail(down)
  BY <1>0, HeadMessage, MessageFields DEF OnPut, Receive
<1>2. /\ UNCHANGED completed
         \/ (i \in outstandingPuts /\ unackedListensCount = 0 /\ completed' = Completed({i}, "ok"))
  BY DEF OnPut
<1>3. Answered = Answered' \cup {i} /\ \A j \in Answered' : i < j
  BY <1>0, <1>1, PutsTaken DEF OrderInv, IsPut
<1> HIDE DEF i
<1>4. CASE i \in outstandingPuts /\ unackedListensCount = 0 /\ completed' = Completed({i}, "ok")
  <2>1. \A h \in Puts : completed'[h] = "ok" => h = i \/ completed[h] = "ok"
    BY <1>0, <1>4, CompletedType
  <2>2. ASSUME NEW j \in 1 .. i - 1, completed'[j] = "no" PROVE j \in stranded
    <3>1. j \in Puts /\ j < i /\ (completed[j] = "no" => j \in outstandingPuts \cup Members(putsToAck))
      BY <1>4, OlderWaits
    <3>2. completed[j] = "no"
      BY <1>0, <1>4, <2>2, <3>1, CompletedType
    <3>3. j \notin outstandingPuts
      <4>1. i \in Int /\ j \in Int
        BY <1>1, <3>1, PutsOrdered
      <4>2. connectionState = "Connected"
        BY <1>3 DEF OrderInv, WireKnown
      <4>3. \A h \in Asked \cup Answered : h = i \/ i < h
        BY <1>3 DEF OrderInv, AnswersFirst
      <4> QED
        BY <3>1, <4>1, <4>2, <4>3 DEF OrderInv, AllOut
    <3> QED
      BY <1>4, <3>1, <3>2, <3>3 DEF OrderInv, HeldStranded
  <2> QED
    BY <2>1, <2>2 DEF InTurn
<1> QED
  BY <1>2, <1>4, TurnKept

LEMMA TurnListen ==
  ASSUME Accounted, OrderInv, OnListen
  PROVE  InTurn
<1>0. Shapes
  BY DEF Accounted
<1>1. CASE AckPuts
  <2>1. \A h \in Puts : completed'[h] = IF h \in Members(putsToAck) THEN "ok" ELSE completed[h]
    BY <1>0, <1>1, CompletedType DEF AckPuts
  <2>2. ASSUME NEW i \in Members(putsToAck), NEW j \in 1 .. i - 1, completed'[j] = "no" PROVE FALSE
    <3>1. j \in Puts /\ j < i /\ i \in Puts /\ (completed[j] = "no" => j \in outstandingPuts \cup Members(putsToAck))
      BY OlderWaits
    <3>2. j \in outstandingPuts
      BY <2>1, <2>2, <3>1
    <3>3. i < j
      BY <3>2 DEF OrderInv, HeldFirst
    <3> QED
      BY <3>1, <3>3, PutsOrdered
  <2> QED
    BY <2>1, <2>2 DEF InTurn
<1> QED
  BY <1>1, TurnKept DEF OnListen

LEMMA TurnPurge ==
  ASSUME Accounted, PurgeOutstandingWrites
  PROVE  InTurn
<1>1. \A h \in Puts : completed'[h] = IF h \in Members(putsToAck) THEN "ok"
                                      ELSE IF h \in outstandingPuts THEN "canceled" ELSE completed[h]
  BY DEF PurgeOutstandingWrites
<1>2. ASSUME NEW i \in Members(putsToAck), NEW j \in 1 .. i - 1, completed'[j] = "no" PROVE FALSE
  BY <1>1, <1>2, OlderWaits
<1> QED
  BY <1>1, <1>2 DEF InTurn

LEMMA TurnStep ==
  ASSUME Accounted, OrderInv, [Next]_vars
  PROVE  InTurn
<1>0. Shapes
  BY DEF Accounted
<1>1. CASE OnAuth \/ OnClose \/ Drop
  <2>1. CASE UNCHANGED completed
    BY <2>1, TurnKept
  <2> QED
    BY <1>0, <1>1, <2>1, TurnDisconnect DEF OnAuth, OnClose, Drop, requests
<1>2. CASE OnShutdown \/ InterruptForReason("repo_interrupt")
  BY <1>0, <1>2, TurnInterrupt DEF OnShutdown
<1>3. CASE UNCHANGED vars \/ Repo \/ Service
  <2>1. UNCHANGED completed
    BY <1>3 DEF vars, Repo, Service, ResumeForReason, ListenTo, Unlisten, PutData, TokenFetched,
                ServerHandle, requests
  <2> QED
    BY <2>1, TurnKept
<1>4. CASE RunRetry \/ RefreshAuthToken \/ OnFetch \/ OnReady \/ OnListenRevoked
  <2>1. UNCHANGED completed
    BY <1>4 DEF RunRetry, RefreshAuthToken, OnFetch, OnReady, OnListenRevoked, requests
  <2> QED
    BY <2>1, TurnKept
<1>5. CASE \/ Wake \/ ResumeForReason("repo_interrupt")
           \/ (\E f \in fetches : TokenFetchFails(f))
           \/ (\E token \in MaybeToken : ChangeAccount(token)) \/ InvalidateTokens
           \/ (\E m \in Pushes : ServerPush(m))
  <2>1. UNCHANGED completed
    BY <1>5 DEF Wake, ResumeForReason, TokenFetchFails, ChangeAccount, InvalidateTokens, ServerPush, requests
  <2> QED
    BY <2>1, TurnKept
<1> QED
  BY <1>1, <1>2, <1>3, <1>4, <1>5, TurnPut, TurnListen, TurnPurge DEF Next, Queue, Trouble

(* The completion of a write is called with ok only after those of all the *)
(* writes made before it, but for the stranded ones (ackPuts, sendPut,     *)
(* onDisconnect), however often the connection is lost.                    *)
THEOREM CompletionsInOrder == Spec => CompletedInOrder
<1>1. ASSUME Accounted, OrderInv, [Next]_vars
      PROVE  [\A i \in Puts : (completed[i] = "no" /\ completed'[i] = "ok") =>
                 \A j \in 1 .. i - 1 : completed'[j] # "no" \/ j \in stranded]_vars
  BY <1>1, TurnStep DEF InTurn
<1>2. Shapes /\ ControlInv /\ ReportInv /\ WritesAccountedFor /\ UnackedListensOut => Accounted
  BY CountNat DEF Accounted, ReportInv, UnackedListensOut
<1>3. Init => OrderInv
  BY InOrderInit
<1>4. Accounted /\ OrderInv /\ [Next]_vars => OrderInv'
  BY InOrderStep
<1>5. Spec => []ReportInv
  BY ControlInductive, ReportInit, ReportStep, PTL DEF Spec
<1>6. Spec => []Accounted
  BY <1>2, <1>5, ControlInductive, CountInductive, EveryWriteAccounted, PTL
<1>7. Spec => []OrderInv
  BY <1>3, <1>4, <1>6, PTL DEF Spec
<1> QED
  BY <1>1, <1>6, <1>7, PTL DEF Spec, CompletedInOrder

-----------------------------------------------------------------------------
(***************************************************************************)
(* The writes are a queue.                                                 *)
(***************************************************************************)
LEMMA QueueMapped ==
  ASSUME Shapes, Shapes'
  PROVE  /\ Handled = Answered \cap outstandingPuts
         /\ Handled' = Answered' \cap outstandingPuts'
         /\ \A i \in GivenUp : i \in Puts /\ completed[i] \in {"disconnect", "canceled"}
<1>1. outstandingPuts \subseteq Puts /\ outstandingPuts' \subseteq Puts
  BY DEF Shapes
<1> QED
  BY <1>1 DEF Handled, Answered, PutsOf, IsPut, GivenUp

QueueMoves == Queued!Next \/ UNCHANGED Queued!vars

(* The queue does not move.                                                *)
LEMMA QueueStill ==
  ASSUME Shapes, Shapes', Answered' = Answered,
         UNCHANGED <<putCounter, outstandingPuts, completed, lastApplied>>
  PROVE  QueueMoves
<1>1. Handled' = Handled
  BY QueueMapped
<1>2. GivenUp' = GivenUp
  BY DEF GivenUp
<1> QED
  BY <1>1, <1>2 DEF Queued!vars, QueueMoves

LEMMA QueueUnread ==
  ASSUME Shapes, Shapes', UNCHANGED <<down, putCounter, outstandingPuts, completed, lastApplied>>
  PROVE  QueueMoves
<1>1. Answered' = Answered
  BY DEF Answered, PutsOf, IsPut
<1> QED
  BY <1>1, QueueStill

LEMMA QueueRead ==
  ASSUME Shapes, Shapes', OrderInv, down # <<>>, Head(down).type # "put", down' = Tail(down),
         UNCHANGED <<putCounter, outstandingPuts, completed, lastApplied>>
  PROVE  QueueMoves
<1>1. Answered' = Answered
  BY PutsTaken DEF OrderInv, IsPut
<1> QED
  BY <1>1, QueueStill

LEMMA QueueSaid ==
  ASSUME Shapes, Shapes', OrderInv, NEW m \in Message, m.type # "put", down' = Append(down, m),
         UNCHANGED <<putCounter, outstandingPuts, completed, lastApplied>>
  PROVE  QueueMoves
<1>1. Answered' = Answered
  BY PutsSaid DEF OrderInv, IsPut
<1> QED
  BY <1>1, QueueStill

LEMMA QueueMakes ==
  ASSUME Accounted, Shapes', OrderInv, PutData
  PROVE  QueueMoves
<1> DEFINE i == putCounter + 1
<1>0. Shapes
  BY DEF Accounted
<1>1. /\ i \in Puts /\ putCounter' = i /\ outstandingPuts' = outstandingPuts \cup {i}
      /\ UNCHANGED <<down, completed, lastApplied>>
  BY DEF PutData, server
<1>2. i > putCounter /\ putCounter < LastPut
  BY <1>0, <1>1, BoundsAssumption DEF Puts, Shapes
<1>3. completed[i] = "no" /\ i \notin outstandingPuts
  BY <1>1, <1>2 DEF Accounted, WritesAccountedFor
<1>4. i \notin Answered
  BY <1>3 DEF OrderInv, WireKnown
<1>5. Answered' = Answered
  BY <1>1 DEF Answered, PutsOf, IsPut
<1>6. Handled' = Handled
  BY <1>0, <1>1, <1>4, <1>5, QueueMapped
<1>7. GivenUp' = GivenUp
  BY <1>1 DEF GivenUp
<1> QED
  BY <1>1, <1>2, <1>6, <1>7 DEF QueueMoves, Queued!Next, Queued!Make

LEMMA QueueRewinds ==
  ASSUME Shapes, Shapes', NEW reasons, NEW force, OnDisconnect(reasons, force), UNCHANGED lastApplied
  PROVE  QueueMoves
<1>1. /\ outstandingPuts' = outstandingPuts \ SentTransactions
      /\ completed' = Completed(SentTransactions, "disconnect")
      /\ down' = <<>> /\ UNCHANGED putCounter
  BY DEF OnDisconnect
<1>2. SentTransactions \in SUBSET (outstandingPuts \cap Transactions) /\ SentTransactions \subseteq Puts
  BY DEF SentTransactions, Shapes
<1>3. Handled' = {}
  BY <1>1 DEF Handled
<1>4. GivenUp' = GivenUp \cup SentTransactions
  <2>1. \A i \in Puts : completed'[i] = IF i \in SentTransactions THEN "disconnect" ELSE completed[i]
    BY <1>1, CompletedType
  <2> QED
    BY <1>2, <2>1 DEF GivenUp
<1> QED
  BY <1>1, <1>2, <1>3, <1>4 DEF QueueMoves, Queued!Next, Queued!Rewind

LEMMA QueueInterrupted ==
  ASSUME Shapes, Shapes', NEW reason, InterruptForReason(reason)
  PROVE  QueueMoves
<1>1. CASE UNCHANGED <<requests, down>>
  BY <1>1, QueueUnread DEF InterruptForReason, requests
<1> QED
  BY <1>1, QueueRewinds DEF InterruptForReason, Interrupted

LEMMA QueuePurges ==
  ASSUME Accounted, Shapes', PurgeOutstandingWrites
  PROVE  QueueMoves
<1>1. /\ outstandingPuts' = {} /\ UNCHANGED <<putCounter, lastApplied>>
      /\ \A i \in Puts : completed'[i] = IF i \in Members(putsToAck) THEN "ok"
                                         ELSE IF i \in outstandingPuts THEN "canceled" ELSE completed[i]
  BY DEF PurgeOutstandingWrites, server
<1>2. \A i \in Puts : /\ i \in Members(putsToAck) => completed[i] = "no" /\ i \notin outstandingPuts
                      /\ i \in outstandingPuts => completed[i] = "no"
  BY DEF Accounted, WritesAccountedFor
<1>3. Handled' = {}
  BY <1>1 DEF Handled
<1>4. outstandingPuts \subseteq Puts
  BY DEF Accounted, Shapes
<1>5. GivenUp' = GivenUp \cup outstandingPuts
  BY <1>1, <1>2, <1>4 DEF GivenUp
<1> QED
  BY <1>1, <1>3, <1>5 DEF QueueMoves, Queued!Next, Queued!Purge

(* Completions that are called with ok give nothing up.                    *)
LEMMA GivenUpKept ==
  ASSUME Shapes, NEW S, \A i \in S : completed[i] = "no", completed' = Completed(S, "ok")
  PROVE  GivenUp' = GivenUp
BY CompletedType DEF GivenUp

LEMMA QueueAcknowledges ==
  ASSUME Accounted, Shapes', OrderInv, OnPut
  PROVE  QueueMoves
<1> DEFINE i == Head(down).put
<1>0. Shapes
  BY DEF Accounted
<1>1. /\ i \in Puts /\ down # <<>> /\ Head(down).type = "put" /\ down' = Tail(down)
      /\ outstandingPuts' = outstandingPuts \ {i}
      /\ UNCHANGED <<putCounter, lastApplied>>
  BY <1>0, HeadMessage, MessageFields DEF OnPut, Receive, server
<1>2. UNCHANGED completed \/ (i \in outstandingPuts /\ completed' = Completed({i}, "ok"))
  BY DEF OnPut
<1>3. i \notin outstandingPuts => UNCHANGED completed
  BY DEF OnPut
<1>4. Answered = Answered' \cup {i} /\ \A j \in Answered' : i < j
  BY <1>0, <1>1, PutsTaken DEF OrderInv, IsPut
<1> HIDE DEF i
<1>5. i \in Int /\ i \notin Answered' /\ outstandingPuts \subseteq Puts
  <2>1. i \in Int /\ ~(i < i)
    BY <1>1, PutsOrdered
  <2> QED
    BY <1>0, <1>4, <2>1 DEF Shapes
<1>6. Handled = Answered \cap outstandingPuts /\ Handled' = Answered' \cap outstandingPuts'
  BY <1>0, QueueMapped
<1>7. GivenUp' = GivenUp
  <2>1. i \in outstandingPuts => completed[i] = "no"
    BY <1>1 DEF Accounted, WritesAccountedFor
  <2>2. CASE UNCHANGED completed
    BY <2>2 DEF GivenUp
  <2> QED
    BY <1>0, <1>2, <2>1, <2>2, GivenUpKept
<1>8. CASE i \in outstandingPuts
  <2>1. i \in Handled /\ Handled' = Handled \ {i}
    BY <1>1, <1>4, <1>5, <1>6, <1>8
  <2>2. ASSUME NEW j \in outstandingPuts PROVE i <= j
    <3>1. j = i \/ i < j
      BY <1>4 DEF OrderInv, AllOut, WireKnown, AnswersFirst
    <3>2. j \in Int
      BY <1>5, PutsOrdered
    <3> QED
      BY <1>5, <3>1, <3>2
  <2> QED
    BY <1>1, <1>7, <1>8, <2>1, <2>2 DEF QueueMoves, Queued!Next, Queued!Acknowledge, Queued!Oldest
<1>9. CASE i \notin outstandingPuts
  <2>1. Handled' = Handled /\ outstandingPuts' = outstandingPuts
    BY <1>1, <1>4, <1>6, <1>9
  <2> QED
    BY <1>1, <1>7, <2>1 DEF QueueMoves, Queued!vars
<1> QED
  BY <1>8, <1>9

LEMMA QueueListens ==
  ASSUME Accounted, Shapes', OrderInv, OnListen
  PROVE  QueueMoves
<1>0. Shapes
  BY DEF Accounted
<1>1. /\ Head(down).type # "put" /\ down # <<>> /\ down' = Tail(down)
      /\ UNCHANGED <<putCounter, outstandingPuts, lastApplied>>
      /\ completed' = Completed(Members(putsToAck), "ok") \/ UNCHANGED completed
  BY DEF OnListen, Receive, requests, server, AckPuts
<1>2. Answered' = Answered
  BY <1>0, <1>1, PutsTaken DEF OrderInv, IsPut
<1>3. Handled' = Handled
  BY <1>0, <1>1, <1>2, QueueMapped
<1>4. GivenUp' = GivenUp
  <2>1. Members(putsToAck) \subseteq Puts
    BY <1>0, MembersType DEF Shapes
  <2>2. \A i \in Members(putsToAck) : completed[i] = "no"
    BY <2>1 DEF Accounted, WritesAccountedFor
  <2>3. CASE UNCHANGED completed
    BY <2>3 DEF GivenUp
  <2> QED
    BY <1>0, <1>1, <2>2, <2>3, GivenUpKept
<1> QED
  BY <1>1, <1>3, <1>4 DEF QueueMoves, Queued!vars

(* The server takes the oldest write that is asked for: the oldest that is *)
(* outstanding and was not handled, or one that was cancelled.             *)
LEMMA QueueApplies ==
  ASSUME Accounted, Shapes', OrderInv, NEW k \in DOMAIN up, ServerHandle(k)
  PROVE  QueueMoves
<1>0. Shapes
  BY DEF Accounted
<1>1. /\ up[k] \in Request /\ up' = Without(up, k) /\ up \in Seq(Request)
      /\ UNCHANGED <<putCounter, outstandingPuts, completed>>
      /\ \A j \in DOMAIN up : j < k => up[j].type # "put"
  <2>1. DOMAIN up = 1 .. Len(up) /\ Len(up) \in Nat /\ up \in Seq(Request)
    BY <1>0 DEF Shapes
  <2>2. \A j \in DOMAIN up : j < k => j \in 1 .. k - 1
    BY <2>1
  <2> QED
    BY <1>0, <2>1, <2>2, HandledRequest DEF ServerHandle, library, requests
<1>2. GivenUp' = GivenUp
  BY <1>1 DEF GivenUp
<1>3. Handled = Answered \cap outstandingPuts /\ Handled' = Answered' \cap outstandingPuts'
  BY <1>0, QueueMapped
<1>4. CASE up[k].type = "put"
  <2> DEFINE i == up[k].put
             m == [type |-> "put", put |-> i]
  <2>1. i \in Puts /\ down' = Append(down, m) /\ lastApplied' = i
    BY <1>0, <1>4, HandledRequest DEF ServerHandle
  <2>2. m \in Message /\ m.put = i /\ \A j : IsPut(m, j) <=> j = i
    BY <2>1, MessageTypes DEF IsPut
  <2>3. i \in Asked /\ \A j \in Asked : j = i \/ i < j
    <3> DEFINE t == Without(up, k)
    <3>1. PutsOf(up) = PutsOf(t) \cup {j \in Puts : IsPut(up[k], j)} /\ \A j \in PutsOf(t) : i < j
      BY <1>0, <1>1, <1>4, PutsTyped, PutsWithout DEF OrderInv, WireRises
    <3> HIDE DEF t
    <3> QED
      BY <1>4, <2>1, <3>1 DEF Asked, IsPut
  <2> HIDE DEF m, i
  <2>4. Answered' = Answered \cup {i}
    BY <1>0, <2>1, <2>2, <2>3, PutsSaid DEF OrderInv, AnswersFirst
  <2>5. i \in Int /\ i \notin Answered
    <3>1. i \in Int /\ ~(i < i)
      BY <2>1, PutsOrdered
    <3> QED
      BY <2>3, <3>1 DEF OrderInv, AnswersFirst
  <2>6. CASE i \in outstandingPuts
    <3>1. Handled' = Handled \cup {i} /\ i \notin Handled
      BY <1>1, <1>3, <2>4, <2>5, <2>6
    <3>2. ASSUME NEW j \in outstandingPuts \ Handled PROVE i <= j
      <4>1. j \in Asked
        BY <1>3, <2>3, <3>2 DEF OrderInv, AllOut, WireKnown
      <4> QED
        BY <2>3, <2>5, <4>1
    <3> QED
      BY <1>1, <1>2, <2>1, <2>6, <3>1, <3>2 DEF QueueMoves, Queued!Next, Queued!Apply, Queued!Oldest
  <2>7. CASE i \notin outstandingPuts
    <3>1. i \in GivenUp
      BY <2>1, <2>3, <2>7 DEF OrderInv, WireKnown, GivenUp
    <3>2. Handled' = Handled
      BY <1>1, <1>3, <2>4, <2>7
    <3> QED
      BY <1>1, <1>2, <2>1, <3>1, <3>2 DEF QueueMoves, Queued!Next, Queued!ApplyGivenUp
  <2> QED
    BY <2>6, <2>7
<1>5. CASE up[k].type # "put"
  <2>1. UNCHANGED lastApplied
    BY <1>5 DEF ServerHandle, server
  <2>2. down' = down \/ \E m \in Message : m.type # "put" /\ down' = Append(down, m)
    <3>1. CASE up[k].type = "auth"
      BY <1>0, <1>1, <3>1, HandledRequest, RequestFields, MessageTypes
    <3>2. CASE up[k].type # "auth"
      BY <1>0, <1>5, <3>2, HandledRequest
    <3> QED
      BY <3>1, <3>2
  <2> QED
    BY <1>0, <1>1, <2>1, <2>2, QueueUnread, QueueSaid
<1> QED
  BY <1>4, <1>5

LEMMA QueueReauth ==
  ASSUME Shapes, Shapes', OrderInv, OnAuth
  PROVE  QueueMoves
<1>1. CASE OnDisconnect(interruptReasons, TRUE)
  BY <1>1, QueueRewinds DEF OnAuth
<1>2. CASE down' = Tail(down) /\ UNCHANGED <<putCounter, outstandingPuts, completed>>
  BY <1>2, QueueRead DEF OnAuth, Receive
<1>3. CASE ~OnDisconnect(interruptReasons, TRUE)
  <2>1. down' = Tail(down) /\ UNCHANGED <<putCounter, outstandingPuts, completed>>
    BY <1>3 DEF OnAuth, requests
  <2> QED
    BY <1>2, <2>1
<1> QED
  BY <1>1, <1>3

LEMMA QueueStep ==
  ASSUME Accounted, Shapes', OrderInv, [Next]_vars
  PROVE  QueueMoves
<1>0. Shapes
  BY DEF Accounted
<1>1. CASE \/ UNCHANGED vars \/ (\E f \in fetches : TokenFetched(f))
           \/ ResumeForReason("waiting_for_open") \/ ResumeForReason("repo_interrupt")
           \/ (\E q \in Queries : ListenTo(q) \/ Unlisten(q))
           \/ RunRetry \/ RefreshAuthToken \/ OnFetch \/ OnReady \/ Wake
           \/ (\E f \in fetches : TokenFetchFails(f))
           \/ (\E token \in MaybeToken : ChangeAccount(token)) \/ InvalidateTokens
  <2>1. UNCHANGED <<down, putCounter, outstandingPuts, completed, lastApplied>>
    BY <1>1 DEF vars, TokenFetched, ResumeForReason, ListenTo, Unlisten, RunRetry, RefreshAuthToken,
                OnFetch, OnReady, Wake, TokenFetchFails, ChangeAccount, InvalidateTokens,
                requests, server
  <2> QED
    BY <1>0, <2>1, QueueUnread
<1>2. CASE OnListenRevoked
  BY <1>0, <1>2, QueueRead DEF OnListenRevoked, Receive, server
<1>3. CASE OnClose \/ Drop
  BY <1>0, <1>3, QueueRewinds DEF OnClose, Drop
<1>4. CASE OnShutdown \/ InterruptForReason("repo_interrupt")
  BY <1>0, <1>4, QueueInterrupted DEF OnShutdown
<1>5. ASSUME NEW m \in Pushes, ServerPush(m) PROVE QueueMoves
  <2>1. m \in Message /\ m.type # "put" /\ down' = Append(down, m)
        /\ UNCHANGED <<putCounter, outstandingPuts, completed, lastApplied>>
    BY <1>5, MessageTypes DEF ServerPush, Pushes, requests
  <2> QED
    BY <1>0, <2>1, QueueSaid
<1>6. CASE Repo \/ UNCHANGED vars
  BY <1>1, <1>6, QueueMakes DEF Repo
<1>7. CASE Queue
  BY <1>0, <1>1, <1>2, <1>3, <1>4, <1>7, QueueReauth, QueueAcknowledges, QueueListens DEF Queue
<1>8. CASE Service
  BY <1>1, <1>8, QueueApplies DEF Service
<1>9. CASE Trouble
  BY <1>1, <1>3, <1>4, <1>5, <1>9, QueuePurges DEF Trouble
<1> QED
  BY <1>6, <1>7, <1>8, <1>9 DEF Next

LEMMA QueueInit ==
  ASSUME Init
  PROVE  Queued!Init
<1>1. GivenUp = {}
  BY DEF Init, GivenUp
<1>2. Handled = {}
  BY DEF Init, Handled
<1> QED
  BY <1>1, <1>2 DEF Init, Queued!Init

(* The connection implements the queue of writes: the server applies the   *)
(* writes of a process in the order they were made and they are            *)
(* acknowledged in that order, whatever is lost, revoked, refused or       *)
(* interrupted; only a transaction is given up with the connection         *)
(* (sendPut, restoreState, cancelSentTransactions, purgeOutstandingWrites).*)
THEOREM ConnectionImplementsQueue == Spec => WritesAreQueued
<1>1. Shapes /\ ControlInv /\ ReportInv /\ WritesAccountedFor /\ UnackedListensOut => Accounted
  BY CountNat DEF Accounted, ReportInv, UnackedListensOut
<1>2. Spec => []ReportInv
  BY ControlInductive, ReportInit, ReportStep, PTL DEF Spec
<1>3. Spec => []Accounted
  BY <1>1, <1>2, ControlInductive, CountInductive, EveryWriteAccounted, PTL
<1>4. Spec => []OrderInv
  BY <1>3, InOrderInit, InOrderStep, PTL DEF Spec
<1>5. Accounted /\ Shapes' /\ OrderInv /\ [Next]_vars => [Queued!Next]_(Queued!vars)
  BY QueueStep DEF QueueMoves
<1> QED
  BY <1>3, <1>4, <1>5, QueueInit, ControlInductive, PTL DEF Spec, WritesAreQueued, Queued!Spec
=============================================================================
