---------------------------- MODULE SessionProofs ---------------------------
(***************************************************************************)
(* Proofs about Session, for any number of requests at a time, of any      *)
(* kinds, to any server: nothing is served before the handshake is done,   *)
(* nothing dropped once something was served, subscriptions hold from the  *)
(* response on, until the client asks to unsubscribe, no cancellation      *)
(* panics, and requests to the client implement RPC.                       *)
(***************************************************************************)
EXTENDS Session, TLAPS

\* What these proofs are about.
watched == <<helloVars, reqVars, subscribed, quiet>>

\* Steps of the loop, of cancellations, of requests to the client, of listen
\* and of stop.
OtherStep ==
  \/ RootsListChanged \/ WatcherReturns
  \/ \E r \in Reqs : CancelArrives(r) \/ handleNotificationsCancelled(r)
  \/ \E x \in Callers : sendRequest(x) \/ CallStep(x)
  \/ \E id \in CallIDs : ResultArrives(id)
  \/ PingsStop \/ ResourceUpdated \/ ListenStep
  \/ SessionEnds \/ StopCancels \/ StopClosesErrs \/ LoopStops

\* They leave the handshake, the requests and the subscription alone.
LEMMA OtherSteps == OtherStep \/ UNCHANGED vars => UNCHANGED watched
<1> USE DEF watched, helloVars, reqVars, cancelVars, callVars, subVars, endVars
<1>1. ASSUME NEW r \in Reqs, CancelArrives(r) \/ handleNotificationsCancelled(r)
      PROVE  UNCHANGED watched
  BY <1>1 DEF CancelArrives, handleNotificationsCancelled
<1>2. ASSUME NEW x \in Callers, sendRequest(x) \/ CallStep(x) PROVE UNCHANGED watched
  BY <1>2 DEF sendRequest, CallStep, CallSent, CallSendFails, CallTimesOut, handleResult
<1>3. ASSUME NEW id \in CallIDs, ResultArrives(id) PROVE UNCHANGED watched
  BY <1>3 DEF ResultArrives
<1>4. CASE RootsListChanged \/ WatcherReturns \/ PingsStop \/ LoopStops
  BY <1>4 DEF RootsListChanged, WatcherReturns, PingsStop, LoopStops
<1>5. CASE ResourceUpdated \/ ListenStep
  BY <1>5 DEF ResourceUpdated, ListenStep, UpdateDelivered, UpdateNotSent, ListenStops
<1>6. CASE SessionEnds \/ StopCancels \/ StopClosesErrs
  BY <1>6 DEF SessionEnds, StopCancels, StopClosesErrs
<1>7. CASE UNCHANGED vars
  BY <1>7 DEF vars
<1> QED
  BY <1>1, <1>2, <1>3, <1>4, <1>5, <1>6, <1>7 DEF OtherStep

-----------------------------------------------------------------------------
(* The handshake *)

\* Of a request; one that has not come is with nobody.
Requests ==
  /\ kind \in [Reqs -> AllKinds \cup {"none"}]
  /\ h \in [Reqs -> {"none", "start", "ignored", "dropped", "user", "send", "done"}]
  /\ \A r \in Reqs : kind[r] = "none" => h[r] = "none"
  /\ answered \subseteq {r \in Reqs : h[r] = "done"}

\* initialized is set by the goroutine of a notification that came after the
\* response; whatever is served found it set.
Handshake ==
  /\ initGo = "run" \/ initialized => hello = "ready"
  /\ \A r \in Reqs :
       \/ h[r] = "user" \/ RegisteredKey(r) \in clientRequests
       \/ (h[r] \in {"send", "done"} /\ kind[r] # "ping")
       => initialized

\* Nothing has come at the start.
LEMMA InitHandshake == Init => Requests /\ Handshake
BY DEF Init, Requests, Handshake, RegisteredKey

\* A request comes once, and its goroutine goes one way.
LEMMA StepRequests == Requests /\ [Next]_vars => Requests'
<1> SUFFICES ASSUME Requests, [Next]_vars PROVE Requests'
  OBVIOUS
<1> USE ConstantsAssumption DEF Requests, ConstantsAssumption, helloVars, reqVars
<1>1. CASE handleInitialize
  BY <1>1, Requests DEF subVars, handleInitialize
<1>2. CASE InitializeReplies
  BY <1>2, Requests DEF subVars, InitializeReplies
<1>3. CASE InitializedArrives
  BY <1>3, Requests DEF subVars, InitializedArrives
<1>4. CASE handleNotificationsInitialized
  BY <1>4, Requests DEF subVars, handleNotificationsInitialized
<1>5. ASSUME NEW r \in Reqs, NEW k \in Kinds, handleMsg(r, k) PROVE Requests'
  BY <1>5, Requests DEF subVars, handleMsg, Taken, AllKinds
<1>6. ASSUME NEW r \in Reqs, Dropped(r) PROVE Requests'
  BY <1>6, Requests DEF subVars, Dropped
<1>7. ASSUME NEW r \in Reqs, handlePing(r) PROVE Requests'
  BY <1>7, Requests DEF subVars, handlePing
<1>8. ASSUME NEW r \in Reqs, handleLoggingSetLevel(r) PROVE Requests'
  BY <1>8, Requests DEF subVars, handleLoggingSetLevel, isInitialized
<1>9. ASSUME NEW r \in Reqs, handleSubscription(r) PROVE Requests'
  BY <1>9, Requests DEF subVars, handleSubscription, isInitialized
<1>10. ASSUME NEW r \in Reqs, handleUserRequest(r) PROVE Requests'
  BY <1>10, Requests DEF subVars, handleUserRequest, isInitialized
<1>11. ASSUME NEW r \in Reqs, handleCompletion(r) PROVE Requests'
  BY <1>11, Requests DEF subVars, handleCompletion, isInitialized
<1>12. ASSUME NEW r \in Reqs, UserReturns(r) PROVE Requests'
  BY <1>12, Requests DEF subVars, UserReturns
<1>13. ASSUME NEW r \in Reqs, Replies(r) PROVE Requests'
  BY <1>13, Requests DEF subVars, Replies, FailedSend
<1>14. CASE OtherStep \/ UNCHANGED vars
  <2> UNCHANGED watched
    BY <1>14, OtherSteps
  <2> QED
    BY Requests DEF watched, helloVars, reqVars
<1> QED
  BY <1>1, <1>2, <1>3, <1>4, <1>5, <1>6, <1>7, <1>8, <1>9, <1>10, <1>11, <1>12, <1>13, <1>14 DEF Next, Handler, OtherStep

\* Handlers check isInitialized before they register a request or call the
\* user's code, and nothing takes it back.
LEMMA StepHandshake == Requests /\ Handshake /\ [Next]_vars => Handshake'
<1> SUFFICES ASSUME Requests, Handshake, [Next]_vars PROVE Handshake'
  OBVIOUS
<1> USE DEF Requests, Handshake, helloVars, reqVars, RegisteredKey
<1>1. CASE handleInitialize
  BY <1>1, Requests, Handshake DEF subVars, handleInitialize
<1>2. CASE InitializeReplies
  BY <1>2, Requests, Handshake DEF subVars, InitializeReplies
<1>3. CASE InitializedArrives
  BY <1>3, Requests, Handshake DEF subVars, InitializedArrives
<1>4. CASE handleNotificationsInitialized
  BY <1>4, Requests, Handshake DEF subVars, handleNotificationsInitialized
<1>5. ASSUME NEW r \in Reqs, NEW k \in Kinds, handleMsg(r, k) PROVE Handshake'
  BY <1>5, Requests, Handshake DEF subVars, handleMsg
<1>6. ASSUME NEW r \in Reqs, Dropped(r) PROVE Handshake'
  BY <1>6, Requests, Handshake DEF subVars, Dropped
<1>7. ASSUME NEW r \in Reqs, handlePing(r) PROVE Handshake'
  BY <1>7, Requests, Handshake DEF subVars, handlePing
<1>8. ASSUME NEW r \in Reqs, handleLoggingSetLevel(r) PROVE Handshake'
  BY <1>8, Requests, Handshake DEF subVars, handleLoggingSetLevel, isInitialized
<1>9. ASSUME NEW r \in Reqs, handleSubscription(r) PROVE Handshake'
  BY <1>9, Requests, Handshake DEF subVars, handleSubscription, isInitialized
<1>10. ASSUME NEW r \in Reqs, handleUserRequest(r) PROVE Handshake'
  BY <1>10, Requests, Handshake DEF subVars, handleUserRequest, isInitialized
<1>11. ASSUME NEW r \in Reqs, handleCompletion(r) PROVE Handshake'
  BY <1>11, Requests, Handshake DEF subVars, handleCompletion, isInitialized
<1>12. ASSUME NEW r \in Reqs, UserReturns(r) PROVE Handshake'
  BY <1>12, Requests, Handshake DEF subVars, UserReturns
<1>13. ASSUME NEW r \in Reqs, Replies(r) PROVE Handshake'
  BY <1>13, Requests, Handshake DEF subVars, Replies
<1>14. CASE OtherStep \/ UNCHANGED vars
  <2> UNCHANGED watched
    BY <1>14, OtherSteps
  <2> QED
    BY Requests, Handshake DEF watched, helloVars, reqVars
<1> QED
  BY <1>1, <1>2, <1>3, <1>4, <1>5, <1>6, <1>7, <1>8, <1>9, <1>10, <1>11, <1>12, <1>13, <1>14 DEF Next, Handler, OtherStep

\* The user's code runs, and a request is registered, only after the handshake.
THEOREM SessionHandshake == Spec => []HandshakeFirst
<1>1. Requests /\ Handshake /\ [Next]_vars => (Requests /\ Handshake)'
  BY StepRequests, StepHandshake
<1>2. Handshake => HandshakeFirst
  BY DEF Handshake, HandshakeFirst
<1> QED
  BY InitHandshake, <1>1, <1>2, PTL DEF Spec

\* Only Dropped drops a request, and only while initialized is not set.
LEMMA StepDropped ==
  Requests /\ Handshake /\ [Next]_vars
    => \A q, r \in Reqs : h[q] \in {"user", "send", "done"} /\ kind[q] # "ping" /\ h[r] = "start"
                          => h'[r] # "dropped"
<1> SUFFICES ASSUME Requests, Handshake, [Next]_vars, NEW p \in Reqs, NEW q \in Reqs,
                    h[p] \in {"user", "send", "done"}, kind[p] # "ping", h[q] = "start"
             PROVE  h'[q] # "dropped"
  OBVIOUS
<1>0. initialized
  BY DEF Handshake
<1> USE <1>0 DEF Requests, helloVars, reqVars
<1>1. CASE handleInitialize
  BY <1>1, Requests DEF subVars, handleInitialize
<1>2. CASE InitializeReplies
  BY <1>2, Requests DEF subVars, InitializeReplies
<1>3. CASE InitializedArrives
  BY <1>3, Requests DEF subVars, InitializedArrives
<1>4. CASE handleNotificationsInitialized
  BY <1>4, Requests DEF subVars, handleNotificationsInitialized
<1>5. ASSUME NEW r \in Reqs, NEW k \in Kinds, handleMsg(r, k) PROVE h'[q] # "dropped"
  BY <1>5, Requests DEF subVars, handleMsg
<1>6. ASSUME NEW r \in Reqs, Dropped(r) PROVE h'[q] # "dropped"
  BY <1>6, Requests DEF subVars, Dropped
<1>7. ASSUME NEW r \in Reqs, handlePing(r) PROVE h'[q] # "dropped"
  BY <1>7, Requests DEF subVars, handlePing
<1>8. ASSUME NEW r \in Reqs, handleLoggingSetLevel(r) PROVE h'[q] # "dropped"
  BY <1>8, Requests DEF subVars, handleLoggingSetLevel, isInitialized
<1>9. ASSUME NEW r \in Reqs, handleSubscription(r) PROVE h'[q] # "dropped"
  BY <1>9, Requests DEF subVars, handleSubscription, isInitialized
<1>10. ASSUME NEW r \in Reqs, handleUserRequest(r) PROVE h'[q] # "dropped"
  BY <1>10, Requests DEF subVars, handleUserRequest, isInitialized
<1>11. ASSUME NEW r \in Reqs, handleCompletion(r) PROVE h'[q] # "dropped"
  BY <1>11, Requests DEF subVars, handleCompletion, isInitialized
<1>12. ASSUME NEW r \in Reqs, UserReturns(r) PROVE h'[q] # "dropped"
  BY <1>12, Requests DEF subVars, UserReturns
<1>13. ASSUME NEW r \in Reqs, Replies(r) PROVE h'[q] # "dropped"
  BY <1>13, Requests DEF subVars, Replies
<1>14. CASE OtherStep \/ UNCHANGED vars
  <2> UNCHANGED watched
    BY <1>14, OtherSteps
  <2> QED
    BY Requests DEF watched, helloVars, reqVars
<1> QED
  BY <1>1, <1>2, <1>3, <1>4, <1>5, <1>6, <1>7, <1>8, <1>9, <1>10, <1>11, <1>12, <1>13, <1>14 DEF Next, Handler, OtherStep

\* Once a request has been served no request is dropped any more.
THEOREM SessionServedThenAll == Spec => ServedThenAll
<1>1. Requests /\ Handshake /\ [Next]_vars => (Requests /\ Handshake)'
  BY StepRequests, StepHandshake
<1>2. Requests /\ Handshake /\ [Next]_vars
        => [\A q, r \in Reqs : h[q] \in {"user", "send", "done"} /\ kind[q] # "ping" /\ h[r] = "start"
                               => h'[r] # "dropped"]_vars
  BY StepDropped
<1> QED
  BY InitHandshake, <1>1, <1>2, PTL DEF Spec, ServedThenAll

-----------------------------------------------------------------------------
(* Subscriptions *)

\* A subscription is stored before its response is sent, and only an
\* unsubscription takes it back; one that came when all subscriptions had
\* returned, with none since, has the last word.
Subscriptions ==
  /\ subscribed \in BOOLEAN
  /\ \A r \in Reqs : h[r] = "user" => kind[r] \notin {"subscribe", "unsubscribe"}
  /\ \A r \in Reqs : kind[r] = "subscribe" /\ h[r] \in {"send", "done"} =>
       subscribed \/ \E q \in Reqs : kind[q] = "unsubscribe"
  /\ \A r \in quiet : r \in Reqs /\ kind[r] = "unsubscribe" /\ (h[r] \in {"send", "done"} => ~subscribed)
  /\ quiet # {} => SubscriptionsReturned

\* Nothing is subscribed at the start.
LEMMA InitSubscriptions == Init => Subscriptions
BY DEF Init, Subscriptions, SubscriptionsReturned

\* Only handleSubscription changes the session's map.
LEMMA StepSubscriptions == Requests /\ Subscriptions /\ [Next]_vars => Subscriptions'
<1> SUFFICES ASSUME Requests, Subscriptions, [Next]_vars PROVE Subscriptions'
  OBVIOUS
<1> USE DEF Requests, Subscriptions, SubscriptionsReturned, helloVars, reqVars
<1>1. CASE handleInitialize
  BY <1>1, Requests, Subscriptions DEF subVars, handleInitialize
<1>2. CASE InitializeReplies
  BY <1>2, Requests, Subscriptions DEF subVars, InitializeReplies
<1>3. CASE InitializedArrives
  BY <1>3, Requests, Subscriptions DEF subVars, InitializedArrives
<1>4. CASE handleNotificationsInitialized
  BY <1>4, Requests, Subscriptions DEF subVars, handleNotificationsInitialized
<1>5. ASSUME NEW r \in Reqs, NEW k \in Kinds, handleMsg(r, k) PROVE Subscriptions'
  BY <1>5, Requests, Subscriptions DEF subVars, handleMsg, Taken
<1>6. ASSUME NEW r \in Reqs, Dropped(r) PROVE Subscriptions'
  BY <1>6, Requests, Subscriptions DEF subVars, Dropped
<1>7. ASSUME NEW r \in Reqs, handlePing(r) PROVE Subscriptions'
  BY <1>7, Requests, Subscriptions DEF subVars, handlePing
<1>8. ASSUME NEW r \in Reqs, handleLoggingSetLevel(r) PROVE Subscriptions'
  BY <1>8, Requests, Subscriptions DEF subVars, handleLoggingSetLevel, isInitialized
<1>9. ASSUME NEW r \in Reqs, handleSubscription(r) PROVE Subscriptions'
  BY <1>9, Requests, Subscriptions DEF subVars, handleSubscription, isInitialized
<1>10. ASSUME NEW r \in Reqs, handleUserRequest(r) PROVE Subscriptions'
  BY <1>10, Requests, Subscriptions DEF subVars, handleUserRequest, isInitialized
<1>11. ASSUME NEW r \in Reqs, handleCompletion(r) PROVE Subscriptions'
  BY <1>11, Requests, Subscriptions DEF subVars, handleCompletion, isInitialized
<1>12. ASSUME NEW r \in Reqs, UserReturns(r) PROVE Subscriptions'
  BY <1>12, Requests, Subscriptions DEF subVars, UserReturns
<1>13. ASSUME NEW r \in Reqs, Replies(r) PROVE Subscriptions'
  BY <1>13, Requests, Subscriptions DEF subVars, Replies, FailedSend
<1>14. CASE OtherStep \/ UNCHANGED vars
  <2> UNCHANGED watched
    BY <1>14, OtherSteps
  <2> QED
    BY Requests, Subscriptions DEF watched, helloVars, reqVars
<1> QED
  BY <1>1, <1>2, <1>3, <1>4, <1>5, <1>6, <1>7, <1>8, <1>9, <1>10, <1>11, <1>12, <1>13, <1>14 DEF Next, Handler, OtherStep

\* A subscription that has returned to the client holds until it asks to
\* unsubscribe.
THEOREM SessionSubscriptionHolds == Spec => []SubscriptionHolds
<1>1. Requests /\ Subscriptions /\ [Next]_vars => (Requests /\ Subscriptions)'
  BY StepRequests, StepSubscriptions
<1>2. Requests /\ Subscriptions => SubscriptionHolds
  BY DEF Requests, Subscriptions, SubscriptionHolds
<1> QED
  BY InitHandshake, InitSubscriptions, <1>1, <1>2, PTL DEF Spec

\* A change of a resource after its unsubscription has returned is not
\* announced, unless the client has subscribed anew.
THEOREM SessionUnsubscribedSilent == Spec => UnsubscribedSilent
<1>1. Requests /\ Subscriptions /\ [Next]_vars => (Requests /\ Subscriptions)'
  BY StepRequests, StepSubscriptions
<1>2. Requests /\ Subscriptions /\ [Next]_vars
        => [ResourceUpdated /\ quiet \cap answered # {} => listen' = "select"]_vars
  BY DEF Requests, Subscriptions, ResourceUpdated
<1> QED
  BY InitHandshake, InitSubscriptions, <1>1, <1>2, PTL DEF Spec, UnsubscribedSilent

-----------------------------------------------------------------------------
(* Panics *)

\* Requests are registered under a MustString only.
Keys ==
  /\ clientRequests \subseteq {RegisteredKey(r) : r \in Reqs}
  /\ DOMAIN h = Reqs

\* No request is registered under a string.
LEMMA NotFound == ASSUME Keys, NEW r PROVE CancelKey(r) \notin clientRequests
BY DEF Keys, CancelKey, RegisteredKey

\* While the process runs a step can end it for the two reasons only: a send on
\* errsChan after it was closed, and a completion without its server.
LEMMA StepPanics == Keys /\ PanicCauses /\ [Next]_vars => Keys' /\ PanicCauses'
<1> SUFFICES ASSUME Keys, PanicCauses, [Next]_vars PROVE Keys' /\ PanicCauses'
  OBVIOUS
<1> USE DEF Keys, PanicCauses, helloVars, reqVars, cancelVars, callVars, subVars, endVars,
        logError, mayLogError
<1>1. CASE UNCHANGED vars
  BY <1>1 DEF vars
<1>2. ASSUME Running, NEW r \in Reqs, NEW k \in Kinds, handleMsg(r, k)
      PROVE  Keys' /\ PanicCauses'
  BY <1>2 DEF Running, handleMsg
<1>3. ASSUME Running, NEW r \in Reqs, Handler(r) PROVE Keys' /\ PanicCauses'
  <2>1. CASE Dropped(r) \/ handlePing(r) \/ handleLoggingSetLevel(r) \/ UserReturns(r)
    BY <2>1, <1>3 DEF Running, Dropped, handlePing, handleLoggingSetLevel, UserReturns
  <2>2. CASE Replies(r)
    BY <2>2, <1>3 DEF Running, Replies
  <2>3. CASE handleSubscription(r) \/ handleUserRequest(r)
    BY <2>3, <1>3 DEF Running, handleSubscription, handleUserRequest
  <2>4. CASE handleCompletion(r)
    BY <2>4, <1>3 DEF Running, handleCompletion
  <2> QED BY <1>3, <2>1, <2>2, <2>3, <2>4 DEF Handler
<1>4. ASSUME Running, NEW r \in Reqs, handleNotificationsCancelled(r)
      PROVE  Keys' /\ PanicCauses'
  BY <1>4, NotFound DEF Running, handleNotificationsCancelled
<1>5. ASSUME Running, NEW x \in Callers, sendRequest(x) \/ CallStep(x)
      PROVE  Keys' /\ PanicCauses'
  BY <1>5 DEF Running, sendRequest, CallStep, CallSent, CallSendFails, CallTimesOut, handleResult
<1>6. CASE Running /\ (\/ handleInitialize \/ InitializeReplies
                       \/ InitializedArrives \/ handleNotificationsInitialized)
  BY <1>6 DEF Running, handleInitialize, InitializeReplies, InitializedArrives,
     handleNotificationsInitialized
<1>7. CASE Running /\ (ResourceUpdated \/ ListenStep \/ PingsStop)
  BY <1>7 DEF Running, ResourceUpdated, ListenStep, UpdateDelivered, UpdateNotSent, ListenStops,
     PingsStop
<1>8. CASE Running /\ (\/ RootsListChanged \/ WatcherReturns \/ SessionEnds
                       \/ StopCancels \/ StopClosesErrs \/ LoopStops)
  BY <1>8 DEF Running, RootsListChanged, WatcherReturns, SessionEnds, StopCancels,
     StopClosesErrs, LoopStops
<1>9. ASSUME Running, NEW r \in Reqs, CancelArrives(r) PROVE Keys' /\ PanicCauses'
  BY <1>9 DEF Running, CancelArrives
<1>10. ASSUME Running, NEW id \in CallIDs, ResultArrives(id) PROVE Keys' /\ PanicCauses'
  BY <1>10 DEF Running, ResultArrives
<1> QED
  BY <1>1, <1>2, <1>3, <1>4, <1>5, <1>6, <1>7, <1>8, <1>9, <1>10 DEF Next

\* Whatever requests, cancellations and answers a client sends: the process
\* ends for the two named reasons only, and no cancellation calls nil.
THEOREM SessionPanics == Spec => []PanicCauses
<1>1. Init => Keys /\ PanicCauses
  BY DEF Init, Keys, PanicCauses
<1> QED BY <1>1, StepPanics, PTL DEF Spec

-----------------------------------------------------------------------------
(* Requests to the client: s.sendRequest implements RPC *)

MaxID == MaxCalls + MaxPings

\* What the client has answered has been sent, no id is in two places, and a
\* call that waits for its answer has none yet.
CallsInv ==
  /\ calls \in [Callers -> 0..MaxID]
  /\ cb \in [Callers -> {"idle", "sending", "waiting", "stopped"}]
  /\ got \in [CallIDs -> CallIDs \cup {<<>>}]
  /\ asked \subseteq CallIDs /\ resultGo \subseteq CallIDs
  /\ asked \cap resultGo = {}
  /\ \A id \in CallIDs :
       /\ got[id] \in {<<>>, id}
       /\ got[id] # <<>> => id \notin asked \cup resultGo
       /\ got[id] # <<>> \/ id \in asked \cup resultGo => id[2] <= calls[id[1]]
  /\ \A x \in Callers :
       /\ cb[x] \in {"sending", "waiting"} => calls[x] # 0 /\ got[Current(x)] = <<>>
       /\ cb[x] = "sending" => Current(x) \notin asked \cup resultGo

\* The id of a request to the client names its caller and says which of its
\* requests it is.
LEMMA IDs ==
  /\ \A id \in CallIDs : id[1] \in Callers /\ id[2] \in 1..MaxID /\ id = <<id[1], id[2]>> /\ id # <<>>
  /\ \A x \in Callers, n \in 1..MaxID : <<x, n>> \in CallIDs /\ <<x, n>>[1] = x /\ <<x, n>>[2] = n
  /\ MaxID \in Nat
  /\ \A x \in Callers : Bound(x) \in 0..MaxID
BY ConstantsAssumption DEF ConstantsAssumption, CallIDs, MaxID, Bound

\* The steps that have no part in requests to the client leave them alone.
CallsStep ==
  \/ \E x \in Callers : sendRequest(x) \/ CallStep(x)
  \/ \E id \in CallIDs : ResultArrives(id)
  \/ PingsStop

\* Every step is one of those or leaves the requests to the client alone.
LEMMA CallSteps == [Next]_vars => CallsStep \/ UNCHANGED callVars
<1> SUFFICES ASSUME [Next]_vars PROVE CallsStep \/ UNCHANGED callVars
  OBVIOUS
<1>1. ASSUME NEW r \in Reqs, Handler(r) PROVE UNCHANGED callVars
  BY <1>1 DEF Handler, Dropped, handlePing, handleLoggingSetLevel, handleSubscription,
     handleUserRequest, handleCompletion, UserReturns, Replies
<1>2. ASSUME NEW r \in Reqs, NEW k \in Kinds, handleMsg(r, k) PROVE UNCHANGED callVars
  BY <1>2 DEF handleMsg
<1>3. ASSUME NEW r \in Reqs, CancelArrives(r) \/ handleNotificationsCancelled(r)
      PROVE  UNCHANGED callVars
  BY <1>3 DEF CancelArrives, handleNotificationsCancelled
<1>4. CASE \/ handleInitialize \/ InitializeReplies \/ InitializedArrives
           \/ handleNotificationsInitialized \/ RootsListChanged \/ WatcherReturns
  BY <1>4 DEF handleInitialize, InitializeReplies, InitializedArrives,
     handleNotificationsInitialized, RootsListChanged, WatcherReturns
<1>5. CASE ResourceUpdated \/ ListenStep
  BY <1>5 DEF ResourceUpdated, ListenStep, UpdateDelivered, UpdateNotSent, ListenStops
<1>6. CASE SessionEnds \/ StopCancels \/ StopClosesErrs \/ LoopStops \/ UNCHANGED vars
  BY <1>6 DEF SessionEnds, StopCancels, StopClosesErrs, LoopStops, vars
<1> QED
  BY <1>1, <1>2, <1>3, <1>4, <1>5, <1>6 DEF Next, CallsStep

\* No request has been sent at the start.
LEMMA InitCalls == Init => CallsInv
<1> SUFFICES ASSUME Init PROVE CallsInv
  OBVIOUS
<1> QED BY IDs DEF Init, CallsInv

\* A new call has a fresh id; the answer to it moves from the client to a
\* handleResult goroutine and from there to this call alone, if it still waits.
LEMMA StepCalls == CallsInv /\ [Next]_vars => CallsInv'
<1> SUFFICES ASSUME CallsInv, CallsStep PROVE CallsInv'
  BY CallSteps DEF CallsInv, callVars, Current
<1> USE IDs DEF CallsInv, Current
<1>1. ASSUME NEW x \in Callers, sendRequest(x) PROVE CallsInv'
  BY <1>1 DEF sendRequest
<1>2. ASSUME NEW x \in Callers, CallSent(x) PROVE CallsInv'
  BY <1>2 DEF CallSent
<1>3. ASSUME NEW x \in Callers, CallSendFails(x) PROVE CallsInv'
  BY <1>3 DEF CallSendFails, FailedSend
<1>4. ASSUME NEW x \in Callers, CallTimesOut(x) PROVE CallsInv'
  BY <1>4 DEF CallTimesOut
<1>5. ASSUME NEW x \in Callers, NEW id \in resultGo, handleResult(x, id) PROVE CallsInv'
  <2>1. id = Current(x) /\ id \in CallIDs /\ got[id] = <<>>
    BY <1>5 DEF handleResult, ResChan
  <2>2. /\ got' = [got EXCEPT ![id] = id] /\ cb' = [cb EXCEPT ![x] = "idle"]
        /\ resultGo' = resultGo \ {id} /\ UNCHANGED <<calls, asked>>
    BY <1>5, <2>1 DEF handleResult
  <2>3. \A j \in CallIDs : got'[j] = IF j = id THEN id ELSE got[j]
    BY <2>1, <2>2
  <2>4. \A y \in Callers : y # x => cb'[y] = cb[y] /\ Current(y) # id
    BY <2>1, <2>2
  <2>5. got' \in [CallIDs -> CallIDs \cup {<<>>}] /\ cb' \in [Callers -> {"idle", "sending", "waiting", "stopped"}]
    BY <2>1, <2>2
  <2>6. \A j \in CallIDs :
          /\ got'[j] \in {<<>>, j}
          /\ got'[j] # <<>> => j \notin asked' \cup resultGo'
          /\ got'[j] # <<>> \/ j \in asked' \cup resultGo' => j[2] <= calls'[j[1]]
    <3> SUFFICES ASSUME NEW j \in CallIDs
                 PROVE  /\ got'[j] \in {<<>>, j}
                        /\ got'[j] # <<>> => j \notin asked' \cup resultGo'
                        /\ got'[j] # <<>> \/ j \in asked' \cup resultGo' => j[2] <= calls'[j[1]]
      OBVIOUS
    <3>1. CASE j = id
      <4>1. id \notin asked /\ id[2] <= calls[id[1]] BY <1>5
      <4> QED BY ONLY <3>1, <4>1, <2>2, <2>3
    <3>2. CASE j # id
      <4>1. got'[j] = got[j] BY <3>2, <2>3
      <4> QED BY <3>2, <4>1, <2>2
    <3> QED BY <3>1, <3>2
  <2>7. \A y \in Callers :
          /\ cb'[y] \in {"sending", "waiting"} => calls'[y] # 0 /\ got'[Current(y)'] = <<>>
          /\ cb'[y] = "sending" => Current(y)' \notin asked' \cup resultGo'
    BY <2>1, <2>2, <2>3, <2>4
  <2> QED BY <2>2, <2>5, <2>6, <2>7
<1>6. ASSUME NEW id \in CallIDs, ResultArrives(id) PROVE CallsInv'
  BY <1>6 DEF ResultArrives
<1>7. CASE PingsStop
  BY <1>7 DEF PingsStop, Callers
<1> QED
  BY <1>1, <1>2, <1>3, <1>4, <1>5, <1>6, <1>7 DEF CallsStep, CallStep

\* A step after which one request has status s and the others theirs.
LEMMA OneStatus ==
  ASSUME NEW id \in CallIDs, NEW s, CallStatus(id)' = s,
         \A j \in CallIDs : j # id => CallStatus(j)' = CallStatus(j)
  PROVE  [j \in CallIDs |-> CallStatus(j)]' = [[j \in CallIDs |-> CallStatus(j)] EXCEPT ![id] = s]
<1> HIDE DEF CallStatus
<1> QED OBVIOUS

\* A step of one request to the client, or the answer to it, as RPC sees it:
\* the other requests keep their status and their answer.
LEMMA StepRefines ==
  CallsInv /\ [Next]_vars => [Abstract!Next]_(Abstract!vars)
<1> SUFFICES ASSUME CallsInv, CallsStep PROVE [Abstract!Next]_(Abstract!vars)
  BY CallSteps DEF Abstract!vars, callVars, CallStatus, AnswersArrived, Current
<1> DEFINE Statuses == [id \in CallIDs |-> CallStatus(id)]
<1> USE IDs
<1>1. ASSUME NEW x \in Callers, sendRequest(x) PROVE Abstract!Next
  <2>1. PICK id : id = <<x, calls[x] + 1>>
    OBVIOUS
  <2>2. id \in CallIDs /\ id[1] = x /\ id[2] = calls[x] + 1
    <3>1. calls[x] + 1 \in 1..MaxID
      BY <1>1 DEF sendRequest, CallsInv
    <3> QED BY <2>1, <3>1
  <2>3. CallStatus(id) = "idle"
    BY <2>2 DEF CallStatus, CallsInv
  <2>4. Statuses' = [Statuses EXCEPT ![id] = "pending"]
    <3>1. \A j \in CallIDs : j # id /\ j[1] = x => j[2] # calls[x] + 1
      BY <2>1, <2>2 DEF Current
    <3>2. CallStatus(id)' = "pending"
      BY <1>1, <2>1, <2>2 DEF sendRequest, CallStatus, Current, CallsInv
    <3>3. \A j \in CallIDs : j # id => CallStatus(j)' = CallStatus(j)
      BY <1>1, <2>1, <2>2, <3>1 DEF sendRequest, CallStatus, Current, CallsInv
    <3> QED BY <2>2, <3>2, <3>3, OneStatus
  <2>5. Abstract!Invoke(id)
    BY <1>1, <2>2, <2>3, <2>4 DEF sendRequest, Abstract!Invoke, AnswersArrived
  <2> QED BY <2>2, <2>5 DEF Abstract!Next
<1>2. ASSUME NEW x \in Callers, CallSent(x) PROVE UNCHANGED Abstract!vars
  <2>1. \A id \in CallIDs : CallStatus(id)' = CallStatus(id)
    BY <1>2 DEF CallSent, CallStatus, Current, CallsInv
  <2> QED BY <1>2, <2>1 DEF CallSent, Abstract!vars, AnswersArrived
<1>3. ASSUME NEW x \in Callers, CallSendFails(x) \/ CallTimesOut(x) PROVE Abstract!Next
  <2>1. PICK id : id = Current(x)
    OBVIOUS
  <2>2. id \in CallIDs /\ id[1] = x /\ id[2] = calls[x] /\ got[id] = <<>>
    BY <2>1, <1>3 DEF CallSendFails, CallTimesOut, CallsInv, Current
  <2>3. CallStatus(id) = "pending"
    BY <2>1, <2>2, <1>3 DEF CallStatus, CallsInv, CallSendFails, CallTimesOut
  <2>4. Statuses' = [Statuses EXCEPT ![id] = "failed"]
    <3>1. \A j \in CallIDs : j # id /\ j[1] = x => j[2] # calls[x]
      BY <2>1, <2>2 DEF Current
    <3>2. CallStatus(id)' = "failed"
      BY <1>3, <2>1, <2>2 DEF CallSendFails, CallTimesOut, CallStatus, Current, CallsInv
    <3>3. \A j \in CallIDs : j # id => CallStatus(j)' = CallStatus(j)
      BY <1>3, <2>1, <2>2, <3>1 DEF CallSendFails, CallTimesOut, CallStatus, Current, CallsInv
    <3> QED BY <2>2, <3>2, <3>3, OneStatus
  <2>5. Abstract!Fail(id)
    BY <1>3, <2>2, <2>3, <2>4 DEF CallSendFails, CallTimesOut, Abstract!Fail, AnswersArrived
  <2> QED BY <2>2, <2>5 DEF Abstract!Next
<1>4. ASSUME NEW x \in Callers, NEW id \in resultGo, handleResult(x, id) PROVE Abstract!Next
  <2>1. id = Current(x) /\ id \in CallIDs /\ got[id] = <<>>
    BY <1>4 DEF handleResult, ResChan, CallsInv, Current
  <2>2. /\ got' = [got EXCEPT ![id] = id] /\ cb' = [cb EXCEPT ![x] = "idle"]
        /\ resultGo' = resultGo \ {id} /\ UNCHANGED <<calls, asked>>
    BY <1>4, <2>1 DEF handleResult
  <2>3. id[1] = x /\ id[2] = calls[x]
    BY <2>1 DEF Current, CallsInv
  <2>4. CallStatus(id) = "pending"
    BY <2>1, <2>3, <1>4 DEF CallStatus, handleResult, CallsInv
  <2>5. Statuses' = [Statuses EXCEPT ![id] = "ok"]
    <3>1. \A j \in CallIDs : j # id /\ j[1] = x => j[2] # calls[x]
      BY <2>1, <2>2, <2>3 DEF Current
    <3>2. CallStatus(id)' = "ok"
      BY <2>1, <2>2, <2>3 DEF CallStatus, Current, CallsInv
    <3>3. \A j \in CallIDs : j # id => CallStatus(j)' = CallStatus(j)
      BY <2>1, <2>2, <2>3, <3>1 DEF CallStatus, Current, CallsInv
    <3> QED BY <2>1, <3>2, <3>3, OneStatus
  <2>6. AnswersArrived' = AnswersArrived /\ id \in AnswersArrived
    BY <2>1, <2>2 DEF AnswersArrived, CallsInv
  <2>7. Abstract!Return(id)
    BY <2>1, <2>2, <2>4, <2>5, <2>6 DEF Abstract!Return
  <2> QED BY <2>1, <2>7 DEF Abstract!Next
<1>5. ASSUME NEW id \in CallIDs, ResultArrives(id) PROVE Abstract!Next
  <2>1. /\ id \in asked /\ resultGo' = resultGo \cup {id} /\ UNCHANGED <<calls, cb, got>>
    BY <1>5 DEF ResultArrives
  <2>2. id \notin AnswersArrived /\ AnswersArrived' = AnswersArrived \cup {id}
    BY <2>1 DEF AnswersArrived, CallsInv
  <2>3. CallStatus(id) \in {"pending", "failed"}
    BY <2>1 DEF CallStatus, CallsInv
  <2>4. Abstract!Execute(id)
    BY <2>1, <2>2, <2>3 DEF Abstract!Execute, CallStatus, Current
  <2> QED BY <2>4 DEF Abstract!Next
<1>6. CASE PingsStop
  <2>1. \A id \in CallIDs : CallStatus(id)' = CallStatus(id)
    BY <1>6 DEF PingsStop, CallStatus, Current, CallsInv
  <2> QED BY <1>6, <2>1 DEF PingsStop, Abstract!vars, AnswersArrived
<1> QED
  BY <1>1, <1>2, <1>3, <1>4, <1>5, <1>6 DEF CallsStep, CallStep

\* What the callers of s.sendRequest see, for any number of handlers that call
\* the client back and any number of pings, is RPC: each request returns at
\* most once, with its own answer or an error, never with the late answer to
\* one that timed out before.
THEOREM SessionRefinesRPC == Spec => ImplementsRPC
<1>1. Init => Abstract!Init
  <2> SUFFICES ASSUME Init PROVE Abstract!Init
    OBVIOUS
  <2>1. \A id \in CallIDs : CallStatus(id) = "idle"
    BY IDs DEF Init, CallStatus
  <2>2. AnswersArrived = {}
    BY DEF Init, AnswersArrived
  <2> QED BY <2>1, <2>2 DEF Init, Abstract!Init
<1> QED
  BY <1>1, InitCalls, StepCalls, StepRefines, PTL DEF Spec, ImplementsRPC, Abstract!Spec

-----------------------------------------------------------------------------
(* Type correctness *)

\* What TypeOK says beyond Requests and CallsInv.
OtherTypes ==
  /\ hello \in {"new", "asked", "answered", "ready", "refused"}
  /\ initGo \in {"none", "run", "done"} /\ initialized \in BOOLEAN
  /\ loop \in {"recv", "watcher", "stopped"}
  /\ clientRequests \subseteq {"MustString", "string"} \X Reqs
  /\ cancelGo \subseteq Reqs /\ cancelled \subseteq Reqs
  /\ subscribed \in BOOLEAN /\ listen \in {"select", "send", "stopped"}
  /\ updates \in 0..MaxUpdates /\ quiet \subseteq Reqs
  /\ ctxDone \in BOOLEAN /\ stopping \in {"no", "cancelled", "errs"}
  /\ panicked \in {"no", "closedErrs", "nilServer", "nilCancel"}

\* Every step keeps them.
LEMMA StepTypes == OtherTypes /\ [Next]_vars => OtherTypes'
<1> SUFFICES ASSUME OtherTypes, [Next]_vars PROVE OtherTypes'
  OBVIOUS
<1> USE ConstantsAssumption DEF ConstantsAssumption, OtherTypes, helloVars, reqVars, cancelVars, callVars,
        subVars, endVars, logError, mayLogError
<1>1. CASE handleInitialize \/ InitializeReplies \/ InitializedArrives
  BY <1>1 DEF handleInitialize, InitializeReplies, InitializedArrives
<1>2. CASE handleNotificationsInitialized
  BY <1>2 DEF handleNotificationsInitialized
<1>3. ASSUME NEW r \in Reqs, NEW k \in Kinds, handleMsg(r, k) PROVE OtherTypes'
  BY <1>3 DEF handleMsg
<1>4. ASSUME NEW r \in Reqs, Handler(r) PROVE OtherTypes'
  <2>1. CASE Dropped(r) \/ handlePing(r) \/ handleLoggingSetLevel(r) \/ UserReturns(r)
    BY <2>1 DEF Dropped, handlePing, handleLoggingSetLevel, UserReturns
  <2>2. CASE Replies(r)
    BY <2>2 DEF Replies
  <2>3. CASE handleSubscription(r)
    BY <2>3 DEF handleSubscription, RegisteredKey
  <2>4. CASE handleUserRequest(r)
    BY <2>4 DEF handleUserRequest, RegisteredKey
  <2>5. CASE handleCompletion(r)
    BY <2>5 DEF handleCompletion, RegisteredKey
  <2> QED BY <1>4, <2>1, <2>2, <2>3, <2>4, <2>5 DEF Handler
<1>5. ASSUME NEW r \in Reqs, CancelArrives(r) PROVE OtherTypes'
  BY <1>5 DEF CancelArrives
<1>6. ASSUME NEW r \in Reqs, handleNotificationsCancelled(r) PROVE OtherTypes'
  BY <1>6 DEF handleNotificationsCancelled
<1>7. ASSUME NEW x \in Callers, sendRequest(x) \/ CallSent(x) \/ CallSendFails(x) \/ CallTimesOut(x)
      PROVE  OtherTypes'
  BY <1>7 DEF sendRequest, CallSent, CallSendFails, CallTimesOut
<1>8. ASSUME NEW x \in Callers, NEW id \in resultGo, handleResult(x, id) PROVE OtherTypes'
  BY <1>8 DEF handleResult
<1>9. ASSUME NEW id \in CallIDs, ResultArrives(id) PROVE OtherTypes'
  BY <1>9 DEF ResultArrives
<1>10. CASE RootsListChanged \/ WatcherReturns \/ PingsStop \/ LoopStops
  BY <1>10 DEF RootsListChanged, WatcherReturns, PingsStop, LoopStops
<1>11. CASE ResourceUpdated
  BY <1>11 DEF ResourceUpdated
<1>12. CASE ListenStep
  BY <1>12 DEF ListenStep, UpdateDelivered, UpdateNotSent, ListenStops
<1>13. CASE SessionEnds \/ StopCancels \/ StopClosesErrs
  <2>1. ctxDone' \in BOOLEAN
    BY <1>13, Zenon DEF SessionEnds, StopCancels, StopClosesErrs
  <2> QED BY <1>13, <2>1 DEF SessionEnds, StopCancels, StopClosesErrs
<1>14. CASE UNCHANGED vars
  BY <1>14 DEF vars
<1> QED
  BY <1>1, <1>2, <1>3, <1>4, <1>5, <1>6, <1>7, <1>8, <1>9, <1>10, <1>11, <1>12, <1>13, <1>14 DEF Next, CallStep

\* Type correctness of the session for any requests, kinds and servers.
THEOREM SessionTypes == Spec => []TypeOK
<1>1. Init => OtherTypes
  <2> SUFFICES ASSUME Init PROVE OtherTypes
    OBVIOUS
  <2>1. initialized \in BOOLEAN /\ subscribed \in BOOLEAN /\ ctxDone \in BOOLEAN
    BY Zenon DEF Init
  <2>2. updates \in 0..MaxUpdates
    BY ConstantsAssumption DEF ConstantsAssumption, Init
  <2> QED BY <2>1, <2>2 DEF Init, OtherTypes
<1>2. Requests /\ CallsInv /\ OtherTypes => TypeOK
  BY DEF Requests, CallsInv, OtherTypes, TypeOK, MaxID
<1> QED
  BY <1>1, <1>2, InitHandshake, StepRequests, InitCalls, StepCalls, StepTypes, PTL DEF Spec

=============================================================================
