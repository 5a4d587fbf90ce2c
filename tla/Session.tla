------------------------------- MODULE Session -------------------------------
(***************************************************************************)
(* One session of the server (src/pkg/mcp/server.go): handleMsg, which     *)
(* listenSessions runs for every message of the client and which starts a  *)
(* goroutine for all but one of them; those goroutines; the requests they  *)
(* send back to the client through s.sendRequest; the session's pings and  *)
(* listen goroutines; and the end of the session or of the server.         *)
(*                                                                         *)
(* The client is the environment.  It keeps to the protocol: initialize,   *)
(* then notifications/initialized, then requests, with pings at any time.  *)
(* Its messages arrive in any order it could have sent them in.            *)
(***************************************************************************)
EXTENDS Naturals, FiniteSets

CONSTANTS
  Reqs,       \* the client's requests, by id
  Kinds,      \* the kinds of request it makes, a subset of AllKinds
  Servers,    \* which of PromptServer, ResourceServer, ToolServer, LogHandler were given
  MaxCalls,   \* bound: requests one handler sends to the client
  MaxPings,   \* bound: pings of the session
  MaxUpdates, \* bound: changes of the resource clients subscribe to
  Pinger      \* the pings goroutine, as the maker of requests to the client

AllKinds == {"ping", "prompts", "resources", "subscribe", "unsubscribe", "tools",
             "completePrompt", "completeResource", "setLevel"}

ASSUME ConstantsAssumption ==
  /\ Kinds \subseteq AllKinds
  /\ Servers \subseteq {"prompts", "resources", "tools", "logging"}
  /\ MaxCalls \in Nat /\ MaxPings \in Nat /\ MaxUpdates \in Nat
  /\ Pinger \notin Reqs

Callers == Reqs \cup {Pinger}
Bound(x) == IF x = Pinger THEN MaxPings ELSE MaxCalls
CallIDs == {<<x, n>> : x \in Callers, n \in 1..(MaxCalls + MaxPings)}

VARIABLES
  hello,          \* handshake: "new", "asked", "answered", "ready" (initialized handled), "refused"
  initGo,         \* the handleNotificationsInitialized goroutine: "none", "run", "done"
  initialized,    \* session.initialized
  loop,           \* listenSessions: "recv", "watcher" (in OnRootsListChanged), "stopped"
  kind,           \* kind[r]: the method of request r, "none" until it arrives
  h,              \* h[r]: the goroutine of request r
  answered,       \* requests whose response reached the client
  clientRequests, \* the keys of session.clientRequests
  cancelGo,       \* requests with a handleNotificationsCancelled goroutine under way
  cancelled,      \* requests whose cancellation was handled while they were registered
  calls,          \* calls[x]: how many requests x has sent to the client
  cb,             \* cb[x]: where x is in s.sendRequest
  got,            \* got[id]: the answer s.sendRequest returned for request id, <<>> for none or an error
  asked,          \* requests the client has received and not answered
  resultGo,       \* answers with a handleResult goroutine at resChan <- msg
  subscribed,     \* the resource is in session.subscribedResources
  listen,         \* the listen goroutine: "select", "send" (a resource update), "stopped"
  updates,        \* how often the resource has changed
  quiet,          \* unsubscriptions made after every subscription had returned, none made since
  ctxDone,        \* session.ctx is cancelled
  stopping,       \* server.stop: "no", "cancelled", "errs" (errsChan closed)
  panicked        \* why the process is gone: "no", "closedErrs", "nilServer", "nilCancel"

helloVars == <<hello, initGo, initialized>>
reqVars == <<kind, h, answered, clientRequests>>
cancelVars == <<cancelGo, cancelled>>
callVars == <<calls, cb, got, asked, resultGo>>
subVars == <<subscribed, listen, updates, quiet>>
endVars == <<ctxDone, stopping>>
vars == <<helloVars, loop, reqVars, cancelVars, callVars, subVars, endVars, panicked>>

Init ==
  /\ hello = "new" /\ initGo = "none" /\ initialized = FALSE
  /\ loop = "recv"
  /\ kind = [r \in Reqs |-> "none"]
  /\ h = [r \in Reqs |-> "none"]
  /\ answered = {} /\ clientRequests = {} /\ cancelGo = {} /\ cancelled = {}
  /\ calls = [x \in Callers |-> 0]
  /\ cb = [x \in Callers |-> "idle"]
  /\ got = [id \in CallIDs |-> <<>>]
  /\ asked = {} /\ resultGo = {}
  /\ subscribed = FALSE /\ listen = "select" /\ updates = 0 /\ quiet = {}
  /\ ctxDone = FALSE /\ stopping = "no"
  /\ panicked = "no"

\* logError: a send on errsChan once server.stop has closed it panics, in a
\* select with a default as well.
logError == panicked' = IF stopping = "errs" THEN "closedErrs" ELSE panicked
\* Reported or not, depending on which case of a select was taken.
mayLogError == panicked' = panicked \/ logError

-----------------------------------------------------------------------------
(* The handshake *)

\* handleMsg and handleInitialize; Negotiation has the decision itself.
handleInitialize ==
  /\ loop = "recv" /\ hello = "new"
  /\ hello' = "asked"
  /\ UNCHANGED <<initGo, initialized, loop, reqVars, cancelVars, callVars, subVars, endVars, panicked>>

\* Its response: accepted, refused (an error, also logged), or not sent.
InitializeReplies ==
  /\ hello = "asked"
  /\ hello' \in {"answered", "refused"}
  /\ mayLogError
  /\ UNCHANGED <<initGo, initialized, loop, reqVars, cancelVars, callVars, subVars, endVars>>

\* notifications/initialized arrives: a goroutine is to record it.
InitializedArrives ==
  /\ loop = "recv" /\ hello = "answered"
  /\ hello' = "ready"
  /\ initGo' = "run"
  /\ UNCHANGED <<initialized, loop, reqVars, cancelVars, callVars, subVars, endVars, panicked>>

handleNotificationsInitialized ==
  /\ initGo = "run"
  /\ initGo' = "done"
  /\ initialized' = TRUE
  /\ UNCHANGED <<hello, loop, reqVars, cancelVars, callVars, subVars, endVars, panicked>>

-----------------------------------------------------------------------------
(* handleMsg: who takes a request.  One that nobody takes is acknowledged  *)
(* and never answered; one whose params do not unmarshal is refused by the *)
(* verdict and changes nothing here.                                       *)

handleBasicMessages(k) == k = "ping"
handlePromptMessages(k) == k = "prompts" /\ "prompts" \in Servers
handleResourceMessages(k) ==
  k \in {"resources", "subscribe", "unsubscribe"} /\ "resources" \in Servers
handleToolMessages(k) == k = "tools" /\ "tools" \in Servers
handleCompletionMessages(k) == k \in {"completePrompt", "completeResource"}
handleLoggingMessages(k) == k = "setLevel" /\ "logging" \in Servers

Taken(k) ==
  \/ handleBasicMessages(k) \/ handlePromptMessages(k) \/ handleResourceMessages(k)
  \/ handleToolMessages(k) \/ handleCompletionMessages(k) \/ handleLoggingMessages(k)

SubscriptionsReturned == \A q \in Reqs : kind[q] = "subscribe" => q \in answered

handleMsg(r, k) ==
  /\ loop = "recv" /\ kind[r] = "none"
  /\ hello = "ready" \/ k = "ping"
  /\ kind' = [kind EXCEPT ![r] = k]
  /\ h' = [h EXCEPT ![r] = IF Taken(k) THEN "start" ELSE "ignored"]
  /\ quiet' = IF k = "subscribe" THEN {}
              ELSE IF k = "unsubscribe" /\ SubscriptionsReturned THEN quiet \cup {r}
              ELSE quiet
  /\ UNCHANGED <<helloVars, loop, answered, clientRequests, cancelVars, callVars, subscribed,
                 listen, updates, endVars, panicked>>

\* notifications/roots/list_changed calls the watcher in the loop itself.
RootsListChanged ==
  /\ loop = "recv" /\ hello = "ready"
  /\ loop' = "watcher"
  /\ UNCHANGED <<helloVars, reqVars, cancelVars, callVars, subVars, endVars, panicked>>

WatcherReturns ==
  /\ loop = "watcher"
  /\ loop' = "recv"
  /\ UNCHANGED <<helloVars, reqVars, cancelVars, callVars, subVars, endVars, panicked>>


-----------------------------------------------------------------------------
(* The goroutines of the requests *)

\* Keys of a sync.Map are equal only if their dynamic types are.
RegisteredKey(r) == <<"MustString", r>>  \* clientRequests.Store(msgID, ...)
\* Mutant: the same key type, and the wrong assertion still there.
MatchingKey(r) == <<"MustString", r>>

CancelKey(r) == <<"string", r>>          \* clientRequests.Load(params.RequestID)

\* Mutant: the check is left out.
Unchecked(r) == h[r] = "start"

\* isInitialized: a request that finds the session not initialized is dropped.
isInitialized(r) ==
  /\ h[r] = "start"
  /\ initialized

Dropped(r) ==
  /\ h[r] = "start" /\ kind[r] # "ping" /\ ~initialized
  /\ h' = [h EXCEPT ![r] = "dropped"]
  /\ UNCHANGED <<helloVars, loop, kind, answered, clientRequests, cancelVars, callVars, subVars,
                 endVars, panicked>>

handlePing(r) ==
  /\ h[r] = "start" /\ kind[r] = "ping"
  /\ h' = [h EXCEPT ![r] = "send"]
  /\ UNCHANGED <<helloVars, loop, kind, answered, clientRequests, cancelVars, callVars, subVars,
                 endVars, panicked>>

handleLoggingSetLevel(r) ==
  /\ isInitialized(r) /\ kind[r] = "setLevel"
  /\ h' = [h EXCEPT ![r] = "send"]
  /\ UNCHANGED <<helloVars, loop, kind, answered, clientRequests, cancelVars, callVars, subVars,
                 endVars, panicked>>

\* Mutant: the server's interface is told, the session's own map is not.
SubscribeForgets(r) ==
  /\ isInitialized(r) /\ kind[r] \in {"subscribe", "unsubscribe"}
  /\ h' = [h EXCEPT ![r] = "send"]
  /\ clientRequests' = clientRequests \cup {RegisteredKey(r)}
  /\ UNCHANGED <<helloVars, loop, kind, answered, cancelVars, callVars, subVars, endVars, panicked>>

\* Mutant: the unsubscription leaves the session's map alone.
UnsubscribeForgets(r) ==
  /\ isInitialized(r) /\ kind[r] \in {"subscribe", "unsubscribe"}
  /\ h' = [h EXCEPT ![r] = "send"]
  /\ clientRequests' = clientRequests \cup {RegisteredKey(r)}
  /\ subscribed' = (subscribed \/ kind[r] = "subscribe")
  /\ UNCHANGED <<helloVars, loop, kind, answered, cancelVars, callVars, listen, updates, quiet,
                 endVars, panicked>>

\* handleResourcesSubscribe and handleResourcesUnsubscribe, up to sendResult.
handleSubscription(r) ==
  /\ isInitialized(r) /\ kind[r] \in {"subscribe", "unsubscribe"}
  /\ h' = [h EXCEPT ![r] = "send"]
  /\ clientRequests' = clientRequests \cup {RegisteredKey(r)}
  /\ subscribed' = (kind[r] = "subscribe")
  /\ UNCHANGED <<helloVars, loop, kind, answered, cancelVars, callVars, listen, updates, quiet,
                 endVars, panicked>>

\* The handlers of prompts, resources and tools, up to the user's code.
handleUserRequest(r) ==
  /\ isInitialized(r) /\ kind[r] \in {"prompts", "resources", "tools"}
  /\ h' = [h EXCEPT ![r] = "user"]
  /\ clientRequests' = clientRequests \cup {RegisteredKey(r)}
  /\ UNCHANGED <<helloVars, loop, kind, answered, cancelVars, callVars, subVars, endVars, panicked>>

CompletionServer(k) == IF k = "completePrompt" THEN "prompts" ELSE "resources"

\* handleCompletePrompt and handleCompleteResource are started whether or not
\* there is such a server: without one the call is through a nil interface.
handleCompletion(r) ==
  /\ isInitialized(r) /\ kind[r] \in {"completePrompt", "completeResource"}
  /\ h' = [h EXCEPT ![r] = "user"]
  /\ clientRequests' = clientRequests \cup {RegisteredKey(r)}
  /\ panicked' = IF CompletionServer(kind[r]) \in Servers THEN panicked ELSE "nilServer"
  /\ UNCHANGED <<helloVars, loop, kind, answered, cancelVars, callVars, subVars, endVars>>

\* The user's code returns a result or an error: both are sent.
UserReturns(r) ==
  /\ h[r] = "user" /\ cb[r] = "idle"
  /\ h' = [h EXCEPT ![r] = "send"]
  /\ UNCHANGED <<helloVars, loop, kind, answered, clientRequests, cancelVars, callVars, subVars,
                 endVars, panicked>>

\* What a Send that fails leaves behind: it gives up with its context, the
\* goroutine that writes does not, and the message may arrive all the same.
FailedSend(arrived, m) == {arrived, arrived \cup {m}}

\* sendResult or sendError: Send comes back, the response sent or not.
Replies(r) ==
  /\ h[r] = "send"
  /\ h' = [h EXCEPT ![r] = "done"]
  /\ \/ answered' = answered \cup {r} /\ UNCHANGED panicked
     \/ answered' \in FailedSend(answered, r) /\ logError
  /\ UNCHANGED <<helloVars, loop, kind, clientRequests, cancelVars, callVars, subVars, endVars>>

\* notifications/cancelled arrives for a request the client has made.
CancelArrives(r) ==
  /\ loop = "recv" /\ kind[r] # "none" /\ r \notin cancelGo \cup cancelled \cup answered
  /\ cancelGo' = cancelGo \cup {r}
  /\ UNCHANGED <<helloVars, loop, reqVars, cancelled, callVars, subVars, endVars, panicked>>

\* The lookup is by the id as a string, the entry under it as a MustString.
\* Were it found, r.(request) would fail on the *request stored and, once the
\* cancellation is logged, req.cancel() call nil.
handleNotificationsCancelled(r) ==
  /\ r \in cancelGo
  /\ cancelGo' = cancelGo \ {r}
  /\ cancelled' = IF RegisteredKey(r) \in clientRequests THEN cancelled \cup {r} ELSE cancelled
  /\ panicked' = IF CancelKey(r) \notin clientRequests THEN panicked
                 ELSE IF stopping = "errs" THEN "closedErrs" ELSE "nilCancel"
  /\ UNCHANGED <<helloVars, loop, reqVars, callVars, subVars, endVars>>

-----------------------------------------------------------------------------
(* s.sendRequest, called by the user's code or by the pings goroutine *)

Current(x) == <<x, calls[x]>>

\* Mutant: one channel per caller, used again by its next call.
SharedResChan(id) == id[1]

\* registerRequest: a fresh uuid and under it a fresh resChan for every call.
ResChan(id) == id

sendRequest(x) ==
  /\ cb[x] = "idle" /\ calls[x] < Bound(x)
  /\ x \in Reqs => h[x] = "user"
  /\ calls' = [calls EXCEPT ![x] = @ + 1]
  /\ cb' = [cb EXCEPT ![x] = "sending"]
  /\ UNCHANGED <<helloVars, loop, reqVars, cancelVars, got, asked, resultGo, subVars, endVars,
                 panicked>>

CallSent(x) ==
  /\ cb[x] = "sending"
  /\ cb' = [cb EXCEPT ![x] = "waiting"]
  /\ asked' = asked \cup {Current(x)}
  /\ UNCHANGED <<helloVars, loop, reqVars, cancelVars, calls, got, resultGo, subVars, endVars, panicked>>

CallSendFails(x) ==
  /\ cb[x] = "sending"
  /\ cb' = [cb EXCEPT ![x] = "idle"]
  /\ asked' \in FailedSend(asked, Current(x))
  /\ logError
  /\ UNCHANGED <<helloVars, loop, reqVars, cancelVars, calls, got, resultGo, subVars, endVars>>

\* Mutant: the select of sendRequest without its ticker and its deadline.
NoTimeout(x) == FALSE

\* The readTimeout ticker (logged), or sCtx done (logged by ping only).
CallTimesOut(x) ==
  /\ cb[x] = "waiting"
  /\ cb' = [cb EXCEPT ![x] = "idle"]
  /\ mayLogError
  /\ UNCHANGED <<helloVars, loop, reqVars, cancelVars, calls, got, asked, resultGo, subVars, endVars>>

\* The client's answer arrives; a goroutine takes it to its resChan.
ResultArrives(id) ==
  /\ loop = "recv" /\ id \in asked
  /\ asked' = asked \ {id}
  /\ resultGo' = resultGo \cup {id}
  /\ UNCHANGED <<helloVars, loop, reqVars, cancelVars, calls, cb, got, subVars, endVars, panicked>>

handleResult(x, id) ==
  /\ cb[x] = "waiting" /\ id \in resultGo
  /\ ResChan(id) = ResChan(Current(x))
  /\ resultGo' = resultGo \ {id}
  /\ cb' = [cb EXCEPT ![x] = "idle"]
  /\ got' = [got EXCEPT ![Current(x)] = id]
  /\ IF x = Pinger THEN mayLogError ELSE UNCHANGED panicked
  /\ UNCHANGED <<helloVars, loop, reqVars, cancelVars, calls, asked, subVars, endVars>>

\* pings returns once the session's context is done.
PingsStop ==
  /\ cb[Pinger] = "idle" /\ ctxDone
  /\ cb' = [cb EXCEPT ![Pinger] = "stopped"]
  /\ UNCHANGED <<helloVars, loop, reqVars, cancelVars, calls, got, asked, resultGo, subVars,
                 endVars, panicked>>

-----------------------------------------------------------------------------
(* listen, as far as resource updates go; Server has the rest. *)

\* The uri of a changed resource is received and looked up.
ResourceUpdated ==
  /\ listen = "select" /\ updates < MaxUpdates
  /\ updates' = updates + 1
  /\ listen' = IF subscribed THEN "send" ELSE "select"
  /\ UNCHANGED <<helloVars, loop, reqVars, cancelVars, callVars, subscribed, quiet, endVars, panicked>>

UpdateDelivered ==
  /\ listen = "send"
  /\ listen' = "select"
  /\ UNCHANGED <<helloVars, loop, reqVars, cancelVars, callVars, subscribed, updates, quiet,
                 endVars, panicked>>

UpdateNotSent ==
  /\ listen = "send"
  /\ listen' = "select"
  /\ logError
  /\ UNCHANGED <<helloVars, loop, reqVars, cancelVars, callVars, subscribed, updates, quiet, endVars>>

ListenStops ==
  /\ listen = "select" /\ ctxDone
  /\ listen' = "stopped"
  /\ UNCHANGED <<helloVars, loop, reqVars, cancelVars, callVars, subscribed, updates, quiet,
                 endVars, panicked>>

-----------------------------------------------------------------------------
(* The end of the session, and server.stop *)

SessionEnds ==
  /\ ~ctxDone
  /\ ctxDone' = TRUE
  /\ UNCHANGED <<helloVars, loop, reqVars, cancelVars, callVars, subVars, stopping, panicked>>

StopCancels ==
  /\ stopping = "no"
  /\ stopping' = "cancelled"
  /\ ctxDone' = TRUE
  /\ UNCHANGED <<helloVars, loop, reqVars, cancelVars, callVars, subVars, panicked>>

StopClosesErrs ==
  /\ stopping = "cancelled"
  /\ stopping' = "errs"
  /\ UNCHANGED <<helloVars, loop, reqVars, cancelVars, callVars, subVars, ctxDone, panicked>>

\* closeChan is closed too and listenSessions sees it.
LoopStops ==
  /\ stopping = "errs" /\ loop = "recv"
  /\ loop' = "stopped"
  /\ UNCHANGED <<helloVars, reqVars, cancelVars, callVars, subVars, endVars, panicked>>

-----------------------------------------------------------------------------
Handler(r) ==
  \/ Dropped(r) \/ handlePing(r) \/ handleLoggingSetLevel(r) \/ handleSubscription(r)
  \/ handleUserRequest(r) \/ handleCompletion(r) \/ UserReturns(r) \/ Replies(r)

CallStep(x) ==
  \/ CallSent(x) \/ CallSendFails(x) \/ CallTimesOut(x)
  \/ \E id \in resultGo : handleResult(x, id)

ListenStep == UpdateDelivered \/ UpdateNotSent \/ ListenStops

Running == panicked = "no"

Next ==
  /\ Running
  /\ \/ handleInitialize \/ InitializeReplies \/ InitializedArrives
     \/ handleNotificationsInitialized
     \/ RootsListChanged \/ WatcherReturns
     \/ \E r \in Reqs : \/ \E k \in Kinds : handleMsg(r, k)
                        \/ Handler(r) \/ CancelArrives(r) \/ handleNotificationsCancelled(r)
     \/ \E x \in Callers : sendRequest(x) \/ CallStep(x)
     \/ \E id \in CallIDs : ResultArrives(id)
     \/ PingsStop \/ ResourceUpdated \/ ListenStep
     \/ SessionEnds \/ StopCancels \/ StopClosesErrs \/ LoopStops

\* Goroutines that can go on do, timers fire, Send respects its context, and
\* the user's code returns once the requests it makes have.
Fairness ==
  /\ \A r \in Reqs : WF_vars(Running /\ Handler(r))
  /\ \A x \in Callers : WF_vars(Running /\ CallStep(x))
  /\ WF_vars(Running /\ handleNotificationsInitialized)
  /\ WF_vars(Running /\ WatcherReturns)
  /\ WF_vars(Running /\ PingsStop)
  /\ WF_vars(Running /\ ListenStep)

Spec == Init /\ [][Next]_vars
FairSpec == Spec /\ Fairness

-----------------------------------------------------------------------------
(* Properties *)

TypeOK ==
  /\ hello \in {"new", "asked", "answered", "ready", "refused"}
  /\ initGo \in {"none", "run", "done"} /\ initialized \in BOOLEAN
  /\ loop \in {"recv", "watcher", "stopped"}
  /\ kind \in [Reqs -> AllKinds \cup {"none"}]
  /\ h \in [Reqs -> {"none", "start", "ignored", "dropped", "user", "send", "done"}]
  /\ answered \subseteq Reqs
  /\ clientRequests \subseteq {"MustString", "string"} \X Reqs
  /\ cancelGo \subseteq Reqs /\ cancelled \subseteq Reqs
  /\ calls \in [Callers -> 0..(MaxCalls + MaxPings)]
  /\ cb \in [Callers -> {"idle", "sending", "waiting", "stopped"}]
  /\ got \in [CallIDs -> CallIDs \cup {<<>>}]
  /\ asked \subseteq CallIDs /\ resultGo \subseteq CallIDs
  /\ subscribed \in BOOLEAN /\ listen \in {"select", "send", "stopped"}
  /\ updates \in 0..MaxUpdates /\ quiet \subseteq Reqs
  /\ ctxDone \in BOOLEAN /\ stopping \in {"no", "cancelled", "errs"}
  /\ panicked \in {"no", "closedErrs", "nilServer", "nilCancel"}

\* The user's code runs, and a request is registered, only for a client that
\* has had the answer to initialize and sent notifications/initialized,
\* however the goroutines of the two notifications and the requests interleave.
HandshakeFirst ==
  \A r \in Reqs : h[r] = "user" \/ RegisteredKey(r) \in clientRequests => initialized /\ hello = "ready"

\* What the callers of s.sendRequest see is RPC: every request to the client
\* returns once, with its own answer or an error, never with the late answer
\* to one its caller gave up on before.
CallStatus(id) ==
  IF id[2] > calls[id[1]] THEN "idle"
  ELSE IF id = Current(id[1]) /\ cb[id[1]] \in {"sending", "waiting"} THEN "pending"
  ELSE IF got[id] # <<>> THEN "ok" ELSE "failed"

AnswersArrived == resultGo \cup {id \in CallIDs : got[id] # <<>>}

Abstract == INSTANCE RPC WITH
  Calls <- CallIDs, None <- <<>>,
  status <- [id \in CallIDs |-> CallStatus(id)],
  executed <- AnswersArrived,
  answer <- got

ImplementsRPC == Abstract!Spec

\* Once SubscribeResource has returned to the client, and unless it asks to
\* unsubscribe, listen finds the resource subscribed: the store comes before
\* the response, whatever else runs in between.
SubscriptionHolds ==
  (\E r \in answered : kind[r] = "subscribe") /\ (\A r \in Reqs : kind[r] # "unsubscribe")
    => subscribed

\* client.go, UnsubscribeResource: "After unsubscribing, the client will no
\* longer receive notifications": a change made after it has returned is not
\* announced, unless the client subscribes anew.  (One that listen has looked
\* up before may still be on its way.)
UnsubscribedSilent ==
  [][ResourceUpdated /\ quiet \cap answered # {} => listen' = "select"]_vars

\* Two things end the process: an error reported after server.stop has closed
\* errsChan, and a completion request to a server without the interface for
\* it.  A cancellation is not among them: the nil cancel function of
\* handleNotificationsCancelled is never called.
PanicCauses ==
  /\ panicked = "closedErrs" => stopping = "errs"
  /\ panicked = "nilServer" =>
       \E r \in Reqs : h[r] = "user" /\ CompletionServer(kind[r]) \notin Servers
  /\ panicked # "nilCancel"

\* A request the session takes up is seen through: its goroutine ends, with
\* the response handed to the transport, although the user's code may call
\* the client back and the client may never answer.
RequestsEnd == \A r \in Reqs : h[r] \in {"start", "user"} ~> (h[r] \in {"dropped", "done"} \/ ~Running)

\* A request that overtakes the goroutine of notifications/initialized is
\* dropped without a response; once one has been served none is any more.
ServedThenAll ==
  [][\A q, r \in Reqs :
       h[q] \in {"user", "send", "done"} /\ kind[q] # "ping" /\ h[r] = "start" => h'[r] # "dropped"]_vars

\* server.go, session: "clientRequests is a map of requestID to request, used
\* for cancelling requests": once the cancellation of a registered request has
\* been handled its context is done.
RequestCtxDone(r) == ctxDone \/ h[r] = "done"
CancelStopsRequest == \A r \in cancelled : RequestCtxDone(r)

=============================================================================
