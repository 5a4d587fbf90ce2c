------------------------------- MODULE Client -------------------------------
(***************************************************************************)
(* The run time of mcp.Client (src/pkg/mcp/client.go): the goroutines that *)
(* call sendRequest, the pings goroutine, the one listenMessages goroutine *)
(* that handles every incoming message in place, the transport goroutine   *)
(* that feeds it over an unbuffered channel and waits for its verdict, and *)
(* Close.  A channel operation that needs a partner is one action of both. *)
(*                                                                         *)
(* The server is the environment: it answers a request it received at most *)
(* once, in any order, or never, and pushes requests and notifications of  *)
(* its own.  Payloads are reduced to the call they belong to.              *)
(***************************************************************************)
EXTENDS Naturals, Sequences

CONSTANTS
  Calls,          \* invocations of sendRequest (the initialize call included)
  Pings,          \* those made by the pings goroutine
  ReqIDs,         \* the uuid strings registerRequest draws from
  PeerIDs,        \* ids of the requests the server sends to this client
  Pushes,         \* the kinds of message the server sends unasked, a subset of PushKinds
  MaxPushed,      \* bound: messages the server sends unasked
  ClosesMessages, \* transport.Close closes messagesChan and errsChan (SSEClient: TRUE, StdIO: FALSE)
  RootsUpdater,   \* the client was given a RootsListUpdater
  None            \* nil

PushKinds == {"ping", "roots", "sampling", "cancelled", "notify",
              "ignored",    \* a method without a handler or watcher: acknowledged, never answered
              "malformed"}  \* wrong jsonrpc version, or params that do not unmarshal

ASSUME ConstantsAssumption ==
  /\ Pushes \subseteq PushKinds
  /\ Pings \subseteq Calls
  /\ MaxPushed \in Nat
  /\ ClosesMessages \in BOOLEAN
  /\ RootsUpdater \in BOOLEAN
  /\ None \notin Calls \cup ReqIDs \cup PeerIDs
  /\ ReqIDs \cap PeerIDs = {}

VARIABLES
  connect,        \* progress of Connect: "new", "started" (goroutines run), "set" (c.sessionID assigned)
  pc,             \* pc[c]: where invocation c is, or how it returned
  reqId,          \* reqId[c]: the id registerRequest gave c
  result,         \* result[c]: the call answered by the message c returned with
  tx,             \* tx[c]: the request of c on its way to the server
  cancelled,      \* the calls whose context the application has cancelled
  clientRequests, \* clientRequests[id]: the call whose resChan is registered under id
  serverRequests, \* the keys of the map of requests received from the server
  server,         \* requests the server has received and not answered
  cancelSent,     \* ids for which notifications/cancelled reached the server
  inbox,          \* the stream from the server
  pushed,         \* how many messages the server has sent unasked
  reader,         \* the transport goroutine: "read", "offer" (messagesChan <-), "wait" (<-errs), "stopped"
  loop,           \* the listenMessages goroutine
  cur,            \* the message it is handling, None between messages
  nested,         \* the call made from inside the user's handler, if any
  pinger,         \* the pings goroutine: "off", "run", "stopped"
  rooter,         \* the listenRootsList goroutine: "off", "run", "send", "stopped"
  closing,        \* progress of Close: "open", "errs", "chan", "closed"
  panicked        \* a goroutine has panicked: the process is gone

callVars == <<pc, reqId, result, tx, cancelled, clientRequests>>
peerVars == <<server, inbox, pushed, cancelSent>>
loopVars == <<reader, loop, cur, nested, serverRequests>>
lifeVars == <<connect, pinger, rooter, closing, panicked>>
vars == <<callVars, peerVars, loopVars, lifeVars>>

Failed == {"sendError", "timeout", "cancelled"}
Returned == Failed \cup {"result"}
InCall == {"sending", "waiting", "cancelling"}

Messages ==
  [kind : PushKinds \cup {"response"}, id : ReqIDs \cup PeerIDs, body : Calls \cup {None}]

Response(r) == [kind |-> "response", id |-> r.id, body |-> r.body]
Push(k, id) == [kind |-> k, id |-> id, body |-> None]

Init ==
  /\ connect = "new"
  /\ pc = [c \in Calls |-> "idle"]
  /\ reqId = [c \in Calls |-> None]
  /\ result = [c \in Calls |-> None]
  /\ tx = [c \in Calls |-> "none"]
  /\ cancelled = {}
  /\ clientRequests = [id \in ReqIDs |-> None]
  /\ serverRequests = {}
  /\ server = {}
  /\ cancelSent = {}
  /\ inbox = <<>>
  /\ pushed = 0
  /\ reader = "read"
  /\ loop = "off"
  /\ cur = None
  /\ nested = None
  /\ pinger = "off"
  /\ rooter = IF RootsUpdater THEN "run" ELSE "off"
  /\ closing = "open"
  /\ panicked = FALSE

-----------------------------------------------------------------------------
(* Channels closed by Close, and what logError does once errsChan is. *)

ErrsClosed == closing # "open"
\* Mutant: Close forgets closeChan.
CloseChanForgotten == FALSE

CloseChanClosed == closing \in {"chan", "closed"}
MessagesClosed == closing = "closed" /\ ClosesMessages

\* logError selects on `errsChan <- err` or default; a send on a closed
\* channel panics in a select too.
logError == panicked' = ErrsClosed
\* The same on the transport's own errsChan.
transportLogError == panicked' = MessagesClosed

-----------------------------------------------------------------------------
(* Connect: the goroutines start before c.sessionID is assigned. *)

StartGoroutines ==
  /\ connect = "new"
  /\ connect' = "started"
  /\ loop' = "recv"
  /\ pinger' = "run"
  /\ UNCHANGED <<callVars, peerVars, reader, cur, nested, serverRequests, rooter, closing, panicked>>

SetSessionID ==
  /\ connect = "started"
  /\ connect' = "set"
  /\ UNCHANGED <<callVars, peerVars, loopVars, pinger, rooter, closing, panicked>>

-----------------------------------------------------------------------------
(* sendRequest *)

\* Mutant: an id drawn again while it is in use.
ReusedIDs == ReqIDs

FreshIDs == {id \in ReqIDs : clientRequests[id] = None}

\* registerRequest: a new uuid, with the resChan of c stored under it.  No
\* line of client.go ever deletes the entry.
registerRequest(c) ==
  \E id \in FreshIDs :
    /\ reqId' = [reqId EXCEPT ![c] = id]
    /\ clientRequests' = [clientRequests EXCEPT ![id] = c]

\* sendRequest up to the call of transport.Send.
sendRequest(c) ==
  /\ pc[c] = "idle"
  /\ registerRequest(c)
  /\ pc' = [pc EXCEPT ![c] = "sending"]
  /\ tx' = [tx EXCEPT ![c] = "wire"]
  /\ UNCHANGED <<result, cancelled>>

\* The API methods are sendRequest with their parameters marshalled.
ApiCall(c) ==
  /\ connect = "set" /\ closing = "open"
  /\ c \notin Pings
  /\ sendRequest(c)
  /\ UNCHANGED <<peerVars, loopVars, lifeVars>>

PingInFlight == \E p \in Pings : pc[p] \in InCall

\* pings: the ticker fires and the goroutine itself runs ping.
PingCall(c) ==
  /\ pinger = "run" /\ ~PingInFlight
  /\ c \in Pings
  /\ sendRequest(c)
  /\ UNCHANGED <<peerVars, loopVars, lifeVars>>

\* The request arrives.  This may be after Send has given up on it: an HTTP
\* request cut off by its context, or StdIO's write goroutine left behind.
Transmit(c) ==
  /\ tx[c] = "wire"
  /\ tx' = [tx EXCEPT ![c] = "delivered"]
  /\ server' = server \cup {[id |-> reqId[c], body |-> c]}
  /\ UNCHANGED <<pc, reqId, result, cancelled, clientRequests, inbox, pushed, cancelSent,
                 loopVars, lifeVars>>

TransmitFails(c) ==
  /\ tx[c] = "wire"
  /\ tx' = [tx EXCEPT ![c] = "lost"]
  /\ UNCHANGED <<pc, reqId, result, cancelled, clientRequests, peerVars, loopVars, lifeVars>>

SendReturns(c) ==
  /\ pc[c] = "sending" /\ tx[c] = "delivered"
  /\ pc' = [pc EXCEPT ![c] = "waiting"]
  /\ UNCHANGED <<reqId, result, tx, cancelled, clientRequests, peerVars, loopVars, lifeVars>>

\* c returns an error; ping reports its own on errsChan.
ReturnError(c, how) ==
  /\ pc' = [pc EXCEPT ![c] = how]
  /\ IF c \in Pings THEN logError ELSE UNCHANGED panicked
  /\ UNCHANGED <<reqId, result, tx, cancelled, clientRequests, loopVars, connect, pinger, rooter, closing>>

\* transport.Send failed, or its context (writeTimeout or the caller's) ended.
SendFails(c) ==
  /\ pc[c] = "sending"
  /\ ReturnError(c, "sendError")
  /\ UNCHANGED peerVars

\* Mutant: no ticker at all.
NoTicker(c) == FALSE

\* The readTimeout ticker, or sCtx past its deadline: no notification.
TimesOut(c) ==
  /\ pc[c] = "waiting"
  /\ ReturnError(c, "timeout")
  /\ UNCHANGED peerVars

\* The application cancels the context it passed in.
CancelContext(c) ==
  /\ pc[c] \in {"sending", "waiting"}
  /\ c \notin Pings \cup cancelled
  /\ cancelled' = cancelled \cup {c}
  /\ UNCHANGED <<pc, reqId, result, tx, clientRequests, peerVars, loopVars, lifeVars>>

SeesCancel(c) ==
  /\ pc[c] = "waiting" /\ c \in cancelled
  /\ pc' = [pc EXCEPT ![c] = "cancelling"]
  /\ UNCHANGED <<reqId, result, tx, cancelled, clientRequests, peerVars, loopVars, lifeVars>>

\* sendNotification(notifications/cancelled) comes back, with or without
\* having reached the server; the call then returns its context's error.
CancelReturns(c) ==
  /\ pc[c] = "cancelling"
  /\ ReturnError(c, "cancelled")
  /\ cancelSent' \in {cancelSent, cancelSent \cup {reqId[c]}}
  /\ UNCHANGED <<server, inbox, pushed>>

-----------------------------------------------------------------------------
(* The server, as the client meets it. *)

PeerReply(r) ==
  /\ server' = server \ {r}
  /\ inbox' = Append(inbox, Response(r))
  /\ UNCHANGED <<callVars, pushed, cancelSent, loopVars, lifeVars>>

PeerPush(k, id) ==
  /\ connect # "new" /\ pushed < MaxPushed
  /\ pushed' = pushed + 1
  /\ inbox' = Append(inbox, Push(k, id))
  /\ UNCHANGED <<callVars, server, cancelSent, loopVars, lifeVars>>

-----------------------------------------------------------------------------
(* The transport goroutine: SSEClient.listenMessages, StdIO.Start. *)

\* The next message is read; closeChan is looked at before it is offered.
ReaderRead ==
  /\ connect # "new" /\ reader = "read" /\ inbox # <<>>
  /\ reader' = IF closing = "closed" THEN "stopped" ELSE "offer"
  /\ UNCHANGED <<callVars, peerVars, loop, cur, nested, serverRequests, lifeVars>>

-----------------------------------------------------------------------------
(* listenMessages and handleMsg *)

\* Keys of the two sync.Maps are interface values: equal only if their
\* dynamic types are equal too.
Key(type, id) == <<type, id>>

RegisteredKey(id) == Key("MustString", id)  \* serverRequests.Store(msg.ID, ...)
\* Mutant: the same key type at last, and the wrong assertion still there.
MatchingKey(id) == Key("MustString", id)

CancelKey(id) == Key("string", id)          \* serverRequests.Load(params.RequestID)

\* Mutant: an unknown request id goes back to the select without a verdict.
CancelledUnacked(m) ==
  /\ loop' = "recv"
  /\ UNCHANGED <<serverRequests, panicked>>

\* handleNotificationsCancelled.  The map holds *request, so the assertion
\* r.(request) fails, req is the zero value and req.cancel() calls nil.
handleNotificationsCancelled(m) ==
  /\ panicked' = (CancelKey(m.id) \in serverRequests)
  /\ loop' = "ack"
  /\ UNCHANGED serverRequests

\* handleResultMessages, up to the send on resChan.
handleResultMessages(m) ==
  /\ loop' = IF clientRequests[m.id] = None THEN "ack" ELSE "deliver"
  /\ UNCHANGED <<serverRequests, panicked>>

\* handleRootMessages and handleSamplingMessages, up to the user's handler.
handleUserRequest(m) ==
  /\ serverRequests' = serverRequests \cup {RegisteredKey(m.id)}
  /\ loop' = "user"
  /\ UNCHANGED panicked

\* What does not unmarshal is logged; progress and log messages are then
\* acknowledged as if all was well, the others with the error.
handleMalformed ==
  /\ loop' \in {"ack", "ackErr"}
  /\ logError
  /\ UNCHANGED serverRequests

\* handleMsg: every handler looks at the method, at most one takes it.
handleMsg(m) ==
  \/ m.kind = "ping" /\ loop' = "send" /\ UNCHANGED <<serverRequests, panicked>>
  \/ m.kind \in {"roots", "sampling"} /\ handleUserRequest(m)
  \/ m.kind = "cancelled" /\ handleNotificationsCancelled(m)
  \/ m.kind = "notify" /\ loop' = "user" /\ UNCHANGED <<serverRequests, panicked>>
  \/ m.kind = "response" /\ handleResultMessages(m)
  \/ m.kind = "ignored" /\ loop' = "ack" /\ UNCHANGED <<serverRequests, panicked>>
  \/ m.kind = "malformed" /\ handleMalformed

\* listenMessages receives from messagesChan.  msg.SessionID is compared
\* with c.sessionID, which Connect may not have assigned yet.
ReceiveMsg ==
  /\ loop = "recv" /\ reader = "offer"
  /\ cur' = Head(inbox)
  /\ inbox' = Tail(inbox)
  /\ reader' = "wait"
  /\ IF connect = "set"
     THEN handleMsg(Head(inbox))
     ELSE loop' = "reject" /\ UNCHANGED <<serverRequests, panicked>>
  /\ UNCHANGED <<callVars, server, pushed, cancelSent, nested, connect, pinger, rooter, closing>>

\* A handler or watcher of the application calls the client back.
NestedCall(c) ==
  /\ loop = "user" /\ nested = None
  /\ closing = "open" /\ c \notin Pings
  /\ sendRequest(c)
  /\ nested' = c
  /\ UNCHANGED <<peerVars, reader, loop, cur, serverRequests, lifeVars>>

UserReturns ==
  /\ loop = "user"
  /\ nested # None => pc[nested] \in Returned
  /\ nested' = None
  /\ loop' = IF cur.kind = "notify" THEN "ack" ELSE "send"
  /\ UNCHANGED <<callVars, peerVars, reader, cur, serverRequests, lifeVars>>

\* sendResult went through.
LoopSends ==
  /\ loop = "send"
  /\ loop' = "ack"
  /\ UNCHANGED <<callVars, peerVars, reader, cur, nested, serverRequests, lifeVars>>

\* The handler or the send failed: logged, and returned to the transport.
LoopSendFails ==
  /\ loop = "send"
  /\ loop' = "ackErr"
  /\ logError
  /\ UNCHANGED <<callVars, peerVars, reader, cur, nested, serverRequests, connect, pinger, rooter, closing>>

\* Mutant: a late answer changes the outcome of a call that timed out.
DeliverLate(c) ==
  /\ loop = "deliver" /\ clientRequests[cur.id] = c
  /\ pc[c] \in {"waiting", "timeout"}
  /\ pc' = [pc EXCEPT ![c] = "result"]
  /\ result' = [result EXCEPT ![c] = cur.body]
  /\ loop' = "ack"
  /\ UNCHANGED <<reqId, tx, cancelled, clientRequests, peerVars, reader, cur, nested,
                 serverRequests, lifeVars>>

\* The rendezvous on resChan.  (ping also logs an error response.)
DeliverResult(c) ==
  /\ loop = "deliver" /\ clientRequests[cur.id] = c
  /\ pc[c] = "waiting"
  /\ pc' = [pc EXCEPT ![c] = "result"]
  /\ result' = [result EXCEPT ![c] = cur.body]
  /\ loop' = "ack"
  /\ IF c \in Pings THEN panicked' \in {FALSE, ErrsClosed} ELSE UNCHANGED panicked
  /\ UNCHANGED <<reqId, tx, cancelled, clientRequests, peerVars, reader, cur, nested,
                 serverRequests, connect, pinger, rooter, closing>>

\* msg.Errs <- err: a nil error lets the transport read on,
Ack ==
  /\ loop = "ack" /\ reader = "wait"
  /\ loop' = "recv"
  /\ reader' = "read"
  /\ cur' = None
  /\ UNCHANGED <<callVars, peerVars, nested, serverRequests, lifeVars>>

\* another is logged there first.
AckErr ==
  /\ loop = "ackErr" /\ reader = "wait"
  /\ loop' = "recv"
  /\ reader' = "read"
  /\ cur' = None
  /\ transportLogError
  /\ UNCHANGED <<callVars, peerVars, nested, serverRequests, connect, pinger, rooter, closing>>

\* Wrong session: the error is handed over and listenMessages returns.
Reject ==
  /\ loop = "reject" /\ reader = "wait"
  /\ loop' = "stopped"
  /\ reader' = "read"
  /\ cur' = None
  /\ transportLogError
  /\ UNCHANGED <<callVars, peerVars, nested, serverRequests, connect, pinger, rooter, closing>>

-----------------------------------------------------------------------------
(* Close, one close() after the other *)

CloseErrs ==
  /\ connect = "set" /\ closing = "open"
  /\ closing' = "errs"
  /\ UNCHANGED <<callVars, peerVars, loopVars, connect, pinger, rooter, panicked>>

CloseCloseChan ==
  /\ closing = "errs"
  /\ closing' = "chan"
  /\ UNCHANGED <<callVars, peerVars, loopVars, connect, pinger, rooter, panicked>>

\* transport.Close, the three closes of SSEClient as one.  A sender blocked on
\* a channel panics when it is closed.
CloseTransport ==
  /\ closing = "chan"
  /\ closing' = "closed"
  /\ panicked' = (ClosesMessages /\ reader = "offer")
  /\ UNCHANGED <<callVars, peerVars, loopVars, connect, pinger, rooter>>

LoopStops ==
  /\ loop = "recv" /\ CloseChanClosed
  /\ loop' = "stopped"
  /\ UNCHANGED <<callVars, peerVars, reader, cur, nested, serverRequests, lifeVars>>

\* A closed messagesChan yields the zero message: its session differs, and
\* the error is sent on its nil Errs channel, which blocks for good.
LoopReadsZeroMsg ==
  /\ loop = "recv" /\ MessagesClosed
  /\ loop' = "nilErrs"
  /\ UNCHANGED <<callVars, peerVars, reader, cur, nested, serverRequests, lifeVars>>

PingerStops ==
  /\ pinger = "run" /\ ~PingInFlight /\ CloseChanClosed
  /\ pinger' = "stopped"
  /\ UNCHANGED <<callVars, peerVars, loopVars, connect, rooter, closing, panicked>>

-----------------------------------------------------------------------------
(* listenRootsList, started by NewClient *)

RootsListUpdate ==
  /\ rooter = "run"
  /\ rooter' = "send"
  /\ UNCHANGED <<callVars, peerVars, loopVars, connect, pinger, closing, panicked>>

RootsNotified ==
  /\ rooter = "send"
  /\ rooter' = "run"
  /\ UNCHANGED <<callVars, peerVars, loopVars, connect, pinger, closing, panicked>>

RootsNotifyFails ==
  /\ rooter = "send"
  /\ rooter' = "run"
  /\ logError
  /\ UNCHANGED <<callVars, peerVars, loopVars, connect, pinger, closing>>

RooterStops ==
  /\ rooter = "run" /\ CloseChanClosed
  /\ rooter' = "stopped"
  /\ UNCHANGED <<callVars, peerVars, loopVars, connect, pinger, closing, panicked>>

-----------------------------------------------------------------------------
CallStep(c) ==
  \/ SendReturns(c) \/ SendFails(c) \/ TimesOut(c) \/ SeesCancel(c) \/ CancelReturns(c)

LoopStep ==
  \/ ReceiveMsg \/ UserReturns \/ LoopSends \/ LoopSendFails
  \/ (\E c \in Calls : DeliverResult(c))
  \/ Ack \/ AckErr \/ Reject \/ LoopStops \/ LoopReadsZeroMsg

CloseStep == CloseErrs \/ CloseCloseChan \/ CloseTransport

RootsStep == RootsNotified \/ RootsNotifyFails \/ RooterStops

Next ==
  /\ ~panicked
  /\ \/ StartGoroutines \/ SetSessionID
     \/ \E c \in Calls :
          \/ ApiCall(c) \/ PingCall(c) \/ NestedCall(c) \/ CancelContext(c)
          \/ Transmit(c) \/ TransmitFails(c) \/ CallStep(c)
     \/ \E r \in server : PeerReply(r)
     \/ \E k \in Pushes, id \in PeerIDs : PeerPush(k, id)
     \/ ReaderRead \/ LoopStep \/ CloseStep \/ PingerStops
     \/ RootsListUpdate \/ RootsStep

\* The Go scheduler runs every goroutine that can go on, timers fire, Send
\* respects its context, and the application's handlers return.  Nothing is
\* assumed of the server, of the application's calls, or of Close being called.
Fairness ==
  /\ \A c \in Calls : WF_vars(~panicked /\ CallStep(c))
  /\ WF_vars(~panicked /\ LoopStep)
  /\ WF_vars(~panicked /\ ReaderRead)
  /\ WF_vars(~panicked /\ PingerStops)
  /\ WF_vars(~panicked /\ (RootsNotified \/ RootsNotifyFails))
  /\ SF_vars(~panicked /\ RooterStops)
  /\ WF_vars(~panicked /\ SetSessionID)
  /\ WF_vars(~panicked /\ (CloseCloseChan \/ CloseTransport))

Spec == Init /\ [][Next]_vars
FairSpec == Spec /\ Fairness
-----------------------------------------------------------------------------
(* Properties *)

TypeOK ==
  /\ connect \in {"new", "started", "set"}
  /\ pc \in [Calls -> {"idle"} \cup InCall \cup Returned]
  /\ reqId \in [Calls -> ReqIDs \cup {None}]
  /\ result \in [Calls -> Calls \cup {None}]
  /\ tx \in [Calls -> {"none", "wire", "delivered", "lost"}]
  /\ cancelled \subseteq Calls
  /\ clientRequests \in [ReqIDs -> Calls \cup {None}]
  /\ serverRequests \subseteq {"MustString", "string"} \X PeerIDs
  /\ server \subseteq [id : ReqIDs, body : Calls]
  /\ cancelSent \subseteq ReqIDs
  /\ inbox \in Seq(Messages)
  /\ pushed \in 0..MaxPushed
  /\ reader \in {"read", "offer", "wait", "stopped"}
  /\ loop \in {"off", "recv", "user", "send", "deliver", "ack", "ackErr", "reject",
               "nilErrs", "stopped"}
  /\ cur \in Messages \cup {None}
  /\ nested \in Calls \cup {None}
  /\ pinger \in {"off", "run", "stopped"}
  /\ rooter \in {"off", "run", "send", "stopped"}
  /\ closing \in {"open", "errs", "chan", "closed"}
  /\ panicked \in BOOLEAN

\* A caller that gets a response gets the one to its own request, however the
\* responses are reordered, delayed past timeouts or interleaved with other
\* calls: registerRequest, handleResultMessages and sendRequest together.
OwnAnswer == \A c \in Calls : result[c] # None => result[c] = c

\* listenMessages blocks on the resChan of a call only while that call has had
\* no answer: a call that got its answer never holds the loop up.  (client.go
\* keeps every registration, so this rests on one answer per request.)
NoSecondDelivery ==
  loop = "deliver" => pc[clientRequests[cur.id]] \in InCall \cup Failed

\* notifications/cancelled names only requests whose caller cancelled its
\* context and got nothing back: never one that returned an answer or timed out.
CancelsOnlyCancelled ==
  \A id \in cancelSent : /\ clientRequests[id] \in cancelled
                         /\ pc[clientRequests[id]] = "cancelled"

\* No goroutine of the client panics unless Close has been called, whatever
\* the server pushes: in particular notifications/cancelled never reaches the
\* nil cancel function of handleNotificationsCancelled.
NoPanicWhileOpen == panicked => closing # "open"

\* listenMessages has a message in hand exactly while the transport waits for
\* the verdict on it: no verdict is given twice, or to nobody, and the transport
\* never waits for one that was given.
OneVerdict ==
  reader = "wait" <=> loop \in {"user", "send", "deliver", "ack", "ackErr", "reject"}

\* handleMsg calls the application's handlers inside the loop of listenMessages:
\* a call that a handler makes there has no answer as long as the handler waits
\* for it, whatever the server sends.
NestedUnanswered == nested # None => loop = "user" /\ result[nested] = None

\* What the callers see is RPC: one return per call, at most one execution,
\* the call's own answer or an error.
Status(c) ==
  IF pc[c] = "idle" THEN "idle"
  ELSE IF pc[c] \in InCall THEN "pending"
  ELSE IF pc[c] = "result" THEN "ok" ELSE "failed"
Executed == {c \in Calls : tx[c] = "delivered" /\ \A r \in server : r.body # c}

Abstract == INSTANCE RPC
  WITH status <- [c \in Calls |-> Status(c)], executed <- Executed, answer <- result
ImplementsRPC == Abstract!Spec

\* Every call of sendRequest returns: the select of sendRequest always has the
\* ticker and the deadline of sCtx, the notification its own write timeout.
CallsReturn == \A c \in Calls : pc[c] \in InCall ~> (pc[c] \in Returned \/ panicked)

\* The call a message in handleResultMessages waits for has returned without it.
Abandoned == loop = "deliver" /\ pc[clientRequests[cur.id]] \in Failed

\* Every message listenMessages takes is acknowledged on its Errs channel, so
\* the transport reads on, unless it is the late answer to an abandoned call.
\* (mcp.go, SessionMsgWithErrs, has no such exception: "Errs receives exactly
\* one error value after message processing completes.")
AckedUnlessAbandoned == reader = "wait" ~> (reader # "wait" \/ Abandoned \/ panicked)

RoutinesStopped ==
  loop = "stopped" /\ pinger = "stopped" /\ rooter \in {"off", "stopped"}

\* client.go, Close "stops all background routines": it does, but for two ways
\* in which listenMessages stays blocked, on the resChan of an abandoned call
\* and on the nil Errs of the zero message read from a closed messagesChan.
CloseStopsUnlessStuck ==
  closing = "closed" ~> (RoutinesStopped \/ Abandoned \/ loop = "nilErrs" \/ panicked)

=============================================================================
