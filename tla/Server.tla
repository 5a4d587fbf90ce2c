------------------------------- MODULE Server -------------------------------
(***************************************************************************)
(* The server around its sessions (src/pkg/mcp/server.go): the registry    *)
(* s.sessions, the listenSessions goroutine that starts and removes        *)
(* sessions and takes in their messages, the listen goroutine of every     *)
(* session, the broadcasting goroutines that feed it, and stop.            *)
(*                                                                         *)
(* The transport is the environment: it announces sessions, ends them, and *)
(* hands over messages.  What a message does inside its session is Session.*)
(***************************************************************************)
EXTENDS Naturals, FiniteSets

CONSTANTS
  Sessions,   \* session ids
  Topics,     \* broadcasting goroutines: a subset of BroadcastTopics, or "progress"
  Buffer,     \* sessions the transport can announce ahead (SSEServer: 1, StdIO's goroutine: 1)
  ClosesChans,\* transport.Close closes sessionsChan and messagesChan (SSEServer: TRUE, StdIO: FALSE)
  MaxEvents,  \* bound: updates per topic
  MaxMsgs,    \* bound: messages
  None        \* nil

BroadcastTopics == {"prompts", "resources", "tools", "log", "updates"}

ASSUME ConstantsAssumption ==
  /\ Topics \subseteq BroadcastTopics \cup {"progress"}
  /\ Buffer \in Nat /\ MaxEvents \in Nat /\ MaxMsgs \in Nat
  /\ ClosesChans \in BOOLEAN
  /\ None \notin Sessions

VARIABLES
  conn,      \* conn[s]: "none", "announced" (in sessionsChan), "accepted"
  ctxDone,   \* sessions whose context is done
  sessions,  \* the ids in the registry s.sessions
  progress,  \* sessions that own a progress token in s.progresses
  listen,    \* listen[s]: "off", "select", "send", "stop" (stopChan <- id), "done"
  loop,      \* listenSessions: "select", "done", "nilErrs"
  msg,       \* msg[s]: the message in HandleMessage: "none", "offered", or its verdict
  msgs,      \* how many messages have been sent
  phase,     \* phase[t]: "select", "range", "done"
  at,        \* at[t]: the session whose channel t is sending on, or None
  start,     \* start[t]: the registry when the Range of t began
  visited,   \* visited[t]: the sessions it has been to
  events,    \* events[t]: updates so far
  stopping,  \* server.stop: "run", "cancelled", "errs", "chan", "closed"
  panicked

connVars == <<conn, progress, msg, msgs>>
topicVars == <<phase, at, start, visited, events>>
vars == <<connVars, ctxDone, sessions, listen, loop, topicVars, stopping, panicked>>

Init ==
  /\ conn = [s \in Sessions |-> "none"]
  /\ ctxDone = {} /\ sessions = {} /\ progress = {}
  /\ listen = [s \in Sessions |-> "off"]
  /\ loop = "select"
  /\ msg = [s \in Sessions |-> "none"]
  /\ msgs = 0
  /\ phase = [t \in Topics |-> "select"]
  /\ at = [t \in Topics |-> None]
  /\ start = [t \in Topics |-> {}]
  /\ visited = [t \in Topics |-> {}]
  /\ events = [t \in Topics |-> 0]
  /\ stopping = "run"
  /\ panicked = FALSE

CloseChanClosed == stopping \in {"chan", "closed"}
TransportClosed == stopping = "closed"

-----------------------------------------------------------------------------
(* The transport *)

\* HandleSSE or StdIO.Sessions announces a session; SSEServer tells the client
\* its message URL right after.
Announce(s) ==
  /\ conn[s] = "none" /\ ~(TransportClosed /\ ClosesChans)
  /\ Cardinality({o \in Sessions : conn[o] = "announced"}) < Buffer
  /\ conn' = [conn EXCEPT ![s] = "announced"]
  /\ UNCHANGED <<progress, msg, msgs, ctxDone, sessions, listen, loop, topicVars, stopping, panicked>>

\* The connection ends: its context is done.
Disconnect(s) ==
  /\ conn[s] # "none" /\ s \notin ctxDone
  /\ ctxDone' = ctxDone \cup {s}
  /\ UNCHANGED <<connVars, sessions, listen, loop, topicVars, stopping, panicked>>

\* HandleMessage or StdIO.Start offers a message and waits for the verdict.
OfferMsg(s) ==
  /\ conn[s] # "none" /\ msg[s] # "offered" /\ msgs < MaxMsgs
  /\ ~(TransportClosed /\ ClosesChans)
  /\ msg' = [msg EXCEPT ![s] = "offered"]
  /\ msgs' = msgs + 1
  /\ UNCHANGED <<conn, progress, ctxDone, sessions, listen, loop, topicVars, stopping, panicked>>

-----------------------------------------------------------------------------
(* listenSessions: a select over four channels, any ready one is taken *)

\* Mutant: the goroutine is started, the session not stored.
StartUnstored(s) ==
  /\ loop = "select" /\ conn[s] = "announced"
  /\ conn' = [conn EXCEPT ![s] = "accepted"]
  /\ listen' = [listen EXCEPT ![s] = "select"]
  /\ UNCHANGED <<progress, msg, msgs, sessions, ctxDone, loop, topicVars, stopping, panicked>>

\* startSession: stored in the registry, its listen goroutine started.
startSession(s) ==
  /\ loop = "select" /\ conn[s] = "announced"
  /\ conn' = [conn EXCEPT ![s] = "accepted"]
  /\ sessions' = sessions \cup {s}
  /\ listen' = [listen EXCEPT ![s] = "select"]
  /\ UNCHANGED <<progress, msg, msgs, ctxDone, loop, topicVars, stopping, panicked>>

\* Mutant: the id is received and the session not deleted.
NotDeleted(s) ==
  /\ loop = "select" /\ listen[s] = "stop"
  /\ listen' = [listen EXCEPT ![s] = "done"]
  /\ UNCHANGED <<connVars, ctxDone, sessions, loop, topicVars, stopping, panicked>>

\* id := <-sessionStopChan; the session's listen goroutine returns.
RemoveSession(s) ==
  /\ loop = "select" /\ listen[s] = "stop"
  /\ sessions' = sessions \ {s}
  /\ listen' = [listen EXCEPT ![s] = "done"]
  /\ UNCHANGED <<connVars, ctxDone, loop, topicVars, stopping, panicked>>

\* Mutant: no verdict for a message whose session is not there.
AcceptKnown(s) ==
  /\ loop = "select" /\ msg[s] = "offered" /\ s \in sessions
  /\ msg' = [msg EXCEPT ![s] = "ok"]
  /\ progress' \in {progress} \cup {progress \cup {s} : t \in Topics \cap {"progress"}}
  /\ UNCHANGED <<conn, msgs, ctxDone, sessions, listen, loop, topicVars, stopping, panicked>>

\* handleMsg finds the message invalid, its session missing, or neither, and
\* the verdict goes back; the params may carry a progress token, of interest
\* only if there is a ProgressReporter.
AcceptMsg(s) ==
  /\ loop = "select" /\ msg[s] = "offered"
  /\ \E verdict \in {"invalid", IF s \in sessions THEN "ok" ELSE "notFound"} :
       /\ msg' = [msg EXCEPT ![s] = verdict]
       /\ progress' \in {progress} \cup {progress \cup {s} : t \in Topics \cap {"progress"}}
       /\ progress' # progress => verdict = "ok"
  /\ UNCHANGED <<conn, msgs, ctxDone, sessions, listen, loop, topicVars, stopping, panicked>>

LoopStops ==
  /\ loop = "select" /\ CloseChanClosed
  /\ loop' = "done"
  /\ UNCHANGED <<connVars, ctxDone, sessions, listen, topicVars, stopping, panicked>>

\* Receives from the channels SSEServer.Close has closed: a nil context makes
\* context.WithCancel panic, a nil Errs channel blocks for good.
LoopReadsClosed ==
  /\ loop = "select" /\ TransportClosed /\ ClosesChans
  /\ \/ panicked' = TRUE /\ UNCHANGED loop
     \/ loop' = "nilErrs" /\ UNCHANGED panicked
  /\ UNCHANGED <<connVars, ctxDone, sessions, listen, topicVars, stopping>>

-----------------------------------------------------------------------------
(* The broadcasting goroutines *)

\* An update is received and sessions.Range begins.
BeginRange(t) ==
  /\ t \in BroadcastTopics
  /\ phase[t] = "select" /\ events[t] < MaxEvents
  /\ events' = [events EXCEPT ![t] = @ + 1]
  /\ phase' = [phase EXCEPT ![t] = "range"]
  /\ start' = [start EXCEPT ![t] = sessions]
  /\ visited' = [visited EXCEPT ![t] = {}]
  /\ UNCHANGED <<connVars, ctxDone, sessions, listen, loop, at, stopping, panicked>>

\* sync.Map.Range may show an entry stored or deleted since it began.
Visit(t, s) ==
  /\ phase[t] = "range" /\ at[t] = None
  /\ s \in (start[t] \cup sessions) \ visited[t]
  /\ at' = [at EXCEPT ![t] = s]
  /\ UNCHANGED <<connVars, ctxDone, sessions, listen, loop, phase, start, visited, events,
                 stopping, panicked>>

\* Mutant: the function given to Range returns false.
EndsEarly(t) ==
  /\ phase[t] = "range" /\ at[t] = None
  /\ phase' = [phase EXCEPT ![t] = "select"]
  /\ UNCHANGED <<connVars, ctxDone, sessions, listen, loop, at, start, visited, events,
                 stopping, panicked>>

EndRange(t) ==
  /\ phase[t] = "range" /\ at[t] = None
  /\ start[t] \cap sessions \subseteq visited[t]
  /\ phase' = [phase EXCEPT ![t] = "select"]
  /\ start' = [start EXCEPT ![t] = {}]
  /\ UNCHANGED <<connVars, ctxDone, sessions, listen, loop, at, visited, events,
                 stopping, panicked>>

\* listenProgress: only the session that owns the token, if it is still there.
ProgressReport(s) ==
  LET t == "progress" IN
  /\ t \in Topics
  /\ phase[t] = "select" /\ events[t] < MaxEvents /\ s \in progress
  /\ events' = [events EXCEPT ![t] = @ + 1]
  /\ IF s \in sessions
     THEN /\ phase' = [phase EXCEPT ![t] = "range"]
          /\ at' = [at EXCEPT ![t] = s]
          /\ visited' = [visited EXCEPT ![t] = {}]
          /\ start' = [start EXCEPT ![t] = {s}]
     ELSE UNCHANGED <<phase, at, start, visited>>
  /\ UNCHANGED <<connVars, ctxDone, sessions, listen, loop, stopping, panicked>>

\* The rendezvous on the session's channel; an update of a resource the
\* session is not subscribed to is not passed on.
Receive(t, s) ==
  /\ listen[s] = "select" /\ at[t] = s
  /\ at' = [at EXCEPT ![t] = None]
  /\ visited' = [visited EXCEPT ![t] = @ \cup {s}]
  /\ phase' = IF t = "progress" THEN [phase EXCEPT ![t] = "select"] ELSE phase
  /\ start' = IF t = "progress" THEN [start EXCEPT ![t] = {}] ELSE start
  /\ \/ listen' = [listen EXCEPT ![s] = "send"]
     \/ t = "updates" /\ UNCHANGED listen
  /\ UNCHANGED <<connVars, ctxDone, sessions, loop, events, stopping, panicked>>

TopicStops(t) ==
  /\ phase[t] = "select" /\ CloseChanClosed
  /\ phase' = [phase EXCEPT ![t] = "done"]
  /\ UNCHANGED <<connVars, ctxDone, sessions, listen, loop, at, start, visited, events,
                 stopping, panicked>>

-----------------------------------------------------------------------------
(* session.listen *)

\* Mutant: stop closes errsChan before it cancels the sessions.
ListenSendsLate(s) ==
  /\ listen[s] = "send"
  /\ listen' = [listen EXCEPT ![s] = "select"]
  /\ \/ UNCHANGED panicked
     \/ panicked' = (stopping # "run")
  /\ UNCHANGED <<connVars, ctxDone, sessions, loop, topicVars, stopping>>

\* sendNotification comes back; a failure is logged, on a closed errsChan
\* after stop.
ListenSends(s) ==
  /\ listen[s] = "send"
  /\ listen' = [listen EXCEPT ![s] = "select"]
  /\ \/ UNCHANGED panicked
     \/ panicked' = (stopping \in {"errs", "chan", "closed"})
  /\ UNCHANGED <<connVars, ctxDone, sessions, loop, topicVars, stopping>>

\* ctx.Done: the goroutine offers its id on stopChan.
ListenDone(s) ==
  /\ listen[s] = "select" /\ s \in ctxDone
  /\ listen' = [listen EXCEPT ![s] = "stop"]
  /\ UNCHANGED <<connVars, ctxDone, sessions, loop, topicVars, stopping, panicked>>

-----------------------------------------------------------------------------
(* stop *)

StopCancels ==
  /\ stopping = "run"
  /\ stopping' = "cancelled"
  /\ ctxDone' = ctxDone \cup sessions
  /\ UNCHANGED <<connVars, sessions, listen, loop, topicVars, panicked>>

StopClosesErrs ==
  /\ stopping = "cancelled"
  /\ stopping' = "errs"
  /\ UNCHANGED <<connVars, ctxDone, sessions, listen, loop, topicVars, panicked>>

StopClosesChan ==
  /\ stopping = "errs"
  /\ stopping' = "chan"
  /\ UNCHANGED <<connVars, ctxDone, sessions, listen, loop, topicVars, panicked>>

\* transport.Close.  An HTTP handler blocked on a closed channel panics and
\* net/http recovers it: its message is gone.
StopClosesTransport ==
  /\ stopping = "chan"
  /\ stopping' = "closed"
  /\ msg' = [s \in Sessions |-> IF ClosesChans /\ msg[s] = "offered" THEN "none" ELSE msg[s]]
  /\ UNCHANGED <<conn, progress, msgs, ctxDone, sessions, listen, loop, topicVars, panicked>>

-----------------------------------------------------------------------------
LoopStep ==
  \/ \E s \in Sessions : startSession(s) \/ RemoveSession(s) \/ AcceptMsg(s)
  \/ LoopStops \/ LoopReadsClosed

TopicStep(t) ==
  \/ \E s \in Sessions : Visit(t, s) \/ Receive(t, s)
  \/ EndRange(t) \/ TopicStops(t)

ListenStep(s) == ListenSends(s) \/ ListenDone(s)

StopStep == StopClosesErrs \/ StopClosesChan \/ StopClosesTransport

Next ==
  /\ ~panicked
  /\ \/ \E s \in Sessions : \/ Announce(s) \/ Disconnect(s) \/ OfferMsg(s)
                            \/ ProgressReport(s) \/ ListenStep(s)
     \/ \E t \in Topics : BeginRange(t) \/ TopicStep(t)
     \/ LoopStep \/ StopCancels \/ StopStep

\* Every goroutine that can go on does; Send respects its context.  Nothing is
\* assumed of the transport, of the sources of updates, or of stop being called.
Fairness ==
  /\ WF_vars(~panicked /\ LoopStep)
  /\ \A t \in Topics : WF_vars(~panicked /\ TopicStep(t))
  /\ \A s \in Sessions : WF_vars(~panicked /\ ListenStep(s))
  /\ WF_vars(~panicked /\ StopStep)

Spec == Init /\ [][Next]_vars
FairSpec == Spec /\ Fairness

-----------------------------------------------------------------------------
(* Properties *)

TypeOK ==
  /\ conn \in [Sessions -> {"none", "announced", "accepted"}]
  /\ ctxDone \subseteq Sessions /\ sessions \subseteq Sessions /\ progress \subseteq Sessions
  /\ listen \in [Sessions -> {"off", "select", "send", "stop", "done"}]
  /\ loop \in {"select", "done", "nilErrs"}
  /\ msg \in [Sessions -> {"none", "offered", "ok", "notFound", "invalid"}]
  /\ msgs \in 0..MaxMsgs
  /\ phase \in [Topics -> {"select", "range", "done"}]
  /\ at \in [Topics -> Sessions \cup {None}]
  /\ start \in [Topics -> SUBSET Sessions]
  /\ visited \in [Topics -> SUBSET Sessions]
  /\ events \in [Topics -> 0..MaxEvents]
  /\ stopping \in {"run", "cancelled", "errs", "chan", "closed"}
  /\ panicked \in BOOLEAN
  /\ \A t \in Topics : at[t] # None => phase[t] = "range" /\ at[t] \notin visited[t]

Refused(s) == msg[s] = "offered" /\ msg'[s] = "notFound"

\* handleMsg answers "session not found" only to a message that overtakes the
\* announcement of its session, or comes after the session's context is done.
RefusedOnlyOutside ==
  [][\A s \in Sessions : Refused(s) => conn[s] = "announced" \/ s \in ctxDone]_vars

\* sse.go, HandleSSE: "Session would be removed by server when r.Context is
\* done": as long as the server runs, whatever the broadcasters are doing.
EndedRemoved ==
  \A s \in Sessions :
    s \in ctxDone /\ s \in sessions ~> (s \notin sessions \/ stopping # "run" \/ panicked)

\* listenSessions gives every message its verdict: no handler it calls, no
\* session and no broadcaster holds it up.
MsgVerdict == \A s \in Sessions : msg[s] = "offered" ~> (msg[s] # "offered" \/ stopping # "run" \/ panicked)

\* A broadcaster is stuck on the channel of a session that no longer listens.
Wedged(t) == at[t] # None /\ listen[at[t]] \in {"stop", "done"}

Pending(t, s) == phase[t] = "range" /\ s \in start[t] \ visited[t]
Excused(s) == s \in ctxDone \/ stopping # "run" \/ panicked

\* An update reaches every session that was there and stays connected, unless
\* another session ends while the broadcaster is sending to it.
BroadcastUnlessWedged ==
  \A t \in Topics \cap BroadcastTopics, s \in Sessions :
    Pending(t, s) ~> (s \in visited[t] \/ Excused(s) \/ Wedged(t))

\* Nothing panics while the server runs, nor while stop cancels the sessions:
\* only once errsChan is closed, on which a send that fails is logged, or once
\* the transport has closed the channels that listenSessions receives from.
PanicsOnlyInStop == panicked => stopping \in {"errs", "chan", "closed"}

=============================================================================
