----------------------------- MODULE Everything -----------------------------
(***************************************************************************)
(* The everything server (src/pkg/servers/everything), the user code that  *)
(* the mcp server calls: its handlers, each in the goroutine of a request, *)
(* the goroutine that simulates resource updates, and the three channels   *)
(* that listenLog, listenProgress and listenResourcesSubscribe receive     *)
(* from.                                                                   *)
(***************************************************************************)
EXTENDS Integers, Sequences

CONSTANTS
  Calls,     \* goroutines of requests; one that is done serves the next request
  URIs,      \* resources that are subscribed to
  LogCap,    \* capacity of logChan (10)
  ProgCap,   \* capacity of progressChan (10)
  MaxReqs,   \* bound: requests
  MaxSteps,  \* bound: steps of a long running operation
  NumRes,    \* len(genResources()) (100)
  PageSize,  \* pageSize (10)
  Token,     \* a progress token
  None

ASSUME ConstantsAssumption ==
  /\ MaxReqs \in Nat /\ LogCap \in Nat /\ ProgCap \in Nat \ {0} /\ MaxSteps \in Nat
  /\ NumRes \in Nat \ {0} /\ PageSize \in Nat \ {0}
  /\ Token \notin Nat /\ None \notin Nat \cup URIs \cup {Token}

VARIABLES
  left,     \* requests that may still come
  h,        \* h[c]: the handler: its kind, where it is, its argument, its steps
  logLevel, \* "debug", "info", "notice" (and above)
  logs,     \* entries in logChan
  reports,  \* reports in progressChan
  heard,    \* heard[c]: the reports of c's operation received so far
  subs,     \* resourceSubscribers, one set for all sessions
  sweep,    \* simulateResourceUpdates: where it is, what there was to visit, what it has
            \* visited, the uri in hand
  stale,    \* stale[u]: updates of u received since it was unsubscribed, None while subscribed
  pages,    \* a client's list of resources: what it was shown, the cursor it has
  wedged,   \* receivers that are stuck, or have returned
  closed    \* doneChan

vars == <<left, h, logLevel, logs, reports, heard, subs, sweep, stale, pages, wedged, closed>>

Receivers == {"log", "progress", "updates"}

Idle == [kind |-> "none", at |-> "idle", arg |-> None, step |-> 0]
Waiting == [at |-> "select", keys |-> {}, seen |-> {}, uri |-> None]

Init ==
  /\ left = MaxReqs
  /\ h = [c \in Calls |-> Idle]
  /\ logLevel = "debug"
  /\ logs = 0 /\ reports = <<>> /\ heard = [c \in Calls |-> <<>>]
  /\ subs = {} /\ sweep = Waiting /\ stale = [u \in URIs |-> 0]
  /\ pages = [shown |-> <<>>, cursor |-> 0]
  /\ wedged = {} /\ closed = FALSE

-----------------------------------------------------------------------------
(* s.log *)

\* Mutant: doneChan is not looked at.
LogsOnly(level) ==
  \/ logLevel \notin {"debug", level} /\ UNCHANGED logs
  \/ logLevel \in {"debug", level} /\ logs < LogCap /\ logs' = logs + 1

\* Below the level nothing, else an entry in logChan, or doneChan is closed.
Logged(level) ==
  \/ logLevel \notin {"debug", level} /\ UNCHANGED logs
  \/ logLevel \in {"debug", level} /\ logs < LogCap /\ logs' = logs + 1
  \/ logLevel \in {"debug", level} /\ closed /\ UNCHANGED logs

SetLogLevel(level) ==
  /\ left > 0 /\ left' = left - 1
  /\ logLevel' = level
  /\ UNCHANGED <<h, logs, reports, heard, subs, sweep, stale, pages, wedged, closed>>

-----------------------------------------------------------------------------
(* Lists of resources; resource number i has the index i - 1 *)

EndIndex(start) == IF start + PageSize > NumRes THEN NumRes ELSE start + PageSize

\* Mutant: the cursor is the last resource shown.
NextOverlaps(start) == IF EndIndex(start) < NumRes THEN EndIndex(start) - 1 ELSE None

\* nextCursor, None for the empty string.
NextCursor(start) == IF EndIndex(start) < NumRes THEN EndIndex(start) ELSE None

\* genResources()[startIndex:endIndex]
Page(start) == [i \in 1..(EndIndex(start) - start) |-> start + i]

-----------------------------------------------------------------------------
(* The handlers *)

At(c, kind, at) == h[c].kind = kind /\ h[c].at = at
Goes(c, at) == h' = [h EXCEPT ![c].at = at]
Returns(c) == h' = [h EXCEPT ![c] = Idle]

Kinds == {"query", "listPrompts", "listResources", "subscribe", "unsubscribe",
          "longRunningOperation", "sampleLLM"}
Args(kind) == CASE kind \in {"subscribe", "unsubscribe"} -> URIs
                [] kind = "longRunningOperation" -> {Token, None}  \* Meta.ProgressToken
                [] kind = "listResources" -> {pages.cursor} \ {None}  \* the client goes on
                [] OTHER -> {None}

\* A request is dispatched to a goroutine of its own (to one that no report is
\* left of); a client follows the cursors one by one.
Begin(c) ==
  /\ left > 0 /\ left' = left - 1
  /\ h[c] = Idle /\ \A i \in DOMAIN reports : reports[i][1] # c
  /\ \E kind \in {k \in Kinds : k # "listResources" \/ \A d \in Calls : h[d].kind # k} : \E arg \in Args(kind) :
       h' = [h EXCEPT ![c] = [Idle EXCEPT !.kind = kind, !.at = "log", !.arg = arg]]
  /\ heard' = [heard EXCEPT ![c] = <<>>]
  /\ UNCHANGED <<logLevel, logs, reports, subs, sweep, stale, pages, wedged, closed>>

\* Every handler first logs its name; ListPrompts then logs a count, too.
Log(c) ==
  /\ \/ /\ h[c].at = "log" /\ Logged("debug")
        /\ Goes(c, IF h[c].kind = "listPrompts" THEN "count" ELSE "body")
     \/ h[c].at = "count" /\ Logged("info") /\ Goes(c, "body")
  /\ UNCHANGED <<left, logLevel, reports, heard, subs, sweep, stale, pages, wedged, closed>>

ListPrompts(c) ==
  /\ At(c, "listPrompts", "body") /\ Returns(c)
  /\ UNCHANGED <<left, logLevel, logs, reports, heard, subs, sweep, stale, pages, wedged, closed>>

\* GetPrompt, CompletesPrompt, ReadResource, ListTools,
\* ListResourceTemplates, CompletesResourceTemplate and the tools echo, add,
\* printEnv and getTinyImage compute their answer.
Query(c) ==
  /\ At(c, "query", "body") /\ Returns(c)
  /\ UNCHANGED <<left, logLevel, logs, reports, heard, subs, sweep, stale, pages, wedged, closed>>

ListResources(c) ==
  /\ At(c, "listResources", "body") /\ Returns(c)
  /\ pages' = [shown |-> pages.shown \o Page(h[c].arg), cursor |-> NextCursor(h[c].arg)]
  /\ UNCHANGED <<left, logLevel, logs, reports, heard, subs, sweep, stale, wedged, closed>>

SubscribeResource(c) ==
  /\ At(c, "subscribe", "body") /\ Returns(c)
  /\ subs' = subs \cup {h[c].arg}
  /\ stale' = [stale EXCEPT ![h[c].arg] = None]
  /\ UNCHANGED <<left, logLevel, logs, reports, heard, sweep, pages, wedged, closed>>

\* Mutant: nothing is deleted.
UnsubscribeNothing(c) ==
  /\ At(c, "unsubscribe", "body") /\ Returns(c)
  /\ stale' = [stale EXCEPT ![h[c].arg] = 0]
  /\ UNCHANGED <<left, logLevel, logs, reports, heard, subs, sweep, pages, wedged, closed>>

UnsubscribeResource(c) ==
  /\ At(c, "unsubscribe", "body") /\ Returns(c)
  /\ subs' = subs \ {h[c].arg}
  /\ stale' = [stale EXCEPT ![h[c].arg] = 0]
  /\ UNCHANGED <<left, logLevel, logs, reports, heard, sweep, pages, wedged, closed>>

\* The arguments are valid, or not.
OperationBegins(c) ==
  /\ At(c, "longRunningOperation", "body") /\ (Goes(c, "steps") \/ Returns(c))
  /\ UNCHANGED <<left, logLevel, logs, reports, heard, subs, sweep, stale, pages, wedged, closed>>

\* i < int(steps), or not; with a token a report of the step is due.
OperationStep(c) ==
  /\ At(c, "longRunningOperation", "steps")
  /\ \/ Returns(c)
     \/ h[c].step < MaxSteps /\ h[c].arg # None /\ Goes(c, "report")
     \/ h[c].step < MaxSteps /\ h[c].arg = None /\ h' = [h EXCEPT ![c].step = @ + 1]
  /\ UNCHANGED <<left, logLevel, logs, reports, heard, subs, sweep, stale, pages, wedged, closed>>

Reported(c) == h' = [h EXCEPT ![c] = [@ EXCEPT !.at = "steps", !.step = h[c].step + 1]]

\* Mutant: a report that does not fit is dropped.
DropReport(c) ==
  /\ At(c, "longRunningOperation", "report") /\ Reported(c)
  /\ reports' = IF Len(reports) < ProgCap THEN Append(reports, <<c, h[c].step + 1>>) ELSE reports
  /\ UNCHANGED <<left, logLevel, logs, heard, subs, sweep, stale, pages, wedged, closed>>

Report(c) ==
  /\ At(c, "longRunningOperation", "report") /\ Reported(c)
  /\ Len(reports) < ProgCap
  /\ reports' = Append(reports, <<c, h[c].step + 1>>)
  /\ UNCHANGED <<left, logLevel, logs, heard, subs, sweep, stale, pages, wedged, closed>>

\* doneChan is closed.
OperationStops(c) ==
  /\ At(c, "longRunningOperation", "report") /\ closed
  /\ Returns(c)
  /\ UNCHANGED <<left, logLevel, logs, reports, heard, subs, sweep, stale, pages, wedged, closed>>

\* Invalid arguments, or requestClient: sent to the client and answered, or not.
SampleLLM(c) ==
  /\ \/ At(c, "sampleLLM", "body") /\ (Goes(c, "requested") \/ Returns(c))
     \/ At(c, "sampleLLM", "requested") /\ Returns(c)
  /\ UNCHANGED <<left, logLevel, logs, reports, heard, subs, sweep, stale, pages, wedged, closed>>

-----------------------------------------------------------------------------
(* simulateResourceUpdates *)

Tick ==
  /\ sweep.at = "select"
  /\ sweep' = [Waiting EXCEPT !.at = "range", !.keys = subs]
  /\ UNCHANGED <<left, h, logLevel, logs, reports, heard, subs, stale, pages, wedged, closed>>

SweepStops ==
  /\ sweep.at = "select" /\ closed
  /\ sweep' = [Waiting EXCEPT !.at = "done"]
  /\ UNCHANGED <<left, h, logLevel, logs, reports, heard, subs, stale, pages, wedged, closed>>

\* Range comes to a uri, once; to one that came or went meanwhile it may.
Visit(u) ==
  /\ sweep.at = "range" /\ u \in (sweep.keys \cup subs) \ sweep.seen
  /\ sweep' = [sweep EXCEPT !.at = "log", !.uri = u, !.seen = @ \cup {u}]
  /\ UNCHANGED <<left, h, logLevel, logs, reports, heard, subs, stale, pages, wedged, closed>>

SweepLogs ==
  /\ sweep.at = "log" /\ Logged("debug")
  /\ sweep' = [sweep EXCEPT !.at = "send"]
  /\ UNCHANGED <<left, h, logLevel, reports, heard, subs, stale, pages, wedged, closed>>

\* updateResourceSubsChan <- uri, received by listenResourcesSubscribe.
SendUpdate ==
  /\ sweep.at = "send" /\ "updates" \notin wedged
  /\ sweep' = [sweep EXCEPT !.at = "range", !.uri = None]
  /\ stale' = [stale EXCEPT ![sweep.uri] = IF @ = None THEN None ELSE @ + 1]
  /\ UNCHANGED <<left, h, logLevel, logs, reports, heard, subs, pages, wedged, closed>>

\* Mutant: Range ends with the first update sent.
EndsAfterOne ==
  /\ \/ sweep.at = "range" /\ (sweep.keys = {} \/ sweep.seen # {})
     \/ sweep.at = "send" /\ closed
  /\ sweep' = Waiting
  /\ UNCHANGED <<left, h, logLevel, logs, reports, heard, subs, stale, pages, wedged, closed>>

\* What was there all the time has been visited; or doneChan is closed.
SweepEnds ==
  /\ \/ sweep.at = "range" /\ sweep.keys \cap subs \subseteq sweep.seen
     \/ sweep.at = "send" /\ closed
  /\ sweep' = Waiting
  /\ UNCHANGED <<left, h, logLevel, logs, reports, heard, subs, stale, pages, wedged, closed>>

-----------------------------------------------------------------------------
(* The mcp server, the client and main *)

ReceiveLog ==
  /\ logs > 0 /\ "log" \notin wedged
  /\ logs' = logs - 1
  /\ UNCHANGED <<left, h, logLevel, reports, heard, subs, sweep, stale, pages, wedged, closed>>

ReceiveProgress ==
  /\ reports # <<>> /\ "progress" \notin wedged
  /\ reports' = Tail(reports)
  /\ heard' = [heard EXCEPT ![Head(reports)[1]] = Append(@, Head(reports)[2])]
  /\ UNCHANGED <<left, h, logLevel, logs, subs, sweep, stale, pages, wedged, closed>>

\* The session of c's request ends while it waits to report: ctx is done.
ContextDone(c) ==
  /\ At(c, "longRunningOperation", "report") /\ Returns(c)
  /\ UNCHANGED <<left, logLevel, logs, reports, heard, subs, sweep, stale, pages, wedged, closed>>

\* A broadcaster is left with a session that no longer listens.
Wedge(x) ==
  /\ wedged = {}
  /\ wedged' = {x}
  /\ UNCHANGED <<left, h, logLevel, logs, reports, heard, subs, sweep, stale, pages, closed>>

\* server.stop: listenLog, listenProgress and listenResourcesSubscribe return.
ServerStops ==
  /\ wedged = {}
  /\ wedged' = Receivers
  /\ UNCHANGED <<left, h, logLevel, logs, reports, heard, subs, sweep, stale, pages, closed>>

Close ==
  /\ ~closed
  /\ closed' = TRUE
  /\ UNCHANGED <<left, h, logLevel, logs, reports, heard, subs, sweep, stale, pages, wedged>>

-----------------------------------------------------------------------------
HandlerStep(c) ==
  \/ Log(c) \/ ListPrompts(c) \/ ListResources(c) \/ Query(c)
  \/ SubscribeResource(c) \/ UnsubscribeResource(c)
  \/ OperationBegins(c) \/ OperationStep(c) \/ Report(c) \/ OperationStops(c)
  \/ SampleLLM(c)

SweepStep ==
  Tick \/ SweepStops \/ (\E u \in URIs : Visit(u)) \/ SweepLogs \/ SendUpdate \/ SweepEnds

Next ==
  \/ \E c \in Calls : Begin(c) \/ HandlerStep(c) \/ ContextDone(c)
  \/ \E level \in {"debug", "info", "notice"} \ {logLevel} : SetLogLevel(level)
  \/ SweepStep \/ ReceiveLog \/ ReceiveProgress \/ Close
  \/ ServerStops \/ \E x \in Receivers : Wedge(x)

Spec == Init /\ [][Next]_vars

\* Goroutines that can go on do; a channel serves those that wait to send in
\* the order they came; requestClient times out; the select of
\* simulateResourceUpdates takes a closed doneChan at some time.
Fairness ==
  /\ \A c \in Calls : SF_vars(HandlerStep(c))
  /\ SF_vars(SweepStep) /\ SF_vars(SweepStops)
  /\ WF_vars(ReceiveLog) /\ WF_vars(ReceiveProgress)
FairSpec == Spec /\ Fairness

-----------------------------------------------------------------------------
(* Properties *)

TypeOK ==
  /\ left \in 0..MaxReqs
  /\ h \in [Calls -> [kind : Kinds \cup {"none"}, arg : URIs \cup 0..NumRes \cup {Token, None},
                     at : {"idle", "log", "count", "body", "steps", "report", "requested"}, step : 0..MaxSteps]]
  /\ logLevel \in {"debug", "info", "notice"} /\ logs \in 0..LogCap
  /\ reports \in Seq(Calls \X (1..MaxSteps)) /\ Len(reports) <= ProgCap
  /\ heard \in [Calls -> Seq(1..MaxSteps)]
  /\ subs \subseteq URIs
  /\ sweep \in [at : {"select", "range", "log", "send", "done"}, keys : SUBSET URIs,
              seen : SUBSET URIs, uri : URIs \cup {None}]
  /\ pages \in [shown : Seq(1..NumRes), cursor : 0..NumRes \cup {None}]
  /\ stale \in [URIs -> Nat \cup {None}]
  /\ wedged \subseteq Receivers /\ closed \in BOOLEAN

\* The reports of an operation arrive in order and without a gap, up to the
\* step it has come to, however many others share progressChan: those received
\* are 1, 2, ..., those queued go on from there, and while the operation runs
\* they end with its step.
ProgressInOrder ==
  \A c \in Calls :
    LET n == Len(heard[c])
        queued == {i \in DOMAIN reports : reports[i][1] = c}
    IN /\ heard[c] = [i \in 1..n |-> i]
       /\ \A i, j \in queued : i < j => reports[i][2] < reports[j][2]
       /\ \A i \in queued : \A k \in 1..reports[i][2] :
            k > n <=> \E j \in queued : reports[j][2] = k
       /\ h[c].kind = "longRunningOperation" /\ h[c].arg # None =>
            /\ n <= h[c].step /\ \A i \in queued : reports[i][2] <= h[c].step
            /\ \A k \in (n + 1)..h[c].step : \E i \in queued : reports[i][2] = k

\* Whatever a sweep is doing meanwhile, at most one update of a resource comes
\* after it was unsubscribed.
OneStaleUpdate == \A u \in URIs : stale[u] \in {None, 0, 1}

\* A client that follows the cursors is shown every resource once, in order.
PagesOnce ==
  /\ pages.shown = [i \in DOMAIN pages.shown |-> i]
  /\ pages.cursor = None => Len(pages.shown) = NumRes

\* A handler returns, though it may wait for room in a channel, unless the
\* receiver is stuck or gone; then Close releases it.
HandlersReturn == \A c \in Calls : h[c] # Idle ~> (h[c] = Idle \/ (wedged # {} /\ ~closed))

\* A resource that stays subscribed is updated.
Delivered(u) == sweep.at = "range" /\ u \in sweep.seen
UpdatesReach ==
  \A u \in URIs : u \in subs ~> (Delivered(u) \/ u \notin subs \/ wedged # {} \/ closed)

=============================================================================
