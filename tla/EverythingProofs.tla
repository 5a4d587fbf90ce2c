-------------------------- MODULE EverythingProofs --------------------------
(***************************************************************************)
(* Proofs about Everything, for any number of requests at a time, any      *)
(* resources, channels and pages: simulateResourceUpdates sends at most    *)
(* one update of a resource after it was unsubscribed, the pages of        *)
(* ListResources show every resource once, and the reports of an operation *)
(* arrive in order and without a gap.                                      *)
(***************************************************************************)
EXTENDS Everything, TLAPS

-----------------------------------------------------------------------------
(* What handlers and the sweep are about *)

\* A handler's record; handlers of subscriptions have a URI, and the one that
\* lists resources, alone at that, has the cursor that the client has.
Handler ==
  [kind : Kinds \cup {"none"}, arg : URIs \cup Nat \cup {Token, None}, step : Nat,
   at : {"idle", "log", "count", "body", "steps", "report", "requested"}]
Handlers ==
  /\ h \in [Calls -> Handler]
  /\ \A c \in Calls : h[c].kind \in {"subscribe", "unsubscribe"} => h[c].arg \in URIs
  /\ \A c \in Calls : h[c].kind = "listResources" => h[c].arg = pages.cursor
  /\ \A c, d \in Calls : h[c].kind = "listResources" /\ h[d].kind = "listResources" => c = d

\* What a client that follows the cursors has been shown: all resources before
\* its cursor, or all there are.
ShownSoFar == IF pages.cursor = None THEN NumRes ELSE pages.cursor
Pages ==
  /\ pages = [shown |-> [i \in 1..ShownSoFar |-> i], cursor |-> pages.cursor]
  /\ pages.cursor \in 0..(NumRes - 1) \cup {None}
  /\ \A c \in Calls : h[c].kind = "listResources" => pages.cursor # None

\* The sweep has the uri in hand among those that it has seen; a resource that
\* is not subscribed and was updated is neither in hand nor to be visited.
Sweeps ==
  /\ sweep \in [at : {"select", "range", "log", "send", "done"}, keys : SUBSET URIs,
                seen : SUBSET URIs, uri : URIs \cup {None}]
  /\ sweep.at \in {"log", "send"} => sweep.uri \in sweep.seen
  /\ sweep.at \notin {"log", "send"} => sweep.uri = None
  /\ subs \subseteq URIs
  /\ stale \in [URIs -> {None, 0, 1}]
  /\ \A u \in URIs : stale[u] # None => u \notin subs
  /\ \A u \in URIs : stale[u] = 1 => sweep.uri # u /\ (u \in sweep.keys => u \in sweep.seen)

\* At the start no handler runs, nothing was shown and nothing is subscribed.
LEMMA InitInvariant == Init => Handlers /\ Pages /\ Sweeps
<1> SUFFICES ASSUME Init PROVE Handlers /\ Pages /\ Sweeps
  OBVIOUS
<1> USE ConstantsAssumption DEF Init, ConstantsAssumption
<1>1. Handlers
  BY DEF Handlers, Handler, Idle
<1>2. Pages
  BY DEF Pages, ShownSoFar, Idle
<1>3. Sweeps
  BY DEF Sweeps, Waiting
<1> QED
  BY <1>1, <1>2, <1>3

-----------------------------------------------------------------------------
(* Pages *)

\* A page that begins where the last one ended continues the list.
LEMMA PageContinues ==
  ASSUME NEW start \in 0..(NumRes - 1)
  PROVE  /\ EndIndex(start) \in (start + 1)..NumRes
         /\ [i \in 1..start |-> i] \o Page(start) = [i \in 1..EndIndex(start) |-> i]
         /\ NextCursor(start) \in 0..(NumRes - 1) \cup {None}
         /\ NextCursor(start) = None => EndIndex(start) = NumRes
         /\ NextCursor(start) # None => EndIndex(start) = NextCursor(start)
<1> USE ConstantsAssumption DEF ConstantsAssumption
<1>1. EndIndex(start) \in (start + 1)..NumRes
  BY DEF EndIndex
<1>2. [i \in 1..start |-> i] \o Page(start) = [i \in 1..EndIndex(start) |-> i]
  <2> DEFINE s == [i \in 1..start |-> i]
             t == Page(start)
             e == EndIndex(start)
  <2>1. s \in Seq(Nat) /\ Len(s) = start
    OBVIOUS
  <2>2. t \in Seq(Nat) /\ Len(t) = e - start
    <3> HIDE DEF e
    <3>1. e \in Nat /\ e - start \in Nat
      BY <1>1 DEF e
    <3>2. t = [i \in 1..(e - start) |-> start + i]
      BY DEF Page, e
    <3> QED
      BY <3>1, <3>2
  <2>3. s \o t \in Seq(Nat) /\ Len(s \o t) = e
    BY <1>1, <2>1, <2>2
  <2>4. \A i \in 1..e : (s \o t)[i] = i
    BY <1>1, <2>1, <2>2 DEF Page
  <2> QED
    BY <1>1, <2>3, <2>4
<1> QED
  BY <1>1, <1>2 DEF NextCursor

\* A handler that goes on as it is, or is done, changes nothing here.
LEMMA HandlerGoes ==
  ASSUME Handlers, Pages, UNCHANGED pages, NEW c \in Calls, NEW k \in Handler, h' = [h EXCEPT ![c] = k],
         k.kind = "none" \/ (k.kind = h[c].kind /\ k.arg = h[c].arg)
  PROVE  Handlers' /\ Pages'
<1>1. Handlers'
  BY DEF Handlers
<1>2. Pages'
  BY DEF Handlers, Pages, ShownSoFar
<1> QED
  BY <1>1, <1>2

\* Goes and Returns do just that.
LEMMA GoesOrReturns ==
  ASSUME Handlers, Pages, UNCHANGED pages, NEW c \in Calls,
         Returns(c) \/ \E at \in {"count", "body", "steps", "report", "requested"} : Goes(c, at)
  PROVE  Handlers' /\ Pages'
<1>1. CASE Returns(c)
  <2>1. Idle \in Handler /\ Idle.kind = "none"
    BY DEF Handler, Idle
  <2> QED
    BY <1>1, <2>1, HandlerGoes DEF Returns
<1>2. ASSUME NEW at \in {"count", "body", "steps", "report", "requested"}, Goes(c, at)
      PROVE  Handlers' /\ Pages'
  <2> DEFINE k == [h[c] EXCEPT !.at = at]
  <2>1. h[c] \in Handler
    BY DEF Handlers
  <2>2. k \in Handler /\ k.kind = h[c].kind /\ k.arg = h[c].arg
    BY <2>1 DEF Handler
  <2>3. h' = [h EXCEPT ![c] = k]
    BY <1>2 DEF Goes
  <2> QED
    BY <2>2, <2>3, HandlerGoes
<1> QED
  BY <1>1, <1>2

\* Every step keeps the handlers' arguments and the pages in step: only
\* ListResources moves the cursor, and only one of them runs at a time.
LEMMA StepHandlers == Handlers /\ Pages /\ [Next]_vars => Handlers' /\ Pages'
<1> SUFFICES ASSUME Handlers, Pages, [Next]_vars PROVE Handlers' /\ Pages'
  OBVIOUS
<1>1. ASSUME NEW c \in Calls, Begin(c) PROVE Handlers' /\ Pages'
  <2>0. PICK kind \in {k \in Kinds : k # "listResources" \/ \A d \in Calls : h[d].kind # k} :
          \E arg \in Args(kind) :
            h' = [h EXCEPT ![c] = [Idle EXCEPT !.kind = kind, !.at = "log", !.arg = arg]]
    BY <1>1 DEF Begin
  <2>1. PICK arg \in Args(kind) :
          h' = [h EXCEPT ![c] = [Idle EXCEPT !.kind = kind, !.at = "log", !.arg = arg]]
    BY <2>0
  <2> DEFINE k == [kind |-> kind, at |-> "log", arg |-> arg, step |-> 0]
  <2>2. h' = [h EXCEPT ![c] = k] /\ UNCHANGED pages
    <3>1. PICK r : r = [Idle EXCEPT !.kind = kind, !.at = "log", !.arg = arg]
      OBVIOUS
    <3>2. r = k
      BY <3>1 DEF Idle
    <3> QED
      BY <1>1, <2>1, <3>1, <3>2 DEF Begin
  <2>3. /\ arg \in URIs \cup Nat \cup {Token, None}
        /\ kind \in {"subscribe", "unsubscribe"} => arg \in URIs
        /\ kind = "listResources" => arg = pages.cursor /\ arg # None
    BY ConstantsAssumption, Pages DEF Args, Kinds, Pages, ConstantsAssumption
  <2>4. k \in Handler
    BY <2>3 DEF Handler
  <2> HIDE DEF k
  <2>5. k.kind = kind /\ k.arg = arg
    BY DEF k
  <2>6. Handlers'
    BY <2>2, <2>3, <2>4, <2>5, Handlers DEF Handlers
  <2>7. Pages'
    BY <2>2, <2>3, <2>4, <2>5, Handlers, Pages DEF Handlers, Pages, ShownSoFar
  <2> QED
    BY <2>6, <2>7
<1>2. ASSUME NEW c \in Calls, Log(c) PROVE Handlers' /\ Pages'
  BY <1>2, Handlers, Pages, GoesOrReturns DEF Log
<1>3. ASSUME NEW c \in Calls, ListPrompts(c) PROVE Handlers' /\ Pages'
  BY <1>3, Handlers, Pages, GoesOrReturns DEF ListPrompts
<1>4. ASSUME NEW c \in Calls, ListResources(c) PROVE Handlers' /\ Pages'
  <2>1. /\ At(c, "listResources", "body") /\ Returns(c)
        /\ pages' = [shown |-> pages.shown \o Page(h[c].arg), cursor |-> NextCursor(h[c].arg)]
    BY <1>4 DEF ListResources
  <2>2. h[c].arg = pages.cursor /\ pages.cursor \in 0..(NumRes - 1)
    BY <2>1, Handlers, Pages DEF At, Handlers, Pages
  <2>0. pages.shown = [i \in 1..pages.cursor |-> i]
    BY <2>2, Pages, ConstantsAssumption DEF Pages, ShownSoFar, ConstantsAssumption
  <2>3. /\ pages'.cursor = NextCursor(pages.cursor)
        /\ pages'.shown = [i \in 1..EndIndex(pages.cursor) |-> i]
        /\ pages' = [shown |-> pages'.shown, cursor |-> pages'.cursor]
    <3>1. pages' = [shown |-> pages.shown \o Page(pages.cursor), cursor |-> NextCursor(pages.cursor)]
      BY <2>1, <2>2
    <3>2. pages.shown \o Page(pages.cursor) = [i \in 1..EndIndex(pages.cursor) |-> i]
      BY <2>0, <2>2, PageContinues
    <3> QED
      BY <3>1, <3>2
  <2>4. Idle \in Handler /\ Idle.kind = "none"
    BY DEF Handler, Idle
  <2>5. h' \in [Calls -> Handler] /\ \A d \in Calls : h'[d] = IF d = c THEN Idle ELSE h[d]
    BY <2>1, <2>4, Handlers DEF Returns, Handlers
  <2>6. \A d \in Calls : h'[d].kind # "listResources"
    BY <2>1, <2>4, <2>5, Handlers DEF At, Handlers
  <2>7. Handlers'
    BY <2>4, <2>5, <2>6, Handlers DEF Handlers
  <2>8. Pages'
    BY <2>2, <2>3, <2>6, PageContinues DEF Pages, ShownSoFar
  <2> QED
    BY <2>7, <2>8
<1>5. ASSUME NEW c \in Calls, Query(c) PROVE Handlers' /\ Pages'
  BY <1>5, Handlers, Pages, GoesOrReturns DEF Query
<1>6. ASSUME NEW c \in Calls, SubscribeResource(c) PROVE Handlers' /\ Pages'
  BY <1>6, Handlers, Pages, GoesOrReturns DEF SubscribeResource
<1>7. ASSUME NEW c \in Calls, UnsubscribeResource(c) PROVE Handlers' /\ Pages'
  BY <1>7, Handlers, Pages, GoesOrReturns DEF UnsubscribeResource
<1>8. ASSUME NEW c \in Calls, OperationBegins(c) PROVE Handlers' /\ Pages'
  BY <1>8, Handlers, Pages, GoesOrReturns DEF OperationBegins
<1>9. ASSUME NEW c \in Calls, OperationStep(c) PROVE Handlers' /\ Pages'
  <2>0. Returns(c) \/ Goes(c, "report") \/ h' = [h EXCEPT ![c].step = @ + 1]
    BY ONLY <1>9 DEF OperationStep
  <2>1. CASE h' = [h EXCEPT ![c].step = @ + 1]
    <3> DEFINE k == [h[c] EXCEPT !.step = @ + 1]
    <3>1. h[c] \in Handler
      BY Handlers DEF Handlers
    <3>2. k \in Handler /\ k.kind = h[c].kind /\ k.arg = h[c].arg
      BY <3>1 DEF Handler
    <3> QED
      BY <1>9, <2>1, <3>2, Handlers, Pages, HandlerGoes DEF OperationStep
  <2>2. CASE Returns(c) \/ Goes(c, "report")
    BY <1>9, <2>2, Handlers, Pages, GoesOrReturns DEF OperationStep
  <2> QED
    BY <2>0, <2>1, <2>2
<1>10. ASSUME NEW c \in Calls, Report(c) PROVE Handlers' /\ Pages'
  <2> DEFINE k == [h[c] EXCEPT !.at = "steps", !.step = h[c].step + 1]
  <2>1. h[c] \in Handler
    BY Handlers DEF Handlers
  <2>2. k \in Handler /\ k.kind = h[c].kind /\ k.arg = h[c].arg
    <3> DEFINE j == [h[c] EXCEPT !.at = "steps"]
    <3>1. j \in Handler /\ j.kind = h[c].kind /\ j.arg = h[c].arg /\ j.step = h[c].step
      BY <2>1 DEF Handler
    <3>2. k = [j EXCEPT !.step = j.step + 1]
      BY <3>1
    <3> HIDE DEF j, k
    <3> QED
      BY <3>1, <3>2 DEF Handler
  <2>3. h' = [h EXCEPT ![c] = k]
    BY <1>10 DEF Report, Reported
  <2> QED
    BY <1>10, <2>2, <2>3, Handlers, Pages, HandlerGoes DEF Report
<1>11. ASSUME NEW c \in Calls, OperationStops(c) PROVE Handlers' /\ Pages'
  BY <1>11, Handlers, Pages, GoesOrReturns DEF OperationStops
<1>12. ASSUME NEW c \in Calls, SampleLLM(c) PROVE Handlers' /\ Pages'
  BY <1>12, Handlers, Pages, GoesOrReturns DEF SampleLLM
<1>13. ASSUME NEW c \in Calls, ContextDone(c) PROVE Handlers' /\ Pages'
  BY <1>13, Handlers, Pages, GoesOrReturns DEF ContextDone
<1>14. CASE UNCHANGED <<h, pages>>
  BY <1>14, Handlers, Pages DEF Handlers, Pages, ShownSoFar
<1> QED
  BY <1>1, <1>2, <1>3, <1>4, <1>5, <1>6, <1>7, <1>8, <1>9, <1>10, <1>11, <1>12, <1>13, <1>14
  DEF Next, HandlerStep, SweepStep, vars, SetLogLevel, Visit, Wedge, Tick, SweepStops, SweepLogs,
      SendUpdate, SweepEnds, ReceiveLog, ReceiveProgress, ServerStops, Close

\* A client that follows the cursors of ListResources is shown every resource
\* once and in order, for any number of resources and any page size.
THEOREM EverythingPages == Spec => []PagesOnce
<1>1. Init => Handlers /\ Pages
  BY InitInvariant
<1>2. Handlers /\ Pages /\ [Next]_vars => (Handlers /\ Pages)'
  BY StepHandlers
<1>3. Pages => PagesOnce
  BY ConstantsAssumption DEF Pages, ShownSoFar, PagesOnce, ConstantsAssumption
<1> QED
  BY <1>1, <1>2, <1>3, PTL DEF Spec

-----------------------------------------------------------------------------
(* Updates after an unsubscription *)

\* A sweep comes to a resource once, and a new one starts from what is
\* subscribed.
LEMMA StepSweeps == Handlers /\ Sweeps /\ [Next]_vars => Sweeps'
<1> SUFFICES ASSUME Handlers, Sweeps, [Next]_vars PROVE Sweeps'
  OBVIOUS
<1> USE ConstantsAssumption DEF Handlers, Sweeps, ConstantsAssumption
<1>1. ASSUME NEW c \in Calls, SubscribeResource(c) PROVE Sweeps'
  BY <1>1, Sweeps DEF SubscribeResource, At
<1>2. ASSUME NEW c \in Calls, UnsubscribeResource(c) PROVE Sweeps'
  BY <1>2, Sweeps DEF UnsubscribeResource, At
<1>3. ASSUME NEW u \in URIs, Visit(u) PROVE Sweeps'
  <2>1. /\ sweep.at = "range" /\ u \notin sweep.seen /\ UNCHANGED <<subs, stale>>
        /\ sweep' = [at |-> "log", keys |-> sweep.keys, seen |-> sweep.seen \cup {u}, uri |-> u]
    BY <1>3, Sweeps DEF Visit
  <2>2. u \in sweep.keys \cup subs
    BY <1>3 DEF Visit
  <2> QED
    BY <2>1, <2>2, Sweeps
<1>4. CASE Tick
  <2>1. /\ sweep' = [at |-> "range", keys |-> subs, seen |-> {}, uri |-> None]
        /\ UNCHANGED <<subs, stale>>
    BY <1>4 DEF Tick, Waiting
  <2> QED
    BY <2>1, Sweeps
<1>5. CASE SweepStops
  BY <1>5, Sweeps DEF SweepStops, Waiting
<1>6. CASE SweepLogs
  BY <1>6, Sweeps DEF SweepLogs
<1>7. CASE SendUpdate
  <2>1. /\ sweep' = [at |-> "range", keys |-> sweep.keys, seen |-> sweep.seen, uri |-> None]
        /\ sweep.at = "send" /\ UNCHANGED subs
    BY <1>7, Sweeps DEF SendUpdate
  <2>2. sweep.uri \in URIs /\ sweep.uri \in sweep.seen /\ stale[sweep.uri] # 1
    BY <2>1, Sweeps
  <2>3. /\ stale' \in [URIs -> {None, 0, 1}]
        /\ \A u \in URIs : u # sweep.uri => stale'[u] = stale[u]
        /\ stale'[sweep.uri] = None <=> stale[sweep.uri] = None
    BY <1>7, <2>2, Sweeps DEF SendUpdate
  <2> QED
    BY <2>1, <2>2, <2>3, Sweeps
<1>8. CASE SweepEnds
  BY <1>8, Sweeps DEF SweepEnds, Waiting
<1>9. CASE UNCHANGED <<subs, sweep, stale>>
  BY <1>9, Sweeps
<1> QED
  BY <1>1, <1>2, <1>3, <1>4, <1>5, <1>6, <1>7, <1>8, <1>9
  DEF Next, HandlerStep, SweepStep, vars, Begin, Log, ListPrompts, ListResources, Query,
      OperationBegins, OperationStep, Report, OperationStops, SampleLLM, ContextDone, SetLogLevel,
      Wedge, ReceiveLog, ReceiveProgress, ServerStops, Close

\* At most one update of a resource is received after it was unsubscribed,
\* whatever the sweep was doing at that time and however many come after.
THEOREM EverythingOneStale == Spec => []OneStaleUpdate
<1>1. Init => Handlers /\ Pages /\ Sweeps
  BY InitInvariant
<1>2. Handlers /\ Pages /\ Sweeps /\ [Next]_vars => (Handlers /\ Pages /\ Sweeps)'
  BY StepHandlers, StepSweeps
<1>3. Sweeps => OneStaleUpdate
  BY DEF Sweeps, OneStaleUpdate
<1> QED
  BY <1>1, <1>2, <1>3, PTL DEF Spec

-----------------------------------------------------------------------------
(* Reports of progress *)

\* What ProgressInOrder says of one operation: c's reports in the queue R go on
\* from those heard; while it operates they end with its step.
Of(R, c) == {i \in DOMAIN R : R[i][1] = c}
Rising(R, c) == \A i, j \in Of(R, c) : i < j => R[i][2] < R[j][2]
GoesOn(n, R, c) ==
  \A i \in Of(R, c) : \A k \in 1..R[i][2] : k > n <=> \E j \in Of(R, c) : R[j][2] = k
UpTo(n, R, c, s) ==
  /\ n <= s /\ \A i \in Of(R, c) : R[i][2] <= s
  /\ \A k \in (n + 1)..s : \E i \in Of(R, c) : R[i][2] = k

\* progressChan, a send on it and a receive.
Queues == Seq(Calls \X (Nat \ {0}))
Put(R, c, v) == Append(R, <<c, v>>)
Rest(R) == Tail(R)

\* A report that progressChan holds is of its operation and has a number from 1 on.
LEMMA QueueElements ==
  ASSUME NEW R \in Queues, NEW c, NEW i \in Of(R, c)
  PROVE  i \in 1..Len(R) /\ i \in Nat /\ R[i][2] \in Nat /\ R[i][2] >= 1 /\ R[i][1] = c
<1>1. i \in 1..Len(R) /\ R[i][1] = c
  BY DEF Of, Queues
<1>2. R[i] \in Calls \X (Nat \ {0})
  BY <1>1 DEF Queues
<1> QED
  BY <1>1, <1>2

\* A report sent on progressChan is the last one there, of its operation only.
LEMMA OfAppend ==
  ASSUME NEW R \in Queues, NEW c \in Calls, NEW v \in Nat \ {0}, NEW d
  PROVE  LET A == Put(R, c, v) IN
         /\ A \in Queues /\ \A i \in Of(R, d) : A[i] = R[i]
         /\ d = c => Of(A, d) = Of(R, d) \cup {Len(R) + 1}
         /\ d # c => Of(A, d) = Of(R, d)
         /\ A[Len(R) + 1][1] = c /\ A[Len(R) + 1][2] = v
<1> DEFINE A == Put(R, c, v)
<1>0. <<c, v>> \in Calls \X (Nat \ {0})
  OBVIOUS
<1>1. /\ A \in Queues /\ DOMAIN A = 1..(Len(R) + 1) /\ DOMAIN R = 1..Len(R) /\ Len(R) \in Nat
      /\ \A i \in 1..Len(R) : A[i] = R[i]
      /\ A[Len(R) + 1] = <<c, v>>
  BY <1>0 DEF Queues, Put
<1> HIDE DEF A
<1>2. A[Len(R) + 1][1] = c /\ A[Len(R) + 1][2] = v
  BY <1>1
<1>3. \A i : i \in Of(A, d) <=> i \in Of(R, d) \/ (d = c /\ i = Len(R) + 1)
  BY <1>1, <1>2 DEF Of
<1>4. \A i \in Of(R, d) : A[i] = R[i]
  BY <1>1 DEF Of
<1>5. (d = c => Of(A, d) = Of(R, d) \cup {Len(R) + 1}) /\ (d # c => Of(A, d) = Of(R, d))
  BY <1>3
<1> QED
  BY <1>1, <1>2, <1>4, <1>5 DEF A

\* The report of the next step keeps the numbers of its operation in turn.
LEMMA ReportInTurn ==
  ASSUME NEW R \in Queues, NEW c \in Calls, NEW s \in Nat, NEW n \in Nat,
         Rising(R, c), GoesOn(n, R, c), UpTo(n, R, c, s)
  PROVE  LET A == Put(R, c, s + 1) IN
         Rising(A, c) /\ GoesOn(n, A, c) /\ UpTo(n, A, c, s + 1)
<1> DEFINE A == Put(R, c, s + 1)
           m == Len(R) + 1
<1>0. s + 1 \in Nat \ {0}
  OBVIOUS
<1>1. /\ A \in Queues /\ \A i \in Of(R, c) : A[i] = R[i]
      /\ Of(A, c) = Of(R, c) \cup {m} /\ A[m][2] = s + 1
  BY <1>0, OfAppend
<1>2. \A i \in Of(R, c) : i < m /\ i \in Nat /\ m \in Nat /\ R[i][2] \in Nat /\ R[i][2] >= 1
  BY QueueElements
<1> HIDE DEF A, m
<1>3. UpTo(n, A, c, s + 1)
  <2>1. \A i \in Of(R, c) : A[i][2] <= s + 1
    BY <1>1, <1>2 DEF UpTo
  <2>2. ASSUME NEW k \in (n + 1)..(s + 1) PROVE \E i \in Of(A, c) : A[i][2] = k
    <3>1. CASE k = s + 1
      BY <3>1, <1>1
    <3>2. CASE k # s + 1
      <4>1. PICK i \in Of(R, c) : R[i][2] = k
        BY <3>2 DEF UpTo
      <4> QED
        BY <4>1, <1>1
    <3> QED
      BY <3>1, <3>2
  <2>3. n <= s + 1
    BY DEF UpTo
  <2> QED
    BY <2>1, <2>2, <2>3, <1>1 DEF UpTo
<1>4. Rising(A, c)
  <2> SUFFICES ASSUME NEW i \in Of(A, c), NEW j \in Of(A, c), i < j PROVE A[i][2] < A[j][2]
    BY DEF Rising
  <2>1. i \in Of(R, c)
    <3>1. i # m
      BY <1>1, <1>2, QueueElements
    <3> QED
      BY <1>1, <3>1
  <2>2. CASE j \in Of(R, c)
    BY <1>1, <2>1, <2>2 DEF Rising
  <2>3. CASE j = m
    BY <1>1, <1>2, <2>1, <2>3 DEF UpTo
  <2> QED
    BY <1>1, <2>2, <2>3
<1>5. \A i \in Of(R, c) : R[i][2] > n
  BY <1>2 DEF GoesOn
<1>6. \A i \in Of(A, c) : A[i][2] \in (n + 1)..(s + 1)
  BY <1>1, <1>2, <1>5, <1>3 DEF UpTo
<1>7. GoesOn(n, A, c)
  <2> SUFFICES ASSUME NEW i \in Of(A, c), NEW k \in 1..A[i][2]
               PROVE  k > n <=> \E j \in Of(A, c) : A[j][2] = k
    BY DEF GoesOn
  <2>1. k \in Nat /\ k <= s + 1
    BY <1>6
  <2>2. k > n => \E j \in Of(A, c) : A[j][2] = k
    BY <2>1, <1>3 DEF UpTo
  <2> QED
    BY <2>1, <2>2, <1>6
<1> QED
  BY <1>3, <1>4, <1>7 DEF A

\* A report of one operation leaves those of the others in turn.
LEMMA ReportOfOther ==
  ASSUME NEW R \in Queues, NEW c \in Calls, NEW v \in Nat \ {0}, NEW n \in Nat, NEW d, d # c
  PROVE  LET A == Put(R, c, v) IN
         /\ Rising(R, d) => Rising(A, d)
         /\ GoesOn(n, R, d) => GoesOn(n, A, d)
         /\ \A s : UpTo(n, R, d, s) => UpTo(n, A, d, s)
<1> DEFINE A == Put(R, c, v)
<1>1. Of(A, d) = Of(R, d) /\ \A i \in Of(R, d) : A[i] = R[i]
  BY OfAppend
<1> HIDE DEF A
<1>2. (Rising(R, d) => Rising(A, d)) /\ (GoesOn(n, R, d) => GoesOn(n, A, d))
  BY <1>1 DEF Rising, GoesOn
<1>3. \A s : UpTo(n, R, d, s) => UpTo(n, A, d, s)
  BY <1>1 DEF UpTo
<1> QED
  BY <1>2, <1>3 DEF A

\* What progressChan holds once the first report is received.
LEMMA OfTail ==
  ASSUME NEW R \in Queues, R # <<>>, NEW d
  PROVE  LET T == Rest(R) IN
         /\ T \in Queues
         /\ \A i \in Of(T, d) : i + 1 \in Of(R, d) /\ i \in Nat /\ T[i] = R[i + 1]
         /\ \A i \in Of(R, d) : i # 1 => i - 1 \in Of(T, d) /\ T[i - 1] = R[i]
<1> DEFINE T == Rest(R)
<1>1. /\ T \in Queues /\ Len(R) \in Nat /\ DOMAIN T = 1..(Len(R) - 1) /\ DOMAIN R = 1..Len(R)
      /\ \A i \in 1..(Len(R) - 1) : T[i] = R[i + 1]
  BY DEF Queues, Rest
<1> HIDE DEF T
<1>2. \A i \in Of(T, d) : i + 1 \in Of(R, d) /\ i \in Nat /\ T[i] = R[i + 1]
  BY <1>1 DEF Of
<1>3. \A i \in Of(R, d) : i # 1 => i - 1 \in Of(T, d) /\ T[i - 1] = R[i]
  BY <1>1 DEF Of
<1> QED
  BY <1>1, <1>2, <1>3 DEF T

\* The first in the queue is the next to be heard, and the others go on from it.
LEMMA HeadInTurn ==
  ASSUME NEW R \in Queues, R # <<>>, NEW c, R[1][1] = c, NEW n \in Nat,
         Rising(R, c), GoesOn(n, R, c)
  PROVE  /\ R[1][2] = n + 1
         /\ Rising(Rest(R), c) /\ GoesOn(n + 1, Rest(R), c)
         /\ \A s \in Nat : UpTo(n, R, c, s) => UpTo(n + 1, Rest(R), c, s)
<1> DEFINE T == Rest(R)
<1>1. 1 \in Of(R, c)
  BY DEF Of, Queues
<1>2. \A i \in Of(R, c) : i \in Nat /\ i >= 1 /\ R[i][2] \in Nat /\ R[i][2] >= 1
  BY QueueElements
<1>3. \A i \in Of(R, c) : R[i][2] > n
  BY <1>2 DEF GoesOn
<1>4. R[1][2] = n + 1
  <2>1. PICK j \in Of(R, c) : R[j][2] = n + 1
    BY <1>1, <1>2, <1>3 DEF GoesOn
  <2>2. j = 1 \/ R[1][2] < n + 1
    BY <1>1, <1>2, <2>1 DEF Rising
  <2> QED
    BY <2>1, <2>2, <1>1, <1>2, <1>3
<1>5. \A i \in Of(R, c) : i # 1 => R[i][2] > n + 1
  BY <1>1, <1>2, <1>4 DEF Rising
<1>6. /\ \A i \in Of(T, c) : i + 1 \in Of(R, c) /\ i \in Nat /\ T[i] = R[i + 1]
      /\ \A i \in Of(R, c) : i # 1 => i - 1 \in Of(T, c) /\ T[i - 1] = R[i]
  BY OfTail
<1>10. \A i \in Of(T, c) : i >= 1
  BY OfTail, QueueElements
<1> HIDE DEF T
<1>7. Rising(T, c)
  BY <1>6, <1>2 DEF Rising
<1>8. GoesOn(n + 1, T, c)
  <2> SUFFICES ASSUME NEW i \in Of(T, c), NEW k \in 1..T[i][2]
               PROVE  k > n + 1 <=> \E j \in Of(T, c) : T[j][2] = k
    BY DEF GoesOn
  <2>1. i + 1 \in Of(R, c) /\ k \in 1..R[i + 1][2] /\ k \in Nat
    BY <1>6, <1>2
  <2>2. k > n <=> \E j \in Of(R, c) : R[j][2] = k
    BY <2>1 DEF GoesOn
  <2>3. ASSUME k > n + 1 PROVE \E j \in Of(T, c) : T[j][2] = k
    <3>1. PICK j \in Of(R, c) : R[j][2] = k
      BY <2>1, <2>2, <2>3
    <3> QED
      BY <3>1, <2>3, <1>4, <1>6, <2>1
  <2>4. ASSUME NEW j \in Of(T, c), T[j][2] = k PROVE k > n + 1
    <3>1. j + 1 \in Of(R, c) /\ j + 1 # 1 /\ R[j + 1][2] = k
      BY <2>4, <1>6, <1>10
    <3> QED
      BY <3>1, <1>5
  <2> QED
    BY <2>3, <2>4
<1>9. ASSUME NEW s \in Nat, UpTo(n, R, c, s) PROVE UpTo(n + 1, T, c, s)
  <2>1. n + 1 <= s
    BY <1>9, <1>1, <1>4 DEF UpTo
  <2>2. \A i \in Of(T, c) : T[i][2] <= s
    BY <1>9, <1>6 DEF UpTo
  <2>3. ASSUME NEW k \in (n + 2)..s PROVE \E i \in Of(T, c) : T[i][2] = k
    <3>1. PICK j \in Of(R, c) : R[j][2] = k
      BY <1>9 DEF UpTo
    <3> QED
      BY <3>1, <1>4, <1>6
  <2> QED
    BY <2>1, <2>2, <2>3 DEF UpTo
<1> QED
  BY <1>4, <1>7, <1>8, <1>9 DEF T

\* A report that is received leaves those of the other operations in turn.
LEMMA HeadOfOther ==
  ASSUME NEW R \in Queues, R # <<>>, NEW d, R[1][1] # d, NEW n \in Nat
  PROVE  /\ Rising(R, d) => Rising(Rest(R), d)
         /\ GoesOn(n, R, d) => GoesOn(n, Rest(R), d)
         /\ \A s : UpTo(n, R, d, s) => UpTo(n, Rest(R), d, s)
<1> DEFINE T == Rest(R)
<1>1. /\ \A i \in Of(T, d) : i + 1 \in Of(R, d) /\ i \in Nat /\ T[i] = R[i + 1]
      /\ \A i \in Of(R, d) : i - 1 \in Of(T, d) /\ T[i - 1] = R[i] /\ i \in Nat
  <2>1. \A i \in Of(R, d) : i # 1
    BY DEF Of
  <2> QED
    BY <2>1, OfTail, QueueElements
<1> HIDE DEF T
<1>2. ASSUME Rising(R, d), NEW i \in Of(T, d), NEW j \in Of(T, d), i < j PROVE T[i][2] < T[j][2]
  <2>1. i + 1 \in Of(R, d) /\ j + 1 \in Of(R, d) /\ i + 1 < j + 1
    BY <1>1, <1>2
  <2> QED
    BY <1>1, <1>2, <2>1 DEF Rising
<1>3. \A k : (\E i \in Of(T, d) : T[i][2] = k) <=> (\E i \in Of(R, d) : R[i][2] = k)
  BY <1>1
<1>4. GoesOn(n, R, d) => GoesOn(n, T, d)
  BY <1>1, <1>3 DEF GoesOn
<1>5. \A s : UpTo(n, R, d, s) => UpTo(n, T, d, s)
  BY <1>1, <1>3 DEF UpTo
<1>6. Rising(R, d) => Rising(T, d)
  BY <1>2 DEF Rising
<1> QED
  BY <1>4, <1>5, <1>6 DEF T

\* A longRunningOperation with a token; what was told and is queued of one.
Operating(c) == h[c].kind = "longRunningOperation" /\ h[c].arg # None
Told(c) ==
  /\ heard[c] = [i \in 1..Len(heard[c]) |-> i]
  /\ Rising(reports, c) /\ GoesOn(Len(heard[c]), reports, c)
  /\ Operating(c) => UpTo(Len(heard[c]), reports, c, h[c].step)

\* Every operation's reports are in turn, and only one with a token reports.
Progress ==
  /\ reports \in Queues /\ heard \in [Calls -> Seq(Nat)]
  /\ \A c \in Calls : h[c].at = "report" => h[c].arg # None
  /\ \A c \in Calls : Told(c)

\* At the start nothing was reported.
LEMMA InitProgress == Init => Progress
<1> SUFFICES ASSUME Init PROVE Progress
  OBVIOUS
<1>1. reports \in Queues /\ heard \in [Calls -> Seq(Nat)]
  BY DEF Init, Queues
<1>2. ASSUME NEW c \in Calls PROVE Told(c) /\ h[c].at # "report"
  <2>1. heard[c] = <<>> /\ Of(reports, c) = {} /\ ~Operating(c) /\ h[c].at # "report"
    BY DEF Init, Of, Operating, Idle
  <2> QED
    BY <2>1 DEF Told, Rising, GoesOn
<1> QED
  BY <1>1, <1>2 DEF Progress

\* A handler that goes on at the same step, or is done, changes nothing here.
LEMMA HandlerGoesProgress ==
  ASSUME Handlers, Progress, UNCHANGED <<reports, heard>>, NEW c \in Calls, NEW k,
         h' = [h EXCEPT ![c] = k], k.at = "report" => k.arg # None,
         k.kind = "none" \/ (k.kind = h[c].kind /\ k.arg = h[c].arg /\ (k.arg # None => k.step = h[c].step))
  PROVE  Progress'
<1>1. \A d \in Calls : h'[d] = IF d = c THEN k ELSE h[d]
  BY DEF Handlers
<1>2. ASSUME NEW d \in Calls PROVE Told(d)'
  <2>1. Told(d) /\ (Operating(d)' => Operating(d) /\ h'[d].step = h[d].step)
    BY <1>1 DEF Progress, Operating
  <2> QED
    BY <2>1 DEF Told
<1>3. \A d \in Calls : h'[d].at = "report" => h'[d].arg # None
  BY <1>1 DEF Progress
<1> QED
  BY <1>2, <1>3 DEF Progress

\* Goes and Returns do just that.
LEMMA GoesOrReturnsProgress ==
  ASSUME Handlers, Progress, UNCHANGED <<reports, heard>>, NEW c \in Calls,
         \/ Returns(c) \/ \E at \in {"count", "body", "steps", "requested"} : Goes(c, at)
         \/ Goes(c, "report") /\ h[c].arg # None
  PROVE  Progress'
<1>1. CASE Returns(c)
  <2>1. Idle.kind = "none" /\ Idle.at # "report"
    BY DEF Idle
  <2> QED
    BY <1>1, <2>1, HandlerGoesProgress DEF Returns
<1>2. ASSUME NEW at \in {"count", "body", "steps", "requested", "report"}, Goes(c, at),
             at = "report" => h[c].arg # None
      PROVE  Progress'
  <2> DEFINE k == [h[c] EXCEPT !.at = at]
  <2>1. h[c] \in Handler
    BY DEF Handlers
  <2>2. k.at = at /\ k.kind = h[c].kind /\ k.arg = h[c].arg /\ k.step = h[c].step
    BY <2>1 DEF Handler
  <2>3. h' = [h EXCEPT ![c] = k]
    BY <1>2 DEF Goes
  <2> HIDE DEF k
  <2> QED
    BY <1>2, <2>2, <2>3, HandlerGoesProgress
<1> QED
  BY <1>1, <1>2

\* A request begins with nothing heard and nothing queued of it.
LEMMA BeginProgress ==
  ASSUME Handlers, Progress, NEW c \in Calls, Begin(c)
  PROVE  Progress'
<1>0. PICK kind \in Kinds : \E arg \in Args(kind) :
        h' = [h EXCEPT ![c] = [Idle EXCEPT !.kind = kind, !.at = "log", !.arg = arg]]
  BY DEF Begin
<1>1. PICK arg \in Args(kind) :
        h' = [h EXCEPT ![c] = [Idle EXCEPT !.kind = kind, !.at = "log", !.arg = arg]]
  BY <1>0
<1>2. /\ \A d \in Calls : d # c => h'[d] = h[d] /\ heard'[d] = heard[d]
      /\ h'[c].at = "log" /\ h'[c].step = 0 /\ heard'[c] = <<>>
      /\ heard' \in [Calls -> Seq(Nat)] /\ reports' = reports
  BY <1>1 DEF Begin, Handlers, Progress, Idle
<1>3. Of(reports, c) = {}
  BY DEF Begin, Of
<1>4. ASSUME NEW d \in Calls, d # c PROVE Told(d)'
  <2>1. Told(d) /\ h'[d] = h[d] /\ heard'[d] = heard[d] /\ reports' = reports
    BY <1>2, <1>4 DEF Progress
  <2> QED
    BY <2>1 DEF Told, Operating
<1>5. Told(c)'
  <2>1. /\ Rising(reports, c) /\ GoesOn(0, reports, c) /\ UpTo(0, reports, c, 0)
    BY <1>3 DEF Rising, GoesOn, UpTo
  <2>2. heard'[c] = <<>> /\ Len(<<>>) = 0 /\ <<>> = [i \in 1..0 |-> i]
    BY <1>2
  <2> QED
    BY <1>2, <2>1, <2>2 DEF Told
<1> QED
  BY <1>2, <1>4, <1>5 DEF Progress

\* Report sends the next step of its operation.
LEMMA ReportProgress ==
  ASSUME Handlers, Progress, NEW c \in Calls, Report(c)
  PROVE  Progress'
<1> DEFINE s == h[c].step
<1>0. h[c] \in Handler /\ h \in [Calls -> Handler]
  BY DEF Handlers
<1>1. s \in Nat /\ s + 1 \in Nat \ {0} /\ Len(heard[c]) \in Nat /\ Operating(c) /\ reports \in Queues
  BY <1>0 DEF Handler, Report, At, Progress, Operating
<1>2. reports' = Put(reports, c, s + 1) /\ heard' = heard
  BY DEF Report, Put
<1>3. \A d \in Calls : d # c => h'[d] = h[d]
  BY <1>0 DEF Report, Reported
<1>4. h'[c].step = s + 1 /\ h'[c].at = "steps"
  BY <1>0 DEF Report, Reported, Handler
<1> HIDE DEF s
<1>5. Told(c)'
  <2>1. Told(c)
    BY DEF Progress
  <2>2. /\ Rising(Put(reports, c, s + 1), c) /\ GoesOn(Len(heard[c]), Put(reports, c, s + 1), c)
        /\ UpTo(Len(heard[c]), Put(reports, c, s + 1), c, s + 1)
    BY <2>1, <1>1, ReportInTurn DEF Told, s
  <2> QED
    BY <1>2, <1>4, <2>1, <2>2 DEF Told
<1>6. ASSUME NEW d \in Calls, d # c PROVE Told(d)'
  <2>1. Told(d) /\ Len(heard[d]) \in Nat /\ h'[d] = h[d]
    BY <1>3, <1>6 DEF Progress
  <2>2. /\ Rising(reports, d) => Rising(reports', d)
        /\ GoesOn(Len(heard[d]), reports, d) => GoesOn(Len(heard[d]), reports', d)
        /\ UpTo(Len(heard[d]), reports, d, h[d].step) => UpTo(Len(heard[d]), reports', d, h[d].step)
    BY <1>1, <1>2, <1>6, <2>1, ReportOfOther
  <2> QED
    BY <1>2, <2>1, <2>2 DEF Told, Operating
<1>7. reports' \in Queues
  BY <1>1, <1>2, OfAppend
<1> QED
  BY <1>2, <1>3, <1>4, <1>5, <1>6, <1>7 DEF Progress

\* The server receives the first report and sends it on.
LEMMA ReceiveProgressProgress ==
  ASSUME Handlers, Progress, ReceiveProgress
  PROVE  Progress'
<1>1. /\ reports \in Queues /\ reports # <<>> /\ reports' = Rest(reports) /\ h' = h
      /\ heard' = [heard EXCEPT ![Head(reports)[1]] = Append(@, Head(reports)[2])]
  BY DEF ReceiveProgress, Progress, Rest
<1>2. Head(reports) = reports[1] /\ reports[1] \in Calls \X (Nat \ {0})
  BY <1>1 DEF Queues
<1>0. PICK c \in Calls : c = reports[1][1]
  BY <1>2
<1>3. Told(c) /\ heard[c] \in Seq(Nat) /\ Len(heard[c]) \in Nat
  BY DEF Progress
<1>9. heard' = [heard EXCEPT ![c] = Append(@, reports[1][2])] /\ reports[1][2] \in Nat
  BY <1>0, <1>1, <1>2
<1>4. /\ reports[1][2] = Len(heard[c]) + 1
      /\ Rising(reports', c) /\ GoesOn(Len(heard[c]) + 1, reports', c)
      /\ \A s \in Nat : UpTo(Len(heard[c]), reports, c, s) => UpTo(Len(heard[c]) + 1, reports', c, s)
  BY <1>0, <1>1, <1>3, HeadInTurn DEF Told
<1>5. Told(c)'
  <2>1. heard'[c] = Append(heard[c], Len(heard[c]) + 1)
    BY <1>9, <1>4 DEF Progress
  <2>2. Len(heard'[c]) = Len(heard[c]) + 1 /\ heard'[c] = [i \in 1..(Len(heard[c]) + 1) |-> i]
    BY <1>3, <2>1 DEF Told
  <2>3. h[c].step \in Nat
    BY DEF Handlers, Handler
  <2>4. Operating(c)' => Operating(c)
    BY <1>1 DEF Operating
  <2> QED
    BY <1>1, <1>3, <1>4, <2>2, <2>3, <2>4 DEF Told
<1>6. ASSUME NEW d \in Calls, d # c PROVE Told(d)'
  <2>1. Told(d) /\ Len(heard[d]) \in Nat /\ heard'[d] = heard[d]
    BY <1>1, <1>6, <1>9 DEF Progress
  <2>2. /\ Rising(reports, d) => Rising(reports', d)
        /\ GoesOn(Len(heard[d]), reports, d) => GoesOn(Len(heard[d]), reports', d)
        /\ UpTo(Len(heard[d]), reports, d, h[d].step) => UpTo(Len(heard[d]), reports', d, h[d].step)
    BY <1>0, <1>1, <1>6, <2>1, HeadOfOther
  <2> QED
    BY <1>1, <2>1, <2>2 DEF Told, Operating
<1>7. reports' \in Queues
  BY <1>1, OfTail
<1>8. heard' \in [Calls -> Seq(Nat)]
  BY <1>9 DEF Progress
<1> QED
  BY <1>1, <1>5, <1>6, <1>7, <1>8 DEF Progress

\* Every step keeps the reports in turn.
LEMMA StepProgress == Handlers /\ Progress /\ [Next]_vars => Progress'
<1> SUFFICES ASSUME Handlers, Progress, [Next]_vars PROVE Progress'
  OBVIOUS
<1>1. ASSUME NEW c \in Calls, Begin(c) PROVE Progress'
  BY <1>1, BeginProgress
<1>2. ASSUME NEW c \in Calls, Log(c) PROVE Progress'
  BY <1>2, GoesOrReturnsProgress DEF Log
<1>3. ASSUME NEW c \in Calls,
             \/ ListPrompts(c) \/ Query(c) \/ ListResources(c) \/ SubscribeResource(c)
             \/ UnsubscribeResource(c) \/ OperationStops(c) \/ ContextDone(c)
      PROVE  Progress'
  BY <1>3, GoesOrReturnsProgress
  DEF ListPrompts, Query, ListResources, SubscribeResource, UnsubscribeResource, OperationStops, ContextDone
<1>4. ASSUME NEW c \in Calls, OperationBegins(c) \/ SampleLLM(c) PROVE Progress'
  BY <1>4, GoesOrReturnsProgress DEF OperationBegins, SampleLLM
<1>5. ASSUME NEW c \in Calls, OperationStep(c) PROVE Progress'
  <2>1. CASE h[c].arg = None /\ h' = [h EXCEPT ![c].step = @ + 1]
    <3> DEFINE k == [h[c] EXCEPT !.step = @ + 1]
    <3>1. h[c] \in Handler /\ h[c].at # "report"
      BY <1>5 DEF Handlers, OperationStep, At
    <3>2. k.at = h[c].at /\ k.kind = h[c].kind /\ k.arg = h[c].arg
      BY <3>1 DEF Handler
    <3>3. h' = [h EXCEPT ![c] = k]
      BY <2>1
    <3> HIDE DEF k
    <3> QED
      BY <1>5, <2>1, <3>1, <3>2, <3>3, HandlerGoesProgress DEF OperationStep
  <2>2. CASE Returns(c) \/ (Goes(c, "report") /\ h[c].arg # None)
    BY <1>5, <2>2, GoesOrReturnsProgress DEF OperationStep
  <2> QED
    BY <1>5, <2>1, <2>2 DEF OperationStep
<1>6. ASSUME NEW c \in Calls, Report(c) PROVE Progress'
  BY <1>6, ReportProgress
<1>7. CASE ReceiveProgress
  BY <1>7, ReceiveProgressProgress
<1>8. CASE UNCHANGED <<h, reports, heard>>
  BY <1>8 DEF Progress, Told, Operating
<1> QED
  BY <1>1, <1>2, <1>3, <1>4, <1>5, <1>6, <1>7, <1>8
  DEF Next, HandlerStep, SweepStep, vars, SetLogLevel, Visit, Wedge, Tick, SweepStops, SweepLogs,
      SendUpdate, SweepEnds, ReceiveLog, ServerStops, Close

\* The reports of every longRunningOperation arrive in order and without a gap,
\* with any number of operations, steps and places in progressChan.
THEOREM EverythingProgress == Spec => []ProgressInOrder
<1>1. Init => Handlers /\ Pages /\ Progress
  BY InitInvariant, InitProgress
<1>2. Handlers /\ Pages /\ Progress /\ [Next]_vars => (Handlers /\ Pages /\ Progress)'
  BY StepHandlers, StepProgress
<1>3. Progress => ProgressInOrder
  BY DEF Progress, Told, Operating, Rising, GoesOn, UpTo, Of, ProgressInOrder
<1> QED
  BY <1>1, <1>2, <1>3, PTL DEF Spec

-----------------------------------------------------------------------------
(* Type correctness: the channels within their capacities *)

Task ==
  [kind : Kinds \cup {"none"}, arg : URIs \cup 0..NumRes \cup {Token, None},
   at : {"idle", "log", "count", "body", "steps", "report", "requested"}, step : 0..MaxSteps]

\* What TypeOK says beyond Pages and Sweeps; a report that is due is not past
\* the last step.
Tasks ==
  /\ h \in [Calls -> Task]
  /\ \A c \in Calls : h[c].at = "report" => h[c].step < MaxSteps
Channels ==
  /\ left \in 0..MaxReqs /\ logLevel \in {"debug", "info", "notice"} /\ logs \in 0..LogCap
  /\ reports \in Seq(Calls \X (1..MaxSteps)) /\ Len(reports) <= ProgCap
  /\ heard \in [Calls -> Seq(1..MaxSteps)]
  /\ wedged \subseteq Receivers /\ closed \in BOOLEAN

\* A handler goes on at the same step, or is done.
LEMMA TaskGoes ==
  ASSUME Tasks, NEW c \in Calls,
         \/ Returns(c) \/ \E at \in {"count", "body", "steps", "requested"} : Goes(c, at)
         \/ Goes(c, "report") /\ h[c].step < MaxSteps
  PROVE  Tasks'
<1>0. h[c] \in Task /\ MaxSteps \in Nat
  BY ConstantsAssumption DEF Tasks, ConstantsAssumption
<1>1. CASE Returns(c)
  <2>1. Idle \in Task /\ Idle.at # "report"
    BY <1>0 DEF Task, Idle
  <2> QED
    BY <1>1, <2>1 DEF Tasks, Returns
<1>2. ASSUME NEW at \in {"count", "body", "steps", "requested", "report"}, Goes(c, at),
             at = "report" => h[c].step < MaxSteps
      PROVE  Tasks'
  <2>1. PICK k : k = [h[c] EXCEPT !.at = at]
    OBVIOUS
  <2>2. k \in Task /\ k.at = at /\ k.step = h[c].step
    BY <1>0, <2>1 DEF Task
  <2>3. h' = [h EXCEPT ![c] = k]
    BY <1>2, <2>1 DEF Goes
  <2> QED
    BY <1>2, <2>2, <2>3 DEF Tasks
<1> QED
  BY <1>1, <1>2

\* Every step keeps the handlers' records within their bounds.
LEMMA StepTasks == Handlers /\ Pages /\ Tasks /\ [Next]_vars => Tasks'
<1> SUFFICES ASSUME Handlers, Pages, Tasks, [Next]_vars PROVE Tasks'
  OBVIOUS
<1>1. ASSUME NEW c \in Calls, Begin(c) PROVE Tasks'
  <2>0. PICK kind \in Kinds : \E arg \in Args(kind) :
          h' = [h EXCEPT ![c] = [Idle EXCEPT !.kind = kind, !.at = "log", !.arg = arg]]
    BY <1>1 DEF Begin
  <2>1. PICK arg \in Args(kind) :
          h' = [h EXCEPT ![c] = [Idle EXCEPT !.kind = kind, !.at = "log", !.arg = arg]]
    BY <2>0
  <2>2. arg \in URIs \cup 0..NumRes \cup {Token, None}
    BY ConstantsAssumption DEF Args, Pages, ConstantsAssumption
  <2>3. PICK k : k = [Idle EXCEPT !.kind = kind, !.at = "log", !.arg = arg]
    OBVIOUS
  <2>4. k \in Task /\ k.at = "log"
    <3>1. 0 \in 0..MaxSteps
      BY ConstantsAssumption DEF ConstantsAssumption
    <3>2. k = [kind |-> kind, at |-> "log", arg |-> arg, step |-> 0]
      BY <2>3 DEF Idle
    <3> QED
      BY <2>2, <3>1, <3>2 DEF Task
  <2> QED
    BY <2>1, <2>3, <2>4 DEF Tasks
<1>2. ASSUME NEW c \in Calls, Log(c) PROVE Tasks'
  BY <1>2, TaskGoes DEF Log
<1>3. ASSUME NEW c \in Calls,
             \/ ListPrompts(c) \/ Query(c) \/ ListResources(c) \/ SubscribeResource(c)
             \/ UnsubscribeResource(c) \/ OperationStops(c) \/ ContextDone(c)
      PROVE  Tasks'
  BY <1>3, TaskGoes
  DEF ListPrompts, Query, ListResources, SubscribeResource, UnsubscribeResource, OperationStops, ContextDone
<1>4. ASSUME NEW c \in Calls, OperationBegins(c) \/ SampleLLM(c) PROVE Tasks'
  BY <1>4, TaskGoes DEF OperationBegins, SampleLLM
<1>5. ASSUME NEW c \in Calls, OperationStep(c) \/ Report(c) PROVE Tasks'
  <2>0. h[c] \in Task /\ MaxSteps \in Nat
    BY ConstantsAssumption DEF Tasks, ConstantsAssumption
  <2>1. CASE Returns(c) \/ (Goes(c, "report") /\ h[c].step < MaxSteps)
    BY <2>1, TaskGoes
  <2>2. CASE /\ h[c].step < MaxSteps /\ h[c].at # "idle"
             /\ h' = [h EXCEPT ![c] = [h[c] EXCEPT !.at = "steps", !.step = h[c].step + 1]]
    <3>1. PICK k : k = [h[c] EXCEPT !.at = "steps", !.step = h[c].step + 1]
      OBVIOUS
    <3>2. k \in Task /\ k.at = "steps"
      <4>1. h[c].step + 1 \in 0..MaxSteps
        BY <2>0, <2>2 DEF Task
      <4>2. k = [kind |-> h[c].kind, arg |-> h[c].arg, at |-> "steps", step |-> h[c].step + 1]
        BY <2>0, <3>1 DEF Task
      <4>3. h[c].kind \in Kinds \cup {"none"} /\ h[c].arg \in URIs \cup 0..NumRes \cup {Token, None}
        BY <2>0 DEF Task
      <4> QED
        BY ONLY <4>1, <4>2, <4>3 DEF Task
    <3> QED
      BY <2>2, <3>1, <3>2 DEF Tasks
  <2>3. CASE OperationStep(c) /\ h[c].step < MaxSteps /\ h' = [h EXCEPT ![c].step = @ + 1]
    <3>1. PICK k : k = [h[c] EXCEPT !.step = h[c].step + 1]
      OBVIOUS
    <3>2. k \in Task /\ k.at = "steps"
      BY <2>0, <2>3, <3>1 DEF Task, OperationStep, At
    <3>3. h' = [h EXCEPT ![c] = k]
      BY <2>3, <3>1
    <3> QED
      BY <3>2, <3>3 DEF Tasks
  <2>4. CASE Report(c)
    BY <2>2, <2>4 DEF Report, Reported, At, Tasks
  <2> QED
    BY <1>5, <2>1, <2>3, <2>4 DEF OperationStep
<1>6. CASE UNCHANGED h
  BY <1>6 DEF Tasks
<1> QED
  BY <1>1, <1>2, <1>3, <1>4, <1>5, <1>6
  DEF Next, HandlerStep, SweepStep, vars, SetLogLevel, Visit, Wedge, Tick, SweepStops, SweepLogs,
      SendUpdate, SweepEnds, ReceiveLog, ReceiveProgress, ServerStops, Close

\* A channel is sent to only while it has room, and received from in order.
LEMMA StepChannels == Tasks /\ Channels /\ [Next]_vars => Channels'
<1> SUFFICES ASSUME Tasks, Channels, [Next]_vars PROVE Channels'
  OBVIOUS
<1> DEFINE others == <<left, logLevel, logs, wedged, closed>>
<1>0. MaxReqs \in Nat /\ LogCap \in Nat /\ ProgCap \in Nat /\ MaxSteps \in Nat
  BY ConstantsAssumption DEF ConstantsAssumption
<1>1. ASSUME NEW c \in Calls, Begin(c) PROVE Channels'
  <2>1. left' \in 0..MaxReqs /\ UNCHANGED <<logLevel, logs, reports, wedged, closed>>
    BY <1>0, <1>1 DEF Begin, Channels
  <2>2. heard' \in [Calls -> Seq(1..MaxSteps)]
    <3>1. <<>> \in Seq(1..MaxSteps) /\ heard' = [heard EXCEPT ![c] = <<>>]
      BY <1>1 DEF Begin
    <3> QED
      BY <3>1 DEF Channels
  <2> QED
    BY <2>1, <2>2 DEF Channels
<1>2. ASSUME UNCHANGED <<left, logLevel, reports, heard, wedged, closed>>, Logged("debug") \/ Logged("info")
      PROVE  Channels'
  BY <1>0, <1>2 DEF Logged, Channels
<1>3. ASSUME NEW c \in Calls, Report(c) PROVE Channels'
  <2>1. <<c, h[c].step + 1>> \in Calls \X (1..MaxSteps)
    BY <1>0, <1>3 DEF Report, At, Tasks, Task
  <2>2. /\ reports \in Seq(Calls \X (1..MaxSteps)) /\ Len(reports) < ProgCap
        /\ reports' = Append(reports, <<c, h[c].step + 1>>)
        /\ UNCHANGED <<left, logLevel, logs, heard, wedged, closed>>
    BY <1>3 DEF Report, Channels
  <2>3. reports' \in Seq(Calls \X (1..MaxSteps)) /\ Len(reports') = Len(reports) + 1 /\ Len(reports) \in Nat
    BY <2>1, <2>2
  <2> QED
    BY <1>0, <2>2, <2>3 DEF Channels
<1>4. CASE ReceiveProgress
  <2>1. /\ reports \in Seq(Calls \X (1..MaxSteps)) /\ reports # <<>> /\ reports' = Tail(reports)
        /\ heard' = [heard EXCEPT ![Head(reports)[1]] = Append(@, Head(reports)[2])]
        /\ UNCHANGED <<left, logLevel, logs, wedged, closed>>
    BY <1>4 DEF ReceiveProgress, Channels
  <2>2. PICK r \in Calls \X (1..MaxSteps) : r = Head(reports)
    BY <2>1
  <2>3. heard' \in [Calls -> Seq(1..MaxSteps)]
    <3>1. PICK c \in Calls : c = r[1]
      BY <2>2
    <3>2. PICK n \in 1..MaxSteps : n = r[2]
      BY <2>2
    <3>3. Append(heard[c], n) \in Seq(1..MaxSteps)
      BY DEF Channels
    <3>4. heard' = [heard EXCEPT ![c] = Append(heard[c], n)]
      BY <2>1, <2>2, <3>1, <3>2
    <3> QED
      BY <3>3, <3>4 DEF Channels
  <2>4. reports' \in Seq(Calls \X (1..MaxSteps)) /\ Len(reports') <= ProgCap
    BY <1>0, <2>1 DEF Channels
  <2> QED
    BY <2>1, <2>3, <2>4 DEF Channels
<1>5. CASE \E level \in {"debug", "info", "notice"} \ {logLevel} : SetLogLevel(level)
  BY <1>0, <1>5 DEF SetLogLevel, Channels
<1>6. CASE ReceiveLog
  BY <1>0, <1>6 DEF ReceiveLog, Channels
<1>7. CASE ServerStops \/ \E x \in Receivers : Wedge(x)
  BY <1>7 DEF ServerStops, Wedge, Channels
<1>8. CASE Close
  <2>1. closed' \in BOOLEAN
    BY <1>8, Zenon DEF Close
  <2> QED
    BY <1>8, <2>1 DEF Close, Channels
<1>9. CASE UNCHANGED <<others, reports, heard>>
  BY <1>9 DEF Channels
<1>10. ASSUME NEW c \in Calls,
              \/ ListPrompts(c) \/ Query(c) \/ ListResources(c) \/ SubscribeResource(c) \/ UnsubscribeResource(c)
              \/ OperationBegins(c) \/ OperationStep(c) \/ OperationStops(c) \/ ContextDone(c) \/ SampleLLM(c)
       PROVE  Channels'
  BY <1>9, <1>10
  DEF ListPrompts, Query, ListResources, SubscribeResource, UnsubscribeResource, OperationBegins,
      OperationStep, OperationStops, ContextDone, SampleLLM
<1>11. CASE Tick \/ SweepStops \/ (\E u \in URIs : Visit(u)) \/ SendUpdate \/ SweepEnds \/ UNCHANGED vars
  BY <1>9, <1>11 DEF Tick, SweepStops, Visit, SendUpdate, SweepEnds, vars
<1>12. ASSUME SweepLogs \/ \E c \in Calls : Log(c) PROVE Channels'
  BY <1>2, <1>12 DEF SweepLogs, Log
<1> QED
  BY <1>1, <1>3, <1>4, <1>5, <1>6, <1>7, <1>8, <1>10, <1>11, <1>12 DEF Next, HandlerStep, SweepStep

\* Type correctness of the everything server for any number of handlers and
\* resources: in particular logChan and progressChan are within their
\* capacities, whatever these are.
THEOREM EverythingTypes == Spec => []TypeOK
<1>1. Init => Tasks /\ Channels
  <2> SUFFICES ASSUME Init PROVE Tasks /\ Channels
    OBVIOUS
  <2> USE ConstantsAssumption DEF ConstantsAssumption, Init
  <2>1. Tasks
    BY DEF Tasks, Task, Idle
  <2>2. closed \in BOOLEAN
    BY Zenon
  <2>3. reports \in Seq(Calls \X (1..MaxSteps)) /\ Len(reports) <= ProgCap
    OBVIOUS
  <2>4. heard \in [Calls -> Seq(1..MaxSteps)]
    OBVIOUS
  <2> QED
    BY <2>1, <2>2, <2>3, <2>4 DEF Channels
<1>2. Pages => pages \in [shown : Seq(1..NumRes), cursor : 0..NumRes \cup {None}]
  <2> SUFFICES ASSUME Pages PROVE pages \in [shown : Seq(1..NumRes), cursor : 0..NumRes \cup {None}]
    OBVIOUS
  <2>0. NumRes \in Nat \ {0} /\ None \notin Nat
    BY ConstantsAssumption DEF ConstantsAssumption
  <2>1. PICK n \in 0..NumRes : n = ShownSoFar
    BY <2>0 DEF Pages, ShownSoFar
  <2>2. PICK q : q = [i \in 1..n |-> i]
    OBVIOUS
  <2>3. q \in Seq(1..NumRes)
    BY <2>0, <2>2
  <2>4. pages = [shown |-> q, cursor |-> pages.cursor] /\ pages.cursor \in 0..NumRes \cup {None}
    BY <2>0, <2>1, <2>2 DEF Pages
  <2> QED
    BY <2>3, <2>4
<1>3. Sweeps => /\ subs \subseteq URIs /\ stale \in [URIs -> Nat \cup {None}]
                /\ sweep \in [at : {"select", "range", "log", "send", "done"}, keys : SUBSET URIs,
                              seen : SUBSET URIs, uri : URIs \cup {None}]
  BY DEF Sweeps
<1>4. Pages /\ Sweeps /\ Tasks /\ Channels => TypeOK
  BY <1>2, <1>3 DEF Tasks, Task, Channels, TypeOK
<1> QED
  BY <1>1, <1>4, InitInvariant, StepHandlers, StepSweeps, StepTasks, StepChannels, PTL DEF Spec

=============================================================================
