----------------------------- MODULE SSEProofs -----------------------------
(***************************************************************************)
(* Proofs about SSE, for any number of connections and of calls of Send:   *)
(* what a client is handed is what was written, in order; why StartSession *)
(* returns an empty id; and why the server comes down.                     *)
(***************************************************************************)
EXTENDS SSE, TLAPS

-----------------------------------------------------------------------------
(* The inductive invariant, connection by connection *)

\* How far StartSession, listenMessages and HandleSSE are with each other.
Phases(c) ==
  LET k == cli[c] IN
  /\ k.start = "idle" => pc[c] = "idle"
  /\ k.start \in {"idle", "do"} => k.reader = "idle"
  /\ k.start \in {"idle", "do", "wait"} => k.sessID = None /\ k.closed = 0
  /\ k.start = "wait" => k.reader = "read"
  /\ k.sessID = None => k.got = <<>> /\ k.reader \notin {"offer", "errs"}

\* Who ends a request and a response.
Ends(c) ==
  /\ conn[c].gone => \/ conn[c].body = "broken" \/ cli[c].reader \in {"done", "panic"}
                     \/ pc[c] = "done"
  /\ pc[c] = "done" => \/ srv = "closed" \/ conn[c].body = "broken"
                       \/ cli[c].reader \in {"done", "panic"}
  /\ conn[c].body = "eof" => conn[c].buf = <<>> /\ conn[c].gone

\* HandleSSE writes one endpoint event, in its time.
Endpoint(c) ==
  LET W == conn[c].written IN
  /\ \A i \in DOMAIN W : W[i] = "endpoint" => pc[c] \in {"flush", "flushing", "wait", "done"}
  /\ \A i, j \in DOMAIN W : W[i] = "endpoint" /\ W[j] = "endpoint" => i = j

\* What was written, W, is what was taken from the stream, n events, what is on
\* the wire, P, and what is in the buffer, B.
Split(W, n, P, B) ==
  /\ Len(W) = n + Len(P) + Len(B)
  /\ \A i \in 1..Len(P) : P[i] = W[n + i]
  /\ \A i \in 1..Len(B) : B[i] = W[n + Len(P) + i]

\* How many events listenMessages has dealt with.
Taken(k) ==
  IF k.sessID = None THEN 0 ELSE IF k.reader = "errs" THEN Len(k.got) ELSE Len(k.got) + 1

\* As long as no two goroutines overlapped: nothing is garbled, the endpoint
\* event comes first and then what the client got, and the rest is under way.
Stream(c) ==
  LET k == cli[c]
      W == conn[c].written
  IN c \notin racy =>
       /\ \A i \in DOMAIN W : W[i] # "garbled"
       /\ k.sessID # None => /\ Len(k.got) + 1 <= Len(W) /\ W[1] = "endpoint"
                             /\ \A i \in 1..Len(k.got) : k.got[i] = W[i + 1]
       /\ k.reader \in {"idle", "read", "offer", "errs"} =>
            Split(W, Taken(k), conn[c].wire, conn[c].buf)
       /\ k.reader = "read" /\ k.sessID = None => k.start = "wait"

\* listenMessages has an event in hand.
Held(c) == cli[c].reader \in {"offer", "errs"} => conn[c].wire # <<>>

\* EmptySessionCauses, with what keeps a response without events so.
Empty(c) ==
  cli[c].start = "empty" =>
    \/ conn[c].written = <<>> /\ conn[c].gone
    \/ conn[c].written # <<>> /\ conn[c].written[1] # "endpoint"
    \/ c \in racy

Local(c) == Phases(c) /\ Ends(c) /\ Endpoint(c) /\ Stream(c) /\ Held(c) /\ Empty(c)

\* The goroutines of Send write to connections.
Targets == \A s \in Senders : pc[s] # "idle" => send[s].to \in Conns /\ send[s].call # "idle"

IInv ==
  /\ TypeOK /\ CrashCauses
  /\ Targets /\ \A c \in Conns : Local(c)

-----------------------------------------------------------------------------
(* Events on their way *)

\* A flush sends what is in the buffer after what is on the wire.
LEMMA SplitFlush ==
  ASSUME NEW W \in Seq(Events), NEW P \in Seq(Events), NEW B \in Seq(Events), NEW n \in Nat,
         Split(W, n, P, B)
  PROVE  Split(W, n, P \o B, <<>>)
<1> DEFINE Q == P \o B
<1>1. /\ Q \in Seq(Events) /\ Len(Q) = Len(P) + Len(B) /\ Len(P) \in Nat /\ Len(B) \in Nat
      /\ \A i \in 1..Len(P) : Q[i] = P[i]
      /\ \A i \in 1..Len(B) : Q[Len(P) + i] = B[i]
  OBVIOUS
<1>2. Len(<<>>) = 0
  OBVIOUS
<1> HIDE DEF Q
<1>3. ASSUME NEW i \in 1..Len(Q) PROVE Q[i] = W[n + i]
  <2>1. CASE i <= Len(P)
    BY <1>1, <2>1 DEF Split
  <2>2. CASE i > Len(P)
    <3>1. PICK j \in 1..Len(B) : i = Len(P) + j
      <4>1. i - Len(P) \in 1..Len(B) /\ i = Len(P) + (i - Len(P))
        BY <1>1, <2>2
      <4> QED
        BY ZenonT(30), <4>1
    <3>2. Q[i] = B[j] /\ B[j] = W[n + Len(P) + j] /\ n + Len(P) + j = n + i
      BY <1>1, <3>1 DEF Split
    <3> QED
      BY <3>2
  <2> QED
    BY <1>1, <2>1, <2>2
<1>4. Len(W) = n + Len(Q) + 0
  BY <1>1 DEF Split
<1> QED
  BY <1>2, <1>3, <1>4 DEF Split, Q

\* A write goes to the end of the buffer.
LEMMA SplitWrite ==
  ASSUME NEW W \in Seq(Events), NEW P \in Seq(Events), NEW B \in Seq(Events), NEW n \in Nat,
         NEW e \in Events, Split(W, n, P, B)
  PROVE  Split(W \o <<e>>, n, P, B \o <<e>>)
<1> DEFINE V == W \o <<e>>
           C == B \o <<e>>
<1>1. /\ Len(V) = Len(W) + 1 /\ \A i \in 1..Len(W) : V[i] = W[i]
      /\ V[Len(W) + 1] = e /\ Len(W) \in Nat
  OBVIOUS
<1>2. /\ Len(C) = Len(B) + 1 /\ \A i \in 1..Len(B) : C[i] = B[i]
      /\ C[Len(B) + 1] = e /\ Len(B) \in Nat /\ Len(P) \in Nat
  OBVIOUS
<1> HIDE DEF V, C
<1>3. Len(V) = n + Len(P) + Len(C)
  BY <1>1, <1>2 DEF Split
<1>4. ASSUME NEW i \in 1..Len(P) PROVE P[i] = V[n + i]
  <2>1. n + i \in 1..Len(W) /\ P[i] = W[n + i]
    BY <1>2 DEF Split
  <2> QED
    BY <1>1, <2>1
<1>5. ASSUME NEW i \in 1..Len(C) PROVE C[i] = V[n + Len(P) + i]
  <2>1. CASE i \in 1..Len(B)
    <3>1. n + Len(P) + i \in 1..Len(W) /\ B[i] = W[n + Len(P) + i]
      BY <1>2, <2>1 DEF Split
    <3> QED
      BY <1>1, <1>2, <2>1, <3>1
  <2>2. CASE i = Len(B) + 1
    <3>1. n + Len(P) + i = Len(W) + 1
      BY <1>2, <2>2 DEF Split
    <3> QED
      BY <1>1, <1>2, <2>2, <3>1
  <2> QED
    BY <1>2, <2>1, <2>2
<1> QED
  BY <1>3, <1>4, <1>5 DEF Split, V, C

\* An event is taken from the wire.
LEMMA SplitTake ==
  ASSUME NEW W \in Seq(Events), NEW P \in Seq(Events), NEW B \in Seq(Events), NEW n \in Nat,
         Split(W, n, P, B), P # <<>>
  PROVE  /\ Split(W, n + 1, Tail(P), B)
         /\ Head(P) = W[n + 1] /\ n + 1 \in 1..Len(W) /\ Head(P) \in Events
<1> DEFINE T == Tail(P)
<1>1. /\ Len(T) = Len(P) - 1 /\ \A i \in 1..Len(T) : T[i] = P[i + 1] /\ Len(P) \in Nat
      /\ Len(P) >= 1 /\ Len(B) \in Nat /\ Head(P) = P[1] /\ Head(P) \in Events
  OBVIOUS
<1> HIDE DEF T
<1>2. Len(W) = n + 1 + Len(T) + Len(B) /\ \A i \in 1..Len(T) : T[i] = W[n + 1 + i]
  BY <1>1 DEF Split
<1>3. \A i \in 1..Len(B) : B[i] = W[n + 1 + Len(T) + i]
  BY <1>1 DEF Split
<1>4. Head(P) = W[n + 1] /\ n + 1 \in 1..Len(W)
  BY <1>1 DEF Split
<1> QED
  BY <1>1, <1>2, <1>3, <1>4 DEF Split, T

-----------------------------------------------------------------------------
(* Connections and clients *)

\* The fields of a connection.
LEMMA Fields ==
  ASSUME NEW k \in Connection
  PROVE  /\ k.buf \in Seq(Events) /\ k.wire \in Seq(Events) /\ k.written \in Seq(Events)
         /\ k.body \in {"open", "eof", "broken"} /\ k.gone \in BOOLEAN
         /\ k.stored \in BOOLEAN /\ k.stalled \in BOOLEAN /\ k.headers \in BOOLEAN
BY DEF Connection

\* Events one after the other are events.
LEMMA ConcatType ==
  ASSUME NEW s \in Seq(Events), NEW t \in Seq(Events)
  PROVE  s \o t \in Seq(Events)
OBVIOUS

\* What the invariant is about.
Same(a, b) == /\ a.buf = b.buf /\ a.wire = b.wire /\ a.written = b.written
              /\ a.body = b.body /\ a.gone = b.gone

\* sessionsChan takes the session, and the mcp server does.
LEMMA SessionOf ==
  ASSUME NEW k \in Connection, NEW x \in {"queued", "accepted"}
  PROVE  [k EXCEPT !.session = x] \in Connection /\ Same([k EXCEPT !.session = x], k)
BY DEF Connection, Same
\* writers.Store
LEMMA StoredOf ==
  ASSUME NEW k \in Connection
  PROVE  [k EXCEPT !.stored = TRUE] \in Connection /\ Same([k EXCEPT !.stored = TRUE], k)
BY ZenonT(30) DEF Connection, Same
\* The client stops reading.
LEMMA StalledOf ==
  ASSUME NEW k \in Connection
  PROVE  [k EXCEPT !.stalled = TRUE] \in Connection /\ Same([k EXCEPT !.stalled = TRUE], k)
BY ZenonT(30) DEF Connection, Same

\* What net/http makes of a handler that fails, and of a lost connection.
LEMMA AbortedOf ==
  ASSUME NEW k \in Connection
  PROVE  LET j == Aborted(k) IN
         /\ j \in Connection /\ j.body = "broken" /\ j.gone = TRUE
         /\ j.buf = k.buf /\ j.wire = k.wire /\ j.written = k.written
BY ZenonT(30) DEF Connection, Aborted

\* What a flush does.
LEMMA FlushedOf ==
  ASSUME NEW k \in Connection
  PROVE  LET j == Flushed(k) IN
         /\ j \in Connection /\ j.body = k.body /\ j.gone = k.gone
         /\ j.buf = <<>> /\ j.wire = k.wire \o k.buf /\ j.written = k.written
<1>0. k.wire \in Seq(Events) /\ k.buf \in Seq(Events)
  BY Fields
<1>1. PICK W \in Seq(Events) : W = k.wire \o k.buf
  BY ZenonT(30), <1>0, ConcatType
<1>2. <<>> \in Seq(Events)
  OBVIOUS
<1>3. PICK E \in Seq(Events) : E = <<>>
  BY ZenonT(30), <1>2
<1>4. Flushed(k) = [k EXCEPT !.headers = TRUE, !.wire = W, !.buf = E]
  BY <1>1, <1>3 DEF Flushed
<1>5. [k EXCEPT !.headers = TRUE, !.wire = W, !.buf = E] \in Connection
  BY ZenonT(30) DEF Connection
<1>6. LET j == [k EXCEPT !.headers = TRUE, !.wire = W, !.buf = E] IN
      j.body = k.body /\ j.gone = k.gone /\ j.buf = E /\ j.wire = W /\ j.written = k.written
  BY DEF Connection
<1> QED
  BY ZenonT(30), <1>1, <1>3, <1>4, <1>5, <1>6

\* What a handler that returns does.
LEMMA FinishedOf ==
  ASSUME NEW k \in Connection
  PROVE  LET j == Finished(k) IN
         /\ j \in Connection /\ j.gone = TRUE
         /\ j.body = IF k.body = "open" THEN "eof" ELSE k.body
         /\ j.buf = <<>> /\ j.wire = k.wire \o k.buf /\ j.written = k.written
<1>0. k.wire \in Seq(Events) /\ k.buf \in Seq(Events)
  BY Fields
<1>1. PICK W \in Seq(Events) : W = k.wire \o k.buf
  BY ZenonT(30), <1>0, ConcatType
<1>2. <<>> \in Seq(Events)
  OBVIOUS
<1>3. PICK E \in Seq(Events) : E = <<>>
  BY ZenonT(30), <1>2
<1>7. PICK b \in {"open", "eof", "broken"} : b = IF k.body = "open" THEN "eof" ELSE k.body
  BY Fields
<1>4. Finished(k) = [k EXCEPT !.wire = W, !.buf = E, !.gone = TRUE, !.body = b]
  BY <1>1, <1>3, <1>7 DEF Finished
<1>5. [k EXCEPT !.wire = W, !.buf = E, !.gone = TRUE, !.body = b] \in Connection
  BY ZenonT(30) DEF Connection
<1>6. LET j == [k EXCEPT !.wire = W, !.buf = E, !.gone = TRUE, !.body = b] IN
      j.body = b /\ j.gone = TRUE /\ j.buf = E /\ j.wire = W /\ j.written = k.written
  BY DEF Connection
<1> QED
  BY ZenonT(30), <1>1, <1>3, <1>4, <1>5, <1>6, <1>7

\* What a write does.
LEMMA WroteOf ==
  ASSUME NEW k \in Connection, NEW out \in Seq(Events)
  PROVE  LET j == Wrote(k, out) IN
         /\ j \in Connection /\ j.body = k.body /\ j.gone = k.gone /\ j.wire = k.wire
         /\ j.buf = k.buf \o out /\ j.written = k.written \o out
<1>0. k.written \in Seq(Events) /\ k.buf \in Seq(Events)
  BY Fields
<1>1. PICK B \in Seq(Events) : B = k.buf \o out
  BY ZenonT(30), <1>0, ConcatType
<1>2. PICK W \in Seq(Events) : W = k.written \o out
  BY ZenonT(30), <1>0, ConcatType
<1>3. Wrote(k, out) = [k EXCEPT !.buf = B, !.written = W]
  BY <1>1, <1>2 DEF Wrote
<1>4. [k EXCEPT !.buf = B, !.written = W] \in Connection
  BY ZenonT(30) DEF Connection
<1>5. LET j == [k EXCEPT !.buf = B, !.written = W] IN
      j.body = k.body /\ j.gone = k.gone /\ j.buf = B /\ j.wire = k.wire /\ j.written = W
  BY DEF Connection
<1> QED
  BY <1>1, <1>2, <1>3, <1>4, <1>5

\* j is the connection k once its client has gone on to r.
IsRead(j, k, r) ==
  /\ j \in Connection /\ j.body = k.body /\ j.gone = (k.gone \/ r \in {"done", "panic"})
  /\ j.buf = k.buf /\ j.written = k.written
  /\ j.wire = IF k.wire = <<>> \/ r \in {"offer", "errs"} THEN k.wire ELSE Tail(k.wire)

\* What listenMessages does to the connection as it goes on.
LEMMA ReadOf ==
  ASSUME NEW k \in Connection, NEW r
  PROVE  IsRead(Read(k, r), k, r)
<1>0. k.wire \in Seq(Events)
  BY Fields
<1>6. k.wire # <<>> => Tail(k.wire) \in Seq(Events)
  BY <1>0
<1>1. PICK W \in Seq(Events) :
        W = IF k.wire = <<>> \/ r \in {"offer", "errs"} THEN k.wire ELSE Tail(k.wire)
  BY <1>0, <1>6, Zenon
<1>2. PICK g \in BOOLEAN : g <=> (k.gone \/ r \in {"done", "panic"})
  BY Zenon
<1>3. Read(k, r) = [k EXCEPT !.gone = g, !.wire = W]
  BY ZenonT(30), <1>1, <1>2 DEF Read
<1>4. [k EXCEPT !.gone = g, !.wire = W] \in Connection
  BY ZenonT(30) DEF Connection
<1>5. LET j == [k EXCEPT !.gone = g, !.wire = W] IN
      j.body = k.body /\ j.gone = g /\ j.buf = k.buf /\ j.wire = W /\ j.written = k.written
  BY DEF Connection
<1> QED
  BY <1>1, <1>2, <1>3, <1>4, <1>5 DEF IsRead

\* The client k has these fields.
Is(k, start, reader, sessID, got, closed) ==
  /\ k \in Client /\ k.start = start /\ k.reader = reader
  /\ k.sessID = sessID /\ k.got = got /\ k.closed = closed

\* The next event is read.
LEMMA LoopsOf ==
  ASSUME NEW k \in Client
  PROVE  Is(Loops(k), k.start, "read", k.sessID, k.got, k.closed)
BY DEF Is, Client, Loops

\* listenMessages returns.
LEMMA ReturnsOf ==
  ASSUME NEW k \in Client
  PROVE  Is(Returns(k), IF k.start = "wait" THEN "empty" ELSE k.start, "done", k.sessID, k.got, k.closed)
BY ZenonT(30) DEF Is, Client, Returns

\* listenMessages sends the result of StartSession.
LEMMA ReportsOf ==
  ASSUME NEW k \in Client, NEW res \in {"ok", "err"}, NEW next \in {"read", "done"}
  PROVE  /\ k.start = "wait" => Is(Reports(k, res, next), res, next, k.sessID, k.got, k.closed)
         /\ k.start # "wait" => Is(Reports(k, res, next), k.start, "stuck", k.sessID, k.got, k.closed)
BY ZenonT(30) DEF Is, Client, Reports

\* listenMessages panics in logError.
LEMMA PanicOf ==
  ASSUME NEW k \in Client
  PROVE  Is([k EXCEPT !.reader = "panic"], k.start, "panic", k.sessID, k.got, k.closed)
BY DEF Is, Client

\* listenMessages offers a message.
LEMMA OfferOf ==
  ASSUME NEW k \in Client
  PROVE  Is([k EXCEPT !.reader = "offer"], k.start, "offer", k.sessID, k.got, k.closed)
BY DEF Is, Client

\* listenMessages takes the id from the endpoint event.
LEMMA SessIDOf ==
  ASSUME NEW k \in Client, NEW c \in Conns
  PROVE  Is([k EXCEPT !.sessID = c], k.start, k.reader, c, k.got, k.closed)
BY DEF Is, Client

\* What becomes of a client k with the event ev in hand, case by case.
LoopsOn(k, ev, r) ==
  /\ (k.sessID # None /\ ev \in {"endpoint", "badURL", "noID", "badJSON"}) \/ ev = "badType"
  /\ Is(r, k.start, "read", k.sessID, k.got, k.closed)
Panics(k, r) == k.closed >= 1 /\ Is(r, k.start, "panic", k.sessID, k.got, k.closed)
GetsID(c, k, ev, r) ==
  k.sessID = None /\ k.start = "wait" /\ ev = "endpoint" /\ Is(r, "ok", "read", c, k.got, k.closed)
GetsError(k, ev, r) ==
  /\ k.sessID = None /\ k.start = "wait" /\ ev \in {"badURL", "noID"}
  /\ \E next \in {"read", "done"} : Is(r, "err", next, k.sessID, k.got, k.closed)
Sticks(c, k, r) ==
  /\ k.sessID = None /\ k.start # "wait"
  /\ \E id \in {None, c} : Is(r, k.start, "stuck", id, k.got, k.closed)
Leaves(k, ev, r) ==
  /\ k.sessID = None /\ ev # "endpoint"
  /\ Is(r, IF k.start = "wait" THEN "empty" ELSE k.start, "done", k.sessID, k.got, k.closed)
Offers(k, ev, r) ==
  k.sessID # None /\ ev # "endpoint" /\ Is(r, k.start, "offer", k.sessID, k.got, k.closed)

\* switch ev.Type has one of these outcomes.
LEMMA HandleEventOf ==
  ASSUME NEW c \in Conns, cli[c] \in Client, NEW ev
  PROVE  LET k == cli[c]
             r == HandleEvent(c, ev)
         IN \/ LoopsOn(k, ev, r) \/ Panics(k, r) \/ GetsID(c, k, ev, r) \/ GetsError(k, ev, r)
            \/ Sticks(c, k, r) \/ Leaves(k, ev, r) \/ Offers(k, ev, r)
<1> DEFINE k == cli[c]
           r == HandleEvent(c, ev)
<1>0. k \in Client
  OBVIOUS
<1>1. CASE k.sessID # None /\ ev \in {"endpoint", "badURL", "noID"}
  <2>1. r = Loops(k)
    BY <1>1 DEF HandleEvent
  <2> QED
    BY <1>0, <1>1, <2>1, LoopsOf DEF LoopsOn
<1>2. CASE ev = "badType"
  <2>1. r = Logs(k, Loops(k))
    BY <1>2 DEF HandleEvent
  <2>2. CASE k.closed >= 1
    BY <1>0, <2>1, <2>2, PanicOf DEF Logs, Panics
  <2>3. CASE ~(k.closed >= 1)
    BY <1>0, <1>2, <2>1, <2>3, LoopsOf DEF Logs, LoopsOn
  <2> QED
    BY <2>2, <2>3
<1>3. CASE k.sessID = None /\ ev \in {"badURL", "noID"}
  <2>1. PICK next \in {"read", "done"} : r = Reports(k, "err", next)
    BY <1>3 DEF HandleEvent
  <2>2. CASE k.start = "wait"
    BY <1>0, <1>3, <2>1, <2>2, ReportsOf DEF GetsError
  <2>3. CASE k.start # "wait"
    BY <1>0, <1>3, <2>1, <2>3, ReportsOf DEF Sticks
  <2> QED
    BY <2>2, <2>3
<1>4. CASE k.sessID = None /\ ev = "endpoint"
  <2> DEFINE j == [k EXCEPT !.sessID = c]
  <2>1. r = Reports(j, "ok", "read")
    BY <1>4 DEF HandleEvent
  <2>2. Is(j, k.start, k.reader, c, k.got, k.closed)
    BY <1>0, SessIDOf
  <2> HIDE DEF j
  <2>3. j \in Client /\ j.start = k.start /\ j.sessID = c /\ j.got = k.got /\ j.closed = k.closed
    BY <2>2 DEF Is
  <2>4. CASE k.start = "wait"
    BY <1>4, <2>1, <2>3, <2>4, ReportsOf DEF GetsID
  <2>5. CASE k.start # "wait"
    BY <1>4, <2>1, <2>3, <2>5, ReportsOf DEF Sticks
  <2> QED
    BY <2>4, <2>5
<1>5. CASE k.sessID = None /\ ev \notin {"endpoint", "badURL", "noID", "badType"}
  <2>1. r = Logs(k, Returns(k))
    BY <1>5 DEF HandleEvent
  <2>2. CASE k.closed >= 1
    BY <1>0, <2>1, <2>2, PanicOf DEF Logs, Panics
  <2>3. CASE ~(k.closed >= 1)
    BY <1>0, <1>5, <2>1, <2>3, ReturnsOf DEF Logs, Leaves
  <2> QED
    BY <2>2, <2>3
<1>6. CASE k.sessID # None /\ ev \notin {"endpoint", "badURL", "noID", "badType"}
  <2>1. r = IF ev = "badJSON" THEN Logs(k, Loops(k)) ELSE [k EXCEPT !.reader = "offer"]
    BY <1>6 DEF HandleEvent
  <2>2. CASE ev = "badJSON" /\ k.closed >= 1
    BY <1>0, <2>1, <2>2, PanicOf DEF Logs, Panics
  <2>3. CASE ev = "badJSON" /\ ~(k.closed >= 1)
    BY <1>0, <1>6, <2>1, <2>3, LoopsOf DEF Logs, LoopsOn
  <2>4. CASE ev # "badJSON"
    BY <1>0, <1>6, <2>1, <2>4, OfferOf DEF Offers
  <2> QED
    BY <2>2, <2>3, <2>4
<1> QED
  BY <1>1, <1>2, <1>3, <1>4, <1>5, <1>6

\* A closed closeChan, the end of the stream, or an error in it.
LEMMA FailsOf ==
  ASSUME NEW c, NEW k \in Client
  PROVE  LET r == Fails(k) IN
         \/ k.sessID = None /\ k.start = "wait" /\ Is(r, "err", "done", k.sessID, k.got, k.closed)
         \/ Sticks(c, k, r)
         \/ k.sessID # None /\ r = Returns(k)
<1>1. CASE k.sessID = None /\ k.start = "wait"
  BY <1>1, ReportsOf DEF Fails
<1>2. CASE k.sessID = None /\ k.start # "wait"
  BY <1>2, ReportsOf DEF Fails, Sticks
<1>3. CASE k.sessID # None
  BY <1>3 DEF Fails
<1> QED
  BY <1>1, <1>2, <1>3

-----------------------------------------------------------------------------
(* Types *)

\* A goroutine that writes has a connection.
LEMMA TargetConn ==
  ASSUME TypeOK, Targets, NEW w \in Conns \cup Senders, pc[w] # "idle"
  PROVE  Target(w) \in Conns
BY DEF Targets, Target

\* The steps of HandleSSE.
LEMMA HandlerTypes ==
  ASSUME TypeOK, NEW c \in Conns,
         Announce(c) \/ AnnouncePanics(c) \/ StoreWriter(c) \/ HandlerEnds(c)
  PROVE  TypeOK'
<1>0. conn[c] \in Connection
  BY DEF TypeOK
<1> USE ConstantsAssumption DEF TypeOK, ConstantsAssumption
<1>1. ASSUME Announce(c) PROVE TypeOK'
  <2>1. [conn[c] EXCEPT !.session = "queued"] \in Connection
    BY ZenonT(30), <1>0, SessionOf
  <2> QED
    BY <1>1, <2>1 DEF Announce
<1>2. ASSUME AnnouncePanics(c) PROVE TypeOK'
  <2>1. Aborted(conn[c]) \in Connection
    BY ZenonT(30), <1>0, AbortedOf
  <2> QED
    BY <1>2, <2>1 DEF AnnouncePanics
<1>3. ASSUME StoreWriter(c) PROVE TypeOK'
  <2>1. [conn[c] EXCEPT !.stored = TRUE] \in Connection
    BY ZenonT(30), <1>0, StoredOf
  <2> QED
    BY <1>3, <2>1 DEF StoreWriter
<1>4. ASSUME HandlerEnds(c) PROVE TypeOK'
  <2>1. Finished(conn[c]) \in Connection
    BY ZenonT(30), <1>0, FinishedOf
  <2> QED
    BY <1>4, <2>1 DEF HandlerEnds
<1> HIDE DEF TypeOK
<1> QED
  BY <1>1, <1>2, <1>3, <1>4

\* The steps of a write.
LEMMA WriterTypes ==
  ASSUME TypeOK, Targets, NEW w \in Conns \cup Senders, WriterStep(w)
  PROVE  TypeOK'
<1>0. pc[w] # "idle"
  BY DEF WriterStep, BeginWrite, EndWrite, WriteFails, BeginFlush, EndFlush, FlushReturns
<1>1. PICK c \in Conns : c = Target(w)
  BY <1>0, TargetConn
<1>2. conn[c] \in Connection
  BY DEF TypeOK
<1> USE ConstantsAssumption DEF TypeOK, ConstantsAssumption
<1>3. ASSUME BeginWrite(w) PROVE TypeOK'
  <2>1. racy' \subseteq Conns
    BY <1>1, <1>3 DEF BeginWrite, Overlapping
  <2> QED
    BY <1>3, <2>1 DEF BeginWrite
<1>4. ASSUME EndWrite(w) PROVE TypeOK'
  <2>1. PICK out \in {<<>>, <<"garbled">>, <<Event(w)>>} :
          conn' = [conn EXCEPT ![c] = Wrote(conn[c], out)]
    BY ZenonT(30), <1>1, <1>4 DEF EndWrite
  <2>2. Event(w) \in Events /\ "garbled" \in Events
    BY DEF Event, Events
  <2>3. out \in Seq(Events)
    <3>1. <<>> \in Seq(Events)
      OBVIOUS
    <3>2. <<"garbled">> \in Seq(Events)
      BY ONLY <2>2
    <3>3. <<Event(w)>> \in Seq(Events)
      BY ONLY <2>2
    <3> QED
      BY ZenonT(30), <2>1, <3>1, <3>2, <3>3
  <2>4. Wrote(conn[c], out) \in Connection
    BY <1>2, <2>3, WroteOf
  <2> QED
    BY ZenonT(30), <1>4, <2>1, <2>4 DEF EndWrite
<1>5. ASSUME WriteFails(w) PROVE TypeOK'
  <2>1. Aborted(conn[c]) \in Connection
    BY ZenonT(30), <1>2, AbortedOf
  <2> QED
    BY <1>1, <1>5, <2>1 DEF WriteFails
<1>6. ASSUME BeginFlush(w) PROVE TypeOK'
  <2>1. racy' \subseteq Conns
    BY <1>1, <1>6 DEF BeginFlush, Overlapping
  <2> QED
    BY <1>6, <2>1 DEF BeginFlush
<1>7. ASSUME EndFlush(w) PROVE TypeOK'
  <2>1. Flushed(conn[c]) \in Connection
    BY ZenonT(30), <1>2, FlushedOf
  <2> QED
    BY <1>1, <1>7, <2>1 DEF EndFlush, FlushReturns
<1> HIDE DEF TypeOK
<1> QED
  BY <1>3, <1>4, <1>5, <1>6, <1>7 DEF WriterStep

\* The steps of Send, of Close and of the network.
LEMMA ServerTypes ==
  ASSUME TypeOK, Targets,
         \/ \E s \in Senders : \/ FlushDead(s) \/ SendReturns(s) \/ GivesUp(s)
                               \/ \E c \in Conns : Send(s, c)
         \/ CloseServer \/ \E c \in Conns : TakeSession(c) \/ Disconnect(c) \/ Stall(c)
  PROVE  TypeOK'
<1> USE ConstantsAssumption DEF ConstantsAssumption, TypeOK
<1>1. ASSUME NEW s \in Senders, FlushDead(s) PROVE TypeOK'
  <2>1. flushLock = s /\ s # None
    BY <1>1 DEF FlushDead
  <2>2. CASE UNCHANGED <<pc, flushLock>> /\ crashed' = TRUE
    BY <1>1, <2>2 DEF FlushDead
  <2>3. CASE pc' = [pc EXCEPT ![s] = "sent"] /\ flushLock' = None /\ UNCHANGED crashed
    BY <1>1, <2>1, <2>3 DEF FlushDead
  <2> QED
    BY ZenonT(30), <1>1, <2>2, <2>3 DEF FlushDead
<1>2. ASSUME NEW s \in Senders, SendReturns(s) \/ GivesUp(s) PROVE TypeOK'
  BY <1>2 DEF SendReturns, GivesUp
<1>3. ASSUME NEW s \in Senders, NEW c \in Conns, Send(s, c) PROVE TypeOK'
  <2>1. pc[s] = "idle"
    BY <1>3 DEF Send, Targets
  <2>2. CASE conn[c].stored
    <3>1. send' = [send EXCEPT ![s] = [to |-> c, call |-> "waiting"]] /\ pc' = [pc EXCEPT ![s] = "write"]
      BY <1>3, <2>2 DEF Send
    <3> QED
      BY <1>3, <2>1, <3>1 DEF Send
  <2>3. CASE ~conn[c].stored
    <3>1. send' = [send EXCEPT ![s] = [to |-> c, call |-> "returned"]] /\ pc' = pc
      BY <1>3, <2>3 DEF Send
    <3> QED
      BY <1>3, <3>1 DEF Send
  <2> QED
    BY <2>2, <2>3
<1>4. ASSUME CloseServer PROVE TypeOK'
  BY <1>4 DEF CloseServer, Fault
<1>5. ASSUME NEW c \in Conns, TakeSession(c) PROVE TypeOK'
  <2>1. [conn[c] EXCEPT !.session = "accepted"] \in Connection
    BY ZenonT(30), SessionOf
  <2> QED
    BY <1>5, <2>1 DEF TakeSession
<1>6. ASSUME NEW c \in Conns, Disconnect(c) PROVE TypeOK'
  <2>1. Aborted(conn[c]) \in Connection
    BY ZenonT(30), AbortedOf
  <2> QED
    BY <1>6, <2>1 DEF Disconnect, Fault
<1>7. ASSUME NEW c \in Conns, Stall(c) PROVE TypeOK'
  <2>1. [conn[c] EXCEPT !.stalled = TRUE] \in Connection
    BY ZenonT(30), StalledOf
  <2> QED
    BY <1>7, <2>1 DEF Stall, Fault
<1> HIDE DEF TypeOK
<1> QED
  BY <1>1, <1>2, <1>3, <1>4, <1>5, <1>6, <1>7

-----------------------------------------------------------------------------
(* What the server does to a connection *)

\* Marks of others: races and the end of the server are for good.
Onward == racy \subseteq racy' /\ (srv = "closed" => srv' = "closed")

\* Steps that send and end nothing here.
LEMMA QuietLocal ==
  ASSUME NEW c \in Conns, Local(c), Onward, cli'[c] = cli[c], Same(conn'[c], conn[c]),
         \/ pc'[c] = pc[c]
         \/ /\ pc[c] \notin {"idle", "done"} /\ pc'[c] # "done"
            /\ pc[c] \in {"flush", "flushing", "wait"} => pc'[c] \in {"flush", "flushing", "wait"}
  PROVE  Local(c)'
<1> USE DEF Local, Onward, Same
<1>1. Phases(c)'
  BY DEF Phases
<1>2. Ends(c)'
  BY DEF Ends
<1>3. Endpoint(c)'
  BY DEF Endpoint
<1>4. Stream(c)'
  BY DEF Stream
<1>5. Held(c)' /\ Empty(c)'
  BY DEF Held, Empty
<1> QED
  BY <1>1, <1>2, <1>3, <1>4, <1>5

\* The response is aborted, by the handler or the network.
LEMMA AbortedLocal ==
  ASSUME NEW c \in Conns, Local(c), Onward, cli'[c] = cli[c], cli[c].start # "idle",
         conn[c] \in Connection, conn'[c] = Aborted(conn[c]), pc'[c] \in {pc[c], "done"}
  PROVE  Local(c)'
<1>0. LET j == conn'[c] IN
      /\ j.body = "broken" /\ j.gone = TRUE
      /\ j.buf = conn[c].buf /\ j.wire = conn[c].wire /\ j.written = conn[c].written
  BY ZenonT(30), AbortedOf
<1> USE <1>0 DEF Local, Onward
<1>1. Phases(c)'
  BY DEF Phases
<1>2. Ends(c)'
  BY DEF Ends
<1>3. Endpoint(c)'
  BY DEF Endpoint
<1>4. Stream(c)'
  BY SMTT(30) DEF Stream
<1>5. Held(c)' /\ Empty(c)'
  BY DEF Held, Empty
<1> QED
  BY <1>1, <1>2, <1>3, <1>4, <1>5

\* The events of a stream that is not racy are on their way.
LEMMA TakenNat ==
  ASSUME NEW k \in Client
  PROVE  Taken(k) \in Nat /\ Len(k.got) \in Nat /\ k.got \in Seq(Events)
BY DEF Taken, Client

\* What is in the buffer goes to the wire.
LEMMA StreamFlush ==
  ASSUME NEW c \in Conns, Stream(c), Onward, cli'[c] = cli[c], cli[c] \in Client,
         conn[c] \in Connection, conn'[c].written = conn[c].written,
         conn'[c].wire = conn[c].wire \o conn[c].buf, conn'[c].buf = <<>>
  PROVE  Stream(c)' /\ (Held(c) => Held(c)')
<1>1. /\ conn[c].written \in Seq(Events) /\ conn[c].wire \in Seq(Events) /\ conn[c].buf \in Seq(Events)
      /\ Taken(cli[c]) \in Nat
  BY Fields, TakenNat
<1>2. Split(conn[c].written, Taken(cli[c]), conn[c].wire, conn[c].buf) =>
        Split(conn'[c].written, Taken(cli[c]), conn'[c].wire, conn'[c].buf)
  BY <1>1, SplitFlush
<1>3. conn[c].wire # <<>> => conn'[c].wire # <<>>
  BY <1>1
<1> QED
  BY <1>2, <1>3 DEF Stream, Held, Onward

\* HandleSSE returns.
LEMMA FinishedLocal ==
  ASSUME TypeOK, NEW c \in Conns, Local(c), HandlerEnds(c)
  PROVE  Local(c)'
<1>0. /\ conn[c] \in Connection /\ cli[c] \in Client /\ cli' = cli /\ conn'[c] = Finished(conn[c])
      /\ pc[c] = "wait" /\ pc'[c] = "done" /\ Onward /\ srv' = srv
      /\ conn[c].gone \/ srv = "closed"
  BY DEF TypeOK, HandlerEnds, Onward
<1>1. LET j == conn'[c] IN
      /\ j.gone = TRUE /\ j.body = IF conn[c].body = "open" THEN "eof" ELSE conn[c].body
      /\ j.buf = <<>> /\ j.wire = conn[c].wire \o conn[c].buf /\ j.written = conn[c].written
  BY ZenonT(30), <1>0, FinishedOf
<1>2. Phases(c)'
  BY <1>0 DEF Local, Phases
<1>3. Ends(c)'
  BY <1>0, <1>1 DEF Local, Ends
<1>4. Endpoint(c)'
  BY <1>0, <1>1 DEF Local, Endpoint
<1>5. Stream(c)' /\ Held(c)'
  BY ZenonT(30), <1>0, <1>1, StreamFlush DEF Local
<1>6. Empty(c)'
  BY <1>0, <1>1 DEF Local, Empty, Onward
<1> QED
  BY <1>2, <1>3, <1>4, <1>5, <1>6 DEF Local

\* Flush returns.
LEMMA FlushedLocal ==
  ASSUME TypeOK, NEW c \in Conns, Local(c), NEW w \in Conns \cup Senders, Target(w) = c, EndFlush(w)
  PROVE  Local(c)'
<1>0. /\ conn[c] \in Connection /\ cli[c] \in Client /\ cli' = cli /\ conn'[c] = Flushed(conn[c])
      /\ Onward /\ srv' = srv
  BY DEF TypeOK, EndFlush, FlushReturns, Onward
<1>7. pc'[c] = pc[c] \/ (pc[c] = "flushing" /\ pc'[c] = "wait")
  BY DEF EndFlush, FlushReturns, TypeOK, Target
<1>1. LET j == conn'[c] IN
      /\ j.gone = conn[c].gone /\ j.body = conn[c].body
      /\ j.buf = <<>> /\ j.wire = conn[c].wire \o conn[c].buf /\ j.written = conn[c].written
  BY ZenonT(30), <1>0, FlushedOf
<1>2. Phases(c)'
  BY <1>0, <1>7 DEF Local, Phases
<1>3. Ends(c)'
  BY <1>0, <1>1, <1>7 DEF Local, Ends
<1>4. Endpoint(c)'
  BY <1>0, <1>1, <1>7 DEF Local, Endpoint
<1>5. Stream(c)' /\ Held(c)'
  BY ZenonT(30), <1>0, <1>1, StreamFlush DEF Local
<1>6. Empty(c)'
  BY <1>0, <1>1 DEF Local, Empty, Onward
<1> QED
  BY <1>2, <1>3, <1>4, <1>5, <1>6 DEF Local

\* A sequence and one more event.
LEMMA OneMore ==
  ASSUME NEW W \in Seq(Events), NEW e \in Events
  PROVE  /\ Len(W \o <<e>>) = Len(W) + 1 /\ Len(W) \in Nat
         /\ DOMAIN (W \o <<e>>) = 1..(Len(W) + 1) /\ DOMAIN W = 1..Len(W)
         /\ \A i \in 1..Len(W) : (W \o <<e>>)[i] = W[i]
         /\ (W \o <<e>>)[Len(W) + 1] = e
         /\ W \o <<e>> # <<>> /\ (W # <<>> => Len(W) >= 1)
OBVIOUS

\* An event is written.
LEMMA EventLocal ==
  ASSUME TypeOK, NEW c \in Conns, Local(c), NEW e \in Events, ~conn[c].gone,
         e = "garbled" => c \in racy,
         e = "endpoint" => pc[c] = "writing" /\ pc'[c] = "flush",
         pc'[c] = pc[c] \/ (pc[c] = "writing" /\ pc'[c] = "flush"),
         cli' = cli, srv' = srv, racy' = racy, conn'[c] = Wrote(conn[c], <<e>>)
  PROVE  Local(c)'
<1>0. /\ conn[c] \in Connection /\ cli[c] \in Client /\ <<e>> \in Seq(Events)
  BY DEF TypeOK
<1>1. LET j == conn'[c] IN
      /\ j.gone = conn[c].gone /\ j.body = conn[c].body /\ j.wire = conn[c].wire
      /\ j.buf = conn[c].buf \o <<e>> /\ j.written = conn[c].written \o <<e>>
  <2>1. PICK out \in Seq(Events) : out = <<e>>
    BY ZenonT(30), <1>0
  <2>2. LET j == conn'[c] IN
        /\ j.gone = conn[c].gone /\ j.body = conn[c].body /\ j.wire = conn[c].wire
        /\ j.buf = conn[c].buf \o out /\ j.written = conn[c].written \o out
    <3>1. conn'[c] = Wrote(conn[c], out) /\ out \in Seq(Events) /\ conn[c] \in Connection
      BY <1>0, <2>1
    <3> QED
      BY ONLY <3>1, WroteOf, ZenonT(60)
  <2> QED
    BY <2>1, <2>2
<1> DEFINE W == conn[c].written
           V == conn'[c].written
<1>7. /\ W \in Seq(Events) /\ conn[c].wire \in Seq(Events) /\ conn[c].buf \in Seq(Events)
      /\ Taken(cli[c]) \in Nat /\ Len(cli[c].got) \in Nat
  BY <1>0, Fields, TakenNat
<1>10. V = W \o <<e>>
  BY <1>1
<1> HIDE DEF V, W
<1>8. /\ Len(V) = Len(W) + 1 /\ Len(W) \in Nat /\ DOMAIN V = 1..(Len(W) + 1) /\ DOMAIN W = 1..Len(W)
      /\ \A i \in 1..Len(W) : V[i] = W[i]
      /\ V[Len(W) + 1] = e /\ V # <<>> /\ (W # <<>> => Len(W) >= 1)
  BY ONLY <1>7, <1>10, e \in Events, OneMore
<1>2. Phases(c)'
  BY DEF Local, Phases
<1>3. Ends(c)'
  BY <1>1 DEF Local, Ends
<1>4. Endpoint(c)'
  <2>1. /\ \A i \in DOMAIN W : W[i] = "endpoint" => pc[c] \in {"flush", "flushing", "wait", "done"}
        /\ \A i, j \in DOMAIN W : W[i] = "endpoint" /\ W[j] = "endpoint" => i = j
    BY DEF Local, Endpoint, W
  <2>2. \A i \in DOMAIN V : V[i] = "endpoint" => pc'[c] \in {"flush", "flushing", "wait", "done"}
    BY <1>8, <2>1
  <2>3. \A i, j \in DOMAIN V : V[i] = "endpoint" /\ V[j] = "endpoint" => i = j
    BY <1>8, <2>1
  <2> QED
    BY <2>2, <2>3 DEF Endpoint, V
<1>5. Stream(c)'
  <2> SUFFICES ASSUME c \notin racy PROVE Stream(c)'
    BY DEF Stream
  <2> DEFINE k == cli[c]
  <2>1. /\ \A i \in DOMAIN W : W[i] # "garbled"
        /\ k.sessID # None => /\ Len(k.got) + 1 <= Len(W) /\ W[1] = "endpoint"
                              /\ \A i \in 1..Len(k.got) : k.got[i] = W[i + 1]
        /\ k.reader \in {"idle", "read", "offer", "errs"} =>
             Split(W, Taken(k), conn[c].wire, conn[c].buf)
        /\ k.reader = "read" /\ k.sessID = None => k.start = "wait"
    BY DEF Local, Stream, W
  <2>2. \A i \in DOMAIN V : V[i] # "garbled"
    BY <1>8, <2>1
  <2>3. k.sessID # None => /\ Len(k.got) + 1 <= Len(V) /\ V[1] = "endpoint"
                           /\ \A i \in 1..Len(k.got) : k.got[i] = V[i + 1]
    <3> SUFFICES ASSUME k.sessID # None
                 PROVE  /\ Len(k.got) + 1 <= Len(V) /\ V[1] = "endpoint"
                        /\ \A i \in 1..Len(k.got) : k.got[i] = V[i + 1]
      OBVIOUS
    <3> HIDE DEF k
    <3>1. /\ Len(k.got) + 1 <= Len(W) /\ W[1] = "endpoint" /\ Len(k.got) \in Nat
          /\ \A i \in 1..Len(k.got) : k.got[i] = W[i + 1]
      BY <2>1, <1>7 DEF k
    <3>2. \A i \in 1..Len(k.got) : i + 1 \in 1..Len(W)
      BY <1>8, <3>1
    <3> QED
      BY <1>8, <3>1, <3>2
  <2>4. Split(W, Taken(k), conn[c].wire, conn[c].buf) => Split(V, Taken(k), conn'[c].wire, conn'[c].buf)
    BY ZenonT(30), <1>1, <1>7, SplitWrite DEF V, W
  <2> QED
    BY <1>1, <2>1, <2>2, <2>3, <2>4 DEF Stream, V
<1>6. Empty(c)'
  <2>1. W # <<>> /\ W[1] # "endpoint" => V # <<>> /\ V[1] # "endpoint"
    BY <1>8
  <2> QED
    BY <1>1, <2>1 DEF Local, Empty, V, W
<1>9. Held(c)'
  BY <1>1 DEF Local, Held
<1> QED
  BY <1>2, <1>3, <1>4, <1>5, <1>6, <1>9 DEF Local

\* The steps of HandleSSE.
LEMMA HandlerLocal ==
  ASSUME TypeOK, \A d \in Conns : Local(d), NEW c \in Conns,
         Announce(c) \/ AnnouncePanics(c) \/ StoreWriter(c) \/ HandlerEnds(c), NEW d \in Conns
  PROVE  Local(d)'
<1>0. /\ conn[c] \in Connection /\ conn[d] \in Connection /\ cli' = cli /\ Onward /\ Local(d)
      /\ cli[c].start # "idle" /\ conn \in [Conns -> Connection]
  <2>1. pc[c] # "idle" /\ Phases(c)
    BY DEF Announce, AnnouncePanics, StoreWriter, HandlerEnds, Local
  <2>2. cli' = cli /\ racy' = racy /\ srv' = srv
    BY DEF Announce, AnnouncePanics, StoreWriter, HandlerEnds
  <2> QED
    BY <2>1, <2>2 DEF TypeOK, Phases, Onward
<1>10. PICK T : pc \in [Conns \cup Senders -> T]
  BY ZenonT(30) DEF TypeOK
<1>1. ASSUME Announce(c) PROVE Local(d)'
  <2>1. /\ conn' = [conn EXCEPT ![c] = [conn[c] EXCEPT !.session = "queued"]]
        /\ pc[c] = "announce" /\ pc' = [pc EXCEPT ![c] = "store"]
    BY <1>1 DEF Announce
  <2>2. Same([conn[c] EXCEPT !.session = "queued"], conn[c])
    BY ZenonT(30), <1>0, SessionOf
  <2>3. Same(conn'[d], conn[d])
    BY <1>0, <2>1, <2>2 DEF Same
  <2>4. pc'[d] = pc[d] \/ (pc[d] = "announce" /\ pc'[d] = "store")
    BY <1>10, <1>0, <2>1
  <2> QED
    BY <1>0, <2>3, <2>4, QuietLocal
<1>2. ASSUME AnnouncePanics(c) PROVE Local(d)'
  <2>1. conn' = [conn EXCEPT ![c] = Aborted(conn[c])] /\ pc' = [pc EXCEPT ![c] = "done"]
    BY <1>2 DEF AnnouncePanics
  <2>2. CASE d = c
    BY <1>0, <2>1, <2>2, AbortedLocal
  <2>3. CASE d # c
    <3>1. conn'[d] = conn[d] /\ pc'[d] = pc[d]
      BY <1>10, <1>0, <2>1, <2>3
    <3> QED
      BY <1>0, <3>1, QuietLocal DEF Same
  <2> QED
    BY <2>2, <2>3
<1>3. ASSUME StoreWriter(c) PROVE Local(d)'
  <2>1. /\ conn' = [conn EXCEPT ![c] = [conn[c] EXCEPT !.stored = TRUE]]
        /\ pc[c] = "store" /\ pc' = [pc EXCEPT ![c] = "write"]
    BY <1>3 DEF StoreWriter
  <2>2. Same([conn[c] EXCEPT !.stored = TRUE], conn[c])
    BY <1>0, StoredOf
  <2>3. Same(conn'[d], conn[d])
    BY <1>0, <2>1, <2>2 DEF Same
  <2>4. pc'[d] = pc[d] \/ (pc[d] = "store" /\ pc'[d] = "write")
    BY <1>10, <1>0, <2>1
  <2> QED
    BY <1>0, <2>3, <2>4, QuietLocal
<1>4. ASSUME HandlerEnds(c) PROVE Local(d)'
  <2>1. CASE d = c
    BY <1>0, <1>4, <2>1, FinishedLocal
  <2>2. CASE d # c
    <3>1. conn'[d] = conn[d] /\ pc'[d] = pc[d]
      BY <1>10, <1>0, <1>4, <2>2 DEF HandlerEnds
    <3> QED
      BY <1>0, <3>1, QuietLocal DEF Same
  <2> QED
    BY <2>1, <2>2
<1> QED
  BY <1>1, <1>2, <1>3, <1>4

\* The steps of a write.
LEMMA WriterLocal ==
  ASSUME TypeOK, Targets, \A d \in Conns : Local(d), NEW w \in Conns \cup Senders, WriterStep(w),
         NEW d \in Conns
  PROVE  Local(d)'
<1>0. pc[w] \notin {"idle", "done"} /\ cli' = cli /\ srv' = srv
  BY DEF WriterStep, BeginWrite, EndWrite, WriteFails, BeginFlush, EndFlush, FlushReturns
<1>1. PICK c \in Conns : c = Target(w)
  BY <1>0, TargetConn
<1>2. /\ conn[c] \in Connection /\ conn[d] \in Connection /\ Local(d) /\ Local(c)
      /\ conn \in [Conns -> Connection]
  BY DEF TypeOK
<1>10. PICK T : pc \in [Conns \cup Senders -> T]
  BY ZenonT(30) DEF TypeOK
<1>3. w \in Conns => w = c /\ cli[c].start # "idle"
  BY <1>0, <1>1, <1>2 DEF Target, Local, Phases
<1>4. ASSUME BeginWrite(w) PROVE Local(d)'
  <2>1. conn' = conn /\ pc[w] = "write" /\ pc' = [pc EXCEPT ![w] = "writing"] /\ Onward
    BY <1>4, <1>0 DEF BeginWrite, Overlapping, Onward
  <2>2. pc'[d] = pc[d] \/ (pc[d] = "write" /\ pc'[d] = "writing")
    BY <1>10, <1>2, <2>1
  <2> QED
    BY <1>0, <1>2, <2>1, <2>2, QuietLocal DEF Same
<1>5. ASSUME EndWrite(w) PROVE Local(d)'
  <2>1. /\ pc[w] = "writing" /\ pc' = [pc EXCEPT ![w] = "flush"] /\ racy' = racy
        /\ \E out \in IF Dead(c) \/ conn[c].gone THEN {<<>>}
                      ELSE IF c \in racy THEN {<<"garbled">>, <<>>} ELSE {<<Event(w)>>} :
             conn' = [conn EXCEPT ![c] = Wrote(conn[c], out)]
    BY ZenonT(30), <1>5, <1>1 DEF EndWrite
  <2>2. pc'[d] = pc[d] \/ (pc[d] = "writing" /\ pc'[d] = "flush")
    BY <1>10, <1>2, <2>1
  <2>3. CASE d # c
    <3>1. conn'[d] = conn[d] /\ Onward
      BY <1>0, <1>2, <2>1, <2>3 DEF Onward
    <3> QED
      BY <1>0, <1>2, <2>2, <3>1, QuietLocal DEF Same
  <2>4. CASE d = c /\ conn' = [conn EXCEPT ![c] = Wrote(conn[c], <<>>)]
    <3>1. /\ <<>> \in Seq(Events) /\ conn[c].buf \o <<>> = conn[c].buf
          /\ conn[c].written \o <<>> = conn[c].written
      BY <1>2, Fields
    <3>2. Same(Wrote(conn[c], <<>>), conn[c])
      BY ZenonT(30), <1>2, <3>1, WroteOf DEF Same
    <3>3. Same(conn'[d], conn[d]) /\ Onward
      BY <1>0, <1>2, <2>1, <2>4, <3>2 DEF Onward
    <3> QED
      BY <1>0, <1>2, <2>2, <3>3, QuietLocal
  <2>5. CASE d = c /\ c \in racy /\ ~conn[c].gone /\ conn' = [conn EXCEPT ![c] = Wrote(conn[c], <<"garbled">>)]
    <3>1. "garbled" \in Events /\ conn'[c] = Wrote(conn[c], <<"garbled">>)
      BY <1>2, <2>5 DEF Events
    <3> QED
      BY <1>0, <1>2, <2>1, <2>2, <2>5, <3>1, EventLocal
  <2>6. CASE d = c /\ ~conn[c].gone /\ conn' = [conn EXCEPT ![c] = Wrote(conn[c], <<Event(w)>>)]
    <3>1. /\ Event(w) \in Events /\ Event(w) # "garbled" /\ conn'[c] = Wrote(conn[c], <<Event(w)>>)
          /\ Event(w) = "endpoint" => w = c
      BY <1>2, <1>3, <2>6, ConstantsAssumption DEF Events, Event, ConstantsAssumption
    <3>2. w = c => pc[c] = "writing" /\ pc'[c] = "flush"
      BY <1>10, <1>2, <2>1
    <3> QED
      BY <1>0, <1>2, <2>1, <2>2, <2>6, <3>1, <3>2, EventLocal
  <2> QED
    BY ZenonT(30), <2>1, <2>3, <2>4, <2>5, <2>6
<1>6. ASSUME WriteFails(w) PROVE Local(d)'
  <2>1. /\ pc' = [pc EXCEPT ![w] = IF w \in Conns THEN "done" ELSE "sent"] /\ Onward
        /\ conn' = IF w \in Conns THEN [conn EXCEPT ![c] = Aborted(conn[c])] ELSE conn
    BY <1>0, <1>1, <1>6 DEF WriteFails, Onward
  <2>2. CASE d = w
    <3>1. d = c /\ conn'[d] = Aborted(conn[d]) /\ pc'[d] = "done"
      BY <1>10, <1>2, <1>3, <2>1, <2>2
    <3> QED
      BY <1>0, <1>2, <1>3, <2>1, <2>2, <3>1, AbortedLocal
  <2>3. CASE d # w
    <3>1. conn'[d] = conn[d] /\ pc'[d] = pc[d]
      BY <1>10, <1>2, <1>3, <2>1, <2>3
    <3> QED
      BY <1>0, <1>2, <2>1, <3>1, QuietLocal DEF Same
  <2> QED
    BY <2>2, <2>3
<1>7. ASSUME BeginFlush(w) PROVE Local(d)'
  <2>1. conn' = conn /\ pc[w] = "flush" /\ pc' = [pc EXCEPT ![w] = "flushing"] /\ Onward
    BY <1>7, <1>0 DEF BeginFlush, Overlapping, Onward
  <2>2. pc'[d] = pc[d] \/ (pc[d] = "flush" /\ pc'[d] = "flushing")
    BY <1>10, <1>2, <2>1
  <2> QED
    BY <1>0, <1>2, <2>1, <2>2, QuietLocal DEF Same
<1>8. ASSUME EndFlush(w) PROVE Local(d)'
  <2>1. /\ conn' = [conn EXCEPT ![c] = Flushed(conn[c])] /\ Onward
        /\ pc' = [pc EXCEPT ![w] = IF w \in Conns THEN "wait" ELSE "sent"]
    BY <1>0, <1>1, <1>8 DEF EndFlush, FlushReturns, Onward
  <2>2. CASE d = c
    BY <1>1, <1>2, <1>8, <2>2, FlushedLocal
  <2>3. CASE d # c
    <3>1. conn'[d] = conn[d] /\ pc'[d] = pc[d]
      BY <1>10, <1>2, <1>3, <2>1, <2>3
    <3> QED
      BY <1>0, <1>2, <2>1, <3>1, QuietLocal DEF Same
  <2> QED
    BY <2>2, <2>3
<1> QED
  BY <1>4, <1>5, <1>6, <1>7, <1>8 DEF WriterStep

\* The steps of Send, of Close and of the network.
LEMMA ServerLocal ==
  ASSUME TypeOK, Targets, \A d \in Conns : Local(d),
         \/ \E s \in Senders : \/ FlushDead(s) \/ SendReturns(s) \/ GivesUp(s)
                               \/ \E c \in Conns : Send(s, c)
         \/ CloseServer \/ \E c \in Conns : TakeSession(c) \/ Disconnect(c) \/ Stall(c),
         NEW d \in Conns
  PROVE  Local(d)'
<1>0. conn \in [Conns -> Connection] /\ conn[d] \in Connection /\ Local(d)
  BY DEF TypeOK
<1>1. ASSUME NEW s \in Senders, FlushDead(s) \/ SendReturns(s) \/ GivesUp(s) \/ \E c \in Conns : Send(s, c)
      PROVE  Local(d)'
  <2>1. /\ conn' = conn /\ cli' = cli /\ Onward
        /\ pc' = pc \/ \E x : pc' = [pc EXCEPT ![s] = x]
    BY <1>1 DEF FlushDead, SendReturns, GivesUp, Send, Onward
  <2>2. d # s
    BY <1>1, ConstantsAssumption DEF ConstantsAssumption
  <2>3. pc'[d] = pc[d]
    BY <2>1, <2>2 DEF TypeOK
  <2> QED
    BY <1>0, <2>1, <2>3, QuietLocal DEF Same
<1>2. ASSUME CloseServer PROVE Local(d)'
  <2>1. conn' = conn /\ cli' = cli /\ pc' = pc /\ Onward
    BY <1>2 DEF CloseServer, Onward
  <2> QED
    BY <1>0, <2>1, QuietLocal DEF Same
<1>3. ASSUME NEW c \in Conns, TakeSession(c) PROVE Local(d)'
  <2>1. /\ conn' = [conn EXCEPT ![c] = [conn[c] EXCEPT !.session = "accepted"]]
        /\ cli' = cli /\ pc' = pc /\ Onward
    BY <1>3 DEF TakeSession, Onward
  <2>2. Same([conn[c] EXCEPT !.session = "accepted"], conn[c])
    BY ZenonT(30), <1>0, SessionOf
  <2>3. Same(conn'[d], conn[d])
    BY <1>0, <2>1, <2>2 DEF Same
  <2> QED
    BY <1>0, <2>1, <2>3, QuietLocal
<1>4. ASSUME NEW c \in Conns, Disconnect(c) PROVE Local(d)'
  <2>1. /\ conn' = [conn EXCEPT ![c] = Aborted(conn[c])] /\ cli[c].start # "idle"
        /\ cli' = cli /\ pc' = pc /\ Onward
    BY <1>4 DEF Disconnect, Onward
  <2>2. CASE d = c
    BY <1>0, <2>1, <2>2, AbortedLocal
  <2>3. CASE d # c
    <3>1. conn'[d] = conn[d]
      BY <1>0, <2>1, <2>3
    <3> QED
      BY <1>0, <2>1, <3>1, QuietLocal DEF Same
  <2> QED
    BY <2>2, <2>3
<1>5. ASSUME NEW c \in Conns, Stall(c) PROVE Local(d)'
  <2>1. /\ conn' = [conn EXCEPT ![c] = [conn[c] EXCEPT !.stalled = TRUE]]
        /\ cli' = cli /\ pc' = pc /\ Onward
    BY <1>5 DEF Stall, Onward
  <2>2. Same([conn[c] EXCEPT !.stalled = TRUE], conn[c])
    BY <1>0, StalledOf
  <2>3. Same(conn'[d], conn[d])
    BY <1>0, <2>1, <2>2 DEF Same
  <2> QED
    BY ZenonT(30), <1>0, <2>1, <2>3, QuietLocal
<1> QED
  BY <1>1, <1>2, <1>3, <1>4, <1>5

-----------------------------------------------------------------------------
(* What the client does *)

\* listenMessages takes a step from k to r, which leaves these to show.
LEMMA GoesLocal ==
  ASSUME TypeOK, NEW c \in Conns, Local(c), cli[c].reader \in {"read", "offer", "errs"},
         NEW r \in Client, ReaderGoes(c, r), r.closed = cli[c].closed, r.reader # "idle",
         \/ r.start = cli[c].start
         \/ cli[c].start = "wait" /\ r.start \in {"ok", "err", "empty"},
         r.start = "wait" => r.reader = "read" /\ r.sessID = None,
         r.sessID = None => r.got = <<>> /\ r.reader \notin {"offer", "errs"},
         r.start = "empty" => \/ cli[c].start = "empty" \/ c \in racy
                              \/ conn[c].written = <<>> /\ r.reader = "done"
                              \/ conn[c].written # <<>> /\ conn[c].written[1] # "endpoint",
         Stream(c)', r.reader \in {"offer", "errs"} => conn[c].wire # <<>>
  PROVE  Local(c)'
<1>0. /\ cli'[c] = r /\ conn'[c] = Read(conn[c], r.reader) /\ conn[c] \in Connection
      /\ pc' = pc /\ racy' = racy /\ srv' = srv
  BY DEF TypeOK, ReaderGoes
<1>1. IsRead(conn'[c], conn[c], r.reader)
  BY ZenonT(30), <1>0, ReadOf
<1>2. Phases(c)'
  BY <1>0 DEF Local, Phases
<1>3. Ends(c)'
  BY ZenonT(30), <1>0, <1>1 DEF Local, Ends, IsRead
<1>4. Endpoint(c)'
  BY ZenonT(30), <1>0, <1>1 DEF Local, Endpoint, IsRead
<1>5. Held(c)'
  BY ZenonT(30), <1>0, <1>1 DEF Local, Held, IsRead
<1>6. Empty(c)'
  BY ZenonT(30), <1>0, <1>1 DEF Local, Empty, IsRead
<1> QED
  BY <1>2, <1>3, <1>4, <1>5, <1>6 DEF Local

\* listenMessages returns, panics or blocks for good: nothing more is taken.
LEMMA StopsLocal ==
  ASSUME TypeOK, NEW c \in Conns, Local(c), cli[c].reader \in {"read", "offer", "errs"},
         NEW r \in Client, ReaderGoes(c, r), r.closed = cli[c].closed,
         r.reader \in {"done", "panic", "stuck"}, r.got = cli[c].got,
         r.sessID = cli[c].sessID \/ (c \in racy /\ r.sessID = c), r.start # "wait",
         \/ r.start = cli[c].start
         \/ cli[c].start = "wait" /\ r.start \in {"ok", "err", "empty"},
         r.start = "empty" => \/ cli[c].start = "empty" \/ c \in racy
                              \/ conn[c].written = <<>> /\ r.reader = "done"
                              \/ conn[c].written # <<>> /\ conn[c].written[1] # "endpoint"
  PROVE  Local(c)'
<1>0. /\ cli'[c] = r /\ conn'[c] = Read(conn[c], r.reader) /\ conn[c] \in Connection /\ racy' = racy
  BY DEF TypeOK, ReaderGoes
<1>1. conn'[c].written = conn[c].written
  <2>1. IsRead(conn'[c], conn[c], r.reader)
    BY ZenonT(30), <1>0, ReadOf
  <2> QED
    BY <2>1 DEF IsRead
<1>2. Stream(c)'
  BY ZenonT(30), <1>0, <1>1 DEF Local, Stream
<1>3. r.sessID = None => r.got = <<>>
  BY ConstantsAssumption DEF Local, Phases, ConstantsAssumption
<1> QED
  BY <1>2, <1>3, GoesLocal

\* The event at the head of a stream that is not racy.
LEMMA NextEvent ==
  ASSUME TypeOK, NEW c \in Conns, Local(c), conn[c].wire # <<>>, c \notin racy,
         cli[c].reader \in {"read", "offer", "errs"}
  PROVE  LET n == Taken(cli[c])
             W == conn[c].written
             ev == Head(conn[c].wire)
         IN /\ n \in Nat /\ n + 1 \in 1..Len(W) /\ ev = W[n + 1] /\ ev \in Senders \cup {"endpoint"}
            /\ Split(W, n + 1, Tail(conn[c].wire), conn[c].buf)
            /\ Split(W, n, conn[c].wire, conn[c].buf)
            /\ cli[c].sessID # None /\ cli[c].reader # "errs" => ev # "endpoint"
            /\ Parsed(ev) = {ev}
<1> DEFINE n == Taken(cli[c])
           W == conn[c].written
           P == conn[c].wire
           ev == Head(P)
<1>0. /\ cli[c] \in Client /\ conn[c] \in Connection
  BY DEF TypeOK
<1>1. /\ n \in Nat /\ W \in Seq(Events) /\ P \in Seq(Events) /\ conn[c].buf \in Seq(Events)
      /\ Len(cli[c].got) \in Nat
  BY <1>0, Fields, TakenNat
<1>2. /\ Split(W, n, P, conn[c].buf) /\ \A i \in DOMAIN W : W[i] # "garbled"
      /\ cli[c].sessID # None => Len(cli[c].got) + 1 <= Len(W) /\ W[1] = "endpoint"
  BY DEF Local, Stream
<1>3. /\ Split(W, n + 1, Tail(P), conn[c].buf) /\ ev = W[n + 1] /\ n + 1 \in 1..Len(W) /\ ev \in Events
  BY <1>1, <1>2, SplitTake
<1>4. DOMAIN W = 1..Len(W)
  BY <1>1
<1>5. ev # "garbled" /\ ev \in Senders \cup {"endpoint"}
  BY <1>2, <1>3, <1>4 DEF Events
<1>6. Parsed(ev) = {ev}
  BY <1>5 DEF Parsed
<1>7. ASSUME cli[c].sessID # None, cli[c].reader # "errs", ev = "endpoint" PROVE FALSE
  <2>1. n = Len(cli[c].got) + 1
    BY <1>7 DEF Taken
  <2>2. 1 \in DOMAIN W /\ n + 1 \in DOMAIN W /\ W[1] = "endpoint" /\ W[n + 1] = "endpoint"
    BY <1>1, <1>2, <1>3, <1>4, <1>7
  <2>3. 1 = n + 1
    BY <2>2 DEF Local, Endpoint
  <2> QED
    BY <1>1, <2>1, <2>3
<1> QED
  BY ZenonT(30), <1>1, <1>2, <1>3, <1>5, <1>6, <1>7

\* An event is dealt with.
LEMMA ReadEventLocal ==
  ASSUME TypeOK, NEW c \in Conns, Local(c), ReadEvent(c)
  PROVE  Local(c)'
<1> DEFINE k == cli[c]
           W == conn[c].written
<1>0. k \in Client /\ conn[c] \in Connection /\ k.reader = "read" /\ conn[c].wire # <<>> /\ racy' = racy
  BY DEF TypeOK, ReadEvent, ReaderGoes
<1>1. PICK ev \in Parsed(Head(conn[c].wire)) :
        ReaderGoes(c, IF k.closed = 3 THEN Fails(k) ELSE HandleEvent(c, ev))
  BY DEF ReadEvent
<1>2. /\ k.start \in {"idle", "do", "wait"} => k.sessID = None /\ k.closed = 0
      /\ k.sessID = None => k.got = <<>> /\ k.reader \notin {"offer", "errs"}
  BY DEF Local, Phases
<1>3. c \notin racy => (k.sessID = None => k.start = "wait")
  BY <1>0 DEF Local, Stream
<1>4. c \notin racy => /\ ev = Head(conn[c].wire) /\ ev \in Senders \cup {"endpoint"}
                       /\ ev \notin {"badType", "badJSON", "badURL", "noID"}
                       /\ k.sessID # None => ev # "endpoint"
                       /\ k.sessID = None => W # <<>> /\ ev = W[1]
  <2> SUFFICES ASSUME c \notin racy
               PROVE  /\ ev = Head(conn[c].wire) /\ ev \in Senders \cup {"endpoint"}
                      /\ ev \notin {"badType", "badJSON", "badURL", "noID"}
                      /\ k.sessID # None => ev # "endpoint"
                      /\ k.sessID = None => W # <<>> /\ ev = W[1]
    OBVIOUS
  <2>1. LET n == Taken(k)
            e == Head(conn[c].wire)
        IN /\ n \in Nat /\ n + 1 \in 1..Len(W) /\ e = W[n + 1] /\ e \in Senders \cup {"endpoint"}
           /\ k.sessID # None => e # "endpoint"
           /\ Parsed(e) = {e}
    BY ZenonT(30), <1>0, NextEvent
  <2>2. ev = Head(conn[c].wire)
    BY <1>1, <2>1
  <2>3. ev \notin {"badType", "badJSON", "badURL", "noID"}
    BY <2>1, <2>2, ConstantsAssumption DEF ConstantsAssumption
  <2>4. k.sessID = None => W # <<>> /\ ev = W[1]
    <3>1. W \in Seq(Events) /\ (k.sessID = None => Taken(k) = 0)
      BY <1>0, Fields DEF Taken
    <3> QED
      BY <2>1, <2>2, <3>1
  <2> QED
    BY <2>1, <2>2, <2>3, <2>4
<1>5. CASE k.closed = 3
  <2>1. ReaderGoes(c, Fails(k)) /\ k.start # "wait"
    BY SMTT(30), <1>1, <1>2, <1>5
  <2>2. \/ Sticks(c, k, Fails(k))
        \/ k.sessID # None /\ Is(Fails(k), k.start, "done", k.sessID, k.got, k.closed)
    BY <1>0, <2>1, FailsOf, ReturnsOf
  <2> QED
    BY <1>0, <1>3, <2>1, <2>2, StopsLocal DEF Sticks, Is
<1>6. CASE k.closed # 3
  <2> DEFINE r == HandleEvent(c, ev)
  <2>0. ReaderGoes(c, r)
    BY <1>1, <1>6
  <2>1. \/ LoopsOn(k, ev, r) \/ Panics(k, r) \/ GetsID(c, k, ev, r) \/ GetsError(k, ev, r)
        \/ Sticks(c, k, r) \/ Leaves(k, ev, r) \/ Offers(k, ev, r)
    BY ZenonT(30), <1>0, HandleEventOf
  <2> HIDE DEF r
  <2>2. cli'[c] = r /\ conn'[c] = Read(conn[c], r.reader)
    BY <2>0 DEF ReaderGoes, TypeOK
  <2>3. /\ conn'[c].buf = conn[c].buf /\ conn'[c].written = W
        /\ conn'[c].wire = IF conn[c].wire = <<>> \/ r.reader \in {"offer", "errs"} THEN conn[c].wire
                           ELSE Tail(conn[c].wire)
    <3>1. IsRead(conn'[c], conn[c], r.reader)
      BY ZenonT(30), <1>0, <2>2, ReadOf
    <3> QED
      BY <3>1 DEF IsRead
  <2>4. CASE LoopsOn(k, ev, r)
    <3>1. c \in racy /\ r \in Client
      BY <1>4, <2>4 DEF LoopsOn, Is
    <3>2. Stream(c)'
      BY <1>0, <3>1 DEF Stream
    <3> QED
      BY <1>0, <1>2, <2>0, <2>4, <3>1, <3>2, GoesLocal DEF LoopsOn, Is
  <2>5. CASE Panics(k, r)
    BY SMTT(30), <1>0, <1>2, <2>0, <2>5, StopsLocal DEF Panics, Is
  <2>6. CASE GetsID(c, k, ev, r)
    <3>0. /\ r \in Client /\ r.start = "ok" /\ r.reader = "read" /\ r.sessID = c /\ r.got = <<>>
          /\ r.closed = k.closed /\ k.sessID = None /\ ev = "endpoint" /\ c # None /\ k.start = "wait"
      BY <1>2, <2>6, ConstantsAssumption DEF GetsID, Is, ConstantsAssumption
    <3>1. Stream(c)'
      <4> SUFFICES ASSUME c \notin racy PROVE Stream(c)'
        BY <1>0 DEF Stream
      <4>1. Taken(k) = 0 /\ Taken(r) = 1 /\ Len(r.got) = 0
        BY <3>0 DEF Taken
      <4>2. /\ Split(W, 1, Tail(conn[c].wire), conn[c].buf) /\ 1 <= Len(W)
        <5>1. Split(W, Taken(k) + 1, Tail(conn[c].wire), conn[c].buf) /\ Taken(k) + 1 \in 1..Len(W)
          BY <1>0, NextEvent
        <5>2. Taken(k) + 1 = 1
          BY <4>1
        <5> QED
          BY <5>1, <5>2
      <4>3. \A i \in DOMAIN W : W[i] # "garbled"
        BY DEF Local, Stream
      <4>4. W[1] = "endpoint"
        BY <1>4, <3>0
      <4>5. conn'[c].wire = Tail(conn[c].wire)
        BY <1>0, <2>3, <3>0
      <4> QED
        BY SMTT(30), <2>2, <2>3, <3>0, <4>1, <4>2, <4>3, <4>4, <4>5 DEF Stream
    <3> QED
      BY <1>0, <2>0, <3>0, <3>1, GoesLocal
  <2>7. CASE GetsError(k, ev, r)
    <3>1. /\ c \in racy /\ r \in Client /\ r.start = "err" /\ r.reader \in {"read", "done"}
          /\ r.sessID = k.sessID /\ r.got = k.got /\ r.closed = k.closed /\ k.start = "wait"
      BY <1>4, <2>7 DEF GetsError, Is
    <3>2. Stream(c)'
      BY <1>0, <3>1 DEF Stream
    <3> QED
      BY <1>0, <1>2, <2>0, <3>1, <3>2, GoesLocal
  <2>8. CASE Sticks(c, k, r)
    BY <1>0, <1>3, <2>0, <2>8, StopsLocal DEF Sticks, Is
  <2>9. CASE Leaves(k, ev, r)
    <3>1. /\ r \in Client /\ r.start = (IF k.start = "wait" THEN "empty" ELSE k.start) /\ r.reader = "done"
          /\ r.sessID = k.sessID /\ r.got = k.got /\ r.closed = k.closed /\ k.sessID = None /\ ev # "endpoint"
      BY <2>9 DEF Leaves, Is
    <3> QED
      BY <1>0, <1>4, <2>0, <3>1, StopsLocal
  <2>10. CASE Offers(k, ev, r)
    <3>0. /\ r \in Client /\ r.start = k.start /\ r.reader = "offer" /\ r.sessID = k.sessID
          /\ r.got = k.got /\ r.closed = k.closed /\ k.sessID # None
      BY <2>10 DEF Offers, Is
    <3>1. Taken(r) = Taken(k) /\ conn'[c].wire = conn[c].wire
      BY <1>0, <2>3, <3>0 DEF Taken
    <3>2. Stream(c)'
      BY ZenonT(30), <1>0, <2>2, <2>3, <3>0, <3>1 DEF Stream, Local
    <3> QED
      BY <1>0, <1>2, <2>0, <3>0, <3>2, GoesLocal
  <2> QED
    BY <2>1, <2>4, <2>5, <2>6, <2>7, <2>8, <2>9, <2>10
<1> QED
  BY <1>5, <1>6

\* The stream ends.
LEMMA ReadEndLocal ==
  ASSUME TypeOK, NEW c \in Conns, Local(c), ReadEnd(c)
  PROVE  Local(c)'
<1> DEFINE k == cli[c]
<1>0. k \in Client /\ conn[c] \in Connection /\ k.reader = "read" /\ conn[c].wire = <<>>
  BY DEF TypeOK, ReadEnd
<1>1. k.start \in {"idle", "do", "wait"} => k.sessID = None /\ k.closed = 0
  BY DEF Local, Phases
<1>2. c \notin racy => (k.sessID = None => k.start = "wait")
  BY <1>0 DEF Local, Stream
<1>3. ASSUME ReaderGoes(c, Fails(k)) PROVE Local(c)'
  <2>1. \/ k.start = "wait" /\ Is(Fails(k), "err", "done", k.sessID, k.got, k.closed)
        \/ Sticks(c, k, Fails(k))
        \/ k.start # "wait" /\ Is(Fails(k), k.start, "done", k.sessID, k.got, k.closed)
    BY <1>0, <1>1, FailsOf, ReturnsOf
  <2> QED
    BY <1>0, <1>2, <1>3, <2>1, StopsLocal DEF Sticks, Is
<1>4. CASE conn[c].body = "eof" /\ ReaderGoes(c, Returns(k))
  <2>1. Is(Returns(k), IF k.start = "wait" THEN "empty" ELSE k.start, "done", k.sessID, k.got, k.closed)
    BY <1>0, ReturnsOf
  <2>2. k.start = "wait" /\ c \notin racy => conn[c].written = <<>>
    <3> SUFFICES ASSUME k.start = "wait", c \notin racy PROVE conn[c].written = <<>>
      OBVIOUS
    <3>1. conn[c].buf = <<>> /\ Taken(k) = 0
      BY <1>1, <1>4 DEF Local, Ends, Taken
    <3>2. Split(conn[c].written, Taken(k), conn[c].wire, conn[c].buf)
      BY <1>0 DEF Local, Stream
    <3>3. Len(conn[c].written) = 0 + Len(<<>>) + Len(<<>>)
      BY <1>0, <3>1, <3>2 DEF Split
    <3>4. conn[c].written \in Seq(Events)
      BY <1>0, Fields
    <3> QED
      BY <3>3, <3>4
  <2> QED
    BY <1>0, <1>4, <2>1, <2>2, StopsLocal DEF Is
<1>5. CASE k.closed >= 1 /\ ReaderGoes(c, [k EXCEPT !.reader = "panic"])
  <2>1. Is([k EXCEPT !.reader = "panic"], k.start, "panic", k.sessID, k.got, k.closed)
    BY <1>0, PanicOf
  <2>2. k.start # "wait"
    BY <1>1, <1>5
  <2> QED
    BY ZenonT(30), <1>0, <1>5, <2>1, <2>2, StopsLocal DEF Is
<1> QED
  BY <1>3, <1>4, <1>5 DEF ReadEnd, Logs

\* A message is appended to what the client got.
LEMMA GotOf ==
  ASSUME NEW k \in Client, NEW e \in Events
  PROVE  LET j == [k EXCEPT !.reader = "errs", !.got = Append(@, e)] IN
         /\ Is(j, k.start, "errs", k.sessID, Append(k.got, e), k.closed)
         /\ Len(j.got) = Len(k.got) + 1 /\ Len(k.got) \in Nat
         /\ \A i \in 1..Len(k.got) : j.got[i] = k.got[i]
         /\ j.got[Len(k.got) + 1] = e
<1>1. k.got \in Seq(Events)
  BY DEF Client
<1>6. Append(k.got, e) \in Seq(Events)
  BY ONLY <1>1, e \in Events
<1>2. PICK G \in Seq(Events) : G = Append(k.got, e)
  BY ONLY <1>6, Zenon
<1>3. /\ Len(G) = Len(k.got) + 1 /\ Len(k.got) \in Nat
      /\ \A i \in 1..Len(k.got) : G[i] = k.got[i]
      /\ G[Len(k.got) + 1] = e
  BY <1>1, <1>2
<1>4. [k EXCEPT !.reader = "errs", !.got = Append(@, e)] = [k EXCEPT !.reader = "errs", !.got = G]
  BY <1>2
<1>5. Is([k EXCEPT !.reader = "errs", !.got = G], k.start, "errs", k.sessID, G, k.closed)
  BY ZenonT(30) DEF Is, Client
<1> QED
  BY <1>2, <1>3, <1>4, <1>5 DEF Is

\* messagesChan <- msg
LEMMA HandOverLocal ==
  ASSUME TypeOK, NEW c \in Conns, Local(c), HandOver(c)
  PROVE  Local(c)'
<1> DEFINE k == cli[c]
           W == conn[c].written
<1>0. /\ k \in Client /\ conn[c] \in Connection /\ k.reader = "offer" /\ k.sessID # None
      /\ conn[c].wire # <<>> /\ k.start # "wait"
  BY DEF TypeOK, HandOver, Local, Phases, Held
<1>1. conn[c].wire \in Seq(Events) /\ Head(conn[c].wire) \in Events
  <2>1. conn[c].wire \in Seq(Events)
    BY <1>0, Fields
  <2> QED
    BY <1>0, <2>1
<1>2. CASE ReaderGoes(c, [k EXCEPT !.reader = "panic"])
  <2>1. Is([k EXCEPT !.reader = "panic"], k.start, "panic", k.sessID, k.got, k.closed)
    BY <1>0, PanicOf
  <2> QED
    BY ZenonT(30), <1>0, <1>2, <2>1, StopsLocal DEF Is
<1>3. CASE ReaderGoes(c, [k EXCEPT !.reader = "errs", !.got = Append(@, Head(conn[c].wire))])
  <2>0. PICK e \in Events : e = Head(conn[c].wire)
    BY <1>1
  <2> DEFINE r == [k EXCEPT !.reader = "errs", !.got = Append(@, e)]
  <2>1. /\ r \in Client /\ r.start = k.start /\ r.reader = "errs" /\ r.sessID = k.sessID
        /\ r.closed = k.closed /\ Len(r.got) = Len(k.got) + 1 /\ Len(k.got) \in Nat
        /\ \A i \in 1..Len(k.got) : r.got[i] = k.got[i]
        /\ r.got[Len(k.got) + 1] = e
    BY ZenonT(60), <1>0, GotOf DEF Is
  <2>2. ReaderGoes(c, r)
    BY <1>3, <2>0
  <2> HIDE DEF r
  <2>3. cli'[c] = r /\ conn'[c] = Read(conn[c], r.reader) /\ racy' = racy
    BY <2>2 DEF ReaderGoes, TypeOK
  <2>4. /\ conn'[c].buf = conn[c].buf /\ conn'[c].written = W
        /\ conn'[c].wire = conn[c].wire
    <3>1. IsRead(conn'[c], conn[c], r.reader)
      BY ZenonT(30), <1>0, <2>3, ReadOf
    <3> QED
      BY <1>0, <2>1, <3>1 DEF IsRead
  <2>5. Stream(c)'
    <3> SUFFICES ASSUME c \notin racy PROVE Stream(c)'
      BY <2>3 DEF Stream
    <3>1. Taken(k) = Len(k.got) + 1 /\ Taken(r) = Len(k.got) + 1
      BY <1>0, <2>1 DEF Taken
    <3>2. /\ Taken(k) + 1 \in 1..Len(W) /\ e = W[Taken(k) + 1]
          /\ Split(W, Taken(k), conn[c].wire, conn[c].buf)
      BY <1>0, <2>0, NextEvent
    <3>3. /\ \A i \in DOMAIN W : W[i] # "garbled"
          /\ W[1] = "endpoint" /\ \A i \in 1..Len(k.got) : k.got[i] = W[i + 1]
      BY <1>0 DEF Local, Stream
    <3>4. Len(r.got) + 1 <= Len(W)
      <4>1. Len(r.got) = Len(k.got) + 1 /\ Len(k.got) \in Nat /\ Len(k.got) + 1 + 1 \in 1..Len(W)
        BY ZenonT(30), <2>1, <3>1, <3>2
      <4> QED
        BY ONLY <4>1
    <3>5. ASSUME NEW i \in 1..Len(r.got) PROVE r.got[i] = W[i + 1]
      <4>1. CASE i \in 1..Len(k.got)
        BY <2>1, <3>3, <4>1
      <4>2. CASE i = Len(k.got) + 1
        BY <2>1, <3>1, <3>2, <4>2
      <4> QED
        BY <2>1, <4>1, <4>2
    <3> HIDE DEF W, k
    <3>6. Split(W, Taken(r), conn[c].wire, conn[c].buf)
      BY <3>1, <3>2
    <3> QED
      BY <2>1, <2>3, <2>4, <3>3, <3>4, <3>5, <3>6 DEF Stream
  <2> QED
    BY <1>0, <2>1, <2>2, <2>5, GoesLocal
<1> QED
  BY <1>2, <1>3 DEF HandOver

\* <-errs
LEMMA AckedLocal ==
  ASSUME TypeOK, NEW c \in Conns, Local(c), Acked(c)
  PROVE  Local(c)'
<1> DEFINE k == cli[c]
           W == conn[c].written
<1>0. /\ k \in Client /\ conn[c] \in Connection /\ k.reader = "errs" /\ k.sessID # None
      /\ conn[c].wire # <<>> /\ k.start # "wait"
  BY DEF TypeOK, Acked, Local, Phases, Held
<1>1. CASE ReaderGoes(c, [k EXCEPT !.reader = "panic"])
  <2>1. Is([k EXCEPT !.reader = "panic"], k.start, "panic", k.sessID, k.got, k.closed)
    BY <1>0, PanicOf
  <2> QED
    BY ZenonT(30), <1>0, <1>1, <2>1, StopsLocal DEF Is
<1>2. CASE ReaderGoes(c, Loops(k))
  <2> DEFINE r == Loops(k)
  <2>1. /\ r \in Client /\ r.start = k.start /\ r.reader = "read" /\ r.sessID = k.sessID
        /\ r.closed = k.closed /\ r.got = k.got
    BY <1>0, LoopsOf DEF Is
  <2>2. ReaderGoes(c, r)
    BY <1>2
  <2> HIDE DEF r
  <2>3. cli'[c] = r /\ conn'[c] = Read(conn[c], r.reader) /\ racy' = racy
    BY <2>2 DEF ReaderGoes, TypeOK
  <2>4. /\ conn'[c].buf = conn[c].buf /\ conn'[c].written = W
        /\ conn'[c].wire = Tail(conn[c].wire)
    <3>1. IsRead(conn'[c], conn[c], r.reader)
      BY ZenonT(30), <1>0, <2>3, ReadOf
    <3> QED
      BY <1>0, <2>1, <3>1 DEF IsRead
  <2>5. Stream(c)'
    <3> SUFFICES ASSUME c \notin racy PROVE Stream(c)'
      BY <2>3 DEF Stream
    <3>1. Taken(r) = Taken(k) + 1
      BY <1>0, <2>1 DEF Taken
    <3>2. Split(W, Taken(k) + 1, Tail(conn[c].wire), conn[c].buf)
      BY <1>0, NextEvent
    <3>3. /\ \A i \in DOMAIN W : W[i] # "garbled"
          /\ Len(k.got) + 1 <= Len(W) /\ W[1] = "endpoint"
          /\ \A i \in 1..Len(k.got) : k.got[i] = W[i + 1]
      BY <1>0 DEF Local, Stream
    <3> HIDE DEF W, k
    <3>4. Split(W, Taken(r), Tail(conn[c].wire), conn[c].buf)
      BY <3>1, <3>2
    <3>5. cli'[c].sessID # None
      BY <1>0, <2>1, <2>3
    <3> QED
      BY <2>1, <2>3, <2>4, <3>3, <3>4, <3>5 DEF Stream
  <2> QED
    BY <1>0, <2>1, <2>2, <2>5, GoesLocal
<1> QED
  BY <1>1, <1>2 DEF Acked, Logs

\* httpClient.Do, and Close.
LEMMA StartLocal ==
  ASSUME TypeOK, NEW c \in Conns, Local(c), StartSession(c) \/ DoReturns(c) \/ CloseClient(c)
  PROVE  TypeOK' /\ Local(c)'
<1> DEFINE k == cli[c]
<1>0. /\ k \in Client /\ cli \in [Conns -> Client] /\ conn' = conn /\ racy' = racy /\ srv' = srv
      /\ pc' = [pc EXCEPT ![c] = "announce"] \/ pc' = pc
  BY DEF TypeOK, StartSession, DoReturns, CloseClient
<1> USE ConstantsAssumption DEF ConstantsAssumption
<1>1. ASSUME StartSession(c) PROVE TypeOK' /\ Local(c)'
  <2>1. [k EXCEPT !.start = "do"] \in Client /\ Is([k EXCEPT !.start = "do"], "do", k.reader, k.sessID, k.got, k.closed)
    BY <1>0 DEF Client, Is
  <2>2. /\ cli' = [cli EXCEPT ![c] = [k EXCEPT !.start = "do"]] /\ k.start = "idle"
        /\ pc' = [pc EXCEPT ![c] = "announce"]
    BY <1>1 DEF StartSession
  <2>3. pc[c] = "idle" /\ pc'[c] = "announce"
    BY <2>2 DEF TypeOK, Local, Phases
  <2>4. TypeOK'
    BY <1>0, <1>1, <2>1, <2>2, <2>3 DEF TypeOK, StartSession
  <2>5. Is(cli'[c], "do", k.reader, k.sessID, k.got, k.closed)
    BY <1>0, <2>1, <2>2
  <2>6. Phases(c)' /\ Ends(c)' /\ Endpoint(c)' /\ Held(c)' /\ Empty(c)'
    BY <1>0, <2>2, <2>3, <2>5 DEF Is, Local, Phases, Ends, Endpoint, Held, Empty
  <2>7. Stream(c)'
    BY <1>0, <2>2, <2>5 DEF Is, Local, Phases, Stream, Taken
  <2> QED
    BY <2>4, <2>6, <2>7 DEF Local
<1>2. ASSUME DoReturns(c) PROVE TypeOK' /\ Local(c)'
  <2>0. PICK st \in {"wait", "err"}, re \in {"idle", "read"} :
          /\ cli' = [cli EXCEPT ![c] = [k EXCEPT !.start = st, !.reader = re]]
          /\ st = "wait" <=> re = "read"
    <3>1. k.reader = "idle"
      BY <1>2 DEF DoReturns, Local, Phases
    <3>2. [k EXCEPT !.start = "err"] = [k EXCEPT !.start = "err", !.reader = "idle"]
      BY ZenonT(30), <1>0, <3>1 DEF Client
    <3>3. \/ cli' = [cli EXCEPT ![c] = [k EXCEPT !.start = "wait", !.reader = "read"]]
          \/ cli' = [cli EXCEPT ![c] = [k EXCEPT !.start = "err"]]
      BY ZenonT(30), <1>2 DEF DoReturns
    <3> QED
      BY <3>2, <3>3
  <2> DEFINE r == [k EXCEPT !.start = st, !.reader = re]
  <2>1. r \in Client /\ Is(r, st, re, k.sessID, k.got, k.closed)
    BY ZenonT(30), <1>0 DEF Client, Is
  <2>2. cli' = [cli EXCEPT ![c] = r] /\ k.start = "do" /\ pc' = pc
    BY <1>2, <2>0 DEF DoReturns
  <2> HIDE DEF r
  <2>4. TypeOK'
    BY <1>0, <1>2, <2>1, <2>2 DEF TypeOK, DoReturns
  <2>5. Is(cli'[c], st, re, k.sessID, k.got, k.closed)
    BY <1>0, <2>1, <2>2
  <2>6. Phases(c)' /\ Ends(c)' /\ Endpoint(c)' /\ Held(c)' /\ Empty(c)'
    BY <1>0, <2>0, <2>2, <2>5 DEF Is, Local, Phases, Ends, Endpoint, Held, Empty
  <2>7. Stream(c)'
    BY <1>0, <2>0, <2>2, <2>5 DEF Is, Local, Phases, Stream, Taken
  <2> QED
    BY <2>4, <2>6, <2>7 DEF Local
<1>3. ASSUME CloseClient(c) PROVE TypeOK' /\ Local(c)'
  <2>0. PICK n \in 0..3 : n = k.closed + 1
    BY <1>0, <1>3 DEF CloseClient, Client
  <2>1. [k EXCEPT !.closed = n] \in Client /\ Is([k EXCEPT !.closed = n], k.start, k.reader, k.sessID, k.got, n)
    BY <1>0 DEF Client, Is
  <2>2. /\ cli' = [cli EXCEPT ![c] = [k EXCEPT !.closed = n]] /\ pc' = pc
        /\ k.start \in {"ok", "empty", "err"}
    BY <1>3, <2>0 DEF CloseClient
  <2>3. faults' \in 0..MaxFaults
    BY <1>3 DEF CloseClient, Fault, TypeOK
  <2>4. TypeOK'
    BY <1>0, <1>3, <2>1, <2>2, <2>3 DEF TypeOK, CloseClient
  <2>5. Is(cli'[c], k.start, k.reader, k.sessID, k.got, n)
    BY <1>0, <2>1, <2>2
  <2>6. Phases(c)' /\ Ends(c)' /\ Endpoint(c)' /\ Held(c)' /\ Empty(c)'
    BY <1>0, <2>2, <2>5 DEF Is, Local, Phases, Ends, Endpoint, Held, Empty
  <2>7. Stream(c)'
    BY <1>0, <2>2, <2>5 DEF Is, Local, Stream, Taken
  <2> QED
    BY <2>4, <2>6, <2>7 DEF Local
<1> HIDE DEF ConstantsAssumption
<1> QED
  BY <1>1, <1>2, <1>3

\* What listenMessages goes on as is a client.
LEMMA ReaderClient ==
  ASSUME TypeOK, NEW c \in Conns, Local(c), ReadEvent(c) \/ ReadEnd(c) \/ HandOver(c) \/ Acked(c)
  PROVE  /\ cli[c].reader \in {"read", "offer", "errs"}
         /\ \E r \in Client : ReaderGoes(c, r)
<1> DEFINE k == cli[c]
<1>0. k \in Client /\ conn[c] \in Connection
  BY DEF TypeOK
<1>1. k.reader \in {"read", "offer", "errs"}
  BY DEF ReadEvent, ReadEnd, HandOver, Acked
<1>2. [k EXCEPT !.reader = "panic"] \in Client /\ Loops(k) \in Client /\ Returns(k) \in Client
  BY <1>0, PanicOf, LoopsOf, ReturnsOf DEF Is
<1>3. Fails(k) \in Client
  BY <1>0, <1>2, FailsOf DEF Is, Sticks
<1>4. CASE ReadEvent(c)
  <2>1. PICK ev : ReaderGoes(c, IF k.closed = 3 THEN Fails(k) ELSE HandleEvent(c, ev))
    BY <1>4 DEF ReadEvent
  <2>2. HandleEvent(c, ev) \in Client
    BY ZenonT(30), <1>0, HandleEventOf DEF Is, LoopsOn, Panics, GetsID, GetsError, Sticks, Leaves, Offers
  <2> QED
    BY <1>1, <1>3, <2>1, <2>2
<1>5. CASE ReadEnd(c)
  BY <1>1, <1>2, <1>3, <1>5 DEF ReadEnd, Logs
<1>6. CASE HandOver(c)
  <2>1. conn[c].wire # <<>> /\ conn[c].wire \in Seq(Events)
    BY <1>0, <1>6, Fields DEF HandOver, Local, Held
  <2>2. PICK e \in Events : e = Head(conn[c].wire)
    BY SMTT(30), <2>1
  <2>3. [k EXCEPT !.reader = "errs", !.got = Append(@, e)] \in Client
    BY ZenonT(30), <1>0, GotOf DEF Is
  <2> QED
    BY <1>1, <1>2, <1>6, <2>2, <2>3 DEF HandOver
<1>7. CASE Acked(c)
  BY <1>1, <1>2, <1>7 DEF Acked, Logs
<1> QED
  BY <1>4, <1>5, <1>6, <1>7

\* A step of a client keeps the types, and what is known of every connection.
LEMMA ClientLocal ==
  ASSUME TypeOK, \A d \in Conns : Local(d), NEW c \in Conns, ClientStep(c)
  PROVE  TypeOK' /\ \A d \in Conns : Local(d)'
<1>0. conn \in [Conns -> Connection] /\ cli \in [Conns -> Client] /\ Local(c)
  BY DEF TypeOK
<1>1. CASE StartSession(c) \/ DoReturns(c) \/ CloseClient(c)
  <2>1. TypeOK' /\ Local(c)'
    BY <1>0, <1>1, StartLocal
  <2>2. ASSUME NEW d \in Conns, d # c PROVE Local(d)'
    <3>1. conn' = conn /\ cli'[d] = cli[d] /\ pc'[d] = pc[d] /\ Onward
      BY <1>0, <1>1, <2>2 DEF StartSession, DoReturns, CloseClient, TypeOK, Onward
    <3> QED
      BY <3>1, QuietLocal DEF Same
  <2> QED
    BY <2>1, <2>2
<1>2. CASE ReadEvent(c) \/ ReadEnd(c) \/ HandOver(c) \/ Acked(c)
  <2>1. Local(c)'
    BY <1>0, <1>2, ReadEventLocal, ReadEndLocal, HandOverLocal, AckedLocal
  <2>2. PICK r \in Client : ReaderGoes(c, r)
    BY <1>0, <1>2, ReaderClient
  <2>3. Read(conn[c], r.reader) \in Connection
    BY ZenonT(30), <1>0, ReadOf DEF IsRead
  <2>4. TypeOK'
    BY <2>2, <2>3 DEF ReaderGoes, TypeOK
  <2>5. ASSUME NEW d \in Conns, d # c PROVE Local(d)'
    <3>1. conn'[d] = conn[d] /\ cli'[d] = cli[d] /\ pc' = pc /\ Onward
      BY <1>0, <2>2, <2>5 DEF ReaderGoes, Onward
    <3> QED
      BY <3>1, QuietLocal DEF Same
  <2> QED
    BY <2>1, <2>4, <2>5
<1> QED
  BY <1>1, <1>2 DEF ClientStep, ReaderStep

-----------------------------------------------------------------------------
(* The rest of the invariant *)

\* Only a call of Send starts a goroutine, and it knows its connection.
LEMMA NextTargets ==
  ASSUME TypeOK, Targets, Next
  PROVE  Targets'
<1> USE ConstantsAssumption DEF ConstantsAssumption, TypeOK, Targets
<1>1. ASSUME NEW c \in Conns,
             Announce(c) \/ AnnouncePanics(c) \/ StoreWriter(c) \/ HandlerEnds(c) \/ TakeSession(c)
      PROVE  Targets'
  BY <1>1 DEF Announce, AnnouncePanics, StoreWriter, HandlerEnds, TakeSession
<1>2. ASSUME NEW w \in Conns \cup Senders, WriterStep(w) PROVE Targets'
  <2>1. send' = send /\ pc[w] # "idle" /\ \E x : pc' = [pc EXCEPT ![w] = x]
    BY <1>2 DEF WriterStep, BeginWrite, EndWrite, WriteFails, BeginFlush, EndFlush, FlushReturns
  <2> QED
    BY <2>1
<1>3. ASSUME NEW s \in Senders, FlushDead(s) PROVE Targets'
  BY <1>3 DEF FlushDead
<1>4. ASSUME NEW s \in Senders, SendReturns(s) \/ GivesUp(s) PROVE Targets'
  BY <1>4 DEF SendReturns, GivesUp
<1>5. ASSUME NEW s \in Senders, NEW c \in Conns, Send(s, c) PROVE Targets'
  <2>1. PICK x \in {"waiting", "returned"} :
          /\ send' = [send EXCEPT ![s] = [to |-> c, call |-> x]]
          /\ pc' = [pc EXCEPT ![s] = "write"] \/ pc' = pc
    BY <1>5 DEF Send
  <2> QED
    BY <2>1
<1>6. ASSUME CloseServer \/ \E c \in Conns : Disconnect(c) \/ Stall(c) PROVE Targets'
  BY ZenonT(30), <1>6 DEF CloseServer, Disconnect, Stall
<1>7. ASSUME NEW c \in Conns, ClientStep(c) PROVE Targets'
  <2>1. send' = send /\ (pc' = [pc EXCEPT ![c] = "announce"] \/ pc' = pc)
    BY <1>7 DEF ClientStep, ReaderStep, StartSession, DoReturns, ReadEvent, ReadEnd, HandOver, Acked,
                CloseClient, ReaderGoes
  <2> QED
    BY <2>1
<1> HIDE DEF TypeOK, Targets
<1> QED
  BY <1>1, <1>2, <1>3, <1>4, <1>5, <1>6, <1>7 DEF Next, ServerStep, HandlerStep, SenderStep

\* A server that came down stays down, for the same reason.
LEMMA NextCrash ==
  ASSUME TypeOK, CrashCauses, Targets, \A c \in Conns : Local(c), Next
  PROVE  CrashCauses'
<1> DEFINE Left(d) == conn[d].body = "broken" \/ cli[d].reader \in {"done", "panic"}
           Left1(d) == conn'[d].body = "broken" \/ cli'[d].reader \in {"done", "panic"}
<1>1. CASE ~crashed /\ ServerStep
  <2> SUFFICES ASSUME crashed' = TRUE PROVE CrashCauses'
    BY DEF CrashCauses
  <2>1. ~crashed
    BY <1>1
  <2>2. PICK s \in Senders : FlushDead(s)
    <3>1. ASSUME NEW c \in Conns, HandlerStep(c) \/ TakeSession(c) PROVE crashed' = crashed
      BY ZenonT(30), <3>1 DEF HandlerStep, Announce, AnnouncePanics, StoreWriter, HandlerEnds, TakeSession, WriterStep,
                  BeginWrite, EndWrite, WriteFails, BeginFlush, EndFlush, FlushReturns
    <3>2. ASSUME NEW s \in Senders,
                 WriterStep(s) \/ SendReturns(s) \/ GivesUp(s) \/ \E c \in Conns : Send(s, c)
          PROVE  crashed' = crashed
      BY ZenonT(30), <3>2 DEF SendReturns, GivesUp, Send, WriterStep,
                  BeginWrite, EndWrite, WriteFails, BeginFlush, EndFlush, FlushReturns
    <3>3. CloseServer => crashed' = crashed
      BY DEF CloseServer
    <3> QED
      BY ZenonT(30), <1>1, <3>1, <3>2, <3>3 DEF ServerStep, SenderStep
  <2>3. pc[s] = "flushing" /\ pc[send[s].to] = "done" /\ send[s].to \in Conns
    BY <2>2 DEF FlushDead, Dead, Targets
  <2>4. srv = "closed" \/ Left(send[s].to)
    BY <2>3 DEF Local, Ends
  <2>5. /\ pc'[s] = "flushing" /\ send' = send /\ conn' = conn /\ cli' = cli /\ srv' = srv
    BY ZenonT(30), <2>1, <2>2, <2>3 DEF FlushDead
  <2> QED
    BY <2>4, <2>5 DEF CrashCauses
<1>2. ASSUME NEW c \in Conns, ClientStep(c) \/ Disconnect(c) \/ Stall(c) PROVE CrashCauses'
  <2> SUFFICES ASSUME crashed' = TRUE PROVE CrashCauses'
    BY DEF CrashCauses
  <2>1. /\ send' = send /\ srv' = srv /\ crashed' = crashed
        /\ pc' = [pc EXCEPT ![c] = "announce"] \/ pc' = pc
    BY ZenonT(30), <1>2 DEF ClientStep, ReaderStep, StartSession, DoReturns, ReadEvent, ReadEnd, HandOver, Acked,
                CloseClient, ReaderGoes, Disconnect, Stall
  <2>2. PICK s \in Senders : pc[s] = "flushing" /\ (srv = "closed" \/ Left(send[s].to))
    BY <2>1 DEF CrashCauses
  <2>3. pc'[s] = "flushing" /\ send[s].to \in Conns
    BY <2>1, <2>2, ConstantsAssumption DEF ConstantsAssumption, Targets, TypeOK
  <2>4. ASSUME NEW d \in Conns, Left(d) PROVE Left1(d)
    <3>0. /\ conn \in [Conns -> Connection] /\ cli \in [Conns -> Client] /\ conn[c] \in Connection
          /\ cli[c] \in Client /\ Local(c)
      BY DEF TypeOK
    <3>1. CASE ReadEvent(c) \/ ReadEnd(c) \/ HandOver(c) \/ Acked(c)
      <4>1. cli[c].reader \in {"read", "offer", "errs"}
        BY <3>0, <3>1, ReaderClient
      <4>2. PICK r \in Client : ReaderGoes(c, r)
        BY <3>0, <3>1, ReaderClient
      <4>3. Read(conn[c], r.reader).body = conn[c].body
        BY ZenonT(30), <3>0, ReadOf DEF IsRead
      <4>4. conn'[d].body = conn[d].body /\ (d # c => cli'[d] = cli[d])
        BY <3>0, <4>2, <4>3 DEF ReaderGoes
      <4> QED
        BY <2>4, <4>1, <4>4
    <3>2. CASE StartSession(c) \/ CloseClient(c)
      <4>1. conn' = conn /\ cli'[d].reader = cli[d].reader
        BY ZenonT(30), <3>0, <3>2 DEF StartSession, CloseClient, Client
      <4> QED
        BY <2>4, <4>1
    <3>3. CASE DoReturns(c)
      <4>1. conn' = conn /\ cli[c].reader = "idle" /\ (d # c => cli'[d] = cli[d])
        BY <3>0, <3>3 DEF DoReturns, Local, Phases
      <4> QED
        BY <2>4, <4>1
    <3>4. CASE Disconnect(c)
      <4>1. Aborted(conn[c]).body = "broken"
        BY ZenonT(30), <3>0, AbortedOf
      <4> QED
        BY <2>4, <3>0, <3>4, <4>1 DEF Disconnect
    <3>5. CASE Stall(c)
      <4>1. Same([conn[c] EXCEPT !.stalled = TRUE], conn[c])
        BY <3>0, StalledOf
      <4>2. cli' = cli /\ conn' = [conn EXCEPT ![c] = [conn[c] EXCEPT !.stalled = TRUE]]
        BY <3>5 DEF Stall
      <4>3. conn'[d].body = conn[d].body
        BY <3>0, <4>1, <4>2 DEF Same
      <4> QED
        BY <2>4, <4>2, <4>3
    <3> QED
      BY <1>2, <3>1, <3>2, <3>3, <3>4, <3>5 DEF ClientStep, ReaderStep
  <2> QED
    BY <2>1, <2>2, <2>3, <2>4 DEF CrashCauses
<1> QED
  BY <1>1, <1>2 DEF Next

-----------------------------------------------------------------------------
(* Theorems *)

\* Nothing has happened yet.
LEMMA InitIInv == Init => IInv
<1> SUFFICES ASSUME Init PROVE IInv
  OBVIOUS
<1>1. <<>> \in Seq(Events)
  OBVIOUS
<1>2. TypeOK
  <2>1. conn \in [Conns -> Connection]
    BY <1>1 DEF Init, Connection
  <2>2. cli \in [Conns -> Client]
    <3>1. [start |-> "idle", reader |-> "idle", sessID |-> None, got |-> <<>>, closed |-> 0] \in Client
      BY <1>1 DEF Client
    <3> QED
      BY ZenonT(30), <3>1 DEF Init
  <2>3. send \in [Senders -> [to : Conns \cup {None}, call : {"idle", "waiting", "returned"}]]
    BY DEF Init
  <2>4. /\ pc = [w \in Conns \cup Senders |-> "idle"] /\ flushLock = None /\ racy = {}
        /\ srv = "open" /\ faults = 0 /\ crashed = FALSE
    BY DEF Init
  <2>5. faults \in 0..MaxFaults /\ \A w \in Conns \cup Senders : w # None
    BY <2>4, ConstantsAssumption DEF ConstantsAssumption
  <2> QED
    BY ONLY ZenonT(30), <2>1, <2>2, <2>3, <2>4, <2>5 DEF TypeOK
<1>3. ASSUME NEW c \in Conns PROVE Local(c)
  <2>1. /\ conn[c].buf = <<>> /\ conn[c].wire = <<>> /\ conn[c].written = <<>>
        /\ conn[c].body = "open" /\ conn[c].gone = FALSE /\ pc[c] = "idle"
        /\ cli[c].start = "idle" /\ cli[c].reader = "idle" /\ cli[c].sessID = None
        /\ cli[c].got = <<>> /\ cli[c].closed = 0
    BY DEF Init
  <2>2. Len(<<>>) = 0 /\ DOMAIN <<>> = {}
    OBVIOUS
  <2>3. Phases(c) /\ Ends(c) /\ Held(c) /\ Empty(c)
    BY <2>1 DEF Phases, Ends, Held, Empty
  <2>4. Endpoint(c)
    BY <2>1, <2>2 DEF Endpoint
  <2>5. Stream(c)
    BY SMTT(30), <2>1, <2>2 DEF Stream, Split, Taken
  <2> QED
    BY <2>3, <2>4, <2>5 DEF Local
<1>4. Targets /\ CrashCauses
  BY DEF Init, Targets, CrashCauses
<1> QED
  BY <1>2, <1>3, <1>4 DEF IInv

\* Every step keeps the invariant.
LEMMA NextIInv == IInv /\ [Next]_vars => IInv'
<1> SUFFICES ASSUME IInv, [Next]_vars PROVE IInv'
  OBVIOUS
<1>0. TypeOK /\ Targets /\ CrashCauses /\ \A d \in Conns : Local(d)
  BY DEF IInv
<1>1. CASE UNCHANGED vars
  <2>1. TypeOK' /\ Targets' /\ CrashCauses'
    BY <1>0, <1>1 DEF vars, TypeOK, Targets, CrashCauses
  <2>2. ASSUME NEW d \in Conns PROVE Local(d)'
    BY <1>0, <1>1, QuietLocal DEF vars, Same, Onward
  <2> QED
    BY <2>1, <2>2 DEF IInv
<1>2. CASE Next
  <2>1. TypeOK' /\ \A d \in Conns : Local(d)'
    <3>1. ASSUME NEW c \in Conns, HandlerStep(c) PROVE TypeOK' /\ \A d \in Conns : Local(d)'
      BY <1>0, <3>1, HandlerTypes, WriterTypes, HandlerLocal, WriterLocal DEF HandlerStep
    <3>2. ASSUME NEW s \in Senders, WriterStep(s) PROVE TypeOK' /\ \A d \in Conns : Local(d)'
      BY <1>0, <3>2, WriterTypes, WriterLocal
    <3>3. ASSUME \/ \E s \in Senders : \/ FlushDead(s) \/ SendReturns(s) \/ GivesUp(s)
                                       \/ \E c \in Conns : Send(s, c)
                 \/ CloseServer \/ \E c \in Conns : TakeSession(c) \/ Disconnect(c) \/ Stall(c)
          PROVE  TypeOK' /\ \A d \in Conns : Local(d)'
      BY <1>0, <3>3, ServerTypes, ServerLocal
    <3>4. ASSUME NEW c \in Conns, ClientStep(c) PROVE TypeOK' /\ \A d \in Conns : Local(d)'
      BY <1>0, <3>4, ClientLocal
    <3> QED
      BY <1>2, <3>1, <3>2, <3>3, <3>4 DEF Next, ServerStep, SenderStep
  <2>2. Targets' /\ CrashCauses'
    BY <1>0, <1>2, NextTargets, NextCrash
  <2> QED
    BY <2>1, <2>2 DEF IInv
<1> QED
  BY <1>1, <1>2

\* The state keeps its type, and one goroutine at most flushes, the one that
\* holds flushLock.
THEOREM SSETypes == Spec => []TypeOK
<1>1. IInv => TypeOK
  BY DEF IInv
<1> QED
  BY <1>1, InitIInv, NextIInv, PTL DEF Spec

\* What a client hands over is what was written to its connection, in order.
THEOREM SSEInOrder == Spec => []InOrder
<1>1. ASSUME IInv PROVE InOrder
  <2> SUFFICES ASSUME NEW c \in Conns, c \notin racy, cli[c].got # <<>>
               PROVE  \E n \in DOMAIN conn[c].written :
                        SubSeq(conn[c].written, 1, n) = <<"endpoint">> \o cli[c].got
    BY ZenonT(30) DEF InOrder
  <2> DEFINE g == cli[c].got
             W == conn[c].written
             E == <<"endpoint">> \o g
  <2>0. cli[c] \in Client /\ conn[c] \in Connection /\ Local(c)
    BY <1>1 DEF IInv, TypeOK
  <2>1. g \in Seq(Events) /\ W \in Seq(Events) /\ Len(g) \in Nat
    BY <2>0, Fields, TakenNat
  <2>2. /\ Len(g) + 1 <= Len(W) /\ W[1] = "endpoint" /\ \A i \in 1..Len(g) : g[i] = W[i + 1]
    BY ZenonT(30), <2>0 DEF Local, Phases, Stream
  <2>3. "endpoint" \in Events
    BY DEF Events
  <2> HIDE DEF g, W
  <2>4. /\ E \in Seq(Events) /\ Len(E) = Len(g) + 1 /\ E[1] = "endpoint"
        /\ \A i \in 1..Len(g) : E[i + 1] = g[i]
    BY <2>1, <2>3
  <2> HIDE DEF E
  <2>5. \A i \in 1..Len(E) : E[i] = W[i]
    <3> SUFFICES ASSUME NEW i \in 1..Len(E) PROVE E[i] = W[i]
      OBVIOUS
    <3>1. CASE i = 1
      BY <2>2, <2>4, <3>1
    <3>2. CASE i # 1
      <4>1. PICK j \in 1..Len(g) : i = j + 1
        <5>1. i - 1 \in 1..Len(g) /\ i = (i - 1) + 1
          BY <2>1, <2>4, <3>2
        <5> QED
          BY <5>1
      <4> QED
        BY <2>2, <2>4, <4>1
    <3> QED
      BY <3>1, <3>2
  <2>6. Len(E) <= Len(W) /\ Len(E) \in Nat /\ Len(W) \in Nat
    BY <2>1, <2>2, <2>4
  <2>7. SubSeq(W, 1, Len(E)) = E
    BY <2>1, <2>4, <2>5, <2>6
  <2>8. Len(E) \in DOMAIN W
    BY <2>1, <2>4, <2>6
  <2> QED
    BY ZenonT(30), <2>7, <2>8 DEF E, W, g
<1> QED
  BY <1>1, InitIInv, NextIInv, PTL DEF Spec

\* StartSession returns an empty id only for these reasons.
THEOREM SSEEmptySession == Spec => []EmptySessionCauses
<1>1. ASSUME IInv PROVE EmptySessionCauses
  <2> SUFFICES ASSUME NEW c \in Conns, cli[c].start = "empty", conn[c].written # <<>>, c \notin racy
               PROVE  Head(conn[c].written) # "endpoint"
    BY DEF EmptySessionCauses
  <2>1. conn[c] \in Connection /\ Local(c)
    BY <1>1 DEF IInv, TypeOK
  <2>2. conn[c].written \in Seq(Events) /\ conn[c].written[1] # "endpoint"
    BY <2>1, Fields DEF Local, Empty
  <2> QED
    BY <2>2
<1> QED
  BY <1>1, InitIInv, NextIInv, PTL DEF Spec

\* The server comes down only for these reasons.
THEOREM SSECrash == Spec => []CrashCauses
<1>1. IInv => CrashCauses
  BY DEF IInv
<1> QED
  BY <1>1, InitIInv, NextIInv, PTL DEF Spec

=============================================================================
