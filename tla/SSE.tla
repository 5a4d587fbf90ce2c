-------------------------------- MODULE SSE --------------------------------
(***************************************************************************)
(* The SSE transport (src/pkg/mcp/sse.go), both ends: HandleSSE and the    *)
(* goroutines of Send in the server, StartSession and listenMessages of    *)
(* one client per connection, and the two Closes.  POSTs and HandleMessage *)
(* are in Client (Transmit) and Server (OfferMsg, AcceptMsg).              *)
(*                                                                         *)
(* Writers of one ResponseWriter are not synchronised, only its Flush is:  *)
(* a write takes two steps.  Once two overlap, the buffer and its indices  *)
(* are corrupt, and each write may be lost, garbled or fail from then on.  *)
(***************************************************************************)
EXTENDS Naturals, Sequences

CONSTANTS
  Conns,    \* connections, each the session of one client
  Senders,  \* calls of SSEServer.Send
  MaxFaults,\* bound: connections lost or stalled, and Closes
  None

ASSUME ConstantsAssumption ==
  /\ MaxFaults \in Nat
  /\ None \notin Conns \cup Senders
  /\ Senders \cap {"endpoint", "garbled", "badType", "badJSON", "badURL", "noID"} = {}
  /\ Conns \cap Senders = {}

VARIABLES
  pc,        \* pc[w]: HandleSSE of w \in Conns, the goroutine of Send for w \in Senders
  conn,      \* conn[c]: the connection, see Init
  send,      \* send[s]: the connection s writes to, and the call as its caller sees it
  cli,       \* cli[c]: the client, see Init
  flushLock, \* the goroutine that holds it
  racy,      \* connections where the writes or flushes of two goroutines overlapped
  srv,       \* SSEServer.Close: "open", "closing" (sessionsChan closed), "closed"
  faults,    \* how many of them there have been
  crashed    \* a goroutine of the server panicked outside an HTTP handler

vars == <<pc, conn, send, cli, flushLock, racy, srv, faults, crashed>>

Init ==
  /\ pc = [w \in Conns \cup Senders |-> "idle"]
  /\ conn = [c \in Conns |->
       [session |-> "none",      \* "queued" in sessionsChan, "accepted" by the mcp server
        stored  |-> FALSE,       \* in writers
        buf     |-> <<>>,        \* events written and not flushed
        wire    |-> <<>>,        \* events flushed and not dealt with
        written |-> <<>>,        \* every event, in the order of the writes
        headers |-> FALSE,       \* the response headers are out
        body    |-> "open",      \* then "eof" or "broken"
        gone    |-> FALSE,       \* the request's context is done
        stalled |-> FALSE]]      \* the client reads nothing: a flush blocks
  /\ cli = [c \in Conns |->
       [start   |-> "idle",      \* StartSession
        reader  |-> "idle",      \* listenMessages
        sessID  |-> None,
        got     |-> <<>>,        \* messages handed over to the client's loop
        closed  |-> 0]]          \* statements of Close executed: 0..3
  /\ send = [s \in Senders |-> [to |-> None, call |-> "idle"]]
  /\ flushLock = None /\ racy = {}
  /\ srv = "open" /\ faults = 0 /\ crashed = FALSE

\* The connection a goroutine writes to, and the event it writes.
Target(w) == IF w \in Conns THEN w ELSE send[w].to
Event(w) == IF w \in Conns THEN "endpoint" ELSE w

\* The ResponseWriter outlives its handler in writers, and is dead.
Dead(c) == pc[c] = "done"

\* An event of the environment that the bound counts, if new.
Fault(new) ==
  /\ new => faults < MaxFaults
  /\ faults' = IF new THEN faults + 1 ELSE faults

\* The response is aborted; or finished: what is in the buffer is sent.
Aborted(k) == [k EXCEPT !.body = "broken", !.gone = TRUE]
Finished(k) == [k EXCEPT !.wire = @ \o k.buf, !.buf = <<>>, !.gone = TRUE,
                         !.body = IF @ = "open" THEN "eof" ELSE @]

-----------------------------------------------------------------------------
(* HandleSSE *)

\* sessionsChan <- SessionCtx, a channel of capacity 1.
Announce(c) ==
  /\ pc[c] = "announce" /\ srv = "open"
  /\ \A o \in Conns : conn[o].session # "queued"
  /\ conn' = [conn EXCEPT ![c].session = "queued"]
  /\ pc' = [pc EXCEPT ![c] = "store"]
  /\ UNCHANGED <<send, cli, flushLock, racy, srv, faults, crashed>>

\* sessionsChan is closed: net/http recovers the panic and aborts the response.
AnnouncePanics(c) ==
  /\ pc[c] = "announce" /\ srv # "open"
  /\ conn' = [conn EXCEPT ![c] = Aborted(@)]
  /\ pc' = [pc EXCEPT ![c] = "done"]
  /\ UNCHANGED <<send, cli, flushLock, racy, srv, faults, crashed>>

\* writers.Store; nothing ever deletes it.
StoreWriter(c) ==
  /\ pc[c] = "store"
  /\ conn' = [conn EXCEPT ![c].stored = TRUE]
  /\ pc' = [pc EXCEPT ![c] = "write"]
  /\ UNCHANGED <<send, cli, flushLock, racy, srv, faults, crashed>>

\* Mutant: HandleSSE does not wait.
HandlerReturns(c) ==
  /\ pc[c] = "wait"
  /\ pc' = [pc EXCEPT ![c] = "done"]
  /\ conn' = [conn EXCEPT ![c].gone = TRUE, ![c].body = IF @ = "open" THEN "eof" ELSE @]
  /\ UNCHANGED <<send, cli, flushLock, racy, srv, faults, crashed>>

\* The context of the request is done, or closeChan is closed: the handler
\* returns and net/http finishes the response.
HandlerEnds(c) ==
  /\ pc[c] = "wait" /\ (conn[c].gone \/ srv = "closed")
  /\ pc' = [pc EXCEPT ![c] = "done"]
  /\ conn' = [conn EXCEPT ![c] = Finished(@)]
  /\ UNCHANGED <<send, cli, flushLock, racy, srv, faults, crashed>>

-----------------------------------------------------------------------------
(* The ResponseWriter, shared by HandleSSE and the goroutines of Send *)

\* The step of w begins while another goroutine is in one of phases on the same
\* ResponseWriter.
Overlapping(w, phases) ==
  racy' = IF \E o \in DOMAIN pc \ {w} : Target(o) = Target(w) /\ pc[o] \in phases
          THEN racy \cup {Target(w)} ELSE racy

BeginWrite(w) ==
  /\ pc[w] = "write"
  /\ pc' = [pc EXCEPT ![w] = "writing"]
  /\ Overlapping(w, {"writing", "flushing"})
  /\ UNCHANGED <<conn, send, cli, flushLock, srv, faults, crashed>>

Wrote(k, out) == [k EXCEPT !.buf = @ \o out, !.written = @ \o out]

\* What net/http makes of the write: nothing of it reaches a dead response or a
\* broken connection, and after a race there is no telling.
EndWrite(w) ==
  LET c == Target(w)
      outcomes == IF Dead(c) \/ conn[c].gone THEN {<<>>}
                  ELSE IF c \in racy THEN {<<"garbled">>, <<>>}
                  ELSE {<<Event(w)>>}
  IN /\ pc[w] = "writing"
     /\ pc' = [pc EXCEPT ![w] = "flush"]
     /\ \E out \in outcomes :
          conn' = [conn EXCEPT ![c] = Wrote(@, out)]
     /\ UNCHANGED <<send, cli, flushLock, racy, srv, faults, crashed>>

\* The write returns an error: HandleSSE answers it and returns, the goroutine
\* of Send reports it.
WriteFails(w) ==
  LET c == Target(w) IN
  /\ pc[w] = "writing" /\ (conn[c].gone \/ c \in racy)
  /\ pc' = [pc EXCEPT ![w] = IF w \in Conns THEN "done" ELSE "sent"]
  /\ conn' = IF w \in Conns THEN [conn EXCEPT ![c] = Aborted(@)] ELSE conn
  /\ UNCHANGED <<send, cli, flushLock, racy, srv, faults, crashed>>

\* flushLock.Lock(): one lock for all connections.
BeginFlush(w) ==
  /\ pc[w] = "flush" /\ flushLock = None
  /\ flushLock' = w
  /\ pc' = [pc EXCEPT ![w] = "flushing"]
  /\ Overlapping(w, {"writing"})
  /\ UNCHANGED <<conn, send, cli, srv, faults, crashed>>

\* A flush waits for a client that does not read.
FlushReturns(w) ==
  /\ pc[w] = "flushing" /\ ~Dead(Target(w))
  /\ conn[Target(w)].stalled => conn[Target(w)].gone
  /\ flushLock' = None
  /\ pc' = [pc EXCEPT ![w] = IF w \in Conns THEN "wait" ELSE "sent"]
  /\ UNCHANGED <<send, cli, racy, srv, faults, crashed>>

\* Mutant: the buffered events are sent and stay in the buffer.
FlushRepeats(w) ==
  /\ FlushReturns(w)
  /\ conn' = [conn EXCEPT ![Target(w)].headers = TRUE, ![Target(w)].wire = @ \o conn[Target(w)].buf]

\* Flush: the headers, and the events in the buffer.
Flushed(k) == [k EXCEPT !.headers = TRUE, !.wire = @ \o k.buf, !.buf = <<>>]
EndFlush(w) ==
  /\ FlushReturns(w)
  /\ conn' = [conn EXCEPT ![Target(w)] = Flushed(@)]

\* Flush on a response that net/http has finished: its buffer has no writer any
\* more, a nil pointer in a goroutine of Send, or it is another response's.
FlushDead(s) ==
  /\ pc[s] = "flushing" /\ Dead(send[s].to)
  /\ \/ crashed' = TRUE /\ UNCHANGED <<pc, flushLock>>
     \/ pc' = [pc EXCEPT ![s] = "sent"] /\ flushLock' = None /\ UNCHANGED crashed
  /\ UNCHANGED <<conn, send, cli, racy, srv, faults>>

-----------------------------------------------------------------------------
(* SSEServer.Send, called by the session of an accepted connection *)

\* Calls are alike: the next one has the first name that is free.
NextCall == CHOOSE s \in Senders : send[s].call = "idle"

Send(s, c) ==
  /\ send[s].call = "idle" /\ s = NextCall /\ conn[c].session = "accepted"
  /\ IF conn[c].stored
     THEN /\ send' = [send EXCEPT ![s] = [to |-> c, call |-> "waiting"]]
          /\ pc' = [pc EXCEPT ![s] = "write"]
     ELSE send' = [send EXCEPT ![s] = [to |-> c, call |-> "returned"]] /\ UNCHANGED pc
  /\ UNCHANGED <<conn, cli, flushLock, racy, srv, faults, crashed>>

\* err = <-errs
SendReturns(s) ==
  /\ send[s].call = "waiting" /\ pc[s] = "sent"
  /\ send' = [send EXCEPT ![s].call = "returned"]
  /\ UNCHANGED <<pc, conn, cli, flushLock, racy, srv, faults, crashed>>

\* Mutant: Send does not look at its context.
NoContext(s) == FALSE /\ UNCHANGED vars

\* <-ctx.Done(): the goroutine goes on, and stays behind on errs.
GivesUp(s) ==
  /\ send[s].call = "waiting"
  /\ send' = [send EXCEPT ![s].call = "returned"]
  /\ UNCHANGED <<pc, conn, cli, flushLock, racy, srv, faults, crashed>>

-----------------------------------------------------------------------------
(* The mcp server on the other side of sessionsChan, and Close *)

TakeSession(c) ==
  /\ conn[c].session = "queued"
  /\ conn' = [conn EXCEPT ![c].session = "accepted"]
  /\ UNCHANGED <<pc, send, cli, flushLock, racy, srv, faults, crashed>>

\* SSEServer.Close: first sessionsChan, at last closeChan.
CloseServer ==
  /\ srv # "closed" /\ Fault(srv = "open")
  /\ srv' = IF srv = "open" THEN "closing" ELSE "closed"
  /\ UNCHANGED <<pc, conn, send, cli, flushLock, racy, crashed>>

-----------------------------------------------------------------------------
(* SSEClient *)

\* httpClient.Do(GET baseURL)
StartSession(c) ==
  /\ cli[c].start = "idle" /\ ~crashed
  /\ cli' = [cli EXCEPT ![c].start = "do"]
  /\ pc' = [pc EXCEPT ![c] = "announce"]
  /\ UNCHANGED <<conn, send, flushLock, racy, srv, faults, crashed>>

Broken(c) == conn[c].body = "broken" \/ crashed

\* Do returns with the headers, which come with the first flush; or it fails.
DoReturns(c) ==
  /\ cli[c].start = "do"
  /\ \/ /\ conn[c].headers
        /\ cli' = [cli EXCEPT ![c].start = "wait", ![c].reader = "read"]
     \/ /\ ~conn[c].headers /\ Broken(c)
        /\ cli' = [cli EXCEPT ![c].start = "err"]
  /\ UNCHANGED <<pc, conn, send, flushLock, racy, srv, faults, crashed>>

\* What listenMessages does next: go on, or return and close(session), where
\* StartSession, if it still waits, receives a zero value.
Loops(k) == [k EXCEPT !.reader = "read"]
Returns(k) == [k EXCEPT !.reader = "done", !.start = IF @ = "wait" THEN "empty" ELSE @]

\* session <- res, and then on or return; nobody receives a second one.
Reports(k, res, next) ==
  IF k.start = "wait" THEN [k EXCEPT !.start = res, !.reader = next] ELSE [k EXCEPT !.reader = "stuck"]

\* Mutant: no error is reported when there is no session yet.
FailsSilently(k) == [k EXCEPT !.reader = "done"]

Fails(k) == IF k.sessID = None THEN Reports(k, "err", "done") ELSE Returns(k)

\* s.logError, and then next; Close closes errsChan first.
Logs(k, next) == IF k.closed >= 1 THEN [k EXCEPT !.reader = "panic"] ELSE next

\* Mutant: the id is reported before it is taken from the URL.
HandleEarly(c, ev) ==
  IF ev = "endpoint" THEN Reports([cli[c] EXCEPT !.sessID = c], "empty", "read") ELSE Loops(cli[c])

\* switch ev.Type
HandleEvent(c, ev) ==
  LET k == cli[c] IN
  CASE ev \in {"endpoint", "badURL", "noID"} /\ k.sessID # None -> Loops(k)
    [] ev = "badType" -> Logs(k, Loops(k))
    [] ev = "badURL" /\ k.sessID = None -> Reports(k, "err", "done")
    [] ev = "noID" /\ k.sessID = None -> Reports(k, "err", "read")
    [] ev = "endpoint" /\ k.sessID = None -> Reports([k EXCEPT !.sessID = c], "ok", "read")
    [] OTHER -> IF k.sessID = None THEN Logs(k, Returns(k))
                ELSE IF ev = "badJSON" THEN Logs(k, Loops(k))
                ELSE [k EXCEPT !.reader = "offer"]

\* Bytes written in a race parse as an event of another type or with other data,
\* or happen to be intact.
Parsed(ev) ==
  IF ev = "garbled" THEN {"badType", "badJSON", "badURL", "noID", "endpoint", "message"} ELSE {ev}

\* listenMessages goes on as k; when it returns or panics its request ends.
\* The event in hand stays at the head of wire until it is dealt with.
Read(o, reader) ==
  [o EXCEPT !.gone = @ \/ reader \in {"done", "panic"},
            !.wire = IF @ = <<>> \/ reader \in {"offer", "errs"} THEN @ ELSE Tail(@)]
ReaderGoes(c, k) ==
  /\ cli' = [cli EXCEPT ![c] = k]
  /\ conn' = [conn EXCEPT ![c] = Read(@, k.reader)]
  /\ UNCHANGED <<pc, send, flushLock, racy, srv, faults, crashed>>

ReadEvent(c) ==
  /\ cli[c].reader = "read" /\ conn[c].wire # <<>> /\ ~conn[c].stalled
  /\ \E ev \in Parsed(Head(conn[c].wire)) :
       ReaderGoes(c, IF cli[c].closed = 3 THEN Fails(cli[c]) ELSE HandleEvent(c, ev))

\* The stream ends: without an error the loop is over, an error is logged.
ReadEnd(c) ==
  LET k == cli[c] IN
  /\ k.reader = "read" /\ conn[c].wire = <<>> /\ ~conn[c].stalled
  /\ \/ conn[c].body = "eof" /\ ReaderGoes(c, Returns(k))
     \/ /\ conn[c].body # "eof" /\ Broken(c)
        /\ ReaderGoes(c, IF k.closed = 3 THEN Fails(k) ELSE Logs(k, Fails(k)))

\* messagesChan <- msg, received by the client's listenMessages, or closed.
HandOver(c) ==
  LET k == cli[c] IN
  /\ k.reader = "offer"
  /\ ReaderGoes(c, IF k.closed >= 2 THEN [k EXCEPT !.reader = "panic"]
                   ELSE [k EXCEPT !.reader = "errs", !.got = Append(@, Head(conn[c].wire))])

\* <-errs; an error is logged.
Acked(c) ==
  /\ cli[c].reader = "errs"
  /\ \E k \in {Loops(cli[c]), Logs(cli[c], Loops(cli[c]))} : ReaderGoes(c, k)

\* SSEClient.Close: errsChan, messagesChan, closeChan.
CloseClient(c) ==
  /\ cli[c].start \in {"ok", "empty", "err"} /\ cli[c].closed < 3 /\ Fault(cli[c].closed = 0)
  /\ cli' = [cli EXCEPT ![c].closed = @ + 1]
  /\ UNCHANGED <<pc, conn, send, flushLock, racy, srv, crashed>>

-----------------------------------------------------------------------------
(* The network *)

Disconnect(c) ==
  /\ cli[c].start # "idle" /\ conn[c].body = "open" /\ Fault(TRUE)
  /\ conn' = [conn EXCEPT ![c] = Aborted(@)]
  /\ UNCHANGED <<pc, send, cli, flushLock, racy, srv, crashed>>

Stall(c) ==
  /\ cli[c].start # "idle" /\ ~conn[c].stalled /\ Fault(TRUE)
  /\ conn' = [conn EXCEPT ![c].stalled = TRUE]
  /\ UNCHANGED <<pc, send, cli, flushLock, racy, srv, crashed>>

-----------------------------------------------------------------------------
WriterStep(w) == BeginWrite(w) \/ EndWrite(w) \/ WriteFails(w) \/ BeginFlush(w) \/ EndFlush(w)

HandlerStep(c) ==
  Announce(c) \/ AnnouncePanics(c) \/ StoreWriter(c) \/ WriterStep(c) \/ HandlerEnds(c)

SenderStep(s) == WriterStep(s) \/ FlushDead(s)

ReaderStep(c) == DoReturns(c) \/ ReadEvent(c) \/ ReadEnd(c)

ServerStep ==
  \/ \E c \in Conns : HandlerStep(c) \/ TakeSession(c)
  \/ \E s \in Senders : SenderStep(s) \/ SendReturns(s) \/ GivesUp(s) \/ \E c \in Conns : Send(s, c)
  \/ CloseServer

ClientStep(c) ==
  \/ StartSession(c) \/ ReaderStep(c) \/ HandOver(c) \/ Acked(c) \/ CloseClient(c)

Next ==
  \/ ~crashed /\ ServerStep
  \/ \E c \in Conns : ClientStep(c) \/ Disconnect(c) \/ Stall(c)

\* Goroutines that can go on do, the contexts given to Send have a time-out,
\* and the mcp server takes sessions and messages until it closes the transport.
\* Nothing is assumed of the client's loop, of the network, or of Close being
\* called.
Fairness ==
  /\ \A c \in Conns : /\ WF_vars(~crashed /\ HandlerStep(c)) /\ WF_vars(ReaderStep(c))
                      /\ WF_vars(~crashed /\ TakeSession(c))
  /\ \A s \in Senders : WF_vars(~crashed /\ SenderStep(s)) /\ WF_vars(~crashed /\ GivesUp(s))
  /\ WF_vars(~crashed /\ srv = "closing" /\ CloseServer)

Spec == Init /\ [][Next]_vars
FairSpec == Spec /\ Fairness

-----------------------------------------------------------------------------
(* Properties *)

Events == Senders \cup {"endpoint", "garbled"}

Connection ==
  [session : {"none", "queued", "accepted"}, stored : BOOLEAN,
   buf : Seq(Events), wire : Seq(Events), written : Seq(Events), headers : BOOLEAN,
   body : {"open", "eof", "broken"}, gone : BOOLEAN, stalled : BOOLEAN]
Client ==
  [start : {"idle", "do", "wait", "ok", "empty", "err"}, sessID : Conns \cup {None},
   reader : {"idle", "read", "offer", "errs", "done", "panic", "stuck"},
   got : Seq(Events), closed : 0..3]

\* The state keeps its type, and flushLock is held by the one that flushes.
TypeOK ==
  /\ pc \in [Conns \cup Senders -> {"idle", "announce", "store", "write", "writing", "flush",
                                    "flushing", "wait", "sent", "done"}]
  /\ conn \in [Conns -> Connection] /\ cli \in [Conns -> Client]
  /\ send \in [Senders -> [to : Conns \cup {None},
                           call : {"idle", "waiting", "returned"}]]
  /\ flushLock \in Conns \cup Senders \cup {None}
  /\ racy \subseteq Conns
  /\ srv \in {"open", "closing", "closed"} /\ crashed \in BOOLEAN /\ faults \in 0..MaxFaults
  /\ \A w \in Conns \cup Senders : pc[w] = "flushing" <=> flushLock = w

\* What listenMessages hands over is what the goroutines of Send wrote after
\* the endpoint event, in that order and without a gap, as long as no two of
\* them overlapped.
InOrder ==
  \A c \in Conns : c \notin racy /\ cli[c].got # <<>> =>
    \E n \in DOMAIN conn[c].written : SubSeq(conn[c].written, 1, n) = <<"endpoint">> \o cli[c].got

\* StartSession returns an empty id without an error only if a message came
\* before the endpoint event, writes overlapped, or the response ended first.
EmptySessionCauses ==
  \A c \in Conns : cli[c].start = "empty" =>
    LET w == conn[c].written IN w = <<>> \/ Head(w) # "endpoint" \/ c \in racy

\* The server process is brought down only by a Send to a connection that was
\* lost, or whose client or server has left it.
CrashCauses ==
  crashed => \E s \in Senders :
    /\ pc[s] = "flushing"
    /\ \/ srv = "closed" \/ conn[send[s].to].body = "broken"
       \/ cli[send[s].to].reader \in {"done", "panic"}

\* Whatever becomes of its connection, and of the flush lock that another
\* connection may hold, Send returns.
SendsReturn == \A s \in Senders : send[s].call = "waiting" ~> (send[s].call # "waiting" \/ crashed)

\* StartSession returns, unless the endpoint event was garbled, or a client that
\* does not read, this one or any other, holds up a flush.
StartReturns ==
  \A c \in Conns :
    cli[c].start = "do" ~> \/ cli[c].start \in {"ok", "empty", "err"} \/ c \in racy
                           \/ \E o \in Conns : conn[o].stalled

=============================================================================
