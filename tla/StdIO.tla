------------------------------- MODULE StdIO -------------------------------
(***************************************************************************)
(* The StdIO transport (src/pkg/mcp/stdio.go): a client's and a server's,  *)
(* joined by two io.Pipes as in example/filesystem/main.go.  Of the client *)
(* and the server behind them only the loops that take messages in: the    *)
(* client's sends its replies itself, the server's leaves them to          *)
(* goroutines.                                                             *)
(***************************************************************************)
EXTENDS Naturals

CONSTANTS
  CliReqs,   \* requests of the client to the server
  SrvReqs,   \* requests of the server to the client
  Long,      \* messages too long for a bufio.Scanner
  MaxFaults, \* bound: stray lines, Closes, ends of input, expired contexts
  None

Reqs == CliReqs \cup SrvReqs
Ends == {"cli", "srv"}
Msgs == {"req", "res"} \X Reqs

ASSUME ConstantsAssumption ==
  CliReqs \cap SrvReqs = {} /\ Long \subseteq Msgs /\ MaxFaults \in Nat /\ None \notin Msgs

VARIABLES
  write,   \* write[m]: the goroutine of Send: "none", "writing", "ok", "failed"
  call,    \* call[m]: Send: "idle", "waiting", "ok", "failed", "cancelled"
  start,   \* start[e]: Start: "scan", "offer", "errs", "ended"
  hand,    \* hand[e]: the message Start has read
  loop,    \* loop[e]: listenMessages or listenSessions: "select", "handle", "stopped"
  got,     \* got[e]: the messages handed over to it
  late,    \* late[e]: how many of them after Close
  session, \* the one session of Sessions: "offered", "taken"
  jobs,    \* requests that goroutines of the server are handling
  refused, \* messages answered with an error
  closing, \* closing[e]: "open", "closing" (the loop's closeChan), "closed"
  eof,     \* ends whose reader is exhausted
  faults

sendVars == <<write, call>>
startVars == <<start, hand>>
loopVars == <<loop, got, late, session, jobs, refused>>
envVars == <<closing, eof, faults>>
vars == <<sendVars, startVars, loopVars, envVars>>

Init ==
  /\ write = [m \in Msgs |-> "none"] /\ call = [m \in Msgs |-> "idle"]
  /\ start = [e \in Ends |-> "scan"] /\ hand = [e \in Ends |-> None]
  /\ loop = [e \in Ends |-> "select"]
  /\ got = [e \in Ends |-> {}] /\ late = [e \in Ends |-> 0]
  /\ session = "offered" /\ jobs = {} /\ refused = {}
  /\ closing = [e \in Ends |-> "open"] /\ eof = {} /\ faults = 0

Peer(e) == IF e = "cli" THEN "srv" ELSE "cli"
Home(r) == IF r \in CliReqs THEN "cli" ELSE "srv"
Dest(m) == IF m[1] = "req" THEN Peer(Home(m[2])) ELSE Home(m[2])
ReplyTo(m) == <<"res", m[2]>>

Fault == faults < MaxFaults /\ faults' = faults + 1

-----------------------------------------------------------------------------
(* Send *)

\* The goroutine is started and the caller waits for it or for its context.
Send(m) ==
  /\ call[m] = "idle"
  /\ call' = [call EXCEPT ![m] = "waiting"]
  /\ write' = [write EXCEPT ![m] = "writing"]

\* A Write to an io.Pipe returns when the line is read (ScanLine), or the pipe
\* is closed.
WriteFails(m) ==
  /\ write[m] = "writing" /\ Dest(m) \in eof
  /\ write' = [write EXCEPT ![m] = "failed"]
  /\ UNCHANGED <<call, startVars, loopVars, envVars>>

SendReturns(m) ==
  /\ call[m] = "waiting" /\ write[m] \in {"ok", "failed"}
  /\ call' = [call EXCEPT ![m] = write[m]]
  /\ UNCHANGED <<write, startVars, loopVars, envVars>>

\* <-ctx.Done(): the goroutine goes on, and its line with it.
GivesUp(m) ==
  /\ call[m] = "waiting" /\ Fault
  /\ call' = [call EXCEPT ![m] = "cancelled"]
  /\ UNCHANGED <<write, startVars, loopVars, closing, eof>>

-----------------------------------------------------------------------------
(* Start *)

\* Mutant: the line is dropped when nobody receives from messagesChan.
ScanAndDrop(e, m) ==
  /\ start[e] = "scan" /\ write[m] = "writing" /\ Dest(m) = e
  /\ start' = [start EXCEPT ![e] = IF loop[e] = "select" THEN "offer" ELSE "scan"]
  /\ hand' = [hand EXCEPT ![e] = m]
  /\ write' = [write EXCEPT ![m] = "ok"]
  /\ UNCHANGED <<call, loopVars, envVars>>

\* scanner.Scan() returns a line, or false if the line is too long, half read;
\* then closeChan.
ScanLine(e, m) ==
  /\ start[e] = "scan" /\ write[m] = "writing" /\ Dest(m) = e
  /\ IF m \in Long \/ closing[e] = "closed"
     THEN start' = [start EXCEPT ![e] = "ended"] /\ UNCHANGED hand
     ELSE start' = [start EXCEPT ![e] = "offer"] /\ hand' = [hand EXCEPT ![e] = m]
  /\ write' = IF m \in Long THEN write ELSE [write EXCEPT ![m] = "ok"]
  /\ UNCHANGED <<call, loopVars, envVars>>

\* An empty line, or one that is no message (logged): the next one.
ScanStray(e) ==
  /\ start[e] = "scan" /\ e \notin eof /\ Fault
  /\ start' = [start EXCEPT ![e] = IF closing[e] = "closed" THEN "ended" ELSE "scan"]
  /\ UNCHANGED <<sendVars, hand, loopVars, closing, eof>>

ScanEnds(e) ==
  /\ start[e] = "scan" /\ e \in eof
  /\ start' = [start EXCEPT ![e] = "ended"]
  /\ UNCHANGED <<sendVars, hand, loopVars, envVars>>

\* messagesChan <- SessionMsgWithErrs
HandOver(e) ==
  /\ start[e] = "offer" /\ loop[e] = "select"
  /\ start' = [start EXCEPT ![e] = "errs"]
  /\ loop' = [loop EXCEPT ![e] = "handle"]
  /\ got' = [got EXCEPT ![e] = @ \cup {hand[e]}]
  /\ late' = IF closing[e] = "closed" THEN [late EXCEPT ![e] = @ + 1] ELSE late
  /\ UNCHANGED <<sendVars, hand, session, jobs, refused, envVars>>

-----------------------------------------------------------------------------
(* The loops, and the goroutines of the server's handlers *)

\* Mutant: the server handles requests in its loop.
BothReply(e) == TRUE

\* Client.handleMsg sends the reply before it returns, server.handleMsg starts
\* a goroutine for it.
RepliesInLoop(e) == e = "cli"

LoopReplies(e) ==
  /\ loop[e] = "handle" /\ hand[e][1] = "req" /\ RepliesInLoop(e)
  /\ Send(ReplyTo(hand[e]))
  /\ UNCHANGED <<startVars, loopVars, envVars>>

\* The verdict goes to errs, where Start is waiting: handled, or refused as
\* the server's loop has not taken the session yet.
Ack(e) ==
  LET m == hand[e]
      request == m[1] = "req"
      refuse == e = "srv" /\ session = "offered"
  IN /\ loop[e] = "handle"
     /\ request /\ RepliesInLoop(e) => call[ReplyTo(m)] \notin {"idle", "waiting"}
     /\ start' = [start EXCEPT ![e] = "scan"]
     /\ loop' = [loop EXCEPT ![e] = "select"]
     /\ hand' = [hand EXCEPT ![e] = None]
     /\ refused' = IF refuse THEN refused \cup {m} ELSE refused
     /\ jobs' = IF request /\ ~RepliesInLoop(e) /\ ~refuse THEN jobs \cup {m[2]} ELSE jobs
     /\ UNCHANGED <<sendVars, got, late, session, envVars>>

JobReplies(r) ==
  /\ r \in jobs
  /\ Send(<<"res", r>>)
  /\ jobs' = jobs \ {r}
  /\ UNCHANGED <<startVars, loop, got, late, session, refused, envVars>>

\* ctx := <-Sessions()
TakeSession ==
  /\ loop["srv"] = "select" /\ session = "offered"
  /\ session' = "taken"
  /\ UNCHANGED <<sendVars, startVars, loop, got, late, jobs, refused, envVars>>

\* A caller of the client; the server's pings and handlers have a session.
Request(r) ==
  /\ Home(r) = "srv" => session = "taken"
  /\ Send(<<"req", r>>)
  /\ UNCHANGED <<startVars, loopVars, envVars>>

LoopStops(e) ==
  /\ loop[e] = "select" /\ closing[e] # "open"
  /\ loop' = [loop EXCEPT ![e] = "stopped"]
  /\ UNCHANGED <<sendVars, startVars, got, late, session, jobs, refused, envVars>>

-----------------------------------------------------------------------------
(* Client.Close and server.stop: the loop's closeChan, then StdIO.Close *)

Close(e) ==
  /\ \/ closing[e] = "open" /\ Fault /\ closing' = [closing EXCEPT ![e] = "closing"]
     \/ closing[e] = "closing" /\ closing' = [closing EXCEPT ![e] = "closed"] /\ UNCHANGED faults
  /\ UNCHANGED <<sendVars, startVars, loopVars, eof>>

\* The pipe that e reads is closed.
Hangup(e) ==
  /\ e \notin eof /\ Fault
  /\ eof' = eof \cup {e}
  /\ UNCHANGED <<sendVars, startVars, loopVars, closing>>

-----------------------------------------------------------------------------
StartStep(e) == (\E m \in Msgs : ScanLine(e, m)) \/ ScanEnds(e) \/ HandOver(e)
LoopStep(e) == LoopReplies(e) \/ Ack(e) \/ LoopStops(e)
SendStep(m) == WriteFails(m) \/ SendReturns(m)

Next ==
  \/ \E e \in Ends : StartStep(e) \/ ScanStray(e) \/ LoopStep(e) \/ Close(e) \/ Hangup(e)
  \/ \E m \in Msgs : SendStep(m) \/ GivesUp(m)
  \/ \E r \in Reqs : Request(r) \/ JobReplies(r)
  \/ TakeSession

Spec == Init /\ [][Next]_vars

\* Goroutines that can go on do; no context need ever expire.
Fairness ==
  /\ \A e \in Ends : WF_vars(StartStep(e)) /\ WF_vars(LoopStep(e))
  /\ \A m \in Msgs : WF_vars(SendStep(m))
  /\ \A r \in Reqs : WF_vars(JobReplies(r))
FairSpec == Spec /\ Fairness

-----------------------------------------------------------------------------
(* Properties *)

TypeOK ==
  /\ write \in [Msgs -> {"none", "writing", "ok", "failed"}]
  /\ call \in [Msgs -> {"idle", "waiting", "ok", "failed", "cancelled"}]
  /\ start \in [Ends -> {"scan", "offer", "errs", "ended"}]
  /\ hand \in [Ends -> Msgs \cup {None}]
  /\ loop \in [Ends -> {"select", "handle", "stopped"}]
  /\ got \in [Ends -> SUBSET Msgs] /\ late \in [Ends -> Nat]
  /\ session \in {"offered", "taken"} /\ jobs \subseteq Reqs /\ refused \subseteq Msgs
  /\ closing \in [Ends -> {"open", "closing", "closed"}]
  /\ eof \subseteq Ends /\ faults \in 0..MaxFaults
  /\ \A e \in Ends : loop[e] = "handle" <=> start[e] = "errs"

\* A message whose Send succeeded is with the other side: in its Start, or
\* handed over to its loop, unless that side was closed.
NoSilentLoss ==
  \A m \in Msgs : call[m] = "ok" =>
    m \in got[Dest(m)] \/ hand[Dest(m)] = m \/ closing[Dest(m)] = "closed"

\* Close "prevent[s] any new messages from being processed" but for one, that
\* Start had read before.
OneAfterClose == \A e \in Ends : late[e] <= 1

\* Nobody waits in a circle, even if no context ever expires: a request that is
\* sent is answered, though the two sides write to each other over pipes that
\* hold nothing, unless something went wrong, a line was too long, or the
\* request came before the session was taken.
Disturbed ==
  \/ eof # {} \/ refused # {}
  \/ \E e \in Ends : closing[e] # "open" \/ start[e] = "ended"
  \/ \E m \in Msgs : call[m] = "cancelled"
RepliesArrive ==
  \A r \in Reqs : call[<<"req", r>>] = "waiting" ~> (<<"res", r>> \in got[Home(r)] \/ Disturbed)

=============================================================================
