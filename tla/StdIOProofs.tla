---------------------------- MODULE StdIOProofs -----------------------------
(***************************************************************************)
(* Proofs about StdIO, for any requests in both directions, any lines that *)
(* are too long, and any number of faults: nothing that was sent is lost   *)
(* in silence, and at most one message is handed over after Close.         *)
(***************************************************************************)
EXTENDS StdIO, TLAPS

\* Messages come from and go to one of the two ends.
LEMMA MsgFacts ==
  /\ \A m \in Msgs : Dest(m) \in Ends /\ ReplyTo(m) \in Msgs /\ m[2] \in Reqs
  /\ \A r \in Reqs : <<"req", r>> \in Msgs /\ <<"res", r>> \in Msgs
  /\ None \notin Msgs
BY ConstantsAssumption DEF Msgs, Dest, ReplyTo, Peer, Home, Ends, ConstantsAssumption

-----------------------------------------------------------------------------
(* Types, and what Start has in hand *)

\* Start has nothing in hand when it scans, and what the loop is handling is
\* what Start has in hand and was handed over.
InHand ==
  \A e \in Ends :
    /\ start[e] = "scan" => hand[e] = None
    /\ start[e] \in {"offer", "errs"} => hand[e] \in Msgs
    /\ start[e] = "errs" => hand[e] \in got[e]

\* The types hold at the start, and nothing is in hand.
LEMMA InitTypes == Init => TypeOK /\ InHand
BY ConstantsAssumption DEF Init, TypeOK, InHand, ConstantsAssumption

\* Every step of Send, Start and the loops keeps the types, and what Start has
\* in hand with the loop's progress: the loop is in handle while Start waits.
LEMMA StepTypes == TypeOK /\ InHand /\ [Next]_vars => TypeOK' /\ InHand'
<1> SUFFICES ASSUME TypeOK, InHand, [Next]_vars PROVE TypeOK' /\ InHand'
  OBVIOUS
<1> USE ConstantsAssumption DEF TypeOK, InHand, ConstantsAssumption
<1>1. ASSUME NEW e \in Ends, NEW m \in Msgs, ScanLine(e, m) PROVE TypeOK' /\ InHand'
  BY <1>1, TypeOK, InHand DEF vars, sendVars, startVars, loopVars, envVars, ScanLine
<1>2. ASSUME NEW e \in Ends, ScanEnds(e) PROVE TypeOK' /\ InHand'
  BY <1>2, TypeOK, InHand DEF vars, sendVars, startVars, loopVars, envVars, ScanEnds
<1>3. ASSUME NEW e \in Ends, HandOver(e) PROVE TypeOK' /\ InHand'
  BY <1>3, TypeOK, InHand DEF vars, sendVars, startVars, loopVars, envVars, HandOver
<1>4. ASSUME NEW e \in Ends, ScanStray(e) PROVE TypeOK' /\ InHand'
  BY <1>4, TypeOK, InHand DEF vars, sendVars, startVars, loopVars, envVars, ScanStray, Fault
<1>5. ASSUME NEW e \in Ends, LoopReplies(e) PROVE TypeOK' /\ InHand'
  BY <1>5, TypeOK, InHand, MsgFacts DEF vars, sendVars, startVars, loopVars, envVars, LoopReplies, Send
<1>6. ASSUME NEW e \in Ends, Ack(e) PROVE TypeOK' /\ InHand'
  BY <1>6, TypeOK, InHand, MsgFacts DEF vars, sendVars, startVars, loopVars, envVars, Ack
<1>7. ASSUME NEW e \in Ends, LoopStops(e) PROVE TypeOK' /\ InHand'
  BY <1>7, TypeOK, InHand DEF vars, sendVars, startVars, loopVars, envVars, LoopStops
<1>8. ASSUME NEW e \in Ends, Close(e) PROVE TypeOK' /\ InHand'
  BY <1>8, TypeOK, InHand DEF vars, sendVars, startVars, loopVars, envVars, Close, Fault
<1>9. ASSUME NEW e \in Ends, Hangup(e) PROVE TypeOK' /\ InHand'
  BY <1>9, TypeOK, InHand DEF vars, sendVars, startVars, loopVars, envVars, Hangup, Fault
<1>10. ASSUME NEW m \in Msgs, WriteFails(m) PROVE TypeOK' /\ InHand'
  BY <1>10, TypeOK, InHand DEF vars, sendVars, startVars, loopVars, envVars, WriteFails
<1>11. ASSUME NEW m \in Msgs, SendReturns(m) PROVE TypeOK' /\ InHand'
  BY <1>11, TypeOK, InHand DEF vars, sendVars, startVars, loopVars, envVars, SendReturns
<1>12. ASSUME NEW m \in Msgs, GivesUp(m) PROVE TypeOK' /\ InHand'
  BY <1>12, TypeOK, InHand DEF vars, sendVars, startVars, loopVars, envVars, GivesUp, Fault
<1>13. ASSUME NEW r \in Reqs, Request(r) PROVE TypeOK' /\ InHand'
  BY <1>13, TypeOK, InHand, MsgFacts DEF vars, sendVars, startVars, loopVars, envVars, Request, Send
<1>14. ASSUME NEW r \in Reqs, JobReplies(r) PROVE TypeOK' /\ InHand'
  BY <1>14, TypeOK, InHand, MsgFacts DEF vars, sendVars, startVars, loopVars, envVars, JobReplies, Send
<1>15. CASE TakeSession
  BY <1>15, TypeOK, InHand DEF vars, sendVars, startVars, loopVars, envVars, TakeSession
<1>16. CASE UNCHANGED vars
  BY <1>16, TypeOK, InHand DEF vars, sendVars, startVars, loopVars, envVars
<1> QED
  BY <1>1, <1>2, <1>3, <1>4, <1>5, <1>6, <1>7, <1>8, <1>9, <1>10, <1>11, <1>12, <1>13, <1>14, <1>15, <1>16
  DEF Next, StartStep, LoopStep, SendStep

\* StdIO keeps its types for any requests and faults.
THEOREM StdIOTypes == Spec => []TypeOK
BY InitTypes, StepTypes, PTL DEF Spec

-----------------------------------------------------------------------------
(* Nothing is lost in silence *)

\* Send reports what its goroutine does, and a line is read off the pipe only
\* to be handed over, unless the reading side was closed.
Carried ==
  \A m \in Msgs :
    /\ call[m] = "ok" => write[m] = "ok"
    /\ write[m] = "ok" => m \in got[Dest(m)] \/ hand[Dest(m)] = m \/ closing[Dest(m)] = "closed"

\* Nothing has been written at the start.
LEMMA InitCarried == Init => Carried
BY DEF Init, Carried

\* A line leaves Start's hand only when the loop has it.
LEMMA StepCarried == TypeOK /\ InHand /\ Carried /\ [Next]_vars => Carried'
<1> SUFFICES ASSUME TypeOK, InHand, Carried, [Next]_vars PROVE Carried'
  OBVIOUS
<1> USE MsgFacts DEF TypeOK, InHand, Carried
<1>1. ASSUME NEW e \in Ends, NEW m \in Msgs, ScanLine(e, m) PROVE Carried'
  BY <1>1, TypeOK, InHand, Carried DEF vars, sendVars, startVars, loopVars, envVars, ScanLine
<1>2. ASSUME NEW e \in Ends, ScanEnds(e) PROVE Carried'
  BY <1>2, TypeOK, InHand, Carried DEF vars, sendVars, startVars, loopVars, envVars, ScanEnds
<1>3. ASSUME NEW e \in Ends, HandOver(e) PROVE Carried'
  BY <1>3, TypeOK, InHand, Carried DEF vars, sendVars, startVars, loopVars, envVars, HandOver
<1>4. ASSUME NEW e \in Ends, ScanStray(e) PROVE Carried'
  BY <1>4, TypeOK, InHand, Carried DEF vars, sendVars, startVars, loopVars, envVars, ScanStray
<1>5. ASSUME NEW e \in Ends, LoopReplies(e) PROVE Carried'
  BY <1>5, TypeOK, InHand, Carried DEF vars, sendVars, startVars, loopVars, envVars, LoopReplies, Send
<1>6. ASSUME NEW e \in Ends, Ack(e) PROVE Carried'
  BY <1>6, TypeOK, InHand, Carried DEF vars, sendVars, startVars, loopVars, envVars, Ack
<1>7. ASSUME NEW e \in Ends, LoopStops(e) PROVE Carried'
  BY <1>7, TypeOK, InHand, Carried DEF vars, sendVars, startVars, loopVars, envVars, LoopStops
<1>8. ASSUME NEW e \in Ends, Close(e) PROVE Carried'
  BY <1>8, TypeOK, InHand, Carried DEF vars, sendVars, startVars, loopVars, envVars, Close
<1>9. ASSUME NEW e \in Ends, Hangup(e) PROVE Carried'
  BY <1>9, TypeOK, InHand, Carried DEF vars, sendVars, startVars, loopVars, envVars, Hangup
<1>10. ASSUME NEW m \in Msgs, WriteFails(m) PROVE Carried'
  BY <1>10, TypeOK, InHand, Carried DEF vars, sendVars, startVars, loopVars, envVars, WriteFails
<1>11. ASSUME NEW m \in Msgs, SendReturns(m) PROVE Carried'
  BY <1>11, TypeOK, InHand, Carried DEF vars, sendVars, startVars, loopVars, envVars, SendReturns
<1>12. ASSUME NEW m \in Msgs, GivesUp(m) PROVE Carried'
  BY <1>12, TypeOK, InHand, Carried DEF vars, sendVars, startVars, loopVars, envVars, GivesUp
<1>13. ASSUME NEW r \in Reqs, Request(r) PROVE Carried'
  BY <1>13, TypeOK, InHand, Carried DEF vars, sendVars, startVars, loopVars, envVars, Request, Send
<1>14. ASSUME NEW r \in Reqs, JobReplies(r) PROVE Carried'
  BY <1>14, TypeOK, InHand, Carried DEF vars, sendVars, startVars, loopVars, envVars, JobReplies, Send
<1>15. CASE TakeSession
  BY <1>15, TypeOK, InHand, Carried DEF vars, sendVars, startVars, loopVars, envVars, TakeSession
<1>16. CASE UNCHANGED vars
  BY <1>16, TypeOK, InHand, Carried DEF vars, sendVars, startVars, loopVars, envVars
<1> QED
  BY <1>1, <1>2, <1>3, <1>4, <1>5, <1>6, <1>7, <1>8, <1>9, <1>10, <1>11, <1>12, <1>13, <1>14, <1>15, <1>16
  DEF Next, StartStep, LoopStep, SendStep

\* A message whose Send returned nil is with the other side: read, or handed
\* over to its loop, unless that side was closed.
THEOREM StdIONoSilentLoss == Spec => []NoSilentLoss
<1>1. Init => TypeOK /\ InHand /\ Carried
  BY InitTypes, InitCarried
<1>2. TypeOK /\ InHand /\ Carried /\ [Next]_vars => (TypeOK /\ InHand /\ Carried)'
  BY StepTypes, StepCarried
<1>3. Carried => NoSilentLoss
  BY DEF Carried, NoSilentLoss
<1> QED
  BY <1>1, <1>2, <1>3, PTL DEF Spec

-----------------------------------------------------------------------------
(* After Close *)

\* The message that Start had in hand when closeChan was closed is the last one.
LastOne ==
  \A e \in Ends :
    late[e] = 0 \/ (late[e] = 1 /\ closing[e] = "closed" /\ start[e] # "offer")

\* Start looks at closeChan after every line and offers nothing once closed.
LEMMA StepLastOne == TypeOK /\ LastOne /\ [Next]_vars => LastOne'
<1> SUFFICES ASSUME TypeOK, LastOne, [Next]_vars PROVE LastOne'
  OBVIOUS
<1> USE DEF TypeOK, LastOne
<1>1. ASSUME NEW e \in Ends, NEW m \in Msgs, ScanLine(e, m) PROVE LastOne'
  BY <1>1, TypeOK, LastOne DEF vars, sendVars, startVars, loopVars, envVars, ScanLine
<1>2. ASSUME NEW e \in Ends, ScanEnds(e) PROVE LastOne'
  BY <1>2, TypeOK, LastOne DEF vars, sendVars, startVars, loopVars, envVars, ScanEnds
<1>3. ASSUME NEW e \in Ends, HandOver(e) PROVE LastOne'
  BY <1>3, TypeOK, LastOne DEF vars, sendVars, startVars, loopVars, envVars, HandOver
<1>4. ASSUME NEW e \in Ends, ScanStray(e) PROVE LastOne'
  BY <1>4, TypeOK, LastOne DEF vars, sendVars, startVars, loopVars, envVars, ScanStray
<1>5. ASSUME NEW e \in Ends, LoopReplies(e) PROVE LastOne'
  BY <1>5, TypeOK, LastOne DEF vars, sendVars, startVars, loopVars, envVars, LoopReplies
<1>6. ASSUME NEW e \in Ends, Ack(e) PROVE LastOne'
  BY <1>6, TypeOK, LastOne DEF vars, sendVars, startVars, loopVars, envVars, Ack
<1>7. ASSUME NEW e \in Ends, LoopStops(e) PROVE LastOne'
  BY <1>7, TypeOK, LastOne DEF vars, sendVars, startVars, loopVars, envVars, LoopStops
<1>8. ASSUME NEW e \in Ends, Close(e) PROVE LastOne'
  BY <1>8, TypeOK, LastOne DEF vars, sendVars, startVars, loopVars, envVars, Close
<1>9. ASSUME NEW e \in Ends, Hangup(e) PROVE LastOne'
  BY <1>9, TypeOK, LastOne DEF vars, sendVars, startVars, loopVars, envVars, Hangup
<1>10. ASSUME NEW m \in Msgs, WriteFails(m) PROVE LastOne'
  BY <1>10, TypeOK, LastOne DEF vars, sendVars, startVars, loopVars, envVars, WriteFails
<1>11. ASSUME NEW m \in Msgs, SendReturns(m) PROVE LastOne'
  BY <1>11, TypeOK, LastOne DEF vars, sendVars, startVars, loopVars, envVars, SendReturns
<1>12. ASSUME NEW m \in Msgs, GivesUp(m) PROVE LastOne'
  BY <1>12, TypeOK, LastOne DEF vars, sendVars, startVars, loopVars, envVars, GivesUp
<1>13. ASSUME NEW r \in Reqs, Request(r) PROVE LastOne'
  BY <1>13, TypeOK, LastOne DEF vars, sendVars, startVars, loopVars, envVars, Request
<1>14. ASSUME NEW r \in Reqs, JobReplies(r) PROVE LastOne'
  BY <1>14, TypeOK, LastOne DEF vars, sendVars, startVars, loopVars, envVars, JobReplies
<1>15. CASE TakeSession
  BY <1>15, TypeOK, LastOne DEF vars, sendVars, startVars, loopVars, envVars, TakeSession
<1>16. CASE UNCHANGED vars
  BY <1>16, TypeOK, LastOne DEF vars, sendVars, startVars, loopVars, envVars
<1> QED
  BY <1>1, <1>2, <1>3, <1>4, <1>5, <1>6, <1>7, <1>8, <1>9, <1>10, <1>11, <1>12, <1>13, <1>14, <1>15, <1>16
  DEF Next, StartStep, LoopStep, SendStep

\* Close lets at most one more message through, the one that Start had read.
THEOREM StdIOOneAfterClose == Spec => []OneAfterClose
<1>1. Init => TypeOK /\ InHand /\ LastOne
  BY InitTypes DEF Init, LastOne
<1>2. TypeOK /\ InHand /\ LastOne /\ [Next]_vars => (TypeOK /\ InHand /\ LastOne)'
  BY StepTypes, StepLastOne
<1>3. LastOne => OneAfterClose
  BY DEF LastOne, OneAfterClose
<1> QED
  BY <1>1, <1>2, <1>3, PTL DEF Spec

=============================================================================
