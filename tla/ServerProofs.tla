---------------------------- MODULE ServerProofs ----------------------------
(***************************************************************************)
(* Proofs about Server, for any sessions, topics, transport and bounds.    *)
(* The registry is the heart of it: a session that was started and whose   *)
(* context is not done is in s.sessions, whatever the listen goroutines,   *)
(* the broadcasters and stop do in between.                                *)
(***************************************************************************)
EXTENDS Server, TLAPS

-----------------------------------------------------------------------------
(* Types *)

\* The types hold at the start.
LEMMA InitTypes == Init => TypeOK
<1> SUFFICES ASSUME Init PROVE TypeOK
  OBVIOUS
<1>1. panicked \in BOOLEAN
  BY Zenon DEF Init
<1>2. msgs \in 0..MaxMsgs /\ events \in [Topics -> 0..MaxEvents]
  BY ConstantsAssumption DEF Init, ConstantsAssumption
<1> QED
  BY <1>1, <1>2, ConstantsAssumption DEF Init, TypeOK, ConstantsAssumption

\* No step of the listening goroutines, the broadcasters or stop breaks the
\* types; a broadcaster that sends to a session has not sent it the update.
LEMMA StepTypes == TypeOK /\ [Next]_vars => TypeOK'
<1> SUFFICES ASSUME TypeOK, [Next]_vars PROVE TypeOK'
  OBVIOUS
<1> USE ConstantsAssumption DEF TypeOK, ConstantsAssumption
<1>1. ASSUME NEW s \in Sessions, Announce(s) PROVE TypeOK'
  BY <1>1, TypeOK DEF vars, connVars, topicVars, Announce
<1>2. ASSUME NEW s \in Sessions, Disconnect(s) PROVE TypeOK'
  BY <1>2, TypeOK DEF vars, connVars, topicVars, Disconnect
<1>3. ASSUME NEW s \in Sessions, OfferMsg(s) PROVE TypeOK'
  BY <1>3, TypeOK DEF vars, connVars, topicVars, OfferMsg
<1>4. ASSUME NEW s \in Sessions, ProgressReport(s) PROVE TypeOK'
  BY <1>4, TypeOK DEF vars, connVars, topicVars, ProgressReport
<1>5. ASSUME NEW s \in Sessions, ListenSends(s) PROVE TypeOK'
  <2>0. (stopping \in {"errs", "chan", "closed"}) \in BOOLEAN
    OBVIOUS
  <2>1. panicked' \in BOOLEAN
    BY ONLY <1>5, <2>0, TypeOK DEF ListenSends, TypeOK
  <2> QED
    BY <1>5, <2>1, TypeOK DEF vars, connVars, topicVars, ListenSends
<1>6. ASSUME NEW s \in Sessions, ListenDone(s) PROVE TypeOK'
  BY <1>6, TypeOK DEF vars, connVars, topicVars, ListenDone
<1>7. ASSUME NEW t \in Topics, BeginRange(t) PROVE TypeOK'
  BY <1>7, TypeOK DEF vars, connVars, topicVars, BeginRange
<1>8. ASSUME NEW t \in Topics, NEW s \in Sessions, Visit(t, s) PROVE TypeOK'
  BY <1>8, TypeOK DEF vars, connVars, topicVars, Visit
<1>9. ASSUME NEW t \in Topics, NEW s \in Sessions, Receive(t, s) PROVE TypeOK'
  BY <1>9, TypeOK DEF vars, connVars, topicVars, Receive
<1>10. ASSUME NEW t \in Topics, EndRange(t) PROVE TypeOK'
  BY <1>10, TypeOK DEF vars, connVars, topicVars, EndRange
<1>11. ASSUME NEW t \in Topics, TopicStops(t) PROVE TypeOK'
  BY <1>11, TypeOK DEF vars, connVars, topicVars, TopicStops
<1>12. ASSUME NEW s \in Sessions, startSession(s) PROVE TypeOK'
  BY <1>12, TypeOK DEF vars, connVars, topicVars, startSession
<1>13. ASSUME NEW s \in Sessions, RemoveSession(s) PROVE TypeOK'
  BY <1>13, TypeOK DEF vars, connVars, topicVars, RemoveSession
<1>14. ASSUME NEW s \in Sessions, AcceptMsg(s) PROVE TypeOK'
  BY <1>14, TypeOK DEF vars, connVars, topicVars, AcceptMsg
<1>15. CASE LoopStops
  BY <1>15, TypeOK DEF vars, connVars, topicVars, LoopStops
<1>16. CASE LoopReadsClosed
  BY <1>16, TypeOK DEF vars, connVars, topicVars, LoopReadsClosed
<1>17. CASE StopCancels
  BY <1>17, TypeOK DEF vars, connVars, topicVars, StopCancels
<1>18. CASE StopClosesErrs
  BY <1>18, TypeOK DEF vars, connVars, topicVars, StopClosesErrs
<1>19. CASE StopClosesChan
  BY <1>19, TypeOK DEF vars, connVars, topicVars, StopClosesChan
<1>20. CASE StopClosesTransport
  BY <1>20, TypeOK DEF vars, connVars, topicVars, StopClosesTransport
<1>21. CASE UNCHANGED vars
  BY <1>21, TypeOK DEF vars, connVars, topicVars
<1> QED
  BY <1>1, <1>2, <1>3, <1>4, <1>5, <1>6, <1>7, <1>8, <1>9, <1>10, <1>11, <1>12, <1>13, <1>14, <1>15, <1>16, <1>17, <1>18, <1>19, <1>20, <1>21
  DEF Next, ListenStep, TopicStep, LoopStep, StopStep

\* Server keeps its types for every set of sessions and topics.
THEOREM ServerTypes == Spec => []TypeOK
BY InitTypes, StepTypes, PTL DEF Spec

-----------------------------------------------------------------------------
(* The registry *)

\* A started session leaves the registry only through its listen goroutine,
\* which has seen that its context is done; messages come from sessions the
\* transport has announced.
Registered ==
  \A s \in Sessions :
    /\ conn[s] = "accepted" /\ s \notin ctxDone => s \in sessions
    /\ listen[s] = "stop" => s \in ctxDone
    /\ msg[s] = "offered" => conn[s] # "none"

\* The registry is empty and nothing is announced at the start.
LEMMA InitRegistered == Init => Registered
BY DEF Init, Registered

\* startSession, the removal by listenSessions and the cancelling of all
\* sessions by stop keep the registry in step with the contexts.
LEMMA StepRegistered == TypeOK /\ Registered /\ [Next]_vars => Registered'
<1> SUFFICES ASSUME TypeOK, Registered, [Next]_vars PROVE Registered'
  OBVIOUS
<1> USE DEF TypeOK, Registered
<1>1. ASSUME NEW s \in Sessions, Announce(s) PROVE Registered'
  BY <1>1, TypeOK, Registered DEF vars, connVars, topicVars, Announce
<1>2. ASSUME NEW s \in Sessions, Disconnect(s) PROVE Registered'
  BY <1>2, TypeOK, Registered DEF vars, connVars, topicVars, Disconnect
<1>3. ASSUME NEW s \in Sessions, OfferMsg(s) PROVE Registered'
  BY <1>3, TypeOK, Registered DEF vars, connVars, topicVars, OfferMsg
<1>4. ASSUME NEW s \in Sessions, ProgressReport(s) PROVE Registered'
  BY <1>4, TypeOK, Registered DEF vars, connVars, topicVars, ProgressReport
<1>5. ASSUME NEW s \in Sessions, ListenSends(s) PROVE Registered'
  BY <1>5, TypeOK, Registered DEF vars, connVars, topicVars, ListenSends
<1>6. ASSUME NEW s \in Sessions, ListenDone(s) PROVE Registered'
  BY <1>6, TypeOK, Registered DEF vars, connVars, topicVars, ListenDone
<1>7. ASSUME NEW t \in Topics, BeginRange(t) PROVE Registered'
  BY <1>7, TypeOK, Registered DEF vars, connVars, topicVars, BeginRange
<1>8. ASSUME NEW t \in Topics, NEW s \in Sessions, Visit(t, s) PROVE Registered'
  BY <1>8, TypeOK, Registered DEF vars, connVars, topicVars, Visit
<1>9. ASSUME NEW t \in Topics, NEW s \in Sessions, Receive(t, s) PROVE Registered'
  BY <1>9, TypeOK, Registered DEF vars, connVars, topicVars, Receive
<1>10. ASSUME NEW t \in Topics, EndRange(t) PROVE Registered'
  BY <1>10, TypeOK, Registered DEF vars, connVars, topicVars, EndRange
<1>11. ASSUME NEW t \in Topics, TopicStops(t) PROVE Registered'
  BY <1>11, TypeOK, Registered DEF vars, connVars, topicVars, TopicStops
<1>12. ASSUME NEW s \in Sessions, startSession(s) PROVE Registered'
  BY <1>12, TypeOK, Registered DEF vars, connVars, topicVars, startSession
<1>13. ASSUME NEW s \in Sessions, RemoveSession(s) PROVE Registered'
  BY <1>13, TypeOK, Registered DEF vars, connVars, topicVars, RemoveSession
<1>14. ASSUME NEW s \in Sessions, AcceptMsg(s) PROVE Registered'
  BY <1>14, TypeOK, Registered DEF vars, connVars, topicVars, AcceptMsg
<1>15. CASE LoopStops
  BY <1>15, TypeOK, Registered DEF vars, connVars, topicVars, LoopStops
<1>16. CASE LoopReadsClosed
  BY <1>16, TypeOK, Registered DEF vars, connVars, topicVars, LoopReadsClosed
<1>17. CASE StopCancels
  BY <1>17, TypeOK, Registered DEF vars, connVars, topicVars, StopCancels
<1>18. CASE StopClosesErrs
  BY <1>18, TypeOK, Registered DEF vars, connVars, topicVars, StopClosesErrs
<1>19. CASE StopClosesChan
  BY <1>19, TypeOK, Registered DEF vars, connVars, topicVars, StopClosesChan
<1>20. CASE StopClosesTransport
  BY <1>20, TypeOK, Registered DEF vars, connVars, topicVars, StopClosesTransport
<1>21. CASE UNCHANGED vars
  BY <1>21, TypeOK, Registered DEF vars, connVars, topicVars
<1> QED
  BY <1>1, <1>2, <1>3, <1>4, <1>5, <1>6, <1>7, <1>8, <1>9, <1>10, <1>11, <1>12, <1>13, <1>14, <1>15, <1>16, <1>17, <1>18, <1>19, <1>20, <1>21
  DEF Next, ListenStep, TopicStep, LoopStep, StopStep

\* handleMsg finds no session only if the session is not started yet, or its
\* context is done.
LEMMA StepRefused ==
  TypeOK /\ Registered /\ [Next]_vars
    => \A r \in Sessions : Refused(r) => conn[r] = "announced" \/ r \in ctxDone
<1> SUFFICES ASSUME TypeOK, Registered, [Next]_vars, NEW r \in Sessions, Refused(r)
             PROVE conn[r] = "announced" \/ r \in ctxDone
  OBVIOUS
<1>0. msg[r] = "offered" /\ msg'[r] = "notFound"
  BY DEF Refused
<1>1. CASE UNCHANGED msg
  BY <1>0, <1>1
<1>2. ASSUME NEW s \in Sessions, AcceptMsg(s) PROVE conn[r] = "announced" \/ r \in ctxDone
  BY <1>0, <1>2 DEF AcceptMsg, TypeOK, Registered
<1>3. ASSUME NEW s \in Sessions, OfferMsg(s) PROVE conn[r] = "announced" \/ r \in ctxDone
  BY <1>0, <1>3 DEF OfferMsg, TypeOK
<1>4. CASE StopClosesTransport
  BY <1>0, <1>4 DEF StopClosesTransport, TypeOK
<1> QED
  BY <1>1, <1>2, <1>3, <1>4
  DEF Next, ListenStep, TopicStep, LoopStep, StopStep, vars, connVars, Announce, Disconnect,
      ProgressReport, ListenSends, ListenDone, BeginRange, Visit, Receive, EndRange, TopicStops,
      startSession, RemoveSession, LoopStops, LoopReadsClosed, StopCancels, StopClosesErrs,
      StopClosesChan

\* "Session not found" (handleMsg) is said only of a session that is announced
\* and not yet started, or whose context is done.
THEOREM ServerRefused == Spec => RefusedOnlyOutside
<1>1. Init => TypeOK /\ Registered
  BY InitTypes, InitRegistered
<1>2. TypeOK /\ Registered /\ [Next]_vars => (TypeOK /\ Registered)'
  BY StepTypes, StepRegistered
<1>3. TypeOK /\ Registered /\ [Next]_vars
        => [\A s \in Sessions : Refused(s) => conn[s] = "announced" \/ s \in ctxDone]_vars
  BY StepRefused
<1> QED
  BY <1>1, <1>2, <1>3, PTL DEF Spec, RefusedOnlyOutside

-----------------------------------------------------------------------------
(* Panics *)

\* A step that panics finds errsChan or the transport's channels closed.
LEMMA StepPanics == TypeOK /\ PanicsOnlyInStop /\ [Next]_vars => PanicsOnlyInStop'
<1> SUFFICES ASSUME TypeOK, PanicsOnlyInStop, [Next]_vars PROVE PanicsOnlyInStop'
  OBVIOUS
<1>1. ASSUME NEW s \in Sessions, ListenSends(s), ~panicked PROVE PanicsOnlyInStop'
  BY <1>1 DEF ListenSends, PanicsOnlyInStop, TypeOK
<1>2. CASE LoopReadsClosed
  BY <1>2 DEF LoopReadsClosed, PanicsOnlyInStop, TransportClosed
<1>3. CASE UNCHANGED panicked /\ ~panicked
  BY <1>3 DEF PanicsOnlyInStop
<1>4. CASE UNCHANGED vars
  BY <1>4 DEF vars, PanicsOnlyInStop
<1> QED
  BY <1>1, <1>2, <1>3, <1>4
  DEF Next, ListenStep, TopicStep, LoopStep, StopStep, connVars, Announce, Disconnect, OfferMsg,
      ProgressReport, ListenDone, BeginRange, Visit, Receive, EndRange, TopicStops,
      startSession, RemoveSession, AcceptMsg, LoopStops, StopCancels, StopClosesErrs,
      StopClosesChan, StopClosesTransport

\* No goroutine of the server panics before stop has closed errsChan.
THEOREM ServerPanics == Spec => []PanicsOnlyInStop
<1>1. Init => TypeOK /\ PanicsOnlyInStop
  BY InitTypes DEF Init, PanicsOnlyInStop
<1>2. TypeOK /\ PanicsOnlyInStop /\ [Next]_vars => (TypeOK /\ PanicsOnlyInStop)'
  BY StepTypes, StepPanics
<1> QED
  BY <1>1, <1>2, PTL DEF Spec

=============================================================================
