----------------------------- MODULE ClientProofs -----------------------------
(***************************************************************************)
(* Proofs about Client, for any sets of calls, uuids and peer requests:    *)
(* the inductive invariant, that the callers, the server, listenMessages   *)
(* and Close preserve it, the theorems that follow from it, and that       *)
(* Client implements RPC.                                                  *)
(***************************************************************************)
EXTENDS Client, TLAPS

-----------------------------------------------------------------------------
(* The inductive invariant.  A response exists in at most one place at a   *)
(* time - unanswered at the server, in the stream, in the hands of         *)
(* listenMessages, or with its caller - and carries the id under which its *)
(* caller is registered.                                                   *)

\* Registration: ids and calls correspond one to one.
Registered ==
  /\ \A c \in Calls : /\ pc[c] = "idle" <=> reqId[c] = None
                      /\ pc[c] = "idle" <=> tx[c] = "none"
                      /\ reqId[c] # None => clientRequests[reqId[c]] = c
  /\ \A id \in ReqIDs : clientRequests[id] # None => reqId[clientRequests[id]] = id

IsResponse(m) == m.kind = "response"

\* m, a request at the server or a response, belongs to the call in its body,
\* which has been transmitted and has had no answer yet.
Belongs(m) ==
  /\ m.body \in Calls
  /\ m.id = reqId[m.body]
  /\ tx[m.body] = "delivered"
  /\ result[m.body] = None

AtServer == \A r \in server : Belongs(r)

InStream ==
  \A i \in 1..Len(inbox) :
    /\ IsResponse(inbox[i]) =>
         /\ Belongs(inbox[i])
         /\ \A r \in server : r.body # inbox[i].body
         /\ \A j \in 1..Len(inbox) :
              IsResponse(inbox[j]) /\ inbox[j].body = inbox[i].body => i = j
    /\ ~IsResponse(inbox[i]) => inbox[i].id \in PeerIDs

InHand ==
  loop = "deliver" =>
    /\ IsResponse(cur)
    /\ Belongs(cur)
    /\ \A r \in server : r.body # cur.body
    /\ \A i \in 1..Len(inbox) : IsResponse(inbox[i]) => inbox[i].body # cur.body

WithCaller ==
  \A c \in Calls : /\ result[c] \in {None, c}
                   /\ pc[c] = "result" <=> result[c] = c
                   /\ result[c] = c => tx[c] = "delivered"

\* No answer is anywhere for a call whose request was not transmitted.
Answers == AtServer /\ InStream /\ InHand /\ WithCaller

Cancels ==
  /\ \A c \in Calls : pc[c] \in {"cancelling", "cancelled"} => c \in cancelled
  /\ \A id \in cancelSent : /\ clientRequests[id] # None
                            /\ pc[clientRequests[id]] = "cancelled"

Panics ==
  /\ panicked => closing # "open"
  /\ \A k \in serverRequests : k[1] = "MustString"

Offers == reader = "offer" => inbox # <<>>

IInv == TypeOK /\ Registered /\ Answers /\ Cancels /\ Panics /\ Offers

-----------------------------------------------------------------------------
(* Frame lemmas: what a step must leave alone for a conjunct to survive. *)

\* Registration is not disturbed by a step that starts no call.
LEMMA RegisteredFrame ==
  ASSUME Registered,
         UNCHANGED <<reqId, clientRequests>>,
         \A c \in Calls : pc[c] = "idle" <=> pc'[c] = "idle",
         \A c \in Calls : tx[c] = "none" <=> tx'[c] = "none"
  PROVE  Registered'
  BY DEF Registered

\* The answers stay where they are in a step that moves none of them.
LEMMA AnswersFrame ==
  ASSUME Answers,
         UNCHANGED <<reqId, result, tx, server, inbox>>,
         \A c \in Calls : pc[c] = "result" <=> pc'[c] = "result",
         loop' = "deliver" => UNCHANGED <<loop, cur>>
  PROVE  Answers'
<1>1. AtServer' BY DEF Answers, AtServer, Belongs
<1>2. InStream' BY DEF Answers, InStream, Belongs, IsResponse
<1>3. InHand' BY DEF Answers, InHand, Belongs, IsResponse
<1>4. WithCaller' BY DEF Answers, WithCaller
<1> QED BY <1>1, <1>2, <1>3, <1>4 DEF Answers

\* Cancellations survive a step that neither cancels nor reaches one of the
\* two cancellation states.
LEMMA CancelsFrame ==
  ASSUME Cancels,
         UNCHANGED <<clientRequests, cancelSent>>,
         cancelled \subseteq cancelled',
         \A c \in Calls : pc[c] = "cancelled" => pc'[c] = "cancelled",
         \A c \in Calls : pc'[c] \in {"cancelling", "cancelled"} => pc'[c] = pc[c],
         clientRequests \in [ReqIDs -> Calls \cup {None}],
         cancelSent \subseteq ReqIDs
  PROVE  Cancels'
  BY DEF Cancels

\* The invariant holds initially.
LEMMA InitIInv == Init => IInv
<1> SUFFICES ASSUME Init PROVE IInv
  OBVIOUS
<1> USE DEF Init
<1>1. TypeOK
  <2>1. /\ inbox \in Seq(Messages)
        /\ pc \in [Calls -> {"idle"} \cup InCall \cup Returned]
        /\ clientRequests \in [ReqIDs -> Calls \cup {None}]
    OBVIOUS
  <2>2. /\ reqId \in [Calls -> ReqIDs \cup {None}]
        /\ result \in [Calls -> Calls \cup {None}]
        /\ tx \in [Calls -> {"none", "wire", "delivered", "lost"}]
    OBVIOUS
  <2>3. pushed \in 0..MaxPushed
    BY ConstantsAssumption DEF ConstantsAssumption
  <2> QED BY ZenonT(30), <2>1, <2>2, <2>3 DEF TypeOK
<1>2. Registered BY DEF Registered
<1>3. Answers
  BY ConstantsAssumption DEF ConstantsAssumption, Answers, AtServer, InStream, InHand, WithCaller
<1>4. Cancels BY DEF Cancels
<1>5. Panics BY DEF Panics
<1>6. Offers BY DEF Offers
<1> QED BY <1>1, <1>2, <1>3, <1>4, <1>5, <1>6 DEF IInv


-----------------------------------------------------------------------------
(* One lemma per group of actions. *)

\* sendRequest registers c under an id nobody has.
LEMMA SendRequestIInv ==
  ASSUME IInv, NEW c \in Calls, sendRequest(c),
         UNCHANGED <<peerVars, lifeVars, reader, loop, cur, serverRequests>>,
         nested' \in Calls \cup {None}
  PROVE  IInv'
<1> USE DEF IInv, sendRequest, registerRequest, FreshIDs, peerVars, lifeVars
<1>1. PICK id \in ReqIDs : /\ clientRequests[id] = None
                           /\ reqId' = [reqId EXCEPT ![c] = id]
                           /\ clientRequests' = [clientRequests EXCEPT ![id] = c]
  BY ZenonT(30)
<1>2. TypeOK' BY <1>1 DEF TypeOK, InCall
<1>3. Registered'
  BY <1>1, ConstantsAssumption DEF ConstantsAssumption, TypeOK, Registered
<1>4. Answers'
  <2>1. \A d \in Calls : tx[d] = "delivered" => d # c
    BY DEF Registered
  <2>2. ASSUME NEW m, Belongs(m) PROVE Belongs(m)'
    BY <1>1, <2>1, <2>2 DEF Belongs, TypeOK
  <2>3. AtServer' BY <2>2 DEF Answers, AtServer
  <2>4. InStream' BY <2>2 DEF Answers, InStream, IsResponse
  <2>5. InHand' BY <2>2 DEF Answers, InHand, IsResponse
  <2>6. WithCaller' BY <2>1, ConstantsAssumption DEF ConstantsAssumption, Answers, WithCaller, TypeOK
  <2> QED BY <2>3, <2>4, <2>5, <2>6 DEF Answers
<1>5. Cancels'
  BY <1>1 DEF TypeOK, Cancels
<1>6. Panics' BY DEF Panics
<1>7. Offers' BY DEF Offers
<1> QED BY <1>2, <1>3, <1>4, <1>5, <1>6, <1>7


\* A request reaches the server or is lost; nothing of it was there before.
LEMMA TransmitIInv ==
  ASSUME IInv, NEW c \in Calls, Transmit(c) \/ TransmitFails(c)
  PROVE  IInv'
<1> USE DEF IInv, loopVars, lifeVars, peerVars
<1>1. CASE Transmit(c)
  <2> USE <1>1 DEF Transmit
  <2>0. reqId[c] \in ReqIDs
    BY DEF TypeOK, Registered
  <2>1. TypeOK' BY <2>0 DEF TypeOK
  <2>2. Registered' BY RegisteredFrame DEF TypeOK
  <2>3. Answers'
    <3>1. \A d \in Calls : tx[d] = "delivered" => d # c /\ tx'[d] = "delivered"
      BY DEF TypeOK
    <3>2. ASSUME NEW m, Belongs(m) PROVE Belongs(m)' /\ m.body # c
      BY <3>1, <3>2 DEF Belongs
    <3>3. result[c] = None
      BY ConstantsAssumption DEF ConstantsAssumption, Answers, WithCaller
    <3>4. AtServer' BY <3>2, <3>3 DEF Answers, AtServer, Belongs, TypeOK
    <3>5. InStream' BY <3>2 DEF Answers, InStream, IsResponse
    <3>6. InHand' BY <3>2 DEF Answers, InHand, IsResponse
    <3>7. WithCaller' BY DEF Answers, WithCaller, TypeOK
    <3> QED BY <3>4, <3>5, <3>6, <3>7 DEF Answers
  <2>4. Cancels' BY DEF Cancels
  <2>5. Panics' BY DEF Panics
  <2>6. Offers' BY DEF Offers
  <2> QED BY <2>1, <2>2, <2>3, <2>4, <2>5, <2>6
<1>2. CASE TransmitFails(c)
  <2> USE <1>2 DEF TransmitFails
  <2>1. TypeOK' BY DEF TypeOK
  <2>2. Registered' BY RegisteredFrame DEF TypeOK
  <2>3. Answers'
    <3>1. \A d \in Calls : tx[d] = "delivered" => tx'[d] = "delivered"
      BY DEF TypeOK
    <3>2. ASSUME NEW m, Belongs(m) PROVE Belongs(m)'
      BY <3>1, <3>2 DEF Belongs
    <3>4. AtServer' BY <3>2 DEF Answers, AtServer
    <3>5. InStream' BY <3>2 DEF Answers, InStream, IsResponse
    <3>6. InHand' BY <3>2 DEF Answers, InHand, IsResponse
    <3>7. WithCaller' BY <3>1 DEF Answers, WithCaller
    <3> QED BY <3>4, <3>5, <3>6, <3>7 DEF Answers
  <2>4. Cancels' BY DEF Cancels
  <2>5. Panics' BY DEF Panics
  <2>6. Offers' BY DEF Offers
  <2> QED BY <2>1, <2>2, <2>3, <2>4, <2>5, <2>6
<1> QED BY <1>1, <1>2

\* The steps of a call between Send and its return move no answer.
LEMMA CallStepIInv ==
  ASSUME IInv, NEW c \in Calls, CallStep(c) \/ CancelContext(c)
  PROVE  IInv'
<1> USE DEF IInv, loopVars, lifeVars, peerVars, ReturnError, logError, ErrsClosed
<1>1. CASE SendReturns(c)
  <2> USE <1>1 DEF SendReturns
  <2>1. TypeOK' BY DEF TypeOK, InCall
  <2>2. Registered' BY RegisteredFrame DEF TypeOK
  <2>3. Answers' BY AnswersFrame DEF TypeOK
  <2>4. Cancels' BY CancelsFrame DEF TypeOK
  <2> QED BY <2>1, <2>2, <2>3, <2>4 DEF Panics, Offers
<1>2. CASE SendFails(c) \/ TimesOut(c)
  <2> USE <1>2 DEF SendFails, TimesOut
  <2>0. panicked' \in BOOLEAN BY ZenonT(30) DEF TypeOK
  <2>1. TypeOK' BY <2>0 DEF TypeOK, InCall, Returned, Failed
  <2>2. Registered' BY RegisteredFrame DEF TypeOK
  <2>3. Answers' BY AnswersFrame DEF TypeOK
  <2>4. Cancels' BY CancelsFrame DEF TypeOK
  <2> QED BY ZenonT(30), <2>1, <2>2, <2>3, <2>4 DEF Panics, Offers
<1>3. CASE CancelContext(c)
  <2> USE <1>3 DEF CancelContext
  <2>1. TypeOK' BY DEF TypeOK
  <2>2. Registered' BY RegisteredFrame
  <2>3. Answers' BY AnswersFrame
  <2>4. Cancels' BY CancelsFrame DEF TypeOK
  <2> QED BY <2>1, <2>2, <2>3, <2>4 DEF Panics, Offers
<1>4. CASE SeesCancel(c)
  <2> USE <1>4 DEF SeesCancel
  <2>1. TypeOK' BY DEF TypeOK, InCall
  <2>2. Registered' BY RegisteredFrame DEF TypeOK
  <2>3. Answers' BY AnswersFrame DEF TypeOK
  <2>4. Cancels' BY DEF TypeOK, Cancels
  <2> QED BY <2>1, <2>2, <2>3, <2>4 DEF Panics, Offers
<1>5. CASE CancelReturns(c)
  <2> USE <1>5 DEF CancelReturns
  <2>0. reqId[c] \in ReqIDs /\ clientRequests[reqId[c]] = c
    BY DEF TypeOK, Registered
  <2>5. panicked' \in BOOLEAN BY ZenonT(30) DEF TypeOK
  <2>1. TypeOK' BY <2>0, <2>5 DEF TypeOK, Returned, Failed
  <2>2. Registered' BY RegisteredFrame DEF TypeOK
  <2>3. Answers' BY AnswersFrame DEF TypeOK
  <2>4. Cancels' BY <2>0, ConstantsAssumption DEF ConstantsAssumption, TypeOK, Cancels
  <2> QED BY ZenonT(30), <2>1, <2>2, <2>3, <2>4 DEF Panics, Offers
<1> QED BY <1>1, <1>2, <1>3, <1>4, <1>5 DEF CallStep

\* The server's messages go to the end of the stream; an answer leaves the
\* server as it enters the stream.
LEMMA PeerIInv ==
  ASSUME IInv,
         \/ \E r \in server : PeerReply(r)
         \/ \E k \in Pushes, id \in PeerIDs : PeerPush(k, id)
  PROVE  IInv'
<1> USE DEF IInv, callVars, loopVars, lifeVars
<1>1. ASSUME NEW r \in server, PeerReply(r) PROVE IInv'
  <2>0. /\ server' = server \ {r}
        /\ UNCHANGED <<reqId, tx, result, pc, loop, cur>>
    BY <1>1 DEF PeerReply
  <2>1. /\ r.id \in ReqIDs /\ r.body \in Calls
        /\ Response(r) \in Messages /\ IsResponse(Response(r))
        /\ Response(r).body = r.body /\ Response(r).id = r.id
    BY DEF TypeOK, Response, Messages, IsResponse
  <2>2. TypeOK' BY <1>1, <2>1 DEF PeerReply, TypeOK
  <2>3. /\ Len(inbox') = Len(inbox) + 1
        /\ \A i \in 1..Len(inbox) : inbox'[i] = inbox[i]
        /\ inbox'[Len(inbox) + 1] = Response(r)
        /\ Len(inbox) \in Nat
    BY <1>1, <2>1 DEF PeerReply, TypeOK
  <2>4. \A q \in server' : q.body # r.body
    <3> SUFFICES ASSUME NEW q \in server, q # r, q.body = r.body PROVE FALSE
      BY <2>0
    <3>1. q.id = r.id BY DEF Answers, AtServer, Belongs
    <3> QED BY <3>1 DEF TypeOK
  <2>5. ASSUME NEW m, Belongs(m) PROVE Belongs(m)'
    BY <2>0, <2>5 DEF Belongs
  <2>6. AtServer' BY <2>0, <2>5 DEF Answers, AtServer
  <2>7. Belongs(r) BY DEF Answers, AtServer
  <2>8. InStream'
    <3> SUFFICES ASSUME NEW i \in 1..Len(inbox')
                 PROVE  (/\ IsResponse(inbox[i]) =>
                              /\ Belongs(inbox[i])
                              /\ \A q \in server : q.body # inbox[i].body
                              /\ \A j \in 1..Len(inbox) :
                                   IsResponse(inbox[j]) /\ inbox[j].body = inbox[i].body => i = j
                         /\ ~IsResponse(inbox[i]) => inbox[i].id \in PeerIDs)'
      BY DEF InStream
    <3>1. CASE i \in 1..Len(inbox)
      <4>1. inbox'[i] = inbox[i] BY <3>1, <2>3
      <4>2. ~IsResponse(inbox[i]) => inbox[i].id \in PeerIDs BY <3>1 DEF Answers, InStream
      <4> SUFFICES ASSUME IsResponse(inbox[i])
                   PROVE  /\ Belongs(inbox[i])'
                          /\ \A q \in server' : q.body # inbox[i].body
                          /\ \A j \in 1..Len(inbox') :
                               IsResponse(inbox'[j]) /\ inbox'[j].body = inbox[i].body => i = j
        BY <4>1, <4>2 DEF IsResponse
      <4>3. /\ Belongs(inbox[i])
            /\ \A q \in server : q.body # inbox[i].body
            /\ \A j \in 1..Len(inbox) :
                 IsResponse(inbox[j]) /\ inbox[j].body = inbox[i].body => i = j
        BY <3>1 DEF Answers, InStream
      <4>4. Belongs(inbox[i])' BY <2>0, <4>1, <4>3 DEF Belongs
      <4>5. \A j \in 1..Len(inbox') :
              IsResponse(inbox'[j]) /\ inbox'[j].body = inbox[i].body => i = j
        <5> SUFFICES ASSUME NEW j \in 1..Len(inbox'),
                            IsResponse(inbox'[j]) /\ inbox'[j].body = inbox[i].body
                     PROVE  i = j
          OBVIOUS
        <5>1. CASE j \in 1..Len(inbox) BY <5>1, <2>3, <4>3
        <5>2. CASE j = Len(inbox) + 1 BY <5>2, <2>1, <2>3, <4>3
        <5> QED BY <5>1, <5>2, <2>3
      <4> QED BY <2>0, <4>3, <4>4, <4>5
    <3>2. CASE i = Len(inbox) + 1
      <4>0. inbox'[i] = Response(r) BY <3>2, <2>3
      <4>1. Belongs(inbox[i])' BY <4>0, <2>0, <2>1, <2>7 DEF Belongs
      <4>2. \A q \in server' : q.body # inbox'[i].body BY <4>0, <2>1, <2>4
      <4>3. \A j \in 1..Len(inbox') :
              IsResponse(inbox'[j]) /\ inbox'[j].body = inbox'[i].body => i = j
        <5> SUFFICES ASSUME NEW j \in 1..Len(inbox),
                            IsResponse(inbox[j]), inbox[j].body = r.body
                     PROVE  FALSE
          BY <4>0, <3>2, <2>1, <2>3
        <5> QED BY DEF Answers, InStream
      <4> QED BY <4>0, <4>1, <4>2, <4>3, <2>1
    <3> QED BY <3>1, <3>2, <2>3
  <2>9. InHand'
    <3> SUFFICES ASSUME loop = "deliver" PROVE InHand'
      BY <2>0 DEF InHand
    <3>1. /\ IsResponse(cur) /\ Belongs(cur)
          /\ \A q \in server : q.body # cur.body
          /\ \A j \in 1..Len(inbox) : IsResponse(inbox[j]) => inbox[j].body # cur.body
      BY DEF Answers, InHand
    <3>2. \A j \in 1..Len(inbox') : IsResponse(inbox'[j]) => inbox'[j].body # cur.body
      <4> TAKE j \in 1..Len(inbox')
      <4>1. CASE j \in 1..Len(inbox) BY <4>1, <3>1, <2>3
      <4>2. CASE j = Len(inbox) + 1 BY <4>2, <3>1, <2>1, <2>3
      <4> QED BY <4>1, <4>2, <2>3
    <3> QED BY <2>0, <2>5, <3>1, <3>2 DEF InHand, IsResponse
  <2>10. WithCaller' BY <2>0 DEF Answers, WithCaller
  <2> QED BY <1>1, <2>2, <2>3, <2>6, <2>8, <2>9, <2>10
          DEF PeerReply, Answers, Registered, Cancels, Panics, Offers
<1>2. ASSUME NEW k \in Pushes, NEW id \in PeerIDs, PeerPush(k, id) PROVE IInv'
  <2>0. UNCHANGED <<server, reqId, tx, result, pc, loop, cur>> BY <1>2 DEF PeerPush
  <2>1. /\ Push(k, id) \in Messages /\ ~IsResponse(Push(k, id))
        /\ Push(k, id).id = id
    BY ConstantsAssumption DEF ConstantsAssumption, Push, Messages, IsResponse, PushKinds
  <2>2. TypeOK'
    <3>1. pushed \in 0..MaxPushed /\ pushed' = pushed + 1 /\ pushed < MaxPushed
          /\ inbox \in Seq(Messages) /\ inbox' = Append(inbox, Push(k, id))
      BY ZenonT(30), <1>2 DEF PeerPush, TypeOK
    <3>2. pushed' \in 0..MaxPushed /\ inbox' \in Seq(Messages)
      BY ONLY <2>1, <3>1, ConstantsAssumption DEF ConstantsAssumption
    <3> QED
      BY SMTT(30), <1>2, <3>2 DEF PeerPush, TypeOK
  <2>3. /\ Len(inbox') = Len(inbox) + 1
        /\ \A i \in 1..Len(inbox) : inbox'[i] = inbox[i]
        /\ inbox'[Len(inbox) + 1] = Push(k, id)
        /\ Len(inbox) \in Nat
    <3>1. inbox \in Seq(Messages) /\ inbox' = Append(inbox, Push(k, id))
      BY ZenonT(30), <1>2 DEF PeerPush, TypeOK
    <3> QED
      BY ONLY <2>1, <3>1
  <2>5. ASSUME NEW m, Belongs(m) PROVE Belongs(m)'
    BY <2>0, <2>5 DEF Belongs
  <2>6. AtServer' BY <2>0, <2>5 DEF Answers, AtServer
  <2>7. \A i \in 1..Len(inbox') :
          IsResponse(inbox'[i]) => i \in 1..Len(inbox) /\ inbox'[i] = inbox[i]
    <3> TAKE i \in 1..Len(inbox')
    <3>1. CASE i \in 1..Len(inbox) BY <3>1, <2>3
    <3>2. CASE i = Len(inbox) + 1 BY <3>2, <2>1, <2>3 DEF IsResponse
    <3> QED BY <3>1, <3>2, <2>3
  <2>8. InStream'
    <3> SUFFICES ASSUME NEW i \in 1..Len(inbox')
                 PROVE  (/\ IsResponse(inbox[i]) =>
                              /\ Belongs(inbox[i])
                              /\ \A q \in server : q.body # inbox[i].body
                              /\ \A j \in 1..Len(inbox) :
                                   IsResponse(inbox[j]) /\ inbox[j].body = inbox[i].body => i = j
                         /\ ~IsResponse(inbox[i]) => inbox[i].id \in PeerIDs)'
      BY DEF InStream
    <3>1. CASE i \in 1..Len(inbox) /\ inbox'[i] = inbox[i]
      <4>1. /\ IsResponse(inbox[i]) =>
                 /\ Belongs(inbox[i])
                 /\ \A q \in server : q.body # inbox[i].body
                 /\ \A j \in 1..Len(inbox) :
                      IsResponse(inbox[j]) /\ inbox[j].body = inbox[i].body => i = j
            /\ ~IsResponse(inbox[i]) => inbox[i].id \in PeerIDs
        BY <3>1 DEF Answers, InStream
      <4>2. IsResponse(inbox[i]) => Belongs(inbox[i])' BY <2>0, <3>1, <4>1 DEF Belongs
      <4> QED BY <2>0, <2>7, <3>1, <4>1, <4>2 DEF IsResponse
    <3>2. CASE i = Len(inbox) + 1 BY <3>2, <2>1, <2>3 DEF IsResponse
    <3> QED BY SMTT(30), <3>1, <3>2, <2>3
  <2>9. InHand' BY <2>0, <2>5, <2>7 DEF Answers, InHand, IsResponse
  <2>10. WithCaller' BY <2>0 DEF Answers, WithCaller
  <2>11. Registered' /\ Cancels' /\ Panics'
    BY ZenonT(30), <1>2 DEF PeerPush, Registered, Cancels, Panics
  <2>12. Offers' BY <2>3 DEF Offers
  <2> QED BY ZenonT(30), <2>2, <2>6, <2>8, <2>9, <2>10, <2>11, <2>12 DEF Answers
<1> QED BY <1>1, <1>2

\* listenMessages takes the head of the stream: a response passes from the
\* stream into its hands.
LEMMA ReceiveMsgIInv ==
  ASSUME IInv, ReceiveMsg
  PROVE  IInv'
<1> DEFINE m == Head(inbox)
<1> USE DEF IInv, callVars, ReceiveMsg
<1>1. /\ inbox # <<>> /\ Len(inbox) \in Nat \ {0}
      /\ m = inbox[1] /\ m \in Messages
      /\ inbox' \in Seq(Messages)
      /\ Len(inbox') = Len(inbox) - 1
      /\ \A i \in 1..Len(inbox') : inbox'[i] = inbox[i + 1]
  BY DEF TypeOK, Offers
<1>2. IsResponse(m) => /\ Belongs(m) /\ m.id \in ReqIDs
                       /\ clientRequests[m.id] = m.body
  <2> SUFFICES ASSUME IsResponse(m) PROVE Belongs(m) /\ m.id \in ReqIDs /\ clientRequests[m.id] = m.body
    OBVIOUS
  <2>1. Belongs(m) BY <1>1 DEF Answers, InStream
  <2>2. m.id \in ReqIDs
    BY SMTT(30), <2>1, ConstantsAssumption DEF ConstantsAssumption, Belongs, TypeOK, Registered
  <2> QED BY <2>1, <2>2, ConstantsAssumption DEF ConstantsAssumption, Belongs, Registered
<1>3. ~IsResponse(m) => m.id \in PeerIDs
  BY <1>1 DEF Answers, InStream
<1>4. /\ loop' \in {"send", "user", "ack", "ackErr", "deliver", "reject"}
      /\ loop' = "deliver" => IsResponse(m)
      /\ serverRequests' \in {serverRequests, serverRequests \cup {RegisteredKey(m.id)}}
      /\ serverRequests' # serverRequests => ~IsResponse(m)
  BY DEF handleMsg, handleUserRequest, handleNotificationsCancelled, handleResultMessages,
         handleMalformed, IsResponse
<1>5. panicked' \in BOOLEAN /\ (panicked' => panicked \/ ErrsClosed)
  <2>1. CancelKey(m.id) \notin serverRequests
    BY DEF Panics, CancelKey, Key
  <2>2. ASSUME handleNotificationsCancelled(m) PROVE panicked' \in BOOLEAN /\ ~panicked'
    <3>1. panicked' = (CancelKey(m.id) \in serverRequests)
      BY <2>2 DEF handleNotificationsCancelled
    <3>2. panicked' \in BOOLEAN BY ONLY <3>1
    <3>3. ~panicked' BY ONLY ZenonT(30), <3>1, <2>1
    <3> QED BY <3>2, <3>3
  <2>3. ASSUME handleMalformed PROVE panicked' \in BOOLEAN /\ (panicked' => ErrsClosed)
    <3>1. panicked' = ErrsClosed
      BY <2>3 DEF handleMalformed, logError
    <3>2. panicked' \in BOOLEAN BY ONLY <3>1 DEF ErrsClosed
    <3>3. panicked' => ErrsClosed BY ONLY <3>1
    <3> QED BY <3>2, <3>3
  <2>4. ~handleNotificationsCancelled(m) /\ ~handleMalformed => panicked' = panicked
    BY DEF handleMsg, handleUserRequest, handleResultMessages
  <2> QED BY <2>2, <2>3, <2>4 DEF TypeOK
<1>6. TypeOK'
  <2>1. serverRequests' \subseteq {"MustString", "string"} \X PeerIDs
    BY <1>3, <1>4 DEF TypeOK, RegisteredKey, Key
  <2> QED BY SMTT(30), <2>1, <1>1, <1>4, <1>5 DEF TypeOK
<1>7. Registered' BY RegisteredFrame
<1>8. Answers'
  <2>1. \A x : Belongs(x) => Belongs(x)'
    BY DEF Belongs
  <2>2. AtServer' BY <2>1 DEF Answers, AtServer
  <2>3. InStream'
    <3>1. ASSUME NEW i \in 1..Len(inbox')
          PROVE  i + 1 \in 1..Len(inbox) /\ inbox'[i] = inbox[i + 1]
      BY <1>1
    <3>2. ASSUME NEW i \in 1..Len(inbox'), IsResponse(inbox'[i])
          PROVE  Belongs(inbox[i])' /\ \A r \in server' : r.body # inbox'[i].body
      <4>1. Belongs(inbox[i + 1]) /\ \A r \in server : r.body # inbox[i + 1].body
        BY <3>1, <3>2 DEF Answers, InStream
      <4>2. server' = server OBVIOUS
      <4>3. \A r \in server' : r.body # inbox'[i].body BY ONLY <3>1, <4>1, <4>2
      <4>4. Belongs(inbox[i])' BY <3>1, <4>1 DEF Belongs
      <4> QED BY <4>3, <4>4
    <3>3. ASSUME NEW i \in 1..Len(inbox'), NEW j \in 1..Len(inbox'),
                 IsResponse(inbox'[i]), IsResponse(inbox'[j]), inbox'[j].body = inbox'[i].body
          PROVE  i = j
      <4>1. i + 1 = j + 1 BY <3>1, <3>3 DEF Answers, InStream
      <4> QED BY ONLY <4>1, <1>1, i \in 1..Len(inbox'), j \in 1..Len(inbox')
    <3>4. ASSUME NEW i \in 1..Len(inbox'), ~IsResponse(inbox'[i])
          PROVE  inbox'[i].id \in PeerIDs
      BY <3>1, <3>4 DEF Answers, InStream
    <3> QED BY ONLY <3>2, <3>3, <3>4 DEF InStream, IsResponse, Belongs
  <2>4. InHand'
    <3> SUFFICES ASSUME IsResponse(m)
                 PROVE  /\ \A r \in server : r.body # m.body
                        /\ \A j \in 1..Len(inbox') : IsResponse(inbox'[j]) => inbox'[j].body # m.body
      BY <1>1, <1>2, <1>4, <2>1 DEF InHand, IsResponse, Belongs
    <3>1. \A r \in server : r.body # m.body BY SMTT(30), <1>1 DEF Answers, InStream
    <3>2. \A j \in 1..Len(inbox') : IsResponse(inbox'[j]) => inbox'[j].body # m.body
      BY <1>1 DEF Answers, InStream
    <3> QED BY <3>1, <3>2
  <2>5. WithCaller' BY DEF Answers, WithCaller
  <2> QED BY <2>2, <2>3, <2>4, <2>5 DEF Answers
<1>9. Cancels' BY DEF Cancels
<1>10. Panics'
  BY <1>4, <1>5 DEF Panics, ErrsClosed, RegisteredKey, Key
<1>11. Offers' BY DEF Offers
<1> QED BY <1>6, <1>7, <1>8, <1>9, <1>10, <1>11

\* The answer in the hands of listenMessages is for the call that takes it.
LEMMA DeliverIInv ==
  ASSUME IInv, NEW c \in Calls, DeliverResult(c)
  PROVE  IInv'
<1> USE DEF IInv, peerVars, DeliverResult
<1>1. cur.body = c /\ Belongs(cur) /\ IsResponse(cur)
  BY ConstantsAssumption DEF ConstantsAssumption, Answers, InHand, Belongs, TypeOK, Registered
<1>2. TypeOK'
  <2>1. panicked' \in BOOLEAN BY ZenonT(30) DEF TypeOK, ErrsClosed
  <2> QED BY <1>1, <2>1 DEF TypeOK, Returned
<1>3. Registered' BY RegisteredFrame DEF TypeOK
<1>4. Answers'
  <2>1. ASSUME NEW m, Belongs(m), m.body # c PROVE Belongs(m)'
    BY <2>1 DEF Belongs, TypeOK
  <2>2. AtServer' BY <1>1, <2>1 DEF Answers, AtServer, InHand
  <2>3. InStream' BY <1>1, <2>1 DEF Answers, InStream, InHand, IsResponse
  <2>4. InHand' BY DEF InHand
  <2>5. WithCaller'
    <3>1. /\ pc' = [pc EXCEPT ![c] = "result"] /\ result' = [result EXCEPT ![c] = c]
          /\ UNCHANGED tx /\ tx[c] = "delivered"
      BY <1>1 DEF Belongs
    <3>2. pc'[c] = "result" /\ result'[c] = c /\ tx'[c] = "delivered" /\ c # None
      BY <3>1, ConstantsAssumption DEF ConstantsAssumption, TypeOK
    <3>3. \A d \in Calls : d # c => pc'[d] = pc[d] /\ result'[d] = result[d] /\ tx'[d] = tx[d]
      BY <3>1 DEF TypeOK
    <3>4. WithCaller
      BY DEF Answers
    <3> QED BY ONLY ZenonT(30), <3>2, <3>3, <3>4 DEF WithCaller
  <2> QED BY <2>2, <2>3, <2>4, <2>5 DEF Answers
<1>5. Cancels' BY SMTT(30), CancelsFrame DEF TypeOK
<1>6. Panics' BY ZenonT(30) DEF Panics, ErrsClosed
<1>7. Offers' BY DEF Offers
<1> QED BY <1>2, <1>3, <1>4, <1>5, <1>6, <1>7

\* The other steps of listenMessages and the steps of the transport goroutine
\* touch no call.
LEMMA LoopIInv ==
  ASSUME IInv,
         \/ ReaderRead \/ UserReturns \/ LoopSends \/ LoopSendFails
         \/ Ack \/ AckErr \/ Reject \/ LoopStops \/ LoopReadsZeroMsg
  PROVE  IInv'
<1> USE DEF IInv, callVars, peerVars, lifeVars
<1>0. panicked \in BOOLEAN /\ (panicked => closing # "open")
  BY DEF TypeOK, Panics
<1> DEFINE Quiet ==
      /\ UNCHANGED <<callVars, peerVars, serverRequests, closing>>
      /\ loop' = "deliver" => UNCHANGED <<loop, cur>>
      /\ loop' \in {loop, "ack", "send", "ackErr", "recv", "stopped", "nilErrs"}
      /\ reader' \in {reader, "offer", "read", "stopped"}
      /\ reader' = "offer" => reader = "offer" \/ inbox # <<>>
      /\ cur' \in {cur, None} /\ nested' \in {nested, None}
      /\ UNCHANGED <<connect, pinger, rooter>>
      /\ panicked' \in BOOLEAN /\ (panicked' => closing # "open")
<1>1. Quiet
  <2>1. ASSUME ReaderRead PROVE Quiet
    BY <1>0, <2>1 DEF ReaderRead, logError, transportLogError, ErrsClosed, MessagesClosed
  <2>2. ASSUME UserReturns PROVE Quiet
    BY <1>0, <2>2 DEF UserReturns, logError, transportLogError, ErrsClosed, MessagesClosed
  <2>3. ASSUME LoopSends PROVE Quiet
    BY <1>0, <2>3 DEF LoopSends, logError, transportLogError, ErrsClosed, MessagesClosed
  <2>4. ASSUME LoopSendFails PROVE Quiet
    BY <1>0, <2>4 DEF LoopSendFails, logError, transportLogError, ErrsClosed, MessagesClosed
  <2>5. ASSUME Ack PROVE Quiet
    BY <1>0, <2>5 DEF Ack, logError, transportLogError, ErrsClosed, MessagesClosed
  <2>6. ASSUME AckErr PROVE Quiet
    BY <1>0, <2>6 DEF AckErr, logError, transportLogError, ErrsClosed, MessagesClosed
  <2>7. ASSUME Reject PROVE Quiet
    BY <1>0, <2>7 DEF Reject, logError, transportLogError, ErrsClosed, MessagesClosed
  <2>8. ASSUME LoopStops PROVE Quiet
    BY <1>0, <2>8 DEF LoopStops, logError, transportLogError, ErrsClosed, MessagesClosed
  <2>9. ASSUME LoopReadsZeroMsg PROVE Quiet
    BY <1>0, <2>9 DEF LoopReadsZeroMsg, logError, transportLogError, ErrsClosed, MessagesClosed
  <2> HIDE DEF Quiet
  <2> QED BY <2>1, <2>2, <2>3, <2>4, <2>5, <2>6, <2>7, <2>8, <2>9
<1>4. TypeOK' BY SMTT(30), <1>1 DEF TypeOK
<1>5. Registered' BY ZenonT(30), <1>1, RegisteredFrame
<1>6. Answers' BY <1>1, AnswersFrame
<1>7. Cancels' BY <1>1 DEF Cancels
<1>8. Panics' BY <1>1 DEF Panics
<1>9. Offers' BY <1>1 DEF Offers
<1> QED BY <1>4, <1>5, <1>6, <1>7, <1>8, <1>9

\* Connect, Close and the two other background goroutines touch no message.
LEMMA LifeIInv ==
  ASSUME IInv,
         \/ StartGoroutines \/ SetSessionID \/ CloseStep \/ PingerStops
         \/ RootsListUpdate \/ RootsStep
  PROVE  IInv'
<1> USE DEF IInv, callVars, peerVars, loopVars
<1>0. panicked \in BOOLEAN /\ (panicked => closing # "open")
  BY DEF TypeOK, Panics
<1> DEFINE Quiet ==
      /\ UNCHANGED <<callVars, peerVars, reader, cur, nested, serverRequests>>
      /\ loop' \in {loop, "recv"}
      /\ connect' \in {connect, "started", "set"}
      /\ pinger' \in {pinger, "run", "stopped"}
      /\ rooter' \in {rooter, "send", "run", "stopped"}
      /\ closing' \in {closing, "errs", "chan", "closed"}
      /\ panicked' \in BOOLEAN /\ (panicked' => closing' # "open")
<1>1. Quiet
  <2>1. ASSUME StartGoroutines PROVE Quiet
    BY <1>0, <2>1 DEF StartGoroutines, logError, ErrsClosed
  <2>2. ASSUME SetSessionID PROVE Quiet
    BY <1>0, <2>2 DEF SetSessionID, logError, ErrsClosed
  <2>3. ASSUME CloseStep PROVE Quiet
    <3>1. ASSUME CloseErrs PROVE Quiet
      BY <1>0, <3>1 DEF CloseErrs, logError, ErrsClosed
    <3>2. ASSUME CloseCloseChan PROVE Quiet
      BY <1>0, <3>2 DEF CloseCloseChan, logError, ErrsClosed
    <3>3. ASSUME CloseTransport PROVE Quiet
      BY <1>0, <3>3 DEF CloseTransport, logError, ErrsClosed
    <3> HIDE DEF Quiet
    <3> QED BY <2>3, <3>1, <3>2, <3>3 DEF CloseStep
  <2>4. ASSUME PingerStops PROVE Quiet
    BY <1>0, <2>4 DEF PingerStops, logError, ErrsClosed
  <2>5. ASSUME RootsListUpdate PROVE Quiet
    BY <1>0, <2>5 DEF RootsListUpdate, logError, ErrsClosed
  <2>6. ASSUME RootsStep PROVE Quiet
    <3>1. ASSUME RootsNotified PROVE Quiet
      BY <1>0, <3>1 DEF RootsNotified, logError, ErrsClosed
    <3>2. ASSUME RootsNotifyFails PROVE Quiet
      BY <1>0, <3>2 DEF RootsNotifyFails, logError, ErrsClosed
    <3>3. ASSUME RooterStops PROVE Quiet
      BY <1>0, <3>3 DEF RooterStops, logError, ErrsClosed
    <3> HIDE DEF Quiet
    <3> QED BY <2>6, <3>1, <3>2, <3>3 DEF RootsStep
  <2> HIDE DEF Quiet
  <2> QED BY <2>1, <2>2, <2>3, <2>4, <2>5, <2>6
<1>4. TypeOK' BY SMTT(30), <1>1 DEF TypeOK
<1>5. Registered' BY ZenonT(30), <1>1, RegisteredFrame
<1>6. Answers' BY <1>1, AnswersFrame
<1>7. Cancels' BY <1>1 DEF Cancels
<1>8. Panics' BY <1>1 DEF Panics
<1>9. Offers' BY <1>1 DEF Offers
<1> QED BY SMTT(30), <1>4, <1>5, <1>6, <1>7, <1>8, <1>9

-----------------------------------------------------------------------------
\* Every step preserves the invariant.
LEMMA NextIInv == IInv /\ [Next]_vars => IInv'
<1> SUFFICES ASSUME IInv, [Next]_vars PROVE IInv'
  BY SMTT(30)
<1>1. CASE UNCHANGED vars
  <2> USE <1>1 DEF IInv, vars, callVars, peerVars, loopVars, lifeVars
  <2>1. TypeOK' BY SMTT(30) DEF TypeOK
  <2>2. Registered' BY RegisteredFrame
  <2>3. Answers' BY AnswersFrame
  <2>4. Cancels' BY DEF Cancels
  <2>5. Panics' /\ Offers' BY DEF Panics, Offers
  <2> QED BY <2>1, <2>2, <2>3, <2>4, <2>5
<1>2. CASE \E c \in Calls : ApiCall(c) \/ PingCall(c) \/ NestedCall(c)
  <2>1. PICK c \in Calls : ApiCall(c) \/ PingCall(c) \/ NestedCall(c) BY <1>2
  <2>2. /\ sendRequest(c)
        /\ UNCHANGED <<peerVars, lifeVars, reader, loop, cur, serverRequests>>
        /\ nested' \in Calls \cup {None}
    BY <2>1 DEF ApiCall, PingCall, NestedCall, loopVars, IInv, TypeOK
  <2> QED BY <2>2, SendRequestIInv
<1>3. CASE \E c \in Calls : Transmit(c) \/ TransmitFails(c)
  BY <1>3, TransmitIInv
<1>4. CASE \E c \in Calls : CallStep(c) \/ CancelContext(c)
  BY <1>4, CallStepIInv
<1>5. CASE \/ \E r \in server : PeerReply(r)
           \/ \E k \in Pushes, id \in PeerIDs : PeerPush(k, id)
  BY <1>5, PeerIInv
<1>6. CASE ReaderRead \/ LoopStep
  BY <1>6, ReceiveMsgIInv, DeliverIInv, LoopIInv DEF LoopStep
<1>7. CASE \/ StartGoroutines \/ SetSessionID \/ CloseStep \/ PingerStops
           \/ RootsListUpdate \/ RootsStep
  BY <1>7, LifeIInv
<1> QED BY <1>1, <1>2, <1>3, <1>4, <1>5, <1>6, <1>7 DEF Next

\* What IInv says of each property.
LEMMA IInvImplies ==
  IInv => TypeOK /\ OwnAnswer /\ NoSecondDelivery /\ CancelsOnlyCancelled /\ NoPanicWhileOpen
<1> SUFFICES ASSUME IInv PROVE OwnAnswer /\ NoSecondDelivery /\ CancelsOnlyCancelled /\ NoPanicWhileOpen
  BY DEF IInv
<1>1. OwnAnswer BY DEF IInv, Answers, WithCaller, OwnAnswer
<1>2. NoSecondDelivery
  <2> SUFFICES ASSUME loop = "deliver" PROVE pc[clientRequests[cur.id]] \in InCall \cup Failed
    BY DEF NoSecondDelivery
  <2>1. Belongs(cur) BY DEF IInv, Answers, InHand
  <2>2. clientRequests[cur.id] = cur.body /\ pc[cur.body] # "idle"
    BY <2>1, ConstantsAssumption DEF ConstantsAssumption, IInv, TypeOK, Registered, Belongs
  <2>3. pc[cur.body] # "result"
    BY ZenonT(30), <2>1, ConstantsAssumption DEF ConstantsAssumption, IInv, Answers, WithCaller, Belongs
  <2> QED BY <2>1, <2>2, <2>3 DEF IInv, TypeOK, Belongs, Returned
<1>3. CancelsOnlyCancelled BY DEF IInv, TypeOK, Cancels, CancelsOnlyCancelled
<1>4. NoPanicWhileOpen BY DEF IInv, Panics, NoPanicWhileOpen
<1> QED BY <1>1, <1>2, <1>3, <1>4

\* The inductive invariant is one.
THEOREM Inductive == Spec => []IInv
BY InitIInv, NextIInv, PTL DEF Spec

\* The state keeps its type.
THEOREM TypeCorrect == Spec => []TypeOK
BY Inductive, IInvImplies, PTL

\* sendRequest returns the response to its own request or none at all,
\* whatever the timeouts, cancellations and reorderings.
THEOREM OwnAnswerHolds == Spec => []OwnAnswer
BY Inductive, IInvImplies, PTL

\* listenMessages never waits in handleResultMessages for a call that already
\* has its answer.
THEOREM NoSecondDeliveryHolds == Spec => []NoSecondDelivery
BY Inductive, IInvImplies, PTL

\* Only a call whose context was cancelled, and which returned that, is ever
\* reported as cancelled to the server.
THEOREM CancelsOnlyCancelledHolds == Spec => []CancelsOnlyCancelled
BY Inductive, IInvImplies, PTL

\* Nothing the server pushes makes an open client panic.
THEOREM NoPanicWhileOpenHolds == Spec => []NoPanicWhileOpen
BY Inductive, IInvImplies, PTL

\* What the two properties of the loop rest on: listenMessages runs only once
\* Connect has started it.
Verdicts ==
  /\ OneVerdict
  /\ NestedUnanswered
  /\ connect = "new" => loop = "off"

\* Verdicts are given and handlers return in the loop only, and an answer is
\* delivered only by a loop that is not in a handler.
LEMMA VerdictStep ==
  IInv /\ Verdicts /\ [Next]_vars => Verdicts'
<1> SUFFICES ASSUME IInv, Verdicts, [Next]_vars PROVE Verdicts'
  OBVIOUS
<1> USE DEF Verdicts, OneVerdict, NestedUnanswered, peerVars
<1>1. CASE UNCHANGED <<reader, loop, nested, result, connect>>
  BY <1>1
<1>2. ASSUME NEW c \in Calls, NestedCall(c) PROVE Verdicts'
  <2>1. result[c] = None /\ result' = result
    BY <1>2, ConstantsAssumption DEF NestedCall, sendRequest, IInv, Answers, WithCaller, ConstantsAssumption
  <2> QED BY ZenonT(30), <1>2, <2>1 DEF NestedCall, lifeVars
<1>3. CASE ReceiveMsg
  <2>1. loop' \in {"user", "send", "deliver", "ack", "ackErr", "reject"}
    BY <1>3 DEF ReceiveMsg, handleMsg, handleUserRequest, handleMalformed, handleResultMessages,
       handleNotificationsCancelled
  <2> QED BY ZenonT(30), <1>3, <2>1 DEF ReceiveMsg, callVars
<1>4. ASSUME NEW c \in Calls, DeliverResult(c) PROVE Verdicts'
  BY ZenonT(30), <1>4 DEF DeliverResult
<1>5. CASE UserReturns \/ LoopSends \/ LoopSendFails
  BY <1>5 DEF UserReturns, LoopSends, LoopSendFails, callVars, lifeVars
<1>6. CASE Ack \/ AckErr \/ Reject \/ LoopStops \/ LoopReadsZeroMsg
  BY <1>6 DEF Ack, AckErr, Reject, LoopStops, LoopReadsZeroMsg, callVars, lifeVars
<1>7. CASE StartGoroutines \/ SetSessionID \/ ReaderRead
  BY ZenonT(30), <1>7 DEF StartGoroutines, SetSessionID, ReaderRead, loopVars, callVars, lifeVars
<1>8. ASSUME NEW c \in Calls,
             \/ ApiCall(c) \/ PingCall(c) \/ CancelContext(c) \/ Transmit(c) \/ TransmitFails(c) \/ CallStep(c)
      PROVE  UNCHANGED <<reader, loop, nested, result, connect>>
  BY ZenonT(30), <1>8 DEF ApiCall, PingCall, CancelContext, Transmit, TransmitFails, CallStep, sendRequest, SendReturns,
     SendFails, TimesOut, SeesCancel, CancelReturns, ReturnError, loopVars, lifeVars
<1>9. CASE \/ \E r \in server : PeerReply(r)
           \/ \E k \in Pushes, id \in PeerIDs : PeerPush(k, id)
  BY ZenonT(30), <1>1, <1>9 DEF PeerReply, PeerPush, loopVars, callVars, lifeVars
<1>10. CASE CloseStep \/ PingerStops \/ RootsListUpdate \/ RootsStep \/ UNCHANGED vars
  BY ZenonT(30), <1>1, <1>10 DEF CloseStep, CloseErrs, CloseCloseChan, CloseTransport, PingerStops,
     RootsListUpdate, RootsStep, RootsNotified, RootsNotifyFails, RooterStops, loopVars, callVars, lifeVars, vars
<1> QED BY ZenonT(30), <1>1, <1>2, <1>3, <1>4, <1>5, <1>6, <1>7, <1>8, <1>9, <1>10 DEF Next, LoopStep

\* Neither the loop nor the transport is in the middle of a message at first.
LEMMA VerdictInv == Spec => []Verdicts
<1>1. Init => Verdicts
  BY DEF Init, Verdicts, OneVerdict, NestedUnanswered
<1> QED BY <1>1, VerdictStep, Inductive, PTL DEF Spec

\* A message that the transport hands over is in the hands of listenMessages
\* until its one verdict is given, whatever its kind, also while the client is
\* closed.
THEOREM OneVerdictHolds == Spec => []OneVerdict
BY VerdictInv, PTL DEF Verdicts

\* A handler that calls the client back from inside the loop never sees an
\* answer, for any calls and messages: the loop that would deliver it is the
\* one that waits.
THEOREM NestedUnansweredHolds == Spec => []NestedUnanswered
BY VerdictInv, PTL DEF Verdicts

\* A step that leaves tx and the server alone, and moves no call between the
\* four statuses, is a stutter of RPC.
LEMMA Stutter ==
  ASSUME UNCHANGED <<tx, server, result>>,
         \A c \in Calls : Status(c)' = Status(c)
  PROVE  UNCHANGED Abstract!vars
  BY DEF Abstract!vars, Executed

\* One call changes its status, and that is a step of RPC.
LEMMA StatusStep ==
  ASSUME IInv, NEW c \in Calls, NEW s,
         UNCHANGED <<tx, server>>, pc' = [pc EXCEPT ![c] = s]
  PROVE  /\ [d \in Calls |-> Status(d)]' = [[d \in Calls |-> Status(d)] EXCEPT ![c] = Status(c)']
         /\ Executed' = Executed
  BY ZenonT(30) DEF Status, Executed, IInv, TypeOK

\* Invoking, and returning with an error.
LEMMA CallsRefine ==
  ASSUME IInv, NEW c \in Calls,
         ApiCall(c) \/ PingCall(c) \/ NestedCall(c) \/ CancelContext(c) \/ CallStep(c)
  PROVE  [Abstract!Next]_(Abstract!vars)
<1> USE DEF peerVars
<1>1. CASE ApiCall(c) \/ PingCall(c) \/ NestedCall(c)
  <2>1. /\ pc[c] = "idle" /\ pc' = [pc EXCEPT ![c] = "sending"]
        /\ tx' = [tx EXCEPT ![c] = "wire"] /\ tx[c] = "none"
        /\ UNCHANGED <<result, server>>
    BY ZenonT(30), <1>1 DEF ApiCall, PingCall, NestedCall, sendRequest, IInv, Registered
  <2>2. Executed' = Executed
    BY <2>1 DEF Executed, IInv, TypeOK
  <2>3. [d \in Calls |-> Status(d)]' = [[d \in Calls |-> Status(d)] EXCEPT ![c] = "pending"]
    BY ZenonT(30), <2>1 DEF Status, InCall, IInv, TypeOK
  <2>4. Abstract!Invoke(c)
    BY <2>1, <2>2, <2>3 DEF Abstract!Invoke, Status
  <2> QED BY <2>4 DEF Abstract!Next
<1>2. CASE CancelContext(c) \/ SendReturns(c) \/ SeesCancel(c)
  <2>1. UNCHANGED <<tx, server, result>>
    BY <1>2 DEF CancelContext, SendReturns, SeesCancel
  <2>2. \A d \in Calls : Status(d)' = Status(d)
    BY <1>2 DEF CancelContext, SendReturns, SeesCancel, Status, InCall, IInv, TypeOK
  <2> QED BY <2>1, <2>2, Stutter
<1>3. CASE SendFails(c) \/ TimesOut(c) \/ CancelReturns(c)
  <2>1. PICK s \in Failed : pc[c] \in InCall /\ pc' = [pc EXCEPT ![c] = s] /\ UNCHANGED <<tx, server, result>>
    BY <1>3 DEF SendFails, TimesOut, CancelReturns, ReturnError, InCall, Failed
  <2>2. pc'[c] = s BY <2>1 DEF IInv, TypeOK
  <2>3. Status(c) = "pending" /\ Status(c)' = "failed"
    BY <2>1, <2>2 DEF Status, InCall, Failed
  <2>4. Abstract!Fail(c)
    BY ZenonT(30), <2>1, <2>3, StatusStep DEF Abstract!Fail
  <2> QED BY <2>4 DEF Abstract!Next
<1> QED BY <1>1, <1>2, <1>3 DEF CallStep

\* A transmission does not execute a call, the server's reply does.
LEMMA ServerRefines ==
  ASSUME IInv,
         \/ \E c \in Calls : Transmit(c) \/ TransmitFails(c)
         \/ \E r \in server : PeerReply(r)
  PROVE  [Abstract!Next]_(Abstract!vars)
<1>1. ASSUME NEW c \in Calls, Transmit(c) \/ TransmitFails(c)
      PROVE  [Abstract!Next]_(Abstract!vars)
  <2>1. Executed' = Executed
    <3>1. CASE Transmit(c)
      <4>1. \A d \in Calls : d # c => tx'[d] = tx[d]
        BY <3>1 DEF Transmit, IInv, TypeOK
      <4>2. c \notin Executed BY ZenonT(30), <3>1 DEF Transmit, Executed
      <4>4. c \notin Executed'
        <5>1. [id |-> reqId[c], body |-> c] \in server' BY <3>1 DEF Transmit
        <5> QED BY ZenonT(30), <5>1 DEF Executed
      <4>3. \A d \in Calls : d # c => (d \in Executed <=> d \in Executed')
        <5>1. server' = server \cup {[id |-> reqId[c], body |-> c]} BY <3>1 DEF Transmit
        <5>2. \A d \in Calls :
                d # c => ((\E q \in server' : q.body = d) <=> (\E q \in server : q.body = d))
          BY <5>1
        <5> QED BY ONLY <4>1, <5>2 DEF Executed
      <4>5. Executed \subseteq Calls /\ Executed' \subseteq Calls BY DEF Executed
      <4> HIDE DEF Executed
      <4>6. \A d \in Calls : d \in Executed <=> d \in Executed' BY ONLY <4>2, <4>3, <4>4
      <4> QED BY ONLY <4>5, <4>6
    <3>2. CASE TransmitFails(c)
      BY <3>2 DEF TransmitFails, Executed, IInv, TypeOK, peerVars
    <3> QED BY <1>1, <3>1, <3>2
  <2>2. UNCHANGED <<pc, result>> BY <1>1 DEF Transmit, TransmitFails
  <2> QED BY <2>1, <2>2 DEF Abstract!vars, Status
<1>2. ASSUME NEW r \in server, PeerReply(r)
      PROVE  [Abstract!Next]_(Abstract!vars)
  <2>1. /\ server' = server \ {r} /\ UNCHANGED <<pc, tx, result, reqId>>
    BY <1>2 DEF PeerReply, callVars
  <2>2. Belongs(r) BY DEF IInv, Answers, AtServer
  <2>3. \A q \in server : q.body = r.body => q = r
    BY DEF IInv, Answers, AtServer, Belongs, TypeOK
  <2>4. r.body \notin Executed /\ Executed' = Executed \cup {r.body}
    BY <2>1, <2>2, <2>3 DEF Executed, Belongs
  <2>5. Status(r.body) \in {"pending", "failed"}
    <3>1. pc[r.body] # "idle" BY <2>2 DEF Belongs, IInv, Registered
    <3>2. pc[r.body] # "result"
      BY <2>2, ConstantsAssumption DEF ConstantsAssumption, Belongs, IInv, Answers, WithCaller
    <3> QED BY <3>1, <3>2 DEF Status
  <2>6. Abstract!Execute(r.body)
    BY ZenonT(30), <2>1, <2>2, <2>4, <2>5 DEF Abstract!Execute, Belongs, Status
  <2> QED BY ZenonT(30), <2>2, <2>6 DEF Abstract!Next, Belongs
<1> QED BY <1>1, <1>2

\* The rendezvous on resChan is the return of the call's own answer.
LEMMA DeliverRefines ==
  ASSUME IInv, NEW c \in Calls, DeliverResult(c)
  PROVE  [Abstract!Next]_(Abstract!vars)
<1> USE DEF DeliverResult
<1>1. cur.body = c /\ Belongs(cur) /\ \A r \in server : r.body # c
  <2>1. Belongs(cur) /\ \A r \in server : r.body # cur.body
    BY DEF IInv, Answers, InHand
  <2>2. cur.body = c
    <3>1. cur.body \in Calls /\ cur.id = reqId[cur.body] BY <2>1 DEF Belongs
    <3>2. cur.id # None
      BY <2>1, <3>1 DEF IInv, Registered, Belongs
    <3> QED BY <3>1, <3>2 DEF IInv, Registered
  <2> QED BY <2>1, <2>2
<1>2. c \in Executed BY <1>1 DEF Executed, Belongs
<1>3. Status(c) = "pending" /\ Status(c)' = "ok"
  BY DEF Status, InCall, IInv, TypeOK
<1>4. UNCHANGED <<tx, server>> BY ZenonT(30) DEF peerVars
<1>5. Abstract!Return(c)
  BY ZenonT(30), <1>1, <1>2, <1>3, <1>4, StatusStep DEF Abstract!Return
<1> QED BY <1>5 DEF Abstract!Next

\* Every step of the client is a step of RPC or a stutter.
LEMMA NextRefines == IInv /\ [Next]_vars => [Abstract!Next]_(Abstract!vars)
<1> SUFFICES ASSUME IInv, [Next]_vars PROVE [Abstract!Next]_(Abstract!vars)
  OBVIOUS
<1>1. CASE UNCHANGED callVars /\ UNCHANGED server
  BY <1>1, Stutter DEF callVars, Status
<1>2. CASE \E c \in Calls : \/ ApiCall(c) \/ PingCall(c) \/ NestedCall(c)
                            \/ CancelContext(c) \/ CallStep(c)
  BY <1>2, CallsRefine
<1>3. CASE \/ \E c \in Calls : Transmit(c) \/ TransmitFails(c)
           \/ \E r \in server : PeerReply(r)
  BY <1>3, ServerRefines
<1>4. CASE \E c \in Calls : DeliverResult(c)
  BY <1>4, DeliverRefines
<1>5. CASE UNCHANGED vars
  BY <1>1, <1>5 DEF vars, callVars, peerVars
<1>6. CASE \/ StartGoroutines \/ SetSessionID
           \/ \E k \in Pushes, id \in PeerIDs : PeerPush(k, id)
           \/ ReaderRead \/ ReceiveMsg \/ UserReturns \/ LoopSends \/ LoopSendFails
           \/ Ack \/ AckErr \/ Reject \/ LoopStops \/ LoopReadsZeroMsg
           \/ CloseStep \/ PingerStops \/ RootsListUpdate \/ RootsStep
  <2>1. UNCHANGED callVars /\ UNCHANGED server
    BY ZenonT(30), <1>6 DEF peerVars, StartGoroutines, SetSessionID, PeerPush, ReaderRead, ReceiveMsg,
         UserReturns, LoopSends, LoopSendFails, Ack, AckErr, Reject, LoopStops,
         LoopReadsZeroMsg, CloseStep, CloseErrs, CloseCloseChan, CloseTransport,
         PingerStops, RootsListUpdate, RootsStep, RootsNotified, RootsNotifyFails, RooterStops
  <2> QED BY <2>1, <1>1
<1> QED BY <1>2, <1>3, <1>4, <1>5, <1>6 DEF Next, LoopStep

\* What the callers of the client see, for any number of calls, is RPC: each
\* call returns at most once, with its own answer or an error, and the server
\* executes it at most once.
THEOREM RefinesRPC == Spec => ImplementsRPC
<1>1. Init => Abstract!Init
  <2> SUFFICES ASSUME Init PROVE Abstract!Init
    OBVIOUS
  <2>1. \A c \in Calls : Status(c) = "idle" BY ZenonT(30) DEF Init, Status
  <2>2. Executed = {} BY DEF Init, Executed
  <2> QED BY <2>1, <2>2 DEF Init, Abstract!Init
<1> QED BY <1>1, Inductive, NextRefines, PTL DEF Spec, ImplementsRPC, Abstract!Spec

===============================================================================
