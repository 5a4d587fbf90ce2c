-------------------------- MODULE NegotiationProofs --------------------------
(***************************************************************************)
(* The handshake of Negotiation, proved for every set of options and every *)
(* pair of protocol versions.                                              *)
(***************************************************************************)
EXTENDS Negotiation, TLAPS

\* What the nested tests of handleInitialize amount to, for a requirement
\* newServer can build.
LEMMA ClientInclusion ==
  ASSUME NEW o, NEW have
  PROVE  clientSuffices(have, RequiredClientCapabilities(o)) <=> RequiredClientCapabilities(o) \subseteq have
BY DEF clientSuffices, RequiredClientCapabilities, If

\* What the nested tests of checkCapabilities amount to, for a requirement
\* NewClient can build.
LEMMA ServerInclusion ==
  ASSUME NEW o, NEW have
  PROVE  checkCapabilities(have, RequiredServerCapabilities(o)) <=> RequiredServerCapabilities(o) \subseteq have
BY DEF checkCapabilities, RequiredServerCapabilities, If

\* The capabilities newServer and NewClient declare are capabilities.
LEMMA Declared ==
  ASSUME NEW o
  PROVE  ServerCapabilities(o) \subseteq ServerCaps /\ ClientCapabilities(o) \subseteq ClientCaps
BY DEF ServerCapabilities, ClientCapabilities, ServerCaps, ClientCaps, If

\* A requirement that is met was met by an option of the other side.
LEMMA Honoured == Satisfied /\ phase = "connected" => RequirementsHonoured
<1> SUFFICES ASSUME Satisfied, phase = "connected" PROVE RequirementsHonoured
  OBVIOUS
<1>1. /\ "roots" \in RequiredClientCapabilities(serverOpts) => "rootsListHandler" \in clientOpts
      /\ "roots.listChanged" \in RequiredClientCapabilities(serverOpts) => "rootsListUpdater" \in clientOpts
      /\ "sampling" \in RequiredClientCapabilities(serverOpts) => "samplingHandler" \in clientOpts
  <2>1. RequiredClientCapabilities(serverOpts) \subseteq ClientCapabilities(clientOpts)
    BY DEF Satisfied
  <2> QED BY <2>1 DEF ClientCapabilities, If
<1>2. /\ "RequireRootsListClient" \in serverOpts => "roots" \in RequiredClientCapabilities(serverOpts)
      /\ {"RequireRootsListClient", "rootsListWatcher"} \subseteq serverOpts
           => "roots.listChanged" \in RequiredClientCapabilities(serverOpts)
      /\ "RequireSamplingClient" \in serverOpts => "sampling" \in RequiredClientCapabilities(serverOpts)
  BY DEF RequiredClientCapabilities, If
<1> DEFINE Need == RequiredServerCapabilities(clientOpts)
<1>3. /\ "prompts" \in Need => "promptServer" \in serverOpts
      /\ "resources" \in Need => "resourceServer" \in serverOpts
      /\ "tools" \in Need => "toolServer" \in serverOpts
      /\ "prompts.listChanged" \in Need => "promptListUpdater" \in serverOpts
      /\ "resources.listChanged" \in Need => "resourceListUpdater" \in serverOpts
      /\ "resources.subscribe" \in Need => "resourceSubscribedUpdater" \in serverOpts
      /\ "tools.listChanged" \in Need => "toolListUpdater" \in serverOpts
      /\ "logging" \in Need => "logHandler" \in serverOpts
  <2>1. Need \subseteq ServerCapabilities(serverOpts)
    BY DEF Satisfied
  <2> QED BY <2>1 DEF ServerCapabilities, If
<1>4. /\ {"PromptServer"} \subseteq clientOpts => "prompts" \in Need
      /\ {"ResourceServer"} \subseteq clientOpts => "resources" \in Need
      /\ {"ToolServer"} \subseteq clientOpts => "tools" \in Need
      /\ {"PromptServer", "promptListWatcher"} \subseteq clientOpts => "prompts.listChanged" \in Need
      /\ {"ResourceServer", "resourceListWatcher"} \subseteq clientOpts => "resources.listChanged" \in Need
      /\ {"ResourceServer", "resourceSubscribedWatcher"} \subseteq clientOpts => "resources.subscribe" \in Need
      /\ {"ToolServer", "toolListWatcher"} \subseteq clientOpts => "tools.listChanged" \in Need
      /\ {"logReceiver"} \subseteq clientOpts => "logging" \in Need
  BY DEF RequiredServerCapabilities, If
<1> QED BY <1>1, <1>2, <1>3, <1>4 DEF RequirementsHonoured, Honours, Broadcasters

(***************************************************************************)
(* The inductive invariant: how far each phase has got in establishing     *)
(* Satisfied, and that the initialized notification is only on the wire    *)
(* for a connected client.                                                 *)
(***************************************************************************)
ServerAgreed ==
  /\ version.client = version.server
  /\ RequiredClientCapabilities(serverOpts) \subseteq ClientCapabilities(clientOpts)

IInv ==
  /\ TypeOK
  /\ phase = "answered" => ServerAgreed
  /\ Agreement
  /\ wire = "initialized" => phase = "connected"
  /\ ServesOnlyConnected
  /\ phase # "connected" => ~initialized

\* Each message of the handshake carries what its sender has decided.
LEMMA NextIInv == IInv /\ [Next]_vars => IInv'
<1> SUFFICES ASSUME IInv, [Next]_vars PROVE IInv'
  OBVIOUS
<1>0. UNCHANGED <<serverOpts, clientOpts, version>>
  BY DEF Next, vars, initialize, handleInitialize, InitializeReturns, ServerReceives, Static
<1>1. /\ (ServerCapabilities(serverOpts) \subseteq ServerCaps)'
      /\ (ClientCapabilities(clientOpts) \subseteq ClientCaps)'
  BY Declared
<1>2. (Satisfied' <=> Satisfied) /\ (ServerAgreed' <=> ServerAgreed)
  BY <1>0 DEF Satisfied, ServerAgreed
<1>3. CASE initialize
  BY <1>0, <1>1, <1>2, <1>3 DEF initialize, IInv, TypeOK, Agreement, ServesOnlyConnected
<1>4. CASE handleInitialize
  <2>1. clientSuffices(ClientCapabilities(clientOpts), RequiredClientCapabilities(serverOpts))
          <=> RequiredClientCapabilities(serverOpts) \subseteq ClientCapabilities(clientOpts)
    BY ClientInclusion
  <2>2. /\ phase' = IF ServerAgreed THEN "answered" ELSE "refused"
        /\ phase = "asked" /\ wire' = wire /\ initialized' = initialized
    BY <1>4, <2>1 DEF handleInitialize, ServerAgreed
  <2>3. ~ServerAgreed => ~Satisfied
    BY DEF ServerAgreed, Satisfied
  <2> QED BY <1>0, <1>1, <1>2, <2>2, <2>3 DEF IInv, TypeOK, Agreement, ServesOnlyConnected
<1>5. CASE InitializeReturns
  <2>1. checkCapabilities(ServerCapabilities(serverOpts), RequiredServerCapabilities(clientOpts))
          <=> RequiredServerCapabilities(clientOpts) \subseteq ServerCapabilities(serverOpts)
    BY ServerInclusion
  <2>2. ServerAgreed
    BY <1>5 DEF InitializeReturns, IInv
  <2>3. /\ phase = "answered" /\ initialized' = initialized
        /\ IF Satisfied THEN phase' = "connected" /\ wire' = "initialized"
                        ELSE phase' = "rejected" /\ wire' = "error"
    BY <1>5, <2>1, <2>2 DEF InitializeReturns, Satisfied, ServerAgreed
  <2> QED BY <1>0, <1>1, <1>2, <2>3 DEF IInv, TypeOK, Agreement, ServesOnlyConnected
<1>6. CASE ServerReceives
  <2>1. phase' = phase /\ wire' = "none" /\ (initialized' <=> (initialized \/ wire = "initialized"))
    BY <1>6 DEF ServerReceives
  <2>2. initialized' \in BOOLEAN
    BY <1>6 DEF ServerReceives
  <2> QED BY <1>0, <1>1, <1>2, <2>1, <2>2 DEF IInv, TypeOK, Agreement, ServesOnlyConnected
<1>7. CASE UNCHANGED vars
  BY <1>0, <1>1, <1>2, <1>7 DEF vars, IInv, TypeOK, Agreement, ServesOnlyConnected
<1> QED BY <1>3, <1>4, <1>5, <1>6, <1>7 DEF Next

\* So the invariant holds throughout.
LEMMA HandshakeInductive == Spec => []IInv
<1>1. Init => IInv
  <2> SUFFICES ASSUME Init PROVE IInv
    OBVIOUS
  <2>1. ServerCapabilities(serverOpts) \subseteq ServerCaps /\ ClientCapabilities(clientOpts) \subseteq ClientCaps
    BY Declared
  <2> QED BY <2>1 DEF Init, ServerGiven, ClientGiven, IInv, TypeOK, Agreement, ServesOnlyConnected
<1> QED BY <1>1, NextIInv, PTL DEF Spec

\* Every variable keeps to its type: what is declared and required is among
\* the capabilities of the protocol, whatever the options.
THEOREM NegotiationTypes == Spec => []TypeOK
<1>1. IInv => TypeOK
  BY DEF IInv
<1> QED BY <1>1, HandshakeInductive, PTL

\* For any options and versions, handleInitialize and checkCapabilities
\* together accept exactly the peers that satisfy each other's requirements.
THEOREM AgreementHolds == Spec => []Agreement
<1>1. IInv => Agreement
  BY DEF IInv
<1> QED BY <1>1, HandshakeInductive, PTL

\* A session is initialized only for a client that accepted the server.
THEOREM ServesOnlyConnectedHolds == Spec => []ServesOnlyConnected
<1>1. IInv => ServesOnlyConnected
  BY DEF IInv
<1> QED BY <1>1, HandshakeInductive, PTL

\* A connected client that requires an interface or watches what it requires
\* is served by one, whatever the options.
THEOREM RequirementsHonouredHolds == Spec => []RequirementsHonoured
<1>1. IInv => RequirementsHonoured
  <2>1. CASE phase = "connected"
    BY <2>1, Honoured DEF IInv, Agreement
  <2>2. CASE phase # "connected"
    BY <2>2 DEF RequirementsHonoured
  <2> QED BY <2>1, <2>2
<1> QED BY <1>1, HandshakeInductive, PTL

=============================================================================
