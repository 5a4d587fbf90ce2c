----------------------------- MODULE Negotiation -----------------------------
(***************************************************************************)
(* The initialize handshake: the capabilities NewClient and newServer      *)
(* derive from the options they are given and what each requires of the    *)
(* other; handleInitialize, which decides on the server; checkCapabilities,*)
(* which decides on the client; and what the server learns of that.        *)
(*                                                                         *)
(* A capabilities struct is the set of its non-nil pointers and true       *)
(* fields; its JSON (omitempty everywhere) carries exactly that set.       *)
(***************************************************************************)

CONSTANTS
  ServerOptions, \* the ServerOptions, and what the Server interface requires, in play
  ClientOptions, \* the ClientOptions, and fields of ServerRequirement, in play
  Versions       \* protocol versions of peers (this repository speaks one of them)

VARIABLES
  serverOpts, \* those given to newServer
  clientOpts, \* those given to NewClient
  version,    \* version.client, version.server
  phase,      \* "new", "asked", "answered", "refused" (by the server), "connected", "rejected" (by the client)
  wire,       \* the client's last message: "none", "initialized", "error"
  initialized \* session.initialized on the server

vars == <<serverOpts, clientOpts, version, phase, wire, initialized>>

ServerCaps == {"prompts", "prompts.listChanged", "resources", "resources.listChanged",
               "resources.subscribe", "tools", "tools.listChanged", "logging"}
ClientCaps == {"roots", "roots.listChanged", "sampling"}

\* The capability c is declared if all of opts are among the options o.
If(o, opts, c) == IF opts \subseteq o THEN {c} ELSE {}

\* Mutant: listChanged declared for any prompt server.
EagerCapabilities(o) ==
       If(o, {"promptServer"}, "prompts")
  \cup If(o, {"promptServer"}, "prompts.listChanged")
  \cup If(o, {"toolServer"}, "tools")

\* newServer, s.capabilities
ServerCapabilities(o) ==
       If(o, {"promptServer"}, "prompts")
  \cup If(o, {"promptServer", "promptListUpdater"}, "prompts.listChanged")
  \cup If(o, {"resourceServer"}, "resources")
  \cup If(o, {"resourceServer", "resourceListUpdater"}, "resources.listChanged")
  \cup If(o, {"resourceServer", "resourceSubscribedUpdater"}, "resources.subscribe")
  \cup If(o, {"toolServer"}, "tools")
  \cup If(o, {"toolServer", "toolListUpdater"}, "tools.listChanged")
  \cup If(o, {"logHandler"}, "logging")

\* newServer, s.requiredClientCapabilities
RequiredClientCapabilities(o) ==
       If(o, {"RequireRootsListClient"}, "roots")
  \cup If(o, {"RequireRootsListClient", "rootsListWatcher"}, "roots.listChanged")
  \cup If(o, {"RequireSamplingClient"}, "sampling")

\* NewClient, c.capabilities
ClientCapabilities(o) ==
       If(o, {"rootsListHandler"}, "roots")
  \cup If(o, {"rootsListHandler", "rootsListUpdater"}, "roots.listChanged")
  \cup If(o, {"samplingHandler"}, "sampling")

\* NewClient, c.requiredServerCapabilities
RequiredServerCapabilities(o) ==
       If(o, {"PromptServer"}, "prompts")
  \cup If(o, {"PromptServer", "promptListWatcher"}, "prompts.listChanged")
  \cup If(o, {"ResourceServer"}, "resources")
  \cup If(o, {"ResourceServer", "resourceListWatcher"}, "resources.listChanged")
  \cup If(o, {"ResourceServer", "resourceSubscribedWatcher"}, "resources.subscribe")
  \cup If(o, {"ToolServer"}, "tools")
  \cup If(o, {"ToolServer", "toolListWatcher"}, "tools.listChanged")
  \cup If(o, {"logReceiver"}, "logging")

\* start: the goroutines that produce the notifications.
Broadcasters(o) ==
  o \cap {"promptListUpdater", "resourceListUpdater", "resourceSubscribedUpdater",
          "toolListUpdater", "logHandler", "progressReporter"}

\* Mutant: the sampling requirement is not looked at.
RootsOnly(have, need) ==
  "roots" \in need => /\ "roots" \in have
                      /\ "roots.listChanged" \in need => "roots.listChanged" \in have

\* handleInitialize, after the version check.
clientSuffices(have, need) ==
  /\ "roots" \in need =>
       /\ "roots" \in have
       /\ "roots.listChanged" \in need => "roots.listChanged" \in have
  /\ "sampling" \in need => "sampling" \in have

\* checkCapabilities; a field is looked at only if its capability is required.
checkCapabilities(have, need) ==
  /\ "prompts" \in need =>
       /\ "prompts" \in have
       /\ "prompts.listChanged" \in need => "prompts.listChanged" \in have
  /\ "resources" \in need =>
       /\ "resources" \in have
       /\ "resources.listChanged" \in need => "resources.listChanged" \in have
       /\ "resources.subscribe" \in need => "resources.subscribe" \in have
  /\ "tools" \in need =>
       /\ "tools" \in have
       /\ "tools.listChanged" \in need => "tools.listChanged" \in have
  /\ "logging" \in need => "logging" \in have

-----------------------------------------------------------------------------
\* The With... functions set one field each, in any combination.
ServerGiven == serverOpts \in SUBSET ServerOptions
ClientGiven == clientOpts \in SUBSET ClientOptions

Init ==
  /\ ServerGiven /\ ClientGiven
  /\ version \in [client : Versions, server : Versions]
  /\ phase = "new"
  /\ wire = "none"
  /\ initialized = FALSE

Static == UNCHANGED <<serverOpts, clientOpts, version>>

\* initialize, up to its sendRequest.
initialize ==
  /\ phase = "new"
  /\ phase' = "asked"
  /\ UNCHANGED <<wire, initialized>> /\ Static

\* handleInitialize.
handleInitialize ==
  /\ phase = "asked"
  /\ phase' = IF /\ version.client = version.server
                 /\ clientSuffices(ClientCapabilities(clientOpts), RequiredClientCapabilities(serverOpts))
              THEN "answered" ELSE "refused"
  /\ UNCHANGED <<wire, initialized>> /\ Static

\* The rest of initialize: the client tells the server of either outcome.
InitializeReturns ==
  /\ phase = "answered"
  /\ IF /\ version.server = version.client
        /\ checkCapabilities(ServerCapabilities(serverOpts), RequiredServerCapabilities(clientOpts))
     THEN phase' = "connected" /\ wire' = "initialized"
     ELSE phase' = "rejected" /\ wire' = "error"
  /\ UNCHANGED initialized /\ Static

\* handleNotificationsInitialized, or handleResult with an id the session has
\* no request under, which drops the error.
ServerReceives ==
  /\ wire # "none"
  /\ wire' = "none"
  /\ initialized' = (initialized \/ wire = "initialized")
  /\ UNCHANGED phase /\ Static

Next == initialize \/ handleInitialize \/ InitializeReturns \/ ServerReceives

Spec == Init /\ [][Next]_vars

-----------------------------------------------------------------------------
(* Properties *)

TypeOK ==
  /\ serverOpts \subseteq ServerOptions /\ clientOpts \subseteq ClientOptions
  /\ version \in [client : Versions, server : Versions]
  /\ phase \in {"new", "asked", "answered", "refused", "connected", "rejected"}
  /\ wire \in {"none", "initialized", "error"}
  /\ initialized \in BOOLEAN
  /\ ServerCapabilities(serverOpts) \subseteq ServerCaps
  /\ ClientCapabilities(clientOpts) \subseteq ClientCaps

\* What the two nested decision procedures amount to.
Satisfied ==
  /\ version.client = version.server
  /\ RequiredClientCapabilities(serverOpts) \subseteq ClientCapabilities(clientOpts)
  /\ RequiredServerCapabilities(clientOpts) \subseteq ServerCapabilities(serverOpts)

\* The handshake succeeds exactly if both sides' requirements are met: neither
\* handleInitialize nor checkCapabilities lets a missing capability through or
\* turns down a peer that has all of them.
Agreement ==
  /\ phase = "connected" => Satisfied
  /\ phase \in {"refused", "rejected"} => ~Satisfied

\* The server serves requests (initialized) only for a client that accepted it:
\* a client that turned the server down leaves the session uninitialized.
ServesOnlyConnected == initialized => phase = "connected"

\* From the options of one side to the options of the other: a connected
\* client that requires a server has one that was given its interface, and one
\* that watches a list it requires has a server with the goroutine that
\* announces the changes; the same for what the server requires of the client.
Honours(need, opts, have) == need \subseteq clientOpts => opts \subseteq have
RequirementsHonoured ==
  phase = "connected" =>
    /\ Honours({"PromptServer"}, {"promptServer"}, serverOpts)
    /\ Honours({"ResourceServer"}, {"resourceServer"}, serverOpts)
    /\ Honours({"ToolServer"}, {"toolServer"}, serverOpts)
    /\ Honours({"PromptServer", "promptListWatcher"}, {"promptListUpdater"}, Broadcasters(serverOpts))
    /\ Honours({"ResourceServer", "resourceListWatcher"}, {"resourceListUpdater"}, Broadcasters(serverOpts))
    /\ Honours({"ResourceServer", "resourceSubscribedWatcher"}, {"resourceSubscribedUpdater"},
               Broadcasters(serverOpts))
    /\ Honours({"ToolServer", "toolListWatcher"}, {"toolListUpdater"}, Broadcasters(serverOpts))
    /\ Honours({"logReceiver"}, {"logHandler"}, Broadcasters(serverOpts))
    /\ "RequireRootsListClient" \in serverOpts => "rootsListHandler" \in clientOpts
    /\ {"RequireRootsListClient", "rootsListWatcher"} \subseteq serverOpts => "rootsListUpdater" \in clientOpts
    /\ "RequireSamplingClient" \in serverOpts => "samplingHandler" \in clientOpts

=============================================================================
