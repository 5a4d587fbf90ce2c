CONSTANTS
  ServerOptions = {"promptServer", "promptListUpdater", "resourceServer", "resourceSubscribedUpdater", "logHandler", "rootsListWatcher", "RequireRootsListClient", "RequireSamplingClient"}
  ClientOptions = {"PromptServer", "promptListWatcher", "ResourceServer", "resourceSubscribedWatcher", "logReceiver", "rootsListHandler", "rootsListUpdater", "samplingHandler"}
  Versions = {"2024-11-05", "other"}
SPECIFICATION Spec
CHECK_DEADLOCK FALSE
INVARIANTS Agreement RequirementsHonoured
