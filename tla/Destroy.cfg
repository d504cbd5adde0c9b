SPECIFICATION Spec
CONSTANTS
  Projects = {"web", "web-api"}
  Containers = {"web-app", "web-api-srv"}
  Networks = {"web-net", "ext"}
  Volumes = {"web-vol"}
  Protected = {"ext"}
  Prefixed <- MCPrefixed
  Desired <- MCDesired
  Refs <- MCDesired
  Attached <- MCAttached
  MaxCommands = 2
  MaxFaults = 2
  MaxOutside = 2
INVARIANTS
  Accounted
  NoSilentOrphans
PROPERTY
  Untouched
CHECK_DEADLOCK FALSE
