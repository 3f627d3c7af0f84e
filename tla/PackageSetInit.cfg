SPECIFICATION Spec
CONSTANTS
  Hosts <- MCHosts
  Foreign <- MCForeign
INVARIANTS DockerInitThere
