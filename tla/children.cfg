SPECIFICATION Spec
CONSTANTS
  first = first
  agent = agent
  helper = helper
  command = command
  probe = probe
  Runs = {first}
  Cli = {agent, helper}
  Checks = {command, probe}
  Probes = {probe}
  Of <- Owners
  Earlier <- InOrder
  Width = 2
  Asked = {first}
  Sweep = Sweep
  None = None
INVARIANTS
  TypeOK
  LiveIsRegistered
  OverLeavesNothing
PROPERTY
  EverythingEnds
CHECK_DEADLOCK FALSE
