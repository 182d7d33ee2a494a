SPECIFICATION Spec
CONSTANTS
  first = first
  agent = agent
  helper = helper
  command = command
  probe = probe
  Runs = {first}
  Cli = {agent, helper}
  Checks = {command, probe}
  Probes = {probe}
  Of <- Owners
  Earlier <- InOrder
  Width = 2
  Asked = {first}
  Sweep = Sweep
  None = None
INVARIANTS
  CutIsNotAnswered
CHECK_DEADLOCK FALSE
