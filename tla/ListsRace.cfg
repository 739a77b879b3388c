SPECIFICATION Spec
CONSTANTS
  ann = ann
  bob = bob
  agent = agent
  service = service
  Seats = {ann, bob}
  Agents = {agent}
  Services = {service}
  Wares <- AnnPublishes
  Built = {ann, bob}
  Fixed = FALSE
  Faults = {}
  Deaths = {}
  Rare = {}
  MaxJobs = 1
CHECK_DEADLOCK FALSE
INVARIANTS GoneFromLists
