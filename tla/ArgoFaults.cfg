SPECIFICATION FairSpec
CONSTANTS
  ann = ann
  bob = bob
  agent = agent
  service = service
  Seats = {ann, bob}
  Agents = {agent}
  Services = {service}
  Wares <- AnnPublishes
  Built = {ann}
  Fixed = FALSE
  Faults = {ann}
  Deaths = {ann}
  Rare = {bob}
  MaxJobs = 1
CHECK_DEADLOCK FALSE
INVARIANTS TypeOK GoneIsUnlisted
PROPERTIES BuiltIsListed ComesDown
