SPECIFICATION CampaignSpec
CONSTANTS
  Nodes = {1, 2, 3}
  Probe = 2
  MaxPayload = 2
  MaxTerm = 2
  MaxLog = 6
INVARIANT AckedIsCommitted
CHECK_DEADLOCK FALSE
