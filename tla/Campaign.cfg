\* Three inputs: a row can be lost at the beginning, between and at the end.
SPECIFICATION CampaignSpec
CONSTANTS
  Inputs = 3
  Statistics = 3
  MaxStarts = 3
  MaxFaults = 2
INVARIANTS
  CampaignTypeOK
  TablesTrue
  GraphsFollow
PROPERTIES
  OneFault
  Recovers
CHECK_DEADLOCK FALSE
