SPECIFICATION FairSpec
CONSTANTS
  Runs = 2
  MaxAttempts = 3
  MaxAlone = 1
INVARIANTS TypeOK ScheduleIsFollowed EvidenceIsKept ReportIsComplete
PROPERTY CampaignEnds
CHECK_DEADLOCK FALSE
