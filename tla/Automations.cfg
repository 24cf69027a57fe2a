SPECIFICATION FairSpec
CONSTANTS
  Kinds = {"alert", "cron"}
  Pinned = {TRUE}
  Endings = {"completed"}
  MaxFailures = 1
  MaxFirings = 2
  MaxEvents = 2
CHECK_DEADLOCK FALSE
INVARIANT ExecutingIsFired
PROPERTY ScheduleStands
 
PROPERTY FiringsSettle
