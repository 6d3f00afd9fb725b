CONSTANTS
  Files = {f1, f2}
  NoJob = NoJob
  MaxFailures = 3
SPECIFICATION FairUploadsSpec
INVARIANTS UploadsTypeOK JobsMatchFiles
PROPERTIES UnendedStays UploadsSettle
CHECK_DEADLOCK FALSE
