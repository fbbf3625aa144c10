CONSTANTS
  known = known
  stranger = stranger
  session = session
  import = import
  Badges <- MCBadges
  Enrolled <- MCEnrolled
  Importers <- MCImporters
  Session <- session
  Bytes = {0, 1}
  Kinds <- MCKinds
  Ahead = 1
  Lookback = 2
  ImportsKeepUp = TRUE
  MaxTime = 3
  MaxScans = 2
  MaxFaults = 2
  MaxEvents = 3
SPECIFICATION FairSpec
INVARIANTS
  TypeOK MissedScanStaysAboveFloor SweepHealsMissedScans DisruptionArmsCatchUp NoScanRecordedTwice
PROPERTY EveryScanIsStored
