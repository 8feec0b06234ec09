CONSTANTS
  Text = {a, b}
  MaxVisits = 2
  MaxClips = 3
SPECIFICATION FairSpec
INVARIANTS TypeOK WholeTexts OnlyNews
PROPERTIES CopyReachesViewer
CHECK_DEADLOCK FALSE
