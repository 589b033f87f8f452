\* Nothing fails, and clients connect or not.
CONSTANTS
  Failures = {}
  MaxBacklog = 2
  MaxCount = 1
SPECIFICATION FairSpec
PROPERTY
  Ends
