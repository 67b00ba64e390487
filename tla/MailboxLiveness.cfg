\* The progress of one alert under two invocations and two crashes.
CONSTANTS
  Instances = {i1, i2}
  Keys = {a1}
  NoInstance = none
  Lease = 1
  MaxCrashes = 2
SPECIFICATION FairSpec
PROPERTIES
  EveryAlertHandled
