\* An established connection stays for five minutes
SPECIFICATION Spec
CONSTANTS
  Initiators = {"local", "remote"}
  MaxData = 1
  MaxLosses = 0
  MaxResends = 1
  MaxWire = 2
  MaxLag = 2
  Window = 1
  Apps = {"http"}
  NoEntry = NoEntry
PROPERTY EstablishedKept
CHECK_DEADLOCK FALSE
