SPECIFICATION FairSpec
CONSTANTS
  Forms = {place}
  Keeping = {}
  Fillable = {place}
  MaxValue = 1
  MaxUpdates = 1
PROPERTIES
  UpdatesLoseNoInput
