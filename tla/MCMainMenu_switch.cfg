SPECIFICATION Spec
CONSTANTS
  Externals = {catplay, carlife}
  CatPlay = catplay
  CarLife = carlife
  Synthetics = {synthetic}
  Desktop = desktop
  None = None
  MaxSources = 8
  MaxLinks = 1
  Worker = {w1}
PROPERTY MediaFollowsActive
