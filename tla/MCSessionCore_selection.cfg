SPECIFICATION CoreSpec
CONSTANTS
  Externals = {phoneA, phoneB}
  Synthetics = {synthetic}
  Desktop = desktop
  None = None
  MaxSources = 3
  MaxLinks = 1
SYMMETRY Symmetry
INVARIANT ActiveIsRight
INVARIANT NoStaleFrame
