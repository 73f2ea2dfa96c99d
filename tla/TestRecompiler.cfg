CONSTANTS
  Directories <- MCDirectories
SPECIFICATION Spec
INVARIANT TestsRunOrReported
