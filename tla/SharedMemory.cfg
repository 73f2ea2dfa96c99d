SPECIFICATION Spec
CONSTANTS
  Threads = {1, 2, 3}
  Addresses = {"x", "y", "l"}
  Byte = 2
  Programs <- MCPrograms
PROPERTIES
  FollowsSequential
  Termination
