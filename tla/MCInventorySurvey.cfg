\* One run of the tool on a router that two edits, a commit and a fault disturb.
SPECIFICATION Spec
CONSTANTS
  Undecodable = Undecodable
  Unset = Unset
  Order <- Packages
  Initial <- Router
  Newcomers <- Added
  Assignments <- Changes
  Longest = 5
  Limit <- Bounds
  Material <- Secret
INVARIANTS
  TypeOK
  EverythingAccountedFor
  MaterialLeavesInListsOnly
  ImportsResolve
  StableAddressesStayPut
  FitMeansFit
  FixtureStandsForRouter
CHECK_DEADLOCK FALSE
