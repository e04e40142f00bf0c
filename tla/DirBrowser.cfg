SPECIFICATION Spec
CONSTANTS
  Listings <- MCListings
  Builds = {TRUE, FALSE}
  MaxFaults = 1
INVARIANT TypeOK
PROPERTIES LoadsWhatIsShown ReloadsOnOpen
