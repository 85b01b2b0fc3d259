CONSTANTS
  Inputs <- MCInputs
SPECIFICATION FairSpec
INVARIANTS TokenIsText Regenerates RoundTrip LiteralsAsGo ClassReadable ClassMeaning
PROPERTIES ParseEnds
