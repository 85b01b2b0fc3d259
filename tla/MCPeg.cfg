CONSTANTS
  Grammars <- MCGrammars
  Inputs <- MCInputs
  Lower <- MCLower
  NewLine <- NL
  RuneError <- BadRune
  Outcomes <- MCOutcomes
  CodeCalls <- MCCodeCalls
  NewArgs <- MCNewArgs
  Funcs <- MCFuncs
SPECIFICATION FairSpec
INVARIANTS FailRestores PositionTrue NoSilentFailure MatchesReference CodeBlocksFit Regenerates NeverLoops
PROPERTIES ParseEnds
