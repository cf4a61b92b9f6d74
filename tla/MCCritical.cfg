\* Two items, the second one critical.h plans for, under upsets and bursts.
SPECIFICATION Spec
CONSTANTS
  N = 2
  MaxItems = 2
  Values = {nominal, safe}
  Junk = Junk
  NoWord = NoWord
  Patterns <- MCPatterns
  MaxStrikes = 2
  MaxFailedVotes = 3
INVARIANTS EventsNeedCorruption NoItemMasksAnother
PROPERTIES NeverAnswersFalse OneStrikeIsMasked
SYMMETRY ValueSymmetry
