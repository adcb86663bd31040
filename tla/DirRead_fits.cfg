\* Counts with room for several entries, for the largest one, and for less.
SPECIFICATION Spec
CONSTANTS
  Sizes = {0, 2, 3}
  Start <- MCStart
  MaxEntries = 6
  Counts = {0, 2, 3, 4, 5, 7, 9}
  MaxCount = 8
INVARIANT TypeOK
INVARIANT EachEntryOnce
INVARIANT AnswerFollowsOffset
INVARIANT IInv
PROPERTY EmptyMeansEnd
