CONSTANTS
  Thread = {t1, t2}
  MaxCount = 3
SPECIFICATION Spec
INVARIANTS IInv CountsDriftOnlyByRace
PROPERTIES DecidesRightly NeverIgnored
