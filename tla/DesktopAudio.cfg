SPECIFICATION Spec
CONSTANTS
  Interfaces = {1}
  Mics = {2}
  Speakers = {3}
  Sizes <- SizesOffered
  Preferred <- SizePreferred
  MaxCalls = 2
  MaxChanges = 2
INVARIANT RunsWhatIsChosen
PROPERTY BufferOnlyClimbs
 
PROPERTY SettlesDown
CHECK_DEADLOCK FALSE
