SPECIFICATION BusSpec
CONSTANTS
  Streams = {s1, s2}
  RingSize = 3
  QueueSize = 2
  MaxEvents = 6
SYMMETRY MCSymmetry
INVARIANTS
  FeedbackTypeOK
  NoGaps
  UnreadIsForgotten
  RecentIsNewest
PROPERTIES
  KeepsLog
