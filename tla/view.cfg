\* Games of one and of five seconds of two ticks, and animations of three frames of two ticks.
SPECIFICATION Spec
CONSTANTS
  Durations = {1, 5}
  TicksPerSecond = 2
  MaxStars = 1
  Length = 2
  ScrollAt = 2
  AfterScroll = 2
  FrameCount = 3
  FrameDuration = 2
  MaxX = 1
  MaxMove = 1
  MaxHandled = 8
INVARIANTS TypeOK StatisticsOverGame DisplayFollows CaretFollows NoTrails PandaRests
