\* The polls of menus(), two sliders and the button.
SPECIFICATION FairSpec
CONSTANTS
  Readings <- MCReadings
  tripValue = 2
  MARGIN = 1
  DEBOUNCE = 3
  SLIDE_PASSES = 1
  Polls <- MCPolls
  NoKey = NoKey
INVARIANT TypeOK SlideIsTrue
PROPERTY PressIsReportedOnce BouncesOnce HeldIsReported
