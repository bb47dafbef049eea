SPECIFICATION LiveSpec
CONSTANTS
  MaxArrivals = 3
INVARIANTS Remembered BlockingRight
PROPERTIES Shown
