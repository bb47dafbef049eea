SPECIFICATION SessionSpec
CONSTANTS
  MaxArrivals = 2
INVARIANTS EditorUndisturbed
