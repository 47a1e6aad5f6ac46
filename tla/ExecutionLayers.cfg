CONSTANTS
  Registrations <- ThreeOrFive
  ThreadCounts = {1, 2, 3}
SPECIFICATION Spec
INVARIANTS
  LayersIndependent
  ExecutedOnce
PROPERTY Terminates
