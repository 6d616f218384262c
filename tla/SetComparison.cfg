SPECIFICATION Spec
CONSTANTS
  Sizes <- MCSizes
  Cohesions = {85, 100}
  Mutuals = {950}
  Gaps = {0, 7}
  Levels = {10, 60, 80, 97}
INVARIANTS VerdictFollows CohesionInRange
