SPECIFICATION Spec
CONSTANTS
  Total = 6
  Seeds <- MCSeeds
  Presets = {"mosaic", "cold"}
  Wheel <- MCWheel
  Private <- MCPrivate
  Spread <- MCSpread
  Cold <- MCCold
  Research <- MCResearch
  Ratios <- MCRatios
  None = None
INVARIANTS
  NothingSkipped
  NeverStuck
