CONSTANTS
  Designs <- MCDesigns
  Draws = {"x", "y"}
SPECIFICATION Spec
INVARIANTS TypeOK NamesTellApart SameNetlist AcceptsExactly
