\* Two authors, two mechanics, two texts, one PUT at a time.
CONSTANTS
  ana = ana
  ben = ben
  mike = mike
  dave = dave
  Person = {ana, ben}
  Shop = Shop
  Mechanic = {mike, dave}
  Nobody = Nobody
  MaxText = 2
  MaxPut = 1
  Budget = 2
\* The people and the mechanics are interchangeable; nothing is about liveness.
SPECIFICATION Spec
SYMMETRY Symmetry
PROPERTIES OthersNotesKept PaidNotPurged
