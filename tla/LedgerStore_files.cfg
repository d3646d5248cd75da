SPECIFICATION Spec
CONSTANTS
  p1 = p1
  p2 = p2
  t1 = t1
  ra = ra
  rb = rb
  Procs = {p1, p2}
  Tools = {t1}
  Runs = {ra, rb}
  MaxEntries = 2
  MaxTexts = 3
  MaxKeys = 2
  MaxFault = 1
SYMMETRY Symmetry

INVARIANTS NoSilentLoss ManifestNotAhead  VerdictSound
