SPECIFICATION Spec
CONSTANTS
  ana = ana
  con = con
  w1 = w1
  w2 = w2
  Claims = {c1, c2}
  OpenedBy <- OpenedByAnalyst
  People = {ana, con}
  Blank = Blank
  NoOne = NoOne
  Contents = {v1, v2}
  Workers = {w1}
  MaxTrail = 4
INVARIANT ReloadAgrees
PROPERTY KeepsPromise
