SPECIFICATION Spec
CONSTANTS
  ana = ana
  con = con
  w1 = w1
  w2 = w2
  Claims = {c1}
  OpenedBy <- OpenedByAnalyst
  People = {ana, con}
  Blank = Blank
  NoOne = NoOne
  Contents = {v1}
  Workers = {w1, w2}
  MaxTrail = 6
SYMMETRY WorkerSymmetry
INVARIANT ExportedWasApproved
