SPECIFICATION Spec
CONSTANTS
  r1 = r1
  r2 = r2
  r3 = r3
  r4 = r4
  Rows <- FourRows
  Tables <- ThreeTables
  Fast = FALSE
  BothAtOnce = FALSE
  Top = Top
INVARIANTS TypeOK TreeShown FieldsMatch
