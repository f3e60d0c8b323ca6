CONSTANTS
  Results = {plain, appended, cleaned, mixed, any}
  Appended = {appended, any}
  Cleaned = {cleaned, any}
  Mixed = {mixed, any}
  MaxDrift = 2
SPECIFICATION Spec
INVARIANTS
  TypeOK
  PlainExact
  DriftHasADirection
PROPERTY DriftNeverHeals
