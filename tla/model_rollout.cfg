CONSTANTS
  Trainers = {t1, t2}
  None = none
  MaxTrainings = 3
  MaxPromotions = 3
SPECIFICATION Spec
INVARIANTS TypeOK ReferenceFits
CHECK_DEADLOCK FALSE
