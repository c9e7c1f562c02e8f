\* Texts cut into blocks and put together again.
SPECIFICATION Spec
CONSTANTS
  Call <- MCCall
  Key <- MCKey
INVARIANTS
  BreaksOnlyBeyond
  IntactUnlessPadLike
  AcceptedExactly
  TextSurvives
  ComputesTexts
CHECK_DEADLOCK FALSE
