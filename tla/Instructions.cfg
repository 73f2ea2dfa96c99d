CONSTANTS
  W = 8
  NaN = NaN
  Double <- MCDouble
  Single <- MCSingle
  Quotient <- MCQuotient
  Root <- MCRoot
  Words <- MCWords
  FloatValues <- MCFloats
  SignedImmediates <- MCSigned
  UnsignedImmediates <- MCUnsigned
  Amounts <- MCAmounts
  Masks <- MCMasks
  MaxSteps = 1
SPECIFICATION Spec
INVARIANTS RegistersAgree CarryAgrees ConditionsAgree FloatsAgree LanesAgree
CHECK_DEADLOCK FALSE
