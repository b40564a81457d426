SPECIFICATION LawsSpec
CONSTANTS
  SecondOperands = {}
  Operands <- MCDecimalOperands
INVARIANT DecimalSumIsExact
