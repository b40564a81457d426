SPECIFICATION LawsSpec
CONSTANTS
  SecondOperands = {0, 1, 6, 9, 15, 16, 85, 127, 128, 129, 153, 170, 240, 254, 255}
  Operands <- MCAllOperands
INVARIANTS
  ArithmeticIsExact
  CompareOrders
  WordsAddByBytes
  RotationsLoseNothing
  CountingKeepsCarry
  LogicIsBoolean
  DecimalSumIsExactBelowWrap
