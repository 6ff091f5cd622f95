SPECIFICATION Spec
CONSTANTS
  NULL = NULL
  Column <- MCColumn
  Carried <- MCCarried
  MinInt <- MCMinInt
  MaxInt = 1
  Failed = Failed
  Unreadable = Unreadable
  Leading <- MCLeading
  MaxTerms = 2
INVARIANTS CutAgreesWithSort ReverseIsReverse SortIsDeclared CursorBindsItsRow CursorSeeksPastItsRow
