\* Three calls of two prices and two budgets; two runs with a backup model.
CONSTANTS
  Calls = {c1, c2, c3}
  Turns = {t1}
  Quotes <- TwoQuotes
  NoQuote = NoQuote
  Commercial = TRUE
  Fundings = {f1, f2}
  Amounts = {1, 2}
  m1 = m1
  m2 = m2
  Operations = {o1}
SPECIFICATION PartsSpec
SYMMETRY Symmetry
INVARIANTS
  BooksInv
  AttemptsAreAccounted
PROPERTIES
  KeepsBudget
CHECK_DEADLOCK FALSE
