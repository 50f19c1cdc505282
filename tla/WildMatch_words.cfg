\* Texts of up to four characters over two letters, patterns of up to five.
SPECIFICATION Spec
CONSTANTS
  a = a
  b = b
  star = star
  nul = nul
  Chars = {a, b}
  Star <- star
  Nul <- nul
  IdLength = 4
  MaxText = 4
  MaxWild = 5
INVARIANTS TypeOK Sound CompleteIfOpen
\* The function returns.
CHECK_DEADLOCK FALSE
