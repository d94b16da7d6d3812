\* Two files of every small content, under limits that fall inside and between them.
SPECIFICATION Spec
CONSTANTS
  Folded <- Fold
  NumberOf <- Numbers
  Files <- SmallFiles
  MaxScope = 2
  Queries <- SmallQueries
  DefaultCSVRows = 2
  MaxCSVRows = 3
  MaxCSVOffset = 3
  MaxTextMatches = 2
  MaxTextContextRunes = 2
CHECK_DEADLOCK FALSE
INVARIANTS TypeOK SearchesAreExact PagesReadOut OrderIsTotal
