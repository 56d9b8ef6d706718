SPECIFICATION Spec
CONSTANTS
  Vars <- V
  Monomials <- M
  Leads <- FewLeads
  Below <- GLexBelow
  Degree <- Total
  Limit = 3
  MaxGens = 3
  MaxPolys = 5
INVARIANTS PairsAccounted BasisCovers BasisIsMinimal
\* a computation ends
CHECK_DEADLOCK FALSE
