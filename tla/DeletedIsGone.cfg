SPECIFICATION Spec
CONSTANTS
  r1 = r1
  r2 = r2
  u1 = u1
  s1 = s1
  n1 = n1
  None = None
  Requests = {r1, r2}
  Users = {u1}
  Sessions = {s1}
  Names = {n1}
  Texts <- MCTexts
  MaxChunks = 2
  Size <- MCSize
  MaxStarts = 4
SYMMETRY Symmetric
INVARIANTS
  DeletedIsGone
