SPECIFICATION Spec
CONSTANTS
  Admins = {a1, a2}
  MaxVotes = 1
  MaxPosts = 3
SYMMETRY Symmetry
PROPERTY ResetStartsOver
