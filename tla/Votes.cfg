SPECIFICATION Spec
CONSTANTS
  Admins = {a1, a2}
  MaxVotes = 3
  MaxPosts = 0
SYMMETRY Symmetry
INVARIANTS TypeOK AtMostOneOpen
PROPERTY EnabledByStart
