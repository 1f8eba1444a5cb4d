SPECIFICATION Spec
CONSTANTS
  c1 = c1
  c2 = c2
  Conns = {c1, c2}
  Names = {"f", "g"}
  Clients <- Scripts
  Colliding <- Collisions
  MULTI_OP_SIZE = 2
  Matching <- Beginning
  MaxErrors = 1
  NULL = NULL
INVARIANTS
  OneReply
  AnswersAreTrue
  
  ConfigsAreOwned
