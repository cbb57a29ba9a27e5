CONSTANTS
  w1 = w1
  w2 = w2
  w3 = w3
  Writers = {w1, w2, w3}
  Posts <- MCPosts
  PostedAt <- MCPostedAt
  Window = 2
SPECIFICATION Spec
INVARIANTS
  TypeOK
  TailExists
  BoundedAtRest
PROPERTIES
  KeepsTheFeed
