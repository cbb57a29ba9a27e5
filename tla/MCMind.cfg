SPECIFICATION Spec
CONSTANTS
  p1 = p1
  p2 = p2
  p3 = p3
  s1 = s1
  NoPost = NoPost
  NoStory = NoStory
  Posts <- MCPosts
  Stories = {s1}
  StoryOf <- MCStoryOf
  PostedAt <- MCPostedAt
  Mine = {}
  Blank = {}
  HeardMax = 1
  HoldMax = 2
  Synthesizer = TRUE
  MaxAlerts = 0
  Traced = {p1}
INVARIANTS
  TypeOK
  OneThought
  HeldIsScheduled
  HeldOnePerStory
  ReplyLinksToItsCause
PROPERTIES
  HeldIsAccountedFor
  AnsweredOnceWhileLive
