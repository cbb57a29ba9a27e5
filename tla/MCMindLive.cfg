SPECIFICATION FairSpec
CONSTANTS
  p1 = p1
  p2 = p2
  p3 = p3
  s1 = s1
  NoPost = NoPost
  NoStory = NoStory
  Posts <- LivePosts
  Stories = {s1}
  StoryOf <- LiveStoryOf
  PostedAt <- LivePostedAt
  Mine = {}
  Blank = {}
  HeardMax = 1
  HoldMax = 1
  Synthesizer = FALSE
  MaxAlerts = 1
  Traced = {}
PROPERTIES
  HeldIsSettled
