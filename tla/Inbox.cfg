SPECIFICATION FairSpec
CONSTANTS
  ann = ann
  anonymous = anonymous
  album = album
  Sender = {ann, anonymous}
  Anonymous = {anonymous}
  Album = {album}
  Debouncing = TRUE
  MaxMessages = 4
INVARIANTS PromptsAccountedFor ForwardsFollowPrompts AlbumItemsOnce
PROPERTY InboxDrains
CHECK_DEADLOCK FALSE
