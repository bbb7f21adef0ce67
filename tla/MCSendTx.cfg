SPECIFICATION FairSpec
CONSTANTS
  t1 = t1
  t2 = t2
  t3 = t3
  c1 = c1
  c2 = c2
  d1 = d1
  NoOne = NoOne
  Requests = {t1, t2, t3}
  Channels = {c1, c2}
  Drafts = {d1}
  ChannelOf <- MCChannelOf
  MediaIDs <- MCMediaIDs
  Uploads <- MCUploads
INVARIANTS
  TypeOK
  OrdinalsGapless
  OrdersAgree
  ReaderMissesNothing
  DraftsBoundWhole
  DraftsReadable
PROPERTY EventuallyAnswered
\* Every request is answered once; nothing is left to do then.
CHECK_DEADLOCK FALSE
