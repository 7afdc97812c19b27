SPECIFICATION Spec
CONSTANTS
  f1 = f1
  f2 = f2
  f3 = f3
  c1 = c1
  c2 = c2
  c3 = c3
  c4 = c4
  a = a
  b = b
  e = e
  x = x
  y = y
  Uploads <- MCUploads
  Images <- MCImages
  Content <- MCContent
  From <- MCFrom
  To <- MCTo
  Chats <- MCChats
  Sender <- MCSender
  Target <- MCTarget
  FileOf <- MCFileOf
  Ttl = 1
  MaxTime = 3
  MaxRestarts = 1
INVARIANTS StoredIsDownloadable FailedSaveCanRetry
CHECK_DEADLOCK FALSE
