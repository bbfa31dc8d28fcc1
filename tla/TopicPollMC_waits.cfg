SPECIFICATION FairSpec
CONSTANTS
  t1 = t1
  t2 = t2
  p1 = p1
  p2 = p2
  Topic = {t1, t2}
  Publisher = {w1}
  Poller = {p1, p2}
  NoPoller = NoPoller
  NoTopic = NoTopic
  Fds <- MCFds
  Limit <- MCLimit
  Slow = {p2}
  QueueSize = 1
INVARIANTS WaitersAreExact NoLostNotification 
PROPERTY MessageWakes
