CONSTANTS
  c1 = c1  c2 = c2  t1 = t1  t2 = t2
  NoConn = NoConn
  Conn <- MCConn
  Topic <- MCTopic
  RetryDelay = 3
  Horizon = 2
  MaxSetback = 2
  MaxForward = 5
  MaxSubs = 2
  MaxPublish = 3
SPECIFICATION FairSpec
INVARIANT TypeOK
INVARIANT ConnectionOwned
INVARIANT SubscriptionsCarried
INVARIANT CommandsInOrder
INVARIANT WaitBounded
PROPERTY NoEarlyRetry
PROPERTY ImplementsLink
PROPERTY LinkRecovers
PROPERTY TopicsServed
