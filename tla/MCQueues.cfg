SPECIFICATION Spec
CONSTANTS
  n1 = n1
  n2 = n2
  n3 = n3
  Node <- MCNode
  Edge <- MCEdge
  Costs <- MCCosts
  p1 = p1
  p2 = p2
  p3 = p3
  c1 = c1
  lib = lib
  app = app
  tool = tool
  Process <- MCProcess
  Unit <- MCUnit
  Deps <- MCDeps
  Jobs = 2
  Configs <- MCConfigs
  Producer <- MCProducer
  Consumer <- MCConsumer
  Quota <- MCQuota
  Bound = 2
  Fetch <- MCFetch
  MaxRetries = 1
  Timeout = 2
  LowSpeedLimit = 2
  BodySize = 2
INVARIANTS
  UnitsComplete
  DependenciesHonoured
  NobodyForgotten
PROPERTIES
  IsBoundedQueue
  SlowOnlyWhenBusy
  QueuesProgress
\* All but the message queue are done in the end.
CHECK_DEADLOCK FALSE
