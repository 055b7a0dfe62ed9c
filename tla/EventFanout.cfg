SPECIFICATION FairSpec
CONSTANTS
  alice = alice   l1 = l1   l2 = l2
  NULL = NULL
  Message <- MCMessage
  Wants <- MCWants
  HookEvents <- MCHookEvents
  Last = 4
  Subs = {alice}
  Hooks = {w1}
  Capacity = 2
  MaxBackoff = 2
  MaxFaults = 2
INVARIANTS
  StreamIsFaithful
  EventAccounted
  HookContract
PROPERTY
  TasksStop
