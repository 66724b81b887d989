\* Queues of two frames, one of which must be free before the host goes on.
CONSTANTS
  h = h
  c = c
  lkas = lkas
  HostFrames = {h}
  CarFrames <- MCCarFrames
  BusOf <- MCBusOf
  Blocked = {lkas}
  NoFrame = none
  Capacity = 2
  RxCapacity = 1
  MinSlots = 1
  MaxUnread = 2
SPECIFICATION FairSpec
INVARIANTS
  TypeOK
  NoLostWakeup
  MailboxesWork
PROPERTIES
  ImplementsBusOrder
  HostIsResumed
