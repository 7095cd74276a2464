SPECIFICATION FairSpec
CONSTANTS
  r1 = r1
  r2 = r2
  r3 = r3
  Responder <- MCResponder
  NoResponder = NoResponder
  Preempts = FALSE
  Reattach = FALSE
INVARIANT ListsSound
PROPERTY ImplementsQueue
PROPERTY Served
