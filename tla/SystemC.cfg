CONSTANTS
  p1 = p1
  p2 = p2
  p3 = p3
  Processes = {p1, p2, p3}
  NoProcess = NoProcess
  BUF_SIZE = 2
  SignalValues = {0, 1}
  Programs <- MCPrograms
SPECIFICATION MCSpec
INVARIANTS
  TypeOK
  FifoInOrder
  NobodyForgotten
  EventsAreChanges
PROPERTY WorkIsDone
