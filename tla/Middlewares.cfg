SPECIFICATION Spec
CONSTANTS
  InterruptibleStdin = InterruptibleStdin
  Logging = Logging
  ThreadWatchdog = ThreadWatchdog
  Layout = Layout
  TaskRegistry = TaskRegistry
  Progress = Progress
  Profile = Profile
  Outer <- MainOuter
  Inner <- MainInner
  Interruptible = {TaskRegistry}
  Failing = {Layout, TaskRegistry, Progress, Profile}
INVARIANT ListIsRight
PROPERTY UninstallsInReverse
CHECK_DEADLOCK FALSE
