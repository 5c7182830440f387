CONSTANTS
  N = 3
  Shapes <- DeadLoop
  SwitchPhis = FALSE
SPECIFICATION MCSpec
INVARIANT NoReentrantInlining
