SPECIFICATION PromptSpec
CONSTANTS
  N = 3
  Configs <- Relaxed
  MaxSmis = 2
  MaxCalls = 2
INVARIANTS
  RunsWhatWasAsked
