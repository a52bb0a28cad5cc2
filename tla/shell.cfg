SPECIFICATION Spec
CONSTANTS
    NPROC = 6
    NOFILE = 6
    MAXARGS = 4
    MaxLines = 2
    Commands <- SmallCommands
    BadLines <- SmallBadLines
    Found = {"cat", "yes", "echo"}
    Reading = {"cat"}
    Writing = {"yes", "cat"}
CHECK_DEADLOCK FALSE
INVARIANTS RunsWhatWasTyped Wired
PROPERTY PromptReturns
