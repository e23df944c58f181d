SPECIFICATION DagFairSpec
CONSTANTS
    first = first
    click = click
    second = second
    write = write
    gui = gui
    remove = remove
    reset = reset
    Nodes = {first, click, second}
    Saga = Saga
    Tools = {write, gui, remove, reset}
    NoTool = NoTool
    Tool <- MCTool
    Deps <- MCDeps
    Undo <- MCUndo
    Retries <- MCRetries
    Effectful = {write, gui, remove}
    Gated = {gui}
    MaxConcurrency = 2
    MaxExecutions = 2
    MaxCrashes = 1
    MaxLogFaults = 1
INVARIANTS AtMostOnce UndoneInReverse AllUndone
PROPERTIES SagaRefinement Returns
CHECK_DEADLOCK FALSE
