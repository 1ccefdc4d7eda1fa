\* Start, nodes, an end of the loop and a signal at any time.
CONSTANTS
    n1 = n1
    n2 = n2
    n3 = n3
    Nodes <- MCNodes
    First = n1
    Main = Main
    None = None
SPECIFICATION Spec
\* What is undefined stops the model, and zmq_ctx_term waits for ever.
CHECK_DEADLOCK FALSE
INVARIANTS
    UsedWhenThere
    OnlyRouterLeft
