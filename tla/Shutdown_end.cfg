\* An orderly qsf_exit does not come to its end.
CONSTANTS
    n1 = n1
    n2 = n2
    n3 = n3
    Nodes <- MCNodes
    First = n1
    Main = Main
    None = None
SPECIFICATION Spec
\* What is undefined stops the model, and zmq_ctx_term waits for ever.
CHECK_DEADLOCK FALSE
PROPERTY
    ExitEnds
