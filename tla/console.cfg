CONSTANTS
    p1 = p1
    p2 = p2
    Readers = {p1}
    Writers = {p2}
    None = None
    INPUT_BUF = 2
    UART_TX_BUF_SIZE = 2
    UINT = 4
    FifoSize = 2
    Sizes = {2}
    x = x
    y = y
    Written = {x, y}
SPECIFICATION Spec
SYMMETRY Symmetric
INVARIANTS  OutputMoves
PROPERTY IsTerminal
