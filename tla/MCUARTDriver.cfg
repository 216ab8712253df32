\* The main loop writes, and so does the IO thread (the console's messages of
\* the log).  Rings of two or three bytes are filled, emptied and wrapped
\* more than once by the bytes that arrive and are written.
CONSTANTS
    NoByte = 0
    Writers = {"main", "io"}
    BufSz = 3
    MinRx = 3
    MinTx = 3
    AskedSizes = {0, 2}
    WriteSizes = {1, 3}
    MaxIn = 4
    MaxOut = 4
    MaxBegins = 2
SPECIFICATION FairSpec
INVARIANTS ReceivedInOrder ResizedAlone
PROPERTIES TxIsQueue RxIsQueue EverythingSent
CHECK_DEADLOCK FALSE
