\* Spec 8: an ingested transaction leaves no gap.  Three sequence numbers
\* in transactions of up to two events, any of them on the stream; recv
\* batches of up to two messages; one failed instruction or ack and one
\* panic of the listener task.
CONSTANTS
    MaxSeq = 3
    MaxBatch = 2
    MaxRecv = 2
    MaxIngestFails = 1
    MaxCrashes = 1
    NULL = NULL
SPECIFICATION Spec
INVARIANT
    AckedFullyWritten
\* The consumer blocks in recv once every message is acked.
CHECK_DEADLOCK FALSE
