------------------------- MODULE MCAsyncLoggingQueue -------------------------
(* The owner and two threads on a queue of two places: all may wait.         *)
EXTENDS AsyncLoggingQueue
=============================================================================
