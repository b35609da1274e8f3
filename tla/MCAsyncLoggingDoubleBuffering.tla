-------------------- MODULE MCAsyncLoggingDoubleBuffering --------------------
(* Lines of which two fit in a buffer, and lines that fit in none; two days.  *)
EXTENDS AsyncLoggingDoubleBuffering
=============================================================================
