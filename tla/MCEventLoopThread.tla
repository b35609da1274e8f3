------------------------- MODULE MCEventLoopThread --------------------------
(* The owner, another thread and three functors: both threads may be between *)
(* the push and the WakeUp at once, and the third functor is queued by a     *)
(* functor; an eventfd limit of 1 makes a second write fail.                 *)
EXTENDS EventLoopThread
=============================================================================
