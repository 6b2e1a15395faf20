-------------------------- MODULE MCKernelPreempt ---------------------------
(* Instances of KernelPreempt for TLC: two processes on one processor.     *)
EXTENDS KernelPreempt
=============================================================================
