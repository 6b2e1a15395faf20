------------------------------ MODULE MCKernel ------------------------------
(* Instances of Kernel for TLC: which system calls the programs make. *)
EXTENDS Kernel

AllCalls == SyscallNames
=============================================================================
