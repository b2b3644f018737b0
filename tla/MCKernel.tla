------------------------------ MODULE MCKernel ------------------------------
(***************************************************************************)
(* Instances of Kernel for TLC, and what the repository's comments say of  *)
(* the kernel that the model contradicts.                                  *)
(***************************************************************************)
EXTENDS Kernel

Lifecycle == INSTANCE ProcessLifecycle

(* Every step of the kernel is a step of ProcessLifecycle on the status    *)
(* fields: one process at most is Running, and nothing that is Blocking    *)
(* gets the CPU without having been made Ready.                            *)
ImplementsLifecycle == Lifecycle!Spec

(* "be used to distinguish between interrupt from Kernel or user-level     *)
(* Process" (kernel.h:261): if Current_control_flow did, no interrupt of   *)
(* the kernel's own code would be saved as the context of a process.       *)
ContextsAreUser == \A p \in Procs : context[p] = "user"
=============================================================================
