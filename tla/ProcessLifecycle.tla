-------------------------- MODULE ProcessLifecycle --------------------------
(***************************************************************************)
(* What the kernel promises about its processes: there is one CPU, a       *)
(* process gets it only from Ready, and leaves it for Ready or Blocking;   *)
(* a blocked process goes through Ready before it runs again.  One step    *)
(* may wake several processes and take the CPU away, as a tick does.       *)
(***************************************************************************)
CONSTANT Procs
VARIABLE status

With(state) == {p \in Procs : status[p] = state}

Init == status = [p \in Procs |-> "Unborn"]

Start(p) == /\ status[p] = "Unborn"
            /\ status' = [status EXCEPT ![p] = "Ready"]

Dispatch(p) == /\ status[p] = "Ready" /\ With("Running") = {}
               /\ status' = [status EXCEPT ![p] = "Running"]

Block(p) == /\ status[p] = "Running"
            /\ status' = [status EXCEPT ![p] = "Blocking"]

MakeReady(S) == /\ S \subseteq With("Running") \cup With("Blocking")
                /\ status' = [p \in Procs |-> IF p \in S THEN "Ready"
                                                         ELSE status[p]]

Next == \/ \E p \in Procs : Start(p) \/ Dispatch(p) \/ Block(p)
        \/ \E S \in SUBSET Procs : MakeReady(S)

Spec == Init /\ [][Next]_status
=============================================================================
