---------------------------- MODULE ThreadBodies ----------------------------
(***************************************************************************)
(* What the threads of FIFOS do between the context switches of Fifos:     *)
(* they print, and when their body has returned they give back their       *)
(* stacks.  The screen and the heap share no variable, so each has its own *)
(* behaviours: job says which, and the other's variables stay as they are. *)
(***************************************************************************)
EXTENDS HeapFrees, Screen

VARIABLE job

Init_bodies == job \in {"print", "free"} /\ FreesInit /\ ScreenInit

Next_bodies ==
  /\ UNCHANGED job
  /\ \/ job = "print" /\ ScreenNext /\ UNCHANGED frees_vars
     \/ job = "free" /\ FreesNext /\ UNCHANGED screen_vars

Spec_bodies == Init_bodies /\ [][Next_bodies]_<<frees_vars, screen_vars, job>>

=============================================================================
