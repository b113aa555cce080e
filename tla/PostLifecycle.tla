--------------------------- MODULE PostLifecycle ---------------------------
(***************************************************************************)
(* What the scheduler promises about a delayed post, with nothing said     *)
(* about polling, batches, time, series or the database.                   *)
(*                                                                         *)
(* A post is accepted into the queue; from the queue it is either          *)
(* withdrawn or begun; once begun it is settled at most once.  A post is   *)
(* begun at most once per run of the process, and only a restart puts a    *)
(* begun post back into the queue.  A post begun by an earlier run that    *)
(* the restart did not put back can no longer be settled by this run.      *)
(***************************************************************************)
CONSTANT Posts

VARIABLES
  stage,   (* where each post is in its life                               *)
  begun    (* the posts begun by the current run of the process            *)

vars == <<stage, begun>>

Stages == {"unknown", "queued", "going", "settled", "withdrawn"}

\* Every post of S goes to stage g.
Move(S, g) == stage' = [p \in Posts |-> IF p \in S THEN g ELSE stage[p]]

At(g) == {p \in Posts : stage[p] = g}

-----------------------------------------------------------------------------
Init ==
  /\ stage = [p \in Posts |-> "unknown"]
  /\ begun = {}

Accept(p) ==
  /\ p \in At("unknown")
  /\ Move({p}, "queued")
  /\ UNCHANGED begun

Withdraw(S) ==
  /\ S \subseteq At("queued")
  /\ Move(S, "withdrawn")
  /\ UNCHANGED begun

Begin(p) ==
  /\ p \in At("queued") \ begun
  /\ Move({p}, "going")
  /\ begun' = begun \cup {p}

Settle(p) ==
  /\ p \in At("going") \cap begun
  /\ Move({p}, "settled")
  /\ UNCHANGED begun

Restart(S) ==
  /\ S \subseteq At("going")
  /\ Move(S, "queued")
  /\ begun' = {}

Next ==
  \/ \E p \in Posts : Accept(p) \/ Begin(p) \/ Settle(p)
  \/ \E S \in SUBSET Posts : Withdraw(S) \/ Restart(S)

Spec == Init /\ [][Next]_vars
=============================================================================
