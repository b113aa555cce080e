---------------------------- MODULE ChannelSend ----------------------------
(***************************************************************************)
(* What Dispatcher.Send (internal/publish/publish.go) promises executeSend *)
(* about a post and a channel, whatever requests the platform takes.       *)
(* SendJob uses it, Publishers is how the five publishers keep it.         *)
(***************************************************************************)

CONSTANT Sends  (* calls of Dispatcher.Send *)

VARIABLES
  live,    (* the sends whose context lives                                  *)
  flying,  (* the sends of which a platform has a request before it          *)
  out,     (* the sends of which something came out in the channel           *)
  told     (* per send, its Result: "none" as yet, "ok" or "error"           *)

vars == <<live, flying, out, told>>

Init ==
  /\ live = Sends
  /\ flying = {}
  /\ out = {}
  /\ told = [s \in Sends |-> "none"]

\* Several sends may share a context.
ContextEnds ==
  /\ live' \subseteq live
  /\ UNCHANGED <<flying, out, told>>

\* No request leaves on a dead context, nor after the result.
Request(s) ==
  /\ s \in live
  /\ told[s] = "none"
  /\ flying' = flying \cup {s}
  /\ UNCHANGED <<live, out, told>>

\* The platform carries the request out or not, when it likes: nothing calls a
\* request back that has left.
ComesOut(s) ==
  /\ s \in flying
  /\ out' = out \cup {s}
  /\ flying' = flying \ {s}
  /\ UNCHANGED <<live, told>>

Refused(s) ==
  /\ s \in flying
  /\ flying' = flying \ {s}
  /\ UNCHANGED <<live, out, told>>

\* After an error something may still come out; ok is told of what is out, and
\* then nothing more will.
Tell(s, result) ==
  /\ told[s] = "none"
  /\ result = "ok" => s \in out \ flying
  /\ told' = [told EXCEPT ![s] = result]
  /\ UNCHANGED <<live, flying, out>>

Next ==
  \/ ContextEnds
  \/ \E s \in Sends :
       \/ Request(s) \/ ComesOut(s) \/ Refused(s)
       \/ \E result \in {"ok", "error"} : Tell(s, result)

Spec == Init /\ [][Next]_vars
=============================================================================
