---------------------------- MODULE ProgramLease ----------------------------
(***************************************************************************)
(* What the K4 may see of program audio.  The transmitter is leased to one *)
(* generation (one FT8/FT4 slot or one SSTV image) at a time; program      *)
(* audio is sent under the lease only; a generation that was released or   *)
(* revoked is spent and never leased again.                                *)
(***************************************************************************)
CONSTANT Gens        \* the generations, 0 not among them

VARIABLES
  lease,   \* the generation the K4 is keyed for, 0 for none
  spent,   \* the generations that may not be leased any more
  said     \* what the last step wrote to the K4

vars == <<lease, spent, said>>

Init == lease = 0 /\ spent = {} /\ said.g \notin Gens

Grant ==
  /\ lease = 0 /\ lease' \in Gens \ spent
  /\ said' = [t |-> "TX", g |-> lease']
  /\ UNCHANGED spent
Stream == lease # 0 /\ said' = [t |-> "audio", g |-> lease] /\ UNCHANGED <<lease, spent>>
\* Whatever is not program audio: silence, "RX;", a voice "TX;", a microphone packet.
IsProgram(item) == item.t \in {"TX", "audio"} /\ item.g \in Gens
Other == ~IsProgram(said')
Release ==
  /\ lease # 0 /\ lease' = 0
  /\ spent \cup {lease} \subseteq spent'
  /\ Other
Revoke == lease' = lease /\ spent \subseteq spent' /\ lease \notin spent' \ spent /\ Other

Next == Grant \/ Stream \/ Release \/ Revoke
Spec == Init /\ [][Next]_vars
=============================================================================
