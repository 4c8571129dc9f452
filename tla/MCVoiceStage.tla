---------------------------- MODULE MCVoiceStage ----------------------------
(* VoiceStage on small instances.  All who did not make the room are alike.   *)
EXTENDS VoiceStage, TLC

Alike == Permutations(User \ {CREATOR})
=============================================================================
