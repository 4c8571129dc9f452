---------------------------- MODULE MCVoiceRoom ----------------------------
(* VoiceRoom on small instances: the host has a tab on one instance, every    *)
(* guest has one on each.                                                     *)
EXTENDS VoiceRoom

Tabs == {<<CREATOR, CHOOSE i \in Instance : TRUE>>} \cup (User \ {CREATOR}) \X Instance
=============================================================================
