-------------------------- MODULE MCVoiceDispatch --------------------------
(* Small instances of VoiceDispatch.                                        *)
EXTENDS VoiceDispatch, TLC

Symmetry == Permutations(Workers)
=============================================================================
