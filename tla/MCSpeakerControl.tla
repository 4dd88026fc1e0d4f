-------------------------- MODULE MCSpeakerControl --------------------------
EXTENDS SpeakerControl, TLC

\* No definition tells one speaker from another.
SpeakerSymmetry == Permutations(Speakers)
=============================================================================
