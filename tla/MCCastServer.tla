---------------------------- MODULE MCCastServer ----------------------------
EXTENDS CastServer, TLC

\* A cfg cannot hold a negative number.
MCMinusOne == -1

\* Speakers are interchangeable: no definition orders or names them.
SpeakerSymmetry == Permutations(Speakers)
=============================================================================
