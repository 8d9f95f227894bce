------------------------------ MODULE MCJournal ------------------------------
EXTENDS Journal, TLC

CONSTANTS w1, w2

MCEmpty == {<< <<>> >>}
MCFromHere == {NoCursor}

WriterSymmetry == Permutations(Writers)
==============================================================================
