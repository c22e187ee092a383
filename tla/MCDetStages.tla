---------------------------- MODULE MCDetStages ----------------------------
\* An entry with bytes next to a carry or a borrow, and a short one with letters whose
\* tokens meet a saved token (bA) and a user's token (aX) in another case.
EXTENDS DetStages

MCInputs == {<<224, 255, 0, 126>>, <<66, 97, 120>>}
MCExtras == <<<<97>>, <<97, 88>>>>
MCAutoFiles == <<<<98, 65>>, <<89, 88, 90>>>>
=============================================================================
