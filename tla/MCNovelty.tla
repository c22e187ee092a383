----------------------------- MODULE MCNovelty -----------------------------
\* Two words, one of two bytes, and the traces of a small target.
EXTENDS Novelty

MCWords == {{1, 2}, {3}}
MCTraces == {<<0, 0, 0>>, <<1, 0, 0>>, <<2, 1, 0>>, <<2, 0, 1>>}
=============================================================================
