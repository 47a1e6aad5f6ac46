------------------------------ MODULE MCRendering ------------------------------
EXTENDS Rendering, TLC

CONSTANTS e1, e2, t1, t2

TwoEntities == {e1, e2}
TwoThreads == {t1, t2}
OneVisible == {e1}
=============================================================================
