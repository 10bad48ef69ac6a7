---------------------------- MODULE MCComposite ----------------------------
\* TLC's instance of Composite.
EXTENDS Composite

CONSTANTS ra, rb, s1, s2, s3, q1, q2
=============================================================================
