--------------------------- MODULE MC_RunLifecycle ---------------------------
\* Two detached runs; one of them has --verify.
EXTENDS RunLifecycle

CONSTANTS r1, r2

TwoRuns == {r1, r2}
OnlyR1 == {r1}
NoRuns == {}
=============================================================================
