-------------------------- MODULE MCRunnerLifecycle --------------------------
EXTENDS RunnerLifecycle

CONSTANTS s1, s2

TwoSlots == {s1, s2}

\* Two tasks of one slot beside an idle slot.
OneBusy == <<s1, s1>>
=============================================================================
