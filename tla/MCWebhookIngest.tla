--------------------------- MODULE MCWebhookIngest ---------------------------
EXTENDS WebhookIngest, TLC

CONSTANTS s1, plain, r1, r2, p1

Symmetry == Permutations(Requests)

\* Clocks behind ours, in step, ahead, and too far ahead for now.
MCSkews == {-1, 0, 1, 3}

\* A clock that is ahead of ours by a second.
MCAhead == {1}
=============================================================================
