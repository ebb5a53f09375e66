---------------------------- MODULE MCAgentSlots -----------------------------
\* AgentSlots for TLC: the two Claude Code sessions are interchangeable.
EXTENDS AgentSlots, TLC

CONSTANTS s1, s2, s3

Symmetry == Permutations({s1, s2})
=============================================================================
