------------------------------- MODULE MCBus -------------------------------
EXTENDS Bus, TLC

CONSTANTS c1, c2

MCClients == {c1, c2}
MCNobody == {}
MCSecond == {c2}
MCSymmetry == Permutations(MCClients)

============================================================================
