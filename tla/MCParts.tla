------------------------------ MODULE MCParts -------------------------------
(* Two requests of the pages, two server processes, and small numbers of *)
(* everything that is counted.                                           *)
EXTENDS Parts

MCFleeting == {2}
MCCalls == {"c1", "c2"}
MCRanks == {1, 2}
MCTtls == {1, 2}
MCAnnounceAt == {1}
MCSteps == {1, 2}
MCGaps == {1}
MCObservedGaps == {1, 2}
MCDispatchers == {"d1", "d2"}
============================================================================
