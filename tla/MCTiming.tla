---------------------------- MODULE MCTiming --------------------------------
EXTENDS MCMachine

\* HDMA has the room in the small frames of these runs that it has in the real one.
ASSUME RoomAssumption == \E s \in Speeds : HdmaFits(s)
=============================================================================
