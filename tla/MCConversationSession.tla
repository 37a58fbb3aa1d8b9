----------------------- MODULE MCConversationSession -----------------------
(* Instances of ConversationSession for TLC.                               *)
EXTENDS ConversationSession, TLC

CONSTANTS a1, a2, a3

InlineSymmetry == Permutations(Asks \ Budgeted)
=============================================================================
