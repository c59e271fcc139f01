------------------------ MODULE MCBadgeKeeperOutbox ------------------------
(* A small instance of the refinement, with a crash between any two steps. *)
EXTENDS BadgeKeeperOutbox

CONSTANTS coin, gem

MCResults == {<<>>, <<coin, gem>>}

=============================================================================
