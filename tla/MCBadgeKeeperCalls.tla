------------------------- MODULE MCBadgeKeeperCalls -------------------------
(* One user, two requests and two values are enough for every trace here. *)
EXTENDS BadgeKeeperCalls

MCResults == {<<>>}

=============================================================================
