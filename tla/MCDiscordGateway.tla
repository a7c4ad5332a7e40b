--------------------------- MODULE MCDiscordGateway ---------------------------
(* DiscordGateway on small instances. *)
EXTENDS DiscordGateway
CONSTANTS ann, bob
=============================================================================
