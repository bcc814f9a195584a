--------------------------- MODULE MCGuildGallery ---------------------------
(* The guild galleries with handlers and guilds that are alike.  Keys and   *)
(* galleries only meet in HasKey: once there are images, no second key.     *)
EXTENDS GuildGallery, TLC
Symmetric == Permutations(Handler) \cup Permutations(Guild)
OneKeyForImages == uploads = 0 \/ minted = 1
=============================================================================
