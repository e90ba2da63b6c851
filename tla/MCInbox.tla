------------------------------- MODULE MCInbox --------------------------------
(***************************************************************************)
(* Values for Inbox.cfg: a sender, one without an id, and an album.        *)
(***************************************************************************)
EXTENDS Inbox

CONSTANTS ann, anonymous, album
===============================================================================
