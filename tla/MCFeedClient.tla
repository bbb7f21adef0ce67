---------------------------- MODULE MCFeedClient ----------------------------
(* FeedClient with constants given by the .cfg files.                       *)
EXTENDS FeedClient
=============================================================================
