---------------------------- MODULE MCStatusFeed ----------------------------
(* A small instance of StatusFeed: a day of three hours, night, the hour of the digest  *)
(* and the evening, in which the UTC date changes; a buffer of one notice.              *)
EXTENDS StatusFeed
=============================================================================
