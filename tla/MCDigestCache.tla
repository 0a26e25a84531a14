---------------------------- MODULE MCDigestCache ----------------------------
(***************************************************************************)
(* Instance of DigestCache: one worker in each of two processes that share *)
(* the cache; both hash one file.                                          *)
(***************************************************************************)
EXTENDS DigestCache

CONSTANTS p, q

MCOwner == <<p, q>>
MCContent == {<<1, 1>>, <<2, 2>>}
=============================================================================
