-------------------------- MODULE MCServerDirectory --------------------------
(* With as many players the second server is the less loaded one.  The two   *)
(* hashes point at each of the servers first, and at the other one second.   *)
EXTENDS ServerDirectory

MCMaxOnline == <<2, 3>>
MCHash == {<<0, 0>>, <<1, 1>>}
=============================================================================
