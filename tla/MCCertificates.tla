--------------------------- MODULE MCCertificates ---------------------------
(***************************************************************************)
(* Certificates for TLC: two servers with certificates of their own for    *)
(* the same subject, one whose chain shares the first one's issuer, and    *)
(* one whose chain is longer than the cache.                               *)
(***************************************************************************)
EXTENDS Certificates

Old  == <<"server", "old">>
New  == <<"server", "new">>
Ca   == <<"ca", "root">>
Leaf == <<"other", "leaf">>

MCChains == {<<Old>>, <<New>>, <<Leaf, Ca>>, <<Leaf, Ca, Ca>>}

MCFlawed == {Leaf}
=============================================================================
