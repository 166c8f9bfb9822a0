------------------------------- MODULE MCDns --------------------------------
(* Dns for a host of the local domain, by its short and by its full name.  *)
EXTENDS Dns

MCLookups == {<<"w">>, <<"w", "d">>}
MCSearched == {<<"w">>}
MCOneName == {<<"w">>}
MCSearchPath == <<"d">>
=============================================================================
