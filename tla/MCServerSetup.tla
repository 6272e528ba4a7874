--------------------------- MODULE MCServerSetup ---------------------------
(* ServerSetup for TLC: two addresses, and Unix servers that share a path. *)
EXTENDS ServerSetup, TLC

MCAddrInfo == <<"v4", "v6">>
\* u2's name is longer than sun_path and is cut to u1's.
MCsockname == "u1" :> "name" @@ "u2" :> "longname"
MCsun_path == "u1" :> "name" @@ "u2" :> "name"
=============================================================================
