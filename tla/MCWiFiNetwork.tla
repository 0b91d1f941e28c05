---------------------------- MODULE MCWiFiNetwork ----------------------------
(* Two configured networks, of which the first (the one fallen back to) is    *)
(* out of reach in the liveness run; scans that show neither, one, or both    *)
(* in either order of strength, or the same one twice.  A byte that counts to *)
(* four keeps the bogus counts of a running (4) and a failed (3) scan apart   *)
(* from the real ones, up to two.                                             *)
EXTENDS WiFiNetwork

MCMemory == <<"home", "work">>
AP(s, r) == [ssid |-> s, rssi |-> r]
MCScans == {<<>>, <<AP("other", 3)>>, <<AP("work", 1), AP("home", 2)>>,
            <<AP("work", 2), AP("home", 1)>>, <<AP("work", 1), AP("work", 2)>>}
FarScans == {<<AP("other", 3)>>, <<AP("work", 1)>>}
=============================================================================
