--------------------------- MODULE MCEthernetDemo ---------------------------
(***************************************************************************)
(* A small instance of EthernetDemo: a default route, a direct one, one    *)
(* through a gateway with an odd prefix, one with a name; a table of three *)
(* rows is full.                                                           *)
(***************************************************************************)
EXTENDS EthernetDemo

Route(dest, len, gw, named) ==
    [dest |-> dest, len |-> len, gw |-> gw, iface |-> "eth0", named |-> named]

FourRoutes ==
    { Route("0.0.0.0", 0, "gw", FALSE),
      Route("lan", 24, "0.0.0.0", FALSE),
      Route("site", 20, "gw", FALSE),
      Route("host", 32, "gw", TRUE) }

FoundTables == {FourRoutes, {r \in FourRoutes : r.len # 32}}

AtStart == {"CONNECTED", "DISCONNECTED"}

=============================================================================
