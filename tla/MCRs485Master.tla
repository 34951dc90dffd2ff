--------------------------- MODULE MCRs485Master ---------------------------
(***************************************************************************)
(* Small instances of Rs485Master.  Replies of three bytes (id, function,  *)
(* CRC) and a buffer of four: two replies in a row already overrun it.     *)
(***************************************************************************)
EXTENDS Rs485Master

OnePort == {0}
BothPorts == {0, 1}

(* Button 19: one framed request, repeated. *)
SameRequest == {"F5_ForceSingleCoil"}

(* Buttons 17 and 19: a raw request leaves the expected header as it was. *)
RawAndFramed == {"sendRaw", "F5_ForceSingleCoil"}

(* Buttons 18 and 19: one request on each port. *)
OnePerPort == {"F5_ForceSingleCoil", "F21_WriteGenegalReference"}

=============================================================================
