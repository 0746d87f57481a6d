------------------------ MODULE MCAddressMonitoring -------------------------
(***************************************************************************)
(* An instance of AddressMonitoring for TLC in which clients may ask for   *)
(* the default address as well.                                            *)
(***************************************************************************)
EXTENDS AddressMonitoring

Documents == {d \in Snapshots : snapshot[d].state # "absent"}

\* Bound: at any time only one address has documents.
OneAddressAtATime == \A d, e \in Documents : d[1] = e[1]
=============================================================================
