----------------------------- MODULE MCDhcpServer -----------------------------
(***************************************************************************)
(* A statement of the repository about the DHCP servers, for TLC.          *)
(***************************************************************************)
EXTENDS DhcpServer

\* net_backend.rs:30 says of setup_dhcp that it will "start a DHCP server handing
\* out the pool": the server thread of the group that is up does serve it.
GroupIsServed == current > 0 => server[current] # "failed"

===============================================================================
