------------------------------ MODULE MCDnsCache ------------------------------
(***************************************************************************)
(* Small instances of the DNS cache.                                       *)
(***************************************************************************)
EXTENDS DnsCache
===============================================================================
