---------------------------- MODULE MCDnsResolver ----------------------------
(***************************************************************************)
(* The DNS resolver for TLC: all constants are given in DnsResolver.cfg.   *)
(***************************************************************************)
EXTENDS DnsResolverProps
=============================================================================
