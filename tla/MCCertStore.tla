---------------------------- MODULE MCCertStore ----------------------------
(* Two domains, and ACME certificates that list one or both. *)
EXTENDS CertStore

CONSTANTS a, b

TwoDomains == << a, b >>
SomeRequests == {<< a >>, << a, b >>, << b, a >>}
=============================================================================
