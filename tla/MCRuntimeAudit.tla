---------------------------- MODULE MCRuntimeAudit ----------------------------
(* Two audits of the timer one after the other, or two at once.             *)
EXTENDS RuntimeAudit
=============================================================================
