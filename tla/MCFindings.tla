----------------------------- MODULE MCFindings -----------------------------
(* Instance of Findings: all sets of at most three findings over rules on   *)
(* both sides of every severity boundary, compared under two orders.        *)
EXTENDS Findings

MCRules == {ForkBomb, RemoteExec, ContainerEscape,
            CredentialAccess, PkgInstall, Obfuscation}
MCFirings == {F \in SUBSET (MCRules \X Detail) : Cardinality(F) <= 3}
=============================================================================
