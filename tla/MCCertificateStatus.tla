-------------------------- MODULE MCCertificateStatus --------------------------
(* Values and symmetry for the run of CertificateStatus. *)
EXTENDS CertificateStatus, TLC

Says(v, status) == [version |-> v, issuers |-> [i \in Issuers |-> status]]

\* The issuer is active, then retired or revoked.
Chains == {{Says(1, "active"), Says(2, second)} : second \in {"retired", "revoked"}}

\* The later the version, the later it expires.
ExpiryByVersion == [v \in 1 .. MaxVersion |-> v]

Symmetry == Permutations(TrustWorkers)
===============================================================================
