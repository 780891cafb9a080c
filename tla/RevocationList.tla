---------------------------- MODULE RevocationList ----------------------------
(***************************************************************************)
(* What the developer CA promises to whoever downloads its revocation      *)
(* list: a sequence of published lists in which every list is an           *)
(* acceptable successor, in the sense of validate_revocation_successor, of *)
(* every list published before it.  Nothing is said here of certificates,  *)
(* of requests or of the database: module Revocation is shown to implement *)
(* this one.                                                               *)
(***************************************************************************)
EXTENDS Naturals

CONSTANT Certificates

Entries == [certificate: Certificates, revoked_at: Nat]

VARIABLES version, generatedAt, entries

listVars == <<version, generatedAt, entries>>

\* No certificate is listed twice (DuplicateRevocation in validate_revocations).
UniqueSerials(list) ==
    \A e, f \in list : e.certificate = f.certificate => e = f

Init ==
    /\ version = 0
    /\ generatedAt = 0
    /\ entries = {}

\* A publication: a higher version, no earlier generation time, and every
\* entry of the previous list unchanged.
Publish ==
    /\ version' > version
    /\ generatedAt' >= generatedAt
    /\ entries \subseteq entries'
    /\ entries' \subseteq Entries
    /\ UniqueSerials(entries')

Spec == Init /\ [][Publish]_listVars
===============================================================================
