--------------------------- MODULE CertificateLedger ---------------------------
(***************************************************************************)
(* What module Issuance promises, without requests, claims or failures: a  *)
(* certificate appears at once, for an account that is eligible at that    *)
(* moment, with a serial number never seen before, and never for a content *)
(* that has one from less than a period ago.                               *)
(***************************************************************************)
EXTENDS Naturals

CONSTANTS
    Accounts,
    Contents,
    Period,   \* seconds between two certificates for the same content
    Serials,  \* the serial numbers
    Times     \* bound on issued_at

VARIABLES eligible, certificates

vars == <<eligible, certificates>>

Init ==
    /\ eligible = Accounts
    /\ certificates = {}

ChangeEligible ==
    /\ eligible' \in SUBSET Accounts
    /\ UNCHANGED certificates

\* The two issues of a content may be dated in either order.
Apart(s, t) == s + Period <= t \/ t + Period <= s

Issue ==
    /\ \E account \in eligible, serial \in Serials \ {x.serial : x \in certificates},
          content \in Contents, at \in Times :
          /\ \A x \in certificates :
                x.content = content => Apart(x.issued_at, at)
          /\ certificates' = certificates \cup
                {[serial |-> serial, account |-> account, content |-> content,
                  issued_at |-> at]}
    /\ UNCHANGED eligible

Next == ChangeEligible \/ Issue

Spec == Init /\ [][Next]_vars
===============================================================================
