---------------------------- MODULE MCTrustRegistry ----------------------------
(* Values of SignedSets for the runs of TrustRegistry. *)
EXTENDS TrustRegistry, FiniteSets

\* One issuer is enough for a rollback, two for a rotation of the active one.
AllSnapshots ==
    {s \in Snapshots : AtMostOneActive(s.issuers)}

\* The Root signed anything at all, several snapshots per version included.
AnythingSigned == {AllSnapshots}

\* The Root signed three versions, each a successor of all before, the first
\* of which makes the lowest issuer active.
Chains ==
    LET Signed(v) == {s \in AllSnapshots : s.version = v}
        After(S, v) == {t \in Signed(v) : \A s \in S : ValidSuccessor(s, t)}
        First == {s \in Signed(1) : s.issuers[1] = "active"}
    IN  UNION {{{s, t, u} : u \in After({s, t}, 3)} :
                  <<s, t>> \in {p \in First \X Signed(2) :
                                  ValidSuccessor(p[1], p[2])}}
===============================================================================
