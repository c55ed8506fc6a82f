----------------------- MODULE MCContributionPipeline -----------------------
(***************************************************************************)
(* Instance of ContributionPipeline: one model pass seen by a worker that  *)
(* hosts a two-source hop ("join") and a one-source hop ("next"), and has  *)
(* no routing for a third ("stray").  Its plan may still be on its way.    *)
(* Submissions choose their contributions freely, so several of them may   *)
(* be duplicates.                                                          *)
(***************************************************************************)
EXTENDS ContributionPipeline, TLC

CONSTANTS s1, s2, s3, s4

MCSubmissions == {s1, s2, s3, s4}
MCThreeSubmissions == {s1, s2, s3}
MCKeys == {"join", "next", "stray"}
MCVersions == {1}
MCVersionOf == [k \in MCKeys |-> 1]

MCInputRouting ==
  [k \in {"join", "next"} |->
     IF k = "join" THEN [h \in {"A", "B"} |-> IF h = "A" THEN {"x"} ELSE {"y", "z"}]
                   ELSE [h \in {"A"} |-> {"x"}]]

Bring(k, h, ts) == [key |-> k, source |-> h, tensors |-> ts]

\* Partial and whole contributions of each source.
MCContributions ==
  {Bring("join", "A", {"x"}), Bring("join", "B", {"y"}), Bring("join", "B", {"y", "z"}),
   Bring("join", "B", {"z"}), Bring("next", "A", {"x"})}

\* The whole contribution of each source, one from a wrong source and one to
\* a hop that has no routing.
MCWholeContributions ==
  {Bring("join", "A", {"x"}), Bring("join", "B", {"y", "z"}), Bring("join", "C", {"x"}),
   Bring("next", "A", {"x"}), Bring("stray", "A", {"x"})}

MCSymmetry == Permutations(MCSubmissions)
=============================================================================
