--------------------------- MODULE MCResearchLoop ---------------------------
EXTENDS ResearchLoop

(* One submitted page and two the searches can bring up as well; the two     *)
(* share a site, so corroboration needs the submitted page to be found too.  *)
MCSite == [p \in {"submitted", "first", "second"} |->
             IF p = "submitted" THEN "a.org" ELSE "b.org"]
=============================================================================
