---------------------------- MODULE MCArbitration ----------------------------
(* Instance of ArbitrationSession: three agents, two answers, evidence that *)
(* ties in strength in two different ways (one verbatim entry at 50% and    *)
(* one inferred entry at 100%), a weak and a mixed list.                    *)
EXTENDS ArbitrationSession

Entry(t, c) == [transformation |-> t, confidence |-> c]

MCEvidences ==
  { <<>>,
    <<Entry("inferred", 100)>>,
    <<Entry("extracted_verbatim", 50)>>,
    <<Entry("extracted_verbatim", 100), Entry("inferred", 20)>> }
=============================================================================
