------------------------------ MODULE MCPipeline ------------------------------
(* One scan, which Harbor asks about at two pods, for the model checker.   *)
(* Two of its findings have attestations that suppress them, so that grype *)
(* reports any of them or neither; the third, without a severity, has one  *)
(* about another image and one that is no OpenVEX document.                *)
EXTENDS HarborReport, TLC

CONSTANT image

OneScan == {image}

Cve(id, severity) == [id |-> id, severity |-> severity]

Matches == image :> {Cve("cve1", "Critical"), Cve("cve2", "Negligible"), Cve("cve3", "")}

Attestation(type, subject, suppresses) ==
    [type |-> type, subject |-> subject, suppresses |-> suppresses]

Layers == image :>
    {Attestation("openvex", "image", {id}) : id \in {"cve1", "cve2"}}
    \union {Attestation("openvex", "other", {"cve3"}), Attestation("other", "image", {"cve3"})}

Id(id)      == [id |-> id, plus |-> FALSE]
OrLater(id) == [id |-> id, plus |-> TRUE]

Packages == image :>
    << <<[kind |-> "expression", ids |-> <<Id("GPL-2.0"), OrLater("GPL-2.0"), Id("MIT")>>],
         [kind |-> "value", text |-> "MIT"]>>,
       <<>>,
       <<[kind |-> "value", text |-> "MIT"], [kind |-> "unparsable", text |-> "foo"]>>,
       <<[kind |-> "hash"]>> >>
===============================================================================
