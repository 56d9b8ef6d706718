--------------------------- MODULE MCGlobalTable ---------------------------
(* Instances of GlobalTable for TLC. *)
EXTENDS GlobalTable, TLC

CONSTANTS w, x, y, z, s1, s2, a1

MCNames == {w, x, y, z}
MCStructs == {s1, s2}
MCAggs == {a1}

Pairs(S) == {{a, b} : a, b \in S}

\* Scripts are alike up to the names of what they use, so that permuting
\* identifiers or structures maps the set to itself.
Assignments == {[uses |-> {}, names |-> MCNames, vals |-> Vals, nest |-> 0, aliases |-> 3]}
CallsAndLoops ==
    {[uses |-> AllFeatures \ {"package"}, names |-> N, vals |-> MCStructs \union {Plain},
      nest |-> 1, aliases |-> 2] : N \in Pairs(MCNames)}
Attachments ==
    {[uses |-> AllFeatures, names |-> N, vals |-> {s, Plain}, nest |-> 2, aliases |-> 1] :
        N \in Pairs(MCNames), s \in MCStructs}

MCScripts == Assignments \union CallsAndLoops \union Attachments

Symmetries == Permutations(MCNames) \union Permutations(MCStructs)
=============================================================================
