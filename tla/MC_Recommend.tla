---------------------------- MODULE MC_Recommend ----------------------------
(* Lists of up to two PtpConfigs (in either order) for one node.          *)
(* SelectionInputs: every CR has no, one or both of two profiles and no   *)
(* or one recommend rule: for profile 5 or 6 at priority 0 or 1 matching *)
(* by the node's name, a label the node has, one it lacks, or with no    *)
(* match rule; a rule without a profile; or a rule without a priority    *)
(* that matches the node or does not.  ReferenceInputs: both CRs          *)
(* recommend profile 5 to the node, and profile 5 carries any            *)
(* controllingProfile, any single haProfiles entry, or both the same.    *)
EXTENDS Recommend

CONSTANTS n1, n2, l1, l2, NilValue

MCNode == [name |-> n1, labels |-> {l1}]

NoSettings == [controllingProfile |-> Nil, haProfiles |-> <<>>]

Matches ==
  {<<>>} \cup {<<m>> : m \in {[nodeName |-> n1, nodeLabel |-> Nil],
                              [nodeName |-> Nil, nodeLabel |-> l1],
                              [nodeName |-> Nil, nodeLabel |-> l2]}}

Rules ==
  {<<>>, <<[profile |-> Nil, priority |-> 0,
             match |-> <<[nodeName |-> n1, nodeLabel |-> Nil]>>]>>}
  \cup {<<r>> : r \in [profile : ProfileNames, priority : Priorities, match : Matches]}
  \cup {<<[profile |-> 5, priority |-> Nil, match |-> <<[nodeName |-> n1, nodeLabel |-> Nil]>>]>>,
        <<[profile |-> 6, priority |-> Nil, match |-> <<[nodeName |-> Nil, nodeLabel |-> l2]>>]>>}

ProfileSets(S5) ==
  {<<>>, <<[name |-> 6, settings |-> NoSettings]>>}
  \cup {<<p>> : p \in S5} \cup {<<p, [name |-> 6, settings |-> NoSettings]>> : p \in S5}

Lists(CRs(_)) ==
  {<<>>} \cup {<<x>> : x \in CRs(1) \cup CRs(2)}
  \cup {<<x, y>> : x \in CRs(1), y \in CRs(2)} \cup {<<y, x>> : x \in CRs(1), y \in CRs(2)}

SelectionCR(c) ==
  [name : {c}, profile : ProfileSets({[name |-> 5, settings |-> NoSettings]}),
   recommend : Rules]

SelectionInputs == Lists(SelectionCR)

Profile5 ==
  {[name |-> 5, settings |-> s] :
     s \in {[controllingProfile |-> r, haProfiles |-> <<>>] : r \in Refs \cup {Nil}}
          \cup {[controllingProfile |-> Nil, haProfiles |-> <<r>>] : r \in Refs}
          \cup {[controllingProfile |-> r, haProfiles |-> <<r>>] : r \in Refs}}

ReferenceCR(c) ==
  [name : {c}, profile : ProfileSets(Profile5),
   recommend : {<<[profile |-> 5, priority |-> 0,
                   match |-> <<[nodeName |-> n1, nodeLabel |-> Nil]>>]>>}]

ReferenceInputs == Lists(ReferenceCR)

\* Both families: every selection case and every reference case.
AllInputs == SelectionInputs \cup ReferenceInputs
=============================================================================
