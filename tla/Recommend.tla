------------------------------ MODULE Recommend ------------------------------
(***************************************************************************)
(* The operator's profile recommendation (src/controllers/recommend.go):  *)
(* from the list of PtpConfig objects and a node, the profiles the node  *)
(* runs.  The recommend rules of all PtpConfigs are sorted by priority,  *)
(* the node takes the profile names of the matching rules of the best    *)
(* priority, and every profile with such a name is copied out of the     *)
(* PtpConfigs with its name qualified as cr_profile and its cross-profile *)
(* references (controllingProfile, haProfiles) resolved to qualified     *)
(* names; the result is sorted by name.                                  *)
(*                                                                         *)
(* Names are natural numbers of one width, so that the order of the       *)
(* string cr + "_" + profile is the order of the pair <<cr, profile>>.   *)
(* A reference value is the result of strings.SplitN(value, "_", 2): a   *)
(* one-element tuple for a plain name, a pair for a prefixed one.  Profile *)
(* names contain no "_", and CR names cannot (they are DNS names).       *)
(*                                                                         *)
(* The reconcile that calls getRecommendNodePtpProfiles is one step of    *)
(* the state machine; its input is the PtpConfig list it reads.           *)
(***************************************************************************)
EXTENDS Integers, Sequences, SequencesExt, FiniteSets, TLC

CONSTANTS
  CRNames,        \* PtpConfig names
  ProfileNames,   \* profile names
  NodeNames,      \* node names
  LabelKeys,      \* node label keys
  Priorities,     \* recommend priorities
  Nil,            \* a nil pointer or an absent setting
  TheNode,        \* the node reconciled: [name, labels]
  Inputs          \* the PtpConfig lists the reconcile may read

(* Values of controllingProfile and elements of haProfiles. *)
Refs == {<<p>> : p \in ProfileNames} \cup (CRNames \X ProfileNames)
Settings == [controllingProfile : Refs \cup {Nil}, haProfiles : Seq(Refs)]
MatchRule == [nodeName : NodeNames \cup {Nil}, nodeLabel : LabelKeys \cup {Nil}]
PtpRecommend == [profile : ProfileNames \cup {Nil}, priority : Priorities \cup {Nil},
                 match : Seq(MatchRule)]
PtpProfile == [name : ProfileNames \cup {Nil}, settings : Settings]
PtpConfig == [name : CRNames, profile : Seq(PtpProfile),
              recommend : Seq(PtpRecommend)]

ASSUME
  /\ Priorities \subseteq Nat /\ CRNames \subseteq Nat /\ ProfileNames \subseteq Nat
  /\ TheNode \in [name : NodeNames, labels : SUBSET LabelKeys]
  /\ Inputs \subseteq Seq(PtpConfig)

(***************************************************************************)
(* Profile references                                                     *)
(***************************************************************************)
(* A plausible slip: the two parts of the qualified name swapped. *)
QualifySwapped(crName, profileName) == <<profileName, crName>>

qualifyProfileName(crName, profileName) == <<crName, profileName>>

profileExistsInCR(crName, profileName, list) ==
  \E i \in DOMAIN list :
    /\ list[i].name = crName
    /\ \E j \in DOMAIN list[i].profile : list[i].profile[j].name = profileName

(* The index of the first PtpConfig that has a profile named value. *)
FirstCRWithProfile(value, list) ==
  SelectInSeq(list, LAMBDA cfg :
    \E j \in DOMAIN cfg.profile : <<cfg.profile[j].name>> = value)

(* A plausible slip: a prefixed value is kept without checking that the  *)
(* CR has the profile.                                                    *)
resolveTrustPrefix(value, list) ==
  LET i == FirstCRWithProfile(value, list) IN
  CASE Len(value) = 2 -> [ref |-> value, unresolved |-> FALSE]
    [] i # 0 -> [ref |-> <<list[i].name, value[1]>>, unresolved |-> FALSE]
    [] OTHER -> [ref |-> value, unresolved |-> TRUE]

(* The resolved value, and whether it was left unresolved (which sets   *)
(* the ProfileReferenceValid=False condition on the referencing CR).    *)
resolveProfileReference(value, list) ==
  LET i == FirstCRWithProfile(value, list) IN
  CASE Len(value) = 2 /\ profileExistsInCR(value[1], value[2], list)
         -> [ref |-> value, unresolved |-> FALSE]
    [] i # 0
         -> [ref |-> qualifyProfileName(list[i].name, value[1]), unresolved |-> FALSE]
    [] OTHER
         -> [ref |-> value, unresolved |-> TRUE]

qualifyCrossProfileReferences(settings, list) ==
  LET cp == IF settings.controllingProfile # Nil
              THEN resolveProfileReference(settings.controllingProfile, list)
              ELSE [ref |-> Nil, unresolved |-> FALSE]
      ha == [k \in DOMAIN settings.haProfiles |->
               resolveProfileReference(settings.haProfiles[k], list)]
  IN [settings |-> [controllingProfile |-> cp.ref,
                    haProfiles |-> [k \in DOMAIN ha |-> ha[k].ref]],
      unresolved |-> cp.unresolved \/ \E k \in DOMAIN ha : ha[k].unresolved]

(***************************************************************************)
(* Recommended profile names                                              *)
(***************************************************************************)
nodeMatches(node, matchRuleList) ==
  \E m \in Range(matchRuleList) :
    \/ m.nodeName # Nil /\ m.nodeName = node.name
    \/ m.nodeLabel # Nil /\ m.nodeLabel \in node.labels

(* A plausible slip: the sort comparator turned around. *)
PriorityGreater(a, b) ==
  IF a.priority # Nil /\ b.priority # Nil THEN a.priority > b.priority ELSE a.priority # Nil

(* sort.Slice order of the recommend rules: priority 0 first, rules     *)
(* without a priority last.                                              *)
PriorityLess(a, b) ==
  IF a.priority # Nil /\ b.priority # Nil THEN a.priority < b.priority ELSE a.priority # Nil

(* One iteration of the loop over the sorted rules.  Both switch cases   *)
(* after the match test dereference r.Priority: a nil one panics, which  *)
(* ends the reconcile.                                                   *)
RecommendRule(st, r, node) ==
  CASE st.panicked \/ r.profile = Nil \/ r.match = <<>> \/ ~nodeMatches(node, r.match) -> st
    [] r.priority = Nil -> [st EXCEPT !.panicked = TRUE]
    [] ~st.foundPolicy ->
         [st EXCEPT !.names = @ \cup {r.profile}, !.foundPolicy = TRUE, !.priority = r.priority]
    [] r.priority = st.priority -> [st EXCEPT !.names = @ \cup {r.profile}]
    [] OTHER -> st

(* The loop with its foundPolicy and priority (-1 before a policy). *)
RecommendLoop(rs, node) ==
  FoldLeft(LAMBDA st, r : RecommendRule(st, r, node),
           [names |-> {}, foundPolicy |-> FALSE, priority |-> -1, panicked |-> FALSE], rs)

getRecommendProfilesNames(list, node) ==
  RecommendLoop(SortSeq(FlattenSeq([i \in DOMAIN list |-> list[i].recommend]), PriorityLess), node)

(***************************************************************************)
(* Recommended profiles                                                   *)
(***************************************************************************)
(* The profiles of cfg whose (unqualified) name was recommended. *)
RecommendedOf(cfg, names) ==
  SelectSeq(cfg.profile, LAMBDA p : p.name # Nil /\ p.name \in names)

(* The copy of a recommended profile, with qualified name and references. *)
ProfileCopy(cfg, profile, list) ==
  LET q == qualifyCrossProfileReferences(profile.settings, list)
  IN  [profile |-> [name |-> qualifyProfileName(cfg.name, profile.name),
                    settings |-> q.settings],
       unresolved |-> q.unresolved]

(* A plausible slip: the result sorted by the profile's own name, as    *)
(* the recommended names are, instead of the qualified one.              *)
QualifiedNameLessProfileOnly(a, b) == a.name[2] < b.name[2]

QualifiedNameLess(a, b) ==
  a.name[1] < b.name[1] \/ (a.name[1] = b.name[1] /\ a.name[2] < b.name[2])

(* ok = FALSE is the "Failed to find all the recommended profiles" error. *)
(* invalid: the PtpConfigs that got ProfileReferenceValid=False.          *)
(* The profiles of the recommended names, qualified and resolved. *)
RecommendedProfiles(list, names) ==
  LET copies == FlattenSeq([i \in DOMAIN list |->
                  LET sel == RecommendedOf(list[i], names)
                  IN  [j \in DOMAIN sel |-> [cr |-> list[i].name, name |-> sel[j].name,
                        copy |-> ProfileCopy(list[i], sel[j], list)]]])
      foundNames == {c.name : c \in Range(copies)}
      invalid == {c.cr : c \in {c \in Range(copies) : c.copy.unresolved}}
  IN  IF foundNames # names
        THEN [ok |-> FALSE, panicked |-> FALSE, profiles |-> <<>>, invalid |-> invalid]
        ELSE [ok |-> TRUE, panicked |-> FALSE, invalid |-> invalid,
              profiles |-> SortSeq([k \in DOMAIN copies |-> copies[k].copy.profile],
                                   QualifiedNameLess)]

(* ok = FALSE is the "Failed to find all the recommended profiles" error; *)
(* panicked: the name loop dereferenced a nil priority.  invalid: the    *)
(* PtpConfigs that got ProfileReferenceValid=False.                      *)
getRecommendProfiles(list, node) ==
  LET sel == getRecommendProfilesNames(list, node)
  IN  IF sel.panicked
        THEN [ok |-> FALSE, panicked |-> TRUE, profiles |-> <<>>, invalid |-> {}]
        ELSE RecommendedProfiles(list, sel.names)

(***************************************************************************)
(* The reconcile                                                          *)
(***************************************************************************)
VARIABLES
  items,    \* the PtpConfigList read by the reconcile
  done,     \* whether getRecommendNodePtpProfiles has returned
  result    \* what it returned

vars == <<items, done, result>>

Init ==
  /\ items \in Inputs
  /\ done = FALSE
  /\ result = [ok |-> FALSE, panicked |-> FALSE, profiles |-> <<>>, invalid |-> {}]

getRecommendNodePtpProfiles ==
  /\ ~done
  /\ result' = getRecommendProfiles(items, TheNode)
  /\ done' = TRUE
  /\ UNCHANGED items

Next == getRecommendNodePtpProfiles

Spec == Init /\ [][Next]_vars
-----------------------------------------------------------------------------
(* What the recommendation should compute, stated without the loop.      *)
MatchesNode(node, r) ==
  \E m \in Range(r.match) : m.nodeName = node.name \/ m.nodeLabel \in node.labels

(* The rules of cfg that name a profile and match the node. *)
EligibleOf(cfg) ==
  {r \in Range(cfg.recommend) : r.profile # Nil /\ MatchesNode(TheNode, r)}

Eligible == UNION {EligibleOf(items[i]) : i \in DOMAIN items}

(* The matching rules that have a priority. *)
Prioritized == {r \in Eligible : r.priority # Nil}

BestPriority == Min({r.priority : r \in Prioritized})

(* The names of the matching rules of the best priority. *)
WinningNames ==
  IF Prioritized = {} THEN {} ELSE {r.profile : r \in {r \in Prioritized : r.priority = BestPriority}}

ProfilesOf(cfg) == {p.name : p \in Range(cfg.profile)}

Defined == UNION {ProfilesOf(items[i]) : i \in DOMAIN items}

(* The profile a reference value denotes exists. *)
Denotes(ref) ==
  IF Len(ref) = 1 THEN ref[1] \in Defined
  ELSE \E i \in DOMAIN items : items[i].name = ref[1] /\ ref[2] \in ProfilesOf(items[i])

RefsOf(settings) ==
  Range(settings.haProfiles) \cup
    (IF settings.controllingProfile = Nil THEN {} ELSE {settings.controllingProfile})

TypeOK ==
  /\ items \in Seq(PtpConfig)
  /\ done \in BOOLEAN
  /\ result \in [ok : BOOLEAN, panicked : BOOLEAN, invalid : SUBSET CRNames,
                 profiles : Seq([name : CRNames \X ProfileNames, settings : Settings])]

(* getRecommendProfilesNames, which sorts the rules of all PtpConfigs by *)
(* priority and loops over them with foundPolicy and priority, selects   *)
(* exactly the profile names of the matching rules of the best (lowest)  *)
(* priority; getRecommendProfiles fails exactly when one of them is not  *)
(* the name of any profile.                                              *)
RecommendMatchesReference ==
  done /\ ~result.panicked =>
    /\ result.ok = (WinningNames \subseteq Defined)
    /\ result.ok => {p.name[2] : p \in Range(result.profiles)} = WinningNames

(* resolveProfileReference turns every controllingProfile and haProfiles *)
(* entry of a recommended profile into the qualified name of an existing *)
(* profile, and flags a PtpConfig with ProfileReferenceValid=False        *)
(* exactly when one of its recommended profiles refers to a profile that  *)
(* does not exist.                                                        *)
ReferencesResolved ==
  done /\ ~result.panicked =>
    /\ \A p \in Range(result.profiles) : \A ref \in RefsOf(p.settings) :
         (Len(ref) = 2 /\ Denotes(ref)) \/ p.name[1] \in result.invalid
    /\ result.invalid =
         {items[i].name : i \in {i \in DOMAIN items :
            \E p \in Range(items[i].profile) :
              p.name \in WinningNames /\ \E ref \in RefsOf(p.settings) : ~Denotes(ref)}}

(* A recommended profile holds a plain reference to a profile name that *)
(* two PtpConfigs of the list define: resolveProfileReference takes the  *)
(* first in list order.                                                   *)
AmbiguousReference ==
  \E i \in DOMAIN items : \E p \in Range(items[i].profile) :
    p.name \in WinningNames /\ \E ref \in RefsOf(p.settings) :
      Len(ref) = 1 /\ Cardinality({j \in DOMAIN items : ref[1] \in ProfilesOf(items[j])}) > 1

(* The result for the same PtpConfigs listed the other way round agrees. *)
OrderAgrees(alt) ==
  /\ alt.ok = result.ok /\ alt.panicked = result.panicked /\ alt.invalid = result.invalid
  /\ {q.name : q \in Range(alt.profiles)} = {q.name : q \in Range(result.profiles)}
  /\ ~AmbiguousReference => alt.profiles = result.profiles

(* The order of a cached PtpConfig List is not fixed, and the daemon     *)
(* numbers the profiles it gets (runIDs, config paths) in the order of   *)
(* the result.  The final sort.SliceStable by qualified name             *)
(* (recommend.go:168) makes the node's profile list, with every setting,  *)
(* independent of the list order; the only order dependence left is the  *)
(* first-match resolution of a plain reference to a name two PtpConfigs  *)
(* define (recommend.go:48), which may change a reference but not which   *)
(* profiles the node gets, the error or the flagged PtpConfigs.           *)
ListOrderIrrelevant ==
  done => OrderAgrees(getRecommendProfiles(Reverse(items), TheNode))

(* A profile name is unique only within its PtpConfig, and the qualified *)
(* name cr_profile is what makes it unique on the node (spec section 3,  *)
(* recommend.go:18).  So when a PtpConfig wins the node with a rule for   *)
(* a profile it defines itself, a same-named profile of another          *)
(* PtpConfig, whose own rules did not win, should not be applied too.     *)
WinningRuleOwnsProfile ==
  LET Wins(i, p) == \E r \in EligibleOf(items[i]) : r.priority = BestPriority /\ r.profile = p
  IN  done /\ result.ok =>
        \A q \in Range(result.profiles) :
          (\E i \in DOMAIN items : Wins(i, q.name[2]) /\ q.name[2] \in ProfilesOf(items[i]))
            => \E i \in DOMAIN items : items[i].name = q.name[1] /\ Wins(i, q.name[2])
====
