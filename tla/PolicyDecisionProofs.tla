-------------------------- MODULE PolicyDecisionProofs --------------------------
(***************************************************************************)
(* What the policy can and cannot decide, for every result, every          *)
(* configuration and every set of categories.  These facts carry the       *)
(* proofs about the checks (CheckPublicationProofs).                       *)
(***************************************************************************)
EXTENDS PolicyDecision, TLAPS

LEMMA OptedInPolicyType ==
  ASSUME NEW row \in PolicyRows, NEW default \in PolicyConfigs,
         NEW eligible \in SUBSET Categories
  PROVE  OptedInPolicy(row, default, eligible) \in PolicyConfigs
  BY DEF OptedInPolicy, PolicyConfigs, PolicyRows, Modes

LEMMA ImplicitPolicyType ==
  ASSUME NEW default \in PolicyConfigs
  PROVE  ImplicitPolicy(default) \in PolicyConfigs
  BY DEF ImplicitPolicy, PolicyConfigs, Modes

LEMMA DecideType ==
  ASSUME NEW result \in VerificationResults, NEW policy
  PROVE  Decide(result, policy) \in Actions
  BY DEF Decide, Recommend, Actions

\* decision.py: a BLOCK needs a confident NOT_SATISFIED verdict, both opt-ins, at
\* least one failed requirement, and every failed requirement's category enforced.
THEOREM BlockNeedsEveryLock ==
  ASSUME NEW result \in VerificationResults, NEW policy \in PolicyConfigs,
         Decide(result, policy) = "BLOCK"
  PROVE  /\ result.verdict = "NOT_SATISFIED" /\ result.confidence # "LOW"
         /\ policy.mode = "enforcement" /\ policy.allow_block
         /\ result.failed # {} /\ result.failed \subseteq policy.enforced
  BY DEF Decide, Recommend, MayBlock, AllEnforced, VerificationResults, Confidences

\* One failed requirement without a category keeps a thread from being blocked,
\* whatever else it failed and whatever is enforced.
THEOREM UncategorisedNeverBlocks ==
  ASSUME NEW result \in VerificationResults, NEW policy \in PolicyConfigs,
         NoCategory \in result.failed
  PROVE  Decide(result, policy) # "BLOCK"
  BY BlockNeedsEveryLock, CategoryAssumption DEF PolicyConfigs

\* A repository that never opted in is never blocked, whatever the global default.
THEOREM ImplicitPolicyNeverBlocks ==
  ASSUME NEW result \in VerificationResults, NEW default \in PolicyConfigs
  PROVE  Decide(result, ImplicitPolicy(default)) # "BLOCK"
  BY ImplicitPolicyType, BlockNeedsEveryLock DEF ImplicitPolicy, PolicyConfigs

\* phase 12: "withdrawing eligibility stops enforcement".  Once a category is not
\* eligible any more, no newly decided BLOCK rests on it, whatever the row says.
THEOREM WithdrawnCategoryNeverBlocks ==
  ASSUME NEW result \in VerificationResults, NEW row \in PolicyRows,
         NEW default \in PolicyConfigs, NEW eligible \in SUBSET Categories,
         NEW category \in result.failed, category \notin eligible
  PROVE  Decide(result, OptedInPolicy(row, default, eligible)) # "BLOCK"
  BY OptedInPolicyType, BlockNeedsEveryLock DEF OptedInPolicy
=============================================================================
