--------------------------- MODULE RibStorage_proofs ---------------------------
(***************************************************************************)
(* Proofs about the RIB storage tier selection, for every set of paths,    *)
(* sizes and memory configurations: the unit's state stays well typed,     *)
(* and what it builds and reports is the spec's resolution of its          *)
(* configuration.                                                          *)
(***************************************************************************)
EXTENDS RibStorage, TLAPS

(* What each variant of StorageConfig holds, by its tag.                   *)
LEMMA VariantFacts ==
    ASSUME NEW c \in StorageConfig
    PROVE  /\ c.type \in {"memory", "disk", "hybrid"}
           /\ c.type = "memory" => c.memory \in MemConfigs
  BY DEF StorageConfig

(* to_rib_config builds a MemoryOnly configuration of the store.           *)
LEMMA ToRibConfigType ==
    ASSUME NEW c \in StorageConfig
    PROVE  ToRibConfig(c) \in RibConfig
  <1>1. CASE c.type = "memory"
    BY <1>1, VariantFacts DEF ToRibConfig, RibConfig
  <1>2. CASE c.type # "memory"
    BY <1>2, StorageConstantsAssumption DEF ToRibConfig, RibConfig
  <1>3. QED
    BY <1>1, <1>2

(* The three functions agree with the spec's resolution table.             *)
LEMMA ResolutionAgrees ==
    ASSUME NEW c \in StorageConfig
    PROVE  [rib |-> ToRibConfig(c), storageType |-> StorageType(c),
            persistent |-> IsPersistent(c)] = SpecResolution(c)
  <1>1. ToRibConfig(c) = SpecResolution(c).rib
    BY DEF ToRibConfig, SpecResolution
  <1>2. IsPersistent(c) = SpecResolution(c).persistent
    BY VariantFacts DEF IsPersistent, SpecResolution
  <1>3. QED
    BY <1>1, <1>2 DEF StorageType, SpecResolution

-----------------------------------------------------------------------------
(* The initial states are well typed.                                      *)
LEMMA TypeInit == Init => TypeOK
  BY DEF Init, TypeOK

(* Every step keeps the variables in their types.                          *)
LEMMA TypeStep == TypeOK /\ [Next]_vars => TypeOK'
  <1> SUFFICES ASSUME TypeOK, [Next]_vars PROVE TypeOK'
    OBVIOUS
  <1>1. CASE Resolve
    <2>1. ToRibConfig(intent) \in RibConfig
      BY ToRibConfigType DEF TypeOK
    <2>2. StorageType(intent) \in {"memory", "disk", "hybrid"}
      BY VariantFacts DEF TypeOK, StorageType
    <2>3. QED
      BY <1>1, <2>1, <2>2 DEF Resolve, TypeOK, IsPersistent
  <1>2. CASE UNCHANGED vars
    BY <1>2 DEF vars, TypeOK
  <1>3. QED
    BY <1>1, <1>2 DEF Next

(* Every reachable state of the storage selection is well typed.           *)
THEOREM TypeCorrect == Spec => []TypeOK
  BY TypeInit, TypeStep, PTL DEF Spec

-----------------------------------------------------------------------------
(* The inductive invariant behind DegradationObservable.                   *)
IInv == TypeOK /\ DegradationObservable

(* Every step keeps IInv.                                                  *)
LEMMA IInvStep == IInv /\ [Next]_vars => IInv'
  <1> SUFFICES ASSUME IInv, [Next]_vars PROVE IInv'
    OBVIOUS
  <1>1. TypeOK'
    BY TypeStep DEF IInv
  <1>2. CASE Resolve
    <2>1. intent' = intent /\ intent \in StorageConfig
      BY <1>2 DEF Resolve, IInv, TypeOK
    <2>2. resolved' = SpecResolution(intent')
      BY <1>2, <2>1, ResolutionAgrees DEF Resolve
    <2>3. QED
      BY <1>1, <2>2 DEF IInv, DegradationObservable
  <1>3. CASE UNCHANGED vars
    BY <1>1, <1>3 DEF vars, IInv, DegradationObservable
  <1>4. QED
    BY <1>2, <1>3 DEF Next

(* A Memory configuration runs on its own memory backend and reports       *)
(* itself non-persistent; a Disk or Hybrid one runs on the default memory  *)
(* backend and still reports its declared type and is_persistent = TRUE,   *)
(* for every storage configuration the unit can be given.                  *)
THEOREM DegradationInvariant == Spec => []DegradationObservable
  <1>1. Init => IInv
    BY TypeInit DEF Init, IInv, DegradationObservable
  <1>2. IInv => DegradationObservable
    BY DEF IInv
  <1>3. QED
    BY <1>1, <1>2, IInvStep, PTL DEF Spec
=============================================================================
