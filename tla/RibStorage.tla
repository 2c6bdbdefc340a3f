------------------------------ MODULE RibStorage ------------------------------
(***************************************************************************)
(* The storage-tier selection of src/units/rib_unit/storage.rs: the        *)
(* StorageConfig a RIB unit is configured with, and its resolution to the  *)
(* store configuration (to_rib_config) with the two values it reports for  *)
(* observability (storage_type, is_persistent).  Paths, sizes and the     *)
(* store's MemoryOnlyConfig are drawn from small sets of constants.        *)
(***************************************************************************)
EXTENDS Naturals

CONSTANTS
    Paths,         \* values of DiskStorageConfig.path
    Sizes,         \* values of the u64/usize size and interval fields
    MemConfigs,    \* values of rotonda_store's MemoryOnlyConfig
    MemDefault,    \* MemoryOnlyConfig::default()
    NoLimit,       \* max_size_bytes = None
    NoResolution   \* the unit has not built its store yet

ASSUME StorageConstantsAssumption ==
    /\ MemDefault \in MemConfigs
    /\ NoLimit \notin Sizes

VARIABLES
    intent,    \* the unit's StorageConfig
    resolved   \* what the unit built and reported, or NoResolution

vars == <<intent, resolved>>

-----------------------------------------------------------------------------
(* enum SyncMode and enum PlacementStrategy, by their serde names.         *)
SyncMode == {"none", "normal", "full"}

PlacementStrategy ==
    {"recent_in_memory", "frequent_in_memory", "peer_based_memory", "custom"}

(* struct DiskStorageConfig.                                               *)
DiskStorageConfig ==
    [path : Paths, maxSizeBytes : Sizes \cup {NoLimit}, compression : BOOLEAN,
     syncMode : SyncMode, cacheSize : Sizes, compactionIntervalSecs : Sizes]

(* struct HybridStorageConfig.                                             *)
HybridStorageConfig ==
    [disk : DiskStorageConfig, memory : MemConfigs,
     placementStrategy : PlacementStrategy, memoryThreshold : Sizes,
     autoMigration : BOOLEAN]

(* enum StorageConfig, tagged by its serde "type".                         *)
StorageConfig ==
    [type : {"memory"}, memory : MemConfigs]
      \cup [type : {"disk"}, disk : DiskStorageConfig]
      \cup [type : {"hybrid"}, hybrid : HybridStorageConfig]

(* rotonda_store's RibConfig; only the MemoryOnly variant is built here.   *)
RibConfig == [kind : {"MemoryOnly"}, memory : MemConfigs]

(* StorageConfig::to_rib_config: Memory keeps its configuration, Disk and  *)
(* Hybrid fall back to MemoryOnlyConfig::default().                        *)
ToRibConfig(c) ==
    IF c.type = "memory"
    THEN [kind |-> "MemoryOnly", memory |-> c.memory]
    ELSE [kind |-> "MemoryOnly", memory |-> MemDefault]

(* Mutant: is_persistent matches Disk only.                                *)
IsPersistentDiskOnly(c) == c.type = "disk"

(* StorageConfig::is_persistent: matches!(self, Disk(_) | Hybrid(_)).      *)
IsPersistent(c) == c.type \in {"disk", "hybrid"}

(* Mutant: storage_type reports the Rust variant name instead of the      *)
(* serde name.                                                             *)
StorageTypeVariantName(c) ==
    IF c.type = "memory" THEN "Memory" ELSE c.type

(* StorageConfig::storage_type: the variant's name.                        *)
StorageType(c) == c.type

-----------------------------------------------------------------------------
(* The unit holds any configuration it can be given; StorageConfig::default*)
(* is Memory(MemoryOnlyConfig::default()), one of these.                   *)
Init ==
    /\ intent \in StorageConfig
    /\ resolved = NoResolution

(* The unit builds its store from to_rib_config and reports storage_type   *)
(* and is_persistent.                                                      *)
Resolve ==
    /\ resolved = NoResolution
    /\ resolved' = [rib |-> ToRibConfig(intent),
                    storageType |-> StorageType(intent),
                    persistent |-> IsPersistent(intent)]
    /\ UNCHANGED intent

Next == Resolve

Spec == Init /\ [][Next]_vars

-----------------------------------------------------------------------------
(* Every variable holds a value of its type.                               *)
TypeOK ==
    /\ intent \in StorageConfig
    /\ resolved \in {NoResolution}
                      \cup [rib : RibConfig,
                            storageType : {"memory", "disk", "hybrid"},
                            persistent : BOOLEAN]

(* The spec's resolution table (sections 3, 4.5 and 8): a Memory intent    *)
(* runs on its own memory configuration; a Disk or Hybrid intent runs      *)
(* degraded on the default memory backend, yet still reports its declared  *)
(* type and is_persistent = TRUE, so that a caller can tell "declared      *)
(* persistent, running in memory" from a plain memory store.               *)
SpecResolution(c) ==
    [rib |-> [kind |-> "MemoryOnly",
              memory |-> IF c.type = "memory" THEN c.memory ELSE MemDefault],
     storageType |-> c.type,
     persistent |-> c.type # "memory"]

(* What the unit built and reported is the spec's resolution of its        *)
(* configuration, so that the degraded mode is observable.                 *)
DegradationObservable ==
    resolved # NoResolution => resolved = SpecResolution(intent)
=============================================================================
