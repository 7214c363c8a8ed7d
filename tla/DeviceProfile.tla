--------------------------- MODULE DeviceProfile ---------------------------
(***************************************************************************)
(* What a device is: convilyn_edge/probe.py, the storage tier chosen for   *)
(* it (storage/selection.py), and the runner its silicon calls for         *)
(* (runners/registry.py, openai_compat.py and qnn.py).                     *)
(*                                                                         *)
(* A host is what the probe reads of it: None for a read that fails or is  *)
(* not there.  Memory is in KiB and pages, storage in MiB.                 *)
(***************************************************************************)
EXTENDS Naturals, Sequences, TLC

CONSTANTS
  None,
  NotText        (* a text that is no number                               *)

-----------------------------------------------------------------------------
(* probe_device *)

Silicon(host) ==
  IF host.tegra THEN "jetson_orin"
  ELSE IF host.cpuinfo = "qualcomm" THEN "snapdragon_x" ELSE "generic"

FallbackRam == 1024

(* _detect_ram_mb: zero is not believed.                                   *)
Ram(host) ==
  LET total == (host.pageSize * host.pages) \div 1024
  IN  IF host.pages = None THEN FallbackRam ELSE IF total = 0 THEN FallbackRam ELSE total

(* _detect_vram_mb: the first line nvidia-smi prints that is not blank.    *)
Vram(host) ==
  IF host.smi = None THEN None
  ELSE IF host.smi = <<>> THEN None
  ELSE IF Head(host.smi) = NotText THEN None ELSE Head(host.smi)

Disk(host) == IF host.disk = None THEN None ELSE host.disk \div 1024

SiliconNpu == ("jetson_xavier" :> TRUE) @@ ("snapdragon_x" :> TRUE)

Manifest(host, assets, removable, mediaStore) ==
  [silicon |-> Silicon(host), ram |-> Ram(host), vram |-> Vram(host),
   npu |-> Silicon(host) \in DOMAIN SiliconNpu, disk |-> Disk(host),
   removable |-> removable, mediaStore |-> mediaStore, assets |-> assets]

RuntimeBySilicon ==
  ("jetson_orin" :> "llama_cpp_cuda") @@ ("jetson_xavier" :> "llama_cpp_cuda")
    @@ ("snapdragon_x" :> "onnxruntime_qnn")

(* resolve_runtime *)
Runtime(silicon) ==
  IF silicon \in DOMAIN RuntimeBySilicon THEN RuntimeBySilicon[silicon] ELSE "llama_cpp"

-----------------------------------------------------------------------------
(* select_storage_provider *)

TierPriority == <<"media_store", "removable", "internal">>

(* Variant: a removable medium is taken without the caller's opt-in.       *)
TiersWithoutOptIn(manifest, optIn) ==
  {"internal"} \cup (IF manifest.mediaStore THEN {"media_store"} ELSE {})
               \cup (IF manifest.removable THEN {"removable"} ELSE {})

(* _available_roots *)
Tiers(manifest, optIn) ==
  {"internal"} \cup (IF manifest.mediaStore THEN {"media_store"} ELSE {})
               \cup (IF manifest.removable /\ optIn THEN {"removable"} ELSE {})

Tier(manifest, optIn) ==
  TierPriority[CHOOSE i \in 1..3 :
    /\ TierPriority[i] \in Tiers(manifest, optIn)
    /\ \A j \in 1..3 : TierPriority[j] \in Tiers(manifest, optIn) => i <= j]

-----------------------------------------------------------------------------
(* select_runner *)

RunnerBuilders ==
  ("llama_cpp" :> "openai-compat") @@ ("llama_cpp_cuda" :> "openai-compat")
    @@ ("openai-compat" :> "openai-compat") @@ ("ollama" :> "ollama")
    @@ ("onnxruntime_qnn" :> "qnn")

DefaultUrl == ("openai-compat" :> "localhost:8080/v1") @@ ("ollama" :> "localhost:11434")

(* check_ram_fit *)
Fits(config, ram) == IF config.minRam = None THEN TRUE ELSE ram >= config.minRam

(* _generation_kwargs: what is set, the rest keeps the extractor's default.*)
Tuned(given, defaults) ==
  [k \in DOMAIN defaults |-> IF given[k] = None THEN defaults[k] ELSE given[k]]

(* The runner, or None for an unregistered runtime (UnsupportedRuntime-    *)
(* Error) or one that does not fit (RamFitError under strict_fit).         *)
SelectRunner(runtime, config, ram) ==
  IF runtime \notin DOMAIN RunnerBuilders \/ (config.strict /\ ~Fits(config, ram)) THEN None
  ELSE LET kind == RunnerBuilders[runtime] IN
       IF kind = "qnn" THEN [kind |-> kind, warned |-> ~Fits(config, ram)]
       ELSE [kind |-> kind, warned |-> ~Fits(config, ram),
             url |-> IF config.url = None THEN DefaultUrl[kind] ELSE config.url]

(* QnnOnnxRunner.infer: without the provider, or with _execute not         *)
(* overridden, every call is unavailable.                                  *)
QnnResult(provider, executes, result) ==
  IF provider /\ executes THEN result
  ELSE [status |-> "unavailable", output |-> None, reason |-> "error"]
=============================================================================
