----------------------------- MODULE BuildScript -----------------------------
(***************************************************************************)
(* hermit-sys/build.rs: how the kernel library that an application is      *)
(* linked with comes to be, over repeated and interrupted runs in one      *)
(* OUT_DIR.  Cargo, cargo-download, the kernel's own build and llvm-objcopy*)
(* are external; each of them may fail, and the developer may interrupt a  *)
(* run, edit the kernel's sources or change the environment between steps. *)
(***************************************************************************)
EXTENDS Naturals

CONSTANTS
  Features,  \* features of hermit-sys that a build selects from
  MaxEdits   \* bound on the changes to files and to the environment

(* What Cargo.toml declares.                                                *)
Declared == {"pci", "acpi", "smp", "vga", "fsgsbase", "instrument", "with_submodule"}

ASSUME BuildAssumption == Features \subseteq Declared /\ MaxEdits \in Nat

VARIABLES
  config,  \* target_arch, profile, features and outer rustflags of this OUT_DIR
  pc,      \* the next step of the build script; "idle", "failed", "done" between runs
  src,     \* the kernel's source folder: "none", "partial" or "complete"
  libs,    \* kernel libraries, by target directory
  link,    \* the directory that was printed as rustc-link-search
  world,   \* version of everything that may change
  seen,    \* the versions when the last run was started
  used     \* the versions that the last run has read

inVars == <<config, world, seen>>
vars == <<inVars, pc, src, libs, link, used>>

Has(f) == f \in config.features

-----------------------------------------------------------------------------
(* The kernel is built for one target and looked for under another.         *)
BuiltTriple(arch) ==
  CASE arch = "x86_64" -> "x86_64-unknown-none-hermitkernel"
    [] arch = "aarch64" -> "aarch64-unknown-hermit"
    [] arch = "riscv64" -> "riscv64gc-unknown-hermit"
    [] OTHER -> "panic"

(* A mutant of LinkedTriple: the name of the application's target.          *)
LinkedTripleOfUser(arch) ==
  CASE arch = "x86_64" -> "x86_64-unknown-hermit"
    [] arch = "aarch64" -> "aarch64-unknown-hermit"
    [] arch = "riscv64" -> "riscv64gc-unknown-hermit"
    [] OTHER -> "panic"

LinkedTriple(arch) ==
  CASE arch = "x86_64" -> "x86_64-unknown-none-hermitkernel"
    [] arch = "aarch64" -> "aarch64-unknown-hermit"
    [] arch = "riscv64" -> "riscv64gc-unknown-hermit"
    [] OTHER -> "panic"

(* The features that are passed on, under the names that build.rs tests:    *)
(* Cargo.toml declares fsgsbase, so fsgs_base is never selected.            *)
KernelFeatures ==
  {f \in {"pci", "acpi", "fsgs_base", "smp", "vga"} : Has(f)}
    \cup (IF config.arch = "aarch64" THEN {"aarch64-qemu-stdout"} ELSE {})

(* A mutant of KernelFlags: nothing is filtered.                            *)
KernelFlagsAll == {"mutable-noalias"} \cup config.flags

(* rustflags: -Zinstrument-mcount is added with the feature and filtered    *)
(* from the outer flags without it.  With the feature, no outer flags at    *)
(* all become an empty flag.                                                *)
KernelFlags ==
  {"mutable-noalias"} \cup
    (IF Has("instrument")
     THEN {"instrument-mcount"} \cup (IF config.flags = {} THEN {"empty"} ELSE config.flags)
     ELSE config.flags \ {"instrument-mcount"})

(* The symbols that are renamed; `mem` is no feature of hermit-sys.         *)
Renamed ==
  {"rust_begin_unwind", "rust_oom"}
    \cup (IF Has("mem") THEN {"memcpy", "memmove", "memset", "memcmp", "bcmp"} ELSE {})

(* What may change: the environment (HERMIT_IP stands for all variables),   *)
(* and the folders of a submodule.                                          *)
Things == {"HERMIT_IP", "src", ".cargo", ".git"}

(* A mutant of Watched: the configuration folder is ignored too.            *)
WatchedNoCargo ==
  {"HERMIT_IP"} \cup (IF Has("with_submodule") THEN {"src"} ELSE {})

(* The cargo:rerun-if lines: what makes cargo run the script again.         *)
(* is_not_ignored leaves out .git, .vscode and target.                      *)
Watched ==
  {"HERMIT_IP"} \cup (IF Has("with_submodule") THEN {"src", ".cargo"} ELSE {})

(* What the result depends on.  Downloaded sources are not edited.          *)
Inputs == {"HERMIT_IP"} \cup (IF Has("with_submodule") THEN {"src", ".cargo"} ELSE {})

-----------------------------------------------------------------------------
Fail ==
  /\ pc' = "failed"
  /\ UNCHANGED <<src, libs, link, used>>

Stale == \E x \in Watched : seen[x] # world[x]

(* cargo runs the script unless its last run succeeded and nothing that it  *)
(* watches has changed.                                                     *)
Start ==
  /\ pc \in {"idle", "failed"} \/ (pc = "done" /\ Stale)
  /\ pc' = "constants"
  /\ seen' = world
  /\ UNCHANGED <<config, world, src, libs, link, used>>

(* constants.rs: the variables that cargo was started with, or defaults.    *)
(* option_env! is evaluated when build.rs is compiled; rustc reports it in  *)
(* the script's dep-info, and cargo compiles the script again when such a   *)
(* variable has changed, so that its value is that of the start of the run. *)
CreateConstants ==
  /\ pc = "constants"
  /\ used' = [used EXCEPT !["HERMIT_IP"] = seen["HERMIT_IP"]]
  /\ pc' = "source"
  /\ UNCHANGED <<inVars, src, libs, link>>

(* The submodule must be there; otherwise the source is downloaded, unless  *)
(* the folder exists.                                                       *)
Submodule ==
  /\ pc = "source"
  /\ Has("with_submodule")
  /\ pc' = "kernel"
  /\ UNCHANGED <<inVars, src, libs, link, used>>

Download ==
  /\ pc = "source"
  /\ ~Has("with_submodule")
  /\ pc' = "kernel"
  /\ src' = IF src = "none" THEN "complete" ELSE src
  /\ UNCHANGED <<inVars, libs, link, used>>

DownloadFails ==
  /\ pc = "source"
  /\ ~Has("with_submodule") /\ src = "none"
  /\ src' \in {"none", "partial"}
  /\ pc' = "failed"
  /\ UNCHANGED <<inVars, libs, link, used>>

(* The kernel is built in the folder of its target and profile; symbols     *)
(* have their names again, unless nothing was to be done.                   *)
Location(triple) == <<triple, config.profile>>

BuildKernel ==
  LET d == Location(BuiltTriple(config.arch))
      l == [built |-> TRUE, features |-> KernelFeatures, flags |-> KernelFlags, renamed |-> {}]
  IN  /\ pc = "kernel"
      /\ IF d[1] = "panic" \/ src = "partial" THEN Fail
         ELSE /\ libs' = [libs EXCEPT ![d] = IF @.built /\ used["src"] = world["src"]
                                                        /\ used[".cargo"] = world[".cargo"]
                                             THEN @ ELSE l]
              /\ used' = [used EXCEPT !["src"] = world["src"], ![".cargo"] = world[".cargo"]]
              /\ pc' = "locate"
              /\ UNCHANGED <<src, link>>
  /\ UNCHANGED inVars

BuildKernelFails ==
  /\ pc = "kernel"
  /\ Fail
  /\ UNCHANGED inVars

(* canonicalize().unwrap().                                                 *)
Locate ==
  /\ pc = "locate"
  /\ LET d == Location(LinkedTriple(config.arch)) IN
     IF d \in DOMAIN libs /\ libs[d].built THEN /\ link' = d
                                                /\ pc' = "rename"
                                                /\ UNCHANGED <<src, libs, used>>
                          ELSE Fail
  /\ UNCHANGED inVars

(* rename_symbol for one symbol after the other; one that has its new name  *)
(* already is left alone.                                                   *)
RenameSymbol ==
  /\ pc = "rename"
  /\ \E s \in Renamed : libs' = [libs EXCEPT ![link].renamed = @ \cup {s}]
  /\ pc' = IF Renamed \subseteq libs'[link].renamed THEN "print" ELSE "rename"
  /\ UNCHANGED <<inVars, src, link, used>>

RenameFails ==
  /\ pc = "rename"
  /\ Fail
  /\ UNCHANGED inVars

(* The link and rerun-if lines are printed and the script ends.             *)
Finish ==
  /\ pc = "print"
  /\ pc' = "done"
  /\ UNCHANGED <<inVars, src, libs, link, used>>

(* The developer interrupts the run; a download may leave its folder.       *)
Interrupt ==
  /\ pc \notin {"idle", "failed", "done"}
  /\ pc' = "idle"
  /\ src' \in IF pc = "source" /\ ~Has("with_submodule") /\ src = "none"
              THEN {"none", "partial"} ELSE {src}
  /\ UNCHANGED <<inVars, libs, link, used>>

Edit(x) ==
  /\ x = "HERMIT_IP" \/ Has("with_submodule")
  /\ world[x] < MaxEdits
  /\ world' = [world EXCEPT ![x] = @ + 1]
  /\ UNCHANGED <<config, seen, pc, src, libs, link, used>>

-----------------------------------------------------------------------------
Archs == {"x86_64", "aarch64", "riscv64", "other"}
Profiles == {"debug", "release"}
NoLib == [built |-> FALSE, features |-> {}, flags |-> {}, renamed |-> {}]

Init ==
  /\ config \in [arch : Archs, profile : Profiles, features : SUBSET Features,
                 flags : SUBSET {"instrument-mcount", "user"}]
  /\ pc = "idle"
  /\ src = IF Has("with_submodule") THEN "complete" ELSE "none"
  /\ libs = [d \in {BuiltTriple(a) : a \in Archs} \X Profiles |-> NoLib]
  /\ link = Location("none")
  /\ world = [x \in Things |-> 0]
  /\ seen = world
  /\ used = world

ScriptStep ==
  \/ CreateConstants \/ Submodule \/ Download \/ BuildKernel \/ Locate \/ RenameSymbol \/ Finish

Fault == DownloadFails \/ BuildKernelFails \/ RenameFails \/ Interrupt

Next ==
  \/ Start \/ ScriptStep \/ Fault
  \/ \E x \in Things : Edit(x)

Spec == Init /\ [][Next]_vars

(* A run goes on, and the developer tries again after a failure.            *)
FairSpec == Spec /\ WF_vars(Start) /\ WF_vars(ScriptStep)

-----------------------------------------------------------------------------
(* The library that a finished run tells cargo to link with has been built  *)
(* with its features and flags, and both symbols are renamed, however many  *)
(* runs were interrupted between the kernel's build and the renaming; its   *)
(* code is instrumented only if the feature `instrument` asks for it.       *)
LinkedLibraryIsReady ==
  pc = "done" =>
    /\ libs[link].built
    /\ {"rust_begin_unwind", "rust_oom"} \subseteq libs[link].renamed
    /\ ("instrument-mcount" \in libs[link].flags) = Has("instrument")

(* When cargo sees no reason to run the script again, its result is what a  *)
(* run would produce now: everything it depends on is watched, also what    *)
(* changed while it ran.                                                    *)
FreshMeansCurrent ==
  (pc = "done" /\ ~Stale) => \A x \in Inputs : used[x] = world[x]

(* For a supported target, trying again after faults and interruptions ends *)
(* in a finished run, except after a download that left its folder behind:  *)
(* build.rs 222 takes an existing folder for a complete one.                *)
RetrySucceeds ==
  (config.arch # "other" /\ <>[][~Fault]_vars) => <>(pc = "done" \/ src = "partial")
=============================================================================
