--------------------------- MODULE BuildScriptProofs ---------------------------
(***************************************************************************)
(* What holds of the build script for every selection of features, every   *)
(* order of failures, interruptions and edits, and every number of them.   *)
(***************************************************************************)
EXTENDS BuildScript, TLAPS

Steps == {"idle", "failed", "constants", "source", "kernel", "locate", "rename", "print", "done"}
Triples == {BuiltTriple(a) : a \in Archs}
Folders == Triples \X Profiles
Flags == {"mutable-noalias", "instrument-mcount", "empty", "user"}
FeatureNames == {"pci", "acpi", "fsgs_base", "smp", "vga", "aarch64-qemu-stdout"}
Symbols == {"rust_begin_unwind", "rust_oom", "memcpy", "memmove", "memset", "memcmp", "bcmp"}
Libs == [built : BOOLEAN, features : SUBSET FeatureNames, flags : SUBSET Flags,
         renamed : SUBSET Symbols]
Versions == [Things -> Nat]

(* The types: of the configuration, the libraries and the versions.         *)
Types ==
  /\ config \in [arch : Archs, profile : Profiles, features : SUBSET Features,
                 flags : SUBSET {"instrument-mcount", "user"}]
  /\ pc \in Steps
  /\ libs \in [Folders -> Libs]
  /\ world \in Versions /\ seen \in Versions /\ used \in Versions

(* Every library that exists was built with the flags of the configuration, *)
(* whichever run built it.                                                  *)
FlagsInv ==
  \A d \in Folders :
    libs[d].built => (("instrument-mcount" \in libs[d].flags) <=> Has("instrument"))

(* From Locate to the next start the folder that is linked with holds a     *)
(* library, and once its symbols are renamed they stay so.                  *)
LinkInv ==
  /\ pc \in {"rename", "print", "done"} => link \in Folders /\ libs[link].built
  /\ pc \in {"print", "done"} => Renamed \subseteq libs[link].renamed

(* Versions only grow; a run reads what is there when it reads, so never    *)
(* less than what there was when it was started.                            *)
VersionInv ==
  /\ \A x \in Things : seen[x] <= world[x] /\ used[x] <= world[x]
  /\ pc \in {"source", "kernel", "locate", "rename", "print", "done"}
       => seen["HERMIT_IP"] <= used["HERMIT_IP"]
  /\ pc \in {"locate", "rename", "print", "done"}
       => seen["src"] <= used["src"] /\ seen[".cargo"] <= used[".cargo"]

Inv == Types /\ FlagsInv /\ LinkInv /\ VersionInv

-----------------------------------------------------------------------------
(* The flags of the kernel: instrumented exactly with the feature.          *)
LEMMA FlagsOfKernel ==
  ASSUME Types
  PROVE  /\ KernelFlags \in SUBSET Flags
         /\ ("instrument-mcount" \in KernelFlags) <=> Has("instrument")
<1>1. config.flags \in SUBSET {"instrument-mcount", "user"}
  BY DEF Types
<1> QED BY <1>1 DEF KernelFlags, Flags

(* What BuildKernel does when it does not fail.                             *)
LEMMA KernelBuilt ==
  ASSUME Types, BuildKernel, ~Fail
  PROVE  \E d \in Folders, l \in Libs :
           /\ libs' = [libs EXCEPT ![d] = l]
           /\ l.built
           /\ l = libs[d] \/ l.flags = KernelFlags
           /\ used' = [used EXCEPT !["src"] = world["src"], ![".cargo"] = world[".cargo"]]
           /\ pc = "kernel" /\ pc' = "locate"
           /\ UNCHANGED <<inVars, src, link>>
<1> DEFINE d == Location(BuiltTriple(config.arch))
           n == [built |-> TRUE, features |-> KernelFeatures, flags |-> KernelFlags, renamed |-> {}]
           l == IF libs[d].built /\ used["src"] = world["src"] /\ used[".cargo"] = world[".cargo"]
                THEN libs[d] ELSE n
<1>1. d \in Folders
  BY DEF Types, Location, Folders, Triples
<1>2. n \in Libs
  <2>1. KernelFeatures \in SUBSET FeatureNames
    BY DEF KernelFeatures, FeatureNames
  <2> QED BY <2>1, FlagsOfKernel DEF Libs
<1>3. libs[d] \in Libs
  BY <1>1 DEF Types
<1>4. l \in Libs /\ l.built /\ (l = libs[d] \/ l.flags = KernelFlags)
  BY <1>2, <1>3
<1>5. /\ libs' = [libs EXCEPT ![d] = l]
      /\ used' = [used EXCEPT !["src"] = world["src"], ![".cargo"] = world[".cargo"]]
      /\ pc = "kernel" /\ pc' = "locate"
      /\ UNCHANGED <<inVars, src, link>>
  BY DEF BuildKernel
<1> QED BY <1>1, <1>4, <1>5

(* What RenameSymbol does.                                                  *)
LEMMA SymbolRenamed ==
  ASSUME Types, LinkInv, RenameSymbol
  PROVE  \E l \in Libs :
           /\ libs' = [libs EXCEPT ![link] = l]
           /\ link \in Folders
           /\ l.built /\ l.flags = libs[link].flags
           /\ pc' = IF Renamed \subseteq l.renamed THEN "print" ELSE "rename"
           /\ UNCHANGED <<inVars, src, link, used>>
<1>1. link \in Folders /\ libs[link].built /\ libs[link] \in Libs
  BY DEF LinkInv, RenameSymbol, Types
<1>2. PICK s \in Renamed : libs' = [libs EXCEPT ![link].renamed = @ \cup {s}]
  BY DEF RenameSymbol
<1> DEFINE l == [libs[link] EXCEPT !.renamed = @ \cup {s}]
<1>3. s \in Symbols
  BY <1>2 DEF Renamed, Symbols
<1>4. l \in Libs /\ l.built /\ l.flags = libs[link].flags
  BY <1>1, <1>3 DEF Libs
<1>5. libs' = [libs EXCEPT ![link] = l] /\ libs'[link] = l
  BY <1>1, <1>2 DEF Types
<1> QED BY <1>1, <1>4, <1>5 DEF RenameSymbol

-----------------------------------------------------------------------------
(* Every step keeps the types.                                              *)
LEMMA TypeStep == ASSUME Types, LinkInv, [Next]_vars PROVE Types'
<1> USE DEF Types, Steps, inVars
<1>1. CASE Start BY <1>1 DEF Start
<1>2. CASE CreateConstants BY <1>2 DEF CreateConstants, Versions, Things
<1>3. CASE Submodule \/ Download BY <1>3 DEF Submodule, Download
<1>4. CASE BuildKernel
  <2>1. CASE Fail BY <1>4, <2>1 DEF BuildKernel, Fail
  <2>2. CASE ~Fail
    <3>1. PICK d \in Folders, l \in Libs :
            /\ libs' = [libs EXCEPT ![d] = l]
            /\ used' = [used EXCEPT !["src"] = world["src"], ![".cargo"] = world[".cargo"]]
            /\ pc' = "locate"
            /\ UNCHANGED inVars
      BY <1>4, <2>2, KernelBuilt
    <3>2. used' \in Versions
      BY <3>1 DEF Versions, Things
    <3> QED BY <3>1, <3>2
  <2> QED BY <2>1, <2>2
<1>5. CASE Locate BY <1>5 DEF Locate, Fail
<1>6. CASE RenameSymbol
  <2>1. PICK l \in Libs :
          /\ libs' = [libs EXCEPT ![link] = l]
          /\ pc' = IF Renamed \subseteq l.renamed THEN "print" ELSE "rename"
          /\ UNCHANGED <<inVars, src, link, used>>
    BY <1>6, SymbolRenamed
  <2> QED BY <2>1
<1>7. CASE Finish BY <1>7 DEF Finish
<1>8. CASE Fault
  BY <1>8 DEF Fault, DownloadFails, BuildKernelFails, RenameFails, Interrupt, Fail
<1>9. ASSUME NEW x \in Things, Edit(x) PROVE Types'
  BY <1>9 DEF Edit, Versions
<1>10. CASE UNCHANGED vars BY <1>10 DEF vars
<1> HIDE DEF Types
<1> QED
  BY <1>1, <1>2, <1>3, <1>4, <1>5, <1>6, <1>7, <1>8, <1>9, <1>10 DEF Next, ScriptStep

(* A library is built with the flags of the configuration, which never      *)
(* changes, and renaming does not touch them.                               *)
LEMMA FlagsStep == ASSUME Types, FlagsInv, LinkInv, [Next]_vars PROVE FlagsInv'
<1>1. UNCHANGED config
  BY DEF Next, ScriptStep, Fault, Start, CreateConstants, Submodule, Download, BuildKernel, Locate,
         RenameSymbol, Finish, DownloadFails, BuildKernelFails, RenameFails, Interrupt, Edit,
         vars, inVars
<1>2. Has("instrument")' <=> Has("instrument")
  BY <1>1 DEF Has
<1>3. CASE UNCHANGED libs
  BY <1>2, <1>3 DEF FlagsInv
<1>4. CASE BuildKernel /\ ~Fail
  <2>1. PICK d \in Folders, l \in Libs :
          /\ libs' = [libs EXCEPT ![d] = l]
          /\ l = libs[d] \/ l.flags = KernelFlags
    BY <1>4, KernelBuilt
  <2>2. l.built => (("instrument-mcount" \in l.flags) <=> Has("instrument"))
    BY <2>1, FlagsOfKernel DEF FlagsInv
  <2> QED BY <1>2, <2>1, <2>2 DEF FlagsInv, Types
<1>5. CASE RenameSymbol
  <2>1. PICK l \in Libs :
          /\ libs' = [libs EXCEPT ![link] = l]
          /\ link \in Folders
          /\ l.built /\ l.flags = libs[link].flags
    BY <1>5, SymbolRenamed
  <2>2. libs[link].built
    BY <1>5 DEF RenameSymbol, LinkInv
  <2> QED BY <1>2, <2>1, <2>2 DEF FlagsInv, Types
<1> QED
  BY <1>3, <1>4, <1>5
     DEF Next, ScriptStep, Fault, Start, CreateConstants, Submodule, Download, BuildKernel, Locate,
         Finish, DownloadFails, BuildKernelFails, RenameFails, Interrupt, Edit, Fail, vars

(* The folder that Locate finds keeps its library until the script is       *)
(* started again.                                                           *)
LEMMA LinkStep == ASSUME Types, LinkInv, [Next]_vars PROVE LinkInv'
<1> USE DEF LinkInv
<1>1. UNCHANGED config
  BY DEF Next, ScriptStep, Fault, Start, CreateConstants, Submodule, Download, BuildKernel, Locate,
         RenameSymbol, Finish, DownloadFails, BuildKernelFails, RenameFails, Interrupt, Edit,
         vars, inVars
<1>2. Renamed' = Renamed
  BY <1>1 DEF Renamed, Has
<1>3. CASE Start \/ CreateConstants \/ Submodule \/ Download
  BY <1>3 DEF Start, CreateConstants, Submodule, Download
<1>4. CASE BuildKernel
  <2>1. CASE Fail BY <2>1 DEF Fail
  <2>2. CASE ~Fail
    <3>1. pc' = "locate"
      BY <1>4, <2>2, KernelBuilt
    <3> QED BY <3>1
  <2> QED BY <2>1, <2>2
<1>5. CASE Locate
  <2>1. CASE Fail BY <2>1 DEF Fail
  <2>2. CASE ~Fail
    <3>1. link' \in DOMAIN libs /\ libs[link'].built /\ UNCHANGED libs /\ pc' = "rename"
      BY <1>5, <2>2 DEF Locate
    <3> QED BY <3>1 DEF Types
  <2> QED BY <2>1, <2>2
<1>6. CASE RenameSymbol
  <2>1. PICK l \in Libs :
          /\ libs' = [libs EXCEPT ![link] = l]
          /\ link \in Folders
          /\ l.built
          /\ pc' = IF Renamed \subseteq l.renamed THEN "print" ELSE "rename"
          /\ UNCHANGED link
    BY <1>6, SymbolRenamed
  <2>2. libs'[link'] = l
    BY <2>1 DEF Types
  <2> QED BY <1>2, <2>1, <2>2
<1>7. CASE Finish BY <1>2, <1>7 DEF Finish
<1>8. CASE Fault
  BY <1>8 DEF Fault, DownloadFails, BuildKernelFails, RenameFails, Interrupt, Fail
<1>9. ASSUME NEW x \in Things, Edit(x) PROVE LinkInv'
  BY <1>2, <1>9 DEF Edit
<1>10. CASE UNCHANGED vars BY <1>2, <1>10 DEF vars
<1> HIDE DEF LinkInv
<1> QED
  BY <1>3, <1>4, <1>5, <1>6, <1>7, <1>8, <1>9, <1>10 DEF Next, ScriptStep

(* What a run reads is at least as new as its start.                        *)
LEMMA VersionStep == ASSUME Types, VersionInv, [Next]_vars PROVE VersionInv'
<1> USE DEF Types, Versions, Things, VersionInv, inVars
<1>1. CASE Start BY <1>1 DEF Start
<1>2. CASE CreateConstants BY <1>2 DEF CreateConstants
<1>3. CASE Submodule \/ Download BY <1>3 DEF Submodule, Download
<1>4. CASE BuildKernel
  <2>1. CASE Fail BY <1>4, <2>1 DEF BuildKernel, Fail
  <2>2. CASE ~Fail
    <3>1. /\ used' = [used EXCEPT !["src"] = world["src"], ![".cargo"] = world[".cargo"]]
          /\ pc = "kernel" /\ pc' = "locate"
          /\ UNCHANGED inVars
      BY <1>4, <2>2, KernelBuilt
    <3> QED BY <3>1
  <2> QED BY <2>1, <2>2
<1>5. CASE Locate BY <1>5 DEF Locate, Fail
<1>6. CASE RenameSymbol BY <1>6 DEF RenameSymbol
<1>7. CASE Finish BY <1>7 DEF Finish
<1>8. CASE Fault
  BY <1>8 DEF Fault, DownloadFails, BuildKernelFails, RenameFails, Interrupt, Fail
<1>9. ASSUME NEW x \in Things, Edit(x) PROVE VersionInv'
  BY <1>9 DEF Edit
<1>10. CASE UNCHANGED vars BY <1>10 DEF vars
<1> HIDE DEF VersionInv
<1> QED
  BY <1>1, <1>2, <1>3, <1>4, <1>5, <1>6, <1>7, <1>8, <1>9, <1>10 DEF Next, ScriptStep

-----------------------------------------------------------------------------
(* Inv is an invariant of repeated and interrupted builds.                  *)
THEOREM BuildInvariant == Spec => []Inv
<1>1. Init => Inv
  <2> SUFFICES ASSUME Init PROVE Inv
    OBVIOUS
  <2>1. NoLib \in Libs /\ ~NoLib.built
    BY DEF NoLib, Libs
  <2>2. libs = [d \in Folders |-> NoLib]
    BY DEF Init, Folders, Triples
  <2>3. world \in Versions /\ seen = world /\ used = world
    BY DEF Init, Versions
  <2>4. Types
    BY <2>1, <2>2, <2>3 DEF Init, Types, Steps
  <2>5. FlagsInv
    BY <2>1, <2>2 DEF FlagsInv
  <2>6. LinkInv
    BY DEF Init, LinkInv
  <2>7. VersionInv
    BY <2>3 DEF Init, VersionInv, Versions
  <2> QED BY <2>4, <2>5, <2>6, <2>7 DEF Inv
<1>2. Inv /\ [Next]_vars => Inv'
  BY TypeStep, FlagsStep, LinkStep, VersionStep DEF Inv
<1> QED
  BY <1>1, <1>2, PTL DEF Spec

(* build.rs 158-175: the library of a finished run is built, instrumented   *)
(* as asked, and has its symbols renamed.                                   *)
THEOREM LinkedTheorem == Spec => []LinkedLibraryIsReady
<1>1. Inv => LinkedLibraryIsReady
  <2> SUFFICES ASSUME Inv, pc = "done"
               PROVE  /\ libs[link].built
                      /\ {"rust_begin_unwind", "rust_oom"} \subseteq libs[link].renamed
                      /\ ("instrument-mcount" \in libs[link].flags) = Has("instrument")
    BY DEF LinkedLibraryIsReady
  <2>1. link \in Folders /\ libs[link].built /\ Renamed \subseteq libs[link].renamed
    BY DEF Inv, LinkInv
  <2>2. ("instrument-mcount" \in libs[link].flags) <=> Has("instrument")
    BY <2>1 DEF Inv, FlagsInv
  <2> QED BY <2>1, <2>2 DEF Renamed, Has
<1> QED
  BY <1>1, BuildInvariant, PTL

(* build.rs 253-303: what cargo takes for fresh is what a run would give.   *)
THEOREM FreshTheorem == Spec => []FreshMeansCurrent
<1>1. Inv => FreshMeansCurrent
  <2> SUFFICES ASSUME Inv, pc = "done", ~Stale, NEW x \in Inputs PROVE used[x] = world[x]
    BY DEF FreshMeansCurrent
  <2>1. x \in {"HERMIT_IP", "src", ".cargo"}
    BY DEF Inputs
  <2>2. seen[x] = world[x]
    BY DEF Stale, Watched, Inputs
  <2>3. seen[x] <= used[x] /\ used[x] <= world[x]
    BY <2>1 DEF Inv, VersionInv, Things
  <2>4. used[x] \in Nat /\ world[x] \in Nat
    BY <2>1 DEF Inv, Types, Versions, Things
  <2> QED BY <2>2, <2>3, <2>4
<1> QED
  BY <1>1, BuildInvariant, PTL
=============================================================================
