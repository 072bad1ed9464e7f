----------------------------- MODULE NativeOutage -----------------------------
(***************************************************************************)
(* build-native-outage.mjs prepares a rehearsal: it keeps the verified     *)
(* bundle of staging as restore.zip and builds faulty.zip from an entry    *)
(* whose repository always throws.  Several builds may run, at once or one *)
(* after a crash of another, beside the ordinary build of the backend and  *)
(* an operator who resolves a mismatch.                                    *)
(***************************************************************************)
EXTENDS Naturals

CONSTANT Builds    \* runs of the script

VARIABLES bundle,   \* dist/function.zip
          restore,  \* native-outage/restore.zip
          entry,    \* native-outage/source/index.ts
          faulty,   \* what native-outage/faulty.zip was built from
          build     \* each run: its step, whether its entry is usable, what it read

outageVars == <<bundle, restore, entry, faulty, build>>

\* A bundle has the pinned hash or it has not; "partial" is a file still being written.
Bundles == {"verified", "other"}
NotStarted == [step |-> "new", confirmed |-> FALSE, marked |-> FALSE, read |-> "other"]

OutageTypeOK ==
  /\ bundle \in Bundles
  /\ restore \in Bundles \cup {"absent", "partial"}
  /\ entry \in {"absent", "original", "outage"}
  /\ faulty \in {"absent", "original", "outage"}
  /\ build \in [Builds -> [step : {"new", "entry", "bundle", "existing", "write", "fill", "verify",
                                   "copy", "generate", "bundling", "done", "failed", "dead"},
                           confirmed : BOOLEAN, marked : BOOLEAN, read : Bundles]]

OutageInit ==
  /\ bundle = "verified"
  /\ restore = "absent"
  /\ entry = "absent"
  /\ faulty = "absent"
  /\ build = [b \in Builds |-> NotStarted]

To(b, step) == build' = [build EXCEPT ![b].step = step]

\* The command line names the confirmation or not; the entry holds one marker or not.
StartBuild(b, confirmed, marked) ==
  /\ build[b].step \in {"new", "done", "failed", "dead"}
  /\ build' = [build EXCEPT ![b] = [step |-> "entry", confirmed |-> confirmed,
                                         marked |-> marked, read |-> "other"]]
  /\ UNCHANGED <<bundle, restore, entry, faulty>>

\* createNativeOutageEntry: a wrong root or entry stops the run before any file.
CreateEntry(b) ==
  /\ build[b].step = "entry"
  /\ To(b, IF build[b].confirmed /\ build[b].marked THEN "bundle" ELSE "failed")
  /\ UNCHANGED <<bundle, restore, entry, faulty>>

\* Mutant: the hash of the retained bundle is not compared.
ReadBundle_Unverified(b) ==
  /\ build[b].step = "bundle"
  /\ build' = [build EXCEPT ![b].step = "existing", ![b].read = bundle]
  /\ UNCHANGED <<bundle, restore, entry, faulty>>

\* From here the run holds a verified bundle in memory, whatever becomes of the file.
ReadBundle(b) ==
  /\ build[b].step = "bundle"
  /\ build' = [build EXCEPT ![b].step = IF bundle = "verified" THEN "existing" ELSE "failed",
                            ![b].read = bundle]
  /\ UNCHANGED <<bundle, restore, entry, faulty>>

CheckExisting(b) ==
  /\ build[b].step = "existing"
  /\ To(b, IF restore \in {"absent", "verified"} THEN "write" ELSE "failed")
  /\ UNCHANGED <<bundle, restore, entry, faulty>>

\* Mutant: the file is opened for writing whether it exists or not.
OpenRestore_Truncate(b) ==
  /\ build[b].step = "write"
  /\ restore' = "partial"
  /\ To(b, "fill")
  /\ UNCHANGED <<bundle, entry, faulty>>

\* Exclusive creation; a file that exists is left to the verification.
OpenRestore(b) ==
  /\ build[b].step = "write"
  /\ \/ restore = "absent" /\ restore' = "partial" /\ To(b, "fill")
     \/ restore # "absent" /\ UNCHANGED restore /\ To(b, "verify")
  /\ UNCHANGED <<bundle, entry, faulty>>

FillRestore(b) ==
  /\ build[b].step = "fill"
  /\ restore' = build[b].read
  /\ To(b, "verify")
  /\ UNCHANGED <<bundle, entry, faulty>>

\* Mutant: the file is not read back.
VerifyRestore_Trusts(b) ==
  /\ build[b].step = "verify"
  /\ To(b, "copy")
  /\ UNCHANGED <<bundle, restore, entry, faulty>>

VerifyRestore(b) ==
  /\ build[b].step = "verify"
  /\ To(b, IF restore = "verified" THEN "copy" ELSE "failed")
  /\ UNCHANGED <<bundle, restore, entry, faulty>>

\* The sources are copied, and the generated entry replaces the copy of the original.
CopySources(b) ==
  /\ build[b].step = "copy"
  /\ entry' = "original"
  /\ To(b, "generate")
  /\ UNCHANGED <<bundle, restore, faulty>>

GenerateEntry(b) ==
  /\ build[b].step = "generate"
  /\ entry' = "outage"
  /\ To(b, "bundling")
  /\ UNCHANGED <<bundle, restore, faulty>>

BundleFaulty(b) ==
  /\ build[b].step = "bundling"
  /\ faulty' = entry
  /\ To(b, "done")
  /\ UNCHANGED <<bundle, restore, entry>>

\* The run ends between two steps, by a crash or a failed file operation.
Dies(b) ==
  /\ build[b].step \notin {"new", "done", "failed", "dead"}
  /\ To(b, "dead")
  /\ UNCHANGED <<bundle, restore, entry, faulty>>

\* npm run build writes dist/function.zip again.
OrdinaryBuild ==
  /\ bundle' \in Bundles
  /\ UNCHANGED <<restore, entry, faulty, build>>

\* "Preserve it and resolve the mismatch": the operator moves a damaged restore.zip away,
\* when no build is writing it.
Resolve ==
  /\ restore = "partial"
  /\ \A b \in Builds : build[b].step # "fill"
  /\ restore' = "absent"
  /\ UNCHANGED <<bundle, entry, faulty, build>>

OutageNext ==
  \/ \E b \in Builds :
       \/ \E confirmed, marked \in BOOLEAN : StartBuild(b, confirmed, marked)
       \/ CreateEntry(b) \/ ReadBundle(b) \/ CheckExisting(b) \/ OpenRestore(b) \/ FillRestore(b)
       \/ VerifyRestore(b) \/ CopySources(b) \/ GenerateEntry(b) \/ BundleFaulty(b) \/ Dies(b)
  \/ OrdinaryBuild \/ Resolve

OutageSpec == OutageInit /\ [][OutageNext]_outageVars

-------------------------------------------------------------------------------

\* Whoever finds a faulty.zip to deploy finds a complete verified restore.zip beside it,
\* after any crash, any ordinary build and any other run of the script.
OutageRecoverable == faulty # "absent" => restore = "verified"

\* The directory never holds a complete bundle that is not the verified one: a run that
\* finds another in dist leaves no file, and none is replaced under a run's hands.
OnlyVerifiedKept == restore # "other"

\* The verified recovery bundle, once there, is never written again.
RestoreKept == [][restore = "verified" => restore' = "verified"]_outageVars
===============================================================================
