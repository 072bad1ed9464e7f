---------------------------- MODULE BrowserProfiles ----------------------------
(***************************************************************************)
(* The throwaway Chrome profiles of the inspection tools (lib/cdp.mjs):    *)
(* every run claims its folder with an owner file before Chrome starts and *)
(* again when Chrome has a process id, and sweeps away the folders it      *)
(* takes for abandoned.  Several runs share the temporary directory; a run *)
(* may be killed at any point, and its Chrome may outlive it.              *)
(***************************************************************************)
EXTENDS Naturals

CONSTANT BrowserRuns

VARIABLES node,     \* each run: the step of its launch, or how it ended
          chrome,   \* its Chrome
          profileDir,  \* its folder, by the owner file in it
          unnamed,  \* runs whose Chrome was started and is not named by their readable owner file
          lost      \* runs whose folder was swept by another

profileVars == <<node, chrome, profileDir, unnamed, lost>>

Alive == {"swept", "made", "claimed", "spawned", "waiting", "connected", "exiting"}
Folder == {"absent", "unclaimed", "run", "both", "damaged"}

ProfilesTypeOK ==
  /\ node \in [BrowserRuns -> Alive \cup {"new", "ended", "killed"}]
  /\ chrome \in [BrowserRuns -> {"none", "running", "dead"}]
  /\ profileDir \in [BrowserRuns -> Folder]
  /\ unnamed \subseteq BrowserRuns /\ lost \subseteq BrowserRuns

ProfilesInit ==
  /\ node = [r \in BrowserRuns |-> "new"]
  /\ chrome = [r \in BrowserRuns |-> "none"]
  /\ profileDir = [r \in BrowserRuns |-> "absent"]
  /\ unnamed = {} /\ lost = {}

-------------------------------------------------------------------------------

\* Mutant: a folder without an owner file is taken for abandoned.
Abandoned_Unclaimed(p) ==
  /\ node[p] \notin Alive \/ profileDir[p] = "unclaimed"
  /\ profileDir[p] # "absent"
  /\ profileDir[p] = "both" => chrome[p] # "running"

\* The owner file is readable, and neither process it names is alive.
Abandoned(p) ==
  /\ profileDir[p] \in {"run", "both"}
  /\ node[p] \notin Alive
  /\ profileDir[p] = "both" => chrome[p] # "running"

\* The sweep of a launch; a folder stays when its process ids are in use again.
SweepProfiles(r) ==
  /\ node[r] = "new"
  /\ \E swept \in SUBSET {p \in BrowserRuns : Abandoned(p)} :
       /\ profileDir' = [p \in BrowserRuns |-> IF p \in swept THEN "absent" ELSE profileDir[p]]
       /\ lost' = lost \cup swept
  /\ node' = [node EXCEPT ![r] = "swept"]
  /\ UNCHANGED <<chrome, unnamed>>

MakeProfile(r) ==
  /\ node[r] = "swept"
  /\ profileDir' = [profileDir EXCEPT ![r] = "unclaimed"]
  /\ node' = [node EXCEPT ![r] = "made"]
  /\ UNCHANGED <<chrome, unnamed, lost>>

\* A claim writes the owner file, or fails: before it opened the file or after.
Claim(r) ==
  /\ node[r] = "made"
  /\ profileDir' \in {[profileDir EXCEPT ![r] = o] : o \in {"run", "unclaimed", "damaged"}}
  /\ node' = [node EXCEPT ![r] = "claimed"]
  /\ UNCHANGED <<chrome, unnamed, lost>>

Spawn(r) ==
  /\ node[r] = "claimed"
  /\ chrome' = [chrome EXCEPT ![r] = "running"]
  /\ unnamed' = IF profileDir[r] = "run" THEN unnamed \cup {r} ELSE unnamed
  /\ node' = [node EXCEPT ![r] = "spawned"]
  /\ UNCHANGED <<profileDir, lost>>

\* The second claim names Chrome too; it may fail like the first.
ClaimChrome(r) ==
  /\ node[r] = "spawned"
  /\ profileDir' \in {[profileDir EXCEPT ![r] = o] : o \in {"both", profileDir[r], "damaged"}}
  /\ unnamed' = IF profileDir'[r] = profileDir[r] THEN unnamed ELSE unnamed \ {r}
  /\ node' = [node EXCEPT ![r] = "waiting"]
  /\ UNCHANGED <<chrome, lost>>

\* The socket of the browser opens, or Chrome is late or gone and the launch throws.
ConnectDevTools(r) ==
  /\ node[r] = "waiting"
  /\ node' \in {[node EXCEPT ![r] = n] : n \in {"exiting"} \cup (IF chrome[r] = "running" THEN {"connected"} ELSE {})}
  /\ UNCHANGED <<chrome, profileDir, unnamed, lost>>

\* Browser.close asks Chrome to end and removes the folder 300 ms later, or the run ends by a
\* signal or an exception.
CloseBrowser(r) ==
  /\ node[r] = "connected"
  /\ chrome' \in {chrome, [chrome EXCEPT ![r] = "dead"]}
  /\ profileDir' \in {profileDir, [profileDir EXCEPT ![r] = "absent"]}
  /\ node' = [node EXCEPT ![r] = "exiting"]
  /\ UNCHANGED <<unnamed, lost>>

\* The exit handler: Chrome first, then the folder; either may resist.
Drop(r) ==
  /\ node[r] = "exiting"
  /\ chrome' \in {chrome, [chrome EXCEPT ![r] = IF @ = "running" THEN "dead" ELSE @]}
  /\ profileDir' \in {profileDir, [profileDir EXCEPT ![r] = "absent"]}
  /\ node' = [node EXCEPT ![r] = "ended"]
  /\ UNCHANGED <<unnamed, lost>>

Killed(r) ==
  /\ node[r] \in Alive
  /\ node' = [node EXCEPT ![r] = "killed"]
  /\ UNCHANGED <<chrome, profileDir, unnamed, lost>>

ChromeCrashes(r) ==
  /\ chrome[r] = "running"
  /\ chrome' = [chrome EXCEPT ![r] = "dead"]
  /\ UNCHANGED <<node, profileDir, unnamed, lost>>

ProfilesNext ==
  \E r \in BrowserRuns : \/ SweepProfiles(r) \/ MakeProfile(r) \/ Claim(r) \/ Spawn(r) \/ ClaimChrome(r)
                  \/ ConnectDevTools(r) \/ CloseBrowser(r) \/ Drop(r) \/ Killed(r) \/ ChromeCrashes(r)

ProfilesSpec == ProfilesInit /\ [][ProfilesNext]_profileVars

-------------------------------------------------------------------------------

\* A sweep takes no folder that is in use, whichever of the two claims failed and in whatever order
\* the launches, the ends and the kills come: its run has ended, and its Chrome too, unless the run
\* ended before the second claim named it (killed between the two, or the claim failed).
LiveKeepsProfile ==
  \A r \in lost : node[r] \in {"ended", "killed"} /\ (chrome[r] = "running" => r \in unnamed)
===============================================================================
