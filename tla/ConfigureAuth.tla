----------------------------- MODULE ConfigureAuth -----------------------------
(***************************************************************************)
(* backend/scripts/configure-auth.mjs, run again and again by an operator: *)
(* a chain of requests to the management API and three files at the end.   *)
(* Any request may fail before or after it took effect, a write may leave  *)
(* half a file, and somebody at the console changes what a run has read or *)
(* set.  The next run starts from what the last one left.                  *)
(***************************************************************************)
EXTENDS Naturals, FiniteSets

CONSTANTS Clients, NoClient,  \* identifiers of OAuth clients
          TornFile,           \* what is written of a file cannot be parsed
          Resources, Ours     \* resource identifiers, and config.resource

ASSUME ConfigureAssumption ==
  Ours \in Resources /\ NoClient \notin Clients /\ TornFile \notin Clients \cup {NoClient}

VARIABLES root,       \* the branch has no parent; this never changes
          provider,   \* the OAuth provider: enabled, and its resources
          origin,     \* [trusted |-> the function's origin, localhost |-> allowed]
          clients,    \* each client: none, confidential, stale or good
          recorded, desktop,  \* the client of neon.json, and of the desktop's neon.<target>.json
          step, seen, chosen, \* the running script
          others      \* ghost: what was changed by others, see OthersType

remote == <<root, provider, origin, clients>>
files == <<recorded, desktop>>
script == <<step, seen, chosen>>
configureVars == <<remote, files, script, others>>

\* The resources added and the provider disabled since the run read them, a client spoilt since
\* the run gave it its policy, a client made, neon.json restored.
OthersType == [late : SUBSET Resources, disabled : BOOLEAN, spoilt : BOOLEAN, made : BOOLEAN, restored : BOOLEAN]

ConfigureSteps == {"idle", "start", "provider", "domain", "localhost", "find", "client", "record",
          "desktop", "done"}

ConfigureTypeOK ==
  /\ root \in BOOLEAN
  /\ provider \in [enabled : BOOLEAN, resources : SUBSET Resources]
  /\ origin \in [trusted : BOOLEAN, localhost : BOOLEAN]
  /\ clients \in [Clients -> {"none", "confidential", "stale", "good"}]
  /\ {recorded, desktop} \subseteq Clients \cup {NoClient, TornFile} /\ chosen \in Clients \cup {NoClient}
  /\ step \in ConfigureSteps /\ seen \subseteq Resources
  /\ others \in OthersType

ConfigureInit ==
  /\ root \in BOOLEAN
  /\ provider = [enabled |-> FALSE, resources |-> {}]
  /\ origin = [trusted |-> FALSE, localhost |-> FALSE]
  /\ clients = [c \in Clients |-> "none"]
  /\ recorded = NoClient /\ desktop = NoClient
  /\ step = "idle" /\ seen = {} /\ chosen = NoClient
  /\ others = [late |-> {}, disabled |-> FALSE, spoilt |-> FALSE, made |-> FALSE, restored |-> FALSE]

-------------------------------------------------------------------------------

\* At any time the console enables or disables the provider and adds a resource,
ConsoleProvider(enabled, r) ==
  /\ provider' = [enabled |-> enabled, resources |-> provider.resources \cup {r}]
  /\ others' = [others EXCEPT !.disabled = ~enabled,
                             !.late = IF step = "provider" /\ r \notin seen THEN @ \cup {r} ELSE @]
  /\ UNCHANGED <<root, origin, clients, files, script>>

\* and makes a client of the desktop's name, makes one confidential or changes its policy.
ConsoleClient(c, policy) ==
  /\ <<clients[c], policy>> \in {<<"none", "stale">>, <<"stale", "confidential">>, <<"good", "stale">>}
  /\ clients' = [clients EXCEPT ![c] = policy]
  /\ others' = [others EXCEPT !.spoilt = TRUE, !.made = @ \/ clients[c] = "none"]
  /\ UNCHANGED <<root, provider, origin, files, script>>

\* neon.json that no run can parse is put back by hand, to what it once held.
RestoreRecord ==
  /\ recorded = TornFile
  /\ recorded' \in {NoClient} \cup {c \in Clients : clients[c] # "none"}
  /\ others' = [others EXCEPT !.restored = TRUE]
  /\ UNCHANGED <<remote, desktop, script>>

Console ==
  \/ \E enabled \in BOOLEAN, r \in Resources : ConsoleProvider(enabled, r)
  \/ \E c \in Clients, policy \in {"stale", "confidential"} : ConsoleClient(c, policy)

\* A request or a write throws: main ends, and what was done stays done.
Stop == step' = "idle" /\ seen' = {} /\ chosen' = NoClient

GoStep(next) == step' = next /\ UNCHANGED <<seen, chosen>>

\* A run begins with neon.json: a torn one ends it at once.
StartConfigure ==
  /\ step \in {"idle", "done"}
  /\ recorded # TornFile
  /\ step' = "start" /\ seen' = {} /\ chosen' = NoClient
  /\ UNCHANGED <<remote, files, others>>

\* The request or write of a step is not made, or fails with no effect.
Fails ==
  /\ step \notin {"idle", "done"}
  /\ Stop
  /\ UNCHANGED <<remote, files, others>>

\* Mutant: a child is configured like a root.
ReadProvider_AnyBranch ==
  /\ step = "start"
  /\ step' = "provider" /\ seen' = provider.resources /\ UNCHANGED chosen
  /\ others' = [others EXCEPT !.late = {}, !.disabled = FALSE]
  /\ UNCHANGED <<remote, files>>

\* The branch metadata and the provider are read; a child's disabled provider ends the run.
ReadProvider ==
  /\ step = "start"
  /\ IF ~root /\ ~provider.enabled THEN Stop
     ELSE step' = "provider" /\ seen' = provider.resources /\ UNCHANGED chosen
  /\ others' = [others EXCEPT !.late = {}, !.disabled = FALSE]
  /\ UNCHANGED <<remote, files>>

\* Mutant: the PATCH sends the program's resource alone.
PatchProvider_OursOnly ==
  /\ step = "provider"
  /\ provider' = [enabled |-> root \/ provider.enabled, resources |-> {Ours}]
  /\ others' = [others EXCEPT !.late = {}, !.disabled = @ /\ ~root]
  /\ GoStep("domain") \/ Stop
  /\ UNCHANGED <<root, origin, clients, files>>

\* Each of the following requests takes effect; its answer may be lost (Stop).
PatchProvider ==
  /\ step = "provider"
  /\ provider' = [enabled |-> root \/ provider.enabled, resources |-> seen \cup {Ours}]
  /\ others' = [others EXCEPT !.late = {}, !.disabled = @ /\ ~root]
  /\ GoStep("domain") \/ Stop
  /\ UNCHANGED <<root, origin, clients, files>>

TrustOrigin ==
  /\ step = "domain"
  /\ origin' = [origin EXCEPT !.trusted = TRUE]
  /\ GoStep("localhost") \/ Stop
  /\ UNCHANGED <<root, provider, clients, files, others>>

\* Mutant: a failed PATCH is taken for an answer.
AllowLocalhost_Unchecked ==
  /\ step = "localhost"
  /\ origin' \in {origin, [origin EXCEPT !.localhost = TRUE]}
  /\ GoStep("find")
  /\ UNCHANGED <<root, provider, clients, files, others>>

AllowLocalhost ==
  /\ step = "localhost"
  /\ origin' = [origin EXCEPT !.localhost = TRUE]
  /\ GoStep("find") \/ Stop
  /\ UNCHANGED <<root, provider, clients, files, others>>

\* Mutant: only the recorded client is looked for.
Matching_RecordedOnly == {c \in Clients : clients[c] # "none" /\ c = recorded}

\* The clients that may be the desktop's: the recorded one, or the public ones of its name.
Matching ==
  IF recorded # NoClient THEN {c \in Clients : clients[c] # "none" /\ c = recorded}
  ELSE {c \in Clients : clients[c] \in {"stale", "good"}}

FindClient ==
  /\ step = "find"
  /\ \/ Matching = {} /\ step' = "client" /\ chosen' = NoClient /\ UNCHANGED seen
     \/ \E c \in Matching :
          /\ Matching = {c} /\ clients[c] # "confidential"
          /\ step' = "client" /\ chosen' = c /\ UNCHANGED seen
     \/ /\ Cardinality(Matching) > 1 \/ \E c \in Matching : clients[c] = "confidential"
        /\ Stop
  /\ UNCHANGED <<remote, files, others>>

\* The client gets its policy by a PATCH, or is made with it by a POST; a
\* client that has become confidential since it was found stays so.
PutClient ==
  /\ step = "client"
  /\ \E c \in Clients :
       /\ IF chosen # NoClient THEN c = chosen ELSE clients[c] = "none"
       /\ clients' = [clients EXCEPT ![c] = IF @ = "confidential" THEN @ ELSE "good"]
       /\ others' = [others EXCEPT !.spoilt = clients[c] = "confidential"]
       /\ \/ step' = "record" /\ chosen' = c /\ UNCHANGED seen
          \/ Stop
  /\ UNCHANGED <<root, provider, origin, files>>

\* Mutant: the client is set in the configuration, which is not written.
Record_InMemory ==
  /\ step = "record"
  /\ GoStep("desktop")
  /\ UNCHANGED <<remote, files, others>>

\* neon.json is truncated and written anew, then the file of the desktop: a failure or a kill
\* between the two leaves a torn file.
Record ==
  /\ step = "record"
  /\ \/ recorded' = chosen /\ GoStep("desktop")
     \/ recorded' = TornFile /\ Stop
  /\ UNCHANGED <<remote, desktop, others>>

WriteDesktop ==
  /\ step = "desktop"
  /\ \/ desktop' = chosen /\ GoStep("done")
     \/ desktop' = TornFile /\ Stop
  /\ UNCHANGED <<remote, recorded, others>>

ConfigureNext ==
  \/ Console \/ RestoreRecord \/ StartConfigure \/ Fails \/ ReadProvider \/ PatchProvider \/ TrustOrigin
  \/ AllowLocalhost \/ FindClient \/ PutClient \/ Record \/ WriteDesktop

ConfigureSpec == ConfigureInit /\ [][ConfigureNext]_configureVars

-------------------------------------------------------------------------------

\* However often the script of configure-auth.mjs is run again after a failure, a lost answer or a
\* torn file, it makes one public client and finds it again, unless the console makes one too or
\* turns one confidential.
OneClient ==
  ~others.made /\ (\A c \in Clients : clients[c] # "confidential") =>
     Cardinality({c \in Clients : clients[c] # "none"}) <= 1

\* The files of configure-auth.mjs name clients that exist, and a run that fails between the two
\* leaves no desktop with another client than the recorded one, until neon.json is put back by hand.
DesktopFollowsRecord ==
  /\ \A c \in {recorded, desktop} \cap Clients : clients[c] # "none"
  /\ desktop \in Clients /\ ~others.restored => recorded \in {desktop, TornFile}

\* The run of configure-auth.mjs that reports success has configured everything, except what others
\* changed after it had read or set it.
SuccessMeansConfigured ==
  step = "done" =>
    /\ provider.enabled \/ others.disabled
    /\ Ours \in provider.resources
    /\ origin.trusted /\ origin.localhost
    /\ recorded = desktop /\ recorded \in Clients
    /\ clients[recorded] = "good" \/ others.spoilt

\* configure-auth.mjs, "preserves other resource identifiers": a run takes no resource away but one
\* that was registered between its reading and its PATCH.
ResourcesPreserved ==
  [][step' # step => provider.resources \ provider'.resources \subseteq others.late]_configureVars

\* "no settings were changed": on a child whose provider is disabled a run of configure-auth.mjs
\* changes nothing anywhere, unless it was disabled after the run had found it enabled.
ChildUntouched ==
  [][step' # step /\ ~root /\ ~provider.enabled /\ (step \in {"idle", "start", "done"} \/ ~others.disabled)
       => UNCHANGED <<remote, files>>]_configureVars
===============================================================================
