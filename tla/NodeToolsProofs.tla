--------------------------- MODULE NodeToolsProofs ----------------------------
(***************************************************************************)
(* Proofs about the programs that operate and accept the account service,  *)
(* NativeTestProxy, ConfigureAuth, ReleaseScripts, NativeOutage,           *)
(* BrowserAcceptance and OAuthAcceptance, for any number of tunnels,       *)
(* clients, resources, operators, builds and callbacks.                    *)
(***************************************************************************)
EXTENDS ServiceProgramsProofs

-------------------------------------------------------------------------------

Severed(t) == socket[t].client \notin Live /\ socket[t].upstream \notin Live

\* A tunnel that is not counted is cut, whichever of its events removed it, and a proxy that
\* is disabled or closing counts none.
ProxyInv ==
  /\ ProxyTypeOK
  /\ IsFiniteSet(tunnels) /\ Cardinality(tunnels) <= MaxTunnels
  /\ \A t \in Tunnels \ tunnels : Severed(t)
  /\ ~enabled => tunnels = {}
  /\ closing => ~enabled

\* The invariant holds at the start.
LEMMA ProxyInitInv == ProxyInit => ProxyInv
<1> SUFFICES ASSUME ProxyInit PROVE ProxyInv
  OBVIOUS
<1>1. ProxyTypeOK
  BY DEF ProxyInit, ProxyTypeOK
<1>2. IsFiniteSet(tunnels) /\ Cardinality(tunnels) <= MaxTunnels
  BY FS_EmptySet, ProxyAssumption DEF ProxyInit
<1>3. \A t \in Tunnels : Severed(t)
  BY DEF ProxyInit, Severed, Live, Sides
<1> QED BY <1>1, <1>2, <1>3 DEF ProxyInit, ProxyInv

\* A tunnel whose socket is alive is one that is not cut.
LEMMA AliveIsNotCut == ASSUME NEW t PROVE SocketAlive(t) <=> ~Severed(t)
  BY DEF SocketAlive, Severed, Sides

\* cleanup destroys both sides.
LEMMA EndedIsCut == TunnelEnded \in [Sides -> {"none", "opening", "open", "destroyed"}]
                    /\ TunnelEnded.client \notin Live /\ TunnelEnded.upstream \notin Live
  BY DEF TunnelEnded, Sides, Live

\* The end of a tunnel cuts it, and nothing else.
LEMMA CleanedUp ==
  ASSUME ProxyInv, NEW t \in Tunnels, CleanupTunnel(t), UNCHANGED <<enabled, closing>>
  PROVE  ProxyInv'
<1> USE DEF ProxyInv, CleanupTunnel
<1>1. ProxyTypeOK'
  BY EndedIsCut DEF ProxyTypeOK
<1>2. IsFiniteSet(tunnels') /\ Cardinality(tunnels') <= MaxTunnels
  <2>1. IsFiniteSet(tunnels \ {t}) /\ Cardinality(tunnels \ {t}) <= Cardinality(tunnels)
    BY FS_Subset
  <2> QED BY <2>1, FS_CardinalityType, ProxyAssumption
<1>3. \A u \in Tunnels \ tunnels' : Severed(u)'
  <2>1. Severed(t)'
    BY EndedIsCut DEF Severed, ProxyTypeOK
  <2>2. ASSUME NEW u \in Tunnels \ tunnels', u # t PROVE Severed(u)'
    BY <2>2 DEF Severed, ProxyTypeOK
  <2> QED BY <2>1, <2>2
<1> QED BY <1>1, <1>2, <1>3

\* Disabling and closing destroy every tunnel that is counted.
LEMMA Destroyed ==
  ASSUME ProxyInv, DestroyTunnels, closing' \in BOOLEAN, enabled' \in BOOLEAN, closing' => ~enabled'
  PROVE  ProxyInv'
<1> USE DEF ProxyInv, DestroyTunnels
<1>1. ProxyTypeOK'
  BY EndedIsCut DEF ProxyTypeOK
<1>2. IsFiniteSet(tunnels') /\ Cardinality(tunnels') <= MaxTunnels
  BY FS_EmptySet, ProxyAssumption
<1>3. \A u \in Tunnels \ tunnels' : Severed(u)'
  BY EndedIsCut DEF Severed, ProxyTypeOK
<1> QED BY <1>1, <1>2, <1>3

\* Every step keeps the invariant.
LEMMA ProxyInvKept == ProxyInv /\ [ProxyNext]_proxyVars => ProxyInv'
<1> SUFFICES ASSUME ProxyInv, ProxyNext \/ UNCHANGED proxyVars PROVE ProxyInv'
  OBVIOUS
<1> USE DEF ProxyInv
<1>1. CASE CloseProxy
  BY <1>1, Destroyed DEF CloseProxy
<1>2. ASSUME NEW enable \in BOOLEAN, Control(enable) PROVE ProxyInv'
  <2>1. enabled' \in BOOLEAN /\ closing' \in BOOLEAN /\ (closing' => ~enabled')
    BY <1>2 DEF Control, ProxyTypeOK
  <2>2. CASE enabled'
    <3>1. UNCHANGED <<tunnels, socket, closing>>
      BY <1>2, <2>2 DEF Control
    <3> QED BY <2>1, <2>2, <3>1 DEF ProxyTypeOK, Severed
  <2>3. CASE ~enabled'
    BY <1>2, <2>1, <2>3, Destroyed DEF Control
  <2> QED BY <2>2, <2>3
<1>3. ASSUME NEW t \in Tunnels, ConnectRequest(t) PROVE ProxyInv'
  <2>1. CASE socket' = [socket EXCEPT ![t] = TunnelEnded] /\ UNCHANGED tunnels
    <3>1. ProxyTypeOK'
      BY <1>3, <2>1, EndedIsCut DEF ConnectRequest, ProxyTypeOK
    <3>2. ASSUME NEW u \in Tunnels \ tunnels' PROVE Severed(u)'
      BY <2>1, EndedIsCut DEF Severed, ProxyTypeOK
    <3> QED BY <1>3, <2>1, <3>1, <3>2 DEF ConnectRequest
  <2>2. CASE /\ enabled /\ ~closing /\ ~TunnelsFull
             /\ socket' = [socket EXCEPT ![t] = [client |-> "open", upstream |-> "opening"]]
             /\ tunnels' = tunnels \cup {t}
    <3>1. [client |-> "open", upstream |-> "opening"] \in [Sides -> {"none", "opening", "open", "destroyed"}]
      BY DEF Sides
    <3>2. ProxyTypeOK'
      BY <1>3, <2>2, <3>1 DEF ConnectRequest, ProxyTypeOK
    <3>3. IsFiniteSet(tunnels') /\ Cardinality(tunnels') <= MaxTunnels
      BY <2>2, FS_AddElement, FS_CardinalityType, ProxyAssumption DEF TunnelsFull
    <3>4. ASSUME NEW u \in Tunnels \ tunnels' PROVE Severed(u)'
      BY <2>2 DEF Severed, ProxyTypeOK
    <3> QED BY <1>3, <2>2, <3>2, <3>3, <3>4 DEF ConnectRequest
  <2> QED BY <1>3, <2>1, <2>2 DEF ConnectRequest
<1>4. ASSUME NEW t \in Tunnels, SideEnds(t) PROVE ProxyInv'
  BY <1>4, CleanedUp DEF SideEnds
<1>5. ASSUME NEW t \in Tunnels, Established(t) PROVE ProxyInv'
  <2>1. CASE ~enabled \/ closing \/ socket[t].client = "destroyed"
    BY <1>5, <2>1, CleanedUp DEF Established
  <2>2. CASE ~(~enabled \/ closing \/ socket[t].client = "destroyed")
    <3>1. t \in tunnels
      BY <1>5 DEF Established, Severed, Live
    <3>2. socket' = [socket EXCEPT ![t].upstream = "open"] /\ UNCHANGED <<tunnels, enabled, closing>>
      BY <1>5, <2>2 DEF Established
    <3>3. ProxyTypeOK'
      BY <3>2 DEF ProxyTypeOK, Sides
    <3>4. ASSUME NEW u \in Tunnels \ tunnels' PROVE Severed(u)'
      BY <3>1, <3>2 DEF Severed, ProxyTypeOK
    <3> QED BY <3>2, <3>3, <3>4
  <2> QED BY <2>1, <2>2
<1>6. ASSUME NEW t \in Tunnels, NEW side \in Sides, Lost(t, side) PROVE ProxyInv'
  <2>1. socket' = [socket EXCEPT ![t][side] = "destroyed"] /\ UNCHANGED <<tunnels, enabled, closing>>
    BY <1>6 DEF Lost
  <2>2. ProxyTypeOK'
    BY <2>1 DEF ProxyTypeOK
  <2>3. ASSUME NEW u \in Tunnels \ tunnels' PROVE Severed(u)'
    BY <2>1 DEF Severed, ProxyTypeOK, Live, Sides
  <2> QED BY <2>1, <2>2, <2>3
<1>7. CASE UNCHANGED proxyVars
  BY <1>7 DEF proxyVars, ProxyTypeOK, Severed
<1> QED BY <1>1, <1>2, <1>3, <1>4, <1>5, <1>6, <1>7 DEF ProxyNext

\* Disabled means cut, and no tunnel lives that is not counted.
LEMMA ProxyIsSafe == ProxyInv => DisabledMeansCut /\ NothingUntracked /\ TunnelsBounded
<1> SUFFICES ASSUME ProxyInv PROVE DisabledMeansCut /\ NothingUntracked /\ TunnelsBounded
  OBVIOUS
<1> DEFINE Carrying == {t \in Tunnels : SocketAlive(t)}
<1>1. Carrying \subseteq tunnels
  BY AliveIsNotCut DEF ProxyInv
<1>2. Cardinality(Carrying) <= MaxTunnels
  <2>1. IsFiniteSet(Carrying) /\ Cardinality(Carrying) <= Cardinality(tunnels)
    BY <1>1, FS_Subset DEF ProxyInv
  <2> HIDE DEF Carrying
  <2> QED BY <2>1, FS_CardinalityType, ProxyAssumption DEF ProxyInv
<1> QED BY <1>1, <1>2, AliveIsNotCut DEF ProxyInv, DisabledMeansCut, NothingUntracked, TunnelsBounded
-------------------------------------------------------------------------------

\* The clients that exist, whatever their policy, and those that a run may take for its own.
Existing == {c \in Clients : clients[c] # "none"}
Public == {c \in Clients : clients[c] \in {"stale", "good"}}
Nobody == \A c \in Clients : clients[c] # "confidential"

\* What the running script has established by the step it has reached: each request of it took
\* effect before the next, and what others undid since is known.
DoneSoFar ==
  /\ step \in {"idle", "start"} \/ root \/ provider.enabled \/ others.disabled
  /\ step # "idle" => recorded # TornFile
  /\ step = "provider" => provider.resources \subseteq seen \cup others.late
  /\ step \in {"domain", "localhost", "find", "client", "record", "desktop", "done"}
       => (provider.enabled \/ others.disabled) /\ Ours \in provider.resources
  /\ step \in {"localhost", "find", "client", "record", "desktop", "done"} => origin.trusted = TRUE
  /\ step \in {"find", "client", "record", "desktop", "done"} => origin.localhost = TRUE
  /\ step \in {"record", "desktop", "done"} => chosen \in Existing /\ (clients[chosen] = "good" \/ others.spoilt)
  /\ step \in {"desktop", "done"} => recorded = chosen
  /\ step = "done" => desktop = chosen

\* A client is made only when no public one and no recorded one is there.
MadeOnce ==
  /\ Nobody /\ ~others.made => \A c, d \in Existing : c = d
  /\ recorded \in Clients => recorded \in Existing
  /\ desktop \in Clients => desktop \in Existing
  /\ desktop \in Clients /\ ~others.restored => recorded \in {desktop, TornFile}
  /\ step \in {"client", "record", "desktop", "done"} /\ recorded # NoClient => chosen = recorded
  /\ step = "client" /\ chosen # NoClient => chosen \in Existing
  /\ step = "client" /\ chosen = NoClient => others.made \/ Public = {}

ConfigureParts ==
  /\ root \in BOOLEAN
  /\ provider \in [enabled : BOOLEAN, resources : SUBSET Resources]
  /\ origin \in [trusted : BOOLEAN, localhost : BOOLEAN]
  /\ clients \in [Clients -> {"none", "confidential", "stale", "good"}]
  /\ recorded \in Clients \cup {NoClient, TornFile} /\ desktop \in Clients \cup {NoClient, TornFile}
  /\ chosen \in Clients \cup {NoClient}
  /\ step \in ConfigureSteps /\ seen \subseteq Resources
  /\ others \in OthersType

ConfigureInv == ConfigureParts /\ DoneSoFar /\ MadeOnce

\* The invariant holds at the start.
LEMMA ConfigureInitInv == ConfigureInit => ConfigureInv
  BY ConfigureAssumption
     DEF ConfigureInit, ConfigureInv, ConfigureParts, DoneSoFar, MadeOnce, ConfigureSteps, Existing, Public, Nobody, OthersType

\* The types are part of it.
LEMMA ConfigureTypes == ConfigureInv => ConfigureTypeOK
  BY DEF ConfigureInv, ConfigureParts, ConfigureTypeOK

\* A run that stops or starts leaves what it did.
LEMMA Stopped ==
  ASSUME ConfigureInv, UNCHANGED <<remote, files, others>>, chosen' = NoClient, seen' = {},
         step' = "idle" \/ (step' = "start" /\ recorded # TornFile)
  PROVE  ConfigureInv'
  BY ConfigureAssumption
     DEF ConfigureInv, ConfigureParts, DoneSoFar, MadeOnce, ConfigureSteps, Existing, Public, Nobody, remote, files

\* The fields of the ghost that a step sets.
LEMMA OthersFields ==
  ASSUME others \in OthersType, NEW late \in SUBSET Resources, NEW b \in BOOLEAN, NEW c \in BOOLEAN
  PROVE  /\ LET o == [others EXCEPT !.late = late, !.disabled = b]
            IN  o \in OthersType /\ o.late = late /\ o.disabled = b /\ o.spoilt = others.spoilt /\ o.made = others.made
                /\ o.restored = others.restored
         /\ LET o == [others EXCEPT !.disabled = b, !.late = late]
            IN  o \in OthersType /\ o.late = late /\ o.disabled = b /\ o.spoilt = others.spoilt /\ o.made = others.made
                /\ o.restored = others.restored
         /\ LET o == [others EXCEPT !.spoilt = b, !.made = c]
            IN  o \in OthersType /\ o.late = others.late /\ o.disabled = others.disabled /\ o.spoilt = b /\ o.made = c
                /\ o.restored = others.restored
         /\ LET o == [others EXCEPT !.spoilt = b]
            IN  o \in OthersType /\ o.late = others.late /\ o.disabled = others.disabled /\ o.spoilt = b
                /\ o.made = others.made /\ o.restored = others.restored
         /\ LET o == [others EXCEPT !.restored = TRUE]
            IN  o \in OthersType /\ o.late = others.late /\ o.disabled = others.disabled /\ o.spoilt = others.spoilt
                /\ o.made = others.made /\ o.restored = TRUE
  BY DEF OthersType

\* The console keeps it: what it changes of the provider is noted,
LEMMA ConsoleProviderKept ==
  ASSUME ConfigureInv, NEW e \in BOOLEAN, NEW r \in Resources, ConsoleProvider(e, r)
  PROVE  ConfigureInv'
<1> USE DEF ConfigureInv
<1> DEFINE late == IF step = "provider" /\ r \notin seen THEN others.late \cup {r} ELSE others.late
<1>1. UNCHANGED <<root, origin, clients, recorded, desktop, step, seen, chosen>>
  BY DEF ConsoleProvider, files, script
<1>2. provider' = [enabled |-> e, resources |-> provider.resources \cup {r}]
  BY DEF ConsoleProvider
<1>3. provider'.enabled = e /\ provider'.resources = provider.resources \cup {r}
      /\ provider' \in [enabled : BOOLEAN, resources : SUBSET Resources]
  BY <1>2 DEF ConfigureParts
<1>4. others' = [others EXCEPT !.disabled = ~e, !.late = late] /\ late \in SUBSET Resources
  BY DEF ConsoleProvider, ConfigureParts, OthersType
<1>5. step = "provider" => others.late \cup {r} \subseteq late \cup seen
  OBVIOUS
<1> HIDE DEF late
<1>6. /\ others' \in OthersType /\ others'.late = late /\ others'.disabled = ~e /\ others'.spoilt = others.spoilt
      /\ others'.made = others.made /\ others'.restored = others.restored
  BY <1>4 DEF ConfigureParts, OthersType
<1>7. ConfigureParts'
  BY <1>1, <1>3, <1>6 DEF ConfigureParts
<1>8. step' = "provider" => provider'.resources \subseteq seen' \cup others'.late
  BY <1>1, <1>3, <1>5, <1>6 DEF DoneSoFar
<1>9. provider'.enabled \/ others'.disabled
  BY <1>3, <1>6
<1>10. DoneSoFar'
  BY <1>1, <1>3, <1>6, <1>8, <1>9 DEF DoneSoFar, Existing
<1>11. MadeOnce'
  BY <1>1, <1>6 DEF MadeOnce, Existing, Public, Nobody
<1> QED BY <1>7, <1>10, <1>11

\* and so is a client it makes or spoils.
LEMMA ConsoleClientKept ==
  ASSUME ConfigureInv, NEW c \in Clients, NEW policy \in {"stale", "confidential"}, ConsoleClient(c, policy)
  PROVE  ConfigureInv'
<1> USE DEF ConfigureInv
<1>1. UNCHANGED <<root, provider, origin, recorded, desktop, step, seen, chosen>>
  BY DEF ConsoleClient, files, script
<1>2. \/ clients[c] = "none" /\ policy = "stale"
      \/ clients[c] = "stale" /\ policy = "confidential"
      \/ clients[c] = "good" /\ policy = "stale"
  BY DEF ConsoleClient
<1>3. clients' = [clients EXCEPT ![c] = policy] /\ clients \in [Clients -> {"none", "confidential", "stale", "good"}]
  BY DEF ConsoleClient, ConfigureParts
<1>4. /\ others' \in OthersType /\ others'.late = others.late /\ others'.disabled = others.disabled
      /\ others'.spoilt = TRUE /\ others'.made = (others.made \/ clients[c] = "none") /\ others'.restored = others.restored
  <2>1. others' = [others EXCEPT !.spoilt = TRUE, !.made = @ \/ clients[c] = "none"] /\ others \in OthersType
    BY DEF ConsoleClient, ConfigureParts
  <2>2. (others.made \/ clients[c] = "none") \in BOOLEAN
    OBVIOUS
  <2> QED BY <2>1, <2>2 DEF OthersType
<1>5. ConfigureParts'
  BY <1>1, <1>3, <1>4 DEF ConfigureParts
<1>6. \A d \in Existing : d \in Existing'
  BY <1>2, <1>3 DEF Existing
<1>7. DoneSoFar'
  BY <1>1, <1>4, <1>6 DEF DoneSoFar
<1>8. CASE clients[c] = "none"
  <2>1. others'.made /\ others'.restored = others.restored
    BY <1>4, <1>8
  <2>2. MadeOnce'
    BY <1>1, <1>6, <2>1 DEF MadeOnce
  <2> QED BY <1>5, <1>7, <2>2
<1>9. CASE clients[c] # "none"
  <2>1. Existing' = Existing /\ Public' \subseteq Public /\ (Nobody' => Nobody)
    BY <1>2, <1>3, <1>9 DEF Existing, Public, Nobody
  <2> QED BY <1>1, <1>4, <1>5, <1>7, <1>9, <2>1 DEF MadeOnce
<1> QED BY <1>5, <1>7, <1>8, <1>9

\* Every step keeps the invariant.
LEMMA ConfigureInvKept == ConfigureInv /\ [ConfigureNext]_configureVars => ConfigureInv'
<1> SUFFICES ASSUME ConfigureInv, ConfigureNext \/ UNCHANGED configureVars PROVE ConfigureInv'
  OBVIOUS
<1> USE ConfigureAssumption DEF ConfigureInv
<1>1. CASE Console
  BY <1>1, ConsoleProviderKept, ConsoleClientKept DEF Console
<1>2. CASE RestoreRecord
  <2>1. recorded = TornFile /\ recorded' \in {NoClient} \cup Existing
        /\ UNCHANGED <<root, provider, origin, clients, desktop, step, seen, chosen>>
    BY <1>2 DEF RestoreRecord, remote, script, Existing
  <2>2. step = "idle"
    BY <2>1 DEF DoneSoFar
  <2>3. /\ others' \in OthersType /\ others'.late = others.late /\ others'.disabled = others.disabled
        /\ others'.spoilt = others.spoilt /\ others'.made = others.made /\ others'.restored = TRUE
    BY <1>2, OthersFields DEF RestoreRecord, ConfigureParts
  <2>4. ConfigureParts'
    BY <2>1, <2>3 DEF ConfigureParts, Existing
  <2>5. DoneSoFar'
    BY <2>1, <2>2 DEF DoneSoFar
  <2>6. MadeOnce'
    BY <2>1, <2>2, <2>3 DEF MadeOnce, Existing, Nobody
  <2> QED BY <2>4, <2>5, <2>6
<1>3. CASE StartConfigure
  BY <1>3, Stopped DEF StartConfigure
<1>4. CASE Fails
  BY <1>4, Stopped DEF Fails, Stop
<1>5. CASE ReadProvider
  <2>0. /\ others' \in OthersType /\ others'.late = {} /\ others'.disabled = FALSE /\ others'.spoilt = others.spoilt
        /\ others'.made = others.made /\ others'.restored = others.restored
    BY <1>5 DEF ReadProvider, ConfigureParts, OthersType
  <2>1. UNCHANGED <<root, provider, origin, clients, recorded, desktop>> /\ step = "start"
    BY <1>5 DEF ReadProvider, remote, files
  <2>2. \/ step' = "idle" /\ seen' = {} /\ chosen' = NoClient
        \/ step' = "provider" /\ seen' = provider.resources /\ chosen' = chosen /\ (root \/ provider.enabled)
    BY <1>5 DEF ReadProvider, Stop
  <2>3. ConfigureParts'
    BY <2>0, <2>1, <2>2 DEF ConfigureParts, ConfigureSteps
  <2>4. DoneSoFar'
    BY <2>1, <2>2 DEF DoneSoFar
  <2>5. MadeOnce'
    BY <2>0, <2>1, <2>2 DEF MadeOnce, Existing, Public, Nobody
  <2> QED BY <2>3, <2>4, <2>5
<1>6. CASE PatchProvider
  <2> DEFINE enabling == root \/ provider.enabled
             disabled == others.disabled /\ ~root
  <2>1. UNCHANGED <<root, origin, clients, recorded, desktop>> /\ step = "provider"
    BY <1>6 DEF PatchProvider, files
  <2>2. provider' = [enabled |-> enabling, resources |-> seen \cup {Ours}] /\ enabling \in BOOLEAN
    BY <1>6 DEF PatchProvider, ConfigureParts
  <2>3. others' = [others EXCEPT !.late = {}, !.disabled = disabled] /\ disabled \in BOOLEAN
    BY <1>6 DEF PatchProvider
  <2>4. enabling \/ disabled
    BY <2>1 DEF DoneSoFar
  <2> HIDE DEF enabling, disabled
  <2>5. provider'.enabled = enabling /\ Ours \in provider'.resources /\ provider' \in [enabled : BOOLEAN, resources : SUBSET Resources]
    BY <2>2 DEF ConfigureParts
  <2>6. /\ others' \in OthersType /\ others'.late = {} /\ others'.disabled = disabled /\ others'.spoilt = others.spoilt
        /\ others'.made = others.made /\ others'.restored = others.restored
    BY <2>3 DEF ConfigureParts, OthersType
  <2>7. \/ step' = "domain" /\ UNCHANGED <<seen, chosen>>
        \/ step' = "idle" /\ seen' = {} /\ chosen' = NoClient
    BY <1>6 DEF PatchProvider, GoStep, Stop
  <2>8. ConfigureParts'
    BY <2>1, <2>5, <2>6, <2>7 DEF ConfigureParts, ConfigureSteps
  <2>9. DoneSoFar'
    BY <2>1, <2>4, <2>5, <2>6, <2>7 DEF DoneSoFar
  <2>10. MadeOnce'
    BY <2>1, <2>6, <2>7 DEF MadeOnce, Existing, Public, Nobody
  <2> QED BY <2>8, <2>9, <2>10
<1>7. CASE TrustOrigin
  <2>1. UNCHANGED <<root, provider, clients, recorded, desktop, others>> /\ step = "domain"
    BY <1>7 DEF TrustOrigin, files
  <2>2. origin'.trusted = TRUE /\ origin' \in [trusted : BOOLEAN, localhost : BOOLEAN]
    BY <1>7 DEF TrustOrigin, ConfigureParts
  <2>3. \/ step' = "localhost" /\ UNCHANGED <<seen, chosen>>
        \/ step' = "idle" /\ seen' = {} /\ chosen' = NoClient
    BY <1>7 DEF TrustOrigin, GoStep, Stop
  <2>4. ConfigureParts'
    BY <2>1, <2>2, <2>3 DEF ConfigureParts, ConfigureSteps
  <2> QED BY <2>1, <2>2, <2>3, <2>4 DEF DoneSoFar, MadeOnce, Existing, Public, Nobody
<1>8. CASE AllowLocalhost
  <2>1. UNCHANGED <<root, provider, clients, recorded, desktop, others>> /\ step = "localhost"
    BY <1>8 DEF AllowLocalhost, files
  <2>2. origin'.localhost = TRUE /\ origin'.trusted = TRUE /\ origin' \in [trusted : BOOLEAN, localhost : BOOLEAN]
    BY <1>8, <2>1 DEF AllowLocalhost, ConfigureParts, DoneSoFar
  <2>3. \/ step' = "find" /\ UNCHANGED <<seen, chosen>>
        \/ step' = "idle" /\ seen' = {} /\ chosen' = NoClient
    BY <1>8 DEF AllowLocalhost, GoStep, Stop
  <2>4. ConfigureParts'
    BY <2>1, <2>2, <2>3 DEF ConfigureParts, ConfigureSteps
  <2> QED BY <2>1, <2>2, <2>3, <2>4 DEF DoneSoFar, MadeOnce, Existing, Public, Nobody
<1>9. CASE FindClient
  <2>1. step = "find" /\ UNCHANGED <<root, provider, origin, clients, recorded, desktop, others>> /\ recorded # TornFile
    BY <1>9 DEF FindClient, remote, files, DoneSoFar
  <2>2. CASE Matching = {} /\ step' = "client" /\ chosen' = NoClient /\ UNCHANGED seen
    <3>1. recorded = NoClient
      BY <2>1, <2>2 DEF Matching, MadeOnce, Existing, ConfigureParts
    <3>2. Public = {}
      BY <2>2, <3>1 DEF Matching, Public
    <3>3. ConfigureParts'
      BY <2>1, <2>2 DEF ConfigureParts, ConfigureSteps
    <3> QED BY <2>1, <2>2, <3>1, <3>2, <3>3 DEF DoneSoFar, MadeOnce, Existing, Public, Nobody
  <2>3. ASSUME NEW c \in Matching, Matching = {c}, clients[c] # "confidential", step' = "client", chosen' = c, UNCHANGED seen
        PROVE ConfigureInv'
    <3>1. c \in Existing /\ (recorded # NoClient => recorded = c)
      BY <2>3 DEF Matching, Existing, ConfigureParts
    <3>2. c \in Clients /\ c # NoClient
      BY <3>1 DEF Existing
    <3>3. ConfigureParts'
      BY <2>1, <2>3, <3>2 DEF ConfigureParts, ConfigureSteps
    <3> QED BY <2>1, <2>3, <3>1, <3>2, <3>3 DEF DoneSoFar, MadeOnce, Existing, Public, Nobody
  <2>4. CASE Stop
    BY <1>9, <2>4, Stopped DEF Stop, FindClient
  <2> QED BY <1>9, <2>2, <2>3, <2>4 DEF FindClient
<1>10. CASE PutClient
  <2>1. PICK c \in Clients :
          /\ IF chosen # NoClient THEN c = chosen ELSE clients[c] = "none"
          /\ clients' = [clients EXCEPT ![c] = IF @ = "confidential" THEN @ ELSE "good"]
          /\ others' = [others EXCEPT !.spoilt = clients[c] = "confidential"]
          /\ \/ step' = "record" /\ chosen' = c /\ UNCHANGED seen
             \/ Stop
    BY <1>10 DEF PutClient
  <2>2. step = "client" /\ UNCHANGED <<root, provider, origin, recorded, desktop>> /\ recorded # TornFile
    BY <1>10 DEF PutClient, files, DoneSoFar
  <2>3. /\ others' \in OthersType /\ others'.late = others.late /\ others'.disabled = others.disabled
        /\ others'.spoilt = (clients[c] = "confidential") /\ others'.made = others.made /\ others'.restored = others.restored
    <3>1. (clients[c] = "confidential") \in BOOLEAN /\ others \in OthersType
      BY DEF ConfigureParts
    <3> QED BY <2>1, <3>1 DEF OthersType
  <2>4. \/ step' = "record" /\ chosen' = c /\ seen' = seen
        \/ step' = "idle" /\ seen' = {} /\ chosen' = NoClient
    BY <2>1 DEF Stop
  <2>5. /\ clients \in [Clients -> {"none", "confidential", "stale", "good"}]
        /\ clients' \in [Clients -> {"none", "confidential", "stale", "good"}]
        /\ clients'[c] = (IF clients[c] = "confidential" THEN "confidential" ELSE "good")
        /\ \A d \in Clients : d # c => clients'[d] = clients[d]
    BY <2>1 DEF ConfigureParts
  <2>6. ConfigureParts'
    BY <2>2, <2>3, <2>4, <2>5 DEF ConfigureParts, ConfigureSteps
  <2>7. Existing' = Existing \cup {c} /\ (Nobody' => Nobody)
    BY <2>5 DEF Existing, Nobody
  <2>8. DoneSoFar'
    <3>1. clients'[c] = "good" \/ others'.spoilt
      BY <2>3, <2>5
    <3> QED BY <2>2, <2>3, <2>4, <2>7, <3>1 DEF DoneSoFar
  <2>9. Nobody' /\ ~others'.made => \A d, e \in Existing' : d = e
    <3>1. CASE chosen # NoClient
      <4>1. c \in Existing
        BY <2>1, <2>2, <3>1 DEF MadeOnce
      <4> QED BY <2>3, <2>7, <4>1 DEF MadeOnce
    <3>2. CASE chosen = NoClient
      <4>1. Nobody' /\ ~others'.made => Existing = {}
        BY <2>2, <2>3, <2>5, <2>7, <3>2 DEF MadeOnce, Public, Existing, Nobody
      <4> QED BY <2>7, <4>1
    <3> QED BY <3>1, <3>2
  <2>10. recorded # NoClient => chosen = recorded
    BY <2>2 DEF MadeOnce
  <2>11. MadeOnce'
    BY <2>1, <2>2, <2>3, <2>4, <2>7, <2>9, <2>10 DEF MadeOnce
  <2> QED BY <2>6, <2>8, <2>11
<1>11. CASE Record
  <2>1. step = "record" /\ UNCHANGED <<root, provider, origin, clients, desktop, others>>
        /\ \/ recorded' = chosen /\ step' = "desktop" /\ UNCHANGED <<seen, chosen>>
           \/ recorded' = TornFile /\ step' = "idle" /\ seen' = {} /\ chosen' = NoClient
    BY <1>11 DEF Record, GoStep, Stop, remote
  <2>2. chosen \in Existing /\ chosen \in Clients /\ recorded # TornFile /\ (recorded # NoClient => chosen = recorded)
    BY <2>1 DEF DoneSoFar, MadeOnce, Existing
  <2>3. ConfigureParts'
    BY <2>1 DEF ConfigureParts, ConfigureSteps
  <2>4. DoneSoFar'
    BY <2>1, <2>2 DEF DoneSoFar, Existing
  <2>5. MadeOnce'
    BY <2>1, <2>2 DEF MadeOnce, Existing, Public, Nobody
  <2> QED BY <2>3, <2>4, <2>5
<1>12. CASE WriteDesktop
  <2>1. step = "desktop" /\ UNCHANGED <<root, provider, origin, clients, recorded, others>>
        /\ \/ desktop' = chosen /\ step' = "done" /\ UNCHANGED <<seen, chosen>>
           \/ desktop' = TornFile /\ step' = "idle" /\ seen' = {} /\ chosen' = NoClient
    BY <1>12 DEF WriteDesktop, GoStep, Stop, remote
  <2>2. chosen \in Existing /\ recorded = chosen
    BY <2>1 DEF DoneSoFar
  <2>3. ConfigureParts'
    BY <2>1 DEF ConfigureParts, ConfigureSteps
  <2>4. DoneSoFar'
    BY <2>1, <2>2 DEF DoneSoFar, Existing
  <2>5. MadeOnce'
    BY <2>1, <2>2 DEF MadeOnce, Existing, Public, Nobody
  <2> QED BY <2>3, <2>4, <2>5
<1>13. CASE UNCHANGED configureVars
  BY <1>13 DEF configureVars, remote, files, script, ConfigureParts, DoneSoFar, MadeOnce, Existing, Public, Nobody
<1> QED BY <1>1, <1>2, <1>3, <1>4, <1>5, <1>6, <1>7, <1>8, <1>9, <1>10, <1>11, <1>12, <1>13 DEF ConfigureNext

\* There is one client, the files name clients that exist, and success means what it says.
LEMMA ConfigureIsSafe == ConfigureInv => OneClient /\ DesktopFollowsRecord /\ SuccessMeansConfigured
<1> SUFFICES ASSUME ConfigureInv PROVE OneClient /\ DesktopFollowsRecord /\ SuccessMeansConfigured
  OBVIOUS
<1>1. Nobody /\ ~others.made => Cardinality(Existing) <= 1
  <2>1. CASE Existing = {}
    BY <2>1, FS_EmptySet
  <2>2. ASSUME NEW c \in Existing, Nobody, ~others.made PROVE Cardinality(Existing) <= 1
    <3>1. Existing = {c}
      BY <2>2 DEF ConfigureInv, MadeOnce
    <3> QED BY <3>1, FS_Singleton
  <2> QED BY <2>1, <2>2
<1>2. OneClient
  BY <1>1 DEF OneClient, Existing, Nobody
<1>3. DesktopFollowsRecord
  BY DEF ConfigureInv, MadeOnce, DesktopFollowsRecord, Existing
<1>4. SuccessMeansConfigured
  BY DEF ConfigureInv, DoneSoFar, SuccessMeansConfigured, Existing
<1> QED BY <1>2, <1>3, <1>4

\* What a run of configure-auth may not do.
LEMMA ConfigureStep ==
  ConfigureInv /\ [ConfigureNext]_configureVars =>
    /\ step' # step => provider.resources \ provider'.resources \subseteq others.late
    /\ step' # step /\ ~root /\ ~provider.enabled /\ (step \in {"idle", "start", "done"} \/ ~others.disabled)
         => UNCHANGED <<remote, files>>
<1> SUFFICES ASSUME ConfigureInv, ConfigureNext \/ UNCHANGED configureVars, step' # step
             PROVE /\ provider.resources \ provider'.resources \subseteq others.late
                   /\ ~root /\ ~provider.enabled /\ (step \in {"idle", "start", "done"} \/ ~others.disabled)
                        => UNCHANGED <<remote, files>>
  OBVIOUS
<1>1. ~Console /\ ~RestoreRecord /\ ~UNCHANGED configureVars
  BY DEF Console, ConsoleProvider, ConsoleClient, RestoreRecord, script, configureVars
<1>2. CASE PatchProvider
  <2>1. provider'.resources = seen \cup {Ours} /\ step = "provider"
    BY <1>2 DEF PatchProvider
  <2> QED BY <2>1 DEF ConfigureInv, DoneSoFar
<1>3. CASE StartConfigure \/ Fails \/ ReadProvider \/ FindClient
  BY <1>3 DEF StartConfigure, Fails, ReadProvider, FindClient, remote, files
<1>4. CASE TrustOrigin \/ AllowLocalhost \/ PutClient \/ Record \/ WriteDesktop
  <2>1. provider' = provider /\ step \notin {"idle", "start", "done"}
    BY <1>4 DEF TrustOrigin, AllowLocalhost, PutClient, Record, WriteDesktop, remote
  <2>2. root \/ provider.enabled \/ others.disabled
    BY <2>1 DEF ConfigureInv, DoneSoFar
  <2> QED BY <2>1, <2>2
<1> QED BY <1>1, <1>2, <1>3, <1>4 DEF ConfigureNext
-------------------------------------------------------------------------------

\* configure-smtp goes from saving to the test to the requirement, with what it was given.
SmtpInv ==
  /\ mail \in [saved : Providers, required : BOOLEAN]
  /\ smtp \in [step : {"idle", "save", "check", "test", "require"}, recipient : BOOLEAN, accepted : Providers,
               overtaken : BOOLEAN]
  /\ smtp.step \in {"save", "test", "require"} => smtp.recipient
  /\ smtp.step = "require" => smtp.accepted = "working" /\ (mail.saved = smtp.accepted \/ smtp.overtaken)

\* A run of deploy that waits has reported nothing yet.
DeployInv ==
  /\ ready \in BOOLEAN
  /\ deployment \in [Targets -> {"none", "pending", "completed", "failed"}]
  /\ deploy \in [step : {"idle", "post", "poll"}, target : Targets, polls : 0 .. Polls,
                 report : {"none", "gated", "error", "failed", "deployed", "pending"}]
  /\ deploy.step # "idle" => deploy.report = "none"
  /\ deploy.step = "poll" => deployment[deploy.target] # "none"
  /\ DeployedIsComplete

\* Who is between BEGIN and COMMIT holds the advisory lock.
MigrateInv ==
  /\ schema \in [version : 0 .. 1, role : BOOLEAN]
  /\ lock \in Migrators \cup {Unlocked}
  /\ migrator \in [Migrators -> [step : {"new", "lock", "read", "apply", "commit", "current", "failed"}, read : 0 .. 1]]
  /\ \A m \in Migrators : migrator[m].step \in {"read", "apply", "commit"} => lock = m
  /\ AppliedToOldSchema

ReleaseInv == SmtpInv /\ DeployInv /\ MigrateInv

\* The invariant holds at the start.
LEMMA ReleaseInitInv == ReleaseInit => ReleaseInv
<1> SUFFICES ASSUME ReleaseInit PROVE ReleaseInv
  OBVIOUS
<1>1. SmtpInv
  BY DEF ReleaseInit, SmtpInv, Providers, NoRun
<1>2. DeployInv
  <2>1. 0 \in 0 .. Polls
    BY ReleaseAssumption
  <2>2. deploy = [step |-> "idle", target |-> "staging", polls |-> 0, report |-> "none"]
    BY DEF ReleaseInit, NoDeploy
  <2>3. deploy \in [step : {"idle", "post", "poll"}, target : Targets, polls : 0 .. Polls,
                   report : {"none", "gated", "error", "failed", "deployed", "pending"}]
    BY <2>1, <2>2 DEF Targets
  <2>4. ready \in BOOLEAN /\ deployment \in [Targets -> {"none", "pending", "completed", "failed"}]
    BY DEF ReleaseInit
  <2>5. deploy.step = "idle" /\ deploy.report = "none"
    BY <2>2
  <2> QED BY <2>3, <2>4, <2>5 DEF DeployInv, DeployedIsComplete
<1>3. MigrateInv
  BY DEF ReleaseInit, MigrateInv, AppliedToOldSchema
<1> QED BY <1>1, <1>2, <1>3 DEF ReleaseInv

\* The types are part of it.
LEMMA ReleaseTypes == ReleaseInv => ReleaseTypeOK
  BY DEF ReleaseInv, SmtpInv, DeployInv, MigrateInv, ReleaseTypeOK

\* configure-smtp requires verification after the test of the provider it saved.
LEMMA SmtpInvKept == SmtpInv /\ SmtpNext => SmtpInv'
<1> SUFFICES ASSUME SmtpInv, SmtpNext PROVE SmtpInv'
  OBVIOUS
<1> USE DEF SmtpInv
<1>0. NoRun.step = "idle" /\ NoRun \in [step : {"idle", "save", "check", "test", "require"}, recipient : BOOLEAN,
                                          accepted : Providers, overtaken : BOOLEAN]
  BY DEF NoRun, Providers
<1>1. ASSUME NEW supplied \in BOOLEAN, NEW recipient \in BOOLEAN, Smtp(supplied, recipient) PROVE SmtpInv'
  <2>1. UNCHANGED mail /\ (supplied => recipient)
    BY <1>1 DEF Smtp
  <2>2. CASE supplied
    <3>1. smtp' = [step |-> "save", recipient |-> recipient, accepted |-> "none", overtaken |-> FALSE] /\ recipient
      BY <1>1, <2>2 DEF Smtp, NoRun
    <3> QED BY <2>1, <3>1 DEF Providers
  <2>3. CASE ~supplied
    <3>1. smtp' = [step |-> "check", recipient |-> recipient, accepted |-> "none", overtaken |-> FALSE]
      BY <1>1, <2>3 DEF Smtp, NoRun
    <3> QED BY <2>1, <3>1 DEF Providers
  <2> QED BY <2>2, <2>3
<1>2. CASE SmtpFails
  BY <1>2, <1>0 DEF SmtpFails
<1>3. CASE SaveProvider
  <2>1. PICK p \in {"working", "failing"} : mail' = [mail EXCEPT !.saved = p]
    BY <1>3 DEF SaveProvider
  <2>2. smtp.step = "save" /\ (smtp' = [smtp EXCEPT !.step = "test"] \/ smtp' = NoRun)
    BY <1>3 DEF SaveProvider
  <2> QED BY <1>0, <2>1, <2>2 DEF Providers
<1>4. CASE CheckProvider
  <2>1. UNCHANGED mail /\ ((smtp.recipient /\ smtp' = [smtp EXCEPT !.step = "test"]) \/ smtp' = NoRun)
    BY <1>4 DEF CheckProvider
  <2> QED BY <1>0, <2>1
<1>5. CASE SendTest
  <2>1. /\ UNCHANGED mail
        /\ smtp.step = "test"
        /\ \/ mail.saved = "working" /\ smtp' = [smtp EXCEPT !.step = "require", !.accepted = mail.saved]
           \/ smtp' = NoRun
    BY <1>5 DEF SendTest
  <2> QED BY <1>0, <2>1
<1>6. CASE RequireVerification
  BY <1>6, <1>0 DEF RequireVerification
<1>7. CASE ConsoleMail
  <2>1. mail' \in [saved : Providers, required : BOOLEAN]
    BY <1>7 DEF ConsoleMail, Providers
  <2>2. \/ smtp.step = "require" /\ smtp' = [smtp EXCEPT !.overtaken = TRUE]
        \/ smtp.step # "require" /\ smtp' = smtp
    BY <1>7 DEF ConsoleMail
  <2> QED BY <2>1, <2>2
<1> QED BY <1>1, <1>2, <1>3, <1>4, <1>5, <1>6, <1>7 DEF SmtpNext

\* deploy reports a deployment only after it has seen that it is complete.
LEMMA DeployInvKept == DeployInv /\ DeployNext => DeployInv'
<1> SUFFICES ASSUME DeployInv, DeployNext PROVE DeployInv'
  OBVIOUS
<1> USE ReleaseAssumption DEF DeployInv, DeployedIsComplete
<1>1. ASSUME NEW t \in Targets, Deploy(t) PROVE DeployInv'
  <2>1. UNCHANGED <<ready, deployment>>
    BY <1>1 DEF Deploy
  <2>2. \/ deploy' = [NoDeploy EXCEPT !.target = t, !.report = "gated"]
        \/ deploy' = [NoDeploy EXCEPT !.step = "post", !.target = t]
    BY <1>1 DEF Deploy
  <2>3. \/ deploy' = [step |-> "idle", target |-> t, polls |-> 0, report |-> "gated"]
        \/ deploy' = [step |-> "post", target |-> t, polls |-> 0, report |-> "none"]
    BY <2>2 DEF NoDeploy
  <2>4. 0 \in 0 .. Polls
    OBVIOUS
  <2> QED BY <2>1, <2>3, <2>4
<1>2. ASSUME NEW t \in Targets, Build(t) PROVE DeployInv'
  <2>1. UNCHANGED <<ready, deploy>> /\ deployment[t] = "pending"
    BY <1>2 DEF Build
  <2>2. PICK s \in {"completed", "failed"} : deployment' = [deployment EXCEPT ![t] = s]
    BY <1>2 DEF Build
  <2> QED BY <2>1, <2>2
<1>3. CASE SetReady
  BY <1>3 DEF SetReady
<1>4. CASE PostDeployment
  <2>1. UNCHANGED ready /\ deploy.step = "post"
    BY <1>4 DEF PostDeployment
  <2>2. \/ deployment' = [deployment EXCEPT ![deploy.target] = "pending"]
        \/ deployment' = deployment
    BY <1>4 DEF PostDeployment
  <2>3. \/ deploy' = [deploy EXCEPT !.step = "poll"] /\ deployment'[deploy.target] = "pending"
        \/ deploy' = [deploy EXCEPT !.step = "idle", !.report = "error"]
    BY <1>4 DEF PostDeployment
  <2>4. deployment' \in [Targets -> {"none", "pending", "completed", "failed"}]
    BY <2>2
  <2>5. CASE deploy' = [deploy EXCEPT !.step = "poll"] /\ deployment'[deploy.target] = "pending"
    BY <2>1, <2>4, <2>5
  <2>6. CASE deploy' = [deploy EXCEPT !.step = "idle", !.report = "error"]
    BY <2>1, <2>4, <2>6
  <2> QED BY <2>3, <2>5, <2>6
<1>5. CASE Poll
  <2> DEFINE told == Report(deployment[deploy.target])
  <2>1. UNCHANGED <<ready, deployment>> /\ deploy.step = "poll"
    BY <1>5 DEF Poll
  <2>2. /\ told \in {"failed", "deployed", "pending", "none"}
        /\ told = "deployed" => deployment[deploy.target] = "completed"
        /\ told = "none" => deploy.polls # Polls
    BY <2>1 DEF Report
  <2>3. \/ deploy' = [deploy EXCEPT !.step = "idle", !.report = "error"]
        \/ told = "none" /\ deploy' = [deploy EXCEPT !.polls = @ + 1]
        \/ told # "none" /\ deploy' = [deploy EXCEPT !.step = "idle", !.report = told]
    BY <1>5 DEF Poll
  <2> HIDE DEF told
  <2>4. CASE deploy' = [deploy EXCEPT !.step = "idle", !.report = "error"]
    BY <2>1, <2>4
  <2>5. CASE told = "none" /\ deploy' = [deploy EXCEPT !.polls = @ + 1]
    <3>1. deploy.polls + 1 \in 0 .. Polls
      BY <2>2, <2>5
    <3> QED BY <2>1, <2>5, <3>1
  <2>6. CASE told # "none" /\ deploy' = [deploy EXCEPT !.step = "idle", !.report = told]
    BY <2>1, <2>2, <2>6
  <2> QED BY <2>3, <2>4, <2>5, <2>6
<1> QED BY <1>1, <1>2, <1>3, <1>4, <1>5 DEF DeployNext

\* The lock lets one migrator apply a migration to the version it read.
LEMMA MigrateInvKept == MigrateInv /\ MigrateNext => MigrateInv'
<1> SUFFICES ASSUME MigrateInv, MigrateNext PROVE MigrateInv'
  OBVIOUS
<1> USE ReleaseAssumption DEF MigrateInv, AppliedToOldSchema
<1>1. ASSUME NEW m \in Migrators, TakeLock(m) PROVE MigrateInv'
  BY <1>1 DEF TakeLock, SetMigrator
<1>2. ASSUME NEW m \in Migrators, ReadVersion(m) PROVE MigrateInv'
  BY <1>2 DEF ReadVersion
<1>3. ASSUME NEW m \in Migrators, Apply(m) PROVE MigrateInv'
  <2>1. lock = m /\ UNCHANGED schema
    BY <1>3 DEF Apply
  <2>2. \/ migrator' = [migrator EXCEPT ![m].step = "commit"] /\ lock' = lock
        \/ migrator' = [migrator EXCEPT ![m].step = "failed"] /\ lock' = Unlocked
    BY <1>3, <2>1 DEF Apply, Abort, SetMigrator
  <2> QED BY <2>1, <2>2
<1>4. ASSUME NEW m \in Migrators, CommitMigration(m) PROVE MigrateInv'
  <2>1. lock = m
    BY <1>4 DEF CommitMigration
  <2> QED BY <1>4, <2>1 DEF CommitMigration, SetMigrator
<1>5. CASE CreateRole
  BY <1>5 DEF CreateRole
<1> QED BY <1>1, <1>2, <1>3, <1>4, <1>5 DEF MigrateNext

\* configure-smtp: no step requires addresses before the test, or changes the mail without a recipient.
LEMMA SmtpStep ==
  SmtpInv /\ SmtpNext => /\ mail'.required /\ ~mail.required => smtp.accepted = "working" /\ (mail.saved = smtp.accepted \/ smtp.overtaken)
                         /\ smtp' # smtp /\ smtp.step # "idle" /\ ~smtp.recipient => UNCHANGED mail
<1> SUFFICES ASSUME SmtpInv, SmtpNext
             PROVE  /\ mail'.required /\ ~mail.required => smtp.accepted = "working" /\ (mail.saved = smtp.accepted \/ smtp.overtaken)
                    /\ smtp' # smtp /\ smtp.step # "idle" /\ ~smtp.recipient => UNCHANGED mail
  OBVIOUS
<1>1. CASE SaveProvider
  <2>1. mail'.required = mail.required /\ smtp.step = "save"
    BY <1>1 DEF SaveProvider, SmtpInv
  <2> QED BY <2>1 DEF SmtpInv
<1>2. CASE ConsoleMail
  BY <1>2 DEF ConsoleMail, SmtpInv
<1>3. CASE RequireVerification
  BY <1>3 DEF RequireVerification, SmtpInv
<1> QED BY <1>1, <1>2, <1>3 DEF SmtpNext, Smtp, SmtpFails, CheckProvider, SendTest

-------------------------------------------------------------------------------

\* A run past the verification has a verified recovery bundle, and the one that fills the file
\* holds a verified one in memory and fills it alone.
OutageInv ==
  /\ OutageTypeOK
  /\ OutageRecoverable /\ OnlyVerifiedKept
  /\ \A b \in Builds : build[b].step \in {"existing", "write", "fill", "verify"} => build[b].read = "verified"
  /\ \A b \in Builds : build[b].step = "fill" => restore = "partial"
  /\ \A b, c \in Builds : build[b].step = "fill" /\ build[c].step = "fill" => b = c
  /\ \A b \in Builds : build[b].step \in {"copy", "generate", "bundling"} => restore = "verified"

\* The invariant holds at the start.
LEMMA OutageInitInv == OutageInit => OutageInv
  BY DEF OutageInit, OutageInv, OutageTypeOK, NotStarted, Bundles, OutageRecoverable, OnlyVerifiedKept

\* A build that goes on disturbs no other.
LEMMA Went ==
  ASSUME OutageInv, NEW b \in Builds,
         NEW onward \in {"new", "entry", "bundle", "existing", "write", "fill", "verify", "copy", "generate", "bundling",
                       "done", "failed", "dead"},
         To(b, onward)
  PROVE  /\ build' \in [Builds -> [step : {"new", "entry", "bundle", "existing", "write", "fill", "verify",
                                           "copy", "generate", "bundling", "done", "failed", "dead"},
                                   confirmed : BOOLEAN, marked : BOOLEAN, read : Bundles]]
         /\ build'[b].step = onward /\ build'[b].read = build[b].read
         /\ \A c \in Builds : c # b => build'[c] = build[c]
  BY DEF To, OutageInv, OutageTypeOK

\* Every step keeps the invariant.
LEMMA OutageInvKept == OutageInv /\ [OutageNext]_outageVars => OutageInv'
<1> SUFFICES ASSUME OutageInv, OutageNext \/ UNCHANGED outageVars PROVE OutageInv'
  OBVIOUS
<1> USE DEF OutageInv, OutageRecoverable, OnlyVerifiedKept
<1>1. ASSUME NEW b \in Builds, NEW confirmed \in BOOLEAN, NEW marked \in BOOLEAN, StartBuild(b, confirmed, marked)
      PROVE OutageInv'
  BY <1>1 DEF StartBuild, OutageTypeOK, Bundles
<1>2. ASSUME NEW b \in Builds, CreateEntry(b) PROVE OutageInv'
  <2>1. UNCHANGED <<bundle, restore, entry, faulty>> /\ (To(b, "bundle") \/ To(b, "failed"))
    BY <1>2 DEF CreateEntry
  <2> QED BY <2>1, Went DEF OutageTypeOK
<1>3. ASSUME NEW b \in Builds, ReadBundle(b) PROVE OutageInv'
  <2> DEFINE onward == IF bundle = "verified" THEN "existing" ELSE "failed"
             new == [build[b] EXCEPT !.step = onward, !.read = bundle]
  <2>1. UNCHANGED <<bundle, restore, entry, faulty>> /\ build' = [build EXCEPT ![b] = new]
    BY <1>3 DEF ReadBundle, OutageTypeOK
  <2>2. onward \in {"existing", "failed"} /\ (onward = "existing" => bundle = "verified")
    OBVIOUS
  <2>3. /\ new \in [step : {"new", "entry", "bundle", "existing", "write", "fill", "verify",
                          "copy", "generate", "bundling", "done", "failed", "dead"},
                  confirmed : BOOLEAN, marked : BOOLEAN, read : Bundles]
        /\ new.step = onward /\ new.read = bundle
    <3> HIDE DEF onward
    <3> QED BY <2>2 DEF OutageTypeOK
  <2> HIDE DEF onward, new
  <2>4. build'[b] = new /\ \A c \in Builds : c # b => build'[c] = build[c]
    BY <2>1 DEF OutageTypeOK
  <2>5. OutageTypeOK'
    BY <2>1, <2>3 DEF OutageTypeOK
  <2> QED BY <2>1, <2>2, <2>3, <2>4, <2>5
<1>4. ASSUME NEW b \in Builds, CheckExisting(b) PROVE OutageInv'
  <2>1. UNCHANGED <<bundle, restore, entry, faulty>> /\ (To(b, "write") \/ To(b, "failed")) /\ build[b].step = "existing"
    BY <1>4 DEF CheckExisting
  <2> QED BY <2>1, Went DEF OutageTypeOK
<1>5. ASSUME NEW b \in Builds, OpenRestore(b) PROVE OutageInv'
  <2>1. UNCHANGED <<bundle, entry, faulty>> /\ build[b].step = "write"
    BY <1>5 DEF OpenRestore
  <2>2. CASE restore = "absent" /\ restore' = "partial" /\ To(b, "fill")
    <3>1. build'[b].step = "fill" /\ build'[b].read = "verified"
      BY <2>1, <2>2, Went
    <3>2. \A c \in Builds : c # b => build'[c] = build[c] /\ build[c].step # "fill"
      BY <2>2, Went
    <3>3. OutageTypeOK'
      BY <2>1, <2>2, Went DEF OutageTypeOK
    <3>4. \A c \in Builds : build[c].step \notin {"copy", "generate", "bundling"}
      BY <2>2
    <3> QED BY <2>1, <2>2, <3>1, <3>2, <3>3, <3>4
  <2>3. CASE restore # "absent" /\ UNCHANGED restore /\ To(b, "verify")
    BY <2>1, <2>3, Went DEF OutageTypeOK
  <2> QED BY <1>5, <2>2, <2>3 DEF OpenRestore
<1>6. ASSUME NEW b \in Builds, FillRestore(b) PROVE OutageInv'
  <2>1. UNCHANGED <<bundle, entry, faulty>> /\ build[b].step = "fill" /\ restore' = "verified" /\ To(b, "verify")
    BY <1>6 DEF FillRestore
  <2>2. \A c \in Builds : c # b => build'[c] = build[c] /\ build[c].step # "fill"
    BY <2>1, Went
  <2> QED BY <2>1, <2>2, Went DEF OutageTypeOK, Bundles
<1>7. ASSUME NEW b \in Builds, VerifyRestore(b) PROVE OutageInv'
  <2>1. UNCHANGED <<bundle, restore, entry, faulty>> /\ ((restore = "verified" /\ To(b, "copy")) \/ To(b, "failed"))
    BY <1>7 DEF VerifyRestore
  <2> QED BY <2>1, Went DEF OutageTypeOK
<1>8. ASSUME NEW b \in Builds, CopySources(b) PROVE OutageInv'
  <2>1. UNCHANGED <<bundle, restore, faulty>> /\ build[b].step = "copy" /\ entry' = "original" /\ To(b, "generate")
    BY <1>8 DEF CopySources
  <2> QED BY <2>1, Went DEF OutageTypeOK
<1>9. ASSUME NEW b \in Builds, GenerateEntry(b) PROVE OutageInv'
  <2>1. UNCHANGED <<bundle, restore, faulty>> /\ build[b].step = "generate" /\ entry' = "outage" /\ To(b, "bundling")
    BY <1>9 DEF GenerateEntry
  <2> QED BY <2>1, Went DEF OutageTypeOK
<1>10. ASSUME NEW b \in Builds, BundleFaulty(b) PROVE OutageInv'
  <2>1. UNCHANGED <<bundle, restore, entry>> /\ build[b].step = "bundling" /\ faulty' = entry /\ To(b, "done")
    BY <1>10 DEF BundleFaulty
  <2> QED BY <2>1, Went DEF OutageTypeOK
<1>11. ASSUME NEW b \in Builds, Dies(b) PROVE OutageInv'
  <2>1. UNCHANGED <<bundle, restore, entry, faulty>> /\ To(b, "dead")
    BY <1>11 DEF Dies
  <2> QED BY <2>1, Went DEF OutageTypeOK
<1>12. CASE OrdinaryBuild
  BY <1>12 DEF OrdinaryBuild, OutageTypeOK
<1>13. CASE Resolve
  BY <1>13 DEF Resolve, OutageTypeOK
<1>14. CASE UNCHANGED outageVars
  BY <1>14 DEF outageVars, OutageTypeOK
<1> QED BY <1>1, <1>2, <1>3, <1>4, <1>5, <1>6, <1>7, <1>8, <1>9, <1>10, <1>11, <1>12, <1>13, <1>14 DEF OutageNext

\* The verified recovery bundle stays, whichever run writes.
LEMMA OutageStep == OutageInv /\ [OutageNext]_outageVars => (restore = "verified" => restore' = "verified")
<1> SUFFICES ASSUME OutageInv, OutageNext \/ UNCHANGED outageVars, restore = "verified" PROVE restore' = "verified"
  OBVIOUS
<1>1. ASSUME NEW b \in Builds, OpenRestore(b) \/ FillRestore(b) PROVE restore' = "verified"
  BY <1>1 DEF OpenRestore, FillRestore, OutageInv
<1> QED BY <1>1 DEF OutageNext, StartBuild, CreateEntry, ReadBundle, CheckExisting, VerifyRestore, CopySources,
           GenerateEntry, BundleFaulty, Dies, OrdinaryBuild, Resolve, outageVars
-------------------------------------------------------------------------------

InHand == {"exchange", "account", "revoke", "finally", "retry", "write"}
RequestSteps == InHand \cup {"none", "answered"}

AcceptanceParts ==
  /\ fixture \in [step : {"new", "signup", "signout", "check", "done", "failed"}, claims : BOOLEAN]
  /\ bootstrap \in {"none", "active", "revoked"}
  /\ listener \in [timer : {"set", "fired", "cleared"}, listening : BOOLEAN, finishing : BOOLEAN, exit : 0 .. 1]
  /\ request \in [Callbacks -> [step : RequestSteps, status : {0, 200, 400, 404, 409}]]
  /\ code \in Nat
  /\ credential \in [service : {"none", "live", "revoked"}, known : BOOLEAN]
  /\ browserEvidence \in [exchanged : BOOLEAN, account : BOOLEAN, revoked : BOOLEAN, passed : BOOLEAN, written : BOOLEAN]

\* The first callback is handled alone; until it comes nothing was exchanged, and while its
\* code is not exchanged nothing is known and nothing revoked.
HandledAlone ==
  /\ ~listener.finishing => code = 0
  /\ ~listener.finishing => ~browserEvidence.revoked
  /\ \A r \in Callbacks : request[r].step \in InHand => listener.finishing
  /\ \A r, s \in Callbacks : request[r].step \in InHand /\ request[s].step \in InHand => r = s
  /\ \A r \in Callbacks : request[r].step = "exchange" => code = 0 /\ ~browserEvidence.revoked
  /\ code <= 1

\* The fixture: the run is past the sign-up only with a session, and claims only at its end.
FixtureSound ==
  /\ fixture.step \in {"signout", "check"} => bootstrap # "none"
  /\ fixture.step \in {"signup", "signout", "check", "new"} => ~fixture.claims
  /\ ClaimedMeansRevoked

EvidenceSound ==
  /\ RevokedMeansRevoked
  /\ browserEvidence.passed => browserEvidence.revoked
  /\ ~listener.listening /\ listener.exit = 0 => browserEvidence.passed /\ browserEvidence.written

BrowserInv == AcceptanceParts /\ HandledAlone /\ FixtureSound /\ EvidenceSound

\* The invariant holds at the start.
LEMMA BrowserInitInv == AcceptanceInit => BrowserInv
<1> SUFFICES ASSUME AcceptanceInit PROVE BrowserInv
  OBVIOUS
<1>1. AcceptanceParts
  BY DEF AcceptanceInit, AcceptanceParts, NoEvidence, RequestSteps
<1>2. ~browserEvidence.revoked /\ ~browserEvidence.passed
  BY DEF AcceptanceInit, NoEvidence
<1>3. \A r \in Callbacks : request[r].step \notin InHand
  BY DEF AcceptanceInit, InHand
<1>4. listener.listening /\ code = 0 /\ fixture.step = "new" /\ ~fixture.claims
  BY DEF AcceptanceInit
<1> QED BY <1>1, <1>2, <1>3, <1>4
       DEF BrowserInv, HandledAlone, FixtureSound, EvidenceSound, ClaimedMeansRevoked, RevokedMeansRevoked, InHand

\* The types are part of it.
LEMMA BrowserTypes == BrowserInv => AcceptanceTypeOK
  BY DEF BrowserInv, AcceptanceParts, AcceptanceTypeOK, RequestSteps, InHand

\* "passed" is said of what was seen, and what is claimed is revoked.
LEMMA BrowserIsSafe == BrowserInv => ClaimedMeansRevoked /\ ExchangedOnce /\ RevokedMeansRevoked /\ ZeroMeansPassed
  BY DEF BrowserInv, HandledAlone, FixtureSound, EvidenceSound, ExchangedOnce, ZeroMeansPassed, Ended

\* The steps of the fixture leave the browser's side alone, and the other way round.
LEMMA FixtureStep ==
  ASSUME BrowserInv, UNCHANGED browserVars,
         \/ \E confirmed \in BOOLEAN : SignUp(confirmed)
         \/ FixtureFails \/ SignedUp \/ SignOut \/ CheckSession
  PROVE  BrowserInv'
<1> USE DEF BrowserInv
<1>1. UNCHANGED <<listener, request, code, credential, browserEvidence>>
  BY DEF browserVars
<1>2. HandledAlone' /\ EvidenceSound'
  BY <1>1 DEF HandledAlone, EvidenceSound, RevokedMeansRevoked
<1> DEFINE Fixtures == [step : {"new", "signup", "signout", "check", "done", "failed"}, claims : BOOLEAN]
<1>3. /\ fixture' \in Fixtures /\ bootstrap' \in {"none", "active", "revoked"}
      /\ FixtureSound'
  <2> USE DEF FixtureSound, ClaimedMeansRevoked, AcceptanceParts
  <2>1. CASE \E confirmed \in BOOLEAN : SignUp(confirmed)
    <3>1. UNCHANGED bootstrap /\ fixture.step = "new"
          /\ (fixture' = [fixture EXCEPT !.step = "signup"] \/ fixture' = [fixture EXCEPT !.step = "failed"])
      BY <2>1 DEF SignUp
    <3> QED BY <3>1
  <2>2. CASE FixtureFails
    <3>1. fixture.step \in {"signup", "signout", "check"} /\ fixture' = [fixture EXCEPT !.step = "failed"]
      BY <2>2 DEF FixtureFails
    <3>2. bootstrap' \in {"none", "active", "revoked"}
      BY <2>2 DEF FixtureFails
    <3> QED BY <3>1, <3>2
  <2>3. CASE SignedUp
    BY <2>3 DEF SignedUp
  <2>4. CASE SignOut
    BY <2>4 DEF SignOut
  <2>5. CASE CheckSession
    <3>1. /\ UNCHANGED bootstrap
          /\ fixture.step = "check"
          /\ \/ fixture' = [fixture EXCEPT !.step = "failed"]
             \/ bootstrap # "active" /\ fixture' = [step |-> "done", claims |-> TRUE]
      BY <2>5 DEF CheckSession
    <3>2. CASE fixture' = [fixture EXCEPT !.step = "failed"]
      BY <3>1, <3>2
    <3>3. CASE bootstrap # "active" /\ fixture' = [step |-> "done", claims |-> TRUE]
      <4>1. bootstrap = "revoked"
        BY <3>1, <3>3
      <4>2. fixture'.step = "done" /\ fixture' \in Fixtures
        BY <3>3
      <4> QED BY <3>1, <4>1, <4>2
    <3> QED BY <3>1, <3>2, <3>3
  <2> QED BY <2>1, <2>2, <2>3, <2>4, <2>5
<1>4. AcceptanceParts'
  BY <1>1, <1>3 DEF AcceptanceParts
<1> QED BY <1>2, <1>3, <1>4

\* A request that is answered or goes on, alone.
LEMMA Answering ==
  ASSUME BrowserInv, NEW r \in Callbacks, NEW onward \in RequestSteps, NEW status \in {0, 200, 400, 404, 409},
         AnswerCallback(r, onward, status)
  PROVE  /\ request' \in [Callbacks -> [step : RequestSteps, status : {0, 200, 400, 404, 409}]]
         /\ request'[r].step = onward
         /\ \A s \in Callbacks : s # r => request'[s] = request[s]
  BY DEF AnswerCallback, BrowserInv, AcceptanceParts

\* The callback that is handled goes to another of its steps.
LEMMA GoesOn ==
  ASSUME BrowserInv, UNCHANGED fixtureVars,
         NEW r \in Callbacks, request[r].step \in InHand,
         NEW onward \in RequestSteps \ {"exchange"}, NEW status \in {0, 200, 400, 404, 409}, AnswerCallback(r, onward, status),
         listener' \in [timer : {"set", "fired", "cleared"}, listening : BOOLEAN, finishing : BOOLEAN, exit : 0 .. 1],
         listener'.finishing,
         code' \in Nat, code' <= 1,
         credential' \in [service : {"none", "live", "revoked"}, known : BOOLEAN],
         browserEvidence' \in [exchanged : BOOLEAN, account : BOOLEAN, revoked : BOOLEAN, passed : BOOLEAN, written : BOOLEAN],
         EvidenceSound'
  PROVE  BrowserInv'
<1>1. AcceptanceParts'
  BY Answering DEF BrowserInv, AcceptanceParts, fixtureVars
<1>2. \A s \in Callbacks : s # r => request'[s] = request[s] /\ request[s].step \notin InHand
  BY Answering DEF BrowserInv, HandledAlone
<1>3. request'[r].step # "exchange"
  BY Answering
<1>4. HandledAlone'
  BY <1>2, <1>3 DEF HandledAlone, InHand
<1>5. FixtureSound'
  BY DEF BrowserInv, FixtureSound, fixtureVars, ClaimedMeansRevoked
<1> QED BY <1>1, <1>4, <1>5 DEF BrowserInv

\* Every step keeps the invariant.
LEMMA BrowserInvKept == BrowserInv /\ [AcceptanceNext]_acceptanceVars => BrowserInv'
<1> SUFFICES ASSUME BrowserInv, AcceptanceNext \/ UNCHANGED acceptanceVars PROVE BrowserInv'
  OBVIOUS
<1>0. /\ AcceptanceParts /\ HandledAlone /\ FixtureSound /\ EvidenceSound
      /\ {"answered", "finally", "account", "revoke", "retry", "write"} \subseteq RequestSteps \ {"exchange"}
      /\ "exchange" \in RequestSteps
  BY DEF BrowserInv, RequestSteps, InHand
<1>1. CASE \/ \E confirmed \in BOOLEAN : SignUp(confirmed)
           \/ FixtureFails \/ SignedUp \/ SignOut \/ CheckSession
  BY <1>1, FixtureStep DEF SignUp, FixtureFails, SignedUp, SignOut, CheckSession
<1>2. ASSUME NEW r \in Callbacks, NEW content \in Contents, Arrive(r, content) PROVE BrowserInv'
  <2>1. UNCHANGED <<code, credential, browserEvidence, fixture, bootstrap>> /\ request[r].step = "none"
    BY <1>2 DEF Arrive, fixtureVars
  <2>2. FixtureSound'
    BY <1>0, <2>1 DEF FixtureSound, ClaimedMeansRevoked
  <2>3. ASSUME NEW status \in {404, 409}, AnswerCallback(r, "answered", status), UNCHANGED listener PROVE BrowserInv'
    <3>1. AcceptanceParts'
      BY <1>0, <2>1, <2>3, Answering DEF AcceptanceParts
    <3>2. \A s \in Callbacks : request'[s].step \in InHand => s # r /\ request'[s] = request[s]
      BY <1>0, <2>3, Answering DEF InHand
    <3>3. HandledAlone' /\ EvidenceSound'
      BY <1>0, <2>1, <2>3, <3>2 DEF HandledAlone, EvidenceSound, RevokedMeansRevoked, InHand
    <3> QED BY <2>2, <3>1, <3>3 DEF BrowserInv
  <2>4. ASSUME NEW onward \in {"exchange", "finally"}, NEW status \in {0, 400}, AnswerCallback(r, onward, status),
               ~listener.finishing, listener' = [listener EXCEPT !.finishing = TRUE]
        PROVE BrowserInv'
    <3>0. listener' \in [timer : {"set", "fired", "cleared"}, listening : BOOLEAN, finishing : BOOLEAN, exit : 0 .. 1]
      BY <1>0, <2>4 DEF AcceptanceParts
    <3>1. AcceptanceParts'
      <4>1. request' \in [Callbacks -> [step : RequestSteps, status : {0, 200, 400, 404, 409}]]
        <5>1. onward \in RequestSteps /\ status \in {0, 200, 400, 404, 409}
          BY DEF RequestSteps, InHand
        <5> QED BY <2>4, <5>1, Answering
      <4> QED BY <1>0, <2>1, <3>0, <4>1 DEF AcceptanceParts
    <3>2. \A s \in Callbacks : s # r => request'[s] = request[s] /\ request[s].step \notin InHand
      BY <1>0, <2>4, Answering DEF HandledAlone
    <3>3. /\ listener'.finishing /\ listener'.listening = listener.listening /\ listener'.exit = listener.exit
          /\ code = 0 /\ ~browserEvidence.revoked
      BY <1>0, <2>4 DEF AcceptanceParts, HandledAlone
    <3>4. HandledAlone'
      BY <2>1, <3>2, <3>3 DEF HandledAlone, InHand
    <3>5. EvidenceSound'
      BY <1>0, <2>1, <3>3 DEF EvidenceSound, RevokedMeansRevoked
    <3> QED BY <2>2, <3>1, <3>4, <3>5 DEF BrowserInv
  <2>5. CASE listener.finishing
    BY <1>2, <2>3, <2>5 DEF Arrive
  <2>6. CASE ~listener.finishing /\ content = "other"
    BY <1>2, <2>3, <2>6 DEF Arrive
  <2>7. CASE ~listener.finishing /\ content = "code"
    <3>1. AnswerCallback(r, "exchange", 0) /\ listener' = [listener EXCEPT !.finishing = TRUE]
      BY <1>2, <2>7 DEF Arrive
    <3> QED BY <2>4, <2>7, <3>1
  <2>8. CASE ~listener.finishing /\ content = "invalid"
    <3>1. AnswerCallback(r, "finally", 400) /\ listener' = [listener EXCEPT !.finishing = TRUE]
      BY <1>2, <2>8 DEF Arrive
    <3> QED BY <2>4, <2>8, <3>1
  <2> QED BY <2>5, <2>6, <2>7, <2>8 DEF Contents
<1>3. ASSUME NEW r \in Callbacks, Exchange(r) PROVE BrowserInv'
  <2>1. /\ request[r].step \in InHand /\ request[r].step = "exchange" /\ UNCHANGED <<listener, fixtureVars>>
        /\ code = 0 /\ ~browserEvidence.revoked /\ ~browserEvidence.passed /\ listener.finishing
        /\ ~(~listener.listening /\ listener.exit = 0)
    BY <1>0, <1>3 DEF Exchange, InHand, HandledAlone, EvidenceSound
  <2>2. CASE code' = code + 1 /\ credential' = [service |-> "live", known |-> TRUE]
             /\ browserEvidence' = [browserEvidence EXCEPT !.exchanged = TRUE] /\ AnswerCallback(r, "account", 0)
    <3>1. /\ code' \in Nat /\ code' <= 1
      BY <2>1, <2>2
    <3>2. /\ credential' \in [service : {"none", "live", "revoked"}, known : BOOLEAN]
          /\ browserEvidence' \in [exchanged : BOOLEAN, account : BOOLEAN, revoked : BOOLEAN, passed : BOOLEAN, written : BOOLEAN]
          /\ browserEvidence'.revoked = browserEvidence.revoked /\ browserEvidence'.passed = browserEvidence.passed
      BY <1>0, <2>2 DEF AcceptanceParts
    <3>3. EvidenceSound'
      BY <2>1, <3>2 DEF EvidenceSound, RevokedMeansRevoked
    <3>4. AnswerCallback(r, "account", 0)
      BY <2>2
    <3>5. /\ "account" \in RequestSteps \ {"exchange"} /\ UNCHANGED fixtureVars
          /\ listener' \in [timer : {"set", "fired", "cleared"}, listening : BOOLEAN, finishing : BOOLEAN, exit : 0 .. 1]
          /\ listener'.finishing
      BY <1>0, <2>1 DEF AcceptanceParts
    <3> QED BY <2>1, <3>1, <3>2, <3>3, <3>4, <3>5, GoesOn
  <2>3. CASE code' = code + 1 /\ credential' = [credential EXCEPT !.service = "live"]
             /\ UNCHANGED browserEvidence /\ AnswerCallback(r, "finally", 400)
    <3>1. /\ code' \in Nat /\ code' <= 1
      BY <2>1, <2>3
    <3>2. credential' \in [service : {"none", "live", "revoked"}, known : BOOLEAN]
      BY <1>0, <2>3 DEF AcceptanceParts
    <3>3. EvidenceSound'
      BY <2>1, <2>3 DEF EvidenceSound, RevokedMeansRevoked
    <3> QED BY <1>0, <2>1, <2>3, <3>1, <3>2, <3>3, GoesOn DEF AcceptanceParts
  <2>4. CASE AnswerCallback(r, "finally", 400) /\ UNCHANGED <<code, credential, browserEvidence>>
    <3>1. EvidenceSound' /\ code' <= 1
      BY <1>0, <2>1, <2>4 DEF EvidenceSound, RevokedMeansRevoked, HandledAlone
    <3> QED BY <1>0, <2>1, <2>4, <3>1, GoesOn DEF AcceptanceParts
  <2> QED BY <1>3, <2>2, <2>3, <2>4 DEF Exchange
<1>4. ASSUME NEW r \in Callbacks, UseAccount(r) PROVE BrowserInv'
  <2>1. request[r].step \in InHand /\ UNCHANGED <<listener, code, credential, fixtureVars>> /\ listener.finishing /\ code <= 1
    BY <1>0, <1>4 DEF UseAccount, InHand, HandledAlone
  <2>2. /\ browserEvidence' \in [exchanged : BOOLEAN, account : BOOLEAN, revoked : BOOLEAN, passed : BOOLEAN, written : BOOLEAN]
        /\ browserEvidence'.revoked = browserEvidence.revoked /\ browserEvidence'.passed = browserEvidence.passed
        /\ browserEvidence'.written = browserEvidence.written
    <3>1. browserEvidence' = [browserEvidence EXCEPT !.account = TRUE] \/ browserEvidence' = browserEvidence
      BY <1>4 DEF UseAccount
    <3>2. CASE browserEvidence' = [browserEvidence EXCEPT !.account = TRUE]
      BY <1>0, <3>2 DEF AcceptanceParts
    <3>3. CASE browserEvidence' = browserEvidence
      BY <1>0, <3>3 DEF AcceptanceParts
    <3> QED BY <3>1, <3>2, <3>3
  <2>3. EvidenceSound'
    BY <1>0, <2>1, <2>2 DEF EvidenceSound, RevokedMeansRevoked
  <2>4. AnswerCallback(r, "revoke", 0) \/ AnswerCallback(r, "finally", 400)
    BY <1>4 DEF UseAccount
  <2> QED BY <1>0, <2>1, <2>2, <2>3, <2>4, GoesOn DEF AcceptanceParts
<1>5. ASSUME NEW r \in Callbacks, Revoke(r) PROVE BrowserInv'
  <2>1. request[r].step \in InHand /\ UNCHANGED <<listener, code, fixtureVars>> /\ listener.finishing /\ code <= 1
    BY <1>0, <1>5 DEF Revoke, InHand, HandledAlone
  <2>2. CASE Revoked /\ browserEvidence' = [browserEvidence EXCEPT !.revoked = TRUE, !.passed = TRUE]
             /\ AnswerCallback(r, "finally", 200)
    <3>1. /\ browserEvidence' \in [exchanged : BOOLEAN, account : BOOLEAN, revoked : BOOLEAN, passed : BOOLEAN, written : BOOLEAN]
          /\ browserEvidence'.revoked /\ browserEvidence'.passed /\ browserEvidence'.written = browserEvidence.written
          /\ credential' \in [service : {"none", "live", "revoked"}, known : BOOLEAN] /\ credential'.service = "revoked"
      BY <1>0, <2>2 DEF AcceptanceParts, Revoked
    <3>2. EvidenceSound'
      BY <1>0, <2>1, <3>1 DEF EvidenceSound, RevokedMeansRevoked
    <3> QED BY <1>0, <2>1, <2>2, <3>1, <3>2, GoesOn DEF AcceptanceParts
  <2>3. CASE NotRevoked /\ UNCHANGED browserEvidence /\ \E status \in {200, 400} : AnswerCallback(r, "finally", status)
    <3>1. /\ credential' \in [service : {"none", "live", "revoked"}, known : BOOLEAN]
          /\ credential.service = "revoked" => credential'.service = "revoked"
      BY <1>0, <2>3 DEF AcceptanceParts, NotRevoked
    <3>2. EvidenceSound'
      BY <1>0, <2>1, <2>3, <3>1 DEF EvidenceSound, RevokedMeansRevoked
    <3> QED BY <1>0, <2>1, <2>3, <3>1, <3>2, GoesOn DEF AcceptanceParts
  <2> QED BY <1>5, <2>2, <2>3 DEF Revoke
<1>6. ASSUME NEW r \in Callbacks, Finally(r) PROVE BrowserInv'
  <2>1. request[r].step \in InHand /\ UNCHANGED <<code, credential, browserEvidence, fixtureVars>> /\ listener.finishing /\ code <= 1
    BY <1>0, <1>6 DEF Finally, InHand, HandledAlone
  <2>2. /\ listener' \in [timer : {"set", "fired", "cleared"}, listening : BOOLEAN, finishing : BOOLEAN, exit : 0 .. 1]
        /\ listener'.finishing /\ listener'.listening = listener.listening /\ listener'.exit = listener.exit
    BY <1>0, <1>6, <2>1 DEF Finally, AcceptanceParts
  <2>3. EvidenceSound'
    BY <1>0, <2>1, <2>2 DEF EvidenceSound, RevokedMeansRevoked
  <2>4. AnswerCallback(r, "retry", request[r].status) \/ AnswerCallback(r, "write", request[r].status)
    BY <1>6 DEF Finally
  <2>5. request[r].status \in {0, 200, 400, 404, 409}
    BY <1>0 DEF AcceptanceParts
  <2> QED BY <1>0, <2>1, <2>2, <2>3, <2>4, <2>5, GoesOn DEF AcceptanceParts
<1>7. ASSUME NEW r \in Callbacks, RetryExchange(r) PROVE BrowserInv'
  <2>1. request[r].step \in InHand /\ UNCHANGED <<listener, code, fixtureVars>> /\ listener.finishing /\ code <= 1
    BY <1>0, <1>7 DEF RetryExchange, InHand, HandledAlone
  <2>2. AnswerCallback(r, "write", request[r].status) /\ request[r].status \in {0, 200, 400, 404, 409}
    BY <1>0, <1>7 DEF RetryExchange, AcceptanceParts
  <2>3. CASE Revoked /\ browserEvidence' = [browserEvidence EXCEPT !.revoked = TRUE]
    <3>1. /\ browserEvidence' \in [exchanged : BOOLEAN, account : BOOLEAN, revoked : BOOLEAN, passed : BOOLEAN, written : BOOLEAN]
          /\ browserEvidence'.revoked /\ browserEvidence'.passed = browserEvidence.passed
          /\ browserEvidence'.written = browserEvidence.written
          /\ credential' \in [service : {"none", "live", "revoked"}, known : BOOLEAN] /\ credential'.service = "revoked"
      BY <1>0, <2>3 DEF AcceptanceParts, Revoked
    <3>2. EvidenceSound'
      BY <1>0, <2>1, <3>1 DEF EvidenceSound, RevokedMeansRevoked
    <3> QED BY <1>0, <2>1, <2>2, <3>1, <3>2, GoesOn DEF AcceptanceParts
  <2>4. CASE NotRevoked /\ UNCHANGED browserEvidence
    <3>1. /\ credential' \in [service : {"none", "live", "revoked"}, known : BOOLEAN]
          /\ credential.service = "revoked" => credential'.service = "revoked"
      BY <1>0, <2>4 DEF AcceptanceParts, NotRevoked
    <3>2. EvidenceSound'
      BY <1>0, <2>1, <2>4, <3>1 DEF EvidenceSound, RevokedMeansRevoked
    <3> QED BY <1>0, <2>1, <2>2, <2>4, <3>1, <3>2, GoesOn DEF AcceptanceParts
  <2> QED BY <1>7, <2>3, <2>4 DEF RetryExchange
<1>8. ASSUME NEW r \in Callbacks, WriteEvidence(r) PROVE BrowserInv'
  <2>1. request[r].step \in InHand /\ UNCHANGED <<code, credential, fixtureVars>> /\ listener.finishing /\ code <= 1
    BY <1>0, <1>8 DEF WriteEvidence, InHand, HandledAlone
  <2>2. AnswerCallback(r, "answered", request[r].status) /\ request[r].status \in {0, 200, 400, 404, 409}
    BY <1>0, <1>8 DEF WriteEvidence, AcceptanceParts
  <2>3. /\ browserEvidence' \in [exchanged : BOOLEAN, account : BOOLEAN, revoked : BOOLEAN, passed : BOOLEAN, written : BOOLEAN]
        /\ browserEvidence'.revoked = browserEvidence.revoked /\ browserEvidence'.passed = browserEvidence.passed
        /\ browserEvidence'.written
    BY <1>0, <1>8 DEF WriteEvidence, AcceptanceParts
  <2>4. \/ browserEvidence.passed /\ listener' = [listener EXCEPT !.listening = FALSE]
        \/ ~browserEvidence.passed /\ listener' = [listener EXCEPT !.listening = FALSE, !.exit = 1]
    BY <1>0, <1>8 DEF WriteEvidence, AcceptanceParts
  <2>5. /\ listener' \in [timer : {"set", "fired", "cleared"}, listening : BOOLEAN, finishing : BOOLEAN, exit : 0 .. 1]
        /\ listener'.finishing
        /\ browserEvidence.passed \/ listener'.exit = 1
    <3>1. CASE browserEvidence.passed /\ listener' = [listener EXCEPT !.listening = FALSE]
      BY <1>0, <2>1, <3>1 DEF AcceptanceParts
    <3>2. CASE listener' = [listener EXCEPT !.listening = FALSE, !.exit = 1]
      <4>1. listener' \in [timer : {"set", "fired", "cleared"}, listening : BOOLEAN, finishing : BOOLEAN, exit : 0 .. 1]
        <5>1. listener' = [timer |-> listener.timer, listening |-> FALSE, finishing |-> listener.finishing, exit |-> 1]
          BY <1>0, <3>2 DEF AcceptanceParts
        <5>2. listener.timer \in {"set", "fired", "cleared"} /\ listener.finishing \in BOOLEAN /\ 1 \in 0 .. 1
          BY <1>0 DEF AcceptanceParts
        <5> QED BY <5>1, <5>2
      <4>2. listener'.finishing = listener.finishing
        BY <1>0, <3>2 DEF AcceptanceParts
      <4>3. listener'.exit = 1
        BY <1>0, <3>2 DEF AcceptanceParts
      <4> QED BY <2>1, <4>1, <4>2, <4>3
    <3> QED BY <2>4, <3>1, <3>2
  <2>6. EvidenceSound'
    BY <1>0, <2>1, <2>3, <2>5 DEF EvidenceSound, RevokedMeansRevoked
  <2> QED BY <1>0, <2>1, <2>2, <2>3, <2>5, <2>6, GoesOn DEF AcceptanceParts
<1>9. CASE TimedOut
  <2>1. UNCHANGED <<request, code, credential, browserEvidence, fixture, bootstrap>>
    BY <1>9 DEF TimedOut, fixtureVars
  <2>2. /\ listener' \in [timer : {"set", "fired", "cleared"}, listening : BOOLEAN, finishing : BOOLEAN, exit : 0 .. 1]
        /\ listener'.finishing = listener.finishing /\ listener'.exit = 1
    <3>1. listener' = [listener EXCEPT !.timer = "fired", !.listening = FALSE, !.exit = 1]
      BY <1>9 DEF TimedOut
    <3>2. listener \in [timer : {"set", "fired", "cleared"}, listening : BOOLEAN, finishing : BOOLEAN, exit : 0 .. 1]
      BY <1>0 DEF AcceptanceParts
    <3>3. listener' \in [timer : {"set", "fired", "cleared"}, listening : BOOLEAN, finishing : BOOLEAN, exit : 0 .. 1]
      <4>1. listener' = [timer |-> "fired", listening |-> FALSE, finishing |-> listener.finishing, exit |-> 1]
        BY <3>1, <3>2
      <4>2. listener.finishing \in BOOLEAN /\ 1 \in 0 .. 1
        BY <3>2
      <4> QED BY <4>1, <4>2
    <3>4. listener'.finishing = listener.finishing
      BY <3>1, <3>2
    <3>5. listener'.exit = 1
      BY <3>1, <3>2
    <3> QED BY <3>3, <3>4, <3>5
  <2>3. AcceptanceParts' /\ HandledAlone'
    BY <1>0, <2>1, <2>2 DEF AcceptanceParts, HandledAlone
  <2>4. FixtureSound' /\ EvidenceSound'
    BY <1>0, <2>1, <2>2 DEF FixtureSound, EvidenceSound, ClaimedMeansRevoked, RevokedMeansRevoked
  <2> QED BY <2>3, <2>4 DEF BrowserInv
<1>10. CASE UNCHANGED acceptanceVars
  BY <1>0, <1>10 DEF acceptanceVars, fixtureVars, browserVars, BrowserInv, AcceptanceParts, HandledAlone, FixtureSound,
     EvidenceSound, ClaimedMeansRevoked, RevokedMeansRevoked
<1> QED BY <1>1, <1>2, <1>3, <1>4, <1>5, <1>6, <1>7, <1>8, <1>9, <1>10 DEF AcceptanceNext
-------------------------------------------------------------------------------

Effects == {"discover", "signup", "signin", "session", "rejected", "authorize", "login", "client", "consent", "exchange",
            "profile", "update", "forge", "unchanged", "rotate", "revoke", "refused", "reused", "revokeUnchecked", "signout", "gone"}

\* Where in the chain of requests a user is made and signs in, and what no longer happens late.
LEMMA StepsInOrder ==
  /\ Len(OAuthSteps) = 34 /\ CleanupAt = 35 /\ Written = 36
  /\ \A ix \in 1 .. 34 :
       /\ OAuthSteps[ix] \in [does : Effects, user : {A, B}]
       /\ OAuthSteps[ix].does = "signup" <=> ix \in {2, 14}
       /\ OAuthSteps[ix].does \in {"signin", "login"} => (OAuthSteps[ix].user = A /\ ix > 2) \/ (OAuthSteps[ix].user = B /\ ix > 14)
       /\ ix > 25 => OAuthSteps[ix].does \notin {"signup", "signin", "login", "exchange", "rotate"}
  /\ OAuthSteps[2].user = A /\ OAuthSteps[14].user = B /\ OAuthSteps[25] = Step("rotate", A)
  /\ OAuthSteps[28] = Step("refused", A) /\ OAuthSteps[32] = Step("gone", A) /\ OAuthSteps[34] = Step("gone", B)
<1>1. Len(OAuthSteps) = 34
  BY DEF OAuthSteps
<1>2. ASSUME NEW ix \in 1 .. 34
      PROVE  /\ OAuthSteps[ix] \in [does : Effects, user : {A, B}]
             /\ OAuthSteps[ix].does = "signup" <=> ix \in {2, 14}
             /\ OAuthSteps[ix].does \in {"signin", "login"} => (OAuthSteps[ix].user = A /\ ix > 2) \/ (OAuthSteps[ix].user = B /\ ix > 14)
             /\ ix > 25 => OAuthSteps[ix].does \notin {"signup", "signin", "login", "exchange", "rotate"}
  <2>1. CASE ix \in 1 .. 13
    BY <2>1, SMTT(60) DEF OAuthSteps, Step, Effects
  <2>2. CASE ix \in 14 .. 25
    BY <2>2, SMTT(60) DEF OAuthSteps, Step, Effects
  <2>3. CASE ix \in 26 .. 34
    BY <2>3, SMTT(60) DEF OAuthSteps, Step, Effects
  <2> QED BY <2>1, <2>2, <2>3
<1>3. /\ OAuthSteps[2].user = A /\ OAuthSteps[14].user = B /\ OAuthSteps[25] = Step("rotate", A)
      /\ OAuthSteps[28] = Step("refused", A) /\ OAuthSteps[32] = Step("gone", A) /\ OAuthSteps[34] = Step("gone", B)
  BY DEF OAuthSteps, Step
<1> QED BY <1>1, <1>2, <1>3 DEF CleanupAt, Written

\* What a request can change at the service.
LEMMA WhatIsServed ==
  ASSUME NEW s \in [does : Effects, user : {A, B}], Served(s), users \subseteq {A, B}, signedIn \subseteq users,
         live \subseteq Credentials
  PROVE  /\ users' \subseteq {A, B} /\ users \subseteq users' /\ live' \subseteq Credentials
         /\ s.does = "signup" => s.user \in users'
         /\ s.does \notin {"signup", "signin", "login"} => signedIn' \subseteq signedIn
         /\ s.does \in {"signup", "signin", "login"} => signedIn' \subseteq signedIn \cup {s.user}
         /\ s.does \notin {"exchange", "rotate"} => live' \subseteq live
         /\ s.does = "rotate" => "tokenA" \notin live'
<1>1. Obtained(s) \in Credentials
  BY DEF Obtained, Credentials
<1>2. CASE s.does = "signup"
  BY <1>2 DEF Served
<1>3. CASE s.does \in {"signin", "login"}
  BY <1>3 DEF Served
<1>4. CASE s.does = "exchange"
  BY <1>1, <1>4 DEF Served
<1>5. CASE s.does = "rotate"
  BY <1>5 DEF Served, Credentials
<1>6. CASE s.does \in {"revoke", "revokeUnchecked"}
  BY <1>6 DEF Served
<1>7. CASE s.does = "signout"
  BY <1>7 DEF Served
<1>8. CASE s.does \notin {"signup", "signin", "login", "exchange", "rotate", "revoke", "revokeUnchecked", "signout"}
  <2>1. UNCHANGED <<users, signedIn, live>>
    BY <1>8 DEF Served
  <2> QED BY <1>8, <2>1
<1> QED BY <1>2, <1>3, <1>4, <1>5, <1>6, <1>7, <1>8

\* A run that has passed step n, and goes on or has passed them all.
Past(n) == at \in n + 1 .. 34 \/ evidence.passed = TRUE
Obtains(ix) == OAuthSteps[ix].does \in {"exchange", "rotate"}

OAuthInv ==
  /\ at \in 1 .. 36
  /\ users \subseteq {A, B} /\ signedIn \subseteq users /\ live \subseteq Credentials
  /\ cleanup \in [users : SUBSET {A, B}, tokens : SUBSET Credentials]
  /\ failed \subseteq {A, B} \cup Credentials /\ vague \subseteq {A, B} \cup Credentials
  /\ evidence \in [passed : BOOLEAN, checks : 0 .. 34, retained : 0 .. 2, written : BOOLEAN]
  /\ at <= 34 => evidence.checks < at
  /\ at <= 34 => (evidence.retained = 1 => at > 2) /\ (evidence.retained = 2 => at > 14)
  \* What was obtained is noted before the next request.
  /\ \A ix \in 1 .. 34 : ix <= evidence.checks \/ (ix < at /\ at <= 34) => (Obtains(ix) => Obtained(OAuthSteps[ix]) \in cleanup.tokens)
  /\ Past(2) => A \in users
  /\ Past(14) => B \in users
  \* What was asked at the service stays so: no later request brings it back.
  /\ evidence.passed = TRUE => at > 34
  /\ Past(25) => "tokenA" \notin live /\ "rotatedA" \in cleanup.tokens
  /\ Past(28) => "rotatedA" \notin live \ vague
  /\ Past(32) => A \notin signedIn \ vague
  /\ Past(34) => B \notin signedIn \ vague
  /\ evidence.written = TRUE => at = 36 /\ live \cap cleanup.tokens \subseteq failed /\ signedIn \cap cleanup.users \subseteq failed

\* The invariant holds at the start.
LEMMA OAuthInitInv == OAuthInit => OAuthInv
  BY DEF OAuthInit, OAuthInv, Past

\* The types are part of it.
LEMMA OAuthTypes == OAuthInv => OAuthTypeOK
  BY StepsInOrder DEF OAuthInv, OAuthTypeOK

\* Nothing the script was given or signed in is left without its request, and a passing run is clean.
LEMMA OAuthIsSafe == OAuthInv => KnownIsUndone /\ PassedMeansClean
<1> SUFFICES ASSUME OAuthInv PROVE KnownIsUndone /\ PassedMeansClean
  OBVIOUS
<1>1. KnownIsUndone
  <2> SUFFICES ASSUME evidence.written = TRUE PROVE Given \subseteq failed /\ signedIn \cap cleanup.users \subseteq failed
    BY DEF KnownIsUndone, OAuthInv
  <2>1. evidence.written = TRUE
    OBVIOUS
  <2>2. ASSUME NEW t \in Given PROVE t \in failed
    <3>1. PICK ix \in 1 .. evidence.checks : OAuthSteps[ix].does \in {"exchange", "rotate"} /\ Obtained(OAuthSteps[ix]) = t
      BY <2>2 DEF Given
    <3>2. ix \in 1 .. 34 /\ ix <= evidence.checks
      BY DEF OAuthInv
    <3>3. t \in cleanup.tokens
      BY <3>1, <3>2 DEF OAuthInv, Obtains
    <3>4. t \in live
      BY <2>2 DEF Given
    <3> QED BY <2>1, <3>3, <3>4 DEF OAuthInv
  <2> QED BY <2>1, <2>2 DEF OAuthInv
<1>2. PassedMeansClean
  <2> SUFFICES ASSUME evidence.passed PROVE signedIn \cup (live \ {"tokenB"}) \subseteq vague
    BY DEF PassedMeansClean
  <2>1. evidence.passed = TRUE
    BY DEF OAuthInv
  <2>2. Past(25) /\ Past(28) /\ Past(32) /\ Past(34)
    BY <2>1 DEF Past
  <2>3. "tokenA" \notin live /\ "rotatedA" \notin live \ vague /\ A \notin signedIn \ vague /\ B \notin signedIn \ vague
    BY <2>2 DEF OAuthInv
  <2>4. signedIn \subseteq {A, B} /\ live \subseteq {"tokenA", "rotatedA", "tokenB"}
    BY DEF OAuthInv, Credentials
  <2> QED BY <2>3, <2>4
<1> QED BY <1>1, <1>2

\* The evidence is written at the end.
LEMMA WrittenAtEnd == OAuthInv => (evidence.written = TRUE => at = 36)
  BY Zenon DEF OAuthInv

\* Every step keeps the invariant.
LEMMA OAuthInvKept == OAuthInv /\ [OAuthNext]_oauthVars => OAuthInv'
<1> SUFFICES ASSUME OAuthInv, OAuthNext \/ UNCHANGED oauthVars PROVE OAuthInv'
  OBVIOUS
<1>1. CASE Answered
  <2> DEFINE s == OAuthSteps[at]
  <2>1. at \in 1 .. 34 /\ at' = at + 1 /\ UNCHANGED failed /\ vague' = vague \cup Unproved(s) /\ cleanup' = Noted(s)
    BY <1>1, StepsInOrder DEF Answered, OAuthInv
  <2>2. s \in [does : Effects, user : {A, B}]
    BY <2>1, StepsInOrder
  <2>3. \/ Served(s)
        \/ s.does \notin {"signup", "rotate"} /\ UNCHANGED <<users, signedIn, live>>
    BY <1>1 DEF Answered, MayBeIdle
  <2>4. /\ users' \subseteq {A, B} /\ users \subseteq users' /\ live' \subseteq Credentials
        /\ s.does = "signup" => s.user \in users'
        /\ s.does \notin {"signup", "signin", "login"} => signedIn' \subseteq signedIn
        /\ s.does \in {"signup", "signin", "login"} => signedIn' \subseteq signedIn \cup {s.user}
        /\ s.does \notin {"exchange", "rotate"} => live' \subseteq live
        /\ s.does = "rotate" => "tokenA" \notin live'
    BY <2>2, <2>3, WhatIsServed DEF OAuthInv
  <2>5. Obtained(s) \in Credentials
    BY DEF Obtained, Credentials
  <2>6. /\ cleanup' \in [users : SUBSET {A, B}, tokens : SUBSET Credentials]
        /\ cleanup.tokens \subseteq cleanup'.tokens
        /\ s.does \in {"exchange", "rotate"} => Obtained(s) \in cleanup'.tokens
    BY <2>1, <2>2, <2>5 DEF Noted, OAuthInv
  <2> DEFINE checks == IF s.does = "revokeUnchecked" THEN evidence.checks ELSE evidence.checks + 1
             retained == IF s.does = "signup" THEN evidence.retained + 1 ELSE evidence.retained
             passed == at = 34
  <2>7. evidence' = [evidence EXCEPT !.checks = checks, !.retained = retained, !.passed = passed]
    BY <1>1, StepsInOrder DEF Answered
  <2>8. checks \in 0 .. 34 /\ checks <= at /\ (at' <= 34 => checks < at')
    BY <2>1 DEF OAuthInv
  <2>9. retained \in 0 .. 2 /\ (at' <= 34 => (retained = 1 => at' > 2) /\ (retained = 2 => at' > 14))
    BY <2>1, StepsInOrder DEF OAuthInv
  <2>10. passed \in BOOLEAN /\ (passed = TRUE <=> at = 34)
    OBVIOUS
  <2> HIDE DEF s, checks, retained, passed
  <2>11. /\ evidence' \in [passed : BOOLEAN, checks : 0 .. 34, retained : 0 .. 2, written : BOOLEAN]
         /\ evidence'.checks = checks /\ evidence'.retained = retained /\ evidence'.passed = passed
         /\ evidence'.written = evidence.written
    BY <2>7, <2>8, <2>9, <2>10 DEF OAuthInv
  <2>12. ASSUME NEW ix \in 1 .. 34, ix <= checks \/ (ix < at' /\ at' <= 34), Obtains(ix)
         PROVE  Obtained(OAuthSteps[ix]) \in cleanup'.tokens
    <3>1. CASE ix = at
      BY <2>6, <2>12, <3>1 DEF Obtains, s
    <3>2. CASE ix # at
      <4>1. ix < at /\ at <= 34
        BY <2>1, <2>8, <2>12, <3>2
      <4> QED BY <2>6, <2>12, <4>1 DEF OAuthInv
    <3> QED BY <3>1, <3>2
  <2>13. ASSUME NEW n \in 2 .. 34, Past(n)' PROVE at = n \/ (at > n /\ Past(n))
    <3>1. at' \in n + 1 .. 34 \/ at = 34
      BY <2>10, <2>11, <2>13 DEF Past
    <3>2. at >= n
      BY <2>1, <3>1
    <3>3. at > n => Past(n)
      BY <2>1 DEF Past
    <3> QED BY <2>1, <3>2, <3>3
  <2>14. Past(2)' => A \in users'
    <3>1. at = 2 => s.does = "signup" /\ s.user = A
      BY StepsInOrder DEF s
    <3> QED BY <2>4, <2>13, <3>1 DEF OAuthInv
  <2>15. Past(14)' => B \in users'
    <3>1. at = 14 => s.does = "signup" /\ s.user = B
      BY StepsInOrder DEF s
    <3> QED BY <2>4, <2>13, <3>1 DEF OAuthInv
  <2>16. Past(25)' => "tokenA" \notin live' /\ "rotatedA" \in cleanup'.tokens
    <3>1. at = 25 => s.does = "rotate" /\ Obtained(s) = "rotatedA"
      BY StepsInOrder DEF s, Obtained, Step
    <3>2. at > 25 => s.does \notin {"exchange", "rotate"}
      BY <2>1, StepsInOrder DEF s
    <3> QED BY <2>4, <2>6, <2>13, <3>1, <3>2 DEF OAuthInv
  <2>30. vague \subseteq vague' /\ vague' \subseteq {A, B} \cup Credentials
    BY <2>1, <2>2 DEF Unproved, OAuthInv, Credentials
  <2>17. Past(28)' => "rotatedA" \notin live' \ vague'
    <3>1. at >= 28 => s.does \notin {"exchange", "rotate"}
      BY <2>1, StepsInOrder DEF s
    <3>2. at = 28 => "rotatedA" \notin live \ vague'
      <4> SUFFICES ASSUME at = 28 PROVE "rotatedA" \notin live \ vague'
        OBVIOUS
      <4>1. s.does = "refused" /\ s.user = A
        BY StepsInOrder DEF s, Step
      <4>2. Past(25)
        BY DEF Past
      <4>3. Current(A) = "rotatedA"
        BY <4>2, OAuthAssumption DEF OAuthInv, Current
      <4> QED BY <2>1, <4>1, <4>3 DEF Unproved
    <3> QED BY <2>4, <2>13, <2>30, <3>1, <3>2 DEF OAuthInv
  <2>18. Past(32)' => A \notin signedIn' \ vague'
    <3>1. at >= 32 => s.does \notin {"signup", "signin", "login"}
      BY <2>1, StepsInOrder DEF s
    <3>2. at = 32 => A \notin signedIn \ vague'
      BY <2>1, StepsInOrder DEF s, Step, Unproved
    <3> QED BY <2>4, <2>13, <2>30, <3>1, <3>2 DEF OAuthInv
  <2>19. Past(34)' => B \notin signedIn' \ vague'
    <3>1. at = 34 => s.does \notin {"signup", "signin", "login"}
      BY <2>1, StepsInOrder DEF s
    <3>2. at = 34 => B \notin signedIn \ vague'
      BY <2>1, StepsInOrder DEF s, Step, Unproved
    <3>3. ~(at > 34)
      BY <2>1
    <3> QED BY <2>4, <2>13, <3>1, <3>2, <3>3
  <2>20. signedIn' \subseteq users'
    <3>1. s.does \in {"signin", "login"} => s.user \in users
      <4>1. s.does \in {"signin", "login"} => (s.user = A /\ at > 2) \/ (s.user = B /\ at > 14)
        BY <2>1, StepsInOrder DEF s
      <4>2. (at > 2 => Past(2)) /\ (at > 14 => Past(14))
        BY <2>1 DEF Past
      <4> QED BY <4>1, <4>2 DEF OAuthInv
    <3> QED BY <2>4, <3>1 DEF OAuthInv
  <2>21. at' \in 1 .. 36 /\ at' # 36 /\ (evidence'.passed = TRUE => at' > 34) /\ evidence'.checks = checks /\ evidence'.retained = retained
         /\ failed' \subseteq {A, B} \cup Credentials /\ evidence'.written # TRUE
    <3>1. evidence.written # TRUE
      <4>1. at # 36
        BY <2>1
      <4> QED BY <4>1, WrittenAtEnd
    <3>2. failed \subseteq {A, B} \cup Credentials
      BY DEF OAuthInv
    <3>3. at' \in 1 .. 36 /\ at' # 36
      BY <2>1
    <3>4. evidence'.passed = TRUE => at' > 34
      BY <2>1, <2>10, <2>11
    <3>5. failed' = failed
      BY <2>1
    <3> QED BY <2>11, <3>1, <3>2, <3>3, <3>4, <3>5
  <2>31. /\ at' \in 1 .. 36
         /\ users' \subseteq {A, B} /\ signedIn' \subseteq users' /\ live' \subseteq Credentials
         /\ cleanup' \in [users : SUBSET {A, B}, tokens : SUBSET Credentials]
         /\ failed' \subseteq {A, B} \cup Credentials /\ vague' \subseteq {A, B} \cup Credentials
         /\ evidence' \in [passed : BOOLEAN, checks : 0 .. 34, retained : 0 .. 2, written : BOOLEAN]
    BY <2>4, <2>6, <2>11, <2>20, <2>21, <2>30
  <2>32. /\ at' <= 34 => evidence'.checks < at'
         /\ at' <= 34 => (evidence'.retained = 1 => at' > 2) /\ (evidence'.retained = 2 => at' > 14)
    BY <2>8, <2>9, <2>21
  <2>33. \A ix \in 1 .. 34 : ix <= evidence'.checks \/ (ix < at' /\ at' <= 34)
           => (Obtains(ix) => Obtained(OAuthSteps[ix]) \in cleanup'.tokens)
    BY <2>12, <2>21
  <2> QED BY <2>14, <2>15, <2>16, <2>17, <2>18, <2>19, <2>21, <2>31, <2>32, <2>33, Zenon DEF OAuthInv
<1>2. CASE StepThrows
  <2> DEFINE s == OAuthSteps[at]
  <2>1. at \in 1 .. 34 /\ at' = 35 /\ UNCHANGED <<cleanup, failed, vague, evidence>>
        /\ (Served(s) \/ UNCHANGED <<users, signedIn, live>>)
    BY <1>2, StepsInOrder DEF StepThrows, OAuthInv
  <2>2. s \in [does : Effects, user : {A, B}]
    BY <2>1, StepsInOrder
  <2>3. /\ users' \subseteq {A, B} /\ users \subseteq users' /\ live' \subseteq Credentials
        /\ s.does = "signup" => s.user \in users' \/ signedIn' = signedIn
        /\ s.does \notin {"signup", "signin", "login"} => signedIn' \subseteq signedIn
        /\ s.does \in {"signup", "signin", "login"} => signedIn' \subseteq signedIn \cup {s.user}
    BY <2>1, <2>2, WhatIsServed DEF OAuthInv
  <2>4. signedIn' \subseteq users'
    <3>1. s.does \in {"signin", "login"} => s.user \in users
      <4>1. s.does \in {"signin", "login"} => (s.user = A /\ at > 2) \/ (s.user = B /\ at > 14)
        BY <2>1, StepsInOrder DEF s
      <4>2. (at > 2 => Past(2)) /\ (at > 14 => Past(14))
        BY <2>1 DEF Past
      <4> QED BY <4>1, <4>2 DEF OAuthInv
    <3> HIDE DEF s
    <3> QED BY <2>3, <3>1 DEF OAuthInv
  <2>5. evidence'.passed # TRUE /\ \A n \in 2 .. 34 : ~Past(n)'
    <3>1. evidence.passed # TRUE
      <4>1. ~(at > 34)
        BY <2>1
      <4>2. evidence.passed = TRUE => at > 34
        BY DEF OAuthInv
      <4> QED BY <4>1, <4>2
    <3>2. evidence'.passed # TRUE
      BY <2>1, <3>1
    <3>3. \A n \in 2 .. 34 : at' \notin n + 1 .. 34
      BY <2>1
    <3> QED BY <3>2, <3>3 DEF Past
  <2>7. evidence'.written # TRUE
    <3>1. at # 36
      BY <2>1
    <3> QED BY <2>1, <3>1, WrittenAtEnd
  <2>6. \A ix \in 1 .. 34 : ix <= evidence.checks => (Obtains(ix) => Obtained(OAuthSteps[ix]) \in cleanup.tokens)
    BY DEF OAuthInv
  <2> QED BY <2>1, <2>3, <2>4, <2>5, <2>6, <2>7 DEF OAuthInv
<1>3. CASE CleanUp
  <2>1. at = 35 /\ at' = 36 /\ UNCHANGED <<users, cleanup, vague>> /\ evidence' = [evidence EXCEPT !.written = TRUE]
    BY <1>3, StepsInOrder DEF CleanUp
  <2>2. /\ live' \subseteq live /\ signedIn' \subseteq signedIn
        /\ live' \cap cleanup.tokens \subseteq failed' /\ signedIn' \cap cleanup.users \subseteq failed'
        /\ failed' \subseteq cleanup.tokens \cup cleanup.users
    BY <1>3 DEF CleanUp, Known, Undoes
  <2>3. /\ evidence' \in [passed : BOOLEAN, checks : 0 .. 34, retained : 0 .. 2, written : BOOLEAN]
        /\ evidence'.checks = evidence.checks
    BY <2>1 DEF OAuthInv
  <2>4. evidence'.passed = evidence.passed
    BY <2>1 DEF OAuthInv
  <2>5. \A n \in 2 .. 34 : Past(n)' => Past(n)
    BY <2>1, <2>4 DEF Past
  <2>6. cleanup.users \subseteq {A, B} /\ cleanup.tokens \subseteq Credentials
    BY DEF OAuthInv
  <2> QED BY <2>1, <2>2, <2>3, <2>4, <2>5, <2>6 DEF OAuthInv
<1>4. CASE CutShort
  <2>1. at = 35 /\ at' = 36 /\ UNCHANGED <<users, cleanup, failed, vague, evidence>> /\ evidence.written # TRUE
    <3>1. at = 35 /\ at' = 36 /\ UNCHANGED <<users, cleanup, failed, vague, evidence>>
      BY <1>4, StepsInOrder DEF CutShort
    <3>2. at # 36
      BY <3>1
    <3> QED BY <3>1, <3>2, WrittenAtEnd
  <2>2. live' \subseteq live /\ signedIn' \subseteq signedIn
    BY <1>4 DEF CutShort, Undoes
  <2>3. \A n \in 2 .. 34 : Past(n)' => Past(n)
    BY <2>1 DEF Past
  <2> QED BY <2>1, <2>2, <2>3 DEF OAuthInv
<1>5. CASE UNCHANGED oauthVars
  BY <1>5 DEF oauthVars, OAuthInv, Past
<1> QED BY <1>1, <1>2, <1>3, <1>4, <1>5 DEF OAuthNext
-------------------------------------------------------------------------------

\* Each of the three release scripts leaves the state of the others.
LEMMA ReleaseInvKept == ReleaseInv /\ [ReleaseNext]_releaseVars => ReleaseInv'
<1> SUFFICES ASSUME ReleaseInv, ReleaseNext \/ UNCHANGED releaseVars PROVE ReleaseInv'
  OBVIOUS
<1>1. UNCHANGED smtpVars => SmtpInv'
  BY DEF ReleaseInv, SmtpInv, smtpVars
<1>2. UNCHANGED deployVars => DeployInv'
  BY DEF ReleaseInv, DeployInv, DeployedIsComplete, deployVars
<1>3. UNCHANGED schemaVars => MigrateInv'
  BY DEF ReleaseInv, MigrateInv, AppliedToOldSchema, schemaVars
<1>4. CASE SmtpNext
  <2>1. UNCHANGED deployVars /\ UNCHANGED schemaVars
    BY <1>4 DEF SmtpNext, Smtp, SmtpFails, SaveProvider, CheckProvider, SendTest, RequireVerification, ConsoleMail
  <2> QED BY <1>2, <1>3, <1>4, <2>1, SmtpInvKept DEF ReleaseInv
<1>5. CASE DeployNext
  <2>1. UNCHANGED smtpVars /\ UNCHANGED schemaVars
    BY <1>5 DEF DeployNext, Deploy, Build, SetReady, PostDeployment, Poll
  <2> QED BY <1>1, <1>3, <1>5, <2>1, DeployInvKept DEF ReleaseInv
<1>6. CASE MigrateNext
  <2>1. UNCHANGED smtpVars /\ UNCHANGED deployVars
    BY <1>6 DEF MigrateNext, TakeLock, ReadVersion, Apply, CommitMigration, CreateRole
  <2> QED BY <1>1, <1>2, <1>6, <2>1, MigrateInvKept DEF ReleaseInv
<1>7. CASE UNCHANGED releaseVars
  BY <1>1, <1>2, <1>3, <1>7 DEF releaseVars, ReleaseInv
<1> QED BY <1>4, <1>5, <1>6, <1>7 DEF ReleaseNext

\* Each script takes its own steps or none.
LEMMA Scripts ==
  [ProgramsNext]_programVars =>
    /\ [ProxyNext]_proxyVars /\ [ConfigureNext]_configureVars
    /\ SmtpNext \/ DeployNext \/ MigrateNext \/ UNCHANGED releaseVars
    /\ [OutageNext]_outageVars /\ [AcceptanceNext]_acceptanceVars /\ [OAuthNext]_oauthVars
<1> SUFFICES ASSUME ProgramsNext \/ UNCHANGED programVars
    PROVE /\ [ProxyNext]_proxyVars /\ [ConfigureNext]_configureVars
          /\ SmtpNext \/ DeployNext \/ MigrateNext \/ UNCHANGED releaseVars
          /\ [OutageNext]_outageVars /\ [AcceptanceNext]_acceptanceVars /\ [OAuthNext]_oauthVars
  OBVIOUS
<1>1. CASE UNCHANGED programVars
  BY <1>1 DEF programVars
<1>2. CASE ProgramsNext
  <2>1. IF program = "proxy" THEN ProxyNext ELSE UNCHANGED proxyVars
    BY <1>2 DEF ProgramsNext
  <2>2. IF program = "configure" THEN ConfigureNext ELSE UNCHANGED configureVars
    BY <1>2 DEF ProgramsNext
  <2>3. IF program = "smtp" THEN SmtpNext
        ELSE IF program = "deploy" THEN DeployNext
        ELSE IF program = "migrate" THEN MigrateNext ELSE UNCHANGED releaseVars
    BY <1>2 DEF ProgramsNext
  <2>4. IF program = "outage" THEN OutageNext ELSE UNCHANGED outageVars
    BY <1>2 DEF ProgramsNext
  <2>5. IF program = "acceptance" THEN AcceptanceNext ELSE UNCHANGED acceptanceVars
    BY <1>2 DEF ProgramsNext
  <2>6. IF program = "oauth" THEN OAuthNext ELSE UNCHANGED oauthVars
    BY <1>2 DEF ProgramsNext
  <2> QED BY <2>1, <2>2, <2>3, <2>4, <2>5, <2>6, Zenon
<1> QED BY <1>1, <1>2

ScriptsInv == ProxyInv /\ ConfigureInv /\ ReleaseInv /\ OutageInv /\ BrowserInv /\ OAuthInv

\* Every script starts where its own Init says.
LEMMA ScriptsStart == ProgramsInit => ScriptsInv
  BY ProxyInitInv, ConfigureInitInv, ReleaseInitInv, OutageInitInv, BrowserInitInv, OAuthInitInv
     DEF ProgramsInit, ConfigureStart, ScriptsInv

\* A step is that of one script, or of none.
LEMMA ScriptsKept == ScriptsInv /\ [ProgramsNext]_programVars => ScriptsInv'
  BY Scripts, ProxyInvKept, ConfigureInvKept, ReleaseInvKept, OutageInvKept, BrowserInvKept, OAuthInvKept
     DEF ScriptsInv, ReleaseNext

\* The scripts that operate the service and the outage builds (native-test-proxy.mjs,
\* configure-auth.mjs, deploy.mjs, migrate.mjs, build-native-outage.mjs) leave nothing that the
\* next run cannot repair: for any number of tunnels, clients, operators and builds at once.
THEOREM OperationsAreSafe == ProgramsSpec => []OperationsSafe
<1>1. ScriptsInv => OperationsSafe
  BY ProxyIsSafe, ConfigureIsSafe
     DEF ScriptsInv, ReleaseInv, DeployInv, MigrateInv, OutageInv, OperationsSafe
<1> QED BY ScriptsStart, ScriptsKept, <1>1, PTL DEF ProgramsSpec

\* The acceptance programs (test-browser-oauth.mjs, create-native-fixture.mjs, test-oauth.mjs)
\* say "passed" only of what they saw, and undo or name what they made, at any lost answer.
THEOREM AcceptanceIsSound == ProgramsSpec => []AcceptanceSound
<1>1. ScriptsInv => AcceptanceSound
  BY BrowserIsSafe, OAuthIsSafe DEF ScriptsInv, AcceptanceSound
<1> QED BY ScriptsStart, ScriptsKept, <1>1, PTL DEF ProgramsSpec

\* What no step of these scripts may do: configure-auth.mjs takes no resource it read from a
\* provider and leaves a child without one alone, whatever is done at the console meanwhile.
THEOREM ConfigurationIsKept == ProgramsSpec => ResourcesPreserved /\ ChildUntouched
<1>1. ScriptsInv /\ [ProgramsNext]_programVars =>
        /\ [step' # step => provider.resources \ provider'.resources \subseteq others.late]_configureVars
        /\ [step' # step /\ ~root /\ ~provider.enabled /\ (step \in {"idle", "start", "done"} \/ ~others.disabled)
              => UNCHANGED <<remote, files>>]_configureVars
  BY Scripts, ConfigureStep DEF ScriptsInv
<1> QED BY ScriptsStart, ScriptsKept, <1>1, PTL DEF ProgramsSpec, ResourcesPreserved, ChildUntouched

\* configure-smtp.mjs requires verified addresses only after a test that the provider saved then
\* accepted in the same run, whatever is saved at the console since, and changes nothing without a
\* recipient.
THEOREM MailIsTested == ProgramsSpec => RequiredAfterTest /\ NoRecipientNoChange
<1>1. ScriptsInv /\ [ProgramsNext]_programVars =>
        /\ [mail'.required /\ ~mail.required
              => smtp.accepted = "working" /\ (mail.saved = smtp.accepted \/ smtp.overtaken)]_releaseVars
        /\ [smtp' # smtp /\ smtp.step # "idle" /\ ~smtp.recipient => UNCHANGED mail]_releaseVars
  <2> SUFFICES ASSUME ScriptsInv, SmtpNext \/ DeployNext \/ MigrateNext \/ UNCHANGED releaseVars
               PROVE  /\ mail'.required /\ ~mail.required
                           => smtp.accepted = "working" /\ (mail.saved = smtp.accepted \/ smtp.overtaken)
                      /\ smtp' # smtp /\ smtp.step # "idle" /\ ~smtp.recipient => UNCHANGED mail
    BY Scripts
  <2>1. CASE SmtpNext
    BY <2>1, SmtpStep DEF ScriptsInv, ReleaseInv
  <2>2. CASE DeployNext \/ MigrateNext \/ UNCHANGED releaseVars
    <3>1. UNCHANGED mail
      BY <2>2 DEF DeployNext, Deploy, Build, SetReady, PostDeployment, Poll, MigrateNext, TakeLock, ReadVersion, Apply,
         CommitMigration, CreateRole, releaseVars, smtpVars
    <3> QED BY <3>1
  <2> QED BY <2>1, <2>2
<1> QED BY ScriptsStart, ScriptsKept, <1>1, PTL DEF ProgramsSpec, RequiredAfterTest, NoRecipientNoChange

\* The verified recovery bundle of build-native-outage.mjs, once there, is never written again.
THEOREM RecoveryIsKept == ProgramsSpec => RestoreKept
<1>1. ScriptsInv /\ [ProgramsNext]_programVars => [restore = "verified" => restore' = "verified"]_outageVars
  BY Scripts, OutageStep DEF ScriptsInv
<1> QED BY ScriptsStart, ScriptsKept, <1>1, PTL DEF ProgramsSpec, RestoreKept

===============================================================================
