---------------------------- MODULE MCNodePrograms ----------------------------
(***************************************************************************)
(* The programs of the repository that Node runs, and the one a page runs: *)
(* the account service and its browser pages, the scripts that operate and *)
(* accept it, and the design tools.  They share no state while they run,   *)
(* so TLC takes one of them per behaviour: `program` is chosen in the      *)
(* initial state, the others stay where they start.                        *)
(***************************************************************************)
EXTENDS AccountService, AuthPages, NativeTestProxy, ConfigureAuth, ReleaseScripts, NativeOutage,
        BrowserAcceptance, OAuthAcceptance, BrowserProfiles, DevToolsClient, Inspection,
        AssetDownloads, AssetSearch, AssetSources, DirectionDraw, DirectionSheet, ScrollScenes,
        ChartLayout, BaseMotion, TLC

CONSTANTS d1, d2, d3

VARIABLE program

MCSources == <<"openverse", "commons">>
File(film, original, playable, side) ==
  [film |-> film, original |-> original, playable |-> playable, side |-> side]
MCArchiveItems ==
  {<<File(first, TRUE, FALSE, 480)>> \o SetToSeq(some) : first \in {<<1>>, <<1, 2>>}, some \in
     {S \in SUBSET {File(<<1>>, FALSE, TRUE, 480), File(<<1>>, FALSE, TRUE, 0), File(<<1>>, FALSE, TRUE, 1080),
                    File(<<1, 2>>, FALSE, TRUE, 720), File(<<2>>, FALSE, TRUE, 240), File(<<2>>, TRUE, FALSE, 480)} :
        Cardinality(S) <= 2}}
MCItem == <<File(<<1>>, TRUE, FALSE, 480)>>
MCDirections == {d1, d2, d3}
MCSectors == {{d1, d2}, {d1, d2, d3}}

Blueprint(id, role, shape, led, dirs) == [id |-> id, role |-> role, shape |-> shape, led |-> led, dirs |-> dirs]
MCBlueprints ==
  {Blueprint("f1", "features", "grid", "plain", {}), Blueprint("f2", "features", "list", "plain", {}),
   Blueprint("f3", "features", "band", "plain", {}), Blueprint("f4", "features", "band", "plain", {"calm"}),
   Blueprint("f5", "features", "grid", "ui", {}),
   Blueprint("p1", "proof", "grid", "ui", {}), Blueprint("p2", "proof", "band", "ui", {"calm"}),
   Blueprint("p3", "proof", "list", "picture", {})}
MCArgument == <<"features", "proof", "features">>
MCSlotPools == [hero |-> {"h1", "h2"}, type |-> {"y1"}]
MCPatterns == [list |-> {"l1", "l2", "l3"}, board |-> {}]

Note(kind, x, x1, width, short) ==
  [kind |-> kind, x |-> x, x1 |-> x1, width |-> width, short |-> short, leader |-> kind = "mark"]
MCNotes ==
  {SetToSeq(some) : some \in
     {S \in SUBSET {Note("fixed", 0, 0, 16, 0), Note("span", 8, 44, 20, 10), Note("mark", 14, 14, 20, 8),
                    Note("mark", 22, 22, 26, 0), Note("mark", 34, 34, 20, 12), Note("peak", 30, 30, 16, 0)} : Cardinality(S) <= 3}}
MCReveals == <<[top |-> 0, height |-> 10], [top |-> 20, height |-> 20], [top |-> 60, height |-> 10]>>
MCChapters == <<0, 30, 61>>
MCBounds == {-250, -40, 0, 40, 100, 240, 1000}

Symmetry == Permutations(Calls) \cup Permutations(Connections) \cup Permutations(Subjects)

\* "limiter" is the limiter of the service without the calls behind it, which are few.
\* The configure-smtp, deploy and migrate programs of ReleaseScripts count one by one.
\* draw.mjs keeps a page or an app on its sheet.
Programs ==
  {"service", "limiter", "pages", "proxy", "configure", "smtp", "deploy", "migrate", "outage", "acceptance",
   "oauth", "profiles", "client", "inspect", "download", "search", "source", "draw", "page", "app", "scenes", "chart", "motion"}

\* Where a program with several initial states stands while another runs.
ConfigureStart == ConfigureInit /\ (program = "configure" \/ root)
ServiceStarts  == ServiceInit /\ (\A r, s \in Subjects : profile[r] = profile[s])
                              /\ (program = "service" \/ \A s \in Subjects : profile[s] = Registered)
InspectStarts  == InspectInit /\ (program = "inspect" \/ (widths = <<1280>> /\ ~appMode))
DownloadStarts == DownloadInit /\ (program = "download" \/ \A f \in DOMAIN folder : f.stem = "harbour")
ScenesStart    == ScenesInit /\ (program = "scenes" \/
                    (visit = "desktop" /\ ~gsap /\ \A s \in 1 .. Scenes : plans[s].phone = "same" /\ ~plans[s].throws))
SheetStart     == SheetInit /\ (program = "page" \/ (mode = "interface" /\ keep = {} /\ dir = "calm" /\ slots.hero = "h1"))
                            /\ (program = "app" \/ (shell = OwnShell /\ screens.list = "l1"))
SourcesStart   == SourcesInit /\ ((program = "source" /\ outlet = "archive") \/ item = MCItem)
                              /\ (program = "source" \/ outlet = "museum")
ChartStart     == ChartInit /\ (program = "chart" \/ chart = [kind |-> "days", n |-> 1, k |-> 1, today |-> 0])

ProgramsInit ==
  /\ program \in Programs
  /\ PagesInit /\ ProxyInit /\ ConfigureStart /\ ReleaseInit /\ OutageInit /\ AcceptanceInit
  /\ OAuthInit /\ ProfilesInit /\ ClientInit /\ SearchInit /\ DrawInit /\ MotionInit
  /\ ServiceStarts /\ InspectStarts /\ DownloadStarts /\ SourcesStart /\ ScenesStart /\ SheetStart /\ ChartStart

ProgramsNext ==
  /\ UNCHANGED program
  /\ IF program = "service"    THEN ServiceNext
     ELSE IF program = "limiter" THEN Next /\ UNCHANGED <<call, connection, profile>>
     ELSE UNCHANGED serviceVars
  /\ IF program = "pages"      THEN PagesNext      ELSE UNCHANGED pageVars
  /\ IF program = "proxy"      THEN ProxyNext      ELSE UNCHANGED proxyVars
  /\ IF program = "configure"  THEN ConfigureNext  ELSE UNCHANGED configureVars
  /\ IF program = "smtp"       THEN SmtpNext
     ELSE IF program = "deploy"  THEN DeployNext
     ELSE IF program = "migrate" THEN MigrateNext  ELSE UNCHANGED releaseVars
  /\ IF program = "outage"     THEN OutageNext     ELSE UNCHANGED outageVars
  /\ IF program = "acceptance" THEN AcceptanceNext ELSE UNCHANGED acceptanceVars
  /\ IF program = "oauth"      THEN OAuthNext      ELSE UNCHANGED oauthVars
  /\ IF program = "profiles"   THEN ProfilesNext   ELSE UNCHANGED profileVars
  /\ IF program = "client"     THEN ClientNext     ELSE UNCHANGED clientVars
  /\ IF program = "inspect"    THEN InspectNext    ELSE UNCHANGED inspectVars
  /\ IF program = "download"   THEN DownloadNext   ELSE UNCHANGED downloadVars
  /\ IF program = "search"     THEN SearchNext     ELSE UNCHANGED searchVars
  /\ IF program = "source"     THEN SourcesNext    ELSE UNCHANGED sourceVars
  /\ IF program = "draw"       THEN DrawNext       ELSE UNCHANGED drawVars
  /\ IF program = "page"       THEN PageNext
     ELSE IF program = "app"     THEN AppNext      ELSE UNCHANGED sheetVars
  /\ IF program = "scenes"     THEN ScenesNext     ELSE UNCHANGED sceneVars
  /\ IF program = "chart"      THEN ChartNext      ELSE UNCHANGED chartVars
  /\ IF program = "motion"     THEN MotionNext     ELSE UNCHANGED motionVars

programVars ==
  <<program, serviceVars, pageVars, proxyVars, configureVars, releaseVars, outageVars, acceptanceVars, oauthVars,
    profileVars, clientVars, inspectVars, downloadVars, searchVars, sourceVars, drawVars, sheetVars, sceneVars,
    chartVars, motionVars>>

ProgramsSpec == ProgramsInit /\ [][ProgramsNext]_programVars

-------------------------------------------------------------------------------

\* The type invariant of the program that runs; the others stay where they start.
ProgramsTypeOK ==
  /\ program \in Programs
  /\ program \in {"service", "limiter"} => ServiceTypeOK
  /\ program = "pages"      => PagesTypeOK
  /\ program = "proxy"      => ProxyTypeOK
  /\ program = "configure"  => ConfigureTypeOK
  /\ program \in {"smtp", "deploy", "migrate"} => ReleaseTypeOK
  /\ program = "outage"     => OutageTypeOK
  /\ program = "acceptance" => AcceptanceTypeOK
  /\ program = "oauth"      => OAuthTypeOK
  /\ program = "profiles"   => ProfilesTypeOK
  /\ program = "client"     => ClientTypeOK
  /\ program = "inspect"    => InspectTypeOK
  /\ program = "download"   => DownloadTypeOK
  /\ program = "search"     => SearchTypeOK
  /\ program = "source"     => SourcesTypeOK
  /\ program = "draw"       => DrawTypeOK
  /\ program \in {"page", "app"} => SheetTypeOK
  /\ program = "scenes"     => ScenesTypeOK
  /\ program = "chart"      => ChartTypeOK
  /\ program = "motion"     => MotionTypeOK

\* Of a program that does not run, the initial state satisfies what is said of it below.
Runs(programs) == program \in programs

\* The quotas and the transactions of the account service and the consent of its pages: no subject
\* passes more than its quota, no account sees another's or loses what was acknowledged, and a
\* decision is sent once, of a request that was shown (RateLimiter, AccountService, AuthPages).
ServiceSound ==
  /\ Runs({"service", "limiter"}) => QuotasKept /\ ServiceKept
  /\ Runs({"pages"}) => ConsentSafe

\* The scripts that operate the service and the outage builds: stopped anywhere, failing anywhere
\* or run twice at once, they leave nothing that the next run cannot repair, except a torn neon.json,
\* which is put back by hand, and they report success only of what they did (native-test-proxy,
\* configure-auth, configure-smtp, deploy, migrate, build-native-outage).
OperationsSafe ==
  /\ Runs({"proxy"}) => DisabledMeansCut /\ NothingUntracked /\ TunnelsBounded
  /\ Runs({"configure"}) => OneClient /\ DesktopFollowsRecord /\ SuccessMeansConfigured
  /\ Runs({"deploy", "migrate"}) => DeployedIsComplete /\ AppliedToOldSchema
  /\ Runs({"outage"}) => OutageRecoverable /\ OnlyVerifiedKept

\* The acceptance programs: "passed" is only said of what they saw, and the grants and the client
\* they made are revoked or named to whoever must clean up (test-browser-oauth, test-oauth).
AcceptanceSound ==
  /\ Runs({"acceptance"}) => ClaimedMeansRevoked /\ ExchangedOnce /\ RevokedMeansRevoked /\ ZeroMeansPassed
  /\ Runs({"oauth"}) => KnownIsUndone /\ PassedMeansClean

\* The tools that drive a browser: no run sweeps a profile that is in use and says so, no event is
\* missed between two awaits, and the pictures beside a report of inspect.mjs are its own, also when
\* a run is aborted (cdp, inspect, scenes).
ToolsSound ==
  /\ Runs({"profiles"}) => LiveKeepsProfile
  /\ Runs({"client"}) => LoadNotLost /\ DialogAttended
  /\ Runs({"inspect"}) => CodeZeroMeansClean /\ PicturesMatchReport
  /\ Runs({"scenes"}) => MotionIsAsked /\ ZeroMeansRan

\* assets.mjs: whatever fails, arrives late or is answered out of order, what it shows is usable,
\* shown once, at its own row, and credited once its download has ended well.
AssetsSound ==
  /\ Runs({"download"}) => AllCredited
  /\ Runs({"search"}) => ShownAreUsable /\ NoPictureTwice
  /\ Runs({"source"}) => NoRowTwice /\ AnswersAtTheirRows /\ FirstFilmPlays /\ FitsIfAnyFits

\* What is drawn: draw.mjs keeps its word over a history of draws and redraws, the sections of a
\* sheet follow its argument, and the pages reveal what is in view (draw, app-draw, base).
DesignsSound ==
  /\ Runs({"draw"}) => RejectedStaysAway /\ OptionsSuffice
  /\ Runs({"page", "app"}) => NoBlueprintTwice /\ ArgumentKept
  /\ Runs({"motion"}) => InViewIsShown /\ InkFollows

\* charts.js: labels lie clear of each other and are dropped only for want of room, ticks cover the
\* data without crowding, dates picked fit and the heads of a clock keep apart (ChartLayout).
ChartsSound == Runs({"chart"}) => LabelsClear /\ DroppedOnlyIfNoRoom /\ TicksCover /\ PicksFit /\ HeadsApart

\* What no step of the programs may do: limit a subject whose quota is not spent, show another
\* profile than the account's, drop a pending authorization, take a resource from a provider or
\* touch a child without one, require addresses nobody can verify, write over the verified
\* recovery bundle, the user's files or another record's picture (but for a poster), deal
\* a look or a shape twice in a row.
StepsSound ==
  /\ LimitedOnlyWhenSpent /\ ProfileShown
  /\ ContinuationKept
  /\ ResourcesPreserved /\ ChildUntouched
  /\ RequiredAfterTest /\ NoRecipientNoChange
  /\ RestoreKept
  /\ OthersKept
  /\ NotTwiceInARow /\ ShapesVary
===============================================================================
