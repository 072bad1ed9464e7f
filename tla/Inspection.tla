------------------------------ MODULE Inspection ------------------------------
(***************************************************************************)
(* inspect.mjs: the page is rendered at each width, measured, photographed *)
(* and judged; the findings of all widths are merged into the report and   *)
(* the exit code.  Chrome may fail at any request: some failures are       *)
(* caught where they happen, the others end the run through its finally.   *)
(***************************************************************************)
EXTENDS Integers, Sequences, SequencesExt

CONSTANT InspectRuns    \* bound: runs of the inspector on one folder
ASSUME InspectAssumption == InspectRuns \in Nat \ {0}

Widths == {1440, 1280, 390}
ViewportClass(width) == IF width >= 1100 THEN "desktop" ELSE IF width >= 600 THEN "tablet" ELSE "mobile"
WidthRequests == {<<1440, 390>>, <<1440, 1280>>, <<1280>>}    \* values of --widths

Levels == {"FAIL", "WARN"}
Rules == {"contrast", "still-page", "blank-gap", "reduced-hidden"}
Findings == [id : Rules, level : Levels, width : Widths]
Labels == [class : {"desktop", "mobile"}, width : Widths \cup {0}]    \* 0: not qualified

VARIABLES widths,    \* the widths of the run
          appMode,   \* an app screen is judged: APP_SKIP drops still-page
          i,         \* index of the width in hand
          inspecting,      \* where the run is
          browser,   \* the browser runs
          metrics,   \* what the probe measured at this width: the level it earns, if any
          layout,    \* the same for the layout; "unmeasured" if its evaluation failed
          found,     \* findings of the run, in order
          merged,    \* findings of the report; their order is the layout of the report
          images,    \* pictures the run lists: their label and width
          outDir,    \* pictures in the folder: label |-> width photographed
          report,    \* report.json in the folder: the run that wrote it and the pictures it lists
          exit,      \* exit code, -1 while it runs
          run        \* number of this run

inspectVars == <<widths, appMode, i, inspecting, browser, metrics, layout, found, merged, images,
                 outDir, report, exit, run>>

NoReport == [run |-> 0, images |-> <<>>]    \* none, or one cut short
Verdicts == Levels \cup {"clean"}

\* Steps, verdicts and findings are those of the script.
InspectTypeOK ==
  /\ widths \in WidthRequests /\ appMode \in BOOLEAN
  /\ i \in 1 .. Len(widths) + 1
  /\ inspecting \in {"start", "open", "measure", "scroll", "judge", "reduced", "merge", "done"}
  /\ browser \in BOOLEAN
  /\ metrics \in Verdicts /\ layout \in Verdicts \cup {"unmeasured"}
  /\ found \in Seq(Findings) /\ merged \subseteq Findings
  /\ ToSet(images) \subseteq [label : Labels, width : Widths]
  /\ \A label \in DOMAIN outDir : label \in Labels /\ outDir[label] \in Widths
  /\ report.run \in 0 .. InspectRuns /\ ToSet(report.images) \subseteq [label : Labels, width : Widths]
  /\ exit \in -1 .. 1 /\ run \in 1 .. InspectRuns

InspectInit ==
  /\ widths \in WidthRequests /\ appMode \in BOOLEAN
  /\ i = 1 /\ inspecting = "start" /\ browser = FALSE
  /\ metrics = "clean" /\ layout = "clean"
  /\ found = <<>> /\ merged = {} /\ images = <<>>
  /\ outDir = <<>> /\ report = NoReport /\ exit = -1 /\ run = 1

-------------------------------------------------------------------------------

\* screenshotLabel: widths that share a viewport class get their width in the name.
ScreenshotLabel_ClassOnly(width) == [class |-> ViewportClass(width), width |-> 0]
ScreenshotLabel(width) ==
  LET sameClass == {w \in ToSet(widths) : ViewportClass(w) = ViewportClass(width)} IN
    [class |-> ViewportClass(width), width |-> IF sameClass = {width} THEN 0 ELSE width]

\* Pictures of an earlier run are removed before the browser starts.
SweepWidths == outDir' = <<>>

Launch ==
  /\ inspecting = "start"
  /\ SweepWidths
  /\ browser' = TRUE
  /\ inspecting' = "open"
  /\ UNCHANGED <<widths, appMode, i, metrics, layout, found, merged, images, report, exit, run>>

\* newPage and goto: a load that times out is noted, and the page is measured as it is.
OpenWidth ==
  /\ inspecting = "open"
  /\ inspecting' = "measure"
  /\ UNCHANGED <<widths, appMode, i, browser, metrics, layout, found, merged, images, outDir, report, exit, run>>

\* The first screen is photographed, into the folder, and measured; neither failure is caught.
Measure ==
  /\ inspecting = "measure"
  /\ metrics' \in Verdicts
  /\ LET label == ScreenshotLabel(widths[i]) IN
       outDir' = [l \in DOMAIN outDir \cup {label} |-> IF l = label THEN widths[i] ELSE outDir[l]]
  /\ inspecting' = "scroll"
  /\ UNCHANGED <<widths, appMode, i, browser, layout, found, merged, images, report, exit, run>>

\* The walk down the page and the second measurement, which replaces the first unless it
\* fails or shows fewer headings; a layout that cannot be evaluated is not judged.
Scroll ==
  /\ inspecting = "scroll"
  /\ metrics' \in Verdicts
  /\ layout' \in Verdicts \cup {"unmeasured"}
  /\ inspecting' = "judge"
  /\ UNCHANGED <<widths, appMode, i, browser, found, merged, images, outDir, report, exit, run>>

Finding(id, verdict) ==
  IF verdict \in Levels THEN <<[id |-> id, level |-> verdict, width |-> widths[i]]>> ELSE <<>>

\* judge, judgeLayout and the motion check, which is for desktop widths and for pages.
Judged(moving) ==
  Finding("contrast", metrics) \o Finding("blank-gap", layout)
  \o IF ViewportClass(widths[i]) = "desktop" /\ ~appMode THEN Finding("still-page", moving) ELSE <<>>

\* The width is judged, and its picture is listed with its findings.
Judge ==
  /\ inspecting = "judge"
  /\ \E moving \in Verdicts : found' = found \o Judged(moving)
  /\ images' = Append(images, [label |-> ScreenshotLabel(widths[i]), width |-> widths[i]])
  /\ i' = i + 1
  /\ inspecting' = IF i < Len(widths) THEN "open" ELSE "reduced"
  /\ UNCHANGED <<widths, appMode, browser, metrics, layout, merged, outDir, report, exit, run>>

\* Under reduced motion nothing may stay hidden; then finally closes the browser.
Reduced ==
  /\ inspecting = "reduced"
  /\ found' \in {found} \cup
       IF ~appMode /\ \E w \in ToSet(widths) : w >= 1100
         THEN {Append(found, [id |-> "reduced-hidden", level |-> "FAIL", width |-> 1440])} ELSE {}
  /\ browser' = FALSE
  /\ inspecting' = "merge"
  /\ UNCHANGED <<widths, appMode, i, metrics, layout, merged, images, outDir, report, exit, run>>

\* A finding that repeats at another width is noted at the first, if it is of the same level.
Repeats_AnyLevel(f, g) == f.id = g.id
Repeats(f, g) == f.id = g.id /\ f.level = g.level
Merge(findings) ==
  {findings[n] : n \in {n \in DOMAIN findings : \A m \in 1 .. n - 1 : ~Repeats(findings[n], findings[m])}}

\* The report is written and the exit code says whether anything failed.
ReportRun ==
  /\ inspecting = "merge"
  /\ merged' = Merge(found)
  /\ report' = [run |-> run, images |-> images]
  /\ exit' = IF \E f \in merged' : f.level = "FAIL" THEN 1 ELSE 0
  /\ inspecting' = "done"
  /\ UNCHANGED <<widths, appMode, i, browser, metrics, layout, found, images, outDir, run>>

\* A failure nobody catches: finally closes the browser, and the script ends with code 1.  The
\* pictures stay, and so does the report of an earlier run, unless writing this one failed.
AbortRun ==
  /\ inspecting \in {"open", "measure", "scroll", "judge", "reduced", "merge"}
  /\ report' \in IF inspecting = "merge" THEN {report, NoReport} ELSE {report}
  /\ browser' = FALSE
  /\ exit' = 1
  /\ inspecting' = "done"
  /\ UNCHANGED <<widths, appMode, i, metrics, layout, found, merged, images, outDir, run>>

\* The next run in the same folder.
Again ==
  /\ inspecting = "done" /\ run < InspectRuns
  /\ widths' \in WidthRequests /\ appMode' \in BOOLEAN
  /\ i' = 1 /\ inspecting' = "start" /\ metrics' = "clean" /\ layout' = "clean"
  /\ found' = <<>> /\ merged' = {} /\ images' = <<>> /\ exit' = -1
  /\ run' = run + 1
  /\ UNCHANGED <<browser, outDir, report>>

InspectNext ==
  \/ Launch \/ OpenWidth \/ Measure \/ Scroll \/ Judge \/ Reduced \/ ReportRun \/ AbortRun \/ Again

InspectSpec == InspectInit /\ [][InspectNext]_inspectVars

-------------------------------------------------------------------------------

\* Exit code 0 is given only to a run that judged every width and in which nothing failed at
\* any width, before the merge.
CodeZeroMeansClean ==
  exit = 0 => /\ \A f \in ToSet(found) : f.level # "FAIL"
              /\ Len(images) = Len(widths) /\ i = Len(widths) + 1

\* Until the next run sweeps the folder, its pictures are those listed in the report of a run that
\* came to write one, each under the width it shows; a run that is broken off lists none, and
\* passes for neither clean nor reported.
PicturesMatchReport ==
  report.run = run \/ (report.run = run - 1 /\ inspecting = "start") =>
    /\ DOMAIN outDir = {image.label : image \in ToSet(report.images)}
    /\ \A image \in ToSet(report.images) : outDir[image.label] = image.width
===============================================================================
