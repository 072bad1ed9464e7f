-------------------------- MODULE DesignToolsProofs ---------------------------
(***************************************************************************)
(* Proofs about the design tools, Inspection, BrowserProfiles,             *)
(* ScrollScenes, DevToolsClient, AssetDownloads, AssetSearch,              *)
(* AssetSources, DirectionDraw, DirectionSheet, BaseMotion and             *)
(* ChartLayout, for any number of runs, requests, scenes, pictures, films, *)
(* sources, directions, blueprints, chapters, labels and rows, about the   *)
(* types of all programs of MCNodePrograms, and about what no step of them *)
(* may do.                                                                 *)
(***************************************************************************)
EXTENDS NodeToolsProofs, WellFoundedInduction

-------------------------------------------------------------------------------
\* inspect.mjs takes pictures of a page at some widths and judges them.

\* A set of numbers has a least one: what is said of all lists or numbers is proved by the least
\* counterexample, since the library's induction theorems cannot be instantiated.
LEMMA LeastNumber ==
  ASSUME NEW S, S \subseteq Nat, S # {}
  PROVE  \E n \in S : \A m \in S : n <= m
<1> DEFINE R == OpToRel(<, Nat)
<1>1. IsWellFoundedOn(R, Nat)
  BY NatLessThanWellFounded, Zenon
<1> HIDE DEF R
<1>2. PICK n \in S : \A m \in S : <<m, n>> \notin R
  BY <1>1, WFMin
<1>3. ASSUME NEW m \in S, ~(n <= m) PROVE <<m, n>> \in R
  <2>1. m < n /\ m \in Nat /\ n \in Nat
    BY <1>3
  <2> QED BY <2>1 DEF R, OpToRel
<1> QED BY <1>2, <1>3

\* The merge drops no finding whose level no other finding has.
LEMMA MergeKeepsLevels ==
  ASSUME NEW findings \in Seq(Findings), NEW f \in ToSet(findings)
  PROVE  \E g \in Merge(findings) : g.level = f.level
<1>1. DOMAIN findings = 1 .. Len(findings) /\ Len(findings) \in Nat
  BY LenProperties
<1>2. PICK n \in DOMAIN findings : f = findings[n]
  BY DEF ToSet
<1> DEFINE S == {m \in DOMAIN findings : findings[m].id = f.id /\ findings[m].level = f.level}
<1>3. S \subseteq Nat /\ n \in S
  BY <1>1, <1>2
<1>4. PICK k \in S : \A m \in S : k <= m
  BY <1>3, LeastNumber
<1>5. \A m \in 1 .. k - 1 : ~Repeats(findings[k], findings[m])
  BY <1>1, <1>4 DEF Repeats
<1>6. findings[k] \in Merge(findings)
  BY <1>4, <1>5 DEF Merge
<1> QED BY <1>4, <1>6

\* The widths of a run are different, and so are the names of their pictures.
LEMMA WidthsAndLabels ==
  ASSUME widths \in WidthRequests
  PROVE  /\ Len(widths) \in 1 .. 2
         /\ \A n \in 1 .. Len(widths) : widths[n] \in Widths /\ ScreenshotLabel(widths[n]) \in Labels
         /\ \A n, m \in 1 .. Len(widths) : ScreenshotLabel(widths[n]) = ScreenshotLabel(widths[m]) => n = m
<1>1. CASE widths = <<1440, 390>>
  <2>1. Len(widths) = 2 /\ widths[1] = 1440 /\ widths[2] = 390 /\ ToSet(widths) = {1440, 390}
    BY <1>1 DEF ToSet
  <2>2. ScreenshotLabel(1440).class = "desktop" /\ ScreenshotLabel(390).class = "mobile"
    BY DEF ScreenshotLabel, ViewportClass
  <2>3. ScreenshotLabel(1440) \in Labels /\ ScreenshotLabel(390) \in Labels
    BY DEF ScreenshotLabel, ViewportClass, Labels, Widths
  <2> QED BY <2>1, <2>2, <2>3 DEF Widths
<1>2. CASE widths = <<1440, 1280>>
  <2>1. Len(widths) = 2 /\ widths[1] = 1440 /\ widths[2] = 1280 /\ ToSet(widths) = {1440, 1280}
    BY <1>2 DEF ToSet
  <2>2. \A w \in {1440, 1280} : {v \in ToSet(widths) : ViewportClass(v) = ViewportClass(w)} = {1440, 1280}
    BY <2>1 DEF ViewportClass
  <2>3. ScreenshotLabel(1440).width = 1440 /\ ScreenshotLabel(1280).width = 1280
    BY <2>2 DEF ScreenshotLabel
  <2>4. ScreenshotLabel(1440) \in Labels /\ ScreenshotLabel(1280) \in Labels
    BY DEF ScreenshotLabel, ViewportClass, Labels, Widths
  <2> QED BY <2>1, <2>3, <2>4 DEF Widths
<1>3. CASE widths = <<1280>>
  <2>1. Len(widths) = 1 /\ widths[1] = 1280
    BY <1>3
  <2>2. ScreenshotLabel(1280) \in Labels
    BY DEF ScreenshotLabel, ViewportClass, Labels, Widths
  <2> QED BY <2>1, <2>2 DEF Widths
<1> QED BY <1>1, <1>2, <1>3 DEF WidthRequests

\* How many widths have been judged and their pictures listed, by where the run is.
Pictured == [label : Labels, width : Widths]
Picture(n) == [label |-> ScreenshotLabel(widths[n]), width |-> widths[n]]
PicturesTaken(n) ==
  /\ Len(images) = n
  /\ n <= Len(widths)
  /\ \A k \in 1 .. n : images[k] = Picture(k)

\* The folder holds the pictures of a list.
ListedIn(list) ==
  /\ DOMAIN outDir = {list[k].label : k \in 1 .. Len(list)}
  /\ \A k \in 1 .. Len(list) : outDir[list[k].label] = list[k].width

InspectInv ==
  /\ InspectTypeOK
  /\ images \in Seq(Pictured) /\ report.images \in Seq(Pictured)
  /\ inspecting = "start" => i = 1
  /\ inspecting \in {"start", "open", "measure", "scroll", "judge"} => i <= Len(widths) /\ PicturesTaken(i - 1)
  /\ inspecting \in {"reduced", "merge"} => i = Len(widths) + 1 /\ PicturesTaken(Len(widths))
  /\ inspecting \in {"open", "measure", "reduced", "merge"} => ListedIn(images)
  /\ inspecting \in {"scroll", "judge"} => ListedIn(Append(images, Picture(i)))
  /\ report.run <= run
  /\ report.run = run => inspecting = "done" /\ ListedIn(report.images)
  /\ report.run = run - 1 /\ inspecting = "start" => ListedIn(report.images)
  /\ exit = 0 => inspecting = "done" /\ i = Len(widths) + 1 /\ Len(images) = Len(widths)
  /\ exit = 0 => \A f \in ToSet(found) : f.level # "FAIL"

\* The invariant holds at the start.
LEMMA InspectInitInv == InspectInit => InspectInv
<1> SUFFICES ASSUME InspectInit PROVE InspectInv
  OBVIOUS
<1>1. i = 1 /\ Len(widths) \in 1 .. 2 /\ images = <<>> /\ Len(images) = 0 /\ exit = -1 /\ inspecting = "start"
  BY WidthsAndLabels DEF InspectInit
<1>2. run = 1 /\ run \in 1 .. InspectRuns
  BY InspectAssumption DEF InspectInit
<1>3. ToSet(images) = {} /\ DOMAIN outDir = {}
  BY DEF InspectInit, ToSet
<1>4. /\ report.run = 0 /\ report.images = <<>> /\ Len(report.images) = 0 /\ ToSet(report.images) = {}
      /\ report.run \in 0 .. InspectRuns
  <2>1. report.run = 0 /\ report.images = <<>>
    BY DEF InspectInit, NoReport
  <2>2. ToSet(<<>>) = {}
    BY DEF ToSet
  <2>3. ToSet(report.images) = {}
    BY <2>1, <2>2, Zenon
  <2>4. Len(report.images) = 0
    BY <2>1
  <2>5. report.run \in 0 .. InspectRuns
    BY <2>1, InspectAssumption
  <2> QED BY <2>1, <2>3, <2>4, <2>5
<1>5. InspectTypeOK
  <2>1. i \in 1 .. Len(widths) + 1 /\ exit \in -1 .. 1
    BY <1>1
  <2>2. found \in Seq(Findings) /\ merged \subseteq Findings
    BY DEF InspectInit
  <2>3. ToSet(images) \subseteq [label : Labels, width : Widths] /\ \A label \in DOMAIN outDir : label \in Labels /\ outDir[label] \in Widths
    BY <1>3
  <2>4. metrics \in Verdicts /\ layout \in Verdicts \cup {"unmeasured"} /\ browser \in BOOLEAN /\ inspecting = "start"
    BY DEF InspectInit, Verdicts
  <2> QED BY <1>2, <1>4, <2>1, <2>2, <2>3, <2>4 DEF InspectInit, InspectTypeOK
<1>6. ListedIn(report.images)
  BY <1>3, <1>4 DEF ListedIn
<1>7. PicturesTaken(i - 1) /\ images \in Seq(Pictured) /\ report.images \in Seq(Pictured)
  BY <1>1, <1>4 DEF PicturesTaken
<1> QED BY <1>1, <1>2, <1>4, <1>5, <1>6, <1>7 DEF InspectInv

\* What a step keeps that leaves alone the pictures, the list and the widths.
LEMMA SamePictures ==
  ASSUME UNCHANGED <<widths, images, outDir>>, NEW n
  PROVE  /\ PicturesTaken(n) => PicturesTaken(n)'
         /\ ListedIn(n) => ListedIn(n)'
         /\ ListedIn(images) => ListedIn(images)'
  BY DEF PicturesTaken, ListedIn, Picture, ScreenshotLabel

\* The steps that leave the list of pictures and the findings alone.
LEMMA QuietSteps == InspectInv /\ (Launch \/ OpenWidth \/ Scroll \/ AbortRun) => InspectInv'
<1> SUFFICES ASSUME InspectInv, Launch \/ OpenWidth \/ Scroll \/ AbortRun PROVE InspectInv'
  OBVIOUS
<1>0. InspectTypeOK /\ Len(widths) \in 1 .. 2 /\ run \in 1 .. InspectRuns
  BY WidthsAndLabels DEF InspectInv, InspectTypeOK
<1>1. CASE Launch
  <2>1. /\ inspecting = "start" /\ outDir' = <<>> /\ browser' = TRUE /\ inspecting' = "open"
        /\ UNCHANGED <<widths, appMode, i, metrics, layout, found, merged, images, report, exit, run>>
    BY <1>1 DEF Launch, SweepWidths
  <2>2. DOMAIN outDir' = {}
    BY <2>1
  <2>3. InspectTypeOK'
    BY <1>0, <2>1, <2>2 DEF InspectTypeOK
  <2>4. i = 1 /\ i <= Len(widths) /\ PicturesTaken(i - 1) /\ exit # 0 /\ report.run # run
    BY <2>1 DEF InspectInv
  <2>5. PicturesTaken(i - 1)'
    BY <2>1, <2>4 DEF PicturesTaken, Picture, ScreenshotLabel
  <2>6. Len(images') = 0
    BY <2>1, <2>4 DEF PicturesTaken
  <2>7. ListedIn(images)'
    BY <2>2, <2>6 DEF ListedIn
  <2> QED BY <2>1, <2>3, <2>4, <2>5, <2>7 DEF InspectInv
<1>2. CASE OpenWidth
  <2>1. /\ inspecting = "open" /\ inspecting' = "measure"
        /\ UNCHANGED <<widths, appMode, i, browser, metrics, layout, found, merged, images, outDir, report, exit, run>>
    BY <1>2 DEF OpenWidth
  <2>2. InspectTypeOK'
    BY <1>0, <2>1 DEF InspectTypeOK
  <2>3. PicturesTaken(i - 1)' /\ ListedIn(images)' /\ i <= Len(widths) /\ report.run # run
    BY <2>1, SamePictures DEF InspectInv
  <2> QED BY <2>1, <2>2, <2>3 DEF InspectInv
<1>3. CASE Scroll
  <2>1. /\ inspecting = "scroll" /\ inspecting' = "judge"
        /\ metrics' \in Verdicts /\ layout' \in Verdicts \cup {"unmeasured"}
        /\ UNCHANGED <<widths, appMode, i, browser, found, merged, images, outDir, report, exit, run>>
    BY <1>3 DEF Scroll
  <2>2. InspectTypeOK'
    BY <1>0, <2>1 DEF InspectTypeOK
  <2>3. PicturesTaken(i - 1)' /\ ListedIn(Append(images, Picture(i))) /\ i <= Len(widths) /\ report.run # run
    BY <2>1, SamePictures DEF InspectInv
  <2>4. ListedIn(Append(images, Picture(i)))'
    BY <2>1, <2>3 DEF ListedIn, Picture, ScreenshotLabel
  <2> QED BY <2>1, <2>2, <2>3, <2>4 DEF InspectInv
<1>4. CASE AbortRun
  <2>1. /\ inspecting # "start" /\ inspecting # "done" /\ inspecting' = "done" /\ exit' = 1 /\ browser' = FALSE
        /\ report' = report \/ report' = NoReport
        /\ UNCHANGED <<widths, appMode, i, metrics, layout, found, merged, images, outDir, run>>
    BY <1>4 DEF AbortRun
  <2>2. /\ report'.run \in 0 .. InspectRuns /\ ToSet(report'.images) \subseteq [label : Labels, width : Widths]
        /\ report'.images \in Seq(Pictured) /\ report'.run <= run /\ report'.run # run
    <3>1. CASE report' = report
      BY <2>1, <3>1 DEF InspectInv, InspectTypeOK
    <3>2. CASE report' = NoReport
      <4>1. report'.run = 0 /\ report'.images = <<>>
        BY <3>2 DEF NoReport
      <4>2. ToSet(<<>>) = {}
        BY DEF ToSet
      <4>3. ToSet(report'.images) = {}
        BY <4>1, <4>2, Zenon
      <4>4. report'.run \in 0 .. InspectRuns /\ report'.run <= run /\ report'.run # run
        BY <1>0, <4>1, <2>1, InspectAssumption
      <4>5. report'.images \in Seq(Pictured)
        BY <4>1
      <4> QED BY <4>3, <4>4, <4>5
    <3> QED BY <2>1, <3>1, <3>2
  <2>3. InspectTypeOK'
    <3>1. exit' \in -1 .. 1
      BY <2>1
    <3> QED BY <1>0, <2>1, <2>2, <3>1 DEF InspectTypeOK
  <2>4. images' \in Seq(Pictured) /\ run' = run
    BY <2>1 DEF InspectInv
  <2> QED BY <2>1, <2>2, <2>3, <2>4 DEF InspectInv
<1> QED BY <1>1, <1>2, <1>3, <1>4

\* The picture of a width is stored under a name of its own, before it is listed.
LEMMA MeasureKeeps == InspectInv /\ Measure => InspectInv'
<1> SUFFICES ASSUME InspectInv, Measure PROVE InspectInv'
  OBVIOUS
<1> DEFINE here == ScreenshotLabel(widths[i])
           image == Picture(i)
           list  == Append(images, image)
<1>0. /\ InspectTypeOK /\ images \in Seq(Pictured) /\ inspecting = "measure" /\ i <= Len(widths) /\ PicturesTaken(i - 1) /\ exit # 0
      /\ DOMAIN outDir = {images[k].label : k \in 1 .. Len(images)}
      /\ \A k \in 1 .. Len(images) : outDir[images[k].label] = images[k].width
      /\ report.run # run
  BY DEF InspectInv, Measure, ListedIn
<1>1. /\ metrics' \in Verdicts
      /\ outDir' = [l \in DOMAIN outDir \cup {here} |-> IF l = here THEN widths[i] ELSE outDir[l]]
      /\ inspecting' = "scroll"
      /\ UNCHANGED <<widths, appMode, i, browser, layout, found, merged, images, report, exit, run>>
  BY DEF Measure
<1>2. /\ i \in 1 .. Len(widths) /\ Len(widths) \in 1 .. 2
      /\ \A n \in 1 .. Len(widths) : widths[n] \in Widths /\ ScreenshotLabel(widths[n]) \in Labels
      /\ \A n, m \in 1 .. Len(widths) : ScreenshotLabel(widths[n]) = ScreenshotLabel(widths[m]) => n = m
  BY <1>0, WidthsAndLabels DEF InspectTypeOK
<1>3. here \in Labels /\ widths[i] \in Widths
  BY <1>2
<1>4. image = [label |-> here, width |-> widths[i]] /\ image \in Pictured
  BY <1>3 DEF Picture, Pictured
<1> HIDE DEF here, image
<1>5. Len(images) = i - 1 /\ \A k \in 1 .. i - 1 : images[k] = [label |-> ScreenshotLabel(widths[k]), width |-> widths[k]]
  BY <1>0 DEF PicturesTaken, Picture
<1>6. /\ list \in Seq(Pictured) /\ Len(list) = i
      /\ \A k \in 1 .. i - 1 : list[k] = images[k]
      /\ list[i] = image
  BY <1>0, <1>2, <1>4, <1>5, AppendProperties
<1>7. ASSUME NEW k \in 1 .. i - 1 PROVE images[k].label \in Labels /\ images[k].label # here
  <2>1. k \in 1 .. Len(widths) /\ k # i
    BY <1>2
  <2>2. images[k].label = ScreenshotLabel(widths[k])
    BY <1>5
  <2> QED BY <1>2, <2>1, <2>2 DEF here
<1> HIDE DEF list
<1>8. DOMAIN outDir' = {list[k].label : k \in 1 .. i}
  <2>1. DOMAIN outDir' = DOMAIN outDir \cup {here}
    BY <1>1
  <2>2. list[i].label = here
    BY <1>4, <1>6
  <2>3. {list[k].label : k \in 1 .. i} = {images[k].label : k \in 1 .. i - 1} \cup {here}
    BY <1>2, <1>6, <2>2
  <2> QED BY <1>0, <1>5, <2>1, <2>3
<1>9. ASSUME NEW k \in 1 .. i PROVE outDir'[list[k].label] = list[k].width
  <2>1. CASE k = i
    <3>1. list[k].label = here /\ list[k].width = widths[i]
      BY <1>4, <1>6, <2>1
    <3> QED BY <1>1, <3>1
  <2>2. CASE k # i
    <3>1. k \in 1 .. i - 1
      BY <1>2, <2>2
    <3>2. images[k].label \in DOMAIN outDir /\ outDir[images[k].label] = images[k].width
      BY <1>0, <1>5, <3>1
    <3>3. images[k].label # here /\ list[k] = images[k]
      BY <1>6, <1>7, <3>1
    <3> QED BY <1>1, <3>2, <3>3
  <2> QED BY <2>1, <2>2
<1>10. ListedIn(Append(images, Picture(i)))'
  <2>1. Append(images, Picture(i))' = list
    BY <1>1 DEF list, image, Picture, ScreenshotLabel
  <2> QED BY <1>6, <1>8, <1>9, <2>1 DEF ListedIn
<1>11. \A label \in DOMAIN outDir' : label \in Labels /\ outDir'[label] \in Widths
  BY <1>0, <1>1, <1>3 DEF InspectTypeOK
<1>12. InspectTypeOK'
  BY <1>0, <1>1, <1>11 DEF InspectTypeOK
<1>13. PicturesTaken(i - 1)'
  BY <1>0, <1>1 DEF PicturesTaken, Picture, ScreenshotLabel
<1> QED BY <1>0, <1>1, <1>10, <1>12, <1>13 DEF InspectInv

\* The verdicts of a width are appended to those found before it, and its picture to the list.
LEMMA JudgeKeeps == InspectInv /\ Judge => InspectInv'
<1> SUFFICES ASSUME InspectInv, Judge PROVE InspectInv'
  OBVIOUS
<1>0. /\ InspectTypeOK /\ inspecting = "judge" /\ i <= Len(widths) /\ PicturesTaken(i - 1) /\ exit # 0
      /\ ListedIn(Append(images, Picture(i))) /\ images \in Seq(Pictured) /\ report.run # run
  BY DEF InspectInv, Judge
<1>1. PICK moving \in Verdicts : found' = found \o Judged(moving)
  BY DEF Judge
<1>2. /\ i' = i + 1 /\ inspecting' = IF i < Len(widths) THEN "open" ELSE "reduced"
      /\ images' = Append(images, Picture(i))
      /\ UNCHANGED <<widths, appMode, browser, metrics, layout, merged, outDir, report, exit, run>>
  BY DEF Judge, Picture
<1>3. /\ i \in 1 .. Len(widths) /\ Len(widths) \in 1 .. 2 /\ widths[i] \in Widths
      /\ ScreenshotLabel(widths[i]) \in Labels
  BY <1>0, WidthsAndLabels DEF InspectTypeOK
<1>4. ASSUME NEW id \in Rules, NEW verdict PROVE Finding(id, verdict) \in Seq(Findings)
  <2>1. verdict \in Levels => [id |-> id, level |-> verdict, width |-> widths[i]] \in Findings
    BY <1>3 DEF Findings
  <2> QED BY <2>1 DEF Finding
<1>5. Judged(moving) \in Seq(Findings)
  <2>1. Finding("contrast", metrics) \in Seq(Findings) /\ Finding("blank-gap", layout) \in Seq(Findings)
        /\ Finding("still-page", moving) \in Seq(Findings)
    BY <1>4 DEF Rules
  <2>2. (IF ViewportClass(widths[i]) = "desktop" /\ ~appMode THEN Finding("still-page", moving) ELSE <<>>) \in Seq(Findings)
    BY <2>1
  <2> HIDE DEF Finding
  <2>3. Finding("contrast", metrics) \o Finding("blank-gap", layout) \in Seq(Findings)
    BY <2>1, ConcatProperties
  <2> QED BY <2>2, <2>3, ConcatProperties DEF Judged
<1>6. found' \in Seq(Findings)
  BY <1>0, <1>1, <1>5, ConcatProperties DEF InspectTypeOK
<1>7. i' \in 1 .. Len(widths) + 1 /\ inspecting' \in {"open", "reduced"}
  BY <1>2, <1>3
<1>8. /\ images' \in Seq(Pictured) /\ Len(images') = i /\ images'[i] = Picture(i)
      /\ \A k \in 1 .. i - 1 : images'[k] = Picture(k)
  <2>1. Picture(i) \in Pictured
    BY <1>3 DEF Picture, Pictured
  <2>2. Len(images) = i - 1 /\ \A k \in 1 .. i - 1 : images[k] = Picture(k)
    BY <1>0 DEF PicturesTaken
  <2> HIDE DEF Picture
  <2> QED BY <1>0, <1>2, <1>3, <2>1, <2>2, AppendProperties
<1>9. InspectTypeOK'
  <2>1. ToSet(images') \subseteq [label : Labels, width : Widths]
    <3>1. DOMAIN images' = 1 .. Len(images') /\ \A k \in 1 .. Len(images') : images'[k] \in Pictured
      BY <1>8, LenProperties, ElementOfSeq
    <3> QED BY <3>1 DEF ToSet, Pictured
  <2> QED BY <1>0, <1>2, <1>6, <1>7, <2>1 DEF InspectTypeOK
<1>10. PicturesTaken(i - 1)'
  <2>1. i' - 1 = i /\ widths' = widths /\ \A k : Picture(k)' = Picture(k)
    BY <1>2, <1>3 DEF Picture, ScreenshotLabel
  <2>2. \A k \in 1 .. i : images'[k] = Picture(k)
    BY <1>3, <1>8
  <2> QED BY <1>3, <1>8, <2>1, <2>2 DEF PicturesTaken
<1>11. ListedIn(images)'
  BY <1>0, <1>2 DEF ListedIn
<1>12. CASE i < Len(widths)
  <2>1. inspecting' = "open" /\ i' <= Len(widths')
    BY <1>2, <1>3, <1>12
  <2> QED BY <1>0, <1>2, <1>8, <1>9, <1>10, <1>11, <2>1 DEF InspectInv
<1>13. CASE ~(i < Len(widths))
  <2>1. inspecting' = "reduced" /\ i' = Len(widths') + 1 /\ i' - 1 = Len(widths')
    BY <1>2, <1>3, <1>13
  <2>2. PicturesTaken(Len(widths))'
    BY <1>10, <2>1 DEF PicturesTaken
  <2> QED BY <1>0, <1>2, <1>8, <1>9, <1>11, <2>1, <2>2 DEF InspectInv
<1> QED BY <1>12, <1>13

\* The pass with reduced motion takes no picture; what stays hidden is one more finding.
LEMMA ReducedKeeps == InspectInv /\ Reduced => InspectInv'
<1> SUFFICES ASSUME InspectInv, Reduced PROVE InspectInv'
  OBVIOUS
<1>0. /\ InspectTypeOK /\ inspecting = "reduced" /\ i = Len(widths) + 1 /\ PicturesTaken(Len(widths)) /\ exit # 0
      /\ ListedIn(images) /\ report.run # run
  BY DEF InspectInv, Reduced
<1>1. /\ browser' = FALSE /\ inspecting' = "merge"
      /\ UNCHANGED <<widths, appMode, i, metrics, layout, merged, images, outDir, report, exit, run>>
  BY DEF Reduced
<1>6. \/ found' = found
      \/ found' = Append(found, [id |-> "reduced-hidden", level |-> "FAIL", width |-> 1440])
  BY DEF Reduced
<1>2. [id |-> "reduced-hidden", level |-> "FAIL", width |-> 1440] \in Findings
  BY DEF Findings, Rules, Levels, Widths
<1>3. found' \in Seq(Findings)
  BY <1>0, <1>2, <1>6, AppendProperties DEF InspectTypeOK
<1>4. InspectTypeOK'
  BY <1>0, <1>1, <1>3 DEF InspectTypeOK
<1>5. PicturesTaken(Len(widths))' /\ ListedIn(images)'
  BY <1>0, <1>1, SamePictures DEF PicturesTaken
<1> QED BY <1>0, <1>1, <1>4, <1>5 DEF InspectInv

\* Code 0 is about the merged findings; the merge keeps a failure if there is one.
LEMMA ReportKeeps == InspectInv /\ ReportRun => InspectInv'
<1> SUFFICES ASSUME InspectInv, ReportRun PROVE InspectInv'
  OBVIOUS
<1>0. /\ InspectTypeOK /\ inspecting = "merge" /\ i = Len(widths) + 1 /\ PicturesTaken(Len(widths))
      /\ ListedIn(images) /\ images \in Seq(Pictured) /\ run \in 1 .. InspectRuns
  BY DEF InspectInv, InspectTypeOK, ReportRun
<1>1. /\ merged' = Merge(found) /\ inspecting' = "done"
      /\ exit' = IF \E f \in merged' : f.level = "FAIL" THEN 1 ELSE 0
      /\ report' = [run |-> run, images |-> images]
      /\ UNCHANGED <<widths, appMode, i, browser, metrics, layout, found, images, outDir, run>>
  BY DEF ReportRun
<1>2. found \in Seq(Findings) /\ \A n \in DOMAIN found : found[n] \in Findings
  BY <1>0, LenProperties DEF InspectTypeOK
<1>3. merged' \subseteq Findings
  BY <1>1, <1>2 DEF Merge
<1>4. exit' \in -1 .. 1
  BY <1>1
<1>5. InspectTypeOK'
  <2>1. report'.run = run /\ report'.images = images
    BY <1>1
  <2> QED BY <1>0, <1>1, <1>3, <1>4, <2>1 DEF InspectTypeOK
<1>6. exit' = 0 => \A f \in ToSet(found) : f.level # "FAIL"
  BY <1>1, <1>2, MergeKeepsLevels
<1>7. Len(images) = Len(widths) /\ ListedIn(report.images)' /\ report'.images \in Seq(Pictured) /\ report'.run = run'
  BY <1>0, <1>1 DEF PicturesTaken, ListedIn
<1> QED BY <1>0, <1>1, <1>5, <1>6, <1>7 DEF InspectInv

\* The next run starts over; only the folder keeps what the last one left.
LEMMA AgainKeeps == InspectInv /\ Again => InspectInv'
<1> SUFFICES ASSUME InspectInv, Again PROVE InspectInv'
  OBVIOUS
<1>0. /\ InspectTypeOK /\ inspecting = "done" /\ run < InspectRuns /\ run \in 1 .. InspectRuns
      /\ report.run \in 0 .. InspectRuns /\ report.run <= run /\ report.images \in Seq(Pictured)
  BY DEF InspectInv, InspectTypeOK, Again
<1>1. /\ widths' \in WidthRequests /\ appMode' \in BOOLEAN
      /\ i' = 1 /\ inspecting' = "start" /\ metrics' = "clean" /\ layout' = "clean"
      /\ found' = <<>> /\ merged' = {} /\ images' = <<>> /\ exit' = -1
      /\ run' = run + 1
      /\ UNCHANGED <<browser, outDir, report>>
  BY DEF Again
<1>2. Len(widths') \in 1 .. 2
  BY <1>1 DEF WidthRequests
<1>3. i' \in 1 .. Len(widths') + 1 /\ exit' \in -1 .. 1 /\ run' \in 1 .. InspectRuns
  BY <1>0, <1>1, <1>2, InspectAssumption DEF InspectTypeOK
<1>4. ToSet(images') = {} /\ Len(images') = 0
  BY <1>1 DEF ToSet
<1>5. metrics' \in Verdicts /\ layout' \in Verdicts \cup {"unmeasured"} /\ found' \in Seq(Findings)
  BY <1>1 DEF Verdicts
<1>6. ToSet(images') \subseteq [label : Labels, width : Widths]
  BY <1>4
<1>7. InspectTypeOK'
  BY <1>0, <1>1, <1>3, <1>5, <1>6 DEF InspectTypeOK
<1>8. PicturesTaken(i - 1)'
  BY <1>1, <1>2, <1>4 DEF PicturesTaken
<1>9. images' \in Seq(Pictured) /\ report'.images \in Seq(Pictured)
  BY <1>0, <1>1
<1>10. i' <= Len(widths') /\ exit' # 0 /\ report'.run <= run' /\ report'.run # run'
  <2>1. report'.run = report.run /\ run' = run + 1
    BY <1>1
  <2>2. report'.run <= run' /\ report'.run # run'
    BY <1>0, <2>1, InspectAssumption
  <2>3. i' <= Len(widths') /\ exit' # 0
    BY <1>1, <1>2
  <2> QED BY <2>2, <2>3
<1>11. report'.run = run' - 1 => ListedIn(report.images)'
  <2> SUFFICES ASSUME report'.run = run' - 1 PROVE ListedIn(report.images)'
    OBVIOUS
  <2>1. report.run = run
    BY <1>0, <1>1, InspectAssumption
  <2>2. ListedIn(report.images)
    BY <2>1 DEF InspectInv
  <2> QED BY <1>1, <2>2 DEF ListedIn
<1> QED BY <1>1, <1>7, <1>8, <1>9, <1>10, <1>11 DEF InspectInv

\* Every step keeps the invariant.
LEMMA InspectInvKept == InspectInv /\ [InspectNext]_inspectVars => InspectInv'
<1> SUFFICES ASSUME InspectInv, InspectNext \/ UNCHANGED inspectVars PROVE InspectInv'
  OBVIOUS
<1>1. CASE UNCHANGED inspectVars
  <2>1. InspectTypeOK'
    BY <1>1 DEF inspectVars, InspectInv, InspectTypeOK
  <2>2. /\ PicturesTaken(i - 1) => PicturesTaken(i - 1)'
        /\ PicturesTaken(Len(widths)) => PicturesTaken(Len(widths))'
        /\ ListedIn(images) => ListedIn(images)'
        /\ ListedIn(report.images) => ListedIn(report.images)'
        /\ ListedIn(Append(images, Picture(i))) => ListedIn(Append(images, Picture(i)))'
    BY <1>1 DEF inspectVars, PicturesTaken, ListedIn, Picture, ScreenshotLabel
  <2> QED BY <1>1, <2>1, <2>2 DEF inspectVars, InspectInv
<1> QED BY <1>1, QuietSteps, MeasureKeeps, JudgeKeeps, ReducedKeeps, ReportKeeps, AgainKeeps DEF InspectNext

\* Code 0 of inspect.mjs means that nothing failed, and a report lists its own pictures.
LEMMA InspectIsSafe == InspectInv => CodeZeroMeansClean /\ PicturesMatchReport
<1> SUFFICES ASSUME InspectInv PROVE CodeZeroMeansClean /\ PicturesMatchReport
  OBVIOUS
<1>1. CodeZeroMeansClean
  BY DEF InspectInv, CodeZeroMeansClean
<1>2. ASSUME ListedIn(report.images)
      PROVE  /\ DOMAIN outDir = {image.label : image \in ToSet(report.images)}
             /\ \A image \in ToSet(report.images) : outDir[image.label] = image.width
  <2>1. DOMAIN report.images = 1 .. Len(report.images)
    BY LenProperties DEF InspectInv
  <2>2. ToSet(report.images) = {report.images[k] : k \in 1 .. Len(report.images)}
    BY <2>1 DEF ToSet
  <2> QED BY <1>2, <2>2 DEF ListedIn
<1>3. report.run = run \/ (report.run = run - 1 /\ inspecting = "start") => ListedIn(report.images)
  BY DEF InspectInv
<1> QED BY <1>1, <1>2, <1>3 DEF PicturesMatchReport

-------------------------------------------------------------------------------
\* cdp.mjs keeps the browser profiles of its runs apart.

\* A folder named by one process only hides a Chrome: it may be swept under it.
ProfilesInv ==
  /\ ProfilesTypeOK /\ LiveKeepsProfile
  /\ \A r \in BrowserRuns : profileDir[r] = "run" /\ chrome[r] = "running" => r \in unnamed
  /\ \A r \in BrowserRuns : node[r] \in {"new", "swept"} => profileDir[r] = "absent"
  /\ \A r \in BrowserRuns : node[r] \in {"new", "swept", "made", "claimed"} => chrome[r] # "running"

\* The invariant holds at the start.
LEMMA ProfilesInitInv == ProfilesInit => ProfilesInv
  BY DEF ProfilesInit, ProfilesInv, ProfilesTypeOK, LiveKeepsProfile, Alive, Folder

\* A sweep takes the folders of runs that have ended; every other step touches its own folder.
LEMMA ProfilesInvKept == ProfilesInv /\ [ProfilesNext]_profileVars => ProfilesInv'
<1> USE DEF Alive, Folder
<1> SUFFICES ASSUME ProfilesInv, ProfilesNext \/ UNCHANGED profileVars PROVE ProfilesInv'
  OBVIOUS
<1>1. CASE UNCHANGED profileVars
  BY <1>1 DEF profileVars, ProfilesInv, ProfilesTypeOK, LiveKeepsProfile
<1>2. ASSUME NEW r \in BrowserRuns, SweepProfiles(r) PROVE ProfilesInv'
  <2>1. PICK swept \in SUBSET {p \in BrowserRuns : Abandoned(p)} :
          /\ profileDir' = [p \in BrowserRuns |-> IF p \in swept THEN "absent" ELSE profileDir[p]]
          /\ lost' = lost \cup swept
    BY <1>2 DEF SweepProfiles
  <2>2. ProfilesTypeOK'
    BY <1>2, <2>1 DEF SweepProfiles, ProfilesInv, ProfilesTypeOK
  <2>3. ASSUME NEW q \in lost' PROVE node'[q] \in {"ended", "killed"} /\ (chrome'[q] = "running" => q \in unnamed')
    <3>1. CASE q \in lost
      BY <1>2, <3>1 DEF SweepProfiles, ProfilesInv, ProfilesTypeOK, LiveKeepsProfile
    <3>2. CASE q \in swept
      <4>1. q \in BrowserRuns /\ Abandoned(q)
        BY <2>1, <3>2
      <4>2. node[q] \in {"ended", "killed"} /\ q # r
        BY <1>2, <4>1 DEF Abandoned, SweepProfiles, ProfilesInv, ProfilesTypeOK
      <4>3. chrome[q] = "running" => q \in unnamed
        BY <4>1 DEF Abandoned, ProfilesInv
      <4> QED BY <1>2, <4>1, <4>2, <4>3 DEF SweepProfiles, ProfilesInv, ProfilesTypeOK
    <3> QED BY <2>1, <2>3, <3>1, <3>2
  <2>4. \A q \in BrowserRuns : /\ profileDir'[q] = "run" /\ chrome'[q] = "running" => q \in unnamed'
                               /\ node'[q] \in {"new", "swept"} => profileDir'[q] = "absent"
                               /\ node'[q] \in {"new", "swept", "made", "claimed"} => chrome'[q] # "running"
    BY <1>2, <2>1 DEF SweepProfiles, ProfilesInv, ProfilesTypeOK
  <2> QED BY <2>2, <2>3, <2>4 DEF ProfilesInv, LiveKeepsProfile
<1>3. ASSUME NEW r \in BrowserRuns,
             \/ MakeProfile(r) \/ Claim(r) \/ Spawn(r) \/ ClaimChrome(r) \/ ConnectDevTools(r) \/ CloseBrowser(r)
             \/ Drop(r) \/ Killed(r) \/ ChromeCrashes(r)
      PROVE  ProfilesInv'
  <2>1. CASE MakeProfile(r)
    BY <2>1 DEF MakeProfile, ProfilesInv, ProfilesTypeOK, LiveKeepsProfile
  <2>2. CASE Claim(r)
    BY <2>2 DEF Claim, ProfilesInv, ProfilesTypeOK, LiveKeepsProfile
  <2>3. CASE Spawn(r)
    BY <2>3 DEF Spawn, ProfilesInv, ProfilesTypeOK, LiveKeepsProfile
  <2>4. CASE ClaimChrome(r)
    BY <2>4 DEF ClaimChrome, ProfilesInv, ProfilesTypeOK, LiveKeepsProfile
  <2>5. CASE ConnectDevTools(r)
    BY <2>5 DEF ConnectDevTools, ProfilesInv, ProfilesTypeOK, LiveKeepsProfile
  <2>6. CASE CloseBrowser(r)
    BY <2>6 DEF CloseBrowser, ProfilesInv, ProfilesTypeOK, LiveKeepsProfile
  <2>7. CASE Killed(r)
    BY <2>7 DEF Killed, ProfilesInv, ProfilesTypeOK, LiveKeepsProfile
  <2>8. CASE ChromeCrashes(r)
    BY <2>8 DEF ChromeCrashes, ProfilesInv, ProfilesTypeOK, LiveKeepsProfile
  <2>9. CASE Drop(r)
    BY <2>9 DEF Drop, ProfilesInv, ProfilesTypeOK, LiveKeepsProfile
  <2> QED BY <1>3, <2>1, <2>2, <2>3, <2>4, <2>5, <2>6, <2>7, <2>8, <2>9
<1> QED BY <1>1, <1>2, <1>3 DEF ProfilesNext

-------------------------------------------------------------------------------
\* stage.js runs the scenes of a page, and scenes.mjs judges them.

\* What the script knows of the desktop while it is there, and what the reader's page can show.
ScenesInv ==
  /\ ScenesTypeOK
  /\ MotionIsAsked
  /\ ~gsap => \A s \in 1 .. Scenes : "is-live" \notin classes[s]
  /\ visit = "desktop" =>
       /\ media = {"motion"}
       /\ started = Scenes + 1 => thrown = TRUE
       /\ \A s \in 1 .. Scenes : s <= started =>
            IF gsap THEN plans[s].throws = TRUE => thrown = TRUE ELSE "is-rest" \in classes[s]
  /\ visit \in {"phone", "over"} => problems # {} \/ \A s \in 1 .. Scenes : plans[s].throws = FALSE
  /\ visit # "over" => exitCode = NoCode
  /\ visit = "over" => (exitCode = 0 <=> problems = {})

\* The invariant holds at the start.
LEMMA ScenesInitInv == ScenesInit => ScenesInv
<1> SUFFICES ASSUME ScenesInit PROVE ScenesInv
  OBVIOUS
<1>1. media \subseteq Media /\ (visit = "desktop" => media = {"motion"})
  BY DEF ScenesInit, Media, MediaOf
<1>2. ScenesTypeOK
  <2>1. classes \in [1 .. Scenes -> SUBSET {"is-live", "is-rest"}] /\ plans \in [1 .. Scenes -> Plans]
    BY DEF ScenesInit
  <2>2. started \in 0 .. Scenes + 1 /\ exitCode \in {0, 1, NoCode}
    BY ScenesAssumption DEF ScenesInit
  <2>3. gsap \in BOOLEAN /\ thrown \in BOOLEAN /\ problems = {} /\ visit \in {"reader", "desktop"}
    BY DEF ScenesInit
  <2> QED BY <1>1, <2>1, <2>2, <2>3 DEF ScenesTypeOK
<1>3. MotionIsAsked /\ \A s \in 1 .. Scenes : "is-live" \notin classes[s]
  BY DEF ScenesInit, MotionIsAsked
<1>4. started = 0 /\ exitCode = NoCode /\ visit \in {"reader", "desktop"}
  BY DEF ScenesInit
<1> QED BY <1>1, <1>2, <1>3, <1>4, ScenesAssumption DEF ScenesInv

\* stage.js gives a scene one class at a time, and the live one only where motion is allowed.
LEMMA ClassIsOne ==
  ASSUME NEW s, NEW m
  PROVE  /\ ClassGiven(s, m) \in {{}, {"is-rest"}, {"is-live"}}
         /\ ClassGiven(s, m) = {"is-live"} => "motion" \in m
         /\ m = {"motion"} => ClassGiven(s, m) = {"is-live"}
  BY DEF ClassGiven

\* Every step keeps the invariant.
LEMMA ScenesInvKept == ScenesInv /\ [ScenesNext]_sceneVars => ScenesInv'
<1> SUFFICES ASSUME ScenesInv, ScenesNext \/ UNCHANGED sceneVars PROVE ScenesInv'
  OBVIOUS
<1>0. Scenes \in Nat /\ ScenesTypeOK /\ started \in Nat
  BY ScenesAssumption DEF ScenesInv, ScenesTypeOK
<1>1. CASE UNCHANGED sceneVars
  BY <1>1 DEF sceneVars, ScenesInv, ScenesTypeOK, MotionIsAsked, Loaded
<1>2. CASE StartScene
  <2> DEFINE s == started + 1
             given == IF gsap THEN ClassGiven(s, media) ELSE {"is-rest"}
  <2>1. /\ s \in 1 .. Scenes /\ visit # "over"
        /\ classes' = [classes EXCEPT ![s] = given]
        /\ UNCHANGED <<visit, gsap, media, plans, problems, exitCode>>
    BY <1>0, <1>2 DEF StartScene, Loaded, ScenesTypeOK
  <2>2. IF gsap /\ ClassGiven(s, media) = {"is-live"} /\ plans[s].throws
        THEN started' = Scenes + 1 /\ thrown' = TRUE ELSE started' = s /\ thrown' = thrown
    BY <1>2 DEF StartScene, Throws
  <2>3. /\ given \in SUBSET {"is-live", "is-rest"}
        /\ "is-live" \in given => gsap /\ "motion" \in media
        /\ ~gsap => "is-rest" \in given
        /\ gsap /\ media = {"motion"} => given = {"is-live"} /\ given = ClassGiven(s, media)
    BY ClassIsOne
  <2>4. classes' \in [1 .. Scenes -> SUBSET {"is-live", "is-rest"}]
    BY <1>0, <2>1, <2>3 DEF ScenesTypeOK
  <2>5. \A t \in 1 .. Scenes : classes'[t] = IF t = s THEN given ELSE classes[t]
    BY <1>0, <2>1 DEF ScenesTypeOK
  <2> HIDE DEF given, s
  <2>6. plans[s].throws \in BOOLEAN
    BY <1>0, <2>1 DEF ScenesTypeOK, Plans
  <2>7. started' \in 0 .. Scenes + 1 /\ thrown' \in BOOLEAN
    <3>1. CASE gsap /\ ClassGiven(s, media) = {"is-live"} /\ plans[s].throws
      BY <1>0, <2>2, <3>1
    <3>2. CASE ~(gsap /\ ClassGiven(s, media) = {"is-live"} /\ plans[s].throws)
      <4>1. started' = s /\ thrown' = thrown
        BY <2>2, <3>2
      <4> QED BY <1>0, <2>1, <4>1 DEF ScenesTypeOK
    <3> QED BY <3>1, <3>2
  <2>8. ScenesTypeOK'
    BY <1>0, <2>1, <2>4, <2>7 DEF ScenesTypeOK
  <2>9. MotionIsAsked' /\ (~gsap => \A t \in 1 .. Scenes : "is-live" \notin classes'[t])
    BY <2>1, <2>3, <2>5 DEF ScenesInv, MotionIsAsked
  <2>10. ASSUME visit = "desktop"
         PROVE  /\ media = {"motion"}
                /\ started' = Scenes + 1 => thrown' = TRUE
                /\ \A t \in 1 .. Scenes : t <= started' =>
                     IF gsap THEN plans[t].throws = TRUE => thrown' = TRUE ELSE "is-rest" \in classes'[t]
    <3>1. media = {"motion"}
      BY <2>10 DEF ScenesInv
    <3>2. started' = Scenes + 1 => thrown' = TRUE
      BY <1>0, <2>1, <2>2 
    <3>3. ASSUME NEW t \in 1 .. Scenes, t <= started', gsap, plans[t].throws = TRUE PROVE thrown' = TRUE
      <4>1. CASE t <= started
        BY <2>2, <2>10, <3>3, <4>1 DEF ScenesInv
      <4>2. CASE t = s
        BY <2>2, <2>3, <3>1, <3>3, <4>2
      <4>3. CASE t > s
        <5>1. started' # s
          BY <1>0, <2>1, <3>3, <4>3
        <5>2. CASE gsap /\ ClassGiven(s, media) = {"is-live"} /\ plans[s].throws
          BY <2>2, <5>2
        <5>3. CASE ~(gsap /\ ClassGiven(s, media) = {"is-live"} /\ plans[s].throws)
          <6>1. started' = s
            BY <2>2, <5>3
          <6> QED BY <5>1, <6>1
        <5> QED BY <5>2, <5>3
      <4>4. t <= started \/ t = s \/ t > s
        BY <1>0 DEF s
      <4> QED BY <4>1, <4>2, <4>3, <4>4
    <3>4. ASSUME NEW t \in 1 .. Scenes, t <= started', ~gsap PROVE "is-rest" \in classes'[t]
      <4>1. started' = s
        BY <2>2, <3>4
      <4>2. CASE t <= started
        <5>1. "is-rest" \in classes[t]
          BY <2>10, <3>4, <4>2 DEF ScenesInv
        <5> QED BY <2>3, <2>5, <3>4, <5>1
      <4>3. CASE t = s
        BY <2>3, <2>5, <3>4, <4>3
      <4> QED BY <1>0, <3>4, <4>1, <4>2, <4>3 DEF s
    <3> QED BY <3>1, <3>2, <3>3, <3>4
  <2> QED BY <2>1, <2>8, <2>9, <2>10 DEF ScenesInv
<1>3. CASE MediaChange
  <2>1. /\ visit = "reader" /\ media' \in SUBSET Media
        /\ classes' = [s \in 1 .. Scenes |-> IF Watched(s) THEN After(s, media') ELSE classes[s]]
        /\ UNCHANGED <<visit, gsap, plans, started, problems, exitCode>>
    BY <1>3 DEF MediaChange
  <2>2. thrown' \in BOOLEAN
    BY <1>0, <1>3 DEF MediaChange, ScenesTypeOK
  <2>3. ASSUME NEW s \in 1 .. Scenes
        PROVE  /\ classes'[s] \in SUBSET {"is-live", "is-rest"}
               /\ "is-live" \in classes'[s] => "motion" \in media' \/ plans[s].throws
               /\ ~gsap => "is-live" \notin classes'[s]
    <3>1. classes[s] \in SUBSET {"is-live", "is-rest"} /\ plans[s].throws \in BOOLEAN
      BY <1>0 DEF ScenesTypeOK, Plans
    <3>2. CASE Watched(s)
      <4>1. classes'[s] = After(s, media') /\ gsap
        BY <2>1, <3>2 DEF Watched
      <4> QED BY <3>1, <4>1, ClassIsOne DEF After, Throws
    <3>3. CASE ~Watched(s)
      <4>1. classes'[s] = classes[s] /\ (~gsap \/ classes[s] = {})
        BY <2>1, <3>3 DEF Watched
      <4> QED BY <3>1, <4>1 DEF ScenesInv
    <3> QED BY <3>2, <3>3
  <2>4. ScenesTypeOK'
    BY <1>0, <2>1, <2>2, <2>3 DEF ScenesTypeOK
  <2>5. MotionIsAsked'
    BY <2>1, <2>3 DEF MotionIsAsked
  <2> QED BY <2>1, <2>3, <2>4, <2>5 DEF ScenesInv
<1>4. ASSUME Loaded, visit = "desktop", problems' = problems \cup PageProblems, UNCHANGED plans
      PROVE  problems' # {} \/ \A s \in 1 .. Scenes : plans[s].throws = FALSE
  <2> SUFFICES ASSUME NEW s \in 1 .. Scenes, plans[s].throws # FALSE PROVE PageProblems # {}
    BY <1>4
  <2>1. plans[s].throws = TRUE
    BY <1>0 DEF ScenesTypeOK, Plans
  <2>2. s <= started
    BY <1>0, <1>4 DEF Loaded
  <2>3. CASE gsap
    <3>1. thrown = TRUE
      BY <1>4, <2>1, <2>2, <2>3 DEF ScenesInv
    <3> QED BY <3>1 DEF PageProblems
  <2>4. CASE ~gsap
    <3>1. "is-rest" \in classes[s]
      BY <1>4, <2>2, <2>4 DEF ScenesInv
    <3> QED BY <1>4, <3>1 DEF PageProblems, PageProblems_Classes
  <2> QED BY <2>3, <2>4
<1>5. visit \in {"desktop", "phone"} => PageProblems \subseteq {"desktop", "phone"} \X {"never", "rest", "console"}
  BY DEF PageProblems, PageProblems_Classes
<1>6. CASE Photographed
  <2>1. /\ visit = "desktop" /\ Loaded /\ problems' = problems \cup PageProblems
        /\ visit' = "phone" /\ gsap' \in BOOLEAN /\ media' = MediaOf.phone
        /\ classes' = [s \in 1 .. Scenes |-> {}] /\ started' = 0 /\ thrown' = FALSE
        /\ UNCHANGED <<plans, exitCode>>
    BY <1>6 DEF Photographed, Loads
  <2>2. MediaOf.phone = Media
    BY DEF MediaOf
  <2>3. ScenesTypeOK'
    <3>1. problems' \subseteq {"desktop", "phone"} \X {"never", "rest", "console"}
      BY <1>0, <1>5, <2>1 DEF ScenesTypeOK
    <3>2. classes' \in [1 .. Scenes -> SUBSET {"is-live", "is-rest"}]
      BY <2>1
    <3>3. started' \in 0 .. Scenes + 1 /\ media' \subseteq Media
      BY <1>0, <2>1, <2>2
    <3> QED BY <1>0, <2>1, <3>1, <3>2, <3>3 DEF ScenesTypeOK
  <2>4. MotionIsAsked' /\ (~gsap' => \A s \in 1 .. Scenes : "is-live" \notin classes'[s])
    BY <2>1 DEF MotionIsAsked
  <2>5. problems' # {} \/ \A s \in 1 .. Scenes : plans'[s].throws = FALSE
    BY <1>4, <2>1
  <2>6. exitCode' = NoCode
    BY <2>1 DEF ScenesInv
  <2> QED BY <2>1, <2>3, <2>4, <2>5, <2>6 DEF ScenesInv
<1>7. CASE Result
  <2>1. /\ visit = "phone" /\ problems' = problems \cup PageProblems
        /\ exitCode' = IF problems' = {} THEN 0 ELSE 1
        /\ visit' = "over"
        /\ UNCHANGED <<gsap, media, plans, classes, started, thrown>>
    BY <1>7 DEF Result
  <2>2. ScenesTypeOK' /\ MotionIsAsked'
    BY <1>0, <1>5, <2>1 DEF ScenesTypeOK, ScenesInv, MotionIsAsked
  <2>3. problems # {} \/ \A s \in 1 .. Scenes : plans[s].throws = FALSE
    BY <2>1 DEF ScenesInv
  <2>4. problems' # {} \/ \A s \in 1 .. Scenes : plans'[s].throws = FALSE
    BY <2>1, <2>3
  <2> QED BY <2>1, <2>2, <2>4 DEF ScenesInv
<1> QED BY <1>1, <1>2, <1>3, <1>6, <1>7 DEF ScenesNext

\* MotionIsAsked is a conjunct; a scene that throws is a problem of one of the visits.
LEMMA ScenesAreSafe == ScenesInv => MotionIsAsked /\ ZeroMeansRan
  BY DEF ScenesInv, ZeroMeansRan, ScenesTypeOK, NoCode

-------------------------------------------------------------------------------
\* The client of cdp.mjs speaks with Chrome over one connection.

\* What a queue holds after it is lengthened and shortened.
LEMMA QueueContents ==
  ASSUME NEW S, NEW w \in Seq(S)
  PROVE  /\ \A e \in S : ToSet(Append(w, e)) = ToSet(w) \cup {e} /\ Append(w, e) \in Seq(S)
         /\ w # <<>> => /\ ToSet(w) = ToSet(Tail(w)) \cup {Head(w)}
                        /\ Tail(w) \in Seq(S) /\ Head(w) \in S
<1>1. ASSUME NEW e \in S PROVE ToSet(Append(w, e)) = ToSet(w) \cup {e} /\ Append(w, e) \in Seq(S)
  <2>1. /\ Append(w, e) \in Seq(S) /\ Len(Append(w, e)) = Len(w) + 1 /\ Len(w) \in Nat
        /\ \A n \in 1 .. Len(w) : Append(w, e)[n] = w[n]
        /\ Append(w, e)[Len(w) + 1] = e
        /\ DOMAIN w = 1 .. Len(w) /\ DOMAIN Append(w, e) = 1 .. Len(w) + 1
    BY AppendProperties, LenProperties
  <2> QED BY <2>1, SMT DEF ToSet
<1>2. ASSUME w # <<>>
      PROVE ToSet(w) = ToSet(Tail(w)) \cup {Head(w)} /\ Tail(w) \in Seq(S) /\ Head(w) \in S
  <2>1. /\ Head(w) \in S /\ Tail(w) \in Seq(S) /\ Len(Tail(w)) = Len(w) - 1
        /\ \A n \in 1 .. Len(Tail(w)) : Tail(w)[n] = w[n + 1]
    BY <1>2, HeadTailProperties
  <2>2. Len(w) \in Nat \ {0} /\ DOMAIN w = 1 .. Len(w) /\ DOMAIN Tail(w) = 1 .. Len(w) - 1
    BY <1>2, <2>1, LenProperties, EmptySeq
  <2>3. Head(w) = w[1]
    BY <1>2
  <2>4. ASSUME NEW x \in ToSet(w) PROVE x \in ToSet(Tail(w)) \cup {Head(w)}
    <3>1. PICK n \in 1 .. Len(w) : x = w[n]
      BY <2>2 DEF ToSet
    <3>2. CASE n = 1
      BY <2>3, <3>1, <3>2
    <3>3. CASE n # 1
      <4>1. n - 1 \in 1 .. Len(w) - 1 /\ Tail(w)[n - 1] = w[n]
        BY <2>1, <2>2, <3>1, <3>3
      <4> QED BY <2>2, <3>1, <4>1 DEF ToSet
    <3> QED BY <3>2, <3>3
  <2>5. ASSUME NEW x \in ToSet(Tail(w)) PROVE x \in ToSet(w)
    <3>1. PICK n \in 1 .. Len(w) - 1 : x = Tail(w)[n]
      BY <2>2, <2>5 DEF ToSet
    <3>2. x = w[n + 1] /\ n + 1 \in 1 .. Len(w)
      BY <2>1, <2>2, <3>1
    <3> QED BY <2>2, <3>2 DEF ToSet
  <2>6. Head(w) \in ToSet(w)
    BY <2>2, <2>3 DEF ToSet
  <2> QED BY <2>1, <2>4, <2>5, <2>6
<1> QED BY <1>1, <1>2

\* goto asks for one navigation, and nothing happens before it does.
ClientInv ==
  /\ ClientTypeOK
  /\ LoadNotLost /\ DialogAttended
  /\ goto = "none" => unanswered = {} /\ asked = {} /\ wire = <<>> /\ page = "blank"
  /\ \A r \in unanswered : r.for = "navigate" => goto = "navigating"
  /\ \A r, q \in unanswered : r.for = "navigate" /\ q.for = "navigate" => r = q

\* The invariant holds at the start.
LEMMA ClientInitInv == ClientInit => ClientInv
<1> SUFFICES ASSUME ClientInit PROVE ClientInv
  OBVIOUS
<1>1. ClientTypeOK
  <2>1. nextId \in 1 .. MaxRequests + 1
    BY ClientAssumption DEF ClientInit
  <2>2. wire \in Seq(Messages)
    BY DEF ClientInit
  <2> QED BY <2>1, <2>2 DEF ClientInit, ClientTypeOK
<1> QED BY <1>1 DEF ClientInit, ClientInv, LoadNotLost, DialogAttended

\* A sent is numbered and waits for its answer; Chrome has it if it is alive.
LEMMA Asks ==
  ASSUME ClientTypeOK, NEW what \in {"navigate", "handle", "evaluate"}, Ask(what)
  PROVE  LET sent == [id |-> nextId, for |-> what] IN
         /\ sent \in ClientRequests
         /\ nextId' \in 1 .. MaxRequests + 1
         /\ unanswered' = unanswered \cup {sent} /\ unanswered' \subseteq ClientRequests
         /\ asked \subseteq asked' /\ asked' \subseteq ClientRequests
         /\ alive = TRUE => sent \in asked'
<1>1. nextId \in 1 .. MaxRequests /\ nextId' = nextId + 1
  BY ClientAssumption DEF ClientTypeOK, Ask
<1>2. [id |-> nextId, for |-> what] \in ClientRequests
  BY <1>1 DEF ClientRequests
<1>3. nextId' \in 1 .. MaxRequests + 1
  BY <1>1, ClientAssumption
<1> QED BY <1>2, <1>3 DEF Ask, ClientTypeOK

\* What is on the wire after a message is put on it or taken off it.
LEMMA WireContents ==
  ASSUME ClientTypeOK, NEW m \in Messages
  PROVE  /\ wire' = Append(wire, m) => wire' \in Seq(Messages) /\ \A kind : OnWire(kind)' <=> OnWire(kind) \/ m.kind = kind
         /\ wire # <<>> /\ wire' = Tail(wire) =>
              /\ wire' \in Seq(Messages) /\ Head(wire) \in Messages
              /\ \A kind : OnWire(kind) <=> OnWire(kind)' \/ Head(wire).kind = kind
<1>1. wire \in Seq(Messages)
  BY DEF ClientTypeOK
<1>2. ASSUME wire' = Append(wire, m)
      PROVE  wire' \in Seq(Messages) /\ \A kind : OnWire(kind)' <=> OnWire(kind) \/ m.kind = kind
  <2>1. ToSet(wire') = ToSet(wire) \cup {m} /\ wire' \in Seq(Messages)
    BY <1>1, <1>2, QueueContents
  <2> QED BY <2>1 DEF OnWire
<1>3. ASSUME wire # <<>>, wire' = Tail(wire)
      PROVE  /\ wire' \in Seq(Messages) /\ Head(wire) \in Messages
             /\ \A kind : OnWire(kind) <=> OnWire(kind)' \/ Head(wire).kind = kind
  <2>1. ToSet(wire) = ToSet(wire') \cup {Head(wire)} /\ wire' \in Seq(Messages) /\ Head(wire) \in Messages
    BY <1>1, <1>3, QueueContents
  <2> QED BY <2>1 DEF OnWire
<1> QED BY <1>2, <1>3

\* The listener for the load is there before the page is told to navigate.
LEMMA GotoPageKeeps == ClientInv /\ GotoPage => ClientInv'
<1> SUFFICES ASSUME ClientInv, GotoPage PROVE ClientInv'
  OBVIOUS
<1>1. ClientTypeOK /\ Ask("navigate") /\ goto = "none" /\ goto' = "navigating" /\ UNCHANGED <<wire, loaded, page, dialog, alive>>
  BY DEF GotoPage, ClientInv
<1>2. /\ unanswered' = {[id |-> nextId, for |-> "navigate"]} /\ unanswered' \subseteq ClientRequests
      /\ asked \subseteq asked' /\ asked' \subseteq ClientRequests /\ nextId' \in 1 .. MaxRequests + 1
  BY <1>1, Asks DEF ClientInv
<1>3. ClientTypeOK'
  BY <1>1, <1>2 DEF ClientTypeOK
<1>4. LoadNotLost' /\ DialogAttended'
  BY <1>1, <1>2 DEF ClientInv, LoadNotLost, DialogAttended, OnWire
<1> QED BY <1>1, <1>2, <1>3, <1>4 DEF ClientInv

\* An evaluation adds one request that waits.
LEMMA EvaluateKeeps == ClientInv /\ Evaluate => ClientInv'
<1> SUFFICES ASSUME ClientInv, Evaluate PROVE ClientInv'
  OBVIOUS
<1>1. ClientTypeOK /\ Ask("evaluate") /\ goto \in {"load", "timeout"} /\ UNCHANGED <<wire, goto, loaded, page, dialog, alive>>
  BY DEF Evaluate, ClientInv
<1>2. /\ unanswered' = unanswered \cup {[id |-> nextId, for |-> "evaluate"]} /\ unanswered' \subseteq ClientRequests
      /\ asked \subseteq asked' /\ asked' \subseteq ClientRequests /\ nextId' \in 1 .. MaxRequests + 1
  BY <1>1, Asks
<1>3. ClientTypeOK'
  BY <1>1, <1>2 DEF ClientTypeOK
<1>4. LoadNotLost' /\ DialogAttended'
  BY <1>1, <1>2 DEF ClientInv, LoadNotLost, DialogAttended, OnWire
<1> QED BY <1>1, <1>2, <1>3, <1>4 DEF ClientInv

\* An answer, an error or the end of the connection settles its own request only.
LEMMA SettleKeeps ==
  ASSUME ClientInv, NEW sent \in unanswered, NEW answered \in BOOLEAN, Settle(sent, answered),
         UNCHANGED <<nextId, asked, loaded, page, dialog, alive>>, wire' \in Seq(Messages),
         OnWire("load") <=> OnWire("load")', OnWire("dialog") <=> OnWire("dialog")'
  PROVE  ClientInv'
<1>1. /\ unanswered' = unanswered \ {sent}
      /\ goto' = IF sent.for # "navigate" THEN goto ELSE IF answered THEN "waiting" ELSE "failed"
  BY DEF Settle
<1>2. sent.for = "navigate" => goto = "navigating" /\ \A r \in unanswered' : r.for # "navigate"
  BY <1>1 DEF ClientInv
<1>3. goto # "none"
  BY DEF ClientInv
<1>4. ClientTypeOK'
  BY <1>1 DEF ClientInv, ClientTypeOK
<1>5. LoadNotLost' /\ DialogAttended'
  BY <1>1, <1>2 DEF ClientInv, LoadNotLost, DialogAttended
<1>6. \A r \in unanswered' : r.for = "navigate" => goto' = "navigating"
  BY <1>1, <1>2 DEF ClientInv
<1> QED BY <1>1, <1>3, <1>4, <1>5, <1>6 DEF ClientInv

\* A message is handled whole: the load is noted, a dialog is answered.
LEMMA ReceiveKeeps == ClientInv /\ Receive => ClientInv'
<1> SUFFICES ASSUME ClientInv, Receive PROVE ClientInv'
  OBVIOUS
<1> DEFINE m == Head(wire)
<1>0. /\ ClientTypeOK /\ wire # <<>> /\ wire' = Tail(wire) /\ UNCHANGED <<page, dialog, alive>>
      /\ ReceiveAnswer(m) \/ ReceiveLoad(m) \/ ReceiveDialog(m)
  BY DEF Receive, ClientInv
<1>1. /\ wire' \in Seq(Messages) /\ m \in Messages
      /\ \A kind : OnWire(kind) <=> OnWire(kind)' \/ m.kind = kind
  <2>1. [kind |-> "load", id |-> 0] \in Messages
    BY DEF Messages
  <2> QED BY <1>0, <2>1, WireContents
<1>2. goto # "none"
  BY <1>0 DEF ClientInv
<1> HIDE DEF m
<1>3. CASE ReceiveAnswer(m)
  <2>1. (OnWire("load") <=> OnWire("load")') /\ (OnWire("dialog") <=> OnWire("dialog")')
    BY <1>1, <1>3 DEF ReceiveAnswer
  <2>2. CASE \E sent \in unanswered : sent.id = m.id /\ Settle(sent, m.kind = "answer")
    <3>1. PICK sent \in unanswered : Settle(sent, m.kind = "answer")
      BY <2>2
    <3>2. (m.kind = "answer") \in BOOLEAN
      OBVIOUS
    <3>3. UNCHANGED <<nextId, asked, loaded>>
      BY <1>3 DEF ReceiveAnswer
    <3> QED BY <1>0, <1>1, <2>1, <3>1, <3>2, <3>3, SettleKeeps
  <2>3. CASE UNCHANGED <<unanswered, goto>>
    <3>1. UNCHANGED <<nextId, asked, loaded>>
      BY <1>3 DEF ReceiveAnswer
    <3>2. ClientTypeOK'
      BY <1>0, <1>1, <2>3, <3>1 DEF ClientTypeOK
    <3>3. LoadNotLost' /\ DialogAttended'
      BY <1>0, <2>1, <2>3, <3>1 DEF ClientInv, LoadNotLost, DialogAttended
    <3> QED BY <1>2, <2>3, <3>2, <3>3 DEF ClientInv
  <2> QED BY <1>3, <2>2, <2>3 DEF ReceiveAnswer
<1>4. CASE ReceiveLoad(m)
  <2>1. UNCHANGED <<nextId, unanswered, asked, goto>> /\ m.kind = "load"
    BY <1>4 DEF ReceiveLoad
  <2>2. loaded' \in BOOLEAN /\ (loaded = TRUE => loaded' = TRUE) /\ (goto \in {"navigating", "waiting"} => loaded' = TRUE)
    BY <1>0, <1>4 DEF ReceiveLoad, Listening, ClientTypeOK
  <2>3. OnWire("dialog") <=> OnWire("dialog")'
    BY <1>1, <2>1
  <2>4. ClientTypeOK'
    BY <1>0, <1>1, <2>1, <2>2 DEF ClientTypeOK
  <2>5. LoadNotLost' /\ DialogAttended'
    BY <1>0, <2>1, <2>2, <2>3 DEF ClientInv, LoadNotLost, DialogAttended
  <2> QED BY <1>2, <2>1, <2>4, <2>5 DEF ClientInv
<1>5. CASE ReceiveDialog(m)
  <2>1. Ask("handle") /\ UNCHANGED <<loaded, goto>> /\ m.kind = "dialog"
    BY <1>5 DEF ReceiveDialog
  <2> DEFINE sent == [id |-> nextId, for |-> "handle"]
  <2>2. /\ unanswered' = unanswered \cup {sent} /\ unanswered' \subseteq ClientRequests
        /\ asked \subseteq asked' /\ asked' \subseteq ClientRequests /\ nextId' \in 1 .. MaxRequests + 1
        /\ alive = TRUE => sent \in asked'
    BY <1>0, <2>1, Asks
  <2>3. OnWire("load") <=> OnWire("load")'
    BY <1>1, <2>1
  <2>4. ClientTypeOK'
    BY <1>0, <1>1, <2>1, <2>2 DEF ClientTypeOK
  <2>5. alive \in BOOLEAN
    BY <1>0 DEF ClientTypeOK
  <2>6. LoadNotLost' /\ DialogAttended'
    BY <1>0, <2>1, <2>2, <2>3, <2>5 DEF ClientInv, LoadNotLost, DialogAttended
  <2> QED BY <1>2, <2>1, <2>2, <2>4, <2>6 DEF ClientInv
<1> QED BY <1>0, <1>3, <1>4, <1>5

\* A message of Chrome that is neither a load event nor about a dialog changes nothing of what is promised.
LEMMA AnswersKeep == ClientInv /\ ChromeAnswers => ClientInv'
<1> SUFFICES ASSUME ClientInv, ChromeAnswers PROVE ClientInv'
  OBVIOUS
<1>0. ClientTypeOK /\ UNCHANGED <<nextId, unanswered, goto, loaded, alive>>
  BY DEF ClientInv, ChromeAnswers
<1>1. PICK sent \in asked :
       /\ asked' = asked \ {sent}
       /\ \/ /\ sent.for = "navigate"
             /\ \/ page # "blank" /\ ChromeSays("answer", sent.id) /\ UNCHANGED page
                \/ page = "blank" /\ ChromeSays("error", sent.id) /\ page' = "refused"
             /\ UNCHANGED dialog
          \/ /\ sent.for = "handle"
             /\ dialog' = FALSE
             /\ ChromeSays("answer", sent.id)
             /\ UNCHANGED page
          \/ /\ sent.for = "evaluate" /\ ~dialog
             /\ ChromeSays("answer", sent.id)
             /\ UNCHANGED <<page, dialog>>
  BY DEF ChromeAnswers
<1>2. sent \in ClientRequests
  BY <1>0 DEF ClientTypeOK
<1>3. PICK kind \in {"answer", "error"} : wire' = Append(wire, [kind |-> kind, id |-> sent.id])
  BY <1>1 DEF ChromeSays
<1>4. [kind |-> kind, id |-> sent.id] \in Messages
  BY <1>2 DEF ClientRequests, Messages
<1>5. wire' \in Seq(Messages) /\ (OnWire("load") <=> OnWire("load")') /\ (OnWire("dialog") <=> OnWire("dialog")')
  BY <1>0, <1>3, <1>4, WireContents
<1>6. page' \in {page, "refused"} /\ dialog' \in {dialog, FALSE}
  BY <1>1
<1>7. asked' \subseteq asked
  BY <1>1
<1>8. ClientTypeOK'
  BY <1>0, <1>5, <1>6, <1>7 DEF ClientTypeOK
<1>9. LoadNotLost'
  BY <1>0, <1>5, <1>6 DEF ClientInv, LoadNotLost
<1>10. DialogAttended'
  <2>1. sent.for = "handle" => dialog' = FALSE
    BY <1>1
  <2> QED BY <1>0, <1>1, <1>5, <1>6, <2>1 DEF ClientInv, DialogAttended
<1>11. goto # "none"
  BY DEF ClientInv
<1> QED BY <1>0, <1>8, <1>9, <1>10, <1>11 DEF ClientInv

\* Chrome says a load or a dialog by putting it on the wire, or the connection ends.
LEMMA ChromeKeeps ==
  ClientInv /\ (ChromeStartsLoading \/ ChromeLoads \/ ChromeOpensDialog \/ ConnectionEnds) => ClientInv'
<1>1. ASSUME ClientInv, ChromeStartsLoading PROVE ClientInv'
  BY <1>1 DEF ClientInv, ClientTypeOK, ChromeStartsLoading, LoadNotLost, DialogAttended, OnWire
<1>2. ASSUME ClientInv, ConnectionEnds PROVE ClientInv'
  BY <1>2 DEF ClientInv, ClientTypeOK, ConnectionEnds, LoadNotLost, DialogAttended, OnWire
<1>3. ASSUME ClientInv, ChromeLoads PROVE ClientInv'
  <2>0. ClientTypeOK /\ goto # "none"
    BY <1>3 DEF ClientInv, ChromeLoads
  <2>1. /\ page' = "loaded" /\ wire' = Append(wire, [kind |-> "load", id |-> 0])
        /\ UNCHANGED <<nextId, unanswered, asked, goto, loaded, dialog, alive>>
    BY <1>3 DEF ChromeLoads, ChromeSays
  <2>2. [kind |-> "load", id |-> 0] \in Messages
    BY DEF Messages
  <2>3. wire' \in Seq(Messages) /\ OnWire("load")' /\ (OnWire("dialog") <=> OnWire("dialog")')
    BY <2>0, <2>1, <2>2, WireContents
  <2>4. ClientTypeOK'
    BY <2>0, <2>1, <2>3 DEF ClientTypeOK
  <2> QED BY <1>3, <2>0, <2>1, <2>3, <2>4 DEF ClientInv, LoadNotLost, DialogAttended
<1>4. ASSUME ClientInv, ChromeOpensDialog PROVE ClientInv'
  <2>0. ClientTypeOK /\ goto # "none"
    BY <1>4 DEF ClientInv, ChromeOpensDialog
  <2>1. /\ dialog' = TRUE /\ wire' = Append(wire, [kind |-> "dialog", id |-> 0])
        /\ UNCHANGED <<nextId, unanswered, asked, goto, loaded, page, alive>>
    BY <1>4 DEF ChromeOpensDialog, ChromeSays
  <2>2. [kind |-> "dialog", id |-> 0] \in Messages
    BY DEF Messages
  <2>3. wire' \in Seq(Messages) /\ OnWire("dialog")' /\ (OnWire("load") <=> OnWire("load")')
    BY <2>0, <2>1, <2>2, WireContents
  <2>4. ClientTypeOK'
    BY <2>0, <2>1, <2>3 DEF ClientTypeOK
  <2> QED BY <1>4, <2>0, <2>1, <2>3, <2>4 DEF ClientInv, LoadNotLost, DialogAttended
<1> QED BY <1>1, <1>2, <1>3, <1>4

\* Every step keeps the invariant.
LEMMA ClientInvKept == ClientInv /\ [ClientNext]_clientVars => ClientInv'
<1> SUFFICES ASSUME ClientInv, ClientNext \/ UNCHANGED clientVars PROVE ClientInv'
  OBVIOUS
<1>1. CASE UNCHANGED clientVars
  BY <1>1 DEF clientVars, ClientInv, ClientTypeOK, LoadNotLost, DialogAttended, OnWire
<1>2. CASE TimesOut
  <2>1. PICK sent \in unanswered : Settle(sent, FALSE)
    BY <1>2 DEF TimesOut
  <2>2. UNCHANGED <<nextId, asked, wire, loaded, page, dialog, alive>> /\ wire \in Seq(Messages)
    BY <1>2 DEF TimesOut, ClientInv, ClientTypeOK
  <2> QED BY <2>1, <2>2, SettleKeeps DEF OnWire
<1>3. CASE Race
  BY <1>3 DEF Race, ClientInv, ClientTypeOK, LoadNotLost, DialogAttended, OnWire
<1> QED BY <1>1, <1>2, <1>3, GotoPageKeeps, EvaluateKeeps, ReceiveKeeps, AnswersKeep, ChromeKeeps DEF ClientNext

-------------------------------------------------------------------------------
\* assets.mjs downloads pictures and clips and credits them.

Clips == [at : {"fetching", "streaming", "poster", "record"}, file : ClipNames, ref : Films, read : {credits, NoCredits}]

Accounted(file) ==
  \/ Credited(credits, file, folder[file])
  \/ \E film \in DOMAIN credits : film.ext = "mp4" /\ file = Poster(film)
Covered == \A file \in DOMAIN folder \ uncovered : folder[file] # Own => Accounted(file)

\* A credits.json that does not parse covers nothing: what is recorded next loses no file its credit.
Unreadable == readable = FALSE => \A file \in DOMAIN folder : folder[file] # Own => file \in uncovered

\* What has the name of the clip in progress: before the file is opened what was there, then the clip,
\* unless the user replaces it.
HoldsClip ==
  clip.file \in DOMAIN folder =>
    \/ folder[clip.file] = Own
    \/ clip.at = "fetching" /\ Credited(credits, clip.file, clip.ref)
    \/ clip.at # "fetching" /\ folder[clip.file] = clip.ref

DownloadInv ==
  /\ \A file \in DOMAIN folder : file \in FileNames /\ folder[file] \in Refs \cup {Own}
  /\ CreditsOK(credits) /\ readable \in BOOLEAN /\ uncovered \subseteq FileNames /\ gets \in 0 .. Gets
  /\ clip = NoClip \/ clip \in Clips
  \* Nobody writes the credits that the clip in progress has read.
  /\ clip # NoClip => clip.read = ReadCredits /\ gets # 0 /\ HoldsClip
  /\ Covered /\ Unreadable

\* The poster of a clip is a picture by name.
LEMMA NamesOfPosters ==
  ASSUME NEW file \in ClipNames
  PROVE  file \in FileNames /\ file.ext = "mp4" /\ Poster(file) \in FileNames /\ Poster(file) # file
<1>1. file \in FileNames /\ file.ext = "mp4"
  BY DEF FileNames, ClipNames
<1>2. Poster(file) \in FileNames /\ Poster(file).ext = "jpg"
  BY DEF Poster, FileNames, Stems
<1> QED BY <1>1, <1>2

\* The invariant holds at the start.
LEMMA DownloadInitInv == DownloadInit => DownloadInv
<1> SUFFICES ASSUME DownloadInit PROVE DownloadInv
  OBVIOUS
<1>1. PICK file \in FileNames : folder = [f \in {file} |-> Own]
  BY DEF DownloadInit
<1>2. credits = NoCredits /\ readable = TRUE /\ clip = NoClip /\ gets = 0 /\ uncovered = {}
  BY DEF DownloadInit
<1>3. DOMAIN NoCredits = {} /\ DOMAIN folder = {file} /\ folder[file] = Own
  BY <1>1 DEF NoCredits
<1>4. CreditsOK(credits) /\ gets \in 0 .. Gets
  BY <1>2, <1>3, DownloadAssumption DEF CreditsOK
<1>5. Covered /\ Unreadable
  BY <1>2, <1>3 DEF Covered, Unreadable
<1> QED BY <1>2, <1>3, <1>4, <1>5 DEF DownloadInv

\* What a file is saved over: nothing, or what is credited to the same record.
LEMMA TargetsAreFree ==
  ASSUME NEW stem \in Stems, NEW ext \in {"jpg", "mp4"}, stem = "harbour" \/ ext = "jpg", NEW ref \in Refs,
         NEW file \in TargetFiles(stem, ext, ref, ReadCredits)
  PROVE  /\ file \in FileNames
         /\ ext = "mp4" => file \in ClipNames
         /\ file \in DOMAIN folder => Credited(credits, file, ref)
<1>1. PICK k \in 1 .. 2 : file = [stem |-> stem, k |-> k, ext |-> ext] /\ ~Taken(file, ref, ReadCredits)
  BY DEF TargetFiles
<1>2. ext = "mp4" => file \in ClipNames
  BY <1>1 DEF ClipNames
<1>3. ext = "jpg" => file \in FileNames
  BY <1>1 DEF FileNames
<1>4. file \in DOMAIN folder => Credited(credits, file, ref)
  BY <1>1 DEF Taken, ReadCredits, NoCredits, Credited
<1> QED BY <1>2, <1>3, <1>4 DEF FileNames

\* While credits.json stays as it is, what was covered and is still there stays covered.
LEMMA SameCredits ==
  ASSUME DownloadInv, UNCHANGED credits,
         readable' = readable \/ DOMAIN folder' \subseteq uncovered',
         \A f \in DOMAIN folder' \ uncovered' :
           folder'[f] = Own \/ (f \in DOMAIN folder \ uncovered /\ folder'[f] = folder[f])
  PROVE  Covered' /\ Unreadable'
<1>1. ASSUME NEW f \in DOMAIN folder' \ uncovered', folder'[f] # Own PROVE Accounted(f)'
  BY <1>1 DEF DownloadInv, Covered, Accounted, Credited
<1>2. ASSUME readable' = FALSE, NEW f \in DOMAIN folder', folder'[f] # Own PROVE f \in uncovered'
  BY <1>2 DEF DownloadInv, Unreadable
<1> QED BY <1>1, <1>2 DEF Covered, Unreadable

\* An entry takes from no other file its credit.
LEMMA NowRecorded ==
  ASSUME DownloadInv, NEW file \in FileNames, NEW ref \in Refs,
         credits' = Recorded(ReadCredits, file, ref, gets'), readable' = TRUE, gets' \in 1 .. Gets,
         \A f \in DOMAIN folder' \ uncovered' :
           \/ folder'[f] = Own
           \/ f = file /\ folder'[f] = ref
           \/ file.ext = "mp4" /\ f = Poster(file)
           \/ f # file /\ f \in DOMAIN folder \ uncovered /\ folder'[f] = folder[f]
  PROVE  CreditsOK(credits)' /\ Covered' /\ Unreadable'
<1>1. DOMAIN ReadCredits \subseteq DOMAIN credits /\ \A f \in DOMAIN ReadCredits : ReadCredits[f] = credits[f]
  BY DEF ReadCredits, NoCredits
<1>2. /\ DOMAIN credits' = DOMAIN ReadCredits \cup {file} /\ credits'[file] = [ref |-> ref, place |-> gets']
      /\ \A f \in DOMAIN ReadCredits : f # file => credits'[f] = ReadCredits[f]
  BY DEF Recorded
<1>3. CreditsOK(credits)'
  BY <1>1, <1>2 DEF DownloadInv, CreditsOK
<1>4. ASSUME NEW f \in DOMAIN folder' \ uncovered', folder'[f] # Own PROVE Accounted(f)'
  <2>1. CASE f = file /\ folder'[f] = ref
    BY <1>2, <2>1 DEF Accounted, Credited
  <2>2. CASE file.ext = "mp4" /\ f = Poster(file)
    BY <1>2, <2>2 DEF Accounted
  <2>3. CASE f # file /\ f \in DOMAIN folder \ uncovered /\ folder'[f] = folder[f]
    <3>1. Accounted(f) /\ ReadCredits = credits
      BY <1>4, <2>3 DEF DownloadInv, Covered, Unreadable, ReadCredits
    <3>2. CASE Credited(credits, f, folder[f])
      BY <1>2, <2>3, <3>1, <3>2 DEF Accounted, Credited
    <3>3. CASE \E film \in DOMAIN credits : film.ext = "mp4" /\ f = Poster(film)
      BY <1>2, <3>1, <3>3 DEF Accounted
    <3> QED BY <3>1, <3>2, <3>3 DEF Accounted
  <2> QED BY <1>4, <2>1, <2>2, <2>3
<1> QED BY <1>3, <1>4 DEF Covered, Unreadable

\* A picture takes a free name and is credited, unless one of the two writes fails.
LEMMA GetPictureKeeps ==
  ASSUME DownloadInv, NEW ref \in Pictures, NEW stem \in Stems, GetPicture(ref, stem)
  PROVE  DownloadInv'
<1>0. clip = NoClip /\ clip' = NoClip /\ gets' = gets + 1 /\ gets' \in 1 .. Gets /\ gets' \in 0 .. Gets /\ ref \in Refs
  BY DownloadAssumption DEF DownloadInv, GetPicture, Refs
<1>1. PICK file \in TargetFiles(stem, "jpg", ref, ReadCredits) :
       /\ folder' = Saved(file, ref)
       /\ \/ /\ credits' = Recorded(ReadCredits, file, ref, gets')
             /\ readable' = TRUE /\ uncovered' = uncovered \ {file}
          \/ uncovered' = uncovered \cup {file} /\ UNCHANGED <<credits, readable>>
          \/ WriteCreditsFails({file}) /\ UNCHANGED credits
  BY DEF GetPicture
<1>2. file \in FileNames
  BY <1>0, TargetsAreFree
<1>3. /\ DOMAIN folder' = DOMAIN folder \cup {file} /\ folder'[file] = ref
      /\ \A f \in DOMAIN folder : f # file => folder'[f] = folder[f]
  BY <1>1 DEF Saved
<1>4. \A f \in DOMAIN folder' : f \in FileNames /\ folder'[f] \in Refs \cup {Own}
  BY <1>0, <1>2, <1>3 DEF DownloadInv
<1>5. CASE credits' = Recorded(ReadCredits, file, ref, gets') /\ readable' = TRUE /\ uncovered' = uncovered \ {file}
  <2>1. CreditsOK(credits)' /\ Covered' /\ Unreadable'
    BY <1>0, <1>2, <1>3, <1>5, NowRecorded
  <2>2. readable' \in BOOLEAN /\ uncovered' \subseteq FileNames
    BY <1>5 DEF DownloadInv
  <2> QED BY <1>0, <1>4, <2>1, <2>2 DEF DownloadInv
<1>6. CASE (uncovered' = uncovered \cup {file} /\ UNCHANGED <<credits, readable>>) \/ (WriteCreditsFails({file}) /\ UNCHANGED credits)
  <2>1. /\ UNCHANGED credits /\ (readable' = readable \/ (readable' = FALSE /\ DOMAIN folder' \subseteq uncovered'))
        /\ uncovered \cup {file} \subseteq uncovered' /\ uncovered' \subseteq uncovered \cup DOMAIN folder'
    BY <1>3, <1>6 DEF WriteCreditsFails
  <2>2. readable' \in BOOLEAN /\ uncovered' \subseteq FileNames /\ CreditsOK(credits)'
    BY <1>4, <2>1 DEF DownloadInv, CreditsOK
  <2>3. Covered' /\ Unreadable'
    BY <1>3, <2>1, SameCredits
  <2> QED BY <1>0, <1>4, <2>2, <2>3 DEF DownloadInv
<1> QED BY <1>1, <1>5, <1>6

\* The clip in progress and what it has read.
LEMMA ClipFields ==
  ASSUME DownloadInv, clip # NoClip
  PROVE  /\ clip = [at |-> clip.at, file |-> clip.file, ref |-> clip.ref, read |-> clip.read]
         /\ clip.at \in {"fetching", "streaming", "poster", "record"} /\ clip.file \in ClipNames
         /\ clip.ref \in Films /\ clip.ref \in Refs /\ clip.ref # Own /\ clip.read = ReadCredits /\ HoldsClip
         /\ gets \in 1 .. Gets
<1>1. clip \in Clips /\ clip.read = ReadCredits /\ HoldsClip
  BY DEF DownloadInv
<1>2. gets \in 1 .. Gets
  BY DownloadAssumption DEF DownloadInv
<1> QED BY <1>1, <1>2, DownloadAssumption DEF Clips, Refs

\* A name is chosen under which nothing or the clip itself is credited.
LEMMA ChooseClipKeeps ==
  ASSUME DownloadInv, NEW ref \in Films, ChooseClip(ref)
  PROVE  DownloadInv'
<1>0. /\ UNCHANGED <<folder, credits, readable, uncovered>> /\ gets' = gets + 1 /\ gets' \in 1 .. Gets /\ ref \in Refs
  BY DownloadAssumption DEF DownloadInv, ChooseClip, Refs
<1>1. PICK file \in TargetFiles("harbour", "mp4", ref, ReadCredits) :
        clip' = [at |-> "fetching", file |-> file, ref |-> ref, read |-> ReadCredits]
  BY DEF ChooseClip
<1>2. file \in ClipNames /\ (file \in DOMAIN folder => Credited(credits, file, ref))
  BY <1>0, TargetsAreFree DEF Stems
<1>3. ReadCredits' = ReadCredits /\ ReadCredits \in {credits, NoCredits}
  BY <1>0 DEF ReadCredits, NoCredits
<1>4. clip' \in Clips'
  BY <1>0, <1>1, <1>2, <1>3 DEF Clips
<1>5. clip'.read = ReadCredits' /\ gets' # 0 /\ HoldsClip'
  <2>1. HoldsClip'
    BY <1>0, <1>1, <1>2 DEF HoldsClip, Credited
  <2>2. clip'.read = ReadCredits' /\ gets' # 0
    BY <1>0, <1>1, <1>3
  <2> QED BY <2>1, <2>2
<1>6. Covered' /\ Unreadable'
  BY <1>0 DEF DownloadInv, Covered, Unreadable, Accounted, Credited
<1>7. gets' \in 0 .. Gets
  BY <1>0
<1> QED BY <1>0, <1>4, <1>5, <1>6, <1>7 DEF DownloadInv, CreditsOK

\* A clip that does not come, is given up or cannot be recorded leaves no clip in progress.
LEMMA GivenUpKeeps == DownloadInv /\ (FetchFails \/ StreamFails \/ RecordFails \/ Kill) => DownloadInv'
<1> SUFFICES ASSUME DownloadInv, FetchFails \/ StreamFails \/ RecordFails \/ Kill PROVE DownloadInv'
  OBVIOUS
<1>1. clip' = NoClip /\ UNCHANGED <<credits, gets>>
  BY DEF FetchFails, StreamFails, RecordFails, Kill
<1>2. /\ folder' = folder \/ folder' = Without(clip.file)
      /\ \/ UNCHANGED readable /\ uncovered' = uncovered \cap DOMAIN folder'
         \/ UNCHANGED readable /\ uncovered' = uncovered
         \/ readable' = FALSE /\ uncovered' = uncovered \cup DOMAIN folder'
  BY DEF FetchFails, StreamFails, RecordFails, Kill, WriteCreditsFails
<1>3. DOMAIN folder' \subseteq DOMAIN folder /\ \A f \in DOMAIN folder' : folder'[f] = folder[f]
  BY <1>2 DEF Without
<1>4. \A f \in DOMAIN folder' : f \in FileNames /\ folder'[f] \in Refs \cup {Own}
  BY <1>3 DEF DownloadInv
<1>5. readable' \in BOOLEAN /\ uncovered' \subseteq FileNames /\ CreditsOK(credits)' /\ gets' \in 0 .. Gets
  BY <1>1, <1>2, <1>4 DEF DownloadInv, CreditsOK
<1>6. Covered' /\ Unreadable'
  <2>1. readable' = readable \/ DOMAIN folder' \subseteq uncovered'
    BY <1>2
  <2>2. \A f \in DOMAIN folder' \ uncovered' : f \in DOMAIN folder \ uncovered /\ folder'[f] = folder[f]
    BY <1>2, <1>3
  <2> QED BY <1>1, <2>1, <2>2, SameCredits
<1> QED BY <1>1, <1>4, <1>5, <1>6 DEF DownloadInv

\* A clip's own file and its poster are uncovered while it is on the way.
LEMMA OnItsWayKeeps == DownloadInv /\ (OpenClip \/ Streamed \/ SavePoster) => DownloadInv'
<1> SUFFICES ASSUME DownloadInv, OpenClip \/ Streamed \/ SavePoster PROVE DownloadInv'
  OBVIOUS
<1>0. clip # NoClip /\ UNCHANGED <<credits, readable, gets>>
  BY DEF OpenClip, Streamed, SavePoster, NoClip
<1>1. PICK reached \in {"streaming", "poster", "record"} : clip' = [clip EXCEPT !.at = reached] /\ (clip.at = "fetching" <=> OpenClip)
  BY DEF OpenClip, Streamed, SavePoster
<1>2. clip' = [at |-> reached, file |-> clip.file, ref |-> clip.ref, read |-> clip.read]
  BY <1>0, <1>1, ClipFields
<1>3. /\ clip.file \in ClipNames /\ clip.file \in FileNames /\ Poster(clip.file) \in FileNames /\ Poster(clip.file) # clip.file
      /\ clip.ref \in Refs
  BY <1>0, ClipFields, NamesOfPosters
<1>4. clip' \in Clips' /\ clip'.read = ReadCredits' /\ gets' # 0
  <2>1. ReadCredits' = ReadCredits /\ ReadCredits \in {credits, NoCredits} /\ gets # 0
    BY <1>0 DEF ReadCredits, NoCredits, DownloadInv
  <2> QED BY <1>0, <1>2, <2>1, ClipFields DEF Clips
<1>5. /\ \/ OpenClip /\ folder' = Saved(clip.file, clip.ref) /\ uncovered' = uncovered \cup {clip.file}
         \/ clip.at # "fetching" /\ folder' = folder /\ uncovered' = uncovered
         \/ /\ clip.at # "fetching" /\ folder' = Saved(Poster(clip.file), clip.ref)
            /\ uncovered' = uncovered \cup {Poster(clip.file)}
  BY DEF OpenClip, Streamed, SavePoster
<1>6. /\ \A f \in DOMAIN folder' : f \in FileNames /\ folder'[f] \in Refs \cup {Own}
      /\ uncovered' \subseteq FileNames /\ uncovered \subseteq uncovered'
      /\ \A f \in DOMAIN folder' \ uncovered' : f \in DOMAIN folder /\ folder'[f] = folder[f]
  BY <1>3, <1>5 DEF DownloadInv, Saved
<1>7. HoldsClip'
  <2>1. CASE OpenClip /\ folder' = Saved(clip.file, clip.ref)
    BY <1>2, <2>1 DEF HoldsClip, Saved
  <2>2. CASE clip.at # "fetching" /\ (folder' = folder \/ folder' = Saved(Poster(clip.file), clip.ref))
    BY <1>0, <1>2, <1>3, <2>2, ClipFields DEF HoldsClip, Saved
  <2> QED BY <1>5, <2>1, <2>2
<1>8. Covered' /\ Unreadable'
  BY <1>0, <1>6, SameCredits
<1> QED BY <1>0, <1>4, <1>6, <1>7, <1>8 DEF DownloadInv, CreditsOK

\* The credit of a clip is the last thing written: it covers the clip and its poster.
LEMMA RecordClipKeeps == DownloadInv /\ RecordClip => DownloadInv'
<1> SUFFICES ASSUME DownloadInv, RecordClip PROVE DownloadInv'
  OBVIOUS
<1>0. /\ clip # NoClip /\ clip.at = "record" /\ clip' = NoClip
      /\ readable' = TRUE /\ UNCHANGED <<folder, gets>>
      /\ uncovered' = uncovered \ {clip.file, Poster(clip.file)}
      /\ credits' = Recorded(clip.read, clip.file, clip.ref, gets)
  BY DEF RecordClip, NoClip
<1>1. /\ clip.read = ReadCredits /\ clip.file \in FileNames /\ clip.file.ext = "mp4" /\ clip.ref \in Refs /\ gets' \in 1 .. Gets
      /\ clip.file \in DOMAIN folder => folder[clip.file] = Own \/ folder[clip.file] = clip.ref
  BY <1>0, ClipFields, NamesOfPosters DEF HoldsClip
<1>2. \A f \in DOMAIN folder' \ uncovered' :
           \/ folder'[f] = Own
           \/ f = clip.file /\ folder'[f] = clip.ref
           \/ clip.file.ext = "mp4" /\ f = Poster(clip.file)
           \/ f # clip.file /\ f \in DOMAIN folder \ uncovered /\ folder'[f] = folder[f]
  BY <1>0, <1>1
<1>3. CreditsOK(credits)' /\ Covered' /\ Unreadable'
  BY <1>0, <1>1, <1>2, NowRecorded
<1>4. uncovered' \subseteq FileNames /\ \A f \in DOMAIN folder' : f \in FileNames /\ folder'[f] \in Refs \cup {Own}
  BY <1>0 DEF DownloadInv
<1>5. readable' \in BOOLEAN /\ gets' \in 0 .. Gets
  BY <1>0, <1>1
<1> QED BY <1>0, <1>3, <1>4, <1>5 DEF DownloadInv

\* The user may add a file of their own and delete any; credits of it are left over, none is missing.
LEMMA UserKeeps == DownloadInv /\ (UserAdds \/ UserDeletes) => DownloadInv'
<1> SUFFICES ASSUME DownloadInv, UserAdds \/ UserDeletes PROVE DownloadInv'
  OBVIOUS
<1>0. UNCHANGED <<credits, readable, clip, gets>>
  BY DEF UserAdds, UserDeletes
<1>1. PICK file \in FileNames :
        \/ file \notin DOMAIN folder /\ folder' = Saved(file, Own) /\ uncovered' = uncovered
        \/ folder' = Without(file) /\ uncovered' = uncovered \ {file}
  BY DEF UserAdds, UserDeletes, DownloadInv
<1>2. /\ \A f \in DOMAIN folder' : f \in FileNames /\ folder'[f] \in Refs \cup {Own}
      /\ \A f \in DOMAIN folder' : folder'[f] = Own \/ (f \in DOMAIN folder /\ folder'[f] = folder[f])
      /\ uncovered' \subseteq FileNames
      /\ \A f \in DOMAIN folder' \ uncovered' : folder'[f] = Own \/ f \notin uncovered
  BY <1>1 DEF DownloadInv, Saved, Without
<1>3. Covered' /\ Unreadable'
  BY <1>0, <1>2, SameCredits
<1>4. ReadCredits' = ReadCredits /\ Clips' = Clips
  BY <1>0 DEF ReadCredits, Clips
<1>5. clip # NoClip => HoldsClip'
  BY <1>0, <1>2 DEF DownloadInv, HoldsClip, Credited
<1> QED BY <1>0, <1>2, <1>3, <1>4, <1>5 DEF DownloadInv, CreditsOK

\* Every step keeps the invariant.
LEMMA DownloadInvKept == DownloadInv /\ [DownloadNext]_downloadVars => DownloadInv'
<1> SUFFICES ASSUME DownloadInv, [DownloadNext]_downloadVars PROVE DownloadInv'
  OBVIOUS
<1>1. CASE \E ref \in Pictures, stem \in Stems : GetPicture(ref, stem)
  BY <1>1, GetPictureKeeps
<1>2. CASE \E ref \in Films : ChooseClip(ref)
  BY <1>2, ChooseClipKeeps
<1>3. CASE UNCHANGED downloadVars
  <2>1. UNCHANGED <<folder, credits, readable, clip, gets, uncovered>>
    BY <1>3 DEF downloadVars
  <2>2. ReadCredits' = ReadCredits /\ Clips' = Clips /\ HoldsClip' = HoldsClip
    BY <2>1 DEF ReadCredits, Clips, HoldsClip, Credited
  <2>3. Covered' /\ Unreadable'
    BY <2>1 DEF DownloadInv, Covered, Unreadable, Accounted, Credited
  <2> QED BY <2>1, <2>2, <2>3 DEF DownloadInv, CreditsOK
<1> QED BY <1>1, <1>2, <1>3, GivenUpKeeps, OnItsWayKeeps, RecordClipKeeps, UserKeeps DEF DownloadNext

\* Every file whose download ended well is credited.
LEMMA DownloadIsSafe == DownloadInv => AllCredited
  BY DEF DownloadInv, Covered, Accounted, AllCredited

\* What is written over, and when.
LEMMA DownloadStep ==
  DownloadInv /\ [DownloadNext]_downloadVars =>
    [\A file \in FileNames : Overwritten(file) =>
       \/ clip.at = "poster" /\ file = Poster(clip.file)
       \/ folder[file] = Own /\ (file \in DOMAIN credits \/ (clip.at = "fetching" /\ file = clip.file))]_folder
<1> SUFFICES ASSUME DownloadInv, DownloadNext, NEW file \in FileNames, Overwritten(file)
             PROVE  \/ clip.at = "poster" /\ file = Poster(clip.file)
                    \/ folder[file] = Own /\ (file \in DOMAIN credits \/ (clip.at = "fetching" /\ file = clip.file))
  BY DEF downloadVars
<1>0. file \in DOMAIN folder /\ file \in DOMAIN folder' /\ folder[file] # folder'[file]
      /\ (folder[file] = Own \/ Credited(credits, file, folder[file]))
  BY DEF Overwritten
<1>1. CASE \E ref \in Pictures, stem \in Stems : GetPicture(ref, stem)
  <2>1. PICK ref \in Pictures, stem \in Stems : GetPicture(ref, stem)
    BY <1>1
  <2>2. PICK target \in TargetFiles(stem, "jpg", ref, ReadCredits) : folder' = Saved(target, ref)
    BY <2>1 DEF GetPicture
  <2>3. file = target /\ folder'[file] = ref
    BY <1>0, <2>2 DEF Saved
  <2>4. Credited(credits, file, ref)
    BY <1>0, <2>2, <2>3, TargetsAreFree DEF Refs
  <2> QED BY <1>0, <2>3, <2>4 DEF Credited
<1>2. CASE OpenClip
  <2>1. clip.at = "fetching" /\ clip # NoClip /\ folder' = Saved(clip.file, clip.ref)
    BY <1>2 DEF OpenClip, NoClip
  <2>2. file = clip.file /\ folder'[file] = clip.ref
    BY <1>0, <2>1 DEF Saved
  <2>3. folder[file] = Own \/ Credited(credits, file, clip.ref)
    BY <1>0, <2>1, <2>2, ClipFields DEF HoldsClip
  <2> QED BY <1>0, <2>1, <2>2, <2>3 DEF Credited
<1>3. CASE SavePoster
  BY <1>0, <1>3 DEF SavePoster, Saved
<1>4. ~\E ref \in Films : ChooseClip(ref)
  BY <1>0 DEF ChooseClip
<1>5. ~(FetchFails \/ Streamed \/ StreamFails \/ RecordClip \/ RecordFails \/ Kill \/ UserAdds \/ UserDeletes)
  BY <1>0 DEF FetchFails, Streamed, StreamFails, RecordClip, RecordFails, Kill, UserAdds, UserDeletes, Saved, Without
<1> QED BY <1>1, <1>2, <1>3, <1>4, <1>5 DEF DownloadNext

-------------------------------------------------------------------------------
\* assets.mjs searches all sources at once.

SaidWidths == {"wide", "narrow", "unknown"}
SearchPhases == {"searching", "checking", "shown"}
Attempts == {"first", "second", "answered", "failed"}

SearchTypes ==
  /\ phase \in SearchPhases /\ source \in [DOMAIN Sources -> Attempts]
  /\ DOMAIN results = DOMAIN Sources
  /\ \A s \in DOMAIN Sources : DOMAIN results[s] \subseteq 1 .. Returned
  /\ \A s \in DOMAIN Sources : \A n \in DOMAIN results[s] : results[s][n] \in Items
  /\ busy \subseteq Slots /\ turn \subseteq Slots /\ DOMAIN check \subseteq Slots
  /\ \A slot \in DOMAIN check : check[slot] \in SaidWidths \cup {"dead"}
Usable ==
  \A s \in DOMAIN Sources : \A n \in DOMAIN results[s] : results[s][n].licensed /\ results[s][n].width # "narrow"
KeysApart ==
  \A s, t \in DOMAIN Sources : \A n \in DOMAIN results[s], m \in DOMAIN results[t] :
    results[s][n].key = results[t][m].key => s = t /\ n = m
FilesSeen ==
  \A s \in DOMAIN Sources : \A n \in DOMAIN results[s] :
    /\ <<s, n>> \in DOMAIN check /\ check[<<s, n>>] # "dead"
    /\ check[<<s, n>>] = "narrow" => results[s][n].rendition
SearchInv ==
  /\ SearchTypes
  /\ phase # "searching" => Usable /\ KeysApart
  /\ phase = "shown" => FilesSeen

\* The invariant holds at the start.
LEMMA SearchInitInv == SearchInit => SearchInv
<1> SUFFICES ASSUME SearchInit PROVE SearchInv
  OBVIOUS
<1> USE DEF SearchInit
<1>1. phase = "searching" /\ source \in [DOMAIN Sources -> Attempts] /\ DOMAIN results = DOMAIN Sources
  BY DEF Attempts
<1>2. \A s \in DOMAIN Sources : DOMAIN results[s] = {}
  OBVIOUS
<1>3. busy = {} /\ turn = {} /\ DOMAIN check = {}
  OBVIOUS
<1> QED
  BY <1>1, <1>2, <1>3 DEF SearchInv, SearchTypes, SearchPhases

\* Cutting a list adds nothing to it.
LEMMA CutIsPart == ASSUME NEW places, NEW n PROVE Cut(places, n) \subseteq places
BY DEF Cut

\* What a source answers are at most Returned pictures.
LEMMA AnswersAreItems ==
  ASSUME NEW answer \in PairAnswers
  PROVE  DOMAIN answer \subseteq 1 .. Returned /\ \A n \in DOMAIN answer : answer[n] \in Items
<1>1. answer \in SourceAnswers
  BY DEF PairAnswers
<1>2. CASE answer = <<>>
  BY <1>2 DEF Returned
<1>3. CASE \E x \in Items : answer = <<x>>
  BY <1>3 DEF Returned
<1>4. CASE \E x, y \in Items : answer = <<x, y>>
  <2> PICK x \in Items, y \in Items : answer = <<x, y>>
    BY <1>4
  <2>1. DOMAIN answer = 1 .. 2 /\ answer[1] = x /\ answer[2] = y
    OBVIOUS
  <2> QED
    BY <2>1 DEF Returned
<1> QED
  BY <1>1, <1>2, <1>3, <1>4 DEF SourceAnswers

\* filter and dedupe: of two pictures with one key the later is dropped.
LEMMA FilterCleans == ASSUME SearchInv, Filter PROVE SearchInv'
<1>1. SearchTypes /\ phase = "searching" /\ phase' = "checking"
  BY DEF SearchInv, Filter
<1>2. \A s \in DOMAIN Sources : DOMAIN results'[s] \subseteq Kept(s) /\ \A n \in DOMAIN results'[s] : results'[s][n] = results[s][n]
  <2> TAKE s \in DOMAIN Sources
  <2> DEFINE places == Cut(Kept(s), PerSource + Spares)
  <2>1. results'[s] = [n \in places |-> results[s][n]]
    BY DEF Filter, Restrict
  <2>2. places \subseteq Kept(s)
    BY CutIsPart
  <2> QED
    BY <2>1, <2>2
<1>3. \A s \in DOMAIN Sources : Kept(s) \subseteq DOMAIN results[s]
  BY DEF Kept
<1>4. DOMAIN results' = DOMAIN Sources
  BY DEF Filter
<1>5. SearchTypes'
  BY <1>1, <1>2, <1>3, <1>4 DEF SearchTypes, Filter, SearchPhases
<1>6. Usable'
  BY <1>2 DEF Usable, Kept, Fits
<1>7. ASSUME NEW s \in DOMAIN Sources, NEW t \in DOMAIN Sources, NEW n \in Kept(s), NEW m \in Kept(t),
             s < t \/ (s = t /\ n < m)
      PROVE  results[s][n].key # results[t][m].key
  <2>1. <<s, n>> \in Filled
    BY <1>1, <1>3 DEF Filled, Slots, SearchTypes
  <2>2. <<s, n>> \in Earlier(t, m) /\ Item(<<s, n>>).licensed
    BY <2>1, <1>7 DEF Earlier, Item, Kept
  <2>3. results[s][n].key \in SeenPicture(t, m)
    BY <2>2 DEF SeenPicture, Item
  <2> QED
    BY <2>3 DEF Kept
<1>8. \A s \in DOMAIN Sources : s \in Nat /\ Kept(s) \subseteq Nat
  BY <1>1, <1>3, SearchAssumption DEF SearchTypes, Returned
<1>9. KeysApart'
  <2> SUFFICES ASSUME NEW s \in DOMAIN Sources, NEW t \in DOMAIN Sources,
                      NEW n \in DOMAIN results'[s], NEW m \in DOMAIN results'[t],
                      results'[s][n].key = results'[t][m].key
               PROVE  s = t /\ n = m
    BY DEF KeysApart
  <2>1. n \in Kept(s) /\ m \in Kept(t) /\ results[s][n].key = results[t][m].key
    BY <1>2
  <2>2. ~(s < t \/ (s = t /\ n < m)) /\ ~(t < s \/ (t = s /\ m < n))
    BY <2>1, <1>7
  <2> QED
    BY <2>1, <2>2, <1>8
<1> QED
  BY <1>1, <1>5, <1>6, <1>9 DEF SearchInv

\* What is shown is what was left, with the widths that were found.
LEMMA ShowKeeps == ASSUME SearchInv, Show PROVE SearchInv'
<1>1. SearchTypes /\ Usable /\ KeysApart /\ phase' = "shown"
  BY DEF SearchInv, Show
<1> DEFINE left(s) == Cut({n \in DOMAIN results[s] : Stays(<<s, n>>)}, PerSource)
           picture(s, n) == [results[s][n] EXCEPT !.width = WidthKnown(<<s, n>>)]
<1>2. results' = [s \in DOMAIN Sources |-> [n \in left(s) |-> picture(s, n)]] /\ UNCHANGED <<source, turn, busy, check>>
  BY DEF Show
<1>3. ASSUME NEW s \in DOMAIN Sources, NEW n \in left(s)
      PROVE  /\ n \in DOMAIN results[s] /\ picture(s, n) \in Items /\ picture(s, n).key = results[s][n].key
             /\ picture(s, n).licensed /\ picture(s, n).width # "narrow"
             /\ <<s, n>> \in DOMAIN check /\ check[<<s, n>>] # "dead"
             /\ check[<<s, n>>] = "narrow" => picture(s, n).rendition
  <2> DEFINE said == check[<<s, n>>]
             width2 == WidthKnown(<<s, n>>)
  <2>1. n \in DOMAIN results[s] /\ Stays(<<s, n>>)
    BY CutIsPart, left(s) \subseteq {k \in DOMAIN results[s] : Stays(<<s, k>>)}
  <2>2. results[s][n] \in Items /\ results[s][n].licensed
    BY <2>1, <1>1 DEF SearchTypes, Usable
  <2>3. PICK key \in Keys, lic \in BOOLEAN, width \in SaidWidths, rend \in BOOLEAN :
           /\ results[s][n] = [key |-> key, licensed |-> lic, width |-> width, rendition |-> rend]
           /\ width = "unknown" => ~rend
    BY <2>2 DEF Items, SaidWidths
  <2>4. <<s, n>> \in DOMAIN check /\ said \in SaidWidths /\ said # "dead" /\ width2 # "narrow"
    BY <2>1, <1>1 DEF Stays, SearchTypes, SaidWidths, Fits
  <2>5. width2 = IF rend \/ said = "unknown" THEN width ELSE said
    BY <2>3 DEF WidthKnown, Item
  <2>6. picture(s, n) = [key |-> key, licensed |-> lic, width |-> width2, rendition |-> rend]
    BY <2>3
  <2> HIDE DEF picture, width2
  <2>7. width2 \in SaidWidths /\ (width2 = "unknown" => ~rend) /\ (said = "narrow" => rend)
    BY <2>3, <2>4, <2>5
  <2>8. picture(s, n) \in Items
    BY <2>3, <2>6, <2>7 DEF Items, SaidWidths
  <2> QED
    BY <2>1, <2>2, <2>3, <2>4, <2>6, <2>7, <2>8
<1> HIDE DEF left, picture
<1>4. DOMAIN results' = DOMAIN Sources
      /\ \A s \in DOMAIN Sources : DOMAIN results'[s] = left(s) /\ \A n \in left(s) : results'[s][n] = picture(s, n)
  BY <1>2
<1>5. SearchTypes'
  <2>1. \A s \in DOMAIN Sources : DOMAIN results'[s] \subseteq 1 .. Returned
    BY <1>1, <1>3, <1>4 DEF SearchTypes
  <2>2. \A s \in DOMAIN Sources : \A n \in DOMAIN results'[s] : results'[s][n] \in Items
    BY <1>3, <1>4
  <2> QED
    BY <2>1, <2>2, <1>1, <1>2, <1>4 DEF SearchTypes, SearchPhases
<1>6. Usable'
  <2>1. ASSUME NEW s \in DOMAIN Sources, NEW n \in left(s)
        PROVE  results'[s][n].licensed /\ results'[s][n].width # "narrow"
    BY <1>3, <1>4
  <2> QED BY <1>4, <2>1 DEF Usable
<1>7. KeysApart'
  <2>1. ASSUME NEW s \in DOMAIN Sources, NEW n \in left(s)
        PROVE  n \in DOMAIN results[s] /\ results'[s][n].key = results[s][n].key
    BY <1>3, <1>4
  <2> QED BY <1>1, <1>4, <2>1 DEF KeysApart
<1>8. FilesSeen'
  BY <1>2, <1>3, <1>4 DEF FilesSeen
<1> QED
  BY <1>1, <1>5, <1>6, <1>7, <1>8 DEF SearchInv

\* Every step keeps the invariant.
LEMMA SearchInvKept == SearchInv /\ [SearchNext]_searchVars => SearchInv'
<1> SUFFICES ASSUME SearchInv, [SearchNext]_searchVars PROVE SearchInv'
  OBVIOUS
<1> USE DEF SearchInv
<1>1. ASSUME NEW s \in DOMAIN Sources, RetrySource(s) \/ FailSource(s) PROVE SearchInv'
  <2>1. source' \in [DOMAIN Sources -> Attempts] /\ phase = "searching"
    BY <1>1 DEF RetrySource, FailSource, SearchTypes, Attempts
  <2> QED
    BY <2>1, <1>1 DEF RetrySource, FailSource, SearchTypes
<1>2. ASSUME NEW s \in DOMAIN Sources, AnswerSearch(s) PROVE SearchInv'
  <2> PICK answer \in PairAnswers : results' = [results EXCEPT ![s] = answer]
    BY <1>2 DEF AnswerSearch
  <2>1. source' \in [DOMAIN Sources -> Attempts] /\ phase' = "searching" /\ phase' \in SearchPhases
    BY <1>2 DEF AnswerSearch, SearchTypes, Attempts, SearchPhases
  <2>2. DOMAIN results' = DOMAIN Sources /\ results'[s] = answer
        /\ \A t \in DOMAIN Sources : t # s => results'[t] = results[t]
    BY DEF SearchTypes
  <2>3. \A t \in DOMAIN Sources : DOMAIN results'[t] \subseteq 1 .. Returned
                                  /\ \A n \in DOMAIN results'[t] : results'[t][n] \in Items
    BY <2>2, AnswersAreItems DEF SearchTypes
  <2> QED
    BY <2>1, <2>2, <2>3, <1>2 DEF AnswerSearch, SearchTypes
<1>3. CASE Filter
  BY <1>3, FilterCleans
<1>4. CASE Take
  BY <1>4 DEF Take, SearchTypes, Filled, Usable, KeysApart
<1>5. CASE Probe
  <2> PICK slot \in busy, said \in SaidWidths \cup {"dead"} :
        /\ check' = [s \in DOMAIN check \cup {slot} |-> IF s = slot THEN said ELSE check[s]]
        /\ busy' = busy \ {slot}
    BY <1>5 DEF Probe, SaidWidths
  <2> QED
    BY <1>5 DEF Probe, SearchTypes, Usable, KeysApart
<1>6. CASE Show
  BY <1>6, ShowKeeps
<1>7. CASE UNCHANGED searchVars
  BY <1>7 DEF searchVars, SearchTypes, Usable, KeysApart, FilesSeen
<1> QED
  BY <1>1, <1>2, <1>3, <1>4, <1>5, <1>6, <1>7 DEF SearchNext

\* What is shown is licensed, has a file that loaded, is not known to be narrow, and shown once.
LEMMA SearchIsSafe == SearchInv => SearchTypeOK /\ ShownAreUsable /\ NoPictureTwice
<1> SUFFICES ASSUME SearchInv PROVE SearchTypeOK /\ ShownAreUsable /\ NoPictureTwice
  OBVIOUS
<1>1. SearchTypes /\ (phase = "shown" => Usable /\ KeysApart /\ FilesSeen)
  BY DEF SearchInv
<1>2. \A slot \in Filled : \E s \in DOMAIN Sources : \E n \in DOMAIN results[s] : slot = <<s, n>> /\ Item(slot) = results[s][n]
  BY DEF Filled, Slots, Item
<1>3. \A slot \in Filled : Item(slot) \in Items
  BY <1>1, <1>2 DEF SearchTypes
<1>4. SearchTypeOK
  BY <1>1, <1>3 DEF SearchTypeOK, SearchTypes, SearchPhases, Attempts, SaidWidths
<1>5. ShownAreUsable
  BY <1>1, <1>2 DEF ShownAreUsable, Usable, FilesSeen
<1>6. NoPictureTwice
  BY <1>1, <1>2 DEF NoPictureTwice, KeysApart
<1> QED
  BY <1>4, <1>5, <1>6

-------------------------------------------------------------------------------
\* How assets.mjs asks one source.

Said == {"missing", "null", "object"}
Asked == {"first", "rest", "objects", "ended", "failed"}

\* What the source keeps: a list with no id twice, one answer for every row of it.
SourceTypes ==
  /\ outlet \in Outlets /\ item \in ArchiveItems /\ asking \in Asked
  /\ rows \in Seq(SourceIds) /\ Len(rows) <= MaxRows /\ IsInjective(rows)
  /\ out \in Seq(Said)
  /\ nextRow \in 0 .. Len(rows) /\ inHand \subseteq 1 .. nextRow
\* Where the search is, and what that says of the rest.
Progress ==
  /\ asking = "first" => nextRow = 0 /\ inHand = {}
  /\ asking = "rest" => outlet = "openverse"
  /\ asking = "objects" => Len(out) = Len(rows)
  /\ inHand # {} => asking = "objects"
  /\ asking # "ended" => shownIds = <<>>
Wanted ==
  asking = "objects" => \A k \in DOMAIN out : out[k] = "object" =>
    /\ outlet = "museum" => rows[k] \in FineIds
    /\ outlet = "archive" => Renditions(item) # {}
ShownRows ==
  /\ DOMAIN shownIds \subseteq 1 .. 2 * MaxRows /\ \A k \in DOMAIN shownIds : shownIds[k] \in SourceIds
  /\ IsInjective(shownIds)
  /\ outlet = "museum" => \A k \in DOMAIN shownIds : shownIds[k] \in FineIds
  /\ outlet = "archive" /\ DOMAIN shownIds # {} => Renditions(item) # {}
SourcesInv == SourceTypes /\ Progress /\ Wanted /\ ShownRows

\* The invariant holds at the start.
LEMMA SourcesInitInv == SourcesInit => SourcesInv
<1> SUFFICES ASSUME SourcesInit PROVE SourcesInv
  OBVIOUS
<1> USE DEF SourcesInit
<1>1. rows \in Seq(SourceIds) /\ Len(rows) = 0 /\ IsInjective(rows) /\ out \in Seq(Said) /\ Len(out) = 0 /\ DOMAIN shownIds = {}
  BY DEF IsInjective
<1>2. SourceTypes
  BY <1>1, SourcesAssumption DEF SourceTypes, Asked
<1>3. Progress /\ Wanted
  BY DEF Progress, Wanted
<1>4. ShownRows
  BY <1>1 DEF ShownRows, IsInjective
<1> QED
  BY <1>2, <1>3, <1>4 DEF SourcesInv

\* A list a source returns.
LEMMA ListsAreRows ==
  ASSUME NEW l \in Lists(MaxRows)
  PROVE  l \in Seq(SourceIds) /\ Len(l) <= MaxRows /\ IsInjective(l)
<1> PICK k \in 0 .. MaxRows : l \in {x \in [1 .. k -> SourceIds] : IsInjective(x)}
  BY DEF Lists
<1> QED
  BY SourcesAssumption

\* The list of Openverse filled up from the second answer.
LEMMA FillIsInjective ==
  ASSUME SourceTypes, NEW rest \in Lists(MaxRows)
  PROVE  /\ DOMAIN Fill(rest) \subseteq 1 .. 2 * MaxRows /\ IsInjective(Fill(rest))
         /\ \A p \in DOMAIN Fill(rest) : Fill(rest)[p] \in SourceIds
<1> DEFINE new == {k \in DOMAIN rest : rest[k] \notin ToSet(rows)}
<1>1. rest \in Seq(SourceIds) /\ Len(rest) <= MaxRows /\ IsInjective(rest)
  BY ListsAreRows
<1>2. rows \in Seq(SourceIds) /\ Len(rows) <= MaxRows /\ IsInjective(rows) /\ MaxRows \in Nat
  BY SourcesAssumption DEF SourceTypes
<1>3. new \subseteq 1 .. Len(rest) /\ \A k \in new : rest[k] \in SourceIds /\ \A other \in DOMAIN rows : rest[k] # rows[other]
  BY <1>1 DEF ToSet
<1> DEFINE all == DOMAIN rows \cup {Len(rows) + k : k \in new}
<1>4. Fill(rest) = [p \in all |-> IF p \in DOMAIN rows THEN rows[p] ELSE rest[p - Len(rows)]]
  BY DEF Fill, FilledUp
<1>5. \A p \in all : p \in 1 .. 2 * MaxRows /\ (p \in DOMAIN rows \/ p - Len(rows) \in new)
  BY <1>1, <1>2, <1>3
<1> HIDE DEF new, all
<1>6. \A p \in all : Fill(rest)[p] \in SourceIds
  <2> TAKE p \in all
  <2>1. CASE p \in DOMAIN rows
    BY <2>1, <1>2, <1>4
  <2>2. CASE p \notin DOMAIN rows
    BY <2>2, <1>3, <1>4, <1>5
  <2> QED BY <2>1, <2>2
<1>7. ASSUME NEW p \in all, NEW q \in all, Fill(rest)[p] = Fill(rest)[q] PROVE p = q
  <2>1. CASE p \in DOMAIN rows /\ q \in DOMAIN rows
    BY <2>1, <1>2, <1>4, <1>7 DEF IsInjective
  <2>2. CASE p \notin DOMAIN rows /\ q \notin DOMAIN rows
    <3>1. rest[p - Len(rows)] = rest[q - Len(rows)] /\ p - Len(rows) \in new /\ q - Len(rows) \in new
      BY <2>2, <1>4, <1>5, <1>7
    <3>2. p - Len(rows) \in DOMAIN rest /\ q - Len(rows) \in DOMAIN rest
      BY <3>1, new \subseteq DOMAIN rest DEF new
    <3>3. p - Len(rows) = q - Len(rows)
      BY <3>1, <3>2, <1>1 DEF IsInjective
    <3> QED
      BY <3>3, <1>2, <1>5
  <2>3. CASE p \in DOMAIN rows /\ q \notin DOMAIN rows
    BY <2>3, <1>3, <1>4, <1>5, <1>7
  <2>4. CASE p \notin DOMAIN rows /\ q \in DOMAIN rows
    BY <2>4, <1>3, <1>4, <1>5, <1>7
  <2> QED BY <2>1, <2>2, <2>3, <2>4
<1>8. DOMAIN Fill(rest) = all
  BY <1>4
<1> QED
  BY <1>5, <1>6, <1>7, <1>8 DEF IsInjective

\* Every step keeps the invariant.
LEMMA SourcesInvKept == SourcesInv /\ [SourcesNext]_sourceVars => SourcesInv'
<1> SUFFICES ASSUME SourcesInv, [SourcesNext]_sourceVars PROVE SourcesInv'
  OBVIOUS
<1> USE DEF SourcesInv
<1>0. MaxRows \in Nat
  BY SourcesAssumption
<1>1. CASE FailFirst
  <2>1. UNCHANGED <<outlet, item, rows, nextRow, inHand, out, shownIds>> /\ asking = "first" /\ asking' = "failed"
    BY <1>1 DEF FailFirst
  <2>2. SourceTypes'
    BY <2>1 DEF SourceTypes, Asked
  <2> QED
    BY <2>1, <2>2 DEF Progress, Wanted, ShownRows
<1>2. CASE AnswerLarge
  <2>1. rows' \in Lists(MaxRows) /\ asking = "first" /\ outlet = "openverse" /\ nextRow = 0 /\ inHand = {}
        /\ UNCHANGED <<outlet, item, nextRow, inHand, out>>
    BY <1>2 DEF AnswerLarge, Progress
  <2>2. rows' \in Seq(SourceIds) /\ Len(rows') <= MaxRows /\ IsInjective(rows')
    BY <2>1, ListsAreRows
  <2>3. \/ asking' = "rest" /\ shownIds' = shownIds
        \/ asking' = "ended" /\ shownIds' = rows'
    BY <1>2 DEF AnswerLarge
  <2>4. SourceTypes'
    BY <2>1, <2>2, <2>3 DEF SourceTypes, Asked
  <2>5. Progress' /\ Wanted'
    BY <2>1, <2>3 DEF Progress, Wanted
  <2>6. DOMAIN rows' \subseteq 1 .. 2 * MaxRows /\ \A k \in DOMAIN rows' : rows'[k] \in SourceIds
    BY <2>2, <1>0
  <2>7. ShownRows'
    BY <2>1, <2>2, <2>3, <2>6 DEF ShownRows
  <2> QED
    BY <2>4, <2>5, <2>7
<1>3. CASE AnswerRest
  <2>1. asking = "rest" /\ asking' = "ended" /\ outlet = "openverse" /\ UNCHANGED <<outlet, item, rows, nextRow, inHand, out>>
    BY <1>3 DEF AnswerRest, Progress
  <2>2. SourceTypes' /\ Progress' /\ Wanted'
    BY <2>1 DEF SourceTypes, Asked, Progress, Wanted
  <2>3. /\ DOMAIN shownIds' \subseteq 1 .. 2 * MaxRows /\ IsInjective(shownIds')
        /\ \A p \in DOMAIN shownIds' : shownIds'[p] \in SourceIds
    <3>1. CASE shownIds' = rows
      BY <3>1, <1>0 DEF SourceTypes
    <3>2. CASE \E rest \in Lists(MaxRows) : shownIds' = Fill(rest)
      BY <3>2, FillIsInjective
    <3> QED
      BY <1>3, <3>1, <3>2 DEF AnswerRest
  <2>4. ShownRows'
    BY <2>1, <2>3 DEF ShownRows
  <2> QED
    BY <2>2, <2>4
<1>4. CASE AnswerList
  <2>1. rows' \in Lists(MaxRows) /\ asking = "first" /\ asking' = "objects" /\ nextRow = 0 /\ inHand = {}
        /\ UNCHANGED <<outlet, item, nextRow, inHand, shownIds>>
    BY <1>4 DEF AnswerList, Progress
  <2>2. rows' \in Seq(SourceIds) /\ Len(rows') <= MaxRows /\ IsInjective(rows')
    BY <2>1, ListsAreRows
  <2>3. out' \in Seq(Said) /\ Len(out') = Len(rows') /\ \A k \in DOMAIN out' : out'[k] = "missing"
    <3>1. out' = [k \in 1 .. Len(rows') |-> "missing"]
      BY <1>4, <2>2 DEF AnswerList
    <3> QED
      BY <3>1, <2>2 DEF Said
  <2>4. SourceTypes'
    BY <2>1, <2>2, <2>3 DEF SourceTypes, Asked
  <2>5. Progress' /\ Wanted' /\ ShownRows'
    BY <2>1, <2>3 DEF Progress, Wanted, ShownRows
  <2> QED
    BY <2>4, <2>5
<1>5. CASE TakeRow
  <2>1. UNCHANGED <<outlet, item, asking, rows, out, shownIds>> /\ asking = "objects" /\ nextRow < Len(rows)
        /\ nextRow' = nextRow + 1 /\ inHand' = inHand \cup {nextRow + 1}
    BY <1>5 DEF TakeRow
  <2>2. SourceTypes'
    BY <2>1 DEF SourceTypes
  <2> QED
    BY <2>1, <2>2 DEF Progress, Wanted, ShownRows
<1>6. CASE Fetch
  <2> PICK k \in inHand, answer \in {"null", "object"} :
         /\ answer = "object" /\ outlet = "archive" => Renditions(item) # {}
         /\ answer = "object" /\ outlet = "museum" => rows[k] \in FineIds
         /\ out' = [out EXCEPT ![k] = answer]
         /\ inHand' = inHand \ {k}
    BY <1>6 DEF Fetch, Put
  <2>1. UNCHANGED <<outlet, item, asking, rows, nextRow, shownIds>> /\ asking = "objects" /\ Len(out) = Len(rows)
    BY <1>6 DEF Fetch, Progress
  <2>2. out' \in Seq(Said) /\ Len(out') = Len(out) /\ \A j \in DOMAIN out : out'[j] = IF j = k THEN answer ELSE out[j]
    <3>1. out \in Seq(Said) /\ answer \in Said
      BY DEF SourceTypes, Said
    <3>2. k \in 1 .. Len(out)
      BY <2>1 DEF SourceTypes
    <3> QED
      BY <3>1, <3>2, ExceptSeq
  <2>3. SourceTypes'
    BY <2>1, <2>2 DEF SourceTypes
  <2>4. Progress' /\ ShownRows'
    BY <2>1, <2>2 DEF Progress, ShownRows
  <2>5. Wanted'
    BY <2>1, <2>2 DEF Wanted, SourceTypes
  <2> QED
    BY <2>3, <2>4, <2>5
<1>7. CASE EndObjects
  <2>1. UNCHANGED <<outlet, item, rows, nextRow, inHand, out>> /\ asking = "objects" /\ asking' = "ended" /\ inHand = {}
    BY <1>7 DEF EndObjects
  <2> DEFINE kept == {k \in DOMAIN rows : out[k] = "object"}
  <2>2. shownIds' = [k \in kept |-> rows[k]]
    BY <1>7 DEF EndObjects, Restrict
  <2>3. SourceTypes' /\ Progress' /\ Wanted'
    BY <2>1 DEF SourceTypes, Asked, Progress, Wanted
  <2>4. \A k \in kept : /\ k \in DOMAIN rows /\ k \in DOMAIN out /\ k \in 1 .. 2 * MaxRows /\ rows[k] \in SourceIds
                        /\ outlet = "museum" => rows[k] \in FineIds
                        /\ outlet = "archive" => Renditions(item) # {}
    <3>1. DOMAIN out = DOMAIN rows
      BY <2>1 DEF SourceTypes, Progress
    <3> QED
      BY <2>1, <3>1, <1>0 DEF SourceTypes, Wanted
  <2> HIDE DEF kept
  <2>5. DOMAIN shownIds' = kept /\ \A k \in kept : shownIds'[k] = rows[k]
    BY <2>2
  <2>6. IsInjective(shownIds')
    BY <2>4, <2>5 DEF SourceTypes, IsInjective
  <2>7. ShownRows'
    BY <2>1, <2>4, <2>5, <2>6 DEF ShownRows
  <2> QED
    BY <2>3, <2>7
<1>8. CASE UNCHANGED sourceVars
  BY <1>8 DEF sourceVars, SourceTypes, Progress, Wanted, ShownRows
<1> QED
  BY <1>1, <1>2, <1>3, <1>4, <1>5, <1>6, <1>7, <1>8 DEF SourcesNext

\* The size of a rendition is a number below Infinity.
LEMMA SidesAreKnown ==
  ASSUME NEW clips \in ArchiveItems
  PROVE  \A f \in Renditions(clips) : f.side \in 0 .. Infinity - 1
<1>1. Renditions(clips) \subseteq ToSet(clips)
  BY DEF Renditions, Family
<1>2. \A f \in ToSet(clips) : \E n \in DOMAIN clips : f = clips[n]
  BY DEF ToSet
<1>3. \A n \in DOMAIN clips : clips[n].side \in 0 .. Infinity - 1
  BY SourcesAssumption
<1> QED
  BY <1>1, <1>2, <1>3

\* Of the renditions of an item the one taken is the largest that fits, or else the smallest.
LEMMA PickIsRight ==
  ASSUME NEW clips \in ArchiveItems, Renditions(clips) # {}
  PROVE  LET pick == PickRendition(clips) IN
           /\ pick \in Renditions(clips)
           /\ \/ Side(pick) <= Res
              \/ \A f \in Renditions(clips) : Res < Side(f) /\ Side(pick) <= Side(f)
<1> DEFINE all == Renditions(clips)
           fit == {f \in all : Side(f) <= Res}
<1>0. Infinity \in Nat
  BY SMT DEF Infinity
<1>1. \A f \in all : Side(f) \in Nat
  BY <1>0, SidesAreKnown DEF Side
<1>2. Res \in Nat
  BY SourcesAssumption, <1>0
<1> HIDE DEF all
<1>3. CASE fit # {}
  <2>1. PICK n \in {Res - Side(f) : f \in fit} : \A m \in {Res - Side(f) : f \in fit} : n <= m
    <3>1. {Res - Side(f) : f \in fit} \subseteq Nat /\ {Res - Side(f) : f \in fit} # {}
      BY <1>1, <1>2, <1>3
    <3> QED
      BY <3>1, LeastNumber
  <2>2. PICK f \in fit : n = Res - Side(f)
    BY <2>1
  <2>3. \A g \in fit : Res - Side(f) <= Res - Side(g)
    BY <2>1, <2>2
  <2>4. \A g \in fit : Side(g) <= Side(f)
    BY <2>3, <1>1, <1>2
  <2>5. PickRendition(clips) = CHOOSE x \in fit : \A g \in fit : Side(g) <= Side(x)
    BY <1>3 DEF PickRendition, all
  <2>6. PickRendition(clips) \in fit
    <3> HIDE DEF fit
    <3> QED BY <2>4, <2>5
  <2> QED
    BY <2>6 DEF all
<1>4. CASE fit = {}
  <2>0. all # {}
    BY DEF all
  <2>1. PICK n \in {Side(f) : f \in all} : \A m \in {Side(f) : f \in all} : n <= m
    <3>1. {Side(f) : f \in all} \subseteq Nat /\ {Side(f) : f \in all} # {}
      BY <1>1, <2>0
    <3> QED
      BY <3>1, LeastNumber
  <2>2. PICK f \in all : n = Side(f)
    BY <2>1
  <2>3. \A g \in all : Side(f) <= Side(g)
    BY <2>1, <2>2
  <2>5. PickRendition(clips) = CHOOSE x \in all : \A g \in all : Side(x) <= Side(g)
    BY <1>4 DEF PickRendition, all
  <2>6. PickRendition(clips) \in all /\ \A g \in all : Side(PickRendition(clips)) <= Side(g)
    BY <2>3, <2>5
  <2>7. \A f2 \in all : Res < Side(f2)
    BY <1>1, <1>2, <1>4
  <2> QED
    BY <2>6, <2>7 DEF all
<1> QED
  BY <1>3, <1>4

\* What the invariant says of the ids shown and of the clip that plays.
LEMMA SourcesAreSafe ==
  SourcesInv => SourcesTypeOK /\ NoRowTwice /\ AnswersAtTheirRows /\ FirstFilmPlays /\ FitsIfAnyFits
<1> SUFFICES ASSUME SourcesInv
             PROVE  SourcesTypeOK /\ NoRowTwice /\ AnswersAtTheirRows /\ FirstFilmPlays /\ FitsIfAnyFits
  OBVIOUS
<1> USE DEF SourcesInv
<1>1. SourcesTypeOK
  BY DEF SourceTypes, ShownRows, SourcesTypeOK, Asked, Said
<1>2. NoRowTwice /\ AnswersAtTheirRows
  BY DEF ShownRows, NoRowTwice, AnswersAtTheirRows
<1> DEFINE pick == PickRendition(item)
           all == Renditions(item)
<1>3. ASSUME outlet = "archive", DOMAIN shownIds # {}
      PROVE  /\ pick \in all
             /\ \/ Side(pick) <= Res
                \/ \A f \in all : Res < Side(f) /\ Side(pick) <= Side(f)
  BY <1>3, PickIsRight DEF ShownRows, SourceTypes
<1>4. \A f \in all : f.side \in 0 .. Infinity - 1
  BY SidesAreKnown DEF SourceTypes
<1>5. FirstFilmPlays
  <2> SUFFICES ASSUME outlet = "archive", DOMAIN shownIds # {}, Originals(item) # {},
                      \A film \in {f.film : f \in ToSet(item)} : IsPrefix(FirstFilm(item), film) => film = FirstFilm(item)
               PROVE  pick.film = FirstFilm(item)
    BY DEF FirstFilmPlays
  <2>1. pick \in ToSet(item) /\ IsPrefix(FirstFilm(item), pick.film)
    BY <1>3 DEF Renditions, Family
  <2> QED
    BY <2>1
<1>6. FitsIfAnyFits
  <2> SUFFICES ASSUME outlet = "archive", DOMAIN shownIds # {}
               PROVE  \/ pick.side \in 1 .. Res
                      \/ \A f \in all : f.side \notin 1 .. Res /\ (pick.side = 0 => f.side = 0)
    BY DEF FitsIfAnyFits
  <2>0. Infinity \in Nat
    BY SMT DEF Infinity
  <2>3. Res \in 0 .. Infinity - 1
    BY SourcesAssumption
  <2> HIDE DEF pick, all
  <2>1. CASE Side(pick) <= Res
    BY <2>0, <2>3, <2>1, <1>3, <1>4 DEF Side
  <2>2. CASE \A f \in all : Res < Side(f) /\ Side(pick) <= Side(f)
    BY <2>0, <2>3, <2>2, <1>3, <1>4 DEF Side
  <2> QED BY <2>1, <2>2, <1>3
<1> QED
  BY <1>1, <1>2, <1>5, <1>6

-------------------------------------------------------------------------------
\* draw.mjs deals directions and styles.

PageDraws == [kind : {"page"}, dealt : Directions]
AppDraws == [kind : {"app"}, dealt : Styles]

DrawInv ==
  /\ hist \in Seq(PageDraws \cup AppDraws)
  /\ sheet \in PageSheets \cup AppSheets \cup {NoSheet, Torn}
  \* What was redrawn away is avoided, and what is avoided is not dealt.
  /\ sheet.kind = "page" => rejected \subseteq sheet.avoid /\ sheet.dealt \notin sheet.avoid
  /\ rejected \subseteq Directions
  \* The options dealt are out of what is left to pick from.
  /\ options # NoOptions =>
       /\ options = [want |-> options.want, pool |-> options.pool, out |-> options.out, rest |-> options.rest]
       /\ options.want \in 2 .. 3 /\ options.pool \subseteq Directions /\ options.rest \subseteq options.pool
       /\ options.out \in Seq(options.pool)
       /\ IsInjective(options.out) /\ options.rest \cap ToSet(options.out) = {}

\* A list of n entries holds at most n different ones.
LEMMA Pigeonhole ==
  ASSUME NEW n \in Nat, NEW list, NEW T, \A t \in T : \E ix \in 1 .. n : list[ix] = t
  PROVE  IsFiniteSet(T) /\ Cardinality(T) <= n
<1> DEFINE I == {ix \in 1 .. n : list[ix] \in T}
           f == [ix \in I |-> list[ix]]
<1>1. IsFiniteSet(1 .. n) /\ Cardinality(1 .. n) = n
  BY FS_Interval
<1>2. IsFiniteSet(I) /\ Cardinality(I) <= n
  <2>1. I \in SUBSET (1 .. n)
    OBVIOUS
  <2> QED BY <1>1, <2>1, FS_Subset
<1>3. f \in Surjection(I, T)
  BY DEF Surjection
<1>4. IsFiniteSet(T) /\ Cardinality(T) <= Cardinality(I)
  BY <1>2, <1>3, FS_Surjection
<1>5. Cardinality(T) \in Nat /\ Cardinality(I) \in Nat
  BY <1>2, <1>4, FS_CardinalityType
<1> QED BY <1>2, <1>4, <1>5

\* A pool is finite and holds only directions that are not avoided.
LEMMA PoolsAreDirections ==
  ASSUME NEW sector \in SUBSET Directions, NEW avoid \in SUBSET Directions
  PROVE  /\ DirectionPool(sector, avoid) \subseteq Directions \ avoid
         /\ IsFiniteSet(DirectionPool(sector, avoid)) /\ Cardinality(DirectionPool(sector, avoid)) \in Nat
<1>1. DirectionPool(sector, avoid) \subseteq Directions \ avoid
  BY DEF DirectionPool
<1>2. DirectionPool(sector, avoid) \in SUBSET Directions
  BY <1>1
<1> QED BY <1>1, <1>2, DrawAssumption, FS_Subset, FS_CardinalityType

\* What was dealt lately: the directions of the last n entries, as far as there are so many.
LEMMA RecentEntries ==
  ASSUME DrawInv, NEW n \in Nat
  PROVE  /\ \A d \in Dealt(FirstEntries(n), "page") :
              \E ix \in 1 .. n : ix <= Len(hist) /\ hist[ix].kind = "page" /\ hist[ix].dealt = d
         /\ \A ix \in 1 .. n : ix <= Len(hist) /\ hist[ix].kind = "page" => hist[ix].dealt \in Dealt(FirstEntries(n), "page")
         /\ IsFiniteSet(Dealt(FirstEntries(n), "page")) /\ Cardinality(Dealt(FirstEntries(n), "page")) <= n
<1> DEFINE k == IF n < Len(hist) THEN n ELSE Len(hist)
<1>1. Len(hist) \in Nat /\ hist \in Seq(PageDraws \cup AppDraws)
  BY DEF DrawInv
<1>2. k \in Nat /\ k <= n /\ k <= Len(hist) /\ \A ix \in 1 .. n : ix <= Len(hist) => ix \in 1 .. k
  BY <1>1
<1>3. FirstEntries(n) = SubSeq(hist, 1, k)
  BY <1>1 DEF FirstEntries
<1> HIDE DEF k
<1>4. Len(SubSeq(hist, 1, k)) = k /\ \A ix \in 1 .. k : SubSeq(hist, 1, k)[ix] = hist[ix]
  BY <1>1, <1>2
<1>5. ToSet(FirstEntries(n)) = {hist[ix] : ix \in 1 .. k}
  <2>1. DOMAIN SubSeq(hist, 1, k) = 1 .. k
    BY <1>1, <1>2
  <2> QED BY <1>3, <1>4, <2>1 DEF ToSet
<1>6. \A d \in Dealt(FirstEntries(n), "page") :
        \E ix \in 1 .. n : ix <= Len(hist) /\ hist[ix].kind = "page" /\ hist[ix].dealt = d
  BY <1>1, <1>2, <1>5 DEF Dealt
<1>7. \A ix \in 1 .. n : ix <= Len(hist) /\ hist[ix].kind = "page" => hist[ix].dealt \in Dealt(FirstEntries(n), "page")
  BY <1>2, <1>5 DEF Dealt
<1>8. \A d \in Dealt(FirstEntries(n), "page") : \E ix \in 1 .. n : [m \in 1 .. n |-> hist[m].dealt][ix] = d
  BY <1>6
<1>9. IsFiniteSet(Dealt(FirstEntries(n), "page")) /\ Cardinality(Dealt(FirstEntries(n), "page")) <= n
  BY <1>8, Pigeonhole
<1> QED BY <1>6, <1>7, <1>9

\* The invariant holds at the start.
LEMMA DrawInitInv == DrawInit => DrawInv
  BY DEF DrawInit, DrawInv, NoSheet

\* The history stays a list of draws.
LEMMA RememberedIsASeq ==
  ASSUME DrawInv, NEW kind, NEW dealt, [kind |-> kind, dealt |-> dealt] \in PageDraws \cup AppDraws
  PROVE  Remember(kind, dealt) \in Seq(PageDraws \cup AppDraws)
<1> DEFINE new == <<[kind |-> kind, dealt |-> dealt]>> \o hist
           k == AtMost(HistoryKept, Len(hist) + 1)
<1>1. new \in Seq(PageDraws \cup AppDraws) /\ Len(new) = Len(hist) + 1
  BY DEF DrawInv
<1>2. k \in 1 .. Len(new)
  BY <1>1, DrawAssumption DEF AtMost, DrawInv
<1> HIDE DEF new, k
<1>3. SubSeq(new, 1, k) \in Seq(PageDraws \cup AppDraws)
  BY <1>1, <1>2
<1> QED BY <1>3 DEF Remember, new, k

\* A sheet that is saved is whole, or torn by a kill.
LEMMA SavedSheets ==
  ASSUME DrawInv, NEW new, NEW entered \in BOOLEAN, Save(new, entered),
         entered => [kind |-> new.kind, dealt |-> new.dealt] \in PageDraws \cup AppDraws
  PROVE  (sheet' = new \/ sheet' = Torn) /\ hist' \in Seq(PageDraws \cup AppDraws)
<1>1. hist \in Seq(PageDraws \cup AppDraws) /\ <<>> \in Seq(PageDraws \cup AppDraws)
  BY DEF DrawInv
<1> QED BY <1>1, RememberedIsASeq DEF Save

\* Every step keeps the invariant.
LEMMA DrawInvKept == DrawInv /\ [DrawNext]_drawVars => DrawInv'
<1> SUFFICES ASSUME DrawInv, [DrawNext]_drawVars PROVE DrawInv'
  OBVIOUS
<1>0. NoSheet.kind = "none" /\ Torn.kind = "torn"
  BY DEF NoSheet, Torn
<1>1. ASSUME NEW new \in PageSheets, Save(new, TRUE), UNCHANGED options, rejected' \subseteq new.avoid,
             new.dealt \notin new.avoid, rejected' \subseteq Directions
      PROVE  DrawInv'
  <2>1. [kind |-> new.kind, dealt |-> new.dealt] \in PageDraws \cup AppDraws
    BY DEF PageSheets, PageDraws
  <2>2. (sheet' = new \/ sheet' = Torn) /\ hist' \in Seq(PageDraws \cup AppDraws)
    BY <1>1, <2>1, SavedSheets
  <2> QED BY <1>0, <1>1, <2>2 DEF DrawInv
<1>2. ASSUME NEW new \in AppSheets, NEW entered \in BOOLEAN, Save(new, entered), UNCHANGED options, rejected' \subseteq Directions
      PROVE  DrawInv'
  <2>1. [kind |-> new.kind, dealt |-> new.dealt] \in PageDraws \cup AppDraws
    BY DEF AppSheets, AppDraws
  <2>2. (sheet' = new \/ sheet' = Torn) /\ hist' \in Seq(PageDraws \cup AppDraws)
    BY <1>2, <2>1, SavedSheets
  <2>3. new.kind = "app"
    BY DEF AppSheets
  <2> QED BY <1>0, <1>2, <2>2, <2>3 DEF DrawInv
<1>3. ASSUME NEW sector \in Sectors, Draw(sector) PROVE DrawInv'
  <2>1. PICK dealt \in Candidates(DirectionPool(sector, {})) :
          Save([kind |-> "page", dealt |-> dealt, sector |-> sector, avoid |-> {}], TRUE)
    BY <1>3 DEF Draw
  <2>2. dealt \in Directions /\ sector \subseteq Directions
    BY PoolsAreDirections, DrawAssumption DEF Candidates, Fresh
  <2>3. [kind |-> "page", dealt |-> dealt, sector |-> sector, avoid |-> {}] \in PageSheets
    BY <2>2 DEF PageSheets
  <2> QED BY <1>1, <1>3, <2>1, <2>3 DEF Draw
<1>4. ASSUME NEW sector \in Sectors, NEW dealt \in Directions, DrawChosen(sector, dealt) PROVE DrawInv'
  <2>1. [kind |-> "page", dealt |-> dealt, sector |-> sector, avoid |-> {}] \in PageSheets
    BY DEF PageSheets
  <2> QED BY <1>1, <1>4, <2>1 DEF DrawChosen
<1>5. ASSUME RedrawDirection PROVE DrawInv'
  <2>0. sheet \in PageSheets
    BY <1>0, <1>5 DEF RedrawDirection, DrawInv, AppSheets
  <2>1. PICK dealt, new : dealt \in Candidates(DirectionPool(sheet.sector, Avoided(sheet))) /\
          new = [sheet EXCEPT !.dealt = dealt, !.avoid = Avoided(sheet)] /\ Save(new, TRUE)
    BY <1>5 DEF RedrawDirection
  <2>2. Avoided(sheet) \subseteq Directions /\ sheet.sector \subseteq Directions
    BY <2>0, DrawAssumption DEF PageSheets, Avoided
  <2>3. dealt \in Directions \ Avoided(sheet)
    BY <2>1, <2>2, PoolsAreDirections DEF Candidates, Fresh
  <2>4. new = [kind |-> "page", dealt |-> dealt, sector |-> sheet.sector, avoid |-> Avoided(sheet)]
    <3>1. PICK old, sector, avoid : sheet = [kind |-> "page", dealt |-> old, sector |-> sector, avoid |-> avoid]
      BY <2>0 DEF PageSheets
    <3>2. new = [kind |-> "page", dealt |-> dealt, sector |-> sector, avoid |-> Avoided(sheet)]
      BY <2>1, <3>1
    <3> QED BY <3>1, <3>2
  <2>5. new \in PageSheets /\ new.avoid = Avoided(sheet) /\ new.dealt = dealt
    BY <2>0, <2>2, <2>3, <2>4 DEF PageSheets
  <2>6. rejected' \subseteq Avoided(sheet) /\ UNCHANGED options
    BY <1>5 DEF RedrawDirection, DrawInv, Avoided
  <2> QED BY <1>1, <2>1, <2>2, <2>3, <2>5, <2>6
<1>6. ASSUME DrawApp PROVE DrawInv'
  <2>1. PICK style \in Styles : Save([kind |-> "app", dealt |-> style], TRUE)
    BY <1>6 DEF DrawApp, Fresh
  <2>2. [kind |-> "app", dealt |-> style] \in AppSheets
    BY DEF AppSheets
  <2> QED BY <1>2, <1>6, <2>1, <2>2 DEF DrawApp
<1>7. ASSUME RedrawStyle PROVE DrawInv'
  <2>1. PICK style \in Styles : Save([kind |-> "app", dealt |-> style], FALSE)
    BY <1>7 DEF RedrawStyle, Fresh
  <2>2. [kind |-> "app", dealt |-> style] \in AppSheets
    BY DEF AppSheets
  <2>3. UNCHANGED <<options, rejected>>
    BY <1>7 DEF RedrawStyle
  <2> QED BY <1>2, <2>1, <2>2, <2>3 DEF DrawInv
<1>8. ASSUME NEW sector \in Sectors, NEW n \in 2 .. 3, DealOptions(sector, n) PROVE DrawInv'
  <2> DEFINE pool == DirectionPool(sector, {})
             rest == Fresh(pool, RecentDirections(Cardinality(pool) - n))
  <2>1. options' = [want |-> n, pool |-> pool, out |-> <<>>, rest |-> rest] /\ UNCHANGED <<hist, sheet, rejected>>
    BY <1>8 DEF DealOptions
  <2>2. pool \subseteq Directions /\ rest \subseteq pool
    BY PoolsAreDirections, DrawAssumption DEF Fresh
  <2> HIDE DEF pool, rest
  <2>3. /\ options'.want = n /\ options'.pool = pool /\ options'.out = <<>> /\ options'.rest = rest
        /\ options' = [want |-> options'.want, pool |-> options'.pool, out |-> options'.out, rest |-> options'.rest]
    BY <2>1
  <2>4. IsInjective(<<>>) /\ rest \cap ToSet(<<>>) = {}
    BY DEF IsInjective, ToSet
  <2>5. options'.out \in Seq(options'.pool)
    BY <2>3
  <2> QED BY <2>1, <2>2, <2>3, <2>4, <2>5 DEF DrawInv
<1>9. ASSUME PickOption PROVE DrawInv'
  <2>0. /\ options = [want |-> options.want, pool |-> options.pool, out |-> options.out, rest |-> options.rest]
        /\ options.want \in 2 .. 3 /\ options.pool \subseteq Directions /\ options.rest \subseteq options.pool
        /\ options.out \in Seq(options.pool)
        /\ IsInjective(options.out) /\ options.rest \cap ToSet(options.out) = {}
    BY <1>9 DEF PickOption, DrawInv
  <2>1. PICK d \in Rest : options' = [options EXCEPT !.out = Append(@, d), !.rest = Rest \ {d}]
    BY <1>9 DEF PickOption
  <2>2. Rest \subseteq options.pool /\ Rest \cap ToSet(options.out) = {}
    BY <2>0 DEF Rest
  <2>3. options' = [want |-> options.want, pool |-> options.pool, out |-> Append(options.out, d), rest |-> Rest \ {d}]
    BY <2>0, <2>1
  <2>4. /\ options'.want = options.want /\ options'.pool = options.pool
        /\ options'.out = Append(options.out, d) /\ options'.rest = Rest \ {d}
        /\ options' = [want |-> options'.want, pool |-> options'.pool, out |-> options'.out, rest |-> options'.rest]
    BY <2>3
  <2>5. /\ Append(options.out, d) \in Seq(options.pool) /\ DOMAIN options.out = 1 .. Len(options.out)
        /\ DOMAIN Append(options.out, d) = 1 .. Len(options.out) + 1 /\ Len(options.out) \in Nat
        /\ Append(options.out, d)[Len(options.out) + 1] = d
        /\ \A ix \in 1 .. Len(options.out) : Append(options.out, d)[ix] = options.out[ix]
    BY <2>0, <2>1, <2>2
  <2>6. \A ix \in DOMAIN options.out : options.out[ix] # d
    BY <2>2, <2>1 DEF ToSet
  <2>7. IsInjective(Append(options.out, d))
    BY <2>0, <2>5, <2>6 DEF IsInjective
  <2>8. (Rest \ {d}) \cap ToSet(Append(options.out, d)) = {}
    BY <2>2, <2>5 DEF ToSet
  <2>9. UNCHANGED <<hist, sheet, rejected>>
    BY <1>9 DEF PickOption
  <2> QED BY <2>0, <2>2, <2>4, <2>5, <2>7, <2>8, <2>9 DEF DrawInv
<1>10. ASSUME ShowOptions PROVE DrawInv'
  BY <1>10 DEF ShowOptions, DrawInv
<1>11. ASSUME RemoveSheet PROVE DrawInv'
  BY <1>0, <1>11 DEF RemoveSheet, DrawInv
<1>12. CASE UNCHANGED drawVars
  BY <1>12 DEF drawVars, DrawInv
<1> QED BY <1>3, <1>4, <1>5, <1>6, <1>7, <1>8, <1>9, <1>10, <1>11, <1>12 DEF DrawNext

\* With nothing left to pick from, all of the pool is dealt.
LEMMA DrawIsSafe == DrawInv => RejectedStaysAway /\ OptionsSuffice
<1>1. DrawInv => RejectedStaysAway
  BY DEF DrawInv, RejectedStaysAway
<1>2. ASSUME DrawInv, options # NoOptions PROVE IsInjective(options.out) /\ (Rest = {} => ~MoreOptions)
  <2>1. /\ options.pool \in SUBSET Directions /\ options.out \in Seq(options.pool)
        /\ IsInjective(options.out)
    BY <1>2 DEF DrawInv
  <2>2. ASSUME Rest = {} PROVE ~MoreOptions
    <3>1. options.pool \subseteq ToSet(options.out)
      BY <2>2 DEF Rest
    <3>2. Len(options.out) \in Nat /\ DOMAIN options.out = 1 .. Len(options.out)
      BY <2>1
    <3>3. \A t \in options.pool : \E ix \in 1 .. Len(options.out) : options.out[ix] = t
      BY <3>1, <3>2 DEF ToSet
    <3>4. Cardinality(options.pool) <= Len(options.out)
      BY <3>2, <3>3, Pigeonhole
    <3>5. Cardinality(options.pool) \in Nat
      BY <2>1, DrawAssumption, FS_Subset, FS_CardinalityType
    <3> QED BY <3>2, <3>4, <3>5 DEF MoreOptions
  <2> QED BY <2>1, <2>2
<1> QED BY <1>1, <1>2 DEF OptionsSuffice

\* Of two directions or more, fewer are recent than there are, and the last one is recent.
LEMMA DrawStep ==
  ASSUME DrawInv, NEW sector \in Sectors, Draw(sector), sheet'.kind = "page",
         sheet'.dealt \in Dealt(FirstEntries(1), "page")
  PROVE  DirectionPool(sector, {}) = Dealt(FirstEntries(1), "page")
<1> DEFINE pool == DirectionPool(sector, {})
           last == Dealt(FirstEntries(1), "page")
           n == Cardinality(pool) - 1
           few == AtMost(Recent, n)
           recent == Dealt(FirstEntries(few), "page")
<1>1. PICK dealt \in Candidates(pool) : Save([kind |-> "page", dealt |-> dealt, sector |-> sector, avoid |-> {}], TRUE)
  BY DEF Draw
<1>2. sheet'.dealt = dealt
  <2>1. Torn.kind # "page"
    BY DEF Torn
  <2> QED BY <1>1, <2>1 DEF Save
<1>3. IsFiniteSet(pool) /\ Cardinality(pool) \in Nat
  BY PoolsAreDirections, DrawAssumption
<1>4. dealt \in Fresh(pool, recent)
  BY <1>1 DEF Candidates, RecentDirections
<1>5. dealt \in pool /\ (pool \ recent # {} => dealt \notin recent)
  BY <1>4 DEF Fresh
<1>6. \A d, e \in last : d = e
  <2>1. \A d \in last : \E ix \in 1 .. 1 : ix <= Len(hist) /\ hist[ix].kind = "page" /\ hist[ix].dealt = d
    BY RecentEntries
  <2> QED BY <2>1
<1>7. dealt \in last
  BY <1>2
<1>8. CASE Cardinality(pool) <= 1
  <2>1. Cardinality(pool) # 0
    BY <1>3, <1>5, FS_EmptySet
  <2>2. Cardinality(pool) = 1
    BY <1>3, <1>8, <2>1
  <2>3. \E x : pool = {x}
    BY <1>3, <2>2, FS_Singleton
  <2> QED BY <1>5, <1>6, <1>7, <2>3
<1>9. CASE Cardinality(pool) > 1
  <2>1. n \in Nat /\ n >= 1
    BY <1>3, <1>9
  <2>2. few \in Nat /\ few >= 1 /\ few <= n
    BY <2>1, DrawAssumption DEF AtMost
  <2> HIDE DEF few
  <2>3. last \subseteq recent
    <3>1. \A d \in last : \E ix \in 1 .. 1 : ix <= Len(hist) /\ hist[ix].kind = "page" /\ hist[ix].dealt = d
      BY RecentEntries
    <3>2. \A ix \in 1 .. few : ix <= Len(hist) /\ hist[ix].kind = "page" => hist[ix].dealt \in recent
      BY <2>2, RecentEntries
    <3> QED BY <2>2, <3>1, <3>2
  <2>4. pool \subseteq recent
    BY <1>5, <1>7, <2>3
  <2>5. IsFiniteSet(recent) /\ Cardinality(recent) <= few
    BY <2>2, RecentEntries
  <2>6. Cardinality(pool) <= Cardinality(recent)
    BY <2>4, <2>5, FS_Subset
  <2>7. Cardinality(recent) \in Nat
    BY <2>5, FS_CardinalityType
  <2> QED BY <1>3, <2>2, <2>5, <2>6, <2>7
<1> QED BY <1>3, <1>8, <1>9

-------------------------------------------------------------------------------
\* draw.mjs keeps a page or an app on its sheet.

\* What a section may show: a blueprint, dealt to its own role or borrowed, or nothing.
ShownBy(s, role) ==
  /\ s.role = role /\ s.named \in BOOLEAN
  /\ \/ s.id = None /\ s.shape = None /\ s.named = FALSE
     \/ \E b \in Blueprints : s.id = b.id /\ s.shape = b.shape /\ (s.named = FALSE => b.role = role)

Shown == [id : Ids \cup {None}, role : Roles, shape : {b.shape : b \in Blueprints} \cup {None}, named : BOOLEAN]

SheetInv ==
  /\ sections \in Seq(Shown) /\ Len(sections) <= Len(Argument)
  /\ \A n \in 1 .. Len(sections) : ShownBy(sections[n], Argument[n])
  /\ \A n, m \in 1 .. Len(sections) :
       n # m /\ sections[n].id = sections[m].id /\ sections[n].id # None =>
         sections[n].named = TRUE \/ sections[m].named = TRUE \/ Scarce(sections[n].role)

\* What a section may be: empty, dealt to its role, or borrowed by name.
LEMMA ShownSections ==
  ASSUME NEW role \in Roles
  PROVE  /\ Empty(role) \in Shown /\ ShownBy(Empty(role), role)
         /\ \A b \in Blueprints, named \in BOOLEAN : Section(b, role, named) \in Shown
         /\ \A b \in Blueprints, named \in BOOLEAN :
              (named = FALSE => b.role = role) => ShownBy(Section(b, role, named), role)
<1>1. Empty(role) \in Shown
  BY DEF Shown, Empty
<1>2. ASSUME NEW b \in Blueprints, NEW named \in BOOLEAN PROVE Section(b, role, named) \in Shown
  BY DEF Shown, Section, Ids
<1>3. Empty(role).role = role /\ Empty(role).id = None /\ Empty(role).shape = None /\ Empty(role).named = FALSE
  BY DEF Empty
<1>4. ASSUME NEW b \in Blueprints, NEW named \in BOOLEAN, named = FALSE => b.role = role
      PROVE  ShownBy(Section(b, role, named), role)
  <2>1. LET s == Section(b, role, named) IN s.role = role /\ s.id = b.id /\ s.shape = b.shape /\ s.named = named
    BY DEF Section
  <2> QED BY <1>4, <2>1 DEF ShownBy
<1> QED BY <1>1, <1>2, <1>3, <1>4 DEF ShownBy

\* The argument gives every place a role.
LEMMA ArgumentIsASeq ==
  Argument \in Seq(Roles) /\ Len(Argument) \in Nat /\ DOMAIN Argument = 1 .. Len(Argument)
  /\ \A n \in 1 .. Len(Argument) : Argument[n] \in Roles
  BY SheetAssumption

\* What the coin leaves of a role is written for it.
LEMMA PoolsOfARole ==
  ASSUME NEW role, NEW pool \in CoinPools(role)
  PROVE  pool \subseteq SectionPool(role) /\ \A b \in pool : b \in Blueprints /\ b.role = role
<1>1. pool \subseteq SectionPool(role)
  BY DEF CoinPools, Led
<1>2. SectionPool(role) \subseteq {b \in Blueprints : b.role = role}
  BY DEF SectionPool, Prefer
<1> QED BY <1>1, <1>2

\* A blueprint is dealt a second time only if the page has used up what the coin leaves of its role.
LEMMA UsedUp ==
  ASSUME SheetInv, NEW role, NEW pool \in CoinPools(role), \A b \in pool : b.id \in IdsOf(sections)
  PROVE  Scarce(role)
<1> DEFINE list == [n \in 1 .. Len(sections) |-> CHOOSE b \in Blueprints : b.id = sections[n].id]
<1>1. Len(sections) \in Nat /\ DOMAIN sections = 1 .. Len(sections) /\ Len(sections) <= Len(Argument)
  BY DEF SheetInv
<1>2. ASSUME NEW b \in pool PROVE \E ix \in 1 .. Len(sections) : list[ix] = b
  <2>1. b \in Blueprints
    BY PoolsOfARole
  <2>2. PICK ix \in 1 .. Len(sections) : b.id = sections[ix].id
    BY <1>1, <1>2 DEF IdsOf
  <2>3. (CHOOSE c \in Blueprints : c.id = sections[ix].id) = b
    BY <2>1, <2>2, SheetAssumption
  <2> QED BY <2>3
<1> HIDE DEF list
<1>3. IsFiniteSet(pool) /\ Cardinality(pool) <= Len(sections)
  BY <1>1, <1>2, Pigeonhole
<1>4. Cardinality(pool) \in Nat
  BY <1>3, FS_CardinalityType
<1> QED BY <1>1, <1>3, <1>4, ArgumentIsASeq DEF Scarce

\* What is dealt: a blueprint of the role that is new to the page unless the role is scarce, and
\* looks like its neighbours only if all that is unused does.
LEMMA DealtBlueprints ==
  ASSUME SheetInv, NEW role, NEW shapes, NEW b \in Dealable(role, IdsOf(sections), shapes)
  PROVE  /\ b \in Blueprints /\ b.role = role
         /\ b.id \in IdsOf(sections) => Scarce(role)
         /\ b.shape \in shapes => \E pool \in CoinPools(role) :
              \A c \in pool : c.id \notin IdsOf(sections) => c.shape \in shapes
<1> DEFINE unused(pool) == Prefer(pool, {c \in pool : c.id \notin IdsOf(sections)})
<1>1. PICK pool \in CoinPools(role) : b \in Prefer(unused(pool), {c \in unused(pool) : c.shape \notin shapes})
  BY DEF Dealable
<1>2. b \in unused(pool)
  BY <1>1 DEF Prefer
<1>3. b \in pool
  BY <1>2 DEF Prefer
<1>4. b \in Blueprints /\ b.role = role
  BY <1>3, PoolsOfARole
<1>5. ASSUME b.id \in IdsOf(sections) PROVE Scarce(role)
  <2>1. \A c \in pool : c.id \in IdsOf(sections)
    BY <1>2, <1>5 DEF Prefer
  <2> QED BY <2>1, UsedUp
<1>6. ASSUME b.shape \in shapes PROVE \A c \in pool : c.id \notin IdsOf(sections) => c.shape \in shapes
  <2>1. \A c \in unused(pool) : c.shape \in shapes
    BY <1>1, <1>6 DEF Prefer
  <2>2. \A c \in pool : c.id \notin IdsOf(sections) => c \in unused(pool)
    BY DEF Prefer
  <2> QED BY <2>1, <2>2
<1> QED BY <1>4, <1>5, <1>6

\* Nothing can be dealt only if there is nothing for the role.
LEMMA NothingDealt ==
  ASSUME NEW role, NEW shapes, Dealable(role, IdsOf(sections), shapes) = {}
  PROVE  \E pool \in CoinPools(role) : pool = {}
<1> DEFINE pool == SectionPool(role)
           unused == Prefer(pool, {b \in pool : b.id \notin IdsOf(sections)})
<1>1. pool \in CoinPools(role)
  BY DEF CoinPools
<1>2. Prefer(unused, {b \in unused : b.shape \notin shapes}) = {}
  BY <1>1 DEF Dealable
<1>3. unused = {}
  BY <1>2 DEF Prefer
<1>4. pool = {}
  BY <1>3 DEF Prefer
<1> QED BY <1>1, <1>4

\* The section that a redraw of a role takes is of that role.
LEMMA FirstOfARole ==
  ASSUME SheetInv, NEW role, HasRole(role)
  PROVE  First(role) \in 1 .. Len(sections) /\ sections[First(role)].role = role
<1> DEFINE S == {n \in 1 .. Len(sections) : sections[n].role = role}
<1>1. Len(sections) \in Nat /\ DOMAIN sections = 1 .. Len(sections)
  BY DEF SheetInv
<1>2. S # {} /\ S \subseteq Nat
  BY <1>1 DEF HasRole
<1>3. PICK n \in S : \A m \in S : n <= m
  BY <1>2, LeastNumber
<1>4. \A m \in 1 .. n - 1 : sections[m].role # role
  BY <1>1, <1>3
<1>5. \E k \in DOMAIN sections : sections[k].role = role /\ \A m \in 1 .. k - 1 : sections[m].role # role
  BY <1>1, <1>3, <1>4
<1> QED BY <1>1, <1>5 DEF First

\* The invariant holds at the start.
LEMMA SheetInitInv == SheetInit => SheetInv
  BY ArgumentIsASeq DEF SheetInit, SheetInv

\* Section n is the only new one: a blueprint of its role, new unless scarce, or named, or none.
LEMMA OneSectionKeeps ==
  ASSUME SheetInv, NEW n \in 1 .. Len(sections'), sections' \in Seq(Shown), Len(sections') <= Len(Argument),
         UNCHANGED <<mode, dir>>,
         \A m \in 1 .. Len(sections') : m # n => m \in 1 .. Len(sections) /\ sections'[m] = sections[m],
         ShownBy(sections'[n], Argument[n]),
         sections'[n].named = FALSE /\ sections'[n].id \in IdsOf(sections) /\ sections'[n].id # None => Scarce(Argument[n])
  PROVE  SheetInv'
<1>1. \A role : Scarce(role)' <=> Scarce(role)
  BY DEF Scarce, CoinPools, SectionPool, Led
<1>2. Len(sections') \in Nat /\ Len(sections) \in Nat /\ DOMAIN sections = 1 .. Len(sections)
  BY DEF SheetInv
<1>3. \A m \in 1 .. Len(sections') : ShownBy(sections'[m], Argument[m])
  BY DEF SheetInv
<1>4. ASSUME NEW m \in 1 .. Len(sections'), m # n, sections'[n].id = sections'[m].id, sections'[n].id # None,
             sections'[n].named = FALSE, sections'[m].named = FALSE
      PROVE  Scarce(sections'[n].role) /\ Scarce(sections'[m].role)
  <2>1. m \in 1 .. Len(sections) /\ sections'[m] = sections[m]
    BY <1>4
  <2>2. sections'[n].id \in IdsOf(sections)
    BY <1>2, <1>4, <2>1 DEF IdsOf
  <2>3. Scarce(Argument[n]) /\ sections'[n].role = Argument[n] /\ sections'[m].role = Argument[m]
    BY <1>3, <1>4, <2>2 DEF ShownBy
  <2>4. PICK b \in Blueprints : sections'[n].id = b.id /\ b.role = Argument[n]
    BY <1>4 DEF ShownBy
  <2>5. PICK c \in Blueprints : sections'[m].id = c.id /\ c.role = Argument[m]
    BY <1>3, <1>4 DEF ShownBy
  <2>6. b = c
    BY <1>4, <2>4, <2>5, SheetAssumption
  <2> QED BY <2>3, <2>4, <2>5, <2>6
<1>5. ASSUME NEW k \in 1 .. Len(sections'), NEW m \in 1 .. Len(sections'), k # m, sections'[k].id = sections'[m].id,
             sections'[k].id # None
      PROVE  sections'[k].named = TRUE \/ sections'[m].named = TRUE \/ Scarce(sections'[k].role)
  <2>1. sections'[k].named \in BOOLEAN /\ sections'[m].named \in BOOLEAN
    BY <1>3 DEF ShownBy
  <2>2. CASE k = n
    BY <1>4, <1>5, <2>1, <2>2
  <2>3. CASE m = n
    BY <1>4, <1>5, <2>1, <2>3
  <2>4. CASE k # n /\ m # n
    BY <1>5, <2>4 DEF SheetInv
  <2> QED BY <2>2, <2>3, <2>4
<1> QED BY <1>1, <1>3, <1>5 DEF SheetInv

\* The next section is dealt out of what the page has not used.
LEMMA DealSectionKeeps == SheetInv /\ DealSection => SheetInv'
<1> SUFFICES ASSUME SheetInv, DealSection PROVE SheetInv'
  OBVIOUS
<1> DEFINE role == Argument[Len(sections) + 1]
           some == Dealable(role, IdsOf(sections), {ShapeAt(Len(sections))})
<1>1. /\ sections \in Seq(Shown) /\ Len(sections) \in Nat /\ Len(sections) < Len(Argument)
      /\ UNCHANGED <<mode, dir>> /\ role \in Roles
  BY ArgumentIsASeq DEF DealSection, SheetInv, Complete
<1>2. PICK new : /\ sections' = Append(sections, new)
                 /\ (some = {} /\ new = Empty(role)) \/ (\E b \in some : new = Section(b, role, FALSE))
  BY DEF DealSection
<1>3. /\ new \in Shown /\ ShownBy(new, role)
      /\ new.named = FALSE /\ new.id \in IdsOf(sections) /\ new.id # None => Scarce(role)
  <2>1. CASE new = Empty(role)
    <3>1. new.id = None
      BY <2>1 DEF Empty
    <3> QED BY <1>1, <2>1, <3>1, ShownSections
  <2>2. CASE \E b \in some : new = Section(b, role, FALSE)
    <3>1. PICK b \in some : new = Section(b, role, FALSE)
      BY <2>2
    <3>2. b \in Blueprints /\ b.role = role /\ (b.id \in IdsOf(sections) => Scarce(role))
      BY DealtBlueprints
    <3>3. new.id = b.id /\ new.role = role /\ new.shape = b.shape /\ new.named = FALSE
      BY <3>1 DEF Section
    <3>4. new \in Shown
      BY <1>1, <3>1, <3>2, ShownSections
    <3> QED BY <3>2, <3>3, <3>4 DEF ShownBy
  <2> QED BY <1>2, <2>1, <2>2
<1> HIDE DEF role, some
<1>4. /\ sections' \in Seq(Shown) /\ Len(sections') = Len(sections) + 1 /\ sections'[Len(sections) + 1] = new
      /\ \A m \in 1 .. Len(sections) : sections'[m] = sections[m]
  BY <1>1, <1>2, <1>3
<1>5. \A m \in 1 .. Len(sections') : m # Len(sections) + 1 => m \in 1 .. Len(sections) /\ sections'[m] = sections[m]
  BY <1>1, <1>4
<1>6. Len(sections) + 1 \in 1 .. Len(sections') /\ Len(sections') <= Len(Argument)
  BY <1>1, <1>4, ArgumentIsASeq
<1> QED BY <1>1, <1>3, <1>4, <1>5, <1>6, OneSectionKeeps DEF role

\* A section in the place of another.
LEMMA ReplacedSection ==
  ASSUME SheetInv, NEW n \in 1 .. Len(sections), NEW new \in Shown, sections' = [sections EXCEPT ![n] = new],
         UNCHANGED <<mode, dir>>, ShownBy(new, Argument[n]),
         new.named = FALSE /\ new.id \in IdsOf(sections) /\ new.id # None => Scarce(Argument[n])
  PROVE  SheetInv'
<1>1. /\ sections \in Seq(Shown) /\ Len(sections) <= Len(Argument)
      /\ sections' \in Seq(Shown) /\ Len(sections') = Len(sections) /\ sections'[n] = new
      /\ \A m \in 1 .. Len(sections) : m # n => sections'[m] = sections[m]
  BY DEF SheetInv
<1> QED BY <1>1, OneSectionKeeps

\* A redrawn section keeps its role and takes a blueprint that is not on the page.
LEMMA RedrawSectionKeeps == ASSUME NEW role \in Roles, SheetInv, RedrawSection(role) PROVE SheetInv'
<1> DEFINE n == First(role)
<1>1. n \in 1 .. Len(sections) /\ sections[n].role = role /\ Argument[n] = role
  BY FirstOfARole DEF RedrawSection, SheetInv, ShownBy
<1>2. PICK b \in Dealable(role, IdsOf(sections), ShapesAround(n)) : sections' = [sections EXCEPT ![n] = Section(b, role, FALSE)]
  BY DEF RedrawSection, Used
<1> HIDE DEF n
<1>3. b \in Blueprints /\ b.role = role /\ (b.id \in IdsOf(sections) => Scarce(role))
  BY DealtBlueprints
<1>4. Section(b, role, FALSE) \in Shown
  BY <1>3, ShownSections
<1>5. ShownBy(Section(b, role, FALSE), Argument[n]) /\ Section(b, role, FALSE).id = b.id
  BY <1>1, <1>3 DEF Section, ShownBy
<1> QED BY <1>1, <1>2, <1>3, <1>4, <1>5, ReplacedSection DEF RedrawSection

\* A blueprint taken by name stands in the place of its role.
LEMMA TakeNamedKeeps == ASSUME NEW role \in Roles, NEW b \in Blueprints, SheetInv, TakeNamed(role, b) PROVE SheetInv'
<1> DEFINE n == First(role)
<1>1. n \in 1 .. Len(sections) /\ sections[n].role = role /\ Argument[n] = role
  BY FirstOfARole DEF TakeNamed, SheetInv, ShownBy
<1>2. sections' = [sections EXCEPT ![n] = Section(b, role, TRUE)] /\ UNCHANGED <<mode, dir>>
  BY DEF TakeNamed, Borrowed
<1> HIDE DEF n
<1>3. Section(b, role, TRUE) \in Shown
  BY ShownSections
<1>4. ShownBy(Section(b, role, TRUE), Argument[n]) /\ Section(b, role, TRUE).named = TRUE
  BY <1>1 DEF Section, ShownBy
<1> QED BY <1>1, <1>2, <1>3, <1>4, ReplacedSection

\* Steps that leave the sections, or start the page again.
LEMMA SameSections == SheetInv /\ UNCHANGED <<mode, dir, sections>> => SheetInv'
<1> SUFFICES ASSUME SheetInv, UNCHANGED <<mode, dir, sections>> PROVE SheetInv'
  OBVIOUS
<1>1. \A role : Scarce(role)' <=> Scarce(role)
  BY DEF Scarce, CoinPools, SectionPool, Led
<1> QED BY <1>1 DEF SheetInv

\* Every step keeps the invariant.
LEMMA SheetInvKept == SheetInv /\ [SheetNext]_sheetVars => SheetInv'
<1> SUFFICES ASSUME SheetInv, [SheetNext]_sheetVars PROVE SheetInv'
  OBVIOUS
<1>1. CASE RedrawPage
  <2>1. sections' = <<>>
    BY <1>1 DEF RedrawPage
  <2> QED BY <2>1, ArgumentIsASeq DEF SheetInv
<1>2. CASE \E slot \in DOMAIN SlotPools : RedrawSlot(slot)
  BY <1>2, SameSections DEF RedrawSlot
<1>3. CASE AppNext
  BY <1>3, SameSections DEF AppNext, RedrawShell, RedrawScreen
<1>4. CASE UNCHANGED sheetVars
  BY <1>4, SameSections DEF sheetVars
<1> QED BY <1>1, <1>2, <1>3, <1>4, DealSectionKeeps, RedrawSectionKeeps, TakeNamedKeeps DEF SheetNext, PageNext

\* No blueprint is on a page twice, and the sections follow the argument.
LEMMA SheetIsSafe == SheetInv => NoBlueprintTwice /\ ArgumentKept
<1>1. SheetInv => DOMAIN sections = 1 .. Len(sections)
  BY DEF SheetInv
<1> QED BY <1>1 DEF SheetInv, NoBlueprintTwice, ArgumentKept, ShownBy

ShapesVaryIn(n) ==
  LET after  == sections'[n]
      near == {sections'[m].shape : m \in {n - 1, n + 1} \cap DOMAIN sections'}
      free == {b \in SectionPool(after.role) : b.id \notin IdsOf(sections)}
  IN (n \notin DOMAIN sections \/ after # sections[n]) /\ ~after.named /\ after.shape \in near =>
       \E pool \in CoinPools(after.role) : \A b \in pool \cap free : b.shape \in near

\* Only the section that is dealt or redrawn has a new shape, and it was dealt next to the others.
LEMMA SheetStep ==
  SheetInv /\ [SheetNext]_sheetVars => [\A n \in DOMAIN sections' : ShapesVaryIn(n)]_sheetVars
<1> SUFFICES ASSUME SheetInv, SheetNext, NEW n \in DOMAIN sections', n \notin DOMAIN sections \/ sections'[n] # sections[n],
                    ~sections'[n].named,
                    sections'[n].shape \in {sections'[m].shape : m \in {n - 1, n + 1} \cap DOMAIN sections'}
             PROVE  \E pool \in CoinPools(sections'[n].role) :
                      \A b \in pool \cap {c \in SectionPool(sections'[n].role) : c.id \notin IdsOf(sections)} :
                        b.shape \in {sections'[m].shape : m \in {n - 1, n + 1} \cap DOMAIN sections'}
  BY DEF ShapesVaryIn
<1> DEFINE near == {sections'[m].shape : m \in {n - 1, n + 1} \cap DOMAIN sections'}
<1> SUFFICES \E pool \in CoinPools(sections'[n].role) :
               \A b \in pool \cap {c \in SectionPool(sections'[n].role) : c.id \notin IdsOf(sections)} : b.shape \in near
  OBVIOUS
<1>a. sections'[n].shape \in near
  OBVIOUS
<1>b. \A m \in {n - 1, n + 1} \cap DOMAIN sections' : sections'[m].shape \in near
  OBVIOUS
<1>c. \A shape \in near : \E m \in {n - 1, n + 1} \cap DOMAIN sections' : sections'[m].shape = shape
  OBVIOUS
<1> HIDE DEF near
<1>0. /\ sections \in Seq(Shown) /\ Len(sections) \in Nat /\ DOMAIN sections = 1 .. Len(sections)
      /\ Len(sections) <= Len(Argument)
  BY DEF SheetInv
\* It is enough that what it was dealt away from are the shapes near it, or no shape at all.
<1>1. ASSUME NEW role, NEW shapes, NEW b \in Dealable(role, IdsOf(sections), shapes),
             sections'[n] = Section(b, role, FALSE), near \subseteq shapes, shapes \subseteq near \cup {None}
      PROVE  \E pool \in CoinPools(sections'[n].role) :
               \A c \in pool \cap {d \in SectionPool(sections'[n].role) : d.id \notin IdsOf(sections)} : c.shape \in near
  <2>1. sections'[n].role = role /\ sections'[n].shape = b.shape
    BY <1>1 DEF Section
  <2>2. b.shape \in shapes
    BY <1>a, <1>1, <2>1
  <2>3. PICK pool \in CoinPools(role) : \A c \in pool : c.id \notin IdsOf(sections) => c.shape \in shapes
    BY <2>2, DealtBlueprints
  <2>4. \A c \in pool : c.shape # None
    BY PoolsOfARole, SheetAssumption
  <2> QED BY <1>1, <2>1, <2>3, <2>4
<1>2. CASE DealSection
  <2> DEFINE role == Argument[Len(sections) + 1]
             some == Dealable(role, IdsOf(sections), {ShapeAt(Len(sections))})
  <2>1. PICK new : /\ sections' = Append(sections, new)
                   /\ (some = {} /\ new = Empty(role)) \/ (\E b \in some : new = Section(b, role, FALSE))
    BY <1>2 DEF DealSection
  <2>2. /\ DOMAIN sections' = 1 .. Len(sections) + 1 /\ sections'[Len(sections) + 1] = new
        /\ \A m \in 1 .. Len(sections) : sections'[m] = sections[m]
    BY <1>0, <2>1
  <2>3. n = Len(sections) + 1
    BY <1>0, <2>2
  <2>4. \A m \in {n - 1, n + 1} \cap DOMAIN sections' : m = Len(sections) /\ m \in DOMAIN sections
    <3>1. n - 1 = Len(sections) /\ n + 1 \notin 1 .. Len(sections) + 1
      <4>1. Len(sections) \in Nat
        BY <1>0
      <4>2. ASSUME NEW l \in Nat PROVE (l + 1) - 1 = l /\ (l + 1) + 1 \notin 1 .. l + 1
        OBVIOUS
      <4> QED BY <2>3, <4>1, <4>2
    <3>2. Len(sections) \in 1 .. Len(sections) + 1 => Len(sections) \in DOMAIN sections
      BY <1>0
    <3> QED BY <2>2, <3>1, <3>2
  <2>5. near = {ShapeAt(Len(sections))}
    <3>1. \A m \in {n - 1, n + 1} \cap DOMAIN sections' : sections'[m].shape = ShapeAt(Len(sections))
      BY <1>0, <2>2, <2>4 DEF ShapeAt
    <3> QED BY <1>a, <1>c, <3>1
  <2>6. CASE some = {} /\ new = Empty(role)
    <3>1. \E pool \in CoinPools(role) : pool = {}
      BY <2>6, NothingDealt
    <3>2. sections'[n].role = role
      BY <2>2, <2>3, <2>6 DEF Empty
    <3> QED BY <3>1, <3>2
  <2>7. CASE \E b \in some : new = Section(b, role, FALSE)
    <3>1. PICK b \in some : sections'[n] = Section(b, role, FALSE)
      BY <2>2, <2>3, <2>7
    <3> HIDE DEF role
    <3> QED BY <1>1, <2>5, <3>1
  <2> QED BY <2>1, <2>6, <2>7
<1>3. CASE \E role \in Roles : RedrawSection(role)
  <2>1. PICK role \in Roles : RedrawSection(role)
    BY <1>3
  <2> DEFINE k == First(role)
  <2>2. k \in 1 .. Len(sections)
    BY <2>1, FirstOfARole DEF RedrawSection
  <2>3. PICK b \in Dealable(role, IdsOf(sections), ShapesAround(k)) : sections' = [sections EXCEPT ![k] = Section(b, role, FALSE)]
    BY <2>1 DEF RedrawSection, Used
  <2> HIDE DEF k
  <2>4. /\ DOMAIN sections' = 1 .. Len(sections) /\ sections'[k] = Section(b, role, FALSE)
        /\ \A m \in 1 .. Len(sections) : m # k => sections'[m] = sections[m]
    BY <1>0, <2>2, <2>3
  <2>5. n = k
    BY <1>0, <2>4
  <2>6. \A m \in {n - 1, n + 1} : m \in DOMAIN sections' <=> m \in DOMAIN sections
    BY <1>0, <2>4
  <2>7. \A m \in {n - 1, n + 1} \cap DOMAIN sections' : sections'[m].shape = ShapeAt(m)
    BY <1>0, <2>2, <2>4, <2>5 DEF ShapeAt
  <2>8. \A m \in {n - 1, n + 1} : m \notin DOMAIN sections' => ShapeAt(m) = None
    BY <2>6 DEF ShapeAt
  <2>9. near \subseteq ShapesAround(k) /\ ShapesAround(k) \subseteq near \cup {None}
    <3>1. ShapesAround(k) = {ShapeAt(n - 1), ShapeAt(n + 1)}
      BY <2>5 DEF ShapesAround
    <3>2. near \subseteq ShapesAround(k)
      BY <1>c, <2>7, <3>1
    <3>3. \A m \in {n - 1, n + 1} : ShapeAt(m) \in near \cup {None}
      BY <1>b, <2>7, <2>8
    <3> QED BY <3>1, <3>2, <3>3
  <2> QED BY <1>1, <2>3, <2>4, <2>5, <2>9
<1>4. ~\E role \in Roles, b \in Blueprints : TakeNamed(role, b)
  <2> SUFFICES ASSUME NEW role \in Roles, NEW b \in Blueprints, TakeNamed(role, b) PROVE FALSE
    OBVIOUS
  <2>1. First(role) \in 1 .. Len(sections)
    BY FirstOfARole DEF TakeNamed
  <2>2. sections' = [sections EXCEPT ![First(role)] = Section(b, role, TRUE)]
    BY DEF TakeNamed, Borrowed
  <2>3. n = First(role) /\ sections'[n] = Section(b, role, TRUE)
    BY <1>0, <2>1, <2>2
  <2> QED BY <2>3 DEF Section
<1>5. ~RedrawPage /\ ~AppNext /\ ~\E slot \in DOMAIN SlotPools : RedrawSlot(slot)
  <2>1. ~RedrawPage
    BY DEF RedrawPage
  <2>2. UNCHANGED sections => FALSE
    BY <1>0
  <2> QED BY <2>1, <2>2 DEF AppNext, RedrawShell, RedrawScreen, RedrawSlot
<1> QED BY <1>2, <1>3, <1>4, <1>5 DEF SheetNext, PageNext

-------------------------------------------------------------------------------
\* base.js reveals what is in view and inks the chapter under the header.

Header == (8 * View) \div 100
LastInk == IF inks = <<>> THEN ink ELSE InkAfter(inks)

\* What is in view, and under the header, where the page was at the last frame.
InViewAt(e, place) ==
  LET above == IF Reveals[e].top > place THEN Reveals[e].top ELSE place
      floor == place + View - (12 * View) \div 100
      below == IF Bottom(e) < floor THEN Bottom(e) ELSE floor IN
    below >= above /\ 10 * (below - above) >= Reveals[e].height
UnderAt(c, place) == Chapters[c] <= place + Header /\ (c = Len(Chapters) \/ Chapters[c + 1] >= place)

MotionInv ==
  /\ offset \in Stops /\ drawnAt \in Stops \cup {Nowhere} /\ backed \in BOOLEAN
  /\ observed \subseteq DOMAIN Reveals /\ inks \in Seq(SUBSET DOMAIN Chapters)
  /\ DOMAIN was = DOMAIN Reveals
  \* What is no longer observed is shown; what is observed and was in view has its entry.
  /\ \A e \in DOMAIN Reveals : e \notin observed => e \in revealed
  /\ \A e \in observed : was[e] = "in" => <<e, "in">> \in entries
  /\ drawnAt # Nowhere => \A e \in observed : was[e] = IF InViewAt(e, drawnAt) THEN "in" ELSE "out"
  \* The lowest chapter under the header is the last of which an entry is told, or was.
  /\ drawnAt = Nowhere => under = {}
  /\ drawnAt # Nowhere => under = {c \in DOMAIN Chapters : UnderAt(c, drawnAt)}
  /\ backed = FALSE /\ drawnAt # Nowhere =>
       drawnAt <= offset /\ LastInk \in under /\ \A c \in under : c <= LastInk

\* Chapters follow one another down the page, and every stop is on it.
LEMMA ChaptersInOrder ==
  /\ Len(Chapters) \in Nat /\ Len(Chapters) # 0 /\ DOMAIN Chapters = 1 .. Len(Chapters)
  /\ Header \in Nat /\ Chapters[1] = 0
  /\ \A c \in DOMAIN Chapters : Chapters[c] \in Nat /\ c \in Nat
  /\ \A c, d \in DOMAIN Chapters : c < d => Chapters[c] < Chapters[d]
  /\ Stops \subseteq Nat /\ Nowhere \notin Stops
<1>1. Header \in Nat
  BY MotionAssumption DEF Header
<1>2. Len(Chapters) \in Nat /\ Len(Chapters) # 0 /\ DOMAIN Chapters = 1 .. Len(Chapters)
  BY MotionAssumption
<1>3. \A c \in DOMAIN Chapters : Chapters[c] \in Nat /\ c \in Nat
  BY MotionAssumption
<1>4. Stops \subseteq Nat /\ Nowhere \notin Stops
  <2>1. Nowhere \in Nat
    BY DEF Nowhere
  <2>2. Stops \subseteq 0 .. Nowhere - 1
    BY MotionAssumption
  <2> QED BY <2>1, <2>2
<1> QED BY <1>1, <1>2, <1>3, <1>4, MotionAssumption

\* A set of chapters has a lowest one.
LEMMA LowestChapter ==
  ASSUME NEW some \in SUBSET DOMAIN Chapters, some # {}
  PROVE  LowestOf(some) \in some /\ \A d \in some : d <= LowestOf(some)
<1> DEFINE S == {Len(Chapters) - c : c \in some}
<1>1. S \subseteq Nat /\ S # {}
  BY ChaptersInOrder
<1>2. PICK n \in S : \A m \in S : n <= m
  BY <1>1, LeastNumber
<1>3. PICK c \in some : n = Len(Chapters) - c
  BY <1>2
<1>4. \A d \in some : d <= c
  <2> TAKE d \in some
  <2>1. Len(Chapters) - c <= Len(Chapters) - d
    BY <1>2, <1>3
  <2> QED BY <2>1, ChaptersInOrder
<1>5. \E x \in some : \A d \in some : d <= x
  BY <1>4
<1> QED BY <1>5 DEF LowestOf

\* Wherever the page is, the last chapter that begins above the header's end is under it.
LEMMA OneIsUnder ==
  ASSUME NEW place \in Nat
  PROVE  \E c \in DOMAIN Chapters : UnderAt(c, place) /\ \A d \in DOMAIN Chapters : Chapters[d] <= place + Header => d <= c
<1> DEFINE some == {c \in DOMAIN Chapters : Chapters[c] <= place + Header}
<1>1. 1 \in some
  BY ChaptersInOrder
<1>2. PICK c \in some : \A d \in some : d <= c
  BY <1>1, LowestChapter
<1>3. c = Len(Chapters) \/ Chapters[c + 1] >= place
  <2> SUFFICES ASSUME c # Len(Chapters) PROVE Chapters[c + 1] >= place
    OBVIOUS
  <2>1. c + 1 \in DOMAIN Chapters /\ c + 1 \notin some
    BY <1>2, ChaptersInOrder
  <2> QED BY <2>1, ChaptersInOrder
<1> QED BY <1>2, <1>3 DEF UnderAt

\* The invariant holds at the start.
LEMMA MotionInitInv == MotionInit => MotionInv
<1> SUFFICES ASSUME MotionInit PROVE MotionInv
  OBVIOUS
<1>1. /\ offset = 0 /\ backed = FALSE /\ drawnAt = Nowhere
      /\ observed = DOMAIN Reveals /\ revealed = {} /\ was = [e \in DOMAIN Reveals |-> "unknown"]
      /\ entries = {} /\ under = {} /\ inks = <<>>
  BY DEF MotionInit
<1>2. inks \in Seq(SUBSET DOMAIN Chapters) /\ offset \in Stops /\ backed \in BOOLEAN
  <2>1. <<>> \in Seq(SUBSET DOMAIN Chapters)
    OBVIOUS
  <2>2. 0 \in Stops
    BY MotionAssumption
  <2> QED BY <1>1, <2>1, <2>2
<1>3. DOMAIN was = DOMAIN Reveals /\ \A e \in observed : was[e] # "in"
  BY <1>1
<1> QED BY <1>1, <1>2, <1>3 DEF MotionInv

\* Scrolling tells nobody anything until the next frame.
LEMMA ScrollToKeeps == MotionInv /\ ScrollTo => MotionInv'
<1> SUFFICES ASSUME MotionInv, ScrollTo PROVE MotionInv'
  OBVIOUS
<1>1. /\ offset' \in Stops /\ backed' = (backed \/ offset' < offset)
      /\ UNCHANGED <<drawnAt, observed, was, entries, revealed, net, under, inks, ink>>
  BY DEF ScrollTo
<1>2. LastInk' = LastInk
  BY <1>1 DEF LastInk
<1>3. backed' \in BOOLEAN
  BY <1>1
<1>4. ASSUME backed' = FALSE, drawnAt # Nowhere PROVE drawnAt' <= offset' /\ LastInk' \in under' /\ \A c \in under' : c <= LastInk'
  <2>1. backed = FALSE /\ ~(offset' < offset)
    BY <1>1, <1>4 DEF MotionInv
  <2>2. drawnAt <= offset /\ LastInk \in under /\ (\A c \in under : c <= LastInk) /\ drawnAt \in Nat /\ offset \in Nat /\ offset' \in Nat
    BY <1>1, <1>4, <2>1, ChaptersInOrder DEF MotionInv
  <2> QED BY <1>1, <1>2, <2>1, <2>2
<1> QED BY <1>1, <1>3, <1>4 DEF MotionInv

\* A frame compares what is in view, and under the header, with the frame before.
LEMMA DrawFrameKeeps == MotionInv /\ DrawFrame => MotionInv'
<1> SUFFICES ASSUME MotionInv, DrawFrame PROVE MotionInv'
  OBVIOUS
<1> DEFINE came == under' \ under
<1>1. /\ drawnAt' = offset /\ UNCHANGED <<offset, backed, observed, revealed, net, ink>>
      /\ was' = [e \in DOMAIN Reveals |-> IF e \in observed THEN ViewOf(e) ELSE was[e]]
      /\ entries' = entries \cup {<<e, ViewOf(e)>> : e \in {o \in observed : was[o] # ViewOf(o)}}
      /\ under' = {c \in DOMAIN Chapters : UnderHeader(c)}
      /\ inks' = IF came = {} THEN inks ELSE Append(inks, came)
  BY DEF DrawFrame
<1>2. /\ offset \in Stops /\ offset \in Nat /\ offset # Nowhere /\ drawnAt' \in Stops
      /\ observed \subseteq DOMAIN Reveals
  BY <1>1, ChaptersInOrder DEF MotionInv
<1>3. \A e \in observed : was'[e] = IF InViewAt(e, drawnAt') THEN "in" ELSE "out"
  BY <1>1, <1>2 DEF ViewOf, InView, InViewAt
<1>4. \A e \in observed' : was'[e] = "in" => <<e, "in">> \in entries'
  <2> SUFFICES ASSUME NEW e \in observed, was'[e] = "in" PROVE <<e, "in">> \in entries'
    BY <1>1
  <2>1. ViewOf(e) = "in"
    BY <1>1, <1>2
  <2>2. CASE was[e] = "in"
    BY <1>1, <2>2 DEF MotionInv
  <2>3. CASE was[e] # "in"
    BY <1>1, <2>1, <2>3
  <2> QED BY <2>2, <2>3
<1>5. under' = {c \in DOMAIN Chapters : UnderAt(c, drawnAt')}
  BY <1>1 DEF UnderHeader, UnderAt, Header
<1>6. came \in SUBSET DOMAIN Chapters /\ inks' \in Seq(SUBSET DOMAIN Chapters)
  BY <1>1 DEF MotionInv
<1>7. ASSUME backed = FALSE PROVE LastInk' \in under' /\ \A c \in under' : c <= LastInk'
  <2>1. drawnAt # Nowhere => /\ drawnAt \in Nat /\ drawnAt <= offset /\ LastInk \in under /\ \A c \in under : c <= LastInk
                             /\ under = {c \in DOMAIN Chapters : UnderAt(c, drawnAt)}
    BY <1>7, ChaptersInOrder DEF MotionInv
  <2>2. CASE came = {}
    <3>1. PICK c \in DOMAIN Chapters : UnderAt(c, offset) /\ \A d \in DOMAIN Chapters : Chapters[d] <= offset + Header => d <= c
      BY <1>2, OneIsUnder
    <3>2. c \in under' /\ c \in under
      BY <1>1, <1>5, <2>2, <3>1
    <3>3. drawnAt # Nowhere
      BY <3>2 DEF MotionInv
    <3>4. LastInk \in DOMAIN Chapters /\ Chapters[LastInk] <= drawnAt + Header /\ c <= LastInk
      BY <2>1, <3>2, <3>3 DEF UnderAt
    <3>5. LastInk <= c
      BY <1>2, <2>1, <3>1, <3>3, <3>4, ChaptersInOrder
    <3>6. LastInk = c
      BY <3>1, <3>4, <3>5, ChaptersInOrder
    <3>7. LastInk' = LastInk
      BY <1>1, <2>2 DEF LastInk
    <3>8. \A d \in under' : d <= c
      BY <2>1, <2>2, <3>3, <3>6
    <3> QED BY <3>2, <3>6, <3>7, <3>8
  <2>3. CASE came # {}
    <3>1. inks' = Append(inks, came) /\ inks \in Seq(SUBSET DOMAIN Chapters)
      BY <1>1, <2>3 DEF MotionInv
    <3>2. inks' # <<>> /\ inks'[Len(inks')] = came
      BY <1>6, <3>1
    <3>3. LastInk' = LowestOf(came)
      BY <3>2 DEF LastInk, InkAfter
    <3>4. LowestOf(came) \in came /\ \A c \in came : c <= LowestOf(came)
      BY <1>6, <2>3, LowestChapter
    <3>5. ASSUME NEW c \in under', c \notin came, ~(c <= LowestOf(came)) PROVE FALSE
      <4> DEFINE m == LowestOf(came)
      <4>1. c \in under /\ drawnAt # Nowhere
        BY <3>5 DEF MotionInv
      <4>2. m \in DOMAIN Chapters /\ c \in DOMAIN Chapters /\ UnderAt(m, offset) /\ ~UnderAt(m, drawnAt)
            /\ UnderAt(c, drawnAt) /\ drawnAt \in Nat /\ drawnAt <= offset
        BY <1>1, <1>5, <2>1, <3>4, <4>1
      <4> HIDE DEF m
      <4>3. m < c /\ m \in Nat /\ c \in Nat /\ m # Len(Chapters) /\ m + 1 \in DOMAIN Chapters
        <5>1. ~(c <= m)
          BY <3>5 DEF m
        <5> QED BY <4>2, <5>1, ChaptersInOrder
      <4>4. Chapters[m] < Chapters[c] /\ Chapters[m] \in Nat /\ Chapters[c] \in Nat /\ Chapters[m + 1] \in Nat /\ Header \in Nat
        BY <4>2, <4>3, ChaptersInOrder
      <4>5. Chapters[m + 1] >= offset /\ Chapters[c] <= drawnAt + Header
        BY <4>2, <4>3 DEF UnderAt
      <4>6. Chapters[m] <= drawnAt + Header /\ Chapters[m + 1] >= drawnAt
        BY <1>2, <4>2, <4>4, <4>5
      <4> QED BY <4>2, <4>6 DEF UnderAt
    <3> QED BY <3>3, <3>4, <3>5
  <2> QED BY <2>2, <2>3
<1>8. DOMAIN was' = DOMAIN Reveals /\ backed' \in BOOLEAN /\ offset' \in Stops /\ drawnAt' # Nowhere /\ drawnAt' <= offset'
  BY <1>1, <1>2 DEF MotionInv
<1>9. \A e \in DOMAIN Reveals : e \notin observed' => e \in revealed'
  BY <1>1 DEF MotionInv
<1> QED BY <1>1, <1>2, <1>3, <1>4, <1>5, <1>6, <1>7, <1>8, <1>9 DEF MotionInv

\* The callbacks take every entry of the frames since the last ones.
LEMMA NotifyKeeps == MotionInv /\ Notify => MotionInv'
<1> SUFFICES ASSUME MotionInv, Notify PROVE MotionInv'
  OBVIOUS
<1>1. /\ revealed' = revealed \cup Shows(entries) /\ observed' = observed \ Shows(entries)
      /\ ink' = LastInk /\ entries' = {} /\ inks' = <<>>
      /\ UNCHANGED <<offset, backed, drawnAt, was, net, under>>
  BY DEF Notify, Unobserves, LastInk
<1>2. LastInk' = LastInk
  BY <1>1 DEF LastInk
<1>3. \A e \in observed' : was'[e] # "in"
  BY <1>1 DEF MotionInv, Shows
<1>4. \A e \in DOMAIN Reveals : e \notin observed' => e \in revealed'
  BY <1>1 DEF MotionInv
<1>5. inks' \in Seq(SUBSET DOMAIN Chapters) /\ observed' \subseteq observed
  BY <1>1
<1> QED BY <1>1, <1>2, <1>3, <1>4, <1>5 DEF MotionInv

\* Every step keeps the invariant.
LEMMA MotionInvKept == MotionInv /\ [MotionNext]_motionVars => MotionInv'
<1> SUFFICES ASSUME MotionInv, [MotionNext]_motionVars PROVE MotionInv'
  OBVIOUS
<1>1. CASE SafetyNet
  BY <1>1 DEF SafetyNet, MotionInv, LastInk
<1>2. CASE UNCHANGED motionVars
  BY <1>2 DEF motionVars, MotionInv, LastInk
<1> QED BY <1>1, <1>2, ScrollToKeeps, DrawFrameKeeps, NotifyKeeps DEF MotionNext

\* At rest what is in view is revealed and the ink is at the lowest chapter under the header.
LEMMA MotionIsSafe == MotionInv => InViewIsShown /\ InkFollows
<1> SUFFICES ASSUME MotionInv, AtRest PROVE InViewIsShown /\ InkFollows
  BY DEF InViewIsShown, InkFollows
<1>1. drawnAt = offset /\ entries = {} /\ inks = <<>> /\ drawnAt # Nowhere
  BY ChaptersInOrder DEF AtRest, MotionInv
<1>2. ASSUME NEW e \in DOMAIN Reveals, InView(e) PROVE e \in revealed
  <2>1. InViewAt(e, drawnAt)
    BY <1>1, <1>2 DEF InView, InViewAt
  <2> QED BY <1>1, <2>1 DEF MotionInv
<1>3. ASSUME ~backed PROVE UnderHeader(ink) /\ \A c \in DOMAIN Chapters : UnderHeader(c) => c <= ink
  <2>1. LastInk = ink /\ backed = FALSE
    BY <1>1, <1>3 DEF LastInk, MotionInv
  <2>2. ink \in under /\ (\A c \in under : c <= ink) /\ under = {c \in DOMAIN Chapters : UnderAt(c, offset)}
    BY <1>1, <2>1 DEF MotionInv
  <2> QED BY <2>2 DEF UnderAt, UnderHeader, Header
<1> QED BY <1>2, <1>3 DEF InViewIsShown, InkFollows

-------------------------------------------------------------------------------
\* charts.js draws the labels of a chart by a search, and the lines and labels of its axes by sums.

\* The sort is a strict order of the places of a list.
LEMMA SortIsStrict ==
  ASSUME NEW items \in Seq(Annotations)
  PROVE  /\ \A n \in DOMAIN items : ~SortsBefore(items, n, n)
         /\ \A n, m \in DOMAIN items : n # m => SortsBefore(items, n, m) \/ SortsBefore(items, m, n)
         /\ \A k, n, m \in DOMAIN items :
              SortsBefore(items, k, n) /\ SortsBefore(items, n, m) => SortsBefore(items, k, m)
<1>1. \A n \in DOMAIN items : n \in Int /\ items[n].x \in Int /\ Rank(items[n]) \in Int
  <2>1. ASSUME NEW n \in DOMAIN items PROVE n \in Int /\ items[n] \in Annotations
    BY LenProperties, ElementOfSeq
  <2>2. ASSUME NEW it PROVE Rank(it) \in Int
    BY DEF Rank
  <2>3. \A it \in Annotations : it.x \in Int
    BY DEF Annotations
  <2> QED BY <2>1, <2>2, <2>3
<1>2. ASSUME NEW n \in DOMAIN items PROVE ~SortsBefore(items, n, n)
  BY <1>1 DEF SortsBefore
<1>3. ASSUME NEW n \in DOMAIN items, NEW m \in DOMAIN items, n # m
      PROVE  SortsBefore(items, n, m) \/ SortsBefore(items, m, n)
  <2>1. n < m \/ m < n
    BY <1>1, <1>3
  <2>2. Rank(items[n]) < Rank(items[m]) \/ Rank(items[m]) < Rank(items[n]) \/ Rank(items[n]) = Rank(items[m])
    BY <1>1
  <2>3. items[n].x < items[m].x \/ items[m].x < items[n].x \/ items[n].x = items[m].x
    BY <1>1
  <2> QED BY <2>1, <2>2, <2>3 DEF SortsBefore
<1>4. ASSUME NEW k \in DOMAIN items, NEW n \in DOMAIN items, NEW m \in DOMAIN items,
             SortsBefore(items, k, n), SortsBefore(items, n, m)
      PROVE  SortsBefore(items, k, m)
  <2> DEFINE r(j) == Rank(items[j])
             x(j) == items[j].x
  <2>1. r(k) < r(n) \/ (r(k) = r(n) /\ (x(k) < x(n) \/ (x(k) = x(n) /\ k < n)))
    BY <1>4 DEF SortsBefore
  <2>2. r(n) < r(m) \/ (r(n) = r(m) /\ (x(n) < x(m) \/ (x(n) = x(m) /\ n < m)))
    BY <1>4 DEF SortsBefore
  <2>3. /\ r(k) \in Int /\ r(n) \in Int /\ r(m) \in Int
        /\ x(k) \in Int /\ x(n) \in Int /\ x(m) \in Int /\ k \in Int /\ n \in Int /\ m \in Int
    BY <1>1
  <2>4. r(k) < r(m) \/ (r(k) = r(m) /\ (x(k) < x(m) \/ (x(k) = x(m) /\ k < m)))
    <3> HIDE DEF r, x
    <3> QED BY <2>1, <2>2, <2>3
  <2> QED BY <2>4 DEF SortsBefore
<1> QED BY <1>2, <1>3, <1>4

\* The sorted list has the items of the list, as many as it has.
LEMMA OrderIsOfItems ==
  ASSUME NEW items \in Seq(Annotations)
  PROVE  Order(items) \in Seq(Annotations) /\ Len(Order(items)) = Len(items)
<1> DEFINE D == DOMAIN items
           N == Len(items)
           Places == [n \in D |-> Cardinality(Ahead(items, n))]
<1>1. N \in Nat /\ D = 1 .. N /\ IsFiniteSet(D) /\ Cardinality(D) = N
  <2>1. N \in Nat /\ D = 1 .. N
    BY LenProperties
  <2>2. IsFiniteSet(1 .. N) /\ Cardinality(1 .. N) = N
    <3> HIDE DEF N
    <3> QED BY <2>1, FS_Interval
  <2> QED BY <2>1, <2>2
<1>2. \A n \in D : Ahead(items, n) \in SUBSET (D \ {n})
  BY SortIsStrict DEF Ahead
<1>3. \A n \in D : /\ IsFiniteSet(Ahead(items, n)) /\ Cardinality(Ahead(items, n)) \in 0 .. N - 1
  <2> TAKE n \in D
  <2>1. IsFiniteSet(D \ {n}) /\ Cardinality(D \ {n}) = N - 1
    BY <1>1, FS_RemoveElement
  <2>2. IsFiniteSet(Ahead(items, n)) /\ Cardinality(Ahead(items, n)) <= N - 1
    BY <1>2, <2>1, FS_Subset
  <2>3. Cardinality(Ahead(items, n)) \in Nat
    BY <2>2, FS_CardinalityType
  <2> QED BY <1>1, <2>2, <2>3
<1>4. ASSUME NEW n \in D, NEW m \in D, SortsBefore(items, n, m)
      PROVE  Cardinality(Ahead(items, n)) # Cardinality(Ahead(items, m))
  <2>1. Ahead(items, n) \in SUBSET Ahead(items, m)
    BY <1>4, SortIsStrict DEF Ahead
  <2>2. n \in Ahead(items, m) /\ n \notin Ahead(items, n)
    BY <1>4, <1>2 DEF Ahead
  <2> QED BY <1>3, <2>1, <2>2, FS_Subset
<1>5. \A n, m \in D : n # m => Cardinality(Ahead(items, n)) # Cardinality(Ahead(items, m))
  BY <1>4, SortIsStrict
<1>6. ASSUME NEW k \in D PROVE \E m \in D : Cardinality(Ahead(items, m)) = k - 1
  <2> SUFFICES ASSUME \A m \in D : Cardinality(Ahead(items, m)) # k - 1 PROVE FALSE
    OBVIOUS
  <2> DEFINE T == (0 .. N - 1) \ {k - 1}
  <2>1. Places \in [D -> T]
    BY <1>3
  <2>2. IsFiniteSet(0 .. N - 1) /\ Cardinality(0 .. N - 1) = N
    <3> DEFINE last == N - 1
    <3>1. last \in Int /\ N \in Nat /\ 0 \in Int
      BY <1>1
    <3>2. IsFiniteSet(0 .. last) /\ Cardinality(0 .. last) = IF 0 > last THEN 0 ELSE last - 0 + 1
      <4> HIDE DEF last
      <4> QED BY <3>1, FS_Interval
    <3> QED BY <3>1, <3>2
  <2>3. k - 1 \in 0 .. N - 1
    BY <1>1
  <2>4. IsFiniteSet(T) /\ Cardinality(T) = N - 1
    <3> HIDE DEF N
    <3> QED BY <2>2, <2>3, FS_RemoveElement
  <2>5. Cardinality(T) < Cardinality(D)
    BY <1>1, <2>4
  <2>6. \E n, m \in D : n # m /\ Places[n] = Places[m]
    <3> HIDE DEF D, T, Places
    <3> QED BY <1>1, <2>1, <2>4, <2>5, FS_PigeonHole
  <2>7. \A n \in D : Places[n] = Cardinality(Ahead(items, n))
    OBVIOUS
  <2> HIDE DEF Places
  <2> QED BY <2>6, <2>7, <1>5
<1>7. ASSUME NEW k \in D PROVE Order(items)[k] \in Annotations
  <2> DEFINE c == CHOOSE m \in D : Cardinality(Ahead(items, m)) = k - 1
  <2>1. c \in D
    BY <1>6
  <2>2. Order(items)[k] = items[c]
    BY DEF Order
  <2> HIDE DEF c
  <2> QED BY <2>1, <2>2, ElementOfSeq, <1>1
<1>8. DOMAIN Order(items) = 1 .. N
  BY <1>1 DEF Order
<1>9. Order(items) = [k \in 1 .. N |-> Order(items)[k]]
  BY <1>1 DEF Order
<1>10. Order(items) \in [1 .. N -> Annotations]
  BY <1>1, <1>7, <1>9
<1> QED BY <1>1, <1>8, <1>10, IsASeq, LenProperties

\* A place is in a row, between two integers.
AllPlaces == [row : Nat, x0 : Int, x1 : Int, leader : BOOLEAN, at : Int, isShort : BOOLEAN, dropped : {FALSE}]

\* A text has up to three places in a row.
LEMMA LeftsAreNumbers ==
  ASSUME NEW it \in Annotations, NEW width \in Nat
  PROVE  Len(Lefts(it, width)) \in 1 .. 3 /\ \A n \in 1 .. Len(Lefts(it, width)) : Lefts(it, width)[n] \in Int
<1>1. it.x \in Int /\ it.x1 \in Int
  BY DEF Annotations
<1> DEFINE mid == (it.x + it.x1 - width) \div 2
           right == it.x1 - width
           after == it.x + 4
           before == it.x - 4 - width
<1>2. mid \in Int /\ right \in Int /\ after \in Int /\ before \in Int
  BY <1>1
<1>3. \/ Lefts(it, width) = <<it.x>>
      \/ Lefts(it, width) = <<mid, it.x, right>>
      \/ Lefts(it, width) = <<after, before>>
  BY Zenon DEF Lefts
<1> HIDE DEF mid, right, after, before
<1>4. CASE Lefts(it, width) = <<it.x>>
  BY <1>1, <1>4
<1>5. CASE Lefts(it, width) = <<mid, it.x, right>>
  BY <1>1, <1>2, <1>5
<1>6. CASE Lefts(it, width) = <<after, before>>
  BY <1>2, <1>6
<1> QED BY <1>3, <1>4, <1>5, <1>6

\* The places of a text lie in the rows, between integers.
LEMMA TextsHavePlaces ==
  ASSUME NEW it \in Annotations, NEW width \in Nat, NEW isShort \in BOOLEAN
  PROVE  PlacesOf(it, width, isShort) \in Seq(AllPlaces)
<1>1. it.x \in Int /\ it.leader \in BOOLEAN
  BY DEF Annotations
<1>2. PICK lefts : lefts = Lefts(it, width)
  OBVIOUS
<1>3. PICK L : L = Len(lefts)
  OBVIOUS
<1>4. L \in 1 .. 3 /\ \A n \in 1 .. L : lefts[n] \in Int
  BY <1>2, <1>3, LeftsAreNumbers
<1>5. Rows * L \in Nat
  BY <1>4, ChartAssumption
<1>6. \A n \in 1 .. Rows * L : ((n - 1) % L) + 1 \in 1 .. L /\ (n - 1) \div L + 1 \in Nat
  <2>1. \A n \in 1 .. Rows * L : n - 1 \in Nat
    BY <1>5
  <2>2. \A k \in Nat : (k % 1) + 1 = 1 /\ k \div 1 + 1 \in Nat
    OBVIOUS
  <2>3. \A k \in Nat : (k % 2) + 1 \in 1 .. 2 /\ k \div 2 + 1 \in Nat
    OBVIOUS
  <2>4. \A k \in Nat : (k % 3) + 1 \in 1 .. 3 /\ k \div 3 + 1 \in Nat
    OBVIOUS
  <2>5. L = 1 \/ L = 2 \/ L = 3
    BY <1>4
  <2>6. CASE L = 1
    BY <2>1, <2>2, <2>6
  <2>7. CASE L = 2
    BY <2>1, <2>3, <2>7
  <2>8. CASE L = 3
    BY <2>1, <2>4, <2>8
  <2> QED BY <2>5, <2>6, <2>7, <2>8
<1>7. ASSUME NEW n \in 1 .. Rows * L
      PROVE  [row |-> (n - 1) \div L + 1, x0 |-> lefts[((n - 1) % L) + 1], x1 |-> lefts[((n - 1) % L) + 1] + width,
              leader |-> it.leader, at |-> it.x, isShort |-> isShort, dropped |-> FALSE] \in AllPlaces
  <2> DEFINE row == (n - 1) \div L + 1
             x0 == lefts[((n - 1) % L) + 1]
  <2>1. row \in Nat /\ x0 \in Int
    BY <1>4, <1>6
  <2> HIDE DEF row, x0
  <2>2. x0 + width \in Int
    BY <2>1
  <2>3. [row |-> row, x0 |-> x0, x1 |-> x0 + width, leader |-> it.leader, at |-> it.x, isShort |-> isShort,
         dropped |-> FALSE] \in AllPlaces
    BY <1>1, <2>1, <2>2 DEF AllPlaces
  <2> QED BY <2>3 DEF row, x0
<1>8. PlacesOf(it, width, isShort) =
        [n \in 1 .. Rows * L |->
           [row |-> (n - 1) \div L + 1, x0 |-> lefts[((n - 1) % L) + 1], x1 |-> lefts[((n - 1) % L) + 1] + width,
            leader |-> it.leader, at |-> it.x, isShort |-> isShort, dropped |-> FALSE]]
  BY <1>2, <1>3, Zenon DEF PlacesOf
<1>9. PlacesOf(it, width, isShort) \in [1 .. Rows * L -> AllPlaces]
  BY <1>7, <1>8, Zenon
<1> QED BY <1>5, <1>9, IsASeq

\* The options of a label are places.
LEMMA OptionsArePlaces ==
  ASSUME NEW it \in Annotations
  PROVE  /\ Options(it) \in Seq(AllPlaces) /\ Len(Options(it)) \in Nat
         /\ \A n \in 1 .. Len(Options(it)) : Options(it)[n] \in AllPlaces
<1>1. it.width \in Nat /\ it.short \in Nat
  BY DEF Annotations
<1>2. Options(it) \in Seq(AllPlaces)
  <2>1. PlacesOf(it, it.width, FALSE) \in Seq(AllPlaces) /\ PlacesOf(it, it.short, TRUE) \in Seq(AllPlaces)
    BY <1>1, TextsHavePlaces
  <2>2. (IF it.short = 0 THEN <<>> ELSE PlacesOf(it, it.short, TRUE)) \in Seq(AllPlaces)
    BY <2>1, EmptySeq
  <2> QED BY <2>1, <2>2, ConcatProperties DEF Options
<1> QED BY <1>2, LenProperties, ElementOfSeq
-------------------------------------------------------------------------------

At(n, k) == Place(Ordered[n], k)
OptionCount(n) == Len(Options(Ordered[n]))

\* Every label laid is clear of those before it, whose leaders it leaves clear too.
LaidClear(list) ==
  \A n \in 1 .. Len(list) :
    list[n] > OptionCount(n) \/ IsFree(At(n, list[n]), [m \in 1 .. n - 1 |-> At(m, list[m])])

\* A layout is not behind the search: where it follows the labels laid, it goes on with an option
\* that the search has not passed.
NotPassed(f, list, option) ==
  \A n \in 1 .. Len(list) + 1 :
    n \in 1 .. Len(Ordered) /\ (\A m \in 1 .. n - 1 : f[m] = list[m]) =>
      f[n] >= IF n <= Len(list) THEN list[n] ELSE option

NothingMissed(list, option, tries) ==
  /\ tries = 1 => \A f \in Layouts(FALSE) : NotPassed(f, list, option)
  /\ tries > 1 => /\ Layouts(FALSE) = {}
                  /\ \A f \in Layouts(TRUE) : NotPassed(f, list, option)
  /\ tries = 3 => Layouts(TRUE) = {}

\* A search that has come so far has kept the labels clear, shortened and dropped them only when
\* it may, and missed no layout unless it was cut off.
LaidAsAllowed(list, tries) ==
  \A n \in 1 .. Len(list) : /\ list[n] > OptionCount(n) => tries = 3
                            /\ At(n, list[n]).isShort = TRUE => tries > 1
SearchSound(list, option, tries, ended, missed) ==
  /\ Len(list) <= Len(Ordered)
  /\ ended = TRUE => Len(list) = Len(Ordered) \/ tries = 3
  /\ LaidAsAllowed(list, tries)
  /\ LaidClear(list)
  /\ missed = FALSE => NothingMissed(list, option, tries)

ChartParts ==
  /\ chart \in Charts /\ attempt \in 1 .. 3 /\ steps \in 1 .. MaxSteps /\ cut \in BOOLEAN /\ done \in BOOLEAN
  /\ laid \in Seq(Nat \ {0}) /\ next \in Nat \ {0}
  /\ chart.kind # "notes" => done = TRUE
  /\ chart.kind = "axis" => chart.min <= chart.max

ChartInv == ChartParts /\ (chart.kind = "notes" => SearchSound(laid, next, attempt, done, cut))

\* The labels of a chart are annotations in order, as many as it has.
LEMMA OrderedNotes ==
  ASSUME chart \in Charts, chart.kind = "notes"
  PROVE  /\ chart.items \in Seq(Annotations) /\ Len(Ordered) = Len(chart.items)
         /\ Len(Ordered) \in Nat /\ DOMAIN Ordered = 1 .. Len(Ordered)
         /\ \A n \in 1 .. Len(Ordered) :
              /\ Ordered[n] \in Annotations /\ OptionCount(n) \in Nat
              /\ \A k \in 1 .. OptionCount(n) : At(n, k) = Options(Ordered[n])[k] /\ At(n, k) \in AllPlaces
<1>1. chart.items \in Notes
  BY DEF Charts
<1>2. chart.items \in Seq(Annotations)
  BY <1>1, ChartAssumption
<1>3. Ordered \in Seq(Annotations) /\ Len(Ordered) = Len(chart.items)
  BY <1>2, OrderIsOfItems DEF Ordered
<1>4. Len(Ordered) \in Nat /\ DOMAIN Ordered = 1 .. Len(Ordered) /\ \A n \in 1 .. Len(Ordered) : Ordered[n] \in Annotations
  BY <1>3, LenProperties, ElementOfSeq
<1>5. ASSUME NEW n \in 1 .. Len(Ordered)
      PROVE  /\ OptionCount(n) \in Nat
             /\ \A k \in 1 .. OptionCount(n) : At(n, k) = Options(Ordered[n])[k] /\ At(n, k) \in AllPlaces
  <2>1. /\ Len(Options(Ordered[n])) \in Nat
        /\ \A k \in 1 .. Len(Options(Ordered[n])) : Options(Ordered[n])[k] \in AllPlaces
    BY <1>4, OptionsArePlaces
  <2>2. \A k \in 1 .. Len(Options(Ordered[n])) : ~(k > Len(Options(Ordered[n])))
    BY <2>1
  <2>3. \A k \in 1 .. Len(Options(Ordered[n])) : Place(Ordered[n], k) = Options(Ordered[n])[k]
    BY <2>2 DEF Place
  <2> QED BY <2>1, <2>3 DEF OptionCount, At
<1> QED BY <1>2, <1>3, <1>4, <1>5

\* What a layout is, label by label.
LEMMA LayoutsLabels ==
  ASSUME chart \in Charts, chart.kind = "notes", NEW shorts \in BOOLEAN, NEW f \in Layouts(shorts),
         NEW n \in 1 .. Len(Ordered)
  PROVE  /\ f[n] \in Nat /\ f[n] >= 1 /\ f[n] <= OptionCount(n)
         /\ Inside(At(n, f[n])) /\ (shorts = FALSE => At(n, f[n]).isShort = FALSE)
         /\ IsFree(At(n, f[n]), [m \in 1 .. n - 1 |-> At(m, f[m])])
<1>1. n \in DOMAIN Ordered
  BY OrderedNotes
<1>2. f \in [DOMAIN Ordered -> 1 .. 6 * Rows] /\ DOMAIN f = DOMAIN Ordered
  BY DEF Layouts
<1>3. f[n] \in 1 .. 6 * Rows
  BY <1>1, <1>2
<1>4. /\ f[n] <= OptionCount(n) /\ Inside(At(n, f[n]))
      /\ shorts \/ ~At(n, f[n]).isShort
      /\ IsFree(At(n, f[n]), [m \in 1 .. n - 1 |-> At(m, f[m])])
  BY <1>1, <1>2, Zenon DEF Layouts, OptionCount, At
<1>5. f[n] \in Nat /\ f[n] >= 1
  BY <1>3, ChartAssumption
<1>6. At(n, f[n]) \in AllPlaces
  BY <1>4, <1>5, OrderedNotes
<1>7. At(n, f[n]).isShort \in BOOLEAN
  BY <1>6 DEF AllPlaces
<1> QED BY <1>4, <1>5, <1>7

\* A search that goes on to the next label, with its first option, passes no layout.
LEMMA GoingOnMissesNone ==
  ASSUME NEW f, NEW list \in Seq(Nat \ {0}), NEW option \in Nat \ {0}, NotPassed(f, list, option), Len(Ordered) \in Nat,
         \A n \in 1 .. Len(Ordered) : f[n] \in Nat /\ f[n] >= 1
  PROVE  NotPassed(f, Append(list, option), 1)
<1> DEFINE more == Append(list, option)
<1>1. Len(list) \in Nat /\ Len(more) = Len(list) + 1 /\ more[Len(list) + 1] = option
      /\ \A m \in 1 .. Len(list) : more[m] = list[m]
  BY AppendProperties, LenProperties
<1> HIDE DEF more
<1> SUFFICES ASSUME NEW n \in 1 .. Len(more) + 1, n \in 1 .. Len(Ordered), \A m \in 1 .. n - 1 : f[m] = more[m]
             PROVE  f[n] >= IF n <= Len(more) THEN more[n] ELSE 1
  BY DEF NotPassed, more
<1>2. CASE n = Len(list) + 2
  BY <1>1, <1>2
<1>3. CASE n <= Len(list) + 1
  <2>1. \A m \in 1 .. n - 1 : f[m] = list[m]
    BY <1>1, <1>3
  <2>2. f[n] >= IF n <= Len(list) THEN list[n] ELSE option
    BY <1>1, <1>3, <2>1 DEF NotPassed
  <2> QED BY <1>1, <1>3, <2>2
<1> QED BY <1>1, <1>2, <1>3

\* A search that passes over an option that no layout has, after the labels laid, passes none.
LEMMA PassingMissesNone ==
  ASSUME NEW f, NEW list \in Seq(Nat \ {0}), NEW option \in Nat \ {0}, NotPassed(f, list, option), Len(Ordered) \in Nat,
         Len(list) < Len(Ordered), f[Len(list) + 1] \in Nat,
         (\A m \in 1 .. Len(list) : f[m] = list[m]) => f[Len(list) + 1] # option
  PROVE  NotPassed(f, list, option + 1)
<1>1. Len(list) \in Nat
  BY LenProperties
<1> SUFFICES ASSUME NEW n \in 1 .. Len(list) + 1, n \in 1 .. Len(Ordered), \A m \in 1 .. n - 1 : f[m] = list[m]
             PROVE  f[n] >= IF n <= Len(list) THEN list[n] ELSE option + 1
  BY DEF NotPassed
<1>2. f[n] >= IF n <= Len(list) THEN list[n] ELSE option
  BY DEF NotPassed
<1>3. CASE n = Len(list) + 1
  BY <1>1, <1>2, <1>3
<1>4. CASE n <= Len(list)
  BY <1>1, <1>2, <1>4
<1> QED BY <1>1, <1>3, <1>4

\* What is left of a list without its last entry.
LEMMA FrontAndLast ==
  ASSUME NEW list \in Seq(Nat \ {0}), list # <<>>
  PROVE  /\ Len(list) \in Nat \ {0} /\ Len(Front(list)) = Len(list) - 1 /\ Front(list) \in Seq(Nat \ {0})
         /\ \A m \in 1 .. Len(Front(list)) : Front(list)[m] = list[m]
         /\ Last(list) = list[Len(list)] /\ Last(list) \in Nat /\ Last(list) + 1 \in Nat \ {0}
<1> DEFINE last == Len(list) - 1
<1>1. Len(list) \in Nat \ {0}
  BY EmptySeq, LenProperties
<1>2. last \in Nat /\ last \in Int /\ 1 \in Int /\ \A m \in 1 .. last : list[m] \in Nat \ {0}
  BY <1>1, ElementOfSeq, LenProperties
<1>3. /\ SubSeq(list, 1, last) \in Seq(Nat \ {0})
      /\ Len(SubSeq(list, 1, last)) = IF 1 <= last THEN last - 1 + 1 ELSE 0
      /\ \A m \in 1 .. last - 1 + 1 : SubSeq(list, 1, last)[m] = list[1 + m - 1]
  <2> HIDE DEF last
  <2> QED BY <1>2, SubSeqProperties
<1>4. /\ Len(SubSeq(list, 1, last)) = last
      /\ \A m \in 1 .. last : SubSeq(list, 1, last)[m] = list[m]
  <2> HIDE DEF last
  <2> QED BY <1>2, <1>3
<1>5. Front(list) = SubSeq(list, 1, last)
  BY DEF Front
<1>6. Last(list) = list[Len(list)] /\ list[Len(list)] \in Nat
  BY <1>1, ElementOfSeq DEF Last
<1> QED BY <1>1, <1>3, <1>4, <1>5, <1>6

\* A search that has passed all options of a label goes back to the label before, and passes none.
LEMMA GoingBackMissesNone ==
  ASSUME NEW f, NEW list \in Seq(Nat \ {0}), list # <<>>, NEW option \in Nat \ {0}, NotPassed(f, list, option),
         Len(Ordered) \in Nat, Len(list) < Len(Ordered), f[Len(list) + 1] \in Nat, f[Len(list)] \in Nat,
         f[Len(list) + 1] < option
  PROVE  NotPassed(f, Front(list), Last(list) + 1)
<1> DEFINE less == Front(list)
<1>1. /\ Len(list) \in Nat \ {0} /\ Len(less) = Len(list) - 1 /\ Last(list) = list[Len(list)]
      /\ \A m \in 1 .. Len(less) : less[m] = list[m]
      /\ Last(list) \in Nat
  BY FrontAndLast
<1> HIDE DEF less
<1>2. ~\A m \in 1 .. Len(list) : f[m] = list[m]
  <2> SUFFICES ASSUME \A m \in 1 .. Len(list) : f[m] = list[m] PROVE FALSE
    OBVIOUS
  <2>1. f[Len(list) + 1] >= option
    BY <1>1 DEF NotPassed
  <2> QED BY <2>1
<1> SUFFICES ASSUME NEW n \in 1 .. Len(less) + 1, \A m \in 1 .. n - 1 : f[m] = less[m]
             PROVE  f[n] >= IF n <= Len(less) THEN less[n] ELSE Last(list) + 1
  BY DEF NotPassed, less
<1>3. \A m \in 1 .. n - 1 : f[m] = list[m]
  BY <1>1
<1>4. f[n] >= list[n]
  <2>1. n \in 1 .. Len(list) /\ n \in 1 .. Len(list) + 1 /\ n \in 1 .. Len(Ordered) /\ n <= Len(list)
    BY <1>1
  <2> QED BY <1>3, <2>1 DEF NotPassed
<1>5. CASE n <= Len(less)
  BY <1>1, <1>4, <1>5
<1>6. CASE n = Len(list)
  <2>1. f[n] # list[n]
    BY <1>1, <1>2, <1>3, <1>6
  <2> QED BY <1>1, <1>4, <1>6, <2>1
<1> QED BY <1>1, <1>5, <1>6

-------------------------------------------------------------------------------

\* No layout is passed at the start of a search.
LEMMA StartMissesNone ==
  ASSUME NEW f, Len(Ordered) \in Nat, \A n \in 1 .. Len(Ordered) : f[n] \in Nat /\ f[n] >= 1
  PROVE  NotPassed(f, <<>>, 1)
<1>1. Len(<<>>) = 0
  OBVIOUS
<1> QED BY <1>1 DEF NotPassed

\* The invariant holds at the start.
LEMMA ChartInitInv == ChartInit => ChartInv
<1> SUFFICES ASSUME ChartInit PROVE ChartInv
  OBVIOUS
<1>1. /\ chart \in Charts /\ (chart.kind = "axis" => chart.min <= chart.max)
      /\ attempt = 1 /\ laid = <<>> /\ next = 1 /\ steps = 1 /\ cut = FALSE /\ done = (chart.kind # "notes")
  BY DEF ChartInit
<1>2. ChartParts
  <2>1. steps \in 1 .. MaxSteps
    BY <1>1, ChartAssumption
  <2>2. laid \in Seq(Nat \ {0}) /\ next \in Nat \ {0} /\ attempt \in 1 .. 3
    <3>1. <<>> \in Seq(Nat \ {0})
      BY EmptySeq
    <3> QED BY <1>1, <3>1
  <2>3. done \in BOOLEAN /\ cut \in BOOLEAN /\ (chart.kind # "notes" => done = TRUE)
    BY <1>1, Zenon
  <2> QED BY <1>1, <2>1, <2>2, <2>3 DEF ChartParts
<1>3. ASSUME chart.kind = "notes" PROVE SearchSound(laid, next, attempt, done, cut)
  <2>1. Len(laid) = 0 /\ done = FALSE /\ Len(Ordered) \in Nat
    BY <1>1, <1>3, OrderedNotes
  <2>2. LaidAsAllowed(laid, attempt) /\ LaidClear(laid)
    BY <2>1 DEF LaidAsAllowed, LaidClear
  <2>3. ASSUME NEW f \in Layouts(FALSE) PROVE NotPassed(f, laid, next)
    <3>1. \A n \in 1 .. Len(Ordered) : f[n] \in Nat /\ f[n] >= 1
      BY <1>1, <1>3, LayoutsLabels
    <3> QED BY <1>1, <2>1, <3>1, StartMissesNone
  <2>4. NothingMissed(laid, next, attempt)
    <3>1. ~(attempt > 1) /\ attempt # 3
      BY <1>1
    <3> QED BY <2>3, <3>1, Zenon DEF NothingMissed
  <2> QED BY <2>1, <2>2, <2>4 DEF SearchSound
<1> QED BY <1>2, <1>3 DEF ChartInv

\* The labels of a chart stay in their order.
LEMMA SameChart ==
  ASSUME chart' = chart, SearchSound(laid', next', attempt', done', cut')
  PROVE  SearchSound(laid, next, attempt, done, cut)'
<1>1. Ordered' = Ordered
  BY DEF Ordered
<1>2. LaidAsAllowed(laid, attempt)' <=> LaidAsAllowed(laid', attempt')
  BY <1>1, Zenon DEF LaidAsAllowed, OptionCount, At
<1>3. LaidClear(laid)' <=> LaidClear(laid')
  BY <1>1, Zenon DEF LaidClear, OptionCount, At
<1>4. Layouts(TRUE)' = Layouts(TRUE) /\ Layouts(FALSE)' = Layouts(FALSE)
  BY <1>1, Zenon DEF Layouts
<1>5. NothingMissed(laid, next, attempt)' <=> NothingMissed(laid', next', attempt')
  BY <1>1, <1>4, Zenon DEF NothingMissed, NotPassed
<1> QED BY <1>1, <1>2, <1>3, <1>5, Zenon DEF SearchSound

\* The labels that a search has laid, in its own words.
LEMMA PlacedLabels ==
  ASSUME ChartInv
  PROVE  /\ Len(laid) \in Nat /\ DOMAIN Placed = 1 .. Len(laid)
         /\ Placed = [m \in 1 .. Len(laid) |-> At(m, laid[m])]
<1>1. Len(laid) \in Nat /\ DOMAIN laid = 1 .. Len(laid)
  BY LenProperties DEF ChartInv, ChartParts
<1> QED BY <1>1 DEF Placed, At

\* A label that is added, by an option that is allowed and free or by dropping it where that is
\* allowed, leaves the labels sound.
LEMMA AddingALabel ==
  ASSUME ChartInv, chart.kind = "notes", Len(laid) < Len(Ordered),
         \/ /\ next <= OptionCount(Len(laid) + 1) /\ IsFree(At(Len(laid) + 1, next), Placed)
            /\ At(Len(laid) + 1, next).isShort = TRUE => attempt > 1
         \/ next > OptionCount(Len(laid) + 1) /\ attempt = 3
  PROVE  /\ LaidAsAllowed(Append(laid, next), attempt) /\ LaidClear(Append(laid, next))
         /\ Len(Append(laid, next)) = Len(laid) + 1 /\ Append(laid, next) \in Seq(Nat \ {0})
         /\ NothingMissed(laid, next, attempt) => NothingMissed(Append(laid, next), 1, attempt)
<1> DEFINE more == Append(laid, next)
           here == Len(laid) + 1
<1>1. laid \in Seq(Nat \ {0}) /\ next \in Nat \ {0} /\ attempt \in 1 .. 3 /\ chart \in Charts /\ SearchSound(laid, next, attempt, done, cut)
  BY DEF ChartInv, ChartParts
<1>2. /\ Len(laid) \in Nat /\ Len(more) = here /\ more[here] = next /\ more \in Seq(Nat \ {0})
      /\ \A m \in 1 .. Len(laid) : more[m] = laid[m]
  BY <1>1, AppendProperties, LenProperties
<1>3. Len(Ordered) \in Nat /\ here \in 1 .. Len(Ordered) /\ OptionCount(here) \in Nat
  BY <1>1, <1>2, OrderedNotes
<1> HIDE DEF more
<1>4. LaidAsAllowed(more, attempt)
  <2> SUFFICES ASSUME NEW n \in 1 .. here
               PROVE  /\ more[n] > OptionCount(n) => attempt = 3
                      /\ At(n, more[n]).isShort = TRUE => attempt > 1
    BY <1>2 DEF LaidAsAllowed
  <2>1. CASE n <= Len(laid)
    BY <1>1, <1>2, <2>1 DEF SearchSound, LaidAsAllowed
  <2>2. CASE n = here
    <3>1. more[n] = next
      BY <1>2, <2>2
    <3>2. CASE next > OptionCount(here) /\ attempt = 3
      BY <2>2, <3>1, <3>2
    <3>3. CASE next <= OptionCount(here) /\ (At(here, next).isShort = TRUE => attempt > 1)
      <4>1. ~(next > OptionCount(here))
        BY <1>1, <1>3, <3>3
      <4> QED BY <2>2, <3>1, <3>3, <4>1, Zenon
    <3> QED BY <3>2, <3>3, Zenon
  <2>3. n <= Len(laid) \/ n = here
    BY <1>2
  <2> QED BY <2>1, <2>2, <2>3, Zenon
<1>5. LaidClear(more)
  <2> SUFFICES ASSUME NEW n \in 1 .. here
               PROVE  more[n] > OptionCount(n) \/ IsFree(At(n, more[n]), [m \in 1 .. n - 1 |-> At(m, more[m])])
    BY <1>2 DEF LaidClear
  <2>1. [m \in 1 .. n - 1 |-> At(m, more[m])] = [m \in 1 .. n - 1 |-> At(m, laid[m])]
    <3>1. \A m \in 1 .. n - 1 : more[m] = laid[m]
      BY <1>2
    <3> QED BY <3>1
  <2>2. CASE n <= Len(laid)
    <3>1. n \in 1 .. Len(laid) /\ more[n] = laid[n]
      BY <1>2, <2>2
    <3>2. laid[n] > OptionCount(n) \/ IsFree(At(n, laid[n]), [m \in 1 .. n - 1 |-> At(m, laid[m])])
      BY <1>1, <3>1, Zenon DEF SearchSound, LaidClear
    <3> QED BY <2>1, <3>1, <3>2, Zenon
  <2>3. CASE n = here
    <3>1. Placed = [m \in 1 .. n - 1 |-> At(m, laid[m])]
      BY <1>2, <2>3, PlacedLabels
    <3>2. more[n] = next
      BY <1>2, <2>3
    <3> QED BY <2>1, <2>3, <3>1, <3>2
  <2> QED BY <1>2, <2>2, <2>3
<1>6. ASSUME NothingMissed(laid, next, attempt) PROVE NothingMissed(more, 1, attempt)
  <2>1. ASSUME NEW shorts \in BOOLEAN, NEW f \in Layouts(shorts), NotPassed(f, laid, next) PROVE NotPassed(f, more, 1)
    <3>1. \A n \in 1 .. Len(Ordered) : f[n] \in Nat /\ f[n] >= 1
      BY <1>1, LayoutsLabels
    <3> QED BY <1>1, <1>3, <2>1, <3>1, GoingOnMissesNone DEF more
  <2> QED BY <1>6, <2>1 DEF NothingMissed
<1> QED BY <1>2, <1>4, <1>5, <1>6 DEF more

\* What the steps of a search have in common: it stands at an option of the label after those laid.
LEMMA Searching ==
  ASSUME ChartInv, ~done
  PROVE  /\ chart \in Charts /\ chart.kind = "notes" /\ laid \in Seq(Nat \ {0}) /\ next \in Nat \ {0}
         /\ attempt \in 1 .. 3 /\ steps \in 1 .. MaxSteps /\ MaxSteps \in Nat
         /\ Len(laid) \in Nat /\ Len(Ordered) \in Nat /\ SearchSound(laid, next, attempt, done, cut)
         /\ Len(laid) < Len(Ordered) => Len(laid) + 1 \in 1 .. Len(Ordered) /\ OptionCount(Len(laid) + 1) \in Nat
<1>1. chart.kind = "notes"
  BY DEF ChartInv, ChartParts
<1>2. chart \in Charts /\ laid \in Seq(Nat \ {0}) /\ next \in Nat \ {0} /\ attempt \in 1 .. 3 /\ steps \in 1 .. MaxSteps
  BY DEF ChartInv, ChartParts
<1>3. Len(laid) \in Nat /\ Len(Ordered) \in Nat /\ MaxSteps \in Nat
  BY <1>1, <1>2, OrderedNotes, LenProperties, ChartAssumption
<1>4. Len(laid) < Len(Ordered) => Len(laid) + 1 \in 1 .. Len(Ordered)
  BY <1>3
<1> QED BY <1>1, <1>2, <1>3, <1>4, OrderedNotes DEF ChartInv

\* What a step leaves of the search, and of the rest.
LEMMA SearchGoesOn ==
  ASSUME ChartInv, ~done, chart' = chart,
         attempt' \in 1 .. 3, steps' \in 1 .. MaxSteps, cut' \in BOOLEAN, done' \in BOOLEAN,
         laid' \in Seq(Nat \ {0}), next' \in Nat \ {0}, SearchSound(laid', next', attempt', done', cut')
  PROVE  ChartInv'
<1>1. chart.kind = "notes" /\ chart \in Charts
  BY Searching
<1>2. ChartParts'
  BY <1>1 DEF ChartInv, ChartParts
<1>3. SearchSound(laid, next, attempt, done, cut)'
  BY SameChart
<1> QED BY <1>2, <1>3 DEF ChartInv

\* An option is taken, or passed over because no layout has it here.
LEMMA TryOptionKeeps == ChartInv /\ TryOption => ChartInv'
<1> SUFFICES ASSUME ChartInv, TryOption PROVE ChartInv'
  OBVIOUS
<1> DEFINE here == Len(laid) + 1
<1>1. /\ ~done /\ Len(laid) < Len(Ordered) /\ next <= OptionCount(here)
      /\ chart' = chart /\ attempt' = attempt /\ done' = done
  BY DEF TryOption, OptionCount
<1>2. /\ chart \in Charts /\ chart.kind = "notes" /\ laid \in Seq(Nat \ {0}) /\ next \in Nat \ {0}
      /\ attempt \in 1 .. 3 /\ steps \in 1 .. MaxSteps /\ MaxSteps \in Nat /\ cut \in BOOLEAN /\ done \in BOOLEAN
      /\ Len(laid) \in Nat /\ Len(Ordered) \in Nat /\ SearchSound(laid, next, attempt, done, cut)
      /\ here \in 1 .. Len(Ordered) /\ OptionCount(here) \in Nat
  BY <1>1, Searching DEF ChartInv, ChartParts
<1>3. next \in 1 .. OptionCount(here)
  BY <1>1, <1>2
<1>4. At(here, next) = Options(Ordered[here])[next] /\ At(here, next).isShort \in BOOLEAN
  <2>1. At(here, next) = Options(Ordered[here])[next] /\ At(here, next) \in AllPlaces
    BY <1>2, <1>3, OrderedNotes
  <2> QED BY <2>1 DEF AllPlaces
<1> DEFINE taken == Inside(At(here, next)) /\ (~At(here, next).isShort \/ AllowShort) /\ IsFree(At(here, next), Placed)
<1>5. IF taken
      THEN IF steps + 1 > MaxSteps THEN next' = next + 1 /\ cut' = TRUE /\ UNCHANGED <<laid, steps>>
           ELSE laid' = Append(laid, next) /\ next' = 1 /\ steps' = steps + 1 /\ UNCHANGED cut
      ELSE next' = next + 1 /\ UNCHANGED <<laid, steps, cut>>
  BY <1>4, Zenon DEF TryOption
<1>6. CASE taken /\ steps + 1 > MaxSteps
  <2>1. next' = next + 1 /\ cut' = TRUE /\ laid' = laid /\ steps' = steps
    BY <1>5, <1>6, Zenon
  <2>2. SearchSound(laid', next', attempt', done', cut')
    BY <1>1, <1>2, <2>1 DEF SearchSound
  <2>3. next' \in Nat \ {0}
    BY <1>2, <2>1
  <2>4. /\ attempt' \in 1 .. 3 /\ steps' \in 1 .. MaxSteps /\ laid' \in Seq(Nat \ {0})
        /\ cut' \in BOOLEAN /\ done' \in BOOLEAN
    BY <1>1, <1>2, <2>1, Zenon
  <2> QED BY <1>1, <2>2, <2>3, <2>4, SearchGoesOn, Zenon
<1>7. CASE taken /\ ~(steps + 1 > MaxSteps)
  <2>1. laid' = Append(laid, next) /\ next' = 1 /\ steps' = steps + 1 /\ cut' = cut
    BY <1>5, <1>7, Zenon
  <2>2. IsFree(At(here, next), Placed) /\ (At(here, next).isShort = TRUE => attempt > 1)
    BY <1>7, Zenon DEF AllowShort
  <2>3. /\ LaidAsAllowed(laid', attempt) /\ LaidClear(laid') /\ Len(laid') = here /\ laid' \in Seq(Nat \ {0})
        /\ NothingMissed(laid, next, attempt) => NothingMissed(laid', 1, attempt)
    BY <1>1, <1>2, <2>1, <2>2, AddingALabel, Zenon
  <2>4. SearchSound(laid', next', attempt', done', cut')
    <3>1. Len(laid') <= Len(Ordered) /\ ~(done' = TRUE)
      BY <1>1, <1>2, <2>3
    <3> QED BY <1>1, <1>2, <2>1, <2>3, <3>1, Zenon DEF SearchSound
  <2>5. next' \in Nat \ {0} /\ steps' \in 1 .. MaxSteps
    BY <1>2, <1>7, <2>1
  <2>6. attempt' \in 1 .. 3 /\ cut' \in BOOLEAN /\ done' \in BOOLEAN
    BY <1>1, <1>2, <2>1, Zenon
  <2> QED BY <1>1, <2>3, <2>4, <2>5, <2>6, SearchGoesOn, Zenon
<1>8. CASE ~taken
  <2>1. next' = next + 1 /\ cut' = cut /\ laid' = laid /\ steps' = steps
    BY <1>5, <1>8, Zenon
  <2>2. ASSUME NEW shorts \in BOOLEAN, shorts = TRUE => attempt > 1, shorts = FALSE => ~(attempt > 1),
               NEW f \in Layouts(shorts), NotPassed(f, laid, next)
        PROVE  NotPassed(f, laid, next + 1)
    <3>1. f[here] \in Nat
      BY <1>2, LayoutsLabels
    <3>2. ASSUME \A m \in 1 .. Len(laid) : f[m] = laid[m], f[here] = next PROVE FALSE
      <4>1. /\ Inside(At(here, next)) /\ (shorts = FALSE => At(here, next).isShort = FALSE)
            /\ IsFree(At(here, next), [m \in 1 .. here - 1 |-> At(m, f[m])])
        BY <1>2, <3>2, LayoutsLabels, Zenon
      <4>2. [m \in 1 .. here - 1 |-> At(m, f[m])] = [m \in 1 .. Len(laid) |-> At(m, laid[m])]
        <5>1. here - 1 = Len(laid)
          BY <1>2
        <5> QED BY <3>2, <5>1
      <4>3. IsFree(At(here, next), Placed)
        BY <4>1, <4>2, PlacedLabels, Zenon
      <4>4. ~At(here, next).isShort \/ AllowShort
        BY <1>4, <2>2, <4>1, Zenon DEF AllowShort
      <4> QED BY <1>8, <4>1, <4>3, <4>4, Zenon
    <3> QED BY <1>1, <1>2, <2>2, <3>1, <3>2, PassingMissesNone
  <2>3. ASSUME NothingMissed(laid, next, attempt) PROVE NothingMissed(laid, next + 1, attempt)
    <3>1. attempt = 1 <=> ~(attempt > 1)
      BY <1>2
    <3> QED BY <2>2, <2>3, <3>1 DEF NothingMissed
  <2>4. SearchSound(laid', next', attempt', done', cut')
    BY <1>1, <1>2, <2>1, <2>3, Zenon DEF SearchSound
  <2>5. next' \in Nat \ {0}
    BY <1>2, <2>1
  <2>6. /\ attempt' \in 1 .. 3 /\ steps' \in 1 .. MaxSteps /\ laid' \in Seq(Nat \ {0})
        /\ cut' \in BOOLEAN /\ done' \in BOOLEAN
    BY <1>1, <1>2, <2>1, Zenon
  <2> QED BY <1>1, <2>4, <2>5, <2>6, SearchGoesOn, Zenon
<1> QED BY <1>6, <1>7, <1>8, Zenon

\* A label is dropped by the last attempt only.
LEMMA DropLabelKeeps == ChartInv /\ DropLabel => ChartInv'
<1> SUFFICES ASSUME ChartInv, DropLabel PROVE ChartInv'
  OBVIOUS
<1> DEFINE here == Len(laid) + 1
<1>1. /\ ~done /\ Len(laid) < Len(Ordered) /\ next > OptionCount(here) /\ attempt > 2 /\ steps < MaxSteps
      /\ chart' = chart /\ attempt' = attempt /\ done' = done /\ cut' = cut
      /\ laid' = Append(laid, next) /\ next' = 1 /\ steps' = steps + 1
  BY DEF DropLabel, AfterOptions, MayDrop, AtDrop, AllowDrop, OptionCount
<1>2. /\ chart.kind = "notes" /\ attempt \in 1 .. 3 /\ steps \in 1 .. MaxSteps /\ MaxSteps \in Nat
      /\ cut \in BOOLEAN /\ done \in BOOLEAN
      /\ Len(laid) \in Nat /\ Len(Ordered) \in Nat /\ SearchSound(laid, next, attempt, done, cut)
  BY <1>1, Searching DEF ChartInv, ChartParts
<1>3. attempt = 3
  BY <1>1, <1>2
<1>4. /\ LaidAsAllowed(laid', attempt) /\ LaidClear(laid') /\ Len(laid') = here /\ laid' \in Seq(Nat \ {0})
      /\ NothingMissed(laid, next, attempt) => NothingMissed(laid', 1, attempt)
  BY <1>1, <1>2, <1>3, AddingALabel, Zenon
<1>5. SearchSound(laid', next', attempt', done', cut')
  <2>1. Len(laid') <= Len(Ordered) /\ ~(done' = TRUE)
    BY <1>1, <1>2, <1>4
  <2> QED BY <1>1, <1>2, <1>4, <2>1, Zenon DEF SearchSound
<1>6. next' \in Nat \ {0} /\ steps' \in 1 .. MaxSteps
  BY <1>1, <1>2
<1>7. attempt' \in 1 .. 3 /\ cut' \in BOOLEAN /\ done' \in BOOLEAN
  BY <1>1, <1>2, Zenon
<1> QED BY <1>1, <1>4, <1>5, <1>6, <1>7, SearchGoesOn, Zenon

\* The search goes back only when no layout follows the labels laid.
LEMMA BacktrackKeeps == ChartInv /\ Backtrack => ChartInv'
<1> SUFFICES ASSUME ChartInv, Backtrack PROVE ChartInv'
  OBVIOUS
<1> DEFINE here == Len(laid) + 1
<1>1. /\ ~done /\ Len(laid) < Len(Ordered) /\ next > OptionCount(here) /\ laid # <<>>
      /\ chart' = chart /\ attempt' = attempt /\ done' = done /\ cut' = (cut \/ AtDrop)
      /\ laid' = Front(laid) /\ next' = Last(laid) + 1 /\ steps' = steps
  BY DEF Backtrack, AfterOptions, OptionCount
<1>2. /\ chart \in Charts /\ chart.kind = "notes" /\ laid \in Seq(Nat \ {0}) /\ next \in Nat \ {0}
      /\ attempt \in 1 .. 3 /\ steps \in 1 .. MaxSteps /\ cut \in BOOLEAN /\ done \in BOOLEAN
      /\ Len(laid) \in Nat /\ Len(Ordered) \in Nat /\ SearchSound(laid, next, attempt, done, cut)
      /\ here \in 1 .. Len(Ordered) /\ OptionCount(here) \in Nat
  BY <1>1, Searching DEF ChartInv, ChartParts
<1>3. /\ Len(laid) \in Nat \ {0} /\ Len(laid') = Len(laid) - 1 /\ laid' \in Seq(Nat \ {0}) /\ next' \in Nat \ {0}
      /\ \A m \in 1 .. Len(laid') : laid'[m] = laid[m]
  BY <1>1, <1>2, FrontAndLast
<1>4. LaidAsAllowed(laid', attempt)
  <2> SUFFICES ASSUME NEW n \in 1 .. Len(laid')
               PROVE  (laid'[n] > OptionCount(n) => attempt = 3) /\ (At(n, laid'[n]).isShort = TRUE => attempt > 1)
    BY DEF LaidAsAllowed
  <2>1. n \in 1 .. Len(laid) /\ laid'[n] = laid[n]
    BY <1>3
  <2> QED BY <1>2, <2>1, Zenon DEF SearchSound, LaidAsAllowed
<1>5. LaidClear(laid')
  <2> SUFFICES ASSUME NEW n \in 1 .. Len(laid')
               PROVE  laid'[n] > OptionCount(n) \/ IsFree(At(n, laid'[n]), [m \in 1 .. n - 1 |-> At(m, laid'[m])])
    BY DEF LaidClear
  <2>1. [m \in 1 .. n - 1 |-> At(m, laid'[m])] = [m \in 1 .. n - 1 |-> At(m, laid[m])]
    <3>1. n \in 1 .. Len(laid') /\ Len(laid') \in Nat
      BY <1>3
    <3>2. \A m \in 1 .. n - 1 : m \in 1 .. Len(laid')
      BY <3>1
    <3>3. \A m \in 1 .. n - 1 : laid'[m] = laid[m]
      BY <1>3, <3>2
    <3> QED BY <3>3
  <2>2. n \in 1 .. Len(laid) /\ laid'[n] = laid[n]
    <3>1. laid'[n] = laid[n]
      BY <1>3, Zenon
    <3>2. ASSUME NEW a \in Nat, NEW b \in 1 .. a - 1 PROVE b \in 1 .. a
      OBVIOUS
    <3>3. n \in 1 .. Len(laid) - 1
      BY <1>3, Zenon
    <3> QED BY <1>3, <3>1, <3>2, <3>3, Zenon
  <2>3. laid[n] > OptionCount(n) \/ IsFree(At(n, laid[n]), [m \in 1 .. n - 1 |-> At(m, laid[m])])
    BY <1>2, <2>2, Zenon DEF SearchSound, LaidClear
  <2> QED BY <2>1, <2>2, <2>3, Zenon
<1>6. ASSUME NEW shorts \in BOOLEAN, NEW f \in Layouts(shorts), NotPassed(f, laid, next)
      PROVE  NotPassed(f, laid', next')
  <2>1. f[here] \in Nat /\ f[here] <= OptionCount(here)
    BY <1>2, LayoutsLabels
  <2>2. f[here] < next
    BY <1>1, <1>2, <2>1
  <2>3. Len(laid) \in 1 .. Len(Ordered)
    BY <1>1, <1>2, <1>3
  <2>4. f[Len(laid)] \in Nat
    BY <1>2, <2>3, LayoutsLabels
  <2> QED BY <1>1, <1>2, <1>6, <2>1, <2>2, <2>4, GoingBackMissesNone
<1>7. NothingMissed(laid, next, attempt) => NothingMissed(laid', next', attempt)
  BY <1>6 DEF NothingMissed
<1>8. SearchSound(laid', next', attempt', done', cut')
  <2>1. Len(laid') <= Len(Ordered)
    BY <1>1, <1>2, <1>3
  <2>2. cut' = FALSE => cut = FALSE
    BY <1>1, <1>2, Zenon
  <2>3. ~(done' = TRUE)
    BY <1>1, Zenon
  <2> QED BY <1>1, <1>2, <1>4, <1>5, <1>7, <2>1, <2>2, <2>3, Zenon DEF SearchSound
<1>9. attempt' \in 1 .. 3 /\ steps' \in 1 .. MaxSteps /\ cut' \in BOOLEAN /\ done' \in BOOLEAN
  BY <1>1, <1>2, Zenon
<1> QED BY <1>1, <1>3, <1>8, <1>9, SearchGoesOn, Zenon

\* An attempt that ends without a layout has found that there is none.
LEMMA GiveUpKeeps == ChartInv /\ GiveUp => ChartInv'
<1> SUFFICES ASSUME ChartInv, GiveUp PROVE ChartInv'
  OBVIOUS
<1>1. /\ ~done /\ Len(laid) < Len(Ordered) /\ next > OptionCount(Len(laid) + 1) /\ laid = <<>>
      /\ chart' = chart /\ laid' = laid /\ cut' = (cut \/ AtDrop)
      /\ IF attempt < 3 THEN attempt' = Lesser(3, NextAttempt) /\ next' = 1 /\ steps' = 1 /\ UNCHANGED done
         ELSE done' = TRUE /\ UNCHANGED <<attempt, next, steps>>
  BY DEF GiveUp, AfterOptions, OptionCount
<1>2. /\ chart \in Charts /\ chart.kind = "notes" /\ laid \in Seq(Nat \ {0}) /\ next \in Nat \ {0}
      /\ attempt \in 1 .. 3 /\ steps \in 1 .. MaxSteps /\ MaxSteps \in Nat /\ cut \in BOOLEAN /\ done \in BOOLEAN
      /\ Len(laid) = 0 /\ Len(Ordered) \in Nat /\ SearchSound(laid, next, attempt, done, cut)
      /\ 1 \in 1 .. Len(Ordered) /\ OptionCount(1) \in Nat /\ next > OptionCount(1)
  <2>1. Len(laid) = 0
    BY <1>1
  <2>2. Len(laid) + 1 = 1
    BY <2>1
  <2> QED BY <1>1, <2>1, <2>2, Searching DEF ChartInv, ChartParts
<1>3. ASSUME NEW shorts \in BOOLEAN, NEW f \in Layouts(shorts) PROVE ~NotPassed(f, laid, next)
  <2>1. f[1] \in Nat /\ f[1] <= OptionCount(1)
    BY <1>2, LayoutsLabels
  <2>2. ASSUME NotPassed(f, laid, next) PROVE f[1] >= next
    <3>1. \A m \in 1 .. 1 - 1 : f[m] = laid[m]
      OBVIOUS
    <3> QED BY <1>2, <2>2, <3>1 DEF NotPassed
  <2> QED BY <1>2, <2>1, <2>2
<1>4. cut' = FALSE => NothingMissed(laid, next, attempt)
  <2>1. cut' = FALSE => cut = FALSE
    BY <1>1, <1>2, Zenon
  <2> QED BY <1>2, <2>1, Zenon DEF SearchSound
<1>5. CASE attempt < 3
  <2>1. attempt' = attempt + 1 /\ next' = 1 /\ steps' = 1 /\ done' = done
    BY <1>1, <1>2, <1>5 DEF Lesser, NextAttempt
  <2>2. ASSUME NEW f \in Layouts(TRUE) PROVE NotPassed(f, laid', next')
    <3>1. \A n \in 1 .. Len(Ordered) : f[n] \in Nat /\ f[n] >= 1
      BY <1>2, LayoutsLabels
    <3> QED BY <1>1, <1>2, <2>1, <3>1, StartMissesNone
  <2>3. ASSUME NothingMissed(laid, next, attempt) PROVE NothingMissed(laid', next', attempt')
    <3>1. CASE attempt = 1
      <4>1. attempt' = 2 /\ attempt' # 1 /\ attempt' # 3
        BY <2>1, <3>1
      <4>2. Layouts(FALSE) = {}
        BY <1>3, <2>3, <3>1, Zenon DEF NothingMissed
      <4> QED BY <2>2, <4>1, <4>2, Zenon DEF NothingMissed
    <3>2. CASE attempt = 2
      <4>1. attempt' = 3 /\ attempt' # 1 /\ attempt > 1
        BY <2>1, <3>2
      <4>2. Layouts(FALSE) = {} /\ Layouts(TRUE) = {}
        BY <1>3, <2>3, <4>1, Zenon DEF NothingMissed
      <4> QED BY <4>1, <4>2, Zenon DEF NothingMissed
    <3> QED BY <1>2, <1>5, <3>1, <3>2
  <2>4. LaidAsAllowed(laid', attempt') /\ LaidClear(laid') /\ Len(laid') <= Len(Ordered)
    BY <1>1, <1>2 DEF LaidAsAllowed, LaidClear
  <2>5. SearchSound(laid', next', attempt', done', cut')
    BY <1>1, <1>4, <2>1, <2>3, <2>4, Zenon DEF SearchSound
  <2>6. attempt' \in 1 .. 3 /\ steps' \in 1 .. MaxSteps /\ next' \in Nat \ {0}
    BY <1>2, <1>5, <2>1
  <2>7. cut' \in BOOLEAN /\ done' \in BOOLEAN /\ laid' \in Seq(Nat \ {0})
    BY <1>1, <1>2, <2>1, Zenon
  <2> QED BY <1>1, <2>5, <2>6, <2>7, SearchGoesOn, Zenon
<1>6. CASE ~(attempt < 3)
  <2>1. attempt = 3 /\ attempt' = attempt /\ next' = next /\ steps' = steps /\ done' = TRUE
    BY <1>1, <1>2, <1>6
  <2>2. SearchSound(laid', next', attempt', done', cut')
    BY <1>1, <1>2, <1>4, <2>1, Zenon DEF SearchSound
  <2>3. attempt' \in 1 .. 3 /\ steps' \in 1 .. MaxSteps /\ next' \in Nat \ {0} /\ cut' \in BOOLEAN /\ done' \in BOOLEAN
        /\ laid' \in Seq(Nat \ {0})
    BY <1>1, <1>2, <2>1, Zenon
  <2> QED BY <1>1, <2>2, <2>3, SearchGoesOn, Zenon
<1> QED BY <1>5, <1>6, Zenon

\* The invariant is kept by every step.
LEMMA ChartInvKept == ChartInv /\ [ChartNext]_chartVars => ChartInv'
<1> SUFFICES ASSUME ChartInv, ChartNext \/ UNCHANGED chartVars PROVE ChartInv'
  BY DEF chartVars
<1>1. CASE Found
  <2>1. /\ ~done /\ Len(laid) = Len(Ordered) /\ done' = TRUE
        /\ chart' = chart /\ attempt' = attempt /\ laid' = laid /\ next' = next /\ steps' = steps /\ cut' = cut
    BY <1>1 DEF Found
  <2>2. SearchSound(laid', next', attempt', done', cut')
    BY <2>1, Searching, Zenon DEF SearchSound
  <2>3. attempt' \in 1 .. 3 /\ steps' \in 1 .. MaxSteps /\ cut' \in BOOLEAN /\ done' \in BOOLEAN
        /\ laid' \in Seq(Nat \ {0}) /\ next' \in Nat \ {0}
    BY <2>1, Zenon DEF ChartInv, ChartParts
  <2> QED BY <2>1, <2>2, <2>3, SearchGoesOn, Zenon
<1>2. CASE UNCHANGED chartVars
  <2>1. /\ chart' = chart /\ attempt' = attempt /\ laid' = laid /\ next' = next /\ steps' = steps /\ cut' = cut
        /\ done' = done
    BY <1>2 DEF chartVars
  <2>2. ChartParts'
    BY <2>1 DEF ChartInv, ChartParts
  <2>3. ASSUME chart.kind = "notes" PROVE SearchSound(laid, next, attempt, done, cut)'
    <3>1. SearchSound(laid', next', attempt', done', cut')
      BY <2>1, <2>3, Zenon DEF ChartInv
    <3> QED BY <2>1, <3>1, SameChart
  <2> QED BY <2>1, <2>2, <2>3 DEF ChartInv
<1> QED BY <1>1, <1>2, TryOptionKeeps, DropLabelKeeps, BacktrackKeeps, GiveUpKeeps, Zenon DEF ChartNext

\* Two labels that were laid are both clear of each other, when the later one was free.
LEMMA LaidApart ==
  ASSUME ChartInv, chart.kind = "notes", NEW n \in 1 .. Len(laid), NEW m \in 1 .. Len(laid), n < m,
         ~Placed[n].dropped, ~Placed[m].dropped
  PROVE  /\ Placed[n] \in AllPlaces /\ Placed[m] \in AllPlaces
         /\ ~Overlaps(Placed[n], Placed[m]) /\ ~Crosses(Placed[n], Placed[m]) /\ ~Crosses(Placed[m], Placed[n])
<1>1. /\ Len(laid) \in Nat /\ Placed = [j \in 1 .. Len(laid) |-> At(j, laid[j])]
      /\ chart \in Charts /\ SearchSound(laid, next, attempt, done, cut)
      /\ \A j \in 1 .. Len(laid) : laid[j] \in Nat \ {0}
  BY PlacedLabels, ElementOfSeq DEF ChartInv, ChartParts
<1>2. Len(Ordered) \in Nat /\ Len(laid) <= Len(Ordered)
  BY <1>1, OrderedNotes DEF SearchSound
<1>3. ASSUME NEW j \in 1 .. Len(laid), ~Placed[j].dropped
      PROVE  ~(laid[j] > OptionCount(j)) /\ Placed[j] = At(j, laid[j]) /\ Placed[j] \in AllPlaces
  <2>1. Placed[j] = At(j, laid[j]) /\ j \in 1 .. Len(Ordered)
    BY <1>1, <1>2
  <2>2. ASSUME laid[j] > OptionCount(j) PROVE FALSE
    <3>1. At(j, laid[j]).dropped
      BY <2>2 DEF At, Place, OptionCount, Dropping
    <3> QED BY <1>3, <2>1, <3>1
  <2>3. laid[j] \in 1 .. OptionCount(j)
    BY <1>1, <2>1, <2>2, OrderedNotes
  <2> QED BY <1>1, <2>1, <2>2, <2>3, OrderedNotes
<1>4. IsFree(At(m, laid[m]), [j \in 1 .. m - 1 |-> At(j, laid[j])])
  BY <1>1, <1>3, Zenon DEF SearchSound, LaidClear
<1> DEFINE before == [j \in 1 .. m - 1 |-> At(j, laid[j])]
<1>5. n \in DOMAIN before /\ before[n] = Placed[n]
  <2>1. n \in 1 .. m - 1
    BY <1>1
  <2> QED BY <1>1, <2>1
<1> HIDE DEF before
<1>6. ~(Overlaps(before[n], At(m, laid[m])) \/ Crosses(before[n], At(m, laid[m])) \/ Crosses(At(m, laid[m]), before[n]))
  BY <1>4, <1>5, Zenon DEF IsFree, before
<1> QED BY <1>3, <1>5, <1>6

\* Labels that neither overlap nor cross are clear of each other, seen from either.
LEMMA ClearIsSymmetric ==
  ASSUME NEW p \in AllPlaces, NEW c \in AllPlaces, ~Overlaps(p, c), ~Crosses(p, c), ~Crosses(c, p)
  PROVE  /\ p.row = c.row => p.x1 + Gap <= c.x0 \/ c.x1 + Gap <= p.x0
         /\ p.leader /\ p.row >= c.row => p.at <= c.x0 - Clearance \/ p.at >= c.x1 + Clearance
         /\ c.row = p.row => c.x1 + Gap <= p.x0 \/ p.x1 + Gap <= c.x0
         /\ c.leader /\ c.row >= p.row => c.at <= p.x0 - Clearance \/ c.at >= p.x1 + Clearance
<1>1. /\ p.x0 \in Int /\ p.x1 \in Int /\ p.row \in Nat /\ p.at \in Int /\ p.leader \in BOOLEAN
      /\ c.x0 \in Int /\ c.x1 \in Int /\ c.row \in Nat /\ c.at \in Int /\ c.leader \in BOOLEAN
  BY DEF AllPlaces
<1> QED BY <1>1 DEF Overlaps, Crosses, Gap, Clearance

\* No two labels collide, whichever was placed first.
LEMMA LabelsAreClear == ChartInv => LabelsClear
<1> SUFFICES ASSUME ChartInv, chart.kind = "notes", NEW n \in DOMAIN Placed, NEW m \in DOMAIN Placed, n # m,
                    ~Placed[n].dropped, ~Placed[m].dropped
             PROVE  /\ Placed[n].row = Placed[m].row =>
                         Placed[n].x1 + Gap <= Placed[m].x0 \/ Placed[m].x1 + Gap <= Placed[n].x0
                    /\ Placed[n].leader /\ Placed[n].row >= Placed[m].row =>
                         Placed[n].at <= Placed[m].x0 - Clearance \/ Placed[n].at >= Placed[m].x1 + Clearance
  BY Zenon DEF LabelsClear
<1>1. Len(laid) \in Nat /\ n \in 1 .. Len(laid) /\ m \in 1 .. Len(laid)
  BY PlacedLabels
<1>2. CASE n < m
  BY <1>1, <1>2, LaidApart, ClearIsSymmetric
<1>3. CASE m < n
  BY <1>1, <1>3, LaidApart, ClearIsSymmetric
<1> QED BY <1>1, <1>2, <1>3

\* Labels are shortened or dropped for want of room only.
LEMMA DropsAreNeeded == ChartInv => DroppedOnlyIfNoRoom
<1> SUFFICES ASSUME ChartInv, done, chart.kind = "notes", ~cut PROVE
      /\ Len(laid) < Len(Ordered) \/ (\E n \in DOMAIN Placed : Placed[n].dropped) => Layouts(TRUE) = {}
      /\ (\E n \in DOMAIN Placed : Placed[n].isShort) => Layouts(FALSE) = {}
  BY Zenon DEF DroppedOnlyIfNoRoom
<1>1. /\ Len(laid) \in Nat /\ Placed = [j \in 1 .. Len(laid) |-> At(j, laid[j])] /\ DOMAIN Placed = 1 .. Len(laid)
      /\ chart \in Charts /\ SearchSound(laid, next, attempt, done, cut) /\ attempt \in 1 .. 3
      /\ \A j \in 1 .. Len(laid) : laid[j] \in Nat \ {0}
  BY PlacedLabels, ElementOfSeq DEF ChartInv, ChartParts
<1>2. Len(Ordered) \in Nat /\ Len(laid) <= Len(Ordered)
  BY <1>1, OrderedNotes DEF SearchSound
<1>3. NothingMissed(laid, next, attempt) /\ LaidAsAllowed(laid, attempt)
  <2>1. cut = FALSE
    BY DEF ChartInv, ChartParts
  <2> QED BY <1>1, <2>1, Zenon DEF SearchSound
<1>4. ASSUME NEW j \in 1 .. Len(laid)
      PROVE  /\ Placed[j] = At(j, laid[j])
             /\ laid[j] > OptionCount(j) \/ Placed[j] \in AllPlaces
  <2>1. Placed[j] = At(j, laid[j]) /\ j \in 1 .. Len(Ordered)
    BY <1>1, <1>2
  <2>2. ASSUME ~(laid[j] > OptionCount(j)) PROVE laid[j] \in 1 .. OptionCount(j)
    BY <1>1, <2>1, <2>2, OrderedNotes
  <2> QED BY <1>1, <2>1, <2>2, OrderedNotes
<1>5. attempt = 3 => Layouts(TRUE) = {}
  BY <1>3, Zenon DEF NothingMissed
<1>6. ASSUME Len(laid) < Len(Ordered) PROVE attempt = 3
  <2>1. done = TRUE /\ Len(laid) # Len(Ordered)
    BY <1>1, <1>2, <1>6 DEF ChartInv, ChartParts
  <2> QED BY <1>1, <2>1, Zenon DEF SearchSound
<1>7. ASSUME NEW n \in 1 .. Len(laid), Placed[n].dropped PROVE attempt = 3
  <2>1. ASSUME Placed[n] \in AllPlaces PROVE FALSE
    BY <1>7, <2>1 DEF AllPlaces
  <2> QED BY <1>3, <1>4, <2>1, Zenon DEF LaidAsAllowed
<1>8. ASSUME NEW n \in 1 .. Len(laid), Placed[n].isShort PROVE Layouts(FALSE) = {}
  <2>1. Placed[n].isShort = TRUE
    <3>1. CASE laid[n] > OptionCount(n)
      <4>1. Placed[n] = Dropping(Ordered[n])
        BY <1>4, <3>1 DEF At, Place, OptionCount
      <4> QED BY <1>8, <4>1 DEF Dropping
    <3>2. CASE Placed[n] \in AllPlaces
      BY <1>8, <3>2 DEF AllPlaces
    <3> QED BY <1>4, <3>1, <3>2
  <2>2. attempt > 1
    BY <1>3, <1>4, <2>1, Zenon DEF LaidAsAllowed
  <2> QED BY <1>3, <2>2, Zenon DEF NothingMissed
<1> QED BY <1>1, <1>5, <1>6, <1>7, <1>8, Zenon

\* Two multiples of a number lie apart by it.
LEMMA MultiplesApart ==
  ASSUME NEW k \in Nat \ {0}, NEW a \in Nat, NEW b \in Nat, a % k = 0, b % k = 0, a < b
  PROVE  b - a >= k
<1> DEFINE q == a \div k
           r == b \div k
<1>1. q \in Int /\ r \in Int /\ a = k * q /\ b = k * r
  OBVIOUS
<1> HIDE DEF q, r
<1>2. r - q >= 1
  <2> SUFFICES ASSUME r <= q PROVE FALSE
    BY <1>1
  <2>1. k * (q - r) >= 0
    BY <1>1
  <2> QED BY <1>1, <2>1
<1>3. k * (r - q - 1) >= 0
  BY <1>1, <1>2
<1> QED BY <1>1, <1>3

\* No two day heads touch.
LEMMA HeadsAreApart == ChartInv => HeadsApart
<1> SUFFICES ASSUME chart \in Charts, chart.kind = "days" PROVE HeadsApart
  BY DEF ChartInv, ChartParts, HeadsApart
<1> DEFINE N == chart.n
           k == chart.k
           today == chart.today
<1>1. N \in Nat /\ k \in Nat \ {0} /\ today \in Nat /\ today <= N
  BY ChartAssumption DEF Charts
<1> HIDE DEF N, k, today
<1> DEFINE Near(u) == today # 0 /\ k > 1 /\ u - today < k /\ today - u < k
<1>2. Heads(chart) = {u \in 1 .. N : u = today \/ ((u - 1) % k = 0 /\ ~Near(u))}
  BY DEF Heads, N, k, today
<1> HIDE DEF Near
<1>3. today # 0 => today \in Heads(chart)
  BY <1>1, <1>2
<1>4. ASSUME NEW u \in Heads(chart), NEW j \in Heads(chart), u < j PROVE j - u >= k
  <2>1. u \in 1 .. N /\ j \in 1 .. N
    BY <1>2
  <2>2. CASE u = today
    <3>1. ~Near(j)
      BY <1>1, <1>2, <1>4, <2>1, <2>2
    <3> QED BY <1>1, <1>4, <2>1, <2>2, <3>1 DEF Near
  <2>3. CASE j = today
    <3>1. ~Near(u)
      BY <1>1, <1>2, <1>4, <2>1, <2>3
    <3> QED BY <1>1, <1>4, <2>1, <2>3, <3>1 DEF Near
  <2>4. CASE u # today /\ j # today
    <3>1. (u - 1) % k = 0 /\ (j - 1) % k = 0
      BY <1>2, <2>4
    <3>2. u - 1 \in Nat /\ j - 1 \in Nat /\ u - 1 < j - 1
      BY <1>1, <1>4, <2>1
    <3>3. (j - 1) - (u - 1) >= k
      BY <1>1, <3>1, <3>2, MultiplesApart
    <3> QED BY <1>1, <2>1, <3>3
  <2> QED BY <2>2, <2>3, <2>4
<1> QED BY <1>3, <1>4 DEF HeadsApart, k, today

\* The least of a set of numbers is one of them, and none is less.
LEMMA LeastIsLeast ==
  ASSUME NEW S, S \subseteq Nat, S # {}
  PROVE  LeastOf(S) \in S /\ \A m \in S : LeastOf(S) <= m
  BY LeastNumber DEF LeastOf

\* The step of the ticks is a number, and five lines or six cover the values.
LEMMA StepsAreRound ==
  ASSUME NEW lo \in Int, NEW hi \in Int, InRange(hi - lo)
  PROVE  TickStep(lo, hi) \in Nat \ {0} /\ 4 * TickStep(lo, hi) >= hi - lo
<1> DEFINE range == hi - lo
<1>1. range \in Int /\ range >= 40 /\ range <= 400000
  BY SMT DEF InRange
<1> HIDE DEF range
<1> DEFINE P == {p \in PowersOfTen : 4 * p <= range}
<1>2. \E p \in P : \A q \in P : p >= q
  <2>1. CASE range >= 40000
    BY <1>1, <2>1, SMT DEF PowersOfTen
  <2>2. CASE range < 40000 /\ range >= 4000
    BY <1>1, <2>2, SMT DEF PowersOfTen
  <2>3. CASE range < 4000 /\ range >= 400
    BY <1>1, <2>3, SMT DEF PowersOfTen
  <2>4. CASE range < 400
    BY <1>1, <2>4, SMT DEF PowersOfTen
  <2> QED BY <1>1, <2>1, <2>2, <2>3, <2>4, SMT
<1>3. PICK mag : mag = MostOf(P)
  OBVIOUS
<1>4. mag \in P /\ \A q \in P : mag >= q
  BY <1>2, <1>3, SMT DEF MostOf
<1>5. mag \in Nat \ {0} /\ (5 * mag) \div 2 \in Nat \ {0} /\ 40 * mag >= range
  <2>1. mag = 10 \/ mag = 100 \/ mag = 1000 \/ mag = 10000
    BY <1>4, SMT DEF PowersOfTen
  <2>2. ASSUME NEW p \in {10, 100, 1000}, mag = p PROVE 40 * p >= range
    <3>1. 10 * p \in PowersOfTen /\ p \in Int
      BY SMT DEF PowersOfTen
    <3>2. ~(4 * (10 * p) <= range)
      BY <1>4, <2>2, <3>1, SMT
    <3> QED BY <1>1, <3>1, <3>2, SMT
  <2>3. 40 * mag >= range
    BY <1>1, <2>1, <2>2, SMT
  <2> QED BY <2>1, <2>3, SMT
<1> HIDE DEF P
<1> DEFINE S == {s \in {mag, 2 * mag, (5 * mag) \div 2, 5 * mag, 10 * mag} : 4 * s >= range}
<1>6. S \subseteq Nat /\ 10 * mag \in S
  BY <1>1, <1>5, SMT
<1>7. \A s \in S : s \in Nat \ {0} /\ 4 * s >= range
  BY <1>1, <1>5, SMT
<1>8. TickStep(lo, hi) = LeastOf(S)
  BY <1>3, Zenon DEF TickStep, range, P
<1> HIDE DEF S
<1> QED BY <1>6, <1>7, <1>8, LeastIsLeast DEF range

\* A number lies between two lines.
LEMMA BetweenLines ==
  ASSUME NEW s \in Nat \ {0}, NEW m \in Int
  PROVE  m \div s \in Int /\ (m \div s) * s <= m /\ m < (m \div s) * s + s
  OBVIOUS

\* As many lines fit as were drawn.
LEMMA LinesAreCounted ==
  ASSUME NEW s \in Nat \ {0}, NEW k \in Int
  PROVE  (s * k) \div s = k
<1> DEFINE q == (s * k) \div s
<1>1. q \in Int /\ q * s <= s * k /\ s * k < q * s + s
  BY BetweenLines
<1> HIDE DEF q
<1>2. ~(q < k)
  <2> SUFFICES ASSUME q < k PROVE FALSE
    OBVIOUS
  <2>1. s * (k - q - 1) >= 0
    <3>1. k - q - 1 \in Nat
      BY <1>1
    <3> QED BY <3>1
  <2> QED BY <1>1, <2>1
<1>3. ~(k < q)
  <2> SUFFICES ASSUME k < q PROVE FALSE
    OBVIOUS
  <2>1. s * (q - k) > 0
    BY <1>1
  <2> QED BY <1>1, <2>1
<1> QED BY <1>1, <1>2, <1>3 DEF q

\* The highest line is drawn above the value, by no more than a step.
LEMMA HighestLine ==
  ASSUME NEW s \in Nat \ {0}, NEW m \in Int
  PROVE  \E k \in Int : HighTick(m, s) = s * k /\ s * k > m /\ s * k <= m + s
<1> DEFINE c == CeilDiv(m, s)
<1>1. c \in Int /\ c * s >= m /\ c * s < m + s
  <2> DEFINE q == (-m) \div s
  <2>1. q \in Int /\ q * s <= -m /\ -m < q * s + s
    BY BetweenLines
  <2> HIDE DEF q
  <2>2. (-q) * s >= m /\ (-q) * s < m + s
    BY <2>1
  <2> QED BY <2>1, <2>2 DEF CeilDiv, q
<1> HIDE DEF c
<1>2. CASE c * s <= m
  <2>1. HighTick(m, s) = c * s + s
    BY <1>2 DEF HighTick, c
  <2>2. c * s + s = s * (c + 1) /\ c + 1 \in Int
    BY <1>1
  <2>3. c * s + s > m /\ c * s + s <= m + s
    BY <1>1, <1>2
  <2> QED BY <2>1, <2>2, <2>3
<1>3. CASE ~(c * s <= m)
  <2>1. HighTick(m, s) = c * s
    BY <1>3 DEF HighTick, c
  <2>2. c * s = s * c /\ c * s > m /\ c * s <= m + s
    BY <1>1, <1>3
  <2> QED BY <1>1, <2>1, <2>2
<1> QED BY <1>2, <1>3

\* The lines of an axis enclose its values, and are two to seven.
LEMMA TicksDoCover == ChartInv => TicksCover
<1> SUFFICES ASSUME chart \in Charts, chart.kind = "axis", chart.min <= chart.max PROVE TicksCover
  BY DEF ChartInv, ChartParts, TicksCover
<1> DEFINE low == chart.min
           top == Top(chart.min, chart.max)
           s == TickStep(low, top)
           lo == (low \div s) * s
           high == HighTick(top, s)
<1>1. low \in Int /\ chart.max \in Int /\ low \in Bounds /\ chart.max \in Bounds
  <2>1. low \in Bounds /\ chart.max \in Bounds
    BY DEF Charts
  <2> QED BY <2>1, ChartAssumption
<1>2. top \in Int /\ InRange(top - low) /\ top >= chart.max /\ top >= low
  <2>1. CASE chart.max = low
    <3>1. top = low + 100
      BY <2>1, Zenon DEF Top
    <3> QED BY <1>1, <2>1, <3>1, SMT DEF InRange
  <2>2. CASE chart.max # low
    <3>1. top = chart.max /\ low < chart.max
      BY <1>1, <2>2, SMT DEF Top
    <3>2. InRange(chart.max - low)
      BY <1>1, <3>1, ChartAssumption
    <3> QED BY <1>1, <3>1, <3>2, SMT
  <2> QED BY <2>1, <2>2
<1>3. s \in Nat \ {0} /\ 4 * s >= top - low
  BY <1>1, <1>2, StepsAreRound
<1> HIDE DEF s
<1>4. lo \in Int /\ lo <= low /\ low < lo + s /\ low \div s \in Int
  BY <1>1, <1>3, BetweenLines
<1>5. PICK k \in Int : high = s * k /\ s * k > top /\ s * k <= top + s
  BY <1>2, <1>3, HighestLine
<1>6. PICK q \in Int : s * q = high - lo
  <2>1. s * k - (low \div s) * s = s * (k - low \div s)
    BY <1>3, <1>4
  <2>2. k - low \div s \in Int
    BY <1>4
  <2> QED BY <1>5, <2>1, <2>2
<1>7. (high - lo) \div s = q
  BY <1>3, <1>6, LinesAreCounted
<1>8. Ticks(chart.min, chart.max) = [lo |-> lo, step |-> s, lines |-> q + 1]
  BY <1>7, Zenon DEF Ticks, s
<1> HIDE DEF lo, high, top
<1>9. lo + q * s > chart.max /\ s * q = q * s
  BY <1>1, <1>2, <1>3, <1>4, <1>5, <1>6
<1>10. s * q > 0 /\ s * q < 6 * s
  BY <1>1, <1>2, <1>3, <1>4, <1>5, <1>6
<1>11. q >= 1 /\ q <= 5
  <2>1. ASSUME q <= 0 PROVE FALSE
    <3>1. s * (-q) >= 0
      BY <1>3, <2>1
    <3> QED BY <1>3, <1>10, <3>1
  <2>2. ASSUME q >= 6 PROVE FALSE
    <3>1. s * (q - 6) >= 0
      BY <1>3, <2>2
    <3> QED BY <1>3, <1>10, <3>1
  <2> QED BY <2>1, <2>2
<1>12. q + 1 \in 2 .. 7 /\ (q + 1) - 1 = q
  BY <1>11
<1> DEFINE t == Ticks(chart.min, chart.max)
<1>13. t.lo = lo /\ t.step = s /\ t.lines = q + 1
  BY <1>8
<1> HIDE DEF t
<1>14. t.lo <= chart.min /\ chart.min < t.lo + t.step /\ t.lo + (t.lines - 1) * t.step > chart.max /\ t.lines \in 2 .. 7
  BY <1>4, <1>9, <1>12, <1>13
<1> QED BY <1>14 DEF TicksCover, t

\* The charts that ask for the labels of an axis.
AxisCharts == {c \in Charts : c.kind = "labels"}

\* The numbers of an axis, and what the cap leaves to each label.
LEMMA AxisParts ==
  ASSUME NEW c \in AxisCharts
  PROVE  /\ c.n \in Nat \ {0} /\ c.span \in Nat /\ c.start \in Nat /\ c.step \in Nat
         /\ Cap(c.span) \in 2 .. 8 /\ c.span >= 35 * Cap(c.span)
<1>1. /\ c.n \in Lengths /\ c.span \in Spans /\ c.start \in Starts /\ c.step \in ClockSteps \cup {0}
  BY DEF AxisCharts, Charts
<1>2. c.n \in Nat \ {0} /\ c.span \in Nat /\ c.span >= 70 /\ c.start \in Nat /\ c.step \in Nat
  <2>1. Spans \subseteq Nat /\ Starts \subseteq Nat /\ ClockSteps \subseteq Nat \ {0}
    BY ChartAssumption
  <2>2. Lengths \subseteq Nat \ {0}
    BY ChartAssumption
  <2>3. \A span \in Spans : span >= 70
    BY ChartAssumption
  <2>4. c.step \in Nat
    <3>1. c.step \in ClockSteps \/ c.step = 0
      BY <1>1, Zenon
    <3>2. ASSUME c.step \in ClockSteps PROVE c.step \in Nat
      BY <2>1, <3>2, Zenon
    <3>3. ASSUME c.step = 0 PROVE c.step \in Nat
      BY <3>3
    <3> QED BY <3>1, <3>2, <3>3, Zenon
  <2> QED BY <1>1, <2>1, <2>2, <2>3, <2>4
<1>3. Cap(c.span) \in 2 .. 8 /\ c.span >= 35 * Cap(c.span)
  BY <1>2, SMT DEF Cap, Greater, Lesser, Clock
<1> QED BY <1>2, <1>3

\* A step starts at one of the labels.
LEMMA StartsAtALabel ==
  ASSUME NEW c \in AxisCharts, NEW k
  PROVE  StartAt(c, k) \in 0 .. c.n - 1
<1>1. c.n \in Nat \ {0}
  BY AxisParts
<1>2. ASSUME NEW m, FirstOn(c, m) # {} PROVE LeastOf(FirstOn(c, m)) \in 0 .. c.n - 1
  <2>1. FirstOn(c, m) \subseteq 0 .. c.n - 1
    BY DEF FirstOn
  <2>2. FirstOn(c, m) \subseteq Nat
    BY <1>1, <2>1
  <2> QED BY <1>2, <2>1, <2>2, LeastIsLeast
<1>3. 0 \in 0 .. c.n - 1
  BY <1>1
<1> QED BY <1>2, <1>3, Zenon DEF StartAt

\* The steps that leave few enough labels.
FewEnough(c) == {k \in 1 .. c.n - 1 : WholeStep(c, k) /\ PickCount(c, k) <= Cap(c.span)}

\* The step is one that leaves few enough labels, if there is one, and all but the last otherwise.
LEMMA StepIsFewEnough ==
  ASSUME NEW c \in AxisCharts
  PROVE  IF FewEnough(c) # {} THEN PickStep(c) \in FewEnough(c) ELSE PickStep(c) = c.n - 1
<1> DEFINE lands == {k \in FewEnough(c) : (c.n - 1 - StartAt(c, k)) % k = 0}
<1>1. FewEnough(c) \subseteq Nat /\ lands \subseteq FewEnough(c)
  BY AxisParts DEF FewEnough
<1>2. \/ lands # {} /\ PickStep(c) = LeastOf(lands)
      \/ FewEnough(c) # {} /\ PickStep(c) = LeastOf(FewEnough(c))
      \/ FewEnough(c) = {} /\ PickStep(c) = c.n - 1
  BY Zenon DEF PickStep, FewEnough
<1> HIDE DEF lands
<1>3. CASE lands # {} /\ PickStep(c) = LeastOf(lands)
  <2>1. lands \subseteq Nat
    BY <1>1
  <2> QED BY <1>1, <1>3, <2>1, LeastIsLeast
<1>4. CASE FewEnough(c) # {} /\ PickStep(c) = LeastOf(FewEnough(c))
  BY <1>1, <1>4, LeastIsLeast
<1>5. CASE FewEnough(c) = {} /\ PickStep(c) = c.n - 1
  BY <1>5
<1> QED BY <1>2, <1>3, <1>4, <1>5

\* Every k-th of the labels up to the last, from the s-th on: as many as steps fit, and one.
LEMMA EveryKth ==
  ASSUME NEW last \in Nat, NEW s \in 0 .. last, NEW k \in Nat \ {0}, NEW T, T = {u \in s .. last : (u - s) % k = 0}
  PROVE  /\ IsFiniteSet(T) /\ Cardinality(T) \in Nat \ {0} /\ Cardinality(T) <= (last - s) \div k + 1
         /\ \A u, j \in T : u < j => j - u >= k
<1> DEFINE most == (last - s) \div k
           f == [u \in T |-> (u - s) \div k]
<1>1. most \in Int /\ most * k <= last - s /\ last - s < most * k + k /\ last - s \in Nat
  BY BetweenLines
<1>2. ASSUME NEW u \in T
      PROVE  /\ u \in s .. last /\ u - s \in Nat /\ (u - s) \div k \in Int /\ u - s = k * ((u - s) \div k)
  <2>1. u \in s .. last /\ u - s \in Nat /\ (u - s) % k = 0
    OBVIOUS
  <2>2. \A a \in Nat : a % k = 0 => a \div k \in Int /\ a = k * (a \div k)
    OBVIOUS
  <2> QED BY <2>1, <2>2
<1>3. ASSUME NEW u \in T PROVE (u - s) \div k \in 0 .. most
  <2>1. PICK q \in Int : q = (u - s) \div k
    BY <1>2
  <2>2. u - s = k * q /\ u - s >= 0 /\ u - s <= last - s
    BY <1>2, <2>1
  <2>3. ASSUME q < 0 PROVE FALSE
    <3>1. k * (-q) > 0
      BY <2>3
    <3> QED BY <2>2, <3>1
  <2>4. ASSUME most < q PROVE FALSE
    <3>1. k * (q - most - 1) >= 0
      BY <1>1, <2>4
    <3> QED BY <1>1, <2>2, <3>1
  <2> QED BY <1>1, <2>1, <2>3, <2>4
<1>4. s \in T
  <2>1. \A a \in Nat : a = 0 => a % k = 0
    OBVIOUS
  <2>2. s - s \in Nat /\ s - s = 0 /\ s \in s .. last
    OBVIOUS
  <2> QED BY <2>1, <2>2
<1>5. most \in Nat
  BY <1>1, <1>3, <1>4
<1>6. f \in Injection(T, 0 .. most)
  <2>1. f \in [T -> 0 .. most]
    BY <1>3
  <2>2. ASSUME NEW u \in T, NEW j \in T, f[u] = f[j] PROVE u = j
    <3>1. u - s = j - s
      BY <1>2, <2>2
    <3> QED BY <1>2, <3>1
  <2> QED BY <2>1, <2>2 DEF Injection, IsInjective
<1>7. IsFiniteSet(0 .. most) /\ Cardinality(0 .. most) = most + 1
  <2> HIDE DEF most
  <2> QED BY <1>5, FS_Interval
<1>8. IsFiniteSet(T) /\ Cardinality(T) <= most + 1
  <2> HIDE DEF f, most
  <2> QED BY <1>6, <1>7, FS_Injection
<1>9. Cardinality(T) \in Nat \ {0}
  BY <1>4, <1>8, FS_CardinalityType, FS_EmptySet
<1>10. ASSUME NEW u \in T, NEW j \in T, u < j PROVE j - u >= k
  <2>1. u - s \in Nat /\ j - s \in Nat /\ u - s < j - s
    BY <1>2, <1>10
  <2>3. (u - s) % k = 0 /\ (j - s) % k = 0
    OBVIOUS
  <2>2. (j - s) - (u - s) >= k
    BY <2>1, <2>3, MultiplesApart
  <2> QED BY <1>2, <2>2
<1> QED BY <1>8, <1>9, <1>10

\* The labels picked of an axis are few enough, and clear of each other if the first is one of them.
LEMMA PicksDoFit == ChartInv => PicksFit
<1> SUFFICES ASSUME chart \in Charts, chart.kind = "labels" PROVE PicksFit
  BY DEF ChartInv, ChartParts, PicksFit
<1>1. PICK c \in AxisCharts : c = chart
  BY DEF AxisCharts
<1>2. /\ c.n \in Nat \ {0} /\ c.span \in Nat /\ Cap(c.span) \in 2 .. 8 /\ c.span >= 35 * Cap(c.span)
  BY AxisParts
<1> DEFINE cap == Cap(c.span)
           k == PickStep(c)
           s == IF FewEnough(c) = {} THEN 0 ELSE StartAt(c, k)
           span == c.span
           last == c.n - 1
<1>3. last \in Nat /\ c.n = last + 1 /\ span \in Nat /\ cap \in 2 .. 8 /\ span >= 35 * cap
  BY <1>2
<1>4. Picks(c) = IF c.n <= cap THEN 0 .. last ELSE {u \in s .. last : (u - s) % k = 0}
  BY Zenon DEF Picks, FewEnough
\* Wide enough: as far apart as labels are wide.
<1>5. ASSUME NEW d \in Nat, NEW e \in Nat, d <= e, d * cap >= last PROVE e * span >= 35 * last
  <2>1. e * span >= d * span
    <3>1. (e - d) * span >= 0
      BY <1>3, <1>5
    <3> QED BY <1>3, <1>5, <3>1
  <2>2. d * span >= d * (35 * cap)
    <3>1. d * (span - 35 * cap) >= 0
      BY <1>3
    <3> QED BY <1>3, <3>1
  <2>3. d * (35 * cap) = 35 * (d * cap)
    BY <1>3
  <2> QED BY <1>3, <1>5, <2>1, <2>2, <2>3
<1>6. CASE c.n <= cap
  <2>1. Picks(c) = 0 .. last
    BY <1>4, <1>6
  <2>2. IsFiniteSet(0 .. last) /\ Cardinality(0 .. last) = last + 1
    <3>1. last \in Int /\ ~(0 > last) /\ last - 0 + 1 = last + 1
      BY <1>3
    <3> HIDE DEF last
    <3> QED BY <3>1, FS_Interval
  <2>3. Cardinality(Picks(c)) \in 1 .. cap
    BY <1>3, <1>6, <2>1, <2>2
  <2>4. ASSUME NEW u \in Picks(c), NEW j \in Picks(c), u < j PROVE (j - u) * span >= 35 * last
    <3>1. j - u \in Nat /\ 1 <= j - u
      BY <1>3, <2>1, <2>4
    <3>2. 1 * cap >= last
      BY <1>3, <1>6
    <3> QED BY <1>5, <3>1, <3>2
  <2> QED BY <1>1, <1>3, <2>3, <2>4, SMT DEF PicksFit, Apart, LabelWidth, Clock
<1>7. CASE ~(c.n <= cap)
  <2>1. Picks(c) = {u \in s .. last : (u - s) % k = 0}
    BY <1>4, <1>7
  <2>2. s \in 0 .. last /\ k \in 1 .. last /\ (last - s) \div k + 1 <= cap /\ (s = 0 => k * cap >= last)
    <3>1. CASE FewEnough(c) = {}
      <4>1. s = 0 /\ k = last
        BY <3>1, StepIsFewEnough
      <4>2. last \in Nat \ {0} /\ last - s = last * 1
        BY <1>3, <1>7, <4>1
      <4>3. (last - s) \div k = 1
        <5> HIDE DEF last, k, s
        <5> QED BY <4>1, <4>2, LinesAreCounted
      <4>4. last * (cap - 1) >= 0
        BY <1>3, <4>2
      <4>5. k * cap >= last
        BY <1>3, <4>1, <4>2, <4>4
      <4>6. 0 \in 0 .. last /\ last \in 1 .. last
        <5> HIDE DEF last
        <5> QED BY <4>2
      <4>7. s \in 0 .. last /\ k \in 1 .. last
        <5> HIDE DEF last, k, s
        <5> QED BY <4>1, <4>6
      <4>8. (last - s) \div k + 1 <= cap
        BY <1>3, <4>3
      <4> QED BY <4>5, <4>7, <4>8, Zenon
    <3>2. CASE FewEnough(c) # {}
      <4>1. k \in FewEnough(c) /\ s = StartAt(c, k)
        BY <3>2, StepIsFewEnough
      <4>2. k \in 1 .. last /\ (last - s) \div k + 1 <= cap /\ s \in 0 .. last
        BY <4>1, StartsAtALabel DEF FewEnough, PickCount
      <4>3. ASSUME s = 0 PROVE k * cap >= last
        <5>1. k \in Nat \ {0} /\ last - s = last
          BY <1>3, <4>2, <4>3
        <5> HIDE DEF last, k, s, cap
        <5>2. last \div k \in Int /\ last < (last \div k) * k + k
          BY <1>3, <5>1, BetweenLines
        <5>3. PICK q \in Int : q = last \div k
          BY <5>2
        <5>4. last < q * k + k /\ q + 1 <= cap
          BY <4>2, <5>1, <5>2, <5>3
        <5>5. k * (cap - q - 1) >= 0
          BY <1>3, <5>1, <5>4
        <5> QED BY <1>3, <5>1, <5>4, <5>5
      <4> QED BY <4>2, <4>3
    <3> QED BY <3>1, <3>2
  <2> HIDE DEF k, s
  <2>3. /\ Cardinality(Picks(c)) \in Nat \ {0} /\ Cardinality(Picks(c)) <= (last - s) \div k + 1
        /\ \A u, j \in Picks(c) : u < j => j - u >= k
    <3> HIDE DEF last
    <3>1. k \in Nat \ {0}
      BY <1>3, <2>2
    <3> QED BY <1>3, <2>1, <2>2, <3>1, EveryKth
  <2>4. Cardinality(Picks(c)) \in 1 .. cap
    <3>1. (last - s) \div k \in Int
      BY <1>3, <2>2, BetweenLines
    <3> QED BY <1>3, <2>2, <2>3, <3>1
  <2>5. ASSUME 0 \in Picks(c), NEW u \in Picks(c), NEW j \in Picks(c), u < j PROVE (j - u) * span >= 35 * last
    <3>1. s = 0 /\ k * cap >= last
      BY <1>3, <2>1, <2>2, <2>5
    <3>2. k <= j - u
      BY <2>3, <2>5
    <3>3. k \in Nat /\ j - u \in Nat
      <4>1. s \in Nat /\ u \in s .. last /\ j \in s .. last
        BY <1>3, <2>1, <2>2
      <4> QED BY <1>3, <2>2, <2>5, <4>1
    <3> QED BY <1>5, <3>1, <3>2, <3>3
  <2> QED BY <1>1, <1>3, <2>4, <2>5, SMT DEF PicksFit, Apart, LabelWidth, Clock
<1> QED BY <1>6, <1>7

-------------------------------------------------------------------------------
\* The types of the tools: the lengths, pools and places that no other invariant asks for.

\* The history keeps no more entries than it may.
LEMMA HistoryStaysShort ==
  DrawInv /\ Len(hist) <= HistoryKept /\ [DrawNext]_drawVars => Len(hist') <= HistoryKept
<1> SUFFICES ASSUME DrawInv, Len(hist) <= HistoryKept, [DrawNext]_drawVars PROVE Len(hist') <= HistoryKept
  OBVIOUS
<1>1. Len(<<>>) <= HistoryKept
  BY DrawAssumption
<1>2. ASSUME NEW kind, NEW dealt PROVE Len(Remember(kind, dealt)) <= HistoryKept
  <2> DEFINE newest == [kind |-> kind, dealt |-> dealt]
             S == PageDraws \cup AppDraws \cup {newest}
             longer == <<newest>> \o hist
             m == AtMost(HistoryKept, Len(hist) + 1)
  <2>1. hist \in Seq(S) /\ newest \in S /\ Len(hist) \in Nat
    BY DEF DrawInv
  <2> HIDE DEF newest, S
  <2>2. longer \in Seq(S) /\ Len(longer) = Len(hist) + 1
    BY <2>1
  <2>3. m \in 1 .. Len(longer) /\ m <= HistoryKept
    BY <2>1, <2>2, DrawAssumption DEF AtMost
  <2> HIDE DEF longer, m
  <2>4. Len(SubSeq(longer, 1, m)) = m
    BY <2>2, <2>3
  <2> QED BY <2>3, <2>4 DEF Remember, longer, m, newest
<1>3. ASSUME NEW new, NEW entered \in BOOLEAN, Save(new, entered) PROVE Len(hist') <= HistoryKept
  BY <1>1, <1>2, <1>3 DEF Save
<1>4. CASE UNCHANGED hist
  BY <1>4
<1>5. ASSUME NEW sector \in Sectors, Draw(sector) PROVE Len(hist') <= HistoryKept
  BY <1>3, <1>5 DEF Draw
<1>6. ASSUME NEW sector \in Sectors, NEW dealt \in Directions, DrawChosen(sector, dealt) PROVE Len(hist') <= HistoryKept
  BY <1>3, <1>6 DEF DrawChosen
<1>7. CASE RedrawDirection
  BY <1>3, <1>7 DEF RedrawDirection
<1>8. CASE DrawApp \/ RedrawStyle
  BY <1>3, <1>8 DEF DrawApp, RedrawStyle
<1>9. ASSUME \/ PickOption \/ ShowOptions \/ RemoveSheet \/ UNCHANGED drawVars
             \/ \E sector \in Sectors, n \in 2 .. 3 : DealOptions(sector, n)
      PROVE  Len(hist') <= HistoryKept
  BY <1>4, <1>9 DEF DealOptions, PickOption, ShowOptions, RemoveSheet, drawVars
<1> QED BY <1>5, <1>6, <1>7, <1>8, <1>9 DEF DrawNext

\* The types of a draw.
LEMMA DrawTypes == DrawInv /\ Len(hist) <= HistoryKept => DrawTypeOK
<1> SUFFICES ASSUME DrawInv, Len(hist) <= HistoryKept PROVE DrawTypeOK
  OBVIOUS
<1>1. \A n \in DOMAIN hist : hist[n] \in PageDraws \cup AppDraws
  BY ElementOfSeq, LenProperties DEF DrawInv
<1> QED BY <1>1 DEF DrawInv, DrawTypeOK, PageDraws, AppDraws

\* Every slot of a page and every screen of an app holds what the library has for it.
SlotsAndScreens ==
  /\ mode \in Modes /\ keep \subseteq Keepable /\ dir \in Dirs
  /\ DOMAIN slots = DOMAIN SlotPools
  /\ \A s \in DOMAIN SlotPools : slots[s] \in SlotPools[s] \cup (IF s \in keep THEN {None} ELSE {})
  /\ shell \in Shells
  /\ DOMAIN screens = DOMAIN Patterns
  /\ \A n \in DOMAIN Patterns : screens[n] \in Patterns[n] \cup {None}

\* What is dealt for the slots is in their pools.
LEMMA DealtAreAllowed ==
  ASSUME NEW f \in DealtSlots
  PROVE  /\ DOMAIN f = DOMAIN SlotPools
         /\ \A s \in DOMAIN SlotPools : f[s] \in SlotPools[s] \cup (IF s \in keep THEN {None} ELSE {})
  BY DEF DealtSlots

\* A shell that is dealt is one of the library.
LEMMA ShellsAreKnown == ASSUME NEW exclude PROVE ShellCandidates(exclude) \subseteq Shells
  BY SheetAssumption DEF ShellCandidates, Prefer

\* They do at the start.
LEMMA SlotsAtStart == SheetInit => SlotsAndScreens
<1> SUFFICES ASSUME SheetInit PROVE SlotsAndScreens
  OBVIOUS
<1>1. mode \in Modes /\ keep \subseteq Keepable /\ dir \in Dirs /\ slots \in DealtSlots /\ shell \in ShellCandidates({})
  BY DEF SheetInit
<1>2. /\ screens \in [DOMAIN Patterns -> UNION {Patterns[n] : n \in DOMAIN Patterns} \cup {None}]
      /\ \A n \in DOMAIN Patterns : IF Patterns[n] = {} THEN screens[n] = None ELSE screens[n] \in Patterns[n]
  BY DEF SheetInit
<1>3. DOMAIN screens = DOMAIN Patterns /\ \A n \in DOMAIN Patterns : screens[n] \in Patterns[n] \cup {None}
  BY <1>2
<1> QED BY <1>1, <1>3, DealtAreAllowed, ShellsAreKnown DEF SlotsAndScreens

\* They do after every deal and redraw.
LEMMA SlotsAreKept == SlotsAndScreens /\ [SheetNext]_sheetVars => SlotsAndScreens'
<1> SUFFICES ASSUME SlotsAndScreens, [SheetNext]_sheetVars PROVE SlotsAndScreens'
  OBVIOUS
<1>1. CASE UNCHANGED <<mode, keep, dir, slots, shell, screens>>
  BY <1>1 DEF SlotsAndScreens
<1>2. CASE RedrawPage
  <2>1. UNCHANGED <<mode, keep, shell, screens>> /\ dir' \in Dirs /\ slots' \in DealtSlots
    BY <1>2 DEF RedrawPage
  <2> QED BY <2>1, DealtAreAllowed DEF SlotsAndScreens
<1>3. ASSUME NEW slot \in DOMAIN SlotPools, RedrawSlot(slot) PROVE SlotsAndScreens'
  <2>1. PICK x \in SlotPools[slot] : slots' = [slots EXCEPT ![slot] = x]
    BY <1>3 DEF RedrawSlot, SlotCandidates, Prefer
  <2>2. UNCHANGED <<mode, keep, dir, shell, screens>>
    BY <1>3 DEF RedrawSlot
  <2> QED BY <2>1, <2>2 DEF SlotsAndScreens
<1>4. CASE RedrawShell
  BY <1>4, ShellsAreKnown DEF RedrawShell, SlotsAndScreens
<1>5. ASSUME NEW n \in DOMAIN Patterns, RedrawScreen(n) PROVE SlotsAndScreens'
  <2>1. PICK x \in Patterns[n] : screens' = [screens EXCEPT ![n] = x]
    BY <1>5 DEF RedrawScreen, Prefer
  <2>2. UNCHANGED <<mode, keep, dir, slots, shell>>
    BY <1>5 DEF RedrawScreen
  <2> QED BY <2>1, <2>2 DEF SlotsAndScreens
<1> QED BY <1>1, <1>2, <1>3, <1>4, <1>5 DEF SheetNext, PageNext, AppNext, DealSection, RedrawSection, TakeNamed, sheetVars

\* The types of a sheet.
LEMMA SheetTypes == SheetInv /\ SlotsAndScreens => SheetTypeOK
<1> SUFFICES ASSUME SheetInv, SlotsAndScreens PROVE SheetTypeOK
  OBVIOUS
<1>1. \A n \in DOMAIN sections : sections[n] \in Shown
  BY ElementOfSeq, LenProperties DEF SheetInv
<1> QED BY <1>1 DEF SheetInv, SlotsAndScreens, SheetTypeOK, Shown

\* What the browser tells of elements and chapters is of the page's.
ElementsAndChapters ==
  /\ net \in BOOLEAN /\ revealed \subseteq DOMAIN Reveals
  /\ was \in [DOMAIN Reveals -> {"unknown", "out", "in"}]
  /\ entries \subseteq (DOMAIN Reveals) \X {"out", "in"}
  /\ under \subseteq DOMAIN Chapters
  /\ \A n \in DOMAIN inks : inks[n] # {}
  /\ ink \in 0 .. Len(Chapters)

\* Every step keeps to them.
LEMMA ElementsAreKept == MotionInv /\ ElementsAndChapters /\ [MotionNext]_motionVars => ElementsAndChapters'
<1> SUFFICES ASSUME MotionInv, ElementsAndChapters, [MotionNext]_motionVars PROVE ElementsAndChapters'
  OBVIOUS
<1>0. observed \subseteq DOMAIN Reveals /\ inks \in Seq(SUBSET DOMAIN Chapters) /\ \A e : ViewOf(e) \in {"out", "in"}
  BY DEF MotionInv, ViewOf
<1>1. CASE UNCHANGED <<net, revealed, was, entries, under, inks, ink>>
  BY <1>1 DEF ElementsAndChapters
<1>2. CASE DrawFrame
  <2>1. UNCHANGED <<revealed, net, ink>>
    BY <1>2 DEF DrawFrame
  <2>2. was' \in [DOMAIN Reveals -> {"unknown", "out", "in"}]
    <3>1. was' = [e \in DOMAIN Reveals |-> IF e \in observed THEN ViewOf(e) ELSE was[e]]
      BY <1>2 DEF DrawFrame
    <3>2. \A e \in DOMAIN Reveals : was[e] \in {"unknown", "out", "in"} /\ ViewOf(e) \in {"unknown", "out", "in"}
      BY <1>0 DEF ElementsAndChapters
    <3> QED BY <3>1, <3>2
  <2>3. entries' \subseteq (DOMAIN Reveals) \X {"out", "in"}
    <3>1. entries' = entries \cup {<<e, ViewOf(e)>> : e \in {o \in observed : was[o] # ViewOf(o)}}
      BY <1>2 DEF DrawFrame
    <3> QED BY <1>0, <3>1 DEF ElementsAndChapters
  <2>4. under' \subseteq DOMAIN Chapters
    BY <1>2 DEF DrawFrame
  <2>5. \A n \in DOMAIN inks' : inks'[n] # {}
    <3>1. CASE inks' = inks
      BY <3>1 DEF ElementsAndChapters
    <3>2. CASE under' \ under # {} /\ inks' = Append(inks, under' \ under)
      <4>1. under' \ under \in SUBSET DOMAIN Chapters
        BY <2>4
      <4>2. /\ DOMAIN inks = 1 .. Len(inks) /\ DOMAIN inks' = 1 .. Len(inks) + 1 /\ Len(inks) \in Nat
            /\ inks'[Len(inks) + 1] = under' \ under /\ \A n \in 1 .. Len(inks) : inks'[n] = inks[n]
        BY <1>0, <3>2, <4>1
      <4>3. \A n \in DOMAIN inks' : n \in DOMAIN inks \/ n = Len(inks) + 1
        BY <4>2
      <4> QED BY <3>2, <4>2, <4>3 DEF ElementsAndChapters
    <3> QED BY <1>2, <3>1, <3>2 DEF DrawFrame
  <2> QED BY <2>1, <2>2, <2>3, <2>4, <2>5 DEF ElementsAndChapters
<1>3. CASE Notify
  <2>1. ink' \in 0 .. Len(Chapters)
    <3>1. CASE inks = <<>>
      BY <1>3, <3>1 DEF Notify, ElementsAndChapters
    <3>2. CASE inks # <<>>
      <4> DEFINE last == inks[Len(inks)]
      <4>1. Len(inks) \in DOMAIN inks /\ last \in SUBSET DOMAIN Chapters
        BY <1>0, <3>2
      <4>2. last # {}
        BY <4>1 DEF ElementsAndChapters
      <4> HIDE DEF last
      <4>3. LowestOf(last) \in DOMAIN Chapters
        BY <4>1, <4>2, LowestChapter
      <4>4. ink' = LowestOf(last)
        BY <1>3, <3>2 DEF Notify, InkAfter, last
      <4> QED BY <4>3, <4>4, ChaptersInOrder
    <3> QED BY <3>1, <3>2
  <2>2. revealed' \subseteq DOMAIN Reveals /\ entries' = {} /\ inks' = <<>> /\ UNCHANGED <<was, net, under>>
    BY <1>3 DEF Notify, Shows, ElementsAndChapters
  <2>3. \A n \in DOMAIN inks' : inks'[n] # {}
    BY <2>2
  <2> QED BY <2>1, <2>2, <2>3 DEF ElementsAndChapters
<1>4. CASE SafetyNet
  BY <1>4 DEF SafetyNet, ElementsAndChapters
<1> QED BY <1>1, <1>2, <1>3, <1>4 DEF MotionNext, ScrollTo, motionVars

\* They hold at the start.
LEMMA ElementsAtStart == MotionInit => ElementsAndChapters
<1> SUFFICES ASSUME MotionInit PROVE ElementsAndChapters
  OBVIOUS
<1>1. was = [e \in DOMAIN Reveals |-> "unknown"] /\ inks = <<>> /\ ink = 0 /\ net = FALSE /\ revealed = {} /\ entries = {} /\ under = {}
  BY DEF MotionInit
<1>2. \A n \in DOMAIN inks : inks[n] # {}
  BY <1>1
<1>3. was \in [DOMAIN Reveals -> {"unknown", "out", "in"}]
  BY <1>1
<1>4. ink \in 0 .. Len(Chapters)
  BY <1>1, ChaptersInOrder
<1> QED BY <1>1, <1>2, <1>3, <1>4 DEF ElementsAndChapters

\* The types of a page in motion.
LEMMA MotionTypes == MotionInv /\ ElementsAndChapters => MotionTypeOK
  BY DEF MotionInv, ElementsAndChapters, MotionTypeOK

\* The types of a download.
LEMMA DownloadTypes == DownloadInv => DownloadTypeOK
<1> SUFFICES ASSUME DownloadInv PROVE DownloadTypeOK
  OBVIOUS
<1>1. CreditsOK(credits) /\ CreditsOK(NoCredits)
  BY DEF DownloadInv, CreditsOK, NoCredits
<1>2. ASSUME clip \in Clips
      PROVE  /\ clip.at \in {"none", "fetching", "streaming", "poster", "record"}
             /\ clip.file \in ClipNames /\ clip.ref \in Films /\ CreditsOK(clip.read)
  <2>1. clip.at \in {"fetching", "streaming", "poster", "record"} /\ clip.file \in ClipNames /\ clip.ref \in Films
        /\ clip.read \in {credits, NoCredits}
    BY <1>2 DEF Clips
  <2> QED BY <1>1, <2>1
<1>3. NoClip.at = "none"
  BY DEF NoClip
<1>4. clip.at \in {"none", "fetching", "streaming", "poster", "record"}
  BY <1>2, <1>3 DEF DownloadInv
<1>5. clip # NoClip => clip.file \in ClipNames /\ clip.ref \in Films /\ CreditsOK(clip.read)
  BY <1>2 DEF DownloadInv
<1> QED BY <1>4, <1>5 DEF DownloadInv, DownloadTypeOK

\* The types of a chart.
LEMMA ChartTypes == ChartInv => ChartTypeOK
  BY OrderedNotes DEF ChartInv, ChartParts, SearchSound, ChartTypeOK

-------------------------------------------------------------------------------
\* Each design tool takes its own steps or none.
LEMMA Tools ==
  [ProgramsNext]_programVars =>
    /\ [ProfilesNext]_profileVars /\ [ClientNext]_clientVars /\ [InspectNext]_inspectVars
    /\ [DownloadNext]_downloadVars /\ [SearchNext]_searchVars /\ [SourcesNext]_sourceVars
    /\ [DrawNext]_drawVars /\ [SheetNext]_sheetVars /\ [ScenesNext]_sceneVars /\ [MotionNext]_motionVars
    /\ [ChartNext]_chartVars
<1> SUFFICES ASSUME ProgramsNext \/ UNCHANGED programVars
    PROVE /\ [ProfilesNext]_profileVars /\ [ClientNext]_clientVars /\ [InspectNext]_inspectVars
          /\ [DownloadNext]_downloadVars /\ [SearchNext]_searchVars /\ [SourcesNext]_sourceVars
          /\ [DrawNext]_drawVars /\ [SheetNext]_sheetVars /\ [ScenesNext]_sceneVars /\ [MotionNext]_motionVars
          /\ [ChartNext]_chartVars
  OBVIOUS
<1>1. CASE UNCHANGED programVars
  BY <1>1 DEF programVars
<1>2. CASE ProgramsNext
  <2>1. IF program = "profiles" THEN ProfilesNext ELSE UNCHANGED profileVars
    BY <1>2 DEF ProgramsNext
  <2>2. IF program = "client" THEN ClientNext ELSE UNCHANGED clientVars
    BY <1>2 DEF ProgramsNext
  <2>3. IF program = "inspect" THEN InspectNext ELSE UNCHANGED inspectVars
    BY <1>2 DEF ProgramsNext
  <2>4. IF program = "download" THEN DownloadNext ELSE UNCHANGED downloadVars
    BY <1>2 DEF ProgramsNext
  <2>5. IF program = "search" THEN SearchNext ELSE UNCHANGED searchVars
    BY <1>2 DEF ProgramsNext
  <2>6. IF program = "source" THEN SourcesNext ELSE UNCHANGED sourceVars
    BY <1>2 DEF ProgramsNext
  <2>7. IF program = "draw" THEN DrawNext ELSE UNCHANGED drawVars
    BY <1>2 DEF ProgramsNext
  <2>8. IF program = "page" THEN PageNext ELSE IF program = "app" THEN AppNext ELSE UNCHANGED sheetVars
    BY <1>2 DEF ProgramsNext
  <2>9. SheetNext \/ UNCHANGED sheetVars
    BY <2>8, Zenon DEF SheetNext
  <2>10. IF program = "scenes" THEN ScenesNext ELSE UNCHANGED sceneVars
    BY <1>2 DEF ProgramsNext
  <2>11. IF program = "motion" THEN MotionNext ELSE UNCHANGED motionVars
    BY <1>2 DEF ProgramsNext
  <2>12. IF program = "chart" THEN ChartNext ELSE UNCHANGED chartVars
    BY <1>2 DEF ProgramsNext
  <2> QED BY <2>1, <2>2, <2>3, <2>4, <2>5, <2>6, <2>7, <2>9, <2>10, <2>11, <2>12, Zenon
<1> QED BY <1>1, <1>2

ToolsInv ==
  /\ ProfilesInv /\ ClientInv /\ InspectInv /\ DownloadInv /\ SearchInv
  /\ SourcesInv /\ DrawInv /\ SheetInv /\ ScenesInv /\ MotionInv /\ ChartInv

\* Every tool starts where its own Init says.
LEMMA ToolsStart == ProgramsInit => ToolsInv
<1> SUFFICES ASSUME ProgramsInit PROVE ToolsInv
  OBVIOUS
<1>1. ProfilesInit /\ ClientInit /\ SearchInit /\ DrawInit /\ MotionInit
  BY DEF ProgramsInit
<1>2. InspectInit /\ DownloadInit /\ SourcesInit /\ ScenesInit /\ SheetInit /\ ChartInit
  BY DEF ProgramsInit, InspectStarts, DownloadStarts, SourcesStart, ScenesStart, SheetStart, ChartStart
<1> QED
  BY <1>1, <1>2, ProfilesInitInv, ClientInitInv, SearchInitInv, DrawInitInv, MotionInitInv,
     InspectInitInv, DownloadInitInv, SourcesInitInv, ScenesInitInv, SheetInitInv, ChartInitInv DEF ToolsInv

\* A step is that of one tool, or of none.
LEMMA ToolsKept == ToolsInv /\ [ProgramsNext]_programVars => ToolsInv'
  BY Tools, ProfilesInvKept, ClientInvKept, SearchInvKept, DrawInvKept, MotionInvKept,
     InspectInvKept, DownloadInvKept, SourcesInvKept, ScenesInvKept, SheetInvKept, ChartInvKept DEF ToolsInv

\* The tools that drive a browser (cdp.mjs, inspect.mjs, scenes.mjs): no run sweeps a profile that is
\* in use and says so, no event is missed between two awaits, and the pictures beside a report are its
\* own also when a run is aborted, for any number of runs, requests, widths and scenes.
THEOREM ToolsAreSound == ProgramsSpec => []ToolsSound
<1>1. ToolsInv => ToolsSound
  BY InspectIsSafe, ScenesAreSafe DEF ToolsInv, ProfilesInv, ClientInv, ToolsSound
<1> QED BY ToolsStart, ToolsKept, <1>1, PTL DEF ProgramsSpec

\* What assets.mjs shows is usable and shown once, at the row its answer was for, and a download that
\* ended well is credited whatever failed before and after it, for any sources, pictures, films and
\* sizes, however late their answers are.
THEOREM AssetsAreSound == ProgramsSpec => []AssetsSound
<1>1. ToolsInv => AssetsSound
  BY DownloadIsSafe, SearchIsSafe, SourcesAreSafe DEF ToolsInv, AssetsSound
<1> QED BY ToolsStart, ToolsKept, <1>1, PTL DEF ProgramsSpec

\* draw.mjs deals nothing that was redrawn away, offers as many options as there are, and repeats
\* no blueprint that is not scarce; base.js shows what is in view: for any directions, sectors,
\* styles, blueprints, argument, reveals and chapters.
THEOREM DesignsAreSound == ProgramsSpec => []DesignsSound
<1>1. ToolsInv => DesignsSound
  BY DrawIsSafe, SheetIsSafe, MotionIsSafe DEF ToolsInv, DesignsSound
<1> QED BY ToolsStart, ToolsKept, <1>1, PTL DEF ProgramsSpec

\* charts.js draws labels that do not collide and drops none that has room, and an axis whose lines
\* enclose its values and whose labels stand clear, for any annotations, spans and numbers, rows and
\* steps of its search.
THEOREM ChartsAreSound == ProgramsSpec => []ChartsSound
<1>1. ToolsInv => ChartsSound
  BY LabelsAreClear, DropsAreNeeded, HeadsAreApart, TicksDoCover, PicksDoFit DEF ToolsInv, ChartsSound
<1> QED BY ToolsStart, ToolsKept, <1>1, PTL DEF ProgramsSpec

\* What the types need beyond the invariants: the lengths and pools that no other property asks for.
TypesInv ==
  /\ program \in Programs
  /\ ServiceInv /\ PagesInv /\ ScriptsInv /\ ToolsInv
  /\ Len(hist) <= HistoryKept /\ SlotsAndScreens /\ ElementsAndChapters

\* The type invariant of every program, the one that runs and those that wait.
THEOREM ProgramsTypeCorrect == ProgramsSpec => []ProgramsTypeOK
<1>1. ProgramsInit => TypesInv
  <2> SUFFICES ASSUME ProgramsInit PROVE TypesInv
    OBVIOUS
  <2>1. program \in Programs /\ DrawInit /\ MotionInit /\ SheetInit
    BY DEF ProgramsInit, SheetStart
  <2>2. Len(hist) <= HistoryKept
    BY <2>1, DrawAssumption DEF DrawInit
  <2> QED BY <2>1, <2>2, ProgramsStart, ScriptsStart, ToolsStart, SlotsAtStart, ElementsAtStart DEF TypesInv
<1>2. TypesInv /\ [ProgramsNext]_programVars => TypesInv'
  <2> SUFFICES ASSUME TypesInv, [ProgramsNext]_programVars PROVE TypesInv'
    OBVIOUS
  <2>1. program' = program
    BY DEF ProgramsNext, programVars
  <2>2. ServiceInv' /\ PagesInv' /\ ScriptsInv' /\ ToolsInv'
    BY ServiceOfPrograms, PagesInvKept, ServiceOrPages, ScriptsKept, ToolsKept DEF TypesInv
  <2>3. DrawInv /\ MotionInv /\ [DrawNext]_drawVars /\ [SheetNext]_sheetVars /\ [MotionNext]_motionVars
    BY Tools DEF TypesInv, ToolsInv
  <2>4. Len(hist') <= HistoryKept /\ SlotsAndScreens' /\ ElementsAndChapters'
    BY <2>3, HistoryStaysShort, SlotsAreKept, ElementsAreKept DEF TypesInv
  <2> QED BY <2>1, <2>2, <2>4 DEF TypesInv
<1>3. TypesInv => ProgramsTypeOK
  <2> SUFFICES ASSUME TypesInv PROVE ProgramsTypeOK
    OBVIOUS
  <2>1. program \in Programs /\ ServiceTypeOK /\ PagesTypeOK
    BY ServiceTypes, PagesTypes DEF TypesInv, ServiceInv
  <2>2. ProxyTypeOK /\ ConfigureTypeOK /\ ReleaseTypeOK /\ OutageTypeOK /\ AcceptanceTypeOK /\ OAuthTypeOK
    BY ConfigureTypes, ReleaseTypes, BrowserTypes, OAuthTypes DEF TypesInv, ScriptsInv, ProxyInv, OutageInv
  <2>3. ProfilesTypeOK /\ ClientTypeOK /\ InspectTypeOK /\ ScenesTypeOK
    BY DEF TypesInv, ToolsInv, ProfilesInv, ClientInv, InspectInv, ScenesInv
  <2>4. DownloadTypeOK /\ SearchTypeOK /\ SourcesTypeOK
    BY DownloadTypes, SearchIsSafe, SourcesAreSafe DEF TypesInv, ToolsInv
  <2>5. DrawTypeOK /\ SheetTypeOK /\ ChartTypeOK /\ MotionTypeOK
    BY DrawTypes, SheetTypes, ChartTypes, MotionTypes DEF TypesInv, ToolsInv
  <2> QED BY <2>1, <2>2, <2>3, <2>4, <2>5, Zenon DEF ProgramsTypeOK
<1> QED BY <1>1, <1>2, <1>3, PTL DEF ProgramsSpec

\* A download overwrites neither the user's files nor another record's, under three names apart.
LEMMA OthersAreKept == ProgramsSpec => OthersKept
<1>1. ToolsInv /\ [ProgramsNext]_programVars =>
        [\A file \in FileNames : Overwritten(file) =>
           \/ clip.at = "poster" /\ file = Poster(clip.file)
           \/ folder[file] = Own /\ (file \in DOMAIN credits \/ (clip.at = "fetching" /\ file = clip.file))]_folder
  BY Tools, DownloadStep DEF ToolsInv
<1> QED BY ToolsStart, ToolsKept, <1>1, PTL DEF ProgramsSpec, OthersKept

\* A direction is dealt twice in a row only from a pool that holds no other.
LEMMA NeverTwiceInARow == ProgramsSpec => NotTwiceInARow
<1>1. ToolsInv /\ [ProgramsNext]_programVars =>
        [\A sector \in Sectors :
           LET last == Dealt(FirstEntries(1), "page") IN
             Draw(sector) /\ sheet'.kind = "page" /\ sheet'.dealt \in last => DirectionPool(sector, {}) = last]_drawVars
  <2> SUFFICES ASSUME ToolsInv, NEW sector \in Sectors, Draw(sector), sheet'.kind = "page",
                      sheet'.dealt \in Dealt(FirstEntries(1), "page")
               PROVE  DirectionPool(sector, {}) = Dealt(FirstEntries(1), "page")
    OBVIOUS
  <2> QED BY DrawStep DEF ToolsInv
<1> QED BY ToolsStart, ToolsKept, <1>1, PTL DEF ProgramsSpec, NotTwiceInARow

\* A section is dealt away from the shapes of its neighbours.
LEMMA ShapesDiffer == ProgramsSpec => ShapesVary
<1>1. ToolsInv /\ [ProgramsNext]_programVars =>
        [\A n \in DOMAIN sections' :
           LET after == sections'[n]
               near  == {sections'[m].shape : m \in {n - 1, n + 1} \cap DOMAIN sections'}
               free  == {b \in SectionPool(after.role) : b.id \notin IdsOf(sections)}
           IN (n \notin DOMAIN sections \/ after # sections[n]) /\ ~after.named /\ after.shape \in near =>
                \E pool \in CoinPools(after.role) : \A b \in pool \cap free : b.shape \in near]_sheetVars
  BY Tools, SheetStep DEF ToolsInv, ShapesVaryIn
<1> QED BY ToolsStart, ToolsKept, <1>1, PTL DEF ProgramsSpec, ShapesVary

\* No subject is limited before its quota is spent, and no account is shown another's profile.
LEMMA ServiceSteps == ProgramsSpec => LimitedOnlyWhenSpent /\ ProfileShown
<1>1. ServiceInv /\ [ProgramsNext]_programVars =>
        [requests' # requests /\ reply'.status = "rate_limited" => AdmittedIn(reply'.subject, LastWindow) >= Limit]_vars
  BY LimiterOfPrograms, LimitedStep DEF ServiceInv
<1>2. ServiceInv /\ [ProgramsNext]_programVars =>
        [\A c \in Calls : call[c].phase = "read" /\ call'[c].phase = "commit" =>
           call'[c].shown = IF call[c].body = "valid" THEN call[c].name ELSE profile[call[c].subject]]_serviceVars
  <2> SUFFICES ASSUME ServiceInv,
                      [ServiceNext]_serviceVars \/ (Next /\ UNCHANGED <<call, connection, profile>>)
               PROVE  [\A c \in Calls : call[c].phase = "read" /\ call'[c].phase = "commit" =>
                         call'[c].shown = IF call[c].body = "valid" THEN call[c].name
                                          ELSE profile[call[c].subject]]_serviceVars
    BY ServiceOrPages
  <2>1. CASE [ServiceNext]_serviceVars
    BY <2>1, ShownStep
  <2>2. CASE UNCHANGED call
    BY <2>2
  <2> QED BY <2>1, <2>2
<1> QED BY ProgramsStart, ServiceOfPrograms, <1>1, <1>2, PTL DEF ProgramsSpec, LimitedOnlyWhenSpent, ProfileShown

\* What no step of the programs may do, whichever of them runs: see StepsSound in MCNodePrograms.
THEOREM StepsAreSound == ProgramsSpec => StepsSound
  BY ServiceSteps, ContinuationIsKept, ConfigurationIsKept, MailIsTested, RecoveryIsKept,
     OthersAreKept, NeverTwiceInARow, ShapesDiffer DEF StepsSound
===============================================================================
