---------------------------- MODULE AssetDownloads ----------------------------
(***************************************************************************)
(* assets.mjs --get and --credits: a picture or a clip is downloaded under *)
(* a name that is free or its own, a clip with a still frame as poster,    *)
(* and its credit is recorded in credits.json.  Any write may fail, and a  *)
(* run may be killed between any two steps; the user keeps pictures of     *)
(* their own in the folder, adds to them and deletes files.  Runs on one   *)
(* folder follow one another.                                              *)
(***************************************************************************)
EXTENDS Naturals

CONSTANTS Pictures, Films,    \* records of the collections
          Own,                \* what the user put in the folder
          Gets                \* bound: downloads

Refs == Pictures \cup Films
ASSUME DownloadAssumption == Own \notin Refs /\ Gets \in Nat

\* A name is a stem, from the title or --name, with -k when it is taken (bound: k up to 2).  Clips
\* are entitled harbour; the poster of harbour.mp4 is harbour-poster.jpg, also the name of a picture
\* so entitled.
Stems == {"harbour", "harbour-poster"}
ClipNames == [stem : {"harbour"}, k : 1 .. 2, ext : {"mp4"}]
FileNames == [stem : Stems, k : 1 .. 2, ext : {"jpg"}] \cup ClipNames
                \cup [stem : {"harbour-2-poster"}, k : {1}, ext : {"jpg"}]
Poster(file) == [stem |-> IF file.k = 1 THEN "harbour-poster" ELSE "harbour-2-poster", k |-> 1, ext |-> "jpg"]

VARIABLES folder,    \* file |-> the record it holds, whole or in part
          credits,   \* credits.json: file |-> its record, and the place of the entry: later ones are higher
          readable,  \* credits.json parses
          clip,      \* the clip in progress: its file and record, the credits it read, how far it is
          gets,      \* downloads started
          uncovered  \* files of a download that did not end well or has not ended yet, and all
                     \* those that were there when credits.json was cut short

downloadVars == <<folder, credits, readable, clip, gets, uncovered>>

NoClip == [at |-> "none"]
NoCredits == [file \in {} |-> 0]
Credited(read, file, ref) == file \in DOMAIN read /\ read[file].ref = ref
CreditsOK(read) == \A file \in DOMAIN read : file \in FileNames /\ read[file] \in [ref : Refs, place : 1 .. Gets]

\* Files hold records or the user's own pictures; credits name a file and its record.
DownloadTypeOK ==
  /\ \A file \in DOMAIN folder : file \in FileNames /\ folder[file] \in Refs \cup {Own}
  /\ CreditsOK(credits) /\ readable \in BOOLEAN /\ uncovered \subseteq FileNames
  /\ clip.at \in {"none", "fetching", "streaming", "poster", "record"}
  /\ clip # NoClip => clip.file \in ClipNames /\ clip.ref \in Films /\ CreditsOK(clip.read)
  /\ gets \in 0 .. Gets

DownloadInit ==
  /\ \E file \in {name \in FileNames : name.k = 1 /\ name.ext = "jpg" /\ name.stem \in Stems} :
       folder = [f \in {file} |-> Own]
  /\ credits = NoCredits /\ readable = TRUE
  /\ clip = NoClip /\ gets = 0 /\ uncovered = {}

-------------------------------------------------------------------------------

Saved(file, ref) == [f \in DOMAIN folder \cup {file} |-> IF f = file THEN ref ELSE folder[f]]
Without(file) == [f \in DOMAIN folder \ {file} |-> folder[f]]

\* readCredits: a file that does not parse counts as empty.
ReadCredits == IF readable THEN credits ELSE NoCredits

\* targetFile: a name is taken if its file exists and is not credited to this record.
Taken_Uncredited(file, ref, read) == file \in DOMAIN folder /\ file \notin DOMAIN read
Taken(file, ref, read) == file \in DOMAIN folder /\ ~Credited(read, file, ref)

TargetFiles(stem, ext, ref, read) ==
  LET name(k) == [stem |-> stem, k |-> k, ext |-> ext]
      free == {k \in 1 .. 2 : ~Taken(name(k), ref, read)} IN
    {name(k) : k \in {k \in free : \A j \in free : k <= j}}

\* recordCredit: the entry of the file, if it has one, goes; the new one comes last.
Recorded(read, file, ref, place) ==
  [f \in DOMAIN read \cup {file} |-> IF f = file THEN [ref |-> ref, place |-> place] ELSE read[f]]

\* writeFileSync of credits.json fails or the run is killed in it: nothing is written, or the file
\* is cut short, and with it the credits of every file there is.
WriteCreditsFails(files) ==
  \/ UNCHANGED readable /\ uncovered' = uncovered \cup files
  \/ readable' = FALSE /\ uncovered' = uncovered \cup DOMAIN folder'

\* getOne, once the picture has been fetched: nothing else runs until its credit is written, but
\* either write may fail or be cut off by a kill.  getAll goes on with the next download.
GetPicture(ref, stem) ==
  /\ clip = NoClip /\ gets < Gets
  /\ gets' = gets + 1
  /\ \E file \in TargetFiles(stem, "jpg", ref, ReadCredits) :
       \/ /\ folder' = Saved(file, ref)
          /\ credits' = Recorded(ReadCredits, file, ref, gets')
          /\ readable' = TRUE /\ uncovered' = uncovered \ {file}
       \/ /\ folder' = Saved(file, ref)    \* the picture is cut short
          /\ uncovered' = uncovered \cup {file}
          /\ UNCHANGED <<credits, readable>>
       \/ /\ folder' = Saved(file, ref)
          /\ WriteCreditsFails({file})
          /\ UNCHANGED credits
  /\ UNCHANGED clip

\* getVideo reads the credits and chooses the name before it asks for the clip.
ChooseClip(ref) ==
  /\ clip = NoClip /\ gets < Gets
  /\ gets' = gets + 1
  /\ \E file \in TargetFiles("harbour", "mp4", ref, ReadCredits) :
       clip' = [at |-> "fetching", file |-> file, ref |-> ref, read |-> ReadCredits]
  /\ UNCHANGED <<folder, credits, readable, uncovered>>

\* The clip does not come: the old file, if there is one, is not touched.
FetchFails ==
  /\ clip.at = "fetching"
  /\ clip' = NoClip
  /\ UNCHANGED <<folder, credits, readable, gets, uncovered>>

\* createWriteStream empties what has the name by now.
OpenClip ==
  /\ clip.at = "fetching"
  /\ folder' = Saved(clip.file, clip.ref)
  /\ uncovered' = uncovered \cup {clip.file}
  /\ clip' = [clip EXCEPT !.at = "streaming"]
  /\ UNCHANGED <<credits, readable, gets>>

Streamed ==
  /\ clip.at = "streaming"
  /\ clip' = [clip EXCEPT !.at = "poster"]
  /\ UNCHANGED <<folder, credits, readable, gets, uncovered>>

\* The stream breaks off, passes the cap or is empty: the file is removed, if that succeeds.
StreamFails ==
  /\ clip.at = "streaming"
  /\ folder' \in {folder, Without(clip.file)}
  /\ uncovered' = uncovered \cap DOMAIN folder'
  /\ clip' = NoClip
  /\ UNCHANGED <<credits, readable, gets>>

\* The poster, if the source has one and it loads, is written over whatever has its name, whole or
\* in part.
SavePoster ==
  /\ clip.at = "poster"
  /\ \/ UNCHANGED <<folder, uncovered>>
     \/ /\ folder' = Saved(Poster(clip.file), clip.ref)
        /\ uncovered' = uncovered \cup {Poster(clip.file)}
  /\ clip' = [clip EXCEPT !.at = "record"]
  /\ UNCHANGED <<credits, readable, gets>>

RecordClip ==
  /\ clip.at = "record"
  /\ credits' = Recorded(clip.read, clip.file, clip.ref, gets) /\ readable' = TRUE
  /\ uncovered' = uncovered \ {clip.file, Poster(clip.file)}
  /\ clip' = NoClip
  /\ UNCHANGED <<folder, gets>>

\* The entry of the clip cannot be written.
RecordFails ==
  /\ clip.at = "record"
  /\ clip' = NoClip
  /\ UNCHANGED <<folder, credits, gets>>
  /\ WriteCreditsFails({})

\* The run is killed while it streams or saves the poster.
Kill ==
  /\ clip # NoClip
  /\ clip' = NoClip
  /\ UNCHANGED <<folder, credits, readable, gets, uncovered>>

\* The user puts a file of their own into the folder.
\* Bound: when they have none there, under the first name of the clips.
UserAdds ==
  /\ \A file \in DOMAIN folder : folder[file] # Own
  /\ \E file \in FileNames \ DOMAIN folder :
       /\ file.k = 1 /\ file.ext = "mp4"
       /\ folder' = Saved(file, Own)
  /\ UNCHANGED <<credits, readable, clip, gets, uncovered>>

UserDeletes ==
  /\ \E file \in DOMAIN folder :
       /\ folder' = Without(file)
       /\ uncovered' = uncovered \ {file}
  /\ UNCHANGED <<credits, readable, clip, gets>>

DownloadNext ==
  \/ \E ref \in Pictures, stem \in Stems : GetPicture(ref, stem)
  \/ \E ref \in Films : ChooseClip(ref)
  \/ FetchFails \/ OpenClip \/ Streamed \/ StreamFails \/ SavePoster \/ RecordClip \/ RecordFails
  \/ Kill \/ UserAdds \/ UserDeletes

DownloadSpec == DownloadInit /\ [][DownloadNext]_downloadVars

\* printCredits: the first entry of each record, if its file still exists.
PrintedRefs ==
  {credits[file].ref : file \in {first \in DOMAIN credits \cap DOMAIN folder :
     \A other \in DOMAIN credits : credits[other].ref = credits[first].ref => credits[first].place <= credits[other].place}}

-------------------------------------------------------------------------------

\* Every file downloaded from a collection has its credit in credits.json, also after downloads that
\* failed half way or were killed and after deletions: under its own name or, a poster, under the
\* name of its clip.  A failure or a kill costs the credit of the download it hits and of no other,
\* unless it hits the writing of credits.json; the downloads after that are credited again.  (Another
\* clip may have the name by now, if the user deleted the clip and left the poster.)
AllCredited ==
  \A file \in DOMAIN folder \ uncovered :
    folder[file] # Own => \/ Credited(credits, file, folder[file])
                         \/ \E film \in DOMAIN credits : film.ext = "mp4" /\ file = Poster(film)

\* A file is overwritten when it holds something other than it did, without being deleted.
Overwritten(file) ==
  /\ file \in DOMAIN folder /\ file \in DOMAIN folder'
  /\ folder[file] # folder'[file]
  /\ folder[file] = Own \/ Credited(credits, file, folder[file])

\* A download overwrites neither the user's files nor one credited to another record, whatever
\* shares a title, failed or was killed before.  Three names are taken without another look: that of
\* a clip's poster, that of a clip for which the user added a file while it was asked for, and one
\* that credits.json still gives to the record though the user put another file there.
OthersKept ==
  [][\A file \in FileNames : Overwritten(file) =>
       \/ clip.at = "poster" /\ file = Poster(clip.file)
       \/ folder[file] = Own /\ (file \in DOMAIN credits \/ (clip.at = "fetching" /\ file = clip.file))]_folder

\* The header of assets.mjs: it "records their credits, so the page works offline and credits
\* every picture": a credited picture that is in the folder is among the credits printed.
EveryPictureCredited ==
  readable => \A file \in DOMAIN credits :
                file \in DOMAIN folder => credits[file].ref \in PrintedRefs
===============================================================================
