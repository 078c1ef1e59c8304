---------------------------- MODULE VoiceDownload ----------------------------
(***************************************************************************)
(* The dwn command of the soundTTS plugin: it downloads a marytts component*)
(* (a voice or a language) and installs it.  Commands come from the web,   *)
(* network and console threads at the same time; all of them share the     *)
(* static isDownloading, the table of the components and the files of the  *)
(* download directory.                                                     *)
(*                                                                         *)
(* The list of components comes from the marytts site: the voices and the  *)
(* languages are the sequences Voices and Languages, and the components    *)
(* with a location are the ones of Located.  marytts' install is external. *)
(***************************************************************************)
EXTENDS Integers, Sequences, FiniteSets

CONSTANTS
  Threads,    \* the threads that run commands
  Voices,     \* the voice components, in the order of the site
  Languages,  \* the language components, in the order of the site
  Located,    \* the components that have a location
  NoComponent \* a command that has not chosen a component

Components == {Voices[i] : i \in 1..Len(Voices)} \cup {Languages[i] : i \in 1..Len(Languages)}

ASSUME LocatedAssumption == Located \subseteq Components
ASSUME NoComponentAssumption == NoComponent \notin Components

VARIABLES
  at,            \* [Threads -> DwnPlace]: where the dwn command of the thread is
  chosen,        \* [Threads -> component]: its componentDescription
  isDownloading, \* the static flag
  components,    \* the static table, from codes to components
  file,          \* [Components -> FileState]: the file of the download directory
  installed      \* the components marytts has installed

dwnVars == <<at, chosen, isDownloading, components, file, installed>>

DwnPlace == {"idle", "chosen", "free", "missing", "downloading", "fetched"}

FileState == {"absent", "partial", "complete"}

-----------------------------------------------------------------------------
(* getDownloadableList *)

\* The loop over the voices counts each of them twice, the one over the
\* languages starts again at 0 with the same "v" prefix.
VoiceCode(i) == 2 * (i - 1)

LanguageCode(i) == i - 1

VoiceEntries ==
  {<<VoiceCode(i), Voices[i]>> : i \in {j \in 1..Len(Voices) : Voices[j] \in Located}}

LanguageEntries ==
  {<<LanguageCode(i), Languages[i]>> : i \in {j \in 1..Len(Languages) : Languages[j] \in Located}}

Codes == {e[1] : e \in VoiceEntries \cup LanguageEntries}

\* The languages are put last: a code that both have is a language's.
DownloadableList ==
  [code \in Codes |->
     IF \E e \in LanguageEntries : e[1] = code
     THEN (CHOOSE e \in LanguageEntries : e[1] = code)[2]
     ELSE (CHOOSE e \in VoiceEntries : e[1] = code)[2]]

-----------------------------------------------------------------------------

DwnTypeOK ==
  /\ at \in [Threads -> DwnPlace]
  /\ chosen \in [Threads -> Components \cup {NoComponent}]
  /\ isDownloading \in BOOLEAN
  /\ components \in {<< >>, DownloadableList}
  /\ file \in [Components -> FileState]
  /\ installed \subseteq Located

DwnInit ==
  /\ at = [k \in Threads |-> "idle"]
  /\ chosen = [k \in Threads |-> NoComponent]
  /\ isDownloading = FALSE
  /\ components = << >>
  /\ file = [c \in Components |-> "absent"]
  /\ installed = {}

DwnGoes(k, from, to) == at[k] = from /\ at' = [at EXCEPT ![k] = to]

Answers(k) == at' = [at EXCEPT ![k] = "idle"] /\ chosen' = [chosen EXCEPT ![k] = NoComponent]

\* getdwns and getdwnstxt only fill the table.
GetDwns ==
  /\ components' = DownloadableList
  /\ UNCHANGED <<at, chosen, isDownloading, file, installed>>

\* The table is read again before the code is looked up.  When the site cannot be
\* read (getInstallationConfig gives null), the command throws here, before it has
\* changed anything, and is answered "----": as for an unknown code, no step.
Dwn(k, code) ==
  /\ DwnGoes(k, "idle", "chosen")
  /\ components' = DownloadableList
  /\ chosen' = [chosen EXCEPT ![k] = DownloadableList[code]]
  /\ UNCHANGED <<isDownloading, file, installed>>

\* "Already in downloading".
DwnRefused(k) ==
  /\ at[k] = "chosen"
  /\ isDownloading
  /\ Answers(k)
  /\ UNCHANGED <<isDownloading, components, file, installed>>

DwnAllowed(k) ==
  /\ ~isDownloading
  /\ DwnGoes(k, "chosen", "free")
  /\ UNCHANGED <<chosen, isDownloading, components, file, installed>>

\* A file of the right size is not downloaded again.
LooksForFile(k) ==
  /\ DwnGoes(k, "free", IF file[chosen[k]] = "complete" THEN "fetched" ELSE "missing")
  /\ UNCHANGED <<chosen, isDownloading, components, file, installed>>

\* The output stream empties the file; an URL that does not open leaves it.
StartsDownload(k) ==
  /\ DwnGoes(k, "missing", "downloading")
  /\ isDownloading' = TRUE
  /\ \/ file' = [file EXCEPT ![chosen[k]] = "partial"]
     \/ UNCHANGED file
  /\ UNCHANGED <<chosen, components, installed>>

\* Seeded fault: the flag stays up when the download failed.
EndsDownload_KeepsFlag(k) ==
  /\ DwnGoes(k, "downloading", "fetched")
  /\ \/ UNCHANGED <<isDownloading, file>>
     \/ /\ isDownloading' = FALSE
        /\ file[chosen[k]] = "partial"
        /\ file' = [file EXCEPT ![chosen[k]] = "complete"]
  /\ UNCHANGED <<chosen, components, installed>>

\* The Downloader returns, with an error it only logged or with the file; two
\* downloads into one file may leave holes.  The finally clears the flag.
EndsDownload(k) ==
  /\ DwnGoes(k, "downloading", "fetched")
  /\ isDownloading' = FALSE
  /\ \/ UNCHANGED file
     \/ /\ file[chosen[k]] = "partial"
        /\ file' = [file EXCEPT ![chosen[k]] = "complete"]
  /\ UNCHANGED <<chosen, components, installed>>

\* Seeded fault: the command waits for a file that is whole.
Installs_Waits(k) ==
  /\ at[k] = "fetched"
  /\ file[chosen[k]] = "complete"
  /\ installed' = installed \cup {chosen[k]}
  /\ Answers(k)
  /\ UNCHANGED <<isDownloading, components, file>>

\* marytts installs a file that is whole, and fails on the others: logged, and
\* answered "OK" too.
Installs(k) ==
  /\ at[k] = "fetched"
  /\ installed' = IF file[chosen[k]] = "complete" THEN installed \cup {chosen[k]} ELSE installed
  /\ Answers(k)
  /\ UNCHANGED <<isDownloading, components, file>>

-----------------------------------------------------------------------------

DwnStep(k) ==
  \/ DwnRefused(k)
  \/ DwnAllowed(k)
  \/ LooksForFile(k)
  \/ StartsDownload(k)
  \/ EndsDownload(k)
  \/ Installs(k)

DwnNext ==
  \/ GetDwns
  \/ \E k \in Threads : DwnStep(k) \/ \E code \in Codes : Dwn(k, code)

DwnSpec == DwnInit /\ [][DwnNext]_dwnVars

\* A command that was started goes on: the transfer ends, well or not.
DwnFairness == \A k \in Threads : WF_dwnVars(DwnStep(k))

DwnFairSpec == DwnSpec /\ DwnFairness

-----------------------------------------------------------------------------
(* Properties *)

\* The flag is never left up when nothing is downloading, also when a download
\* fails or two of them overlap: dwn is not refused for ever.
FlagIsNotStuck == isDownloading => \E k \in Threads : at[k] = "downloading"

\* A dwn command is always answered, whatever downloads overlap, and also when
\* its download or its install fails (errors are logged, not thrown).
DwnIsAnswered == \A k \in Threads : at[k] # "idle" ~> at[k] = "idle"

=============================================================================
