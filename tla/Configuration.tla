----------------------------- MODULE Configuration -----------------------------
(***************************************************************************)
(* Reading the configuration file (config.cpp:114-202) and what main does  *)
(* with the result.                                                        *)
(*                                                                         *)
(* A value is a text.  stoi and stod read a number from the beginning of a *)
(* text and throw when there is none, in an empty text as in any other, or *)
(* when it is out of range (Bad); a text that begins with a number is that *)
(* number here.  0 and the empty text stand for "not set" in the fields of *)
(* a camera.                                                               *)
(*                                                                         *)
(* Lines that are empty, comments, without "=" or with a key that means    *)
(* nothing in their section change nothing and are left out of the file.   *)
(***************************************************************************)
EXTENDS Integers, SequencesExt, FiniteSetsExt

CONSTANTS
  Inherited,    \* the fields [global] and [camera] share
  Numeric,      \* the fields read with stoi or stod
  Defaults,     \* what GlobalConfig has when nothing is read
  Numbers,      \* texts that are numbers
  Texts,        \* texts for the other fields
  Serials,      \* the serials of cameras
  Empty, Bad,   \* the empty text, and one that is no number
  MaxLines      \* bound: lines of the file

ASSUME ConfigurationAssumption ==
  /\ {"serialid", "rtsp", "listen_port"} \cap Inherited = {}
  /\ Numeric \subseteq Inherited \cup {"listen_port"}
  /\ Numbers \subseteq Nat
  /\ Empty \notin Serials \cup Nat /\ Bad \notin Nat
  /\ Defaults \in [Inherited \cup {"listen_port"} -> Nat \cup Texts \cup {Empty}]
  /\ MaxLines \in Nat

VARIABLES
  file,         \* history: the lines read
  sec,          \* the section that is being read
  global,       \* the values of [global] and [alarm_server] so far
  cur,          \* the camera of the section
  cameras,      \* res.cameras
  repository,   \* ConfigRepository: the camera registered for each serial
  status        \* "reading", "loaded", "failed" or "running"

configVars == <<file, sec, global, cur, cameras, repository, status>>

Fields == Inherited \cup {"serialid", "rtsp"}

GlobalFields == Inherited \cup {"listen_port"}

(* What a field holds when nothing was read into it.                       *)
NotSet(f) == IF f \in Numeric THEN 0 ELSE Empty

Blank == [f \in Fields |-> NotSet(f)]

Value == Nat \cup Texts \cup Serials \cup {Empty}

(* The texts of a line for key, and those that stoi or stod throw at.      *)
LineTexts(key) ==
  IF key \in Numeric THEN Numbers \cup {Empty, Bad}
  ELSE IF key = "serialid" THEN Serials \cup {Empty}
  ELSE Texts \cup {Empty}

Throws(key, text) == key \in Numeric /\ text \in {Empty, Bad}

ConfigTypeOK ==
  /\ sec \in {"none", "global", "camera", "alarm_server"}
  /\ global \in [GlobalFields -> Value]
  /\ cur \in [Fields -> Value] /\ cur["serialid"] \in Serials \cup {Empty}
  /\ cameras \in Seq([Fields -> Value])
  /\ \A i \in DOMAIN cameras : cameras[i]["serialid"] \in Serials
  /\ \A s \in DOMAIN repository : repository[s]["serialid"] = s
  /\ status \in {"reading", "loaded", "failed", "running"}

ConfigInit ==
  /\ file = <<>> /\ sec = "none"
  /\ global = Defaults /\ cur = Blank
  /\ cameras = <<>> /\ repository = <<>>
  /\ status = "reading"

(* merge_configs: what the camera does not set is what [global] has set    *)
(* until now.                                                              *)
MergeConfigs(g, camera) ==
  [f \in Fields |-> IF f \in Inherited /\ camera[f] = NotSet(f) THEN g[f] ELSE camera[f]]

(* Mutant: a serial that is registered keeps its camera.                   *)
EndSection_KeepsFirst ==
  LET camera == MergeConfigs(global, cur)
      id     == camera["serialid"]
  IN IF sec = "camera" /\ id # Empty
     THEN /\ cameras' = Append(cameras, camera)
          /\ repository' = [s \in DOMAIN repository \cup {id} |->
                              IF s \in DOMAIN repository THEN repository[s] ELSE camera]
     ELSE UNCHANGED <<cameras, repository>>

(* A camera section ends; without a serial it is left out.                 *)
EndSection ==
  LET camera == MergeConfigs(global, cur)
      id     == camera["serialid"]
  IN IF sec = "camera" /\ id # Empty
     THEN /\ cameras' = Append(cameras, camera)
          /\ repository' = [s \in DOMAIN repository \cup {id} |->
                              IF s = id THEN camera ELSE repository[s]]
     ELSE UNCHANGED <<cameras, repository>>

ReadLine(line) ==
  status = "reading" /\ Len(file) < MaxLines /\ file' = Append(file, line)

(* Mutant: the next camera starts with the values of the one before.       *)
ReadSection_KeepsCamera(name) ==
  /\ ReadLine([section |-> name])
  /\ EndSection
  /\ sec' = name /\ UNCHANGED <<cur, global, status>>

ReadSection(name) ==
  /\ ReadLine([section |-> name])
  /\ EndSection
  /\ sec' = name /\ cur' = Blank
  /\ UNCHANGED <<global, status>>

(* set_g, and the port of the alarm server.  An exception of stoi or stod  *)
(* ends load_config, and main with it.                                     *)
ReadGlobal(key, text) ==
  /\ sec = IF key = "listen_port" THEN "alarm_server" ELSE "global"
  /\ key \in GlobalFields
  /\ ReadLine([key |-> key, value |-> text])
  /\ IF Throws(key, text)
     THEN status' = "failed" /\ UNCHANGED global
     ELSE global' = [global EXCEPT ![key] = text] /\ UNCHANGED status
  /\ UNCHANGED <<sec, cur, cameras, repository>>

(* set_c                                                                   *)
ReadCamera(key, text) ==
  /\ sec = "camera" /\ key \in Fields
  /\ ReadLine([key |-> key, value |-> text])
  /\ IF Throws(key, text)
     THEN status' = "failed" /\ UNCHANGED cur
     ELSE cur' = [cur EXCEPT ![key] = text] /\ UNCHANGED status
  /\ UNCHANGED <<sec, global, cameras, repository>>

ReadFails ==
  /\ status = "reading" /\ file = <<>> /\ status' = "failed"
  /\ UNCHANGED <<file, sec, global, cur, cameras, repository>>

(* The last section ends, and every camera has to have an address.         *)
EndOfFile ==
  /\ status = "reading" /\ EndSection
  /\ status' = IF \A i \in DOMAIN cameras' : cameras'[i]["rtsp"] # Empty
               THEN "loaded" ELSE "failed"
  /\ UNCHANGED <<file, sec, global, cur>>

(* main goes on when there is a camera.                                    *)
Start ==
  /\ status = "loaded"
  /\ status' = IF cameras = <<>> THEN "failed" ELSE "running"
  /\ UNCHANGED <<file, sec, global, cur, cameras, repository>>

ConfigNext ==
  \/ \E name \in {"global", "camera", "alarm_server"} : ReadSection(name)
  \/ \E key \in GlobalFields : \E text \in LineTexts(key) : ReadGlobal(key, text)
  \/ \E key \in Fields : \E text \in LineTexts(key) : ReadCamera(key, text)
  \/ ReadFails \/ EndOfFile \/ Start

ConfigSpec == ConfigInit /\ [][ConfigNext]_configVars

-----------------------------------------------------------------------------
(* What a file says, read as a whole                                       *)

IsSection(i, name) == "section" \in DOMAIN file[i] /\ file[i].section = name

Headers == {i \in DOMAIN file : "section" \in DOMAIN file[i]}

(* The line a line belongs to: the last header before it.                  *)
Header(i) == Max({h \in Headers : h < i})

Assigns(i, key) == i \notin Headers /\ file[i].key = key

LastOf(lines, otherwise) == IF lines = {} THEN otherwise ELSE file[Max(lines)].value

(* The value a camera section gives to a field.                            *)
Own(h, key) ==
  LastOf({i \in DOMAIN file : i > h /\ Assigns(i, key) /\ Header(i) = h}, NotSet(key))

(* The value the sections [global] before line h give to it.               *)
Given(h, key) ==
  LastOf({i \in DOMAIN file : i < h /\ Assigns(i, key) /\ IsSection(Header(i), "global")},
         Defaults[key])

Wanted(h) ==
  [f \in Fields |->
     IF f \in Inherited /\ Own(h, f) = NotSet(f) THEN Given(h, f) ELSE Own(h, f)]

(* The sections of cameras with a serial, and which of them a section is.  *)
CameraSections == {h \in Headers : IsSection(h, "camera") /\ Own(h, "serialid") # Empty}

Place(h, sections) == Cardinality({g \in sections : g <= h})

(* The list holds the cameras of these sections, and no others.            *)
Collected(list, sections) ==
  /\ Len(list) = Cardinality(sections)
  /\ \A h \in sections : list[Place(h, sections)] = Wanted(h)
  /\ \A i \in DOMAIN list : \E h \in sections : list[i] = Wanted(h)

(* Every number can be read, and every camera has an address.              *)
Readable == \A i \in DOMAIN file \ Headers : ~Throws(file[i].key, file[i].value)

Addressed == \A h \in CameraSections : Own(h, "rtsp") # Empty

(* A file is loaded for what it says, read as a whole: the cameras are its *)
(* camera sections with a serial in their order, each with its own values  *)
(* and, for what it leaves open, those of the sections [global] before it; *)
(* nothing leaks from a section to the next and the last section counts    *)
(* (config.cpp:121-187).  And a file that can be opened is refused for one *)
(* of three reasons only: a text that stoi or stod throws at, an empty one *)
(* included, a camera without an address, no camera at all.                *)
LoadsWhatFileSays ==
  /\ status \in {"loaded", "running"} =>
       Readable /\ Addressed /\ Collected(cameras, CameraSections)
  /\ status = "failed" /\ file # <<>> =>
       ~Readable \/ ~Addressed \/ CameraSections = {}

(* When two sections have one serial the repository holds the later of     *)
(* them, which is the one the manager finds by the serial (config.cpp:     *)
(* 126-128, 184-186; camera_manager.cpp:19).                               *)
RepositoryAgrees ==
  /\ DOMAIN repository = {cameras[i]["serialid"] : i \in DOMAIN cameras}
  /\ \A s \in DOMAIN repository :
       \E i \in DOMAIN cameras :
         /\ cameras[i] = repository[s] /\ cameras[i]["serialid"] = s
         /\ \A j \in DOMAIN cameras : j > i => cameras[j]["serialid"] # s

=============================================================================
