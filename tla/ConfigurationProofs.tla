-------------------------- MODULE ConfigurationProofs --------------------------
(***************************************************************************)
(* Proofs about Configuration: the types, the agreement of the repository  *)
(* with the list of cameras (which needs the types only for the serial of  *)
(* the section that ends), and that a file is loaded as it reads.  The     *)
(* last one rests on LoadInv, which says what the maps and the list hold   *)
(* in the middle of a file, and on what one more line does to the reading  *)
(* of the whole file (HeaderAppended, KeyAppended).                        *)
(***************************************************************************)
EXTENDS Configuration, Induction

Camera == [Fields -> Value]

(* The camera a section makes keeps its serial, which is not inherited.    *)
LEMMA MergedCamera ==
  ASSUME ConfigTypeOK
  PROVE  /\ MergeConfigs(global, cur) \in Camera
         /\ MergeConfigs(global, cur)["serialid"] = cur["serialid"]
  BY ConfigurationAssumption DEF ConfigurationAssumption, ConfigTypeOK, MergeConfigs,
                                 Camera, Fields, GlobalFields

(* A section starts with an empty camera.                                  *)
LEMMA BlankCamera == Blank \in Camera /\ Blank["serialid"] = Empty
<1>1. \A f : NotSet(f) \in Value
  BY DEF NotSet, Value
<1>2. "serialid" \notin Numeric
  BY ConfigurationAssumption DEF ConfigurationAssumption
<1> QED BY <1>1, <1>2 DEF Blank, Camera, Fields, NotSet

(* What the end of a section leaves of the types.                          *)
LEMMA EndSectionTypes ==
  ASSUME ConfigTypeOK, EndSection
  PROVE  /\ cameras' \in Seq(Camera)
         /\ \A i \in DOMAIN cameras' : cameras'[i]["serialid"] \in Serials
         /\ \A s \in DOMAIN repository' : repository'[s]["serialid"] = s
<1> DEFINE camera == MergeConfigs(global, cur)
           id     == camera["serialid"]
<1>1. camera \in Camera /\ id \in Serials \cup {Empty}
  BY MergedCamera DEF ConfigTypeOK
<1>2. CASE sec = "camera" /\ id # Empty
  <2> HIDE DEF camera
  <2>1. /\ cameras' = Append(cameras, camera)
        /\ repository' = [s \in DOMAIN repository \cup {id} |->
                            IF s = id THEN camera ELSE repository[s]]
    BY <1>2 DEF EndSection, camera
  <2>2. cameras' \in Seq(Camera)
    BY <1>1, <2>1 DEF ConfigTypeOK, Camera
  <2>3. \A i \in DOMAIN cameras' : cameras'[i]["serialid"] \in Serials
    BY <1>1, <1>2, <2>1 DEF ConfigTypeOK
  <2>4. \A s \in DOMAIN repository' : repository'[s]["serialid"] = s
    BY <2>1 DEF ConfigTypeOK
  <2> QED BY <2>2, <2>3, <2>4
<1>3. CASE ~(sec = "camera" /\ id # Empty)
  BY <1>3 DEF EndSection, ConfigTypeOK, Camera
<1> QED BY <1>2, <1>3

(* The end of a section keeps the agreement: the serial it adds is the     *)
(* last of its kind, and other serials have the same last section.         *)
LEMMA EndSectionAgrees ==
  ASSUME ConfigTypeOK, RepositoryAgrees, EndSection
  PROVE  RepositoryAgrees'
<1> DEFINE camera == MergeConfigs(global, cur)
           id     == camera["serialid"]
<1>1. camera \in Camera
  BY MergedCamera
<1>2. CASE sec = "camera" /\ id # Empty
  <2> HIDE DEF camera
  <2> DEFINE n == Len(cameras)
  <2>1. /\ cameras' = Append(cameras, camera)
        /\ repository' = [s \in DOMAIN repository \cup {id} |->
                            IF s = id THEN camera ELSE repository[s]]
    BY <1>2 DEF EndSection, camera
  <2>2. cameras \in Seq(Camera) /\ n \in Nat /\ DOMAIN cameras = 1 .. n
    BY DEF ConfigTypeOK, Camera
  <2>3. /\ DOMAIN cameras' = 1 .. n + 1
        /\ cameras'[n + 1] = camera
        /\ \A i \in 1 .. n : cameras'[i] = cameras[i]
    BY <1>1, <2>1, <2>2
  <2> HIDE DEF n
  <2>4. DOMAIN repository' = {cameras'[i]["serialid"] : i \in DOMAIN cameras'}
    <3>1. DOMAIN repository = {cameras[i]["serialid"] : i \in 1 .. n}
      BY <2>2 DEF RepositoryAgrees
    <3>2. DOMAIN repository' = DOMAIN repository \cup {id}
      BY <2>1
    <3>3. {cameras'[i]["serialid"] : i \in 1 .. n + 1}
            = {cameras[i]["serialid"] : i \in 1 .. n} \cup {id}
      BY <2>2, <2>3
    <3> QED BY <2>3, <3>1, <3>2, <3>3
  <2>5. ASSUME NEW s \in DOMAIN repository'
        PROVE  \E i \in DOMAIN cameras' :
                 /\ cameras'[i] = repository'[s] /\ cameras'[i]["serialid"] = s
                 /\ \A j \in DOMAIN cameras' : j > i => cameras'[j]["serialid"] # s
    <3>1. CASE s = id
      <4>1. repository'[s] = camera
        BY <2>1, <3>1
      <4>2. n + 1 \in DOMAIN cameras' /\ \A j \in DOMAIN cameras' : ~(j > n + 1)
        BY <2>2, <2>3
      <4> QED BY <2>3, <3>1, <4>1, <4>2
    <3>2. CASE s # id
      <4>1. s \in DOMAIN repository /\ repository'[s] = repository[s]
        BY <2>1, <3>2
      <4>2. PICK i \in DOMAIN cameras :
              /\ cameras[i] = repository[s] /\ cameras[i]["serialid"] = s
              /\ \A j \in DOMAIN cameras : j > i => cameras[j]["serialid"] # s
        BY <4>1 DEF RepositoryAgrees
      <4>3. i \in DOMAIN cameras' /\ cameras'[i] = repository'[s]
            /\ cameras'[i]["serialid"] = s
        BY <2>2, <2>3, <4>1, <4>2
      <4>4. ASSUME NEW j \in DOMAIN cameras', j > i
            PROVE  cameras'[j]["serialid"] # s
        <5>1. CASE j = n + 1
          BY <2>3, <3>2, <5>1
        <5>2. CASE j # n + 1
          BY <2>2, <2>3, <4>2, <4>4, <5>2
        <5> QED BY <5>1, <5>2
      <4> QED BY <4>3, <4>4
    <3> QED BY <3>1, <3>2
  <2> QED BY <2>4, <2>5 DEF RepositoryAgrees
<1>3. CASE ~(sec = "camera" /\ id # Empty)
  <2>1. UNCHANGED <<cameras, repository>>
    BY <1>3 DEF EndSection
  <2> QED BY <2>1 DEF RepositoryAgrees
<1> QED BY <1>2, <1>3

-----------------------------------------------------------------------------

(* The initial state.                                                      *)
LEMMA InitTypes ==
  ASSUME ConfigInit
  PROVE  ConfigTypeOK /\ RepositoryAgrees
<1>1. global \in [GlobalFields -> Value]
  BY ConfigurationAssumption DEF ConfigurationAssumption, ConfigInit, Value, GlobalFields
<1>2. cur \in [Fields -> Value] /\ cur["serialid"] \in Serials \cup {Empty}
  BY BlankCamera DEF ConfigInit, Camera
<1>3. ConfigTypeOK
  BY <1>1, <1>2 DEF ConfigInit, ConfigTypeOK
<1>4. RepositoryAgrees
  BY DEF ConfigInit, RepositoryAgrees
<1> QED BY <1>3, <1>4

(* What a line stores is a value.                                          *)
LEMMA TextIsValue ==
  ASSUME NEW key, NEW text \in LineTexts(key), ~Throws(key, text)
  PROVE  text \in Value
  BY ConfigurationAssumption DEF ConfigurationAssumption, LineTexts, Throws, Value

(* A step that reads a header or the end of the file ends a section; the   *)
(* other steps leave cameras and repository alone.                         *)
LEMMA StepTypes ==
  ASSUME ConfigTypeOK, [ConfigNext]_configVars
  PROVE  ConfigTypeOK'
<1>1. CASE \E name \in {"global", "camera", "alarm_server"} : ReadSection(name)
  <2>1. PICK name \in {"global", "camera", "alarm_server"} : ReadSection(name)
    BY <1>1
  <2>2. EndSection /\ UNCHANGED <<global, status>> /\ sec' = name /\ cur' = Blank
    BY <2>1 DEF ReadSection
  <2> QED BY <2>2, BlankCamera, EndSectionTypes DEF ConfigTypeOK, Camera
<1>2. ASSUME NEW key \in GlobalFields, NEW text \in LineTexts(key), ReadGlobal(key, text)
      PROVE  ConfigTypeOK'
  <2>1. /\ UNCHANGED <<sec, cur, cameras, repository>> /\ status' \in {status, "failed"}
        /\ UNCHANGED global \/ (~Throws(key, text) /\ global' = [global EXCEPT ![key] = text])
    BY <1>2 DEF ReadGlobal
  <2>2. global' \in [GlobalFields -> Value]
    BY <2>1, TextIsValue DEF ConfigTypeOK
  <2> QED BY <2>1, <2>2 DEF ConfigTypeOK
<1>3. ASSUME NEW key \in Fields, NEW text \in LineTexts(key), ReadCamera(key, text)
      PROVE  ConfigTypeOK'
  <2>1. /\ UNCHANGED <<sec, global, cameras, repository>> /\ status' \in {status, "failed"}
        /\ UNCHANGED cur \/ (~Throws(key, text) /\ cur' = [cur EXCEPT ![key] = text])
    BY <1>3 DEF ReadCamera
  <2>2. cur' \in [Fields -> Value]
    BY <2>1, TextIsValue DEF ConfigTypeOK
  <2>3. "serialid" \notin Numeric
    BY ConfigurationAssumption DEF ConfigurationAssumption
  <2>4. key = "serialid" => text \in Serials \cup {Empty}
    BY <2>3 DEF LineTexts
  <2>5. cur'["serialid"] \in Serials \cup {Empty}
    <3>1. "serialid" \in Fields /\ cur \in [Fields -> Value]
          /\ cur["serialid"] \in Serials \cup {Empty}
      BY DEF ConfigTypeOK, Fields
    <3>2. CASE cur' = [cur EXCEPT ![key] = text]
      BY <2>4, <3>1, <3>2
    <3> QED BY <2>1, <3>1, <3>2
  <2> QED BY <2>1, <2>2, <2>5 DEF ConfigTypeOK
<1>4. CASE ReadFails
  BY <1>4 DEF ReadFails, ConfigTypeOK
<1>5. CASE EndOfFile
  <2>1. EndSection /\ UNCHANGED <<sec, global, cur>> /\ status' \in {"loaded", "failed"}
    BY <1>5 DEF EndOfFile
  <2> QED BY <2>1, EndSectionTypes DEF ConfigTypeOK, Camera
<1>6. CASE Start
  BY <1>6 DEF Start, ConfigTypeOK
<1>7. CASE UNCHANGED configVars
  BY <1>7 DEF configVars, ConfigTypeOK
<1> QED BY <1>1, <1>2, <1>3, <1>4, <1>5, <1>6, <1>7 DEF ConfigNext

(* Only the end of a section touches the list and the repository.          *)
LEMMA StepAgrees ==
  ASSUME ConfigTypeOK, RepositoryAgrees, [ConfigNext]_configVars
  PROVE  RepositoryAgrees'
<1>1. EndSection \/ UNCHANGED <<cameras, repository>>
  BY DEF ConfigNext, configVars, ReadSection, ReadGlobal, ReadCamera, ReadFails, EndOfFile, Start
<1>2. CASE UNCHANGED <<cameras, repository>>
  BY <1>2 DEF RepositoryAgrees
<1> QED BY <1>1, <1>2, EndSectionAgrees

(* Type correctness, for any set of fields, serials and values.            *)
THEOREM ConfigTypeCorrect == ConfigSpec => []ConfigTypeOK
<1>1. ConfigTypeOK /\ [ConfigNext]_configVars => ConfigTypeOK'
  BY StepTypes
<1>2. ConfigInit => ConfigTypeOK
  BY InitTypes
<1> QED BY <1>1, <1>2, PTL DEF ConfigSpec

(* The repository and the list of cameras agree on every serial, in a file *)
(* of any length with any number of sections of one serial                 *)
(* (config.cpp:126-128, 184-186).                                          *)
THEOREM RepositoryAgreesHolds == ConfigSpec => []RepositoryAgrees
<1>1. ConfigTypeOK /\ RepositoryAgrees /\ [ConfigNext]_configVars
        => ConfigTypeOK' /\ RepositoryAgrees'
  BY StepTypes, StepAgrees
<1>2. ConfigInit => ConfigTypeOK /\ RepositoryAgrees
  BY InitTypes
<1> QED BY <1>1, <1>2, PTL DEF ConfigSpec

-----------------------------------------------------------------------------
(* What the reader has understood of the lines read so far                 *)

AnyText == Numbers \cup Texts \cup Serials \cup {Empty, Bad}

Line == [section : {"global", "camera", "alarm_server"}]
          \cup [key : GlobalFields \cup Fields, value : AnyText]

LastHeader == Max(Headers)

(* What all lines of the sections [global] give to a field.                *)
GivenLines(key) == {i \in DOMAIN file : Assigns(i, key) /\ IsSection(Header(i), "global")}

GivenSoFar(key) == LastOf(GivenLines(key), Defaults[key])

(* Every line is a header or belongs to one.                               *)
LinesInv ==
  /\ file \in Seq(Line)
  /\ \A i \in DOMAIN file \ Headers : Header(i) \in Headers

(* The section being read is the last one of the file.                     *)
SectionInv ==
  IF Headers = {} THEN sec = "none"
  ELSE LastHeader \in Headers /\ (\A h \in Headers : h <= LastHeader) /\ IsSection(LastHeader, sec)

(* What has been read into the two maps; while a camera is read no line of *)
(* [global] comes after its header.                                        *)
ValuesInv ==
  /\ sec = "camera" =>
       /\ \A f \in Fields : cur[f] = Own(LastHeader, f)
       /\ \A f \in Inherited : Given(LastHeader, f) = GivenSoFar(f)
  /\ \A f \in Inherited : global[f] = GivenSoFar(f)

(* The sections that have ended are in the list.                           *)
Ended == {h \in CameraSections : h < LastHeader}

ReadingInv ==
  LinesInv /\ SectionInv /\ ValuesInv /\ Readable /\ Collected(cameras, Ended)

LoadInv ==
  /\ LinesInv
  /\ status = "reading" => ReadingInv
  /\ LoadsWhatFileSays

-----------------------------------------------------------------------------
(* What one more line changes                                              *)

(* The CHOOSE of Max, for a set that has a largest member.                 *)
LEMMA MaxIs ==
  ASSUME NEW S, S \subseteq Int, NEW m \in S, \A n \in S : n <= m
  PROVE  Max(S) = m
<1>1. \A n \in S : m >= n
  OBVIOUS
<1>2. Max(S) \in S /\ \A n \in S : Max(S) >= n
  BY <1>1 DEF Max
<1>3. Max(S) \in Int /\ m \in Int /\ Max(S) >= m /\ Max(S) <= m
  BY <1>2
<1> QED BY <1>3

(* A non-empty set of line numbers has a largest one.                      *)
LEMMA MaxOfLines ==
  ASSUME NEW n \in Nat, NEW S, S \subseteq 1 .. n, S # {}
  PROVE  Max(S) \in S
<1>1. S \subseteq Nat /\ \A i \in S : i <= n
  OBVIOUS
<1>2. \E m \in S : \A i \in S : i <= m
  BY <1>1, GreatestNumber
<1>3. \E m \in S : \A i \in S : m >= i
  BY <1>1, <1>2
<1> QED BY <1>3 DEF Max

(* A set with one more member is one larger.                               *)
LEMMA OneMore ==
  ASSUME NEW n \in Nat, NEW S, NEW T, S \subseteq 1 .. n, T \subseteq 1 .. n + 1,
         \A i \in 1 .. n : i \in T <=> i \in S
  PROVE  T = IF n + 1 \in T THEN S \cup {n + 1} ELSE S
<1>1. \A i : i \in T => i \in S \/ i = n + 1
  OBVIOUS
<1>2. \A i : i \in S => i \in T
  OBVIOUS
<1>3. CASE n + 1 \in T
  <2>1. T = S \cup {n + 1}
    BY <1>1, <1>2, <1>3
  <2> QED BY <1>3, <2>1
<1>4. CASE n + 1 \notin T
  <2>1. T = S
    BY <1>1, <1>2, <1>4
  <2> QED BY <1>4, <2>1
<1> QED BY <1>3, <1>4

(* What appending a line leaves of the lines before it.                    *)
LEMMA AppendLine ==
  ASSUME LinesInv, NEW line \in Line, file' = Append(file, line),
         NEW n \in Nat, n = Len(file)
  PROVE  /\ DOMAIN file = 1 .. n /\ DOMAIN file' = 1 .. n + 1
         /\ \A i \in 1 .. n : file'[i] = file[i]
         /\ file'[n + 1] = line /\ file' \in Seq(Line)
         /\ Headers \subseteq 1 .. n
         /\ Headers' = IF "section" \in DOMAIN line THEN Headers \cup {n + 1} ELSE Headers
         /\ \A i \in 1 .. n : Header(i)' = Header(i)
         /\ Header(n + 1)' = LastHeader
<1>1. /\ DOMAIN file = 1 .. n /\ DOMAIN file' = 1 .. n + 1
      /\ \A i \in 1 .. n : file'[i] = file[i]
      /\ file'[n + 1] = line /\ file' \in Seq(Line)
  BY DEF LinesInv
<1>2. Headers \subseteq 1 .. n
  BY <1>1 DEF Headers
<1>3. Headers' = IF "section" \in DOMAIN line THEN Headers \cup {n + 1} ELSE Headers
  BY <1>1 DEF Headers
<1>4. \A i \in 1 .. n + 1 : {h \in Headers' : h < i} = {h \in Headers : h < i}
  <2>1. \A i \in 1 .. n + 1 : ~(n + 1 < i)
    OBVIOUS
  <2> QED BY <1>3, <2>1
<1>5. \A i \in 1 .. n + 1 : Header(i)' = Header(i)
  BY <1>4 DEF Header
<1>6. Header(n + 1) = LastHeader
  <2>1. \A h \in Headers : h < n + 1
    BY <1>2
  <2>2. {h \in Headers : h < n + 1} = Headers
    BY <2>1
  <2> QED BY <2>2 DEF Header, LastHeader
<1>7. \A i \in 1 .. n : i \in 1 .. n + 1
  OBVIOUS
<1>8. n + 1 \in 1 .. n + 1
  OBVIOUS
<1>9. Header(n + 1)' = LastHeader
  BY <1>5, <1>6, <1>8
<1> QED BY <1>1, <1>2, <1>3, <1>5, <1>7, <1>9

OwnLines(h, key) == {i \in DOMAIN file : i > h /\ Assigns(i, key) /\ Header(i) = h}

GivenBefore(h, key) == {i \in GivenLines(key) : i < h}

(* What a section is given, by the lines of [global] before it.            *)
LEMMA GivenIs ==
  ASSUME NEW h, NEW f
  PROVE  /\ Given(h, f) = LastOf(GivenBefore(h, f), Defaults[f])
         /\ Given(h, f)' = LastOf(GivenBefore(h, f), Defaults[f])'
<1> DEFINE before == {i \in DOMAIN file :
                        i < h /\ Assigns(i, f) /\ IsSection(Header(i), "global")}
<1>1. before = GivenBefore(h, f) /\ before' = GivenBefore(h, f)'
  BY DEF GivenBefore, GivenLines
<1>2. Given(h, f) = LastOf(before, Defaults[f]) /\ Given(h, f)' = LastOf(before, Defaults[f])'
  BY DEF Given
<1> HIDE DEF before
<1> QED BY <1>1, <1>2 DEF LastOf

(* A header gives nothing to the sections before it, and has nothing yet.  *)
LEMMA HeaderAppended ==
  ASSUME LinesInv, NEW name \in {"global", "camera", "alarm_server"},
         file' = Append(file, [section |-> name]),
         NEW n \in Nat, n = Len(file)
  PROVE  /\ LinesInv'
         /\ Headers \subseteq 1 .. n
         /\ Headers' = Headers \cup {n + 1} /\ LastHeader' = n + 1
         /\ \A h \in Headers : \A s : IsSection(h, s)' <=> IsSection(h, s)
         /\ \A s : IsSection(n + 1, s)' <=> s = name
         /\ \A h \in Headers : \A f : Own(h, f)' = Own(h, f)
         /\ \A f : Own(n + 1, f)' = NotSet(f)
         /\ \A h \in Headers : \A f : Given(h, f)' = Given(h, f)
         /\ \A f : Given(n + 1, f)' = GivenSoFar(f) /\ GivenSoFar(f)' = GivenSoFar(f)
         /\ Readable' <=> Readable
<1> DEFINE line == [section |-> name]
<1>1. line \in Line /\ "section" \in DOMAIN line /\ line.section = name
  BY DEF Line
<1>2. /\ DOMAIN file = 1 .. n /\ DOMAIN file' = 1 .. n + 1
      /\ \A i \in 1 .. n : file'[i] = file[i]
      /\ file'[n + 1] = line /\ file' \in Seq(Line)
      /\ Headers \subseteq 1 .. n
      /\ Headers' = Headers \cup {n + 1}
      /\ \A i \in 1 .. n : Header(i)' = Header(i)
  BY <1>1, AppendLine
<1> HIDE DEF line
<1>3. n + 1 \notin 1 .. n /\ \A i \in 1 .. n : i \in 1 .. n + 1 /\ i < n + 1
  OBVIOUS
<1>4. \A i \in 1 .. n + 1 : i \in 1 .. n \/ i = n + 1
  OBVIOUS
<1>5. LinesInv'
  <2>1. \A i \in DOMAIN file \ Headers : Header(i) \in Headers
    BY DEF LinesInv
  <2>2. \A i \in DOMAIN file' \ Headers' : Header(i)' \in Headers'
    BY <1>2, <1>4, <2>1
  <2> QED BY <1>2, <2>2 DEF LinesInv
<1>6. LastHeader' = n + 1
  <2>1. Headers' \subseteq Int /\ n + 1 \in Headers' /\ \A h \in Headers' : h <= n + 1
    <3>1. n + 1 \in Int /\ n + 1 <= n + 1 /\ \A h \in 1 .. n : h \in Int /\ h <= n + 1
      OBVIOUS
    <3> QED BY <1>2, <3>1
  <2>2. Max(Headers') = n + 1
    BY <2>1, MaxIs
  <2> QED BY <2>2 DEF LastHeader
<1>7. \A h \in Headers : \A s : IsSection(h, s)' <=> IsSection(h, s)
  BY <1>2 DEF IsSection
<1>8. \A s : IsSection(n + 1, s)' <=> s = name
  BY <1>1, <1>2 DEF IsSection
<1>9. \A i \in 1 .. n : \A key : Assigns(i, key)' <=> Assigns(i, key)
  BY <1>2, <1>3 DEF Assigns
<1>10. \A key : ~Assigns(n + 1, key)'
  BY <1>2 DEF Assigns
<1>11. \A h, f : OwnLines(h, f)' \subseteq 1 .. n /\ GivenLines(f)' \subseteq 1 .. n
  BY <1>2, <1>4, <1>10 DEF OwnLines, GivenLines
<1>12. ASSUME NEW lines, lines \subseteq 1 .. n, NEW d
       PROVE  LastOf(lines, d)' = LastOf(lines, d')
  BY <1>2, <1>12, MaxOfLines DEF LastOf
<1>13. \A h \in Headers : \A f : Own(h, f)' = Own(h, f)
  <2> SUFFICES ASSUME NEW h \in Headers, NEW f
               PROVE  Own(h, f)' = Own(h, f)
    OBVIOUS
  <2> DEFINE lines == OwnLines(h, f)
  <2>1. lines' = lines /\ lines \subseteq 1 .. n
    BY <1>2, <1>3, <1>9, <1>11 DEF OwnLines
  <2>2. Own(h, f) = LastOf(lines, NotSet(f)) /\ Own(h, f)' = LastOf(lines, NotSet(f))'
    BY DEF Own, OwnLines
  <2>3. NotSet(f)' = NotSet(f)
    BY DEF NotSet
  <2> HIDE DEF lines
  <2> QED BY <1>12, <2>1, <2>2, <2>3
<1>14. \A f : Own(n + 1, f)' = NotSet(f)
  <2>1. \A f : OwnLines(n + 1, f)' = {}
    <3>1. \A i \in 1 .. n : ~(i > n + 1)
      OBVIOUS
    <3> QED BY <1>11, <3>1 DEF OwnLines
  <2> QED BY <2>1 DEF Own, OwnLines, LastOf, NotSet
<1>15. \A f : GivenLines(f)' = GivenLines(f) /\ GivenLines(f) \subseteq 1 .. n
  <2> SUFFICES ASSUME NEW f
               PROVE  GivenLines(f)' = GivenLines(f) /\ GivenLines(f) \subseteq 1 .. n
    OBVIOUS
  <2>1. \A i \in 1 .. n : Assigns(i, f) => Header(i) \in Headers
    BY <1>2 DEF LinesInv, Assigns
  <2>2. \A i \in 1 .. n : Assigns(i, f) =>
          (IsSection(Header(i), "global")' <=> IsSection(Header(i), "global"))
    BY <1>2, <2>1 DEF IsSection
  <2> QED BY <1>2, <1>3, <1>9, <1>11, <2>2 DEF GivenLines
<1>16. \A h, f : /\ GivenBefore(h, f)' = GivenBefore(h, f)
                 /\ GivenBefore(h, f) \subseteq 1 .. n
  BY <1>15 DEF GivenBefore
<1>17. \A h, f : Given(h, f)' = Given(h, f)
  <2> SUFFICES ASSUME NEW h, NEW f
               PROVE  Given(h, f)' = Given(h, f)
    OBVIOUS
  <2>1. Given(h, f) = LastOf(GivenBefore(h, f), Defaults[f])
    BY GivenIs
  <2>2. Given(h, f)' = LastOf(GivenBefore(h, f), Defaults[f])'
    BY GivenIs
  <2> QED BY <1>12, <1>16, <2>1, <2>2
<1>18. \A f : GivenSoFar(f)' = GivenSoFar(f)
  BY <1>12, <1>15 DEF GivenSoFar
<1>19. \A f : Given(n + 1, f) = GivenSoFar(f)
  <2>1. \A f : GivenBefore(n + 1, f) = GivenLines(f)
    BY <1>3, <1>15 DEF GivenBefore
  <2> QED BY <2>1, GivenIs DEF GivenSoFar
<1>20. Readable' <=> Readable
  <2>1. DOMAIN file' \ Headers' = DOMAIN file \ Headers
    BY <1>2, <1>3, <1>4
  <2>2. \A i \in DOMAIN file : file'[i] = file[i]
    BY <1>2
  <2> QED BY <2>1, <2>2 DEF Readable, Throws
<1> QED BY <1>1, <1>2, <1>5, <1>6, <1>7, <1>8, <1>13, <1>14, <1>17, <1>18, <1>19, <1>20

(* An assignment counts for its key, in the last section only.             *)
LEMMA KeyAppended ==
  ASSUME LinesInv, SectionInv, Headers # {},
         NEW k \in GlobalFields \cup Fields, NEW v \in AnyText,
         file' = Append(file, [key |-> k, value |-> v]),
         NEW n \in Nat, n = Len(file)
  PROVE  /\ LinesInv'
         /\ Headers' = Headers /\ LastHeader' = LastHeader
         /\ \A h \in Headers : \A s : IsSection(h, s)' <=> IsSection(h, s)
         /\ \A h \in Headers : \A f :
              Own(h, f)' = IF h = LastHeader /\ f = k THEN v ELSE Own(h, f)
         /\ \A h \in Headers : \A f : Given(h, f)' = Given(h, f)
         /\ \A f : GivenSoFar(f)' =
              IF f = k /\ IsSection(LastHeader, "global") THEN v ELSE GivenSoFar(f)
         /\ Readable' <=> Readable /\ ~Throws(k, v)
<1> DEFINE line == [key |-> k, value |-> v]
           l == LastHeader
<1>1. line \in Line /\ "section" \notin DOMAIN line /\ line.key = k /\ line.value = v
  BY DEF Line
<1>2. /\ DOMAIN file = 1 .. n /\ DOMAIN file' = 1 .. n + 1
      /\ \A i \in 1 .. n : file'[i] = file[i]
      /\ file'[n + 1] = line /\ file' \in Seq(Line)
      /\ Headers \subseteq 1 .. n
      /\ Headers' = Headers
      /\ \A i \in 1 .. n : Header(i)' = Header(i)
      /\ Header(n + 1)' = l
  BY <1>1, AppendLine
<1> HIDE DEF line
<1>3. /\ n + 1 \notin 1 .. n /\ n + 1 \in 1 .. n + 1
      /\ \A i \in 1 .. n : i \in 1 .. n + 1 /\ i < n + 1
      /\ \A i \in 1 .. n + 1 : i \in 1 .. n \/ i = n + 1
  OBVIOUS
<1>4. l \in Headers /\ \A h \in Headers : h <= l
  BY DEF SectionInv
<1>5. LastHeader' = l
  BY <1>2 DEF LastHeader
<1>6. LinesInv'
  <2>1. \A i \in DOMAIN file \ Headers : Header(i) \in Headers
    BY DEF LinesInv
  <2>2. \A i \in DOMAIN file' \ Headers' : Header(i)' \in Headers'
    BY <1>2, <1>3, <1>4, <2>1
  <2> QED BY <1>2, <2>2 DEF LinesInv
<1> HIDE DEF l
<1>7. \A h \in Headers : \A s : IsSection(h, s)' <=> IsSection(h, s)
  BY <1>2 DEF IsSection
<1>8. \A i \in 1 .. n : \A key : Assigns(i, key)' <=> Assigns(i, key)
  BY <1>2, <1>3 DEF Assigns
<1>9. \A key : Assigns(n + 1, key)' <=> key = k
  BY <1>1, <1>2, <1>3 DEF Assigns
<1>10. ASSUME NEW lines, lines \subseteq 1 .. n, NEW d
       PROVE  LastOf(lines, d)' = LastOf(lines, d')
  BY <1>2, <1>10, MaxOfLines DEF LastOf
<1>11. ASSUME NEW lines, lines \subseteq 1 .. n, NEW d
       PROVE  LastOf(lines \cup {n + 1}, d)' = v
  <2> DEFINE all == lines \cup {n + 1}
  <2>1. all \subseteq Int /\ n + 1 \in all /\ \A i \in all : i <= n + 1
    <3>1. n + 1 \in Int /\ n + 1 <= n + 1 /\ \A i \in 1 .. n : i \in Int /\ i <= n + 1
      OBVIOUS
    <3> QED BY <1>11, <3>1
  <2>2. Max(all) = n + 1
    <3> HIDE DEF all
    <3> QED BY <2>1, MaxIs
  <2> QED BY <1>1, <1>2, <2>2 DEF LastOf
<1>12. ASSUME NEW h \in Headers, NEW f
       PROVE  Own(h, f)' = IF h = l /\ f = k THEN v ELSE Own(h, f)
  <2> DEFINE lines == OwnLines(h, f)
  <2>1. lines \subseteq 1 .. n
    BY <1>2 DEF OwnLines
  <2>2. lines' = IF h = l /\ f = k THEN lines \cup {n + 1} ELSE lines
    <3>1. n + 1 > h
      BY <1>2
    <3>2. \A i \in 1 .. n : i \in lines' <=> i \in lines
      BY <1>2, <1>3, <1>8 DEF OwnLines
    <3>3. n + 1 \in lines' <=> h = l /\ f = k
      BY <1>2, <1>3, <1>9, <3>1 DEF OwnLines
    <3>4. lines' \subseteq 1 .. n + 1
      BY <1>2 DEF OwnLines
    <3> HIDE DEF lines
    <3>5. lines' = IF n + 1 \in lines' THEN lines \cup {n + 1} ELSE lines
      BY <2>1, <3>2, <3>4, OneMore
    <3> QED BY <3>3, <3>5
  <2>3. Own(h, f) = LastOf(lines, NotSet(f)) /\ Own(h, f)' = LastOf(lines, NotSet(f))'
    BY DEF Own, OwnLines
  <2>4. NotSet(f)' = NotSet(f)
    BY DEF NotSet
  <2> HIDE DEF lines
  <2> QED BY <1>10, <1>11, <2>1, <2>2, <2>3, <2>4
<1>13. ASSUME NEW f
       PROVE  /\ GivenLines(f) \subseteq 1 .. n
              /\ GivenLines(f)' = IF f = k /\ IsSection(l, "global")
                                  THEN GivenLines(f) \cup {n + 1} ELSE GivenLines(f)
  <2> DEFINE lines == GivenLines(f)
  <2>1. lines \subseteq 1 .. n
    BY <1>2 DEF GivenLines
  <2>2. lines' = IF f = k /\ IsSection(l, "global") THEN lines \cup {n + 1} ELSE lines
    <3>1. \A i \in 1 .. n : Assigns(i, f) => Header(i) \in Headers
      BY <1>2 DEF LinesInv, Assigns
    <3>2. \A i \in 1 .. n : Assigns(i, f) =>
            (IsSection(Header(i), "global")' <=> IsSection(Header(i), "global"))
      BY <1>2, <3>1 DEF IsSection
    <3>3. \A i \in 1 .. n : i \in lines' <=> i \in lines
      BY <1>2, <1>3, <1>8, <3>2 DEF GivenLines
    <3>4. IsSection(Header(n + 1), "global")' <=> IsSection(l, "global")
      BY <1>2, <1>4 DEF IsSection
    <3>5. n + 1 \in lines' <=> f = k /\ IsSection(l, "global")
      BY <1>2, <1>3, <1>9, <3>4 DEF GivenLines
    <3>6. lines' \subseteq 1 .. n + 1
      BY <1>2 DEF GivenLines
    <3> HIDE DEF lines
    <3>7. lines' = IF n + 1 \in lines' THEN lines \cup {n + 1} ELSE lines
      BY <2>1, <3>3, <3>6, OneMore
    <3> QED BY <3>5, <3>7
  <2> QED BY <2>1, <2>2
<1>14. ASSUME NEW f
       PROVE  GivenSoFar(f)' = IF f = k /\ IsSection(l, "global") THEN v ELSE GivenSoFar(f)
  BY <1>10, <1>11, <1>13 DEF GivenSoFar
<1>15. ASSUME NEW h \in Headers, NEW f
       PROVE  Given(h, f)' = Given(h, f)
  <2>1. h \in 1 .. n /\ ~(n + 1 < h)
    BY <1>2
  <2>2. GivenBefore(h, f)' = GivenBefore(h, f) /\ GivenBefore(h, f) \subseteq 1 .. n
    BY <1>13, <2>1 DEF GivenBefore
  <2>3. Given(h, f) = LastOf(GivenBefore(h, f), Defaults[f])
    BY GivenIs
  <2>4. Given(h, f)' = LastOf(GivenBefore(h, f), Defaults[f])'
    BY GivenIs
  <2> QED BY <1>10, <2>2, <2>3, <2>4
<1>16. Readable' <=> Readable /\ ~Throws(k, v)
  <2>1. DOMAIN file' \ Headers' = (DOMAIN file \ Headers) \cup {n + 1}
    BY <1>2, <1>3
  <2>2. \A i \in DOMAIN file : file'[i] = file[i]
    BY <1>2
  <2>3. file'[n + 1].key = k /\ file'[n + 1].value = v
    BY <1>1, <1>2
  <2> QED BY <2>1, <2>2, <2>3 DEF Readable, Throws
<1> QED BY <1>2, <1>5, <1>6, <1>7, <1>12, <1>14, <1>15, <1>16 DEF l

-----------------------------------------------------------------------------
(* The end of a section                                                    *)

(* The place of a section is an index of the list of cameras.              *)
LEMMA PlaceRange ==
  ASSUME NEW S, IsFiniteSet(S), S \subseteq Nat, NEW h \in S
  PROVE  Cardinality(S) \in Nat /\ Place(h, S) \in 1 .. Cardinality(S)
<1> DEFINE T == {g \in S : g <= h}
<1>1. T \subseteq S /\ h \in T
  BY DEF T
<1> HIDE DEF T
<1>2. IsFiniteSet(T) /\ Cardinality(T) <= Cardinality(S) /\ Cardinality(S) \in Nat
  BY <1>1, FS_Subset, FS_CardinalityType
<1>3. Cardinality(T) \in Nat /\ Cardinality(T) # 0
  BY <1>1, <1>2, FS_CardinalityType, FS_EmptySet
<1>4. Place(h, S) = Cardinality(T)
  BY DEF Place, T
<1> QED BY <1>2, <1>3, <1>4

(* One more camera at the end of the list, one more section at the end of  *)
(* those that are collected.                                               *)
LEMMA CollectsOneMore ==
  ASSUME NEW list \in Seq(Camera), NEW S, IsFiniteSet(S), S \subseteq Nat,
         Collected(list, S),
         NEW l \in Nat, \A h \in S : h < l
  PROVE  Collected(Append(list, Wanted(l)), S \cup {l})
<1> DEFINE T == S \cup {l}
           more == Append(list, Wanted(l))
           n == Cardinality(S)
<1>1. n \in Nat /\ Len(list) = n
  BY FS_CardinalityType DEF Collected
<1>2. l \notin S
  OBVIOUS
<1>3. IsFiniteSet(T) /\ Cardinality(T) = n + 1
  BY <1>2, FS_AddElement
<1>4. Len(more) = n + 1 /\ more[n + 1] = Wanted(l) /\ \A i \in 1 .. n : more[i] = list[i]
  BY <1>1
<1> HIDE DEF n, more
<1>5. more[Place(l, T)] = Wanted(l)
  <2>1. \A g \in T : g <= l
    OBVIOUS
  <2> HIDE DEF T
  <2>2. {g \in T : g <= l} = T
    BY <2>1
  <2>3. Place(l, T) = n + 1
    BY <1>3, <2>2 DEF Place
  <2> QED BY <1>4, <2>3
<1>6. ASSUME NEW h \in S
      PROVE  more[Place(h, T)] = Wanted(h)
  <2>1. {g \in T : g <= h} = {g \in S : g <= h}
    OBVIOUS
  <2>2. Place(h, T) = Place(h, S)
    BY <2>1 DEF Place
  <2>3. Place(h, S) \in 1 .. n
    BY PlaceRange DEF n
  <2>4. list[Place(h, S)] = Wanted(h)
    BY DEF Collected
  <2> QED BY <1>4, <2>2, <2>3, <2>4
<1>7. Len(more) = Cardinality(T) /\ \A h \in T : more[Place(h, T)] = Wanted(h)
  BY <1>3, <1>4, <1>5, <1>6
<1>8. \A i \in DOMAIN more : \E h \in T : more[i] = Wanted(h)
  <2>1. \A i \in DOMAIN list : \E h \in S : list[i] = Wanted(h)
    BY DEF Collected
  <2>2. DOMAIN list = 1 .. n /\ \A i \in DOMAIN more : i \in 1 .. n \/ i = n + 1
    BY <1>1 DEF more
  <2> QED BY <1>4, <2>1, <2>2
<1> QED BY <1>7, <1>8 DEF Collected, more

(* A file has finitely many headers.                                       *)
LEMMA HeadersFinite ==
  ASSUME LinesInv
  PROVE  IsFiniteSet(Headers) /\ Headers \subseteq Nat
<1>1. Headers \subseteq 1 .. Len(file) /\ Len(file) \in Nat
  BY DEF LinesInv, Headers
<1>2. IsFiniteSet(1 .. Len(file))
  BY <1>1, FS_Interval
<1>3. IsFiniteSet(Headers)
  BY <1>1, <1>2, FS_Subset
<1> QED BY <1>1, <1>3

(***************************************************************************)
(* When a section ends every camera section of the lines read so far is in *)
(* the list, merged with what the [global] sections before it say.         *)
(***************************************************************************)
LEMMA EndSectionCollects ==
  ASSUME ConfigTypeOK, ReadingInv, EndSection
  PROVE  Collected(cameras', CameraSections)
<1> DEFINE camera == MergeConfigs(global, cur)
           l == LastHeader
<1>1. LinesInv /\ SectionInv /\ ValuesInv /\ Collected(cameras, Ended)
  BY DEF ReadingInv
<1>2. IsFiniteSet(Headers) /\ Headers \subseteq Nat
  BY <1>1, HeadersFinite
<1>3. CameraSections \subseteq Headers /\ Ended \subseteq CameraSections
  BY DEF CameraSections, Ended
<1>4. IsFiniteSet(Ended) /\ Ended \subseteq Nat
  BY <1>2, <1>3, FS_Subset
<1>5. camera["serialid"] = cur["serialid"]
  BY MergedCamera
<1>6. CASE sec = "camera" /\ cur["serialid"] # Empty
  <2>1. Headers # {}
    BY <1>1, <1>6 DEF SectionInv
  <2>2. l \in Headers /\ (\A h \in Headers : h <= l) /\ IsSection(l, "camera")
    BY <1>1, <1>6, <2>1 DEF SectionInv
  <2>3. \A f \in Fields : cur[f] = Own(l, f)
    BY <1>1, <1>6 DEF ValuesInv
  <2>4. Own(l, "serialid") # Empty
    BY <1>6, <2>3 DEF Fields
  <2>5. camera = Wanted(l)
    <3>1. \A f \in Inherited : global[f] = Given(l, f)
      BY <1>1, <1>6 DEF ValuesInv
    <3> QED BY <2>3, <3>1 DEF MergeConfigs, Wanted
  <2>6. cameras' = Append(cameras, camera)
    BY <1>5, <1>6 DEF EndSection
  <2> HIDE DEF l
  <2>7. l \in CameraSections
    BY <2>2, <2>4 DEF CameraSections
  <2>8. CameraSections = Ended \cup {l} /\ \A h \in Ended : h < l
    <3>1. \A h \in CameraSections : h = l \/ h < l
      BY <1>2, <1>3, <2>2
    <3>2. Ended = {h \in CameraSections : h < l}
      BY DEF Ended, l
    <3> QED BY <2>7, <3>1, <3>2
  <2>9. cameras \in Seq(Camera) /\ l \in Nat
    BY <1>2, <2>2 DEF ConfigTypeOK, Camera
  <2>10. Collected(Append(cameras, Wanted(l)), Ended \cup {l})
    BY <1>1, <1>4, <2>8, <2>9, CollectsOneMore
  <2> QED BY <2>5, <2>6, <2>8, <2>10
<1>7. CASE ~(sec = "camera" /\ cur["serialid"] # Empty)
  <2>1. cameras' = cameras
    BY <1>5, <1>7 DEF EndSection
  <2>2. Ended = CameraSections
    <3>1. CASE Headers = {}
      BY <1>3, <3>1
    <3>2. CASE Headers # {}
      <4>1. l \in Headers /\ (\A h \in Headers : h <= l) /\ IsSection(l, sec)
        BY <1>1, <3>2 DEF SectionInv
      <4>2. l \notin CameraSections
        <5>1. CASE sec # "camera"
          BY <4>1, <5>1 DEF CameraSections, IsSection
        <5>2. CASE sec = "camera"
          <6>1. Own(l, "serialid") = Empty
            BY <1>1, <1>7, <5>2 DEF ValuesInv, Fields
          <6> QED BY <6>1 DEF CameraSections
        <5> QED BY <5>1, <5>2
      <4> HIDE DEF l
      <4>3. \A h \in CameraSections : h < l
        BY <1>2, <1>3, <4>1, <4>2
      <4> QED BY <4>3 DEF Ended, l
    <3> QED BY <3>1, <3>2
  <2> QED BY <1>1, <2>1, <2>2
<1> QED BY <1>6, <1>7

-----------------------------------------------------------------------------
(* The steps *)

(* A header: the section before it has ended and is in the list.           *)
LEMMA SectionStep ==
  ASSUME ConfigTypeOK, ReadingInv, NEW name \in {"global", "camera", "alarm_server"},
         ReadSection(name)
  PROVE  ReadingInv'
<1>1. LinesInv /\ SectionInv /\ ValuesInv /\ Readable /\ Collected(cameras, Ended)
  BY DEF ReadingInv
<1>2. /\ file' = Append(file, [section |-> name])
      /\ sec' = name /\ cur' = Blank /\ global' = global /\ EndSection
  BY DEF ReadSection, ReadLine
<1>3. PICK n \in Nat : n = Len(file)
  BY <1>1 DEF LinesInv
<1>4. /\ LinesInv'
      /\ Headers \subseteq 1 .. n
      /\ Headers' = Headers \cup {n + 1} /\ LastHeader' = n + 1
      /\ \A h \in Headers : \A s : IsSection(h, s)' <=> IsSection(h, s)
      /\ \A s : IsSection(n + 1, s)' <=> s = name
      /\ \A h \in Headers : \A f : Own(h, f)' = Own(h, f)
      /\ \A f : Own(n + 1, f)' = NotSet(f)
      /\ \A h \in Headers : \A f : Given(h, f)' = Given(h, f)
      /\ \A f : Given(n + 1, f)' = GivenSoFar(f) /\ GivenSoFar(f)' = GivenSoFar(f)
      /\ Readable' <=> Readable
  BY <1>1, <1>2, <1>3, HeaderAppended
<1>5. \A h \in Headers : h < n + 1 /\ h <= n + 1
  BY <1>4
<1>6. SectionInv'
  <2>1. LastHeader' \in Headers' /\ \A h \in Headers' : h <= LastHeader'
    BY <1>4, <1>5
  <2>2. IsSection(LastHeader, sec)'
    BY <1>2, <1>4 DEF IsSection
  <2>3. Headers' # {}
    BY <1>4
  <2> QED BY <2>1, <2>2, <2>3 DEF SectionInv
<1>7. ValuesInv'
  <2>1. \A f \in Fields : cur'[f] = Own(n + 1, f)'
    BY <1>2, <1>4 DEF Blank
  <2>2. LastHeader' = n + 1
    BY <1>4
  <2>3. \A f \in Fields : cur'[f] = Own(LastHeader, f)'
    <3>1. ASSUME NEW f \in Fields PROVE Own(LastHeader, f)' = Own(n + 1, f)'
      BY <2>2 DEF Own, Assigns, LastOf, NotSet
    <3> QED BY <2>1, <3>1
  <2>4. \A f \in Inherited : Given(LastHeader, f)' = GivenSoFar(f)'
    <3>1. ASSUME NEW f \in Inherited PROVE Given(LastHeader, f)' = Given(n + 1, f)'
      BY <2>2 DEF Given, Assigns, LastOf
    <3> QED BY <1>4, <3>1
  <2>5. \A f \in Inherited : global'[f] = GivenSoFar(f)'
    BY <1>1, <1>2, <1>4 DEF ValuesInv
  <2> QED BY <2>3, <2>4, <2>5 DEF ValuesInv
<1>8. Collected(cameras, Ended)'
  <2>1. Collected(cameras', CameraSections)
    BY <1>2, EndSectionCollects
  <2>2. Own(n + 1, "serialid")' = Empty
    <3>1. "serialid" \notin Numeric
      BY ConfigurationAssumption DEF ConfigurationAssumption
    <3> QED BY <1>4, <3>1 DEF NotSet
  <2>3. CameraSections' = CameraSections
    BY <1>4, <2>2 DEF CameraSections
  <2>4. CameraSections \subseteq Headers
    BY DEF CameraSections
  <2>5. Ended' = CameraSections
    BY <1>4, <1>5, <2>3, <2>4 DEF Ended
  <2>6. \A h \in CameraSections : Wanted(h)' = Wanted(h)
    BY <1>4, <2>4 DEF Wanted, NotSet
  <2> QED BY <2>1, <2>5, <2>6 DEF Collected, Place
<1> QED BY <1>1, <1>4, <1>6, <1>7, <1>8 DEF ReadingInv

(* A line that is no header, read as a number or as a text: what it        *)
(* changes of the file read as a whole.                                    *)
LEMMA LineStep ==
  ASSUME ReadingInv, NEW key \in GlobalFields \cup Fields, NEW text \in LineTexts(key),
         file' = Append(file, [key |-> key, value |-> text]), sec # "none"
  PROVE  /\ LastHeader \in Headers /\ IsSection(LastHeader, sec) /\ LinesInv'
         /\ Headers' = Headers /\ LastHeader' = LastHeader
         /\ \A h \in Headers : h <= LastHeader
         /\ \A h \in Headers : \A s : IsSection(h, s)' <=> IsSection(h, s)
         /\ \A h \in Headers : \A f :
              Own(h, f)' = IF h = LastHeader /\ f = key THEN text ELSE Own(h, f)
         /\ \A h \in Headers : \A f : Given(h, f)' = Given(h, f)
         /\ \A f : GivenSoFar(f)' = IF f = key /\ sec = "global" THEN text ELSE GivenSoFar(f)
         /\ Readable' <=> ~Throws(key, text)
<1> DEFINE l == LastHeader
<1>1. LinesInv /\ SectionInv /\ Readable
  BY DEF ReadingInv
<1>2. Headers # {} /\ l \in Headers /\ (\A h \in Headers : h <= l) /\ IsSection(l, sec)
  BY <1>1 DEF SectionInv
<1>3. PICK n \in Nat : n = Len(file)
  BY <1>1 DEF LinesInv
<1>4. text \in AnyText
  BY DEF LineTexts, AnyText
<1>5. IsSection(l, "global") <=> sec = "global"
  BY <1>2 DEF IsSection
<1>6. /\ LinesInv'
      /\ Headers' = Headers /\ LastHeader' = l
      /\ \A h \in Headers : \A s : IsSection(h, s)' <=> IsSection(h, s)
      /\ \A h \in Headers : \A f : Own(h, f)' = IF h = l /\ f = key THEN text ELSE Own(h, f)
      /\ \A h \in Headers : \A f : Given(h, f)' = Given(h, f)
      /\ \A f : GivenSoFar(f)' = IF f = key /\ IsSection(l, "global") THEN text ELSE GivenSoFar(f)
      /\ Readable' <=> Readable /\ ~Throws(key, text)
  BY <1>1, <1>2, <1>3, <1>4, KeyAppended
<1> QED BY <1>1, <1>2, <1>5, <1>6

(* A value of a [global] section is for the cameras that come after it.    *)
LEMMA GlobalStep ==
  ASSUME ConfigTypeOK, ReadingInv, NEW key \in GlobalFields, NEW text \in LineTexts(key),
         ReadGlobal(key, text)
  PROVE  LinesInv' /\ IF Throws(key, text) THEN ~Readable' ELSE ReadingInv'
<1> DEFINE l == LastHeader
<1>1. LinesInv /\ SectionInv /\ ValuesInv /\ Readable /\ Collected(cameras, Ended)
  BY DEF ReadingInv
<1>2. /\ file' = Append(file, [key |-> key, value |-> text])
      /\ sec = IF key = "listen_port" THEN "alarm_server" ELSE "global"
      /\ UNCHANGED <<sec, cur, cameras>>
  BY DEF ReadGlobal, ReadLine
<1>3. /\ l \in Headers /\ IsSection(l, sec) /\ LinesInv'
      /\ Headers' = Headers /\ LastHeader' = l
      /\ \A h \in Headers : h <= l
      /\ \A h \in Headers : \A s : IsSection(h, s)' <=> IsSection(h, s)
      /\ \A h \in Headers : \A f : Own(h, f)' = IF h = l /\ f = key THEN text ELSE Own(h, f)
      /\ \A h \in Headers : \A f : Given(h, f)' = Given(h, f)
      /\ \A f : GivenSoFar(f)' = IF f = key /\ sec = "global" THEN text ELSE GivenSoFar(f)
      /\ Readable' <=> ~Throws(key, text)
  <2>1. sec # "none"
    BY <1>2
  <2>2. key \in GlobalFields \cup Fields
    OBVIOUS
  <2> QED BY <1>2, <2>1, <2>2, LineStep
<1>4. CASE Throws(key, text)
  BY <1>3, <1>4
<1>5. CASE ~Throws(key, text)
  <2>1. global' = [global EXCEPT ![key] = text]
    BY <1>5 DEF ReadGlobal
  <2> HIDE DEF l
  <2>2. SectionInv'
    <3>1. IsSection(LastHeader, sec)'
      BY <1>2, <1>3 DEF IsSection
    <3> QED BY <1>3, <3>1 DEF SectionInv
  <2>3. ValuesInv'
    <3>1. ASSUME NEW f \in Inherited
          PROVE  global'[f] = GivenSoFar(f)'
      <4>1. f # "listen_port" /\ f \in GlobalFields
        BY ConfigurationAssumption DEF ConfigurationAssumption, GlobalFields
      <4>2. global[f] = GivenSoFar(f) /\ f \in DOMAIN global /\ key \in DOMAIN global
        BY <1>1, <4>1 DEF ValuesInv, ConfigTypeOK
      <4>3. CASE f = key
        BY <1>2, <1>3, <2>1, <4>1, <4>2, <4>3
      <4>4. CASE f # key
        BY <1>3, <2>1, <4>2, <4>4
      <4> QED BY <4>3, <4>4
    <3> QED BY <1>2, <3>1 DEF ValuesInv
  <2>4. Collected(cameras, Ended)'
    <3>1. ~IsSection(l, "camera")
      BY <1>2, <1>3 DEF IsSection
    <3>2. CameraSections' = CameraSections
      BY <1>3, <3>1 DEF CameraSections
    <3>3. Ended' = Ended
      BY <1>3, <3>2 DEF Ended, l
    <3>4. \A h \in Ended : Wanted(h)' = Wanted(h)
      <4>1. \A h \in Ended : h \in Headers /\ h # l
        BY <3>1 DEF Ended, CameraSections
      <4> QED BY <1>3, <4>1 DEF Wanted, NotSet
    <3> QED BY <1>1, <1>2, <3>3, <3>4 DEF Collected, Place
  <2>5. Readable'
    BY <1>3, <1>5
  <2> QED BY <1>3, <1>5, <2>2, <2>3, <2>4, <2>5 DEF ReadingInv
<1> QED BY <1>4, <1>5

(* A line of a camera section changes the values of that section only.     *)
LEMMA CameraStep ==
  ASSUME ConfigTypeOK, ReadingInv, NEW key \in Fields, NEW text \in LineTexts(key),
         ReadCamera(key, text)
  PROVE  LinesInv' /\ IF Throws(key, text) THEN ~Readable' ELSE ReadingInv'
<1> DEFINE l == LastHeader
<1>1. LinesInv /\ SectionInv /\ ValuesInv /\ Readable /\ Collected(cameras, Ended)
  BY DEF ReadingInv
<1>2. /\ file' = Append(file, [key |-> key, value |-> text])
      /\ sec = "camera"
      /\ UNCHANGED <<sec, global, cameras>>
  BY DEF ReadCamera, ReadLine
<1>3. /\ l \in Headers /\ IsSection(l, sec) /\ LinesInv'
      /\ Headers' = Headers /\ LastHeader' = l
      /\ \A h \in Headers : h <= l
      /\ \A h \in Headers : \A s : IsSection(h, s)' <=> IsSection(h, s)
      /\ \A h \in Headers : \A f : Own(h, f)' = IF h = l /\ f = key THEN text ELSE Own(h, f)
      /\ \A h \in Headers : \A f : Given(h, f)' = Given(h, f)
      /\ \A f : GivenSoFar(f)' = IF f = key /\ sec = "global" THEN text ELSE GivenSoFar(f)
      /\ Readable' <=> ~Throws(key, text)
  <2>1. sec # "none"
    BY <1>2
  <2>2. key \in GlobalFields \cup Fields
    OBVIOUS
  <2> QED BY <1>2, <2>1, <2>2, LineStep
<1>4. CASE Throws(key, text)
  BY <1>3, <1>4
<1>5. CASE ~Throws(key, text)
  <2>1. cur' = [cur EXCEPT ![key] = text]
    BY <1>5 DEF ReadCamera
  <2>2. /\ \A f \in Fields : cur[f] = Own(l, f) /\ f \in DOMAIN cur
        /\ \A f \in Inherited : Given(l, f) = GivenSoFar(f)
    BY <1>1, <1>2 DEF ValuesInv, ConfigTypeOK
  <2> HIDE DEF l
  <2>3. SectionInv'
    <3>1. IsSection(LastHeader, sec)'
      BY <1>2, <1>3 DEF IsSection
    <3> QED BY <1>3, <3>1 DEF SectionInv
  <2>4. \A f : GivenSoFar(f)' = GivenSoFar(f)
    BY <1>2, <1>3
  <2>5. ValuesInv'
    <3>1. \A h \in Headers : h = l =>
            /\ \A f \in Fields : cur'[f] = Own(h, f)'
            /\ \A f \in Inherited : Given(h, f)' = GivenSoFar(f)'
      BY <1>3, <2>1, <2>2, <2>4
    <3>2. \A f \in Fields : cur'[f] = Own(LastHeader, f)'
      BY <1>3, <3>1 DEF Own, Assigns, LastOf, NotSet
    <3>3. \A f \in Inherited : Given(LastHeader, f)' = GivenSoFar(f)'
      BY <1>3, <3>1 DEF Given, Assigns, LastOf
    <3>4. \A f \in Inherited : global'[f] = GivenSoFar(f)'
      BY <1>1, <1>2, <2>4 DEF ValuesInv
    <3> QED BY <3>2, <3>3, <3>4 DEF ValuesInv
  <2>6. Collected(cameras, Ended)'
    <3>1. \A h \in Headers : h < l => h # l
      BY <1>1, HeadersFinite
    <3>2. Ended' = Ended
      BY <1>3, <3>1 DEF Ended, CameraSections, l
    <3>3. \A h \in Ended : Wanted(h)' = Wanted(h)
      <4>1. \A h \in Ended : h \in Headers /\ h # l
        BY <3>1 DEF Ended, CameraSections, l
      <4> QED BY <1>3, <4>1 DEF Wanted, NotSet
    <3> QED BY <1>1, <1>2, <3>2, <3>3 DEF Collected, Place
  <2>7. Readable'
    BY <1>3, <1>5
  <2> QED BY <1>3, <1>5, <2>3, <2>5, <2>6, <2>7 DEF ReadingInv
<1> QED BY <1>4, <1>5

(* What a file says depends on the file only.                              *)
LEMMA SameFile ==
  ASSUME UNCHANGED file
  PROVE  /\ Headers' = Headers /\ LastHeader' = LastHeader
         /\ LinesInv' <=> LinesInv
         /\ \A h, s : IsSection(h, s)' <=> IsSection(h, s)
         /\ \A h, f : Own(h, f)' = Own(h, f) /\ Given(h, f)' = Given(h, f)
         /\ \A f : GivenSoFar(f)' = GivenSoFar(f)
         /\ CameraSections' = CameraSections /\ Ended' = Ended
         /\ \A h : Wanted(h)' = Wanted(h)
         /\ Readable' <=> Readable
         /\ Addressed' <=> Addressed
<1>1. Headers' = Headers
  BY DEF Headers
<1>2. LastHeader' = LastHeader
  BY <1>1 DEF LastHeader
<1>3. /\ LinesInv' <=> LinesInv
      /\ \A h, s : IsSection(h, s)' <=> IsSection(h, s)
      /\ \A h, f : Own(h, f)' = Own(h, f) /\ Given(h, f)' = Given(h, f)
      /\ \A f : GivenSoFar(f)' = GivenSoFar(f)
      /\ Readable' <=> Readable
  BY <1>1 DEF LinesInv, IsSection, Own, Given, GivenSoFar, GivenLines, Assigns, Header, LastOf,
              NotSet, Readable, Throws
<1>4. CameraSections' = CameraSections /\ \A h : Wanted(h)' = Wanted(h)
  BY <1>1, <1>3 DEF CameraSections, Wanted, NotSet
<1>5. Ended' = Ended
  BY <1>2, <1>4 DEF Ended
<1>6. Addressed' <=> Addressed
  BY <1>3, <1>4 DEF Addressed
<1> QED BY <1>1, <1>2, <1>3, <1>4, <1>5, <1>6

(* When the file ends its last section is collected as well, and the       *)
(* addresses of the list are those of the sections.                        *)
LEMMA EndOfFileStep ==
  ASSUME ConfigTypeOK, ReadingInv, EndOfFile
  PROVE  LoadsWhatFileSays'
<1>1. EndSection /\ UNCHANGED file
  BY DEF EndOfFile
<1>2. Collected(cameras', CameraSections)
  BY <1>1, EndSectionCollects
<1>3. Readable
  BY DEF ReadingInv
<1>4. Addressed <=> \A i \in DOMAIN cameras' : cameras'[i]["rtsp"] # Empty
  <2>1. \A h : Wanted(h)["rtsp"] = Own(h, "rtsp")
    BY ConfigurationAssumption DEF ConfigurationAssumption, Wanted, Fields
  <2>2. ASSUME NEW h \in CameraSections
        PROVE  \E i \in DOMAIN cameras' : cameras'[i] = Wanted(h)
    <3>1. IsFiniteSet(CameraSections) /\ CameraSections \subseteq Nat
      BY HeadersFinite, FS_Subset DEF ReadingInv, CameraSections
    <3>2. Place(h, CameraSections) \in 1 .. Cardinality(CameraSections)
      BY <3>1, PlaceRange
    <3>3. cameras' \in Seq(Camera)
      BY <1>1, EndSectionTypes
    <3>4. DOMAIN cameras' = 1 .. Cardinality(CameraSections)
      BY <1>2, <3>3 DEF Collected
    <3> QED BY <1>2, <3>2, <3>4 DEF Collected
  <2>3. \A i \in DOMAIN cameras' : \E h \in CameraSections : cameras'[i] = Wanted(h)
    BY <1>2 DEF Collected
  <2> QED BY <2>1, <2>2, <2>3 DEF Addressed
<1>5. status' = IF Addressed THEN "loaded" ELSE "failed"
  BY <1>4 DEF EndOfFile
<1>6. /\ Readable' <=> Readable
      /\ Addressed' <=> Addressed
      /\ CameraSections' = CameraSections
      /\ \A h : Wanted(h)' = Wanted(h)
  BY <1>1, SameFile
<1>7. Collected(cameras, CameraSections)'
  BY <1>2, <1>6 DEF Collected, Place
<1> QED BY <1>3, <1>5, <1>6, <1>7 DEF LoadsWhatFileSays

(* main refuses an empty list, which is that of a file without a camera.   *)
LEMMA StartStep ==
  ASSUME LoadInv, Start
  PROVE  LoadInv'
<1>1. UNCHANGED <<file, cameras>> /\ status = "loaded" /\ status' # "reading"
  BY DEF Start
<1>2. LinesInv /\ Readable /\ Addressed /\ Collected(cameras, CameraSections)
  BY <1>1 DEF LoadInv, LoadsWhatFileSays
<1>3. cameras = <<>> => CameraSections = {}
  <2>1. IsFiniteSet(CameraSections)
    BY <1>2, HeadersFinite, FS_Subset DEF CameraSections
  <2>2. cameras = <<>> => Cardinality(CameraSections) = 0
    BY <1>2 DEF Collected
  <2> QED BY <2>1, <2>2, FS_EmptySet
<1>4. /\ LinesInv' <=> LinesInv
      /\ Readable' <=> Readable
      /\ Addressed' <=> Addressed
      /\ CameraSections' = CameraSections
      /\ \A h : Wanted(h)' = Wanted(h)
  BY <1>1, SameFile
<1>5. Collected(cameras, CameraSections)'
  BY <1>1, <1>2, <1>4 DEF Collected, Place
<1>6. status' = IF cameras = <<>> THEN "failed" ELSE "running"
  BY DEF Start
<1> QED BY <1>1, <1>2, <1>3, <1>4, <1>5, <1>6 DEF LoadInv, LoadsWhatFileSays

(* The invariant is inductive.                                             *)
LEMMA LoadStep ==
  ASSUME ConfigTypeOK, LoadInv, [ConfigNext]_configVars
  PROVE  LoadInv'
<1>1. ASSUME NEW name \in {"global", "camera", "alarm_server"}, ReadSection(name)
      PROVE  LoadInv'
  <2>1. status = "reading" /\ status' = "reading"
    BY <1>1 DEF ReadSection, ReadLine
  <2>2. ReadingInv'
    BY <1>1, <2>1, SectionStep DEF LoadInv
  <2> QED BY <2>1, <2>2 DEF LoadInv, LoadsWhatFileSays, ReadingInv
<1>2. ASSUME NEW key \in GlobalFields, NEW text \in LineTexts(key), ReadGlobal(key, text)
      PROVE  LoadInv'
  <2>1. status = "reading" /\ status' = IF Throws(key, text) THEN "failed" ELSE "reading"
    BY <1>2 DEF ReadGlobal, ReadLine
  <2>2. LinesInv' /\ IF Throws(key, text) THEN ~Readable' ELSE ReadingInv'
    BY <1>2, <2>1, GlobalStep DEF LoadInv
  <2> QED BY <2>1, <2>2 DEF LoadInv, LoadsWhatFileSays
<1>3. ASSUME NEW key \in Fields, NEW text \in LineTexts(key), ReadCamera(key, text)
      PROVE  LoadInv'
  <2>1. status = "reading" /\ status' = IF Throws(key, text) THEN "failed" ELSE "reading"
    BY <1>3 DEF ReadCamera, ReadLine
  <2>2. LinesInv' /\ IF Throws(key, text) THEN ~Readable' ELSE ReadingInv'
    BY <1>3, <2>1, CameraStep DEF LoadInv
  <2> QED BY <2>1, <2>2 DEF LoadInv, LoadsWhatFileSays
<1>4. CASE ReadFails
  <2>1. UNCHANGED file /\ file = <<>> /\ status' = "failed"
    BY <1>4 DEF ReadFails
  <2>2. LinesInv'
    BY <2>1, SameFile DEF LoadInv
  <2> QED BY <2>1, <2>2 DEF LoadInv, LoadsWhatFileSays
<1>5. CASE EndOfFile
  <2>1. UNCHANGED file /\ status = "reading" /\ status' \in {"loaded", "failed"}
    BY <1>5 DEF EndOfFile
  <2>2. LinesInv'
    BY <2>1, SameFile DEF LoadInv
  <2> QED BY <1>5, <2>1, <2>2, EndOfFileStep DEF LoadInv
<1>6. CASE Start
  BY <1>6, StartStep
<1>7. CASE UNCHANGED configVars
  <2>1. UNCHANGED <<file, sec, global, cur, cameras, status>>
    BY <1>7 DEF configVars
  <2>2. /\ Headers' = Headers /\ LastHeader' = LastHeader
        /\ LinesInv' <=> LinesInv
        /\ \A h, s : IsSection(h, s)' <=> IsSection(h, s)
        /\ \A h, f : Own(h, f)' = Own(h, f) /\ Given(h, f)' = Given(h, f)
        /\ \A f : GivenSoFar(f)' = GivenSoFar(f)
        /\ CameraSections' = CameraSections /\ Ended' = Ended
        /\ \A h : Wanted(h)' = Wanted(h)
        /\ Readable' <=> Readable
        /\ Addressed' <=> Addressed
    BY <2>1, SameFile
  <2>3. SectionInv' <=> SectionInv
    BY <2>1, <2>2 DEF SectionInv
  <2>4. ValuesInv' <=> ValuesInv
    BY <2>1, <2>2 DEF ValuesInv
  <2>5. /\ Collected(cameras, Ended)' <=> Collected(cameras, Ended)
        /\ Collected(cameras, CameraSections)' <=> Collected(cameras, CameraSections)
    BY <2>1, <2>2 DEF Collected, Place
  <2>6. ReadingInv' <=> ReadingInv
    BY <2>2, <2>3, <2>4, <2>5 DEF ReadingInv
  <2>7. LoadsWhatFileSays' <=> LoadsWhatFileSays
    BY <2>1, <2>2, <2>5 DEF LoadsWhatFileSays
  <2> QED BY <2>1, <2>2, <2>6, <2>7 DEF LoadInv
<1> QED BY <1>1, <1>2, <1>3, <1>4, <1>5, <1>6, <1>7 DEF ConfigNext

(* It holds of an empty file.                                              *)
LEMMA LoadInit ==
  ASSUME ConfigInit
  PROVE  LoadInv
<1>1. /\ file = <<>> /\ sec = "none" /\ global = Defaults /\ cameras = <<>>
      /\ status = "reading" /\ DOMAIN file = {}
  BY DEF ConfigInit
<1>2. Headers = {}
  BY <1>1 DEF Headers
<1>3. LinesInv
  BY <1>1 DEF LinesInv
<1>4. SectionInv
  BY <1>1, <1>2 DEF SectionInv
<1>5. ASSUME NEW f PROVE GivenSoFar(f) = Defaults[f]
  <2>1. GivenLines(f) = {}
    BY <1>1 DEF GivenLines
  <2> QED BY <2>1 DEF GivenSoFar, LastOf
<1>6. ValuesInv
  BY <1>1, <1>5 DEF ValuesInv
<1>7. CameraSections = {} /\ Ended = {}
  BY <1>2 DEF CameraSections, Ended
<1>8. Collected(cameras, Ended)
  BY <1>1, <1>7, FS_EmptySet DEF Collected
<1>9. Readable
  BY <1>1 DEF Readable
<1> QED BY <1>1, <1>3, <1>4, <1>6, <1>8, <1>9 DEF LoadInv, ReadingInv, LoadsWhatFileSays

(* A file that is loaded is loaded as it reads: one camera for each        *)
(* section of one that names a serial, in their order, each with its own   *)
(* values and, for what it leaves open, those that the [global] sections   *)
(* before it give; a file that is refused has a number that cannot be      *)
(* read, a camera without an address or no camera.  For a file of any      *)
(* length, any fields and any values (config.cpp:121-187).                 *)
THEOREM LoadsWhatFileSaysHolds == ConfigSpec => []LoadsWhatFileSays
<1>1. ConfigTypeOK /\ LoadInv /\ [ConfigNext]_configVars => ConfigTypeOK' /\ LoadInv'
  BY StepTypes, LoadStep
<1>2. ConfigInit => ConfigTypeOK /\ LoadInv
  BY InitTypes, LoadInit
<1>3. LoadInv => LoadsWhatFileSays
  BY DEF LoadInv
<1> QED BY <1>1, <1>2, <1>3, PTL DEF ConfigSpec

=============================================================================
