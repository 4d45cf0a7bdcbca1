--------------------------- MODULE Configuration ---------------------------
(***************************************************************************)
(* How a process of the program comes by its settings before it does       *)
(* anything else: setBaseVars and readJson of config/core, the setVars of  *)
(* the log, the cash registers, the server and the static files, each a    *)
(* list of keys with the filters of path.h and numeric.h, and the map of   *)
(* content types.  A relative path means another file when the working     *)
(* directory changes, and readJson changes it.                             *)
(***************************************************************************)
EXTENDS Naturals, Sequences

Key(name, check) == [name |-> name, check |-> check]

LogKeys ==
    <<Key("log level", "value"), Key("log directory", "touched in main"),
      Key("event level", "value")>>
KkmKeys ==
    <<Key("db directory", "touched"), Key("time zone", "value"), Key("max price", "value")>>
ServerKeys ==
    <<Key("port", "value"), Key("certificate", "exists"), Key("private key", "exists")>>
StaticKeys ==
    <<Key("enable static", "flag"), Key("static directory", "exists if enabled"),
      Key("index file", "value"), Key("mime map", "exists if enabled")>>

(* The setters of readJson, in the order of its arguments.                 *)
Keys == LogKeys \o KkmKeys \o ServerKeys \o StaticKeys
KeyName == {Keys[i].name : i \in DOMAIN Keys}
PathChecks == {"touched in main", "touched", "exists", "exists if enabled"}
PathKey == {Keys[i].name : i \in {k \in DOMAIN Keys : Keys[k].check \in PathChecks}}

(* What a file says of a key, and where a file or directory may be.        *)
Given == {"missing", "good", "bad", "yes", "no", "relative", "absolute", "empty"}
Directory == {"launch", "main", "conf"}
PlaceOf(d, k) == [at |-> d, name |-> k]
Places == [at : Directory \cup {"root"}, name : KeyName \cup {"default map"}]

VARIABLES
    given,    \* kkmha.json
    files,    \* kkmha.json and the map: not there, broken or good
    there,    \* the files and directories that exist
    barred,   \* the directories that cannot be made
    cwd,      \* std::filesystem::current_path
    stage,    \* "launched", "config", "keys", "map", "run" or "failed"
    nextKey,  \* the key that is taken next
    settings, \* the variables the setters set
    mimeMap   \* the file s_mimeMap is from

configVars == <<given, files, there, barred, cwd, stage, nextKey, settings, mimeMap>>

(* A default is a value, a relative path, or "no" for the static files.    *)
Default(k) == [is |-> "default", place |-> PlaceOf("launch", k)]
Plainly(v) == [is |-> v, place |-> PlaceOf("launch", "default map")]
AtPlace(p) == [is |-> "path", place |-> p]
Nowhere == PlaceOf("launch", "default map")

ConfigTypeOK ==
    /\ given \in [KeyName -> Given]
    /\ files \in [config : {"none", "broken", "good"}, map : {"broken", "good"}]
    /\ there \subseteq Places /\ barred \subseteq Places
    /\ cwd \in Directory
    /\ stage \in {"launched", "config", "keys", "map", "run", "failed"}
    /\ nextKey \in 1..Len(Keys) + 1
    /\ \A k \in KeyName : settings[k].place \in Places
                          /\ settings[k].is \in {"default", "good", "yes", "no", "path"}
    /\ mimeMap \in Places

(* An absolute path means itself; in the place of "launch" it is not given.*)
Settle(g, f, t, b) ==
    /\ given = g /\ files = f /\ there = t /\ barred = b
    /\ cwd = "launch" /\ stage = "launched" /\ nextKey = 1
    /\ settings = [k \in KeyName |-> Default(k)]
    /\ mimeMap = Nowhere

-----------------------------------------------------------------------------
Fails ==
    /\ stage' = "failed"
    /\ UNCHANGED <<given, files, there, barred, cwd, nextKey, settings, mimeMap>>

SetBaseVars ==
    /\ stage = "launched"
    /\ cwd' = "main" /\ stage' = "config"
    /\ UNCHANGED <<given, files, there, barred, nextKey, settings, mimeMap>>

(* Another directory is the current one from here until the file has been  *)
(* taken; a failure leaves it so.                                          *)
ReadConfig ==
    /\ stage = "config"
    /\ \/ files.config = "none" /\ Fails
       \/ /\ files.config # "none"
          /\ cwd' = "conf"
          /\ stage' = IF files.config = "good" THEN "keys" ELSE "failed"
          /\ UNCHANGED <<given, files, there, barred, nextKey, settings, mimeMap>>

-----------------------------------------------------------------------------
(* Path::absolute: where a path leads from the current directory.          *)
Absolute(v, k, d) == PlaceOf(IF v = "absolute" THEN "root" ELSE d, k)

Row == Keys[nextKey]
Value == given[Row.name]

(* Variant for the mutation runs: it stays in the directory.               *)
AbsoluteInStaying == [path |-> Absolute(Value, Row.name, "main"), back |-> "main"]

(* Path::absolute with a directory goes there and comes back.              *)
AbsoluteIn == [path |-> Absolute(Value, Row.name, "main"), back |-> cwd]

Here == Absolute(Value, Row.name, cwd)
Enabled == settings["enable static"].is = "yes"

NonEmpty == Value \in {"relative", "absolute"}

(* touchDir: create_directories can throw, and what it leaves behind may   *)
(* still be no directory.                                                  *)
CanBe(p) == p \in there \/ p \notin barred

(* The filters: noEmpty, touchDir, existsFile, and testDir and testFile,   *)
(* which look at s_enable.                                                 *)
Accepted ==
    CASE Row.check = "value" -> Value = "good"
      [] Row.check = "flag" -> Value \in {"yes", "no"}
      [] Row.check = "touched in main" -> NonEmpty /\ CanBe(AbsoluteIn.path)
      [] Row.check = "touched" -> NonEmpty /\ CanBe(Here)
      [] Row.check = "exists" -> NonEmpty /\ Here \in there
      [] Row.check = "exists if enabled" -> NonEmpty /\ (Enabled => Here \in there)

Take(setting, made, back) ==
    /\ settings' = [settings EXCEPT ![Row.name] = setting]
    /\ there' = there \cup made
    /\ cwd' = back
    /\ nextKey' = nextKey + 1
    /\ UNCHANGED <<given, files, barred, stage, mimeMap>>

(* touchDir makes the directory, whatever becomes of the keys after it.    *)
TakeAccepted ==
    CASE Row.name \notin PathKey -> Take(Plainly(Value), {}, cwd)
      [] Row.check = "touched in main" ->
           Take(AtPlace(AbsoluteIn.path), {AbsoluteIn.path}, AbsoluteIn.back)
      [] Row.check = "touched" -> Take(AtPlace(Here), {Here}, cwd)
      [] Row.check \in {"exists", "exists if enabled"} -> Take(AtPlace(Here), {}, cwd)

TakeSetting ==
    /\ stage = "keys" /\ nextKey <= Len(Keys)
    /\ \/ Value = "missing" /\ Take(settings[Row.name], {}, cwd)
       \/ Value # "missing" /\ Accepted /\ TakeAccepted
       \/ Value # "missing" /\ ~Accepted /\ Fails

(* The program's directory is the current one again; the map of content    *)
(* types is read when static files are enabled.                            *)
EndOfConfig ==
    /\ stage = "keys" /\ nextKey > Len(Keys)
    /\ cwd' = "main"
    /\ stage' = IF Enabled THEN "map" ELSE "run"
    /\ UNCHANGED <<given, files, there, barred, nextKey, settings, mimeMap>>

(* The path of the map is looked at in one directory and opened in         *)
(* another: the same file when it is absolute, as all that are configured. *)
MapPath(d) ==
    IF settings["mime map"].is = "default" THEN PlaceOf(d, "default map")
    ELSE settings["mime map"].place

ReadMimeMap ==
    /\ stage = "map"
    /\ \/ MapPath(cwd) \notin there /\ Fails
       \/ /\ MapPath(cwd) \in there
          /\ IF MapPath("conf") \in there /\ files.map = "good"
             THEN cwd' = "main" /\ stage' = "run" /\ mimeMap' = MapPath("conf")
             ELSE cwd' = "conf" /\ stage' = "failed" /\ UNCHANGED mimeMap
          /\ UNCHANGED <<given, files, there, barred, nextKey, settings>>

ConfigNext == SetBaseVars \/ ReadConfig \/ TakeSetting \/ EndOfConfig \/ ReadMimeMap

-----------------------------------------------------------------------------
(* What kkmha.json means, said key by key: a path in it is relative to its *)
(* directory, but the log's to the program's.                              *)
Meant(k) ==
    IF given[k] = "missing" THEN Default(k)
    ELSE IF k \notin PathKey THEN Plainly(given[k])
    ELSE AtPlace(PlaceOf(IF given[k] = "absolute" THEN "root"
                         ELSE IF k = "log directory" THEN "main" ELSE "conf", k))

SoundKey(k) ==
    \/ given[k] = "missing"
    \/ k = "enable static" /\ given[k] \in {"yes", "no"}
    \/ k \notin PathKey \cup {"enable static"} /\ given[k] = "good"
    \/ /\ k \in PathKey /\ given[k] \in {"relative", "absolute"}
       /\ \/ k \in {"log directory", "db directory"} /\ CanBe(Meant(k).place)
          \/ Meant(k).place \in there
          \/ k \in {"static directory", "mime map"} /\ given["enable static"] # "yes"

(* The default map has to be there twice: it is looked for in the          *)
(* program's directory and opened in the one of kkmha.json.                *)
SoundMap ==
    given["enable static"] = "yes" =>
        /\ files.map = "good"
        /\ given["mime map"] = "missing" =>
             {PlaceOf("main", "default map"), PlaceOf("conf", "default map")} \subseteq there

SoundConfig == files.config = "good" /\ SoundMap /\ \A k \in KeyName : SoundKey(k)

(* A process that goes on to its command has every setting of kkmha.json   *)
(* as it is written there, each path resolved in its directory and what    *)
(* has to exist looked at there, and is in its own directory again; one    *)
(* that does not go on has been given something wrong, or the path of a    *)
(* directory that is not there and cannot be made.                         *)
SettingsAsWritten ==
    /\ stage = "run" =>
         /\ SoundConfig
         /\ \A k \in KeyName : settings[k] = Meant(k)
         /\ \A k \in {"log directory", "db directory"} :
               given[k] # "missing" => Meant(k).place \in there
         /\ given["enable static"] = "yes" /\ given["mime map"] # "missing" =>
               mimeMap = Meant("mime map").place
         /\ cwd = "main"
    /\ stage = "failed" => ~SoundConfig
=============================================================================
