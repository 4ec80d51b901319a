------------------------------- MODULE Config -------------------------------
(***************************************************************************)
(* config/ConfigHelper.cpp and config/ConfigParser.cpp: the configuration, *)
(* field by field, and the JSON documents it is loaded from and saved to,  *)
(* with the conversion that every type of field has in either direction.   *)
(***************************************************************************)
EXTENDS Integers, Sequences

CONSTANTS Parsed,      \* the sections loadFromFile() parses, in its order
          Section,     \* the section of every field
          Type,        \* the type of every field
          Default, Values,  \* of every field; Values are what it is assigned
          MAX_INT,     \* of int: 2^31 - 1 in the code
          Documents,   \* the files of other origin that are loaded
          MaxCalls     \* bound

VARIABLES config,      \* of each field
          saved,       \* the file that was written last
          loaded,      \* the last call loaded that file: "whole", "refused"; it did not: "none"
          before,      \* history: config before the last load
          atSave,      \* history: config when it was saved
          calls

configVars == <<config, saved, loaded, before, atSave, calls>>

Fields == DOMAIN Section
ParsedSet == {Parsed[i] : i \in DOMAIN Parsed}
ParsedFields == {f \in Fields : Section[f] \in ParsedSet}

(* A float counts halves and a double quarters: a double has more digits.  *)
(* Logger::Level is DEBUG ... OFF.                                         *)
Ints == (-MAX_INT - 1) .. MAX_INT
TypeOf == [bool |-> BOOLEAN, int |-> Ints, level |-> 0..4,
           float |-> Int, double |-> Int, string |-> STRING]
Types == DOMAIN TypeOf

(* A Json::Value, by its kind: an int of any width, a real as a double.    *)
Json == ({"bool"} \X BOOLEAN) \cup ({"int", "real"} \X Int) \cup ({"string"} \X STRING)
            \cup {<<"other", 0>>}

(* A file: its root is an object, or there is none to be read; the         *)
(* sections that are neither an object nor null; the keys the others have. *)
IsDocument(doc) ==
    /\ doc.root \in BOOLEAN /\ doc.wrong \subseteq ParsedSet
    /\ DOMAIN doc.member \subseteq ParsedFields
    /\ \A f \in DOMAIN doc.member : doc.member[f] \in Json

Unreadable == [root |-> FALSE, wrong |-> {}, member |-> <<>>]

ASSUME FieldsAssumption ==
    /\ Parsed \in Seq(STRING) /\ MAX_INT \in Nat /\ MAX_INT >= 4
    /\ DOMAIN Type = Fields /\ DOMAIN Default = Fields /\ DOMAIN Values = Fields
    /\ \A f \in Fields : /\ Type[f] \in Types /\ Default[f] \in TypeOf[Type[f]]
                         /\ Values[f] \subseteq TypeOf[Type[f]]
    /\ \A doc \in Documents : IsDocument(doc)

ConfigInit == /\ config = Default /\ atSave = config /\ before = config
              /\ saved = Unreadable
              /\ loaded = "none" /\ calls = 0

Call == calls < MaxCalls /\ calls' = calls + 1

(* Whoever has the singleton changes it: main(), the START_CAPTURE command. *)
Assign(f, v) == /\ Call /\ config' = [config EXCEPT ![f] = v] /\ before' = config'
                /\ loaded' = "none" /\ UNCHANGED <<saved, atSave>>

resetToDefaults ==
    /\ Call /\ loaded' = "none"
    /\ config' = [f \in Fields |-> IF f \in ParsedFields THEN Default[f] ELSE config[f]]
    /\ before' = config' /\ UNCHANGED <<saved, atSave>>

-----------------------------------------------------------------------------
IsInt(j) == \/ j[1] = "int" /\ j[2] \in Ints
            \/ j[1] = "real" /\ j[2] % 4 = 0 /\ j[2] \div 4 \in Ints
AsInt(j) == IF j[1] = "int" THEN j[2] ELSE j[2] \div 4
AsDouble(j) == IF j[1] = "int" THEN 4 * j[2] ELSE j[2]

(* Mutant: the last level is taken for one that does not exist.            *)
AcceptsFourLevels(t, j) ==
    CASE t = "bool" -> j[1] = "bool"
      [] t = "int" -> IsInt(j)
      [] t = "level" -> IsInt(j) /\ AsInt(j) \in 0..3
      [] t \in {"float", "double"} -> j[1] \in {"int", "real"}
      [] t = "string" -> j[1] = "string"

(* safeGetValue(): a value of another kind is left alone.                  *)
Accepts(t, j) == CASE t = "bool" -> j[1] = "bool"
                   [] t = "int" -> IsInt(j)
                   [] t = "level" -> IsInt(j) /\ AsInt(j) \in 0..4
                   [] t \in {"float", "double"} -> j[1] \in {"int", "real"}
                   [] t = "string" -> j[1] = "string"

FromJson(t, j) == CASE t \in {"bool", "string"} -> j[2]
                    [] t \in {"int", "level"} -> AsInt(j)
                    [] t = "float" -> AsDouble(j) \div 2
                    [] t = "double" -> AsDouble(j)

(* An enumerator is written as an int, a float as a double.                *)
ToJson(t, v) == CASE t = "bool" -> <<"bool", v>>
                  [] t \in {"int", "level"} -> <<"int", v>>
                  [] t = "float" -> <<"real", 2 * v>>
                  [] t = "double" -> <<"real", v>>
                  [] t = "string" -> <<"string", v>>

-----------------------------------------------------------------------------
(* The keys that are stored: asking a section that is no object for its    *)
(* first one throws, after the sections before it have been stored.        *)
Stored(doc) ==
    {f \in DOMAIN doc.member :
        /\ doc.root /\ Accepts(Type[f], doc.member[f])
        /\ \E i \in DOMAIN Parsed :
              Section[f] = Parsed[i] /\ \A k \in 1..i : Parsed[k] \notin doc.wrong}

loadFromFile(doc, ours) ==
    /\ Call /\ before' = config
    /\ config' = [f \in Fields |-> IF f \in Stored(doc) THEN FromJson(Type[f], doc.member[f])
                                                        ELSE config[f]]
    /\ loaded' = IF ~ours THEN "none"
                 ELSE IF doc.root /\ doc.wrong = {} THEN "whole" ELSE "refused"
    /\ UNCHANGED <<saved, atSave>>

Written == [root |-> TRUE, wrong |-> {},
            member |-> [f \in ParsedFields |-> ToJson(Type[f], config[f])]]

(* The file does not open, and is what it was; or it is written; or what   *)
(* the unchecked write leaves of it is not a whole object.                 *)
saveToFile == /\ Call /\ loaded' = "none" /\ before' = config
              /\ \/ UNCHANGED <<saved, atSave>>
                 \/ saved' \in {Written, Unreadable} /\ atSave' = config
              /\ UNCHANGED config

ConfigNext == \/ \E f \in Fields : \E v \in Values[f] : Assign(f, v)
              \/ resetToDefaults \/ saveToFile \/ loadFromFile(saved, TRUE)
              \/ \E doc \in Documents : loadFromFile(doc, FALSE)

ConfigSpec == ConfigInit /\ [][ConfigNext]_configVars

(* Whatever a document holds, a field has a value of its type: a level     *)
(* that Logger::Level does not have is not cast to it                      *)
(* (ConfigParser.cpp 178-312).                                             *)
ConfigTypeOK == /\ DOMAIN config = Fields
                /\ \A f \in Fields : config[f] \in TypeOf[Type[f]]

(* What saveToFile() leaves on the disk is loaded entirely or not at all:  *)
(* every field that was written is accepted again and converted back to    *)
(* the value it had, over whatever was assigned, reset or half loaded      *)
(* since, and a file that was torn changes nothing (ConfigParser.cpp 7-62, *)
(* 64-97, 178-430).                                                        *)
SavedIsRestored == /\ loaded = "whole" => \A f \in ParsedFields : config[f] = atSave[f]
                   /\ loaded = "refused" => \A f \in Fields : config[f] = before[f]
=============================================================================
