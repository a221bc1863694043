------------------------------ MODULE ConfigFile ------------------------------
(***************************************************************************)
(* config.toml and the process that reads and saves it: internal/config    *)
(* (config.go, save.go, tomlpatch.go, dotenv.go) with the callers in       *)
(* internal/app and cmd/packetcode.                                        *)
(*                                                                         *)
(* A file is the settings it assigns.  People edit it while the process    *)
(* runs, and so do other packetcode processes, of other builds: there is   *)
(* no lock, so a save has two steps, the read and the replacement.         *)
(***************************************************************************)
EXTENDS Naturals, FiniteSets

CONSTANTS
    Settings,     \* the leaves a file may assign
    Known,        \* those this build has a field for
    Optional,     \* fields with omitempty: empty is not written
    InArray,      \* settings kept in [[blocks]], which no edit can replace
    Values,       \* what people assign
    Flags,        \* settings a command line flag sets in memory, or {}
    Misreads      \* whether the patcher may misplace an edit

Default == "default"
Absent  == "absent"
FromEnv == "from the environment"
FromFlag == "from a flag"
ConstantsOK == /\ Known \cup InArray \cup Flags \subseteq Settings /\ Optional \subseteq Known
               /\ Settings # {} /\ Values # {} /\ Misreads \in BOOLEAN /\ Values \cap {Default, Absent, FromEnv, FromFlag} = {}

VARIABLES
    file,       \* [is: "missing", "text" or "broken", val: setting -> value or Absent]
    env,        \* the gates, cache settings and keys in the environment and .env files
    mem,        \* *Config, the fields: setting -> value
    override,   \* its unexported overrides and dotEnv: what Load found in env
    saving      \* a save between its read and its replacement

vars == <<file, env, mem, override, saving>>

Text(val) == [is |-> "text", val |-> val]
Empty     == [s \in Settings |-> Absent]
Missing   == [is |-> "missing", val |-> Empty]
Broken    == [is |-> "broken", val |-> Empty]
Idle      == [is |-> "no", base |-> Missing, edits |-> <<>>]

-----------------------------------------------------------------------------
\* toml.Decode over Default(): a key that is absent keeps the default, one that no
\* field matches is reported and skipped.
Decode(text) == [s \in Known |-> IF text.val[s] = Absent THEN Default ELSE text.val[s]]

\* configSettings, by way of the encoder: the leaves these fields occupy in a file.
configSettings(fields) ==
    [s \in Settings |-> IF s \notin Known \/ (s \in Optional /\ fields[s] = Default)
                        THEN Absent ELSE fields[s]]

\* The edits that turn one set of leaves into the other; Absent removes.
diffSettings(before, after) ==
    [s \in {t \in Settings : before[t] # after[t]} |-> after[s]]

\* applyTOMLEdit refuses a setting of an array of tables.
Refuses(edits) == DOMAIN edits \cap InArray # {}
patchTOML(text, edits) ==
    Text([s \in Settings |-> IF s \in DOMAIN edits THEN edits[s] ELSE text.val[s]])

\* What the text may be after the edits, its values located by a scanner that is
\* "a locator, not a parser".
Patched(text, edits) ==
    {patchTOML(text, edits)}
    \cup IF ~Misreads THEN {} ELSE
         {Broken} \cup {Text([patchTOML(text, edits).val EXCEPT ![s] = Absent]) : s \in Settings}

\* Mutant: only the settings that were asked for are compared.
verifyEditsOnly(before, after, edits) ==
    after.is = "text" /\ \A s \in DOMAIN edits : after.val[s] = edits[s]

\* The result parses, has every edit and differs in nothing else.
verifyTOMLPatch(before, after, edits) ==
    /\ after.is = "text"
    /\ \A s \in Settings : after.val[s] = IF s \in DOMAIN edits THEN edits[s] ELSE before.val[s]

-----------------------------------------------------------------------------
\* Mutant: the gates are stored where the fields are.
LoadEnvIntoFields(text, found) ==
    [fields |-> [s \in Known |-> IF found[s] = Absent THEN Decode(text)[s] ELSE found[s]], over |-> found]

\* LoadFrom: the fields, and beside them what the environment says.
LoadFrom(text, found) == [fields |-> Decode(text), over |-> found]

\* --trust and --permission-mode: run sets the field.
Flagged(fields) == [s \in Known |-> IF s \in Flags THEN FromFlag ELSE fields[s]]

\* What the variables of the environment may say: nothing, or a value for one setting.
Environments ==
    {[s \in Settings |-> IF s = t THEN FromEnv ELSE Absent] : t \in {Absent} \cup (Known \ InArray)}

Init ==
    /\ file \in {Missing} \cup {Text(v) : v \in [Settings -> Values \cup {Absent}]}
    /\ env \in Environments
    /\ override = env
    /\ mem = Flagged(LoadFrom(file, env).fields)
    /\ saving = Idle

\* The next start of the program, or a reload: RunSetup's, the sign-in's.  A file
\* that does not parse stops it.
Load ==
    /\ file.is # "broken"
    /\ mem' = Flagged(LoadFrom(file, env).fields) /\ override' = LoadFrom(file, env).over
    /\ saving' = Idle
    /\ UNCHANGED <<file, env>>

\* A person, or another packetcode.
EditedElsewhere ==
    /\ \/ file.is = "text" /\ \E s \in Settings, v \in Values \cup {Absent} : file' = [file EXCEPT !.val[s] = v]
       \/ file' \in {Missing, Broken}
       \/ file.is # "text" /\ file' = Text([Empty EXCEPT ![CHOOSE s \in Settings : TRUE] = CHOOSE v \in Values : TRUE])
    /\ file' # file
    /\ UNCHANGED <<env, mem, override, saving>>

-----------------------------------------------------------------------------
\* persistDefault, /effort, setup and the sign-in set a field and Save: every field
\* that disagrees with the file is an edit.
Save(s, v) ==
    LET fields == [mem EXCEPT ![s] = v]
    IN  /\ saving.is = "no"
        /\ mem' = fields
        /\ IF file.is = "broken" THEN saving' = saving
           ELSE saving' = [is |-> "yes", base |-> file,
                           edits |-> diffSettings(configSettings(Decode(file)), configSettings(fields))]
        /\ UNCHANGED <<file, env, override>>

\* SetProviderKey and the like: the edits are what the mutation changed.
Update(s, v) ==
    LET fields == [mem EXCEPT ![s] = v]
    IN  /\ saving.is = "no"
        /\ mem' = fields
        /\ saving' = [is |-> "yes", base |-> file, edits |-> diffSettings(configSettings(mem), configSettings(fields))]
        /\ UNCHANGED <<file, env, override>>

\* Mutant: the file is encoded anew from the fields.
writeWhole(base, edits) == {[done |-> TRUE, text |-> Text(configSettings(mem))]}

\* writeSettings: what is written over the file, if anything is.  A first file is
\* encoded whole; no edits, or edits that are refused, write nothing.
writeSettings(base, edits) ==
    LET nothing == [done |-> FALSE, text |-> base]
    IN  IF base.is = "missing" THEN {[done |-> TRUE, text |-> Text(configSettings(mem))]}
        ELSE IF edits = <<>> \/ base.is = "broken" \/ Refuses(edits) THEN {nothing}
        ELSE {IF verifyTOMLPatch(base, t, edits) THEN [done |-> TRUE, text |-> t] ELSE nothing : t \in Patched(base, edits)}

\* writeConfigFile replaces the file whatever it has become since; a save that
\* refuses, or dies, leaves it alone, and leaves the field as it was set.
Replace ==
    /\ saving.is = "yes"
    /\ \E w \in writeSettings(saving.base, saving.edits) : file' = IF w.done THEN w.text ELSE file
    /\ saving' = Idle
    /\ UNCHANGED <<env, mem, override>>

SaveFails == saving.is = "yes" /\ saving' = Idle /\ UNCHANGED <<file, env, mem, override>>

SetByUser == \E s \in Known \ InArray, v \in Values \cup {Default} : Save(s, v) \/ Update(s, v)
Next == Load \/ EditedElsewhere \/ SetByUser \/ Replace \/ SaveFails

Spec == Init /\ [][Next]_vars

-----------------------------------------------------------------------------
TypeOK ==
    /\ file.is \in {"missing", "text", "broken"} /\ file.val \in [Settings -> Values \cup {Absent, Default, FromEnv, FromFlag}]
    /\ env \in [Settings -> {Absent, FromEnv}] /\ override \in [Settings -> {Absent, FromEnv}]
    /\ DOMAIN mem = Known /\ saving.is \in {"no", "yes"}

\* config.go, "Kept out of the stored fields so a save cannot persist them": what
\* stands in the file is a default or what somebody set; neither an override of the
\* environment nor a key of a .env file gets there, by whatever sequence of saves.
OnlyWhatWasSet == \A s \in Settings : file.val[s] # FromEnv

\* docs/compatibility.md, "leaves them alone": a save keeps, of the text it read, what
\* this build has no field for, and what it was not asked to change.
OthersSettingsStay ==
    [][saving.is = "yes" /\ saving.base.is # "missing" /\ file' # file /\ saving'.is = "no" =>
         /\ file'.is = "text" /\ saving.base.is = "text"
         /\ \A s \in Settings \ DOMAIN saving.edits : file'.val[s] = saving.base.val[s]
         /\ \A s \in Settings \ Known : file'.val[s] = saving.base.val[s]]_vars

\* docs/compatibility.md, "packetcode works out which individual settings it means to
\* change and rewrites only those".
\* (Does not hold: README, Observations.)
SavesWhatItMeans == \A s \in Settings : file.val[s] # FromFlag

=============================================================================
