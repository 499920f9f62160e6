--------------------------- MODULE SchemaMigrations ---------------------------
(***************************************************************************)
(* The database of the application brought to the current schema when it   *)
(* is opened: crates/infra/src/sqlite_storage/migrations.rs, migrations/   *)
(* recent.rs and open_database of worker.rs.                               *)
(*                                                                         *)
(* A migration is one transaction that changes the schema, carries the     *)
(* rows over and sets user_version.  A launch reads the version once and   *)
(* applies what is above it; it may end between any two migrations (a      *)
(* crash, a full disk), and the next launch goes on from what was          *)
(* committed.                                                              *)
(*                                                                         *)
(* A setting is its column of app_settings, a table its name; of the rows  *)
(* only the evidence for the dictionary is followed, which three of the    *)
(* migrations rebuild.  The counts derived from it (dictionary_candidates) *)
(* are left out.                                                           *)
(***************************************************************************)
EXTENDS Integers, FiniteSets

CONSTANTS
    StartVersions,     \* bound: schemas that a launch may find
    Witnesses,         \* dictations that left evidence
    FreshShortcut,     \* fresh_install_shortcut: what a new database gets
    MaxInterruptions,  \* bound: launches that end in the middle
    MaxOldRows         \* bound: rows of evidence in the database found

ASSUME MigrationsAssumption ==
    /\ StartVersions \subseteq Nat
    /\ {MaxInterruptions, MaxOldRows} \subseteq Nat

VARIABLES
    disk,        \* the database: schema version, settings, tables, evidence
    launch,      \* the launch under way and the version it read
    found,       \* history: the database the first launch found
    interrupted  \* launches that ended in the middle

migrationVars == <<disk, launch, found, interrupted>>

-----------------------------------------------------------------------------
CurrentSchemaVersion == 25

\* The columns of app_settings: since which version, and the value a migration
\* gives to a row that is there.
Columns ==
    [history        |-> [since |-> 1,  value |-> "on"],
     retention      |-> [since |-> 1,  value |-> "7 days"],
     learning       |-> [since |-> 1,  value |-> "on"],
     microphone     |-> [since |-> 6,  value |-> "none"],
     diagnostics    |-> [since |-> 7,  value |-> "on"],
     ui_language    |-> [since |-> 8,  value |-> "system"],
     update_checks  |-> [since |-> 9,  value |-> "off"],
     sounds         |-> [since |-> 9,  value |-> "on"],
     copy           |-> [since |-> 10, value |-> "off"],
     dock           |-> [since |-> 10, value |-> "on"],
     paused         |-> [since |-> 10, value |-> "off"],
     shortcut       |-> [since |-> 11, value |-> "right-command"],
     shortcuts      |-> [since |-> 12, value |-> "right-command"],
     onboarding     |-> [since |-> 13, value |-> "not_started"],
     theme          |-> [since |-> 15, value |-> "lime-pulse"],
     color_scheme   |-> [since |-> 15, value |-> "system"],
     mute           |-> [since |-> 16, value |-> "on"],
     assist         |-> [since |-> 21, value |-> "off"],
     assist_success |-> [since |-> 21, value |-> "none"],
     consent        |-> [since |-> 24, value |-> "none"]]

ColumnsOf(version) == {c \in DOMAIN Columns : Columns[c].since = version}
ColumnsUpTo(version) == {c \in DOMAIN Columns : Columns[c].since <= version}
Given(columns) == [c \in columns |-> Columns[c].value]

\* What a version of the application may have stored in a column.
Stored(version, c) ==
    CASE c = "theme" ->
            {"lime-pulse"} \cup (IF version >= 18 THEN {"saymore"} ELSE {})
                           \cup {IF version >= 19 THEN "sunlit-gold" ELSE "clear-sky"}
      [] c = "onboarding" -> {"not_started", "in_progress", "completed"}
      [] c \in {"shortcut", "shortcuts"} ->
            {"right-command", "chosen"} \cup
            (IF c = "shortcut" /\ version = 11 THEN {""} ELSE {})
      [] OTHER -> {Columns[c].value, "chosen"}

TablesSince ==
    [app_settings |-> 1, transcript_history |-> 2, dictionary_entries |-> 3,
     term_observations |-> 3, candidate_evidence |-> 14, diagnostic_events |-> 17,
     usage |-> 20, model_download_queue |-> 25]
TablesOf(version) == {t \in DOMAIN TablesSince : TablesSince[t] = version}
TablesUpTo(version) == {t \in DOMAIN TablesSince : TablesSince[t] <= version}

(* Rows of term_observations, for one term: one for a dictation and        *)
(* variant before schema 5, a dictation until 21, a dictation and kind in   *)
(* 22, and again a dictation, now with its assessment, since 23.           *)
Variants(version) == IF version \in {3, 4} THEN {"v1", "v2"} ELSE {"none"}
Kinds(version) ==
    IF version < 22 THEN {"none"} ELSE {"user_revision", "vocabulary_suggestion"}
Grades(version) == IF version < 23 THEN {"none"} ELSE {"accept", "uncertain"}
EvidenceRow(version) == [dictation : Witnesses, variant : Variants(version),
                        kind : Kinds(version), grade : Grades(version)]
RowKey(version, r) == IF version < 23 THEN <<r.dictation, r.variant, r.kind>>
                      ELSE <<r.dictation>>
EvidenceOf(version) ==
    IF version < 3 THEN {{}}
    ELSE {rows \in SUBSET EvidenceRow(version) :
            /\ IsFiniteSet(rows) /\ Cardinality(rows) <= MaxOldRows
            /\ \A r, q \in rows : RowKey(version, r) = RowKey(version, q) => r = q}

Left(version, settings, rows) ==
    [version |-> version, settings |-> settings, tables |-> TablesUpTo(version),
     rows |-> rows]

\* A database that is not there yet, or one that an older version (or, with a
\* schema above the current one, a newer version) of the application left: with
\* at most one setting that is not as a migration leaves it.
Databases ==
    UNION {IF v = 0 THEN {Left(0, <<>>, {})}
           ELSE {Left(v, Given(ColumnsUpTo(v)), rows) : rows \in EvidenceOf(v)} \cup
                UNION {{Left(v, [Given(ColumnsUpTo(v)) EXCEPT ![c] = value], {}) :
                          value \in Stored(v, c)} : c \in ColumnsUpTo(v)}
           : v \in StartVersions}

NoLaunch == [at |-> "none", read |-> 0]

MigrationsInit ==
    /\ disk \in Databases
    /\ found = disk
    /\ launch = NoLaunch
    /\ interrupted = 0

-----------------------------------------------------------------------------
(* open_database and apply: the version is read once; a schema of a newer   *)
(* version of the application is refused and stays as it is.               *)
OpenDatabase ==
    /\ launch.at = "none"
    /\ launch' = [at |-> IF disk.version > CurrentSchemaVersion THEN "refused"
                         ELSE "migrating",
                  read |-> disk.version]
    /\ UNCHANGED <<disk, found, interrupted>>

\* Every migration up to the current schema has been applied.
DatabaseOpened ==
    /\ launch.at = "migrating" /\ disk.version = CurrentSchemaVersion
    /\ launch' = [launch EXCEPT !.at = "open"]
    /\ UNCHANGED <<disk, found, interrupted>>

\* The launch ends between two migrations, or one fails and is rolled back.
Interrupt ==
    /\ interrupted < MaxInterruptions
    /\ launch.at = "migrating" /\ disk.version < CurrentSchemaVersion
    /\ interrupted' = interrupted + 1
    /\ launch' = NoLaunch
    /\ UNCHANGED <<disk, found>>

\* The transaction of migration n: what it changes and the version, or nothing.
Migrate(n, settings, tables, rows) ==
    /\ launch.at = "migrating"
    /\ launch.read < n /\ disk.version = n - 1
    /\ disk' = [version |-> n, settings |-> settings, tables |-> tables, rows |-> rows]
    /\ UNCHANGED <<launch, found, interrupted>>

ChangeSettings(n, settings) == Migrate(n, settings, disk.tables \cup TablesOf(n), disk.rows)
ChangeRows(n, rows) == Migrate(n, disk.settings, disk.tables, rows)

\* Columns that are missing are added; app_settings_has_column keeps the others.
Extended(settings, added) ==
    [c \in DOMAIN settings \cup DOMAIN added |->
       IF c \in DOMAIN settings THEN settings[c] ELSE added[c]]

AddColumns(n) == ChangeSettings(n, Extended(disk.settings, Given(ColumnsOf(n))))
AddTables(n) == ChangeSettings(n, disk.settings)

FreshInstall == launch.read = 0

MigrateSettings == AddColumns(1)
MigrateHistory == AddTables(2)
MigrateDictionaryAndModels == AddTables(3)
\* The keys of the entries are written anew; no two become equal.
PreserveDictionaryTokenBoundaries == AddTables(4)

RemoveDictionaryVariantMappings ==
    ChangeRows(5, {[r EXCEPT !.variant = "none"] : r \in disk.rows})

AddPreferredMicrophone == AddColumns(6)
AddDiagnosticsLogging == AddColumns(7)
AddUiLanguage == AddColumns(8)
AddRuntimePreferences == AddColumns(9)
AddDesktopBehavior == AddColumns(10)
AddDictationShortcut == AddColumns(11)

\* The one shortcut becomes the list, unless it was empty.
AddMultipleDictationShortcuts ==
    LET one == disk.settings["shortcut"]
        many == IF FreshInstall /\ FreshShortcut # "none" THEN FreshShortcut
                ELSE IF one = "" THEN Columns["shortcuts"].value ELSE one
    IN  ChangeSettings(12, Extended(disk.settings, [shortcuts |-> many]))

\* Whoever used the application before is not led through it again.
AddOnboardingState ==
    ChangeSettings(13, Extended(disk.settings,
        [onboarding |-> IF FreshInstall THEN "not_started" ELSE "completed"]))

AddDictionaryCandidateEvidence == AddTables(14)
AddAppearanceSettings == AddColumns(15)
AddSystemAudioMute == AddColumns(16)
AddDiagnosticEvents == AddTables(17)

\* Mutant of Rebuilt: the copied columns are those of the table before the mute.
Rebuilt_Forgets(settings, theme) ==
    [c \in ColumnsUpTo(16) |->
       CASE c = "theme" -> theme [] c = "mute" -> Columns[c].value [] OTHER -> settings[c]]

\* app_settings under a new CHECK: renamed, made anew, copied column by column.
Rebuilt(settings, theme) ==
    [c \in ColumnsUpTo(16) |-> IF c = "theme" THEN theme ELSE settings[c]]

AddSaymoreTheme ==
    LET theme == IF FreshInstall THEN "saymore" ELSE disk.settings["theme"]
    IN  ChangeSettings(18, Rebuilt(disk.settings, theme))

ReplaceClearSkyTheme ==
    LET old == disk.settings["theme"]
        theme == IF old = "clear-sky" THEN "sunlit-gold" ELSE old
    IN  ChangeSettings(19, Rebuilt(disk.settings, theme))

AddUsageAggregates == AddTables(20)
AddDictionaryAssist == AddColumns(21)

SeparateDictionaryEvidenceKinds ==
    ChangeRows(22, {[r EXCEPT !.kind = "user_revision"] : r \in disk.rows})

\* One row for a dictation, a revision by the user before a suggestion, and no
\* more than uncertain: the assessments of older rows were not kept.
MakeDictionaryEvidenceIdempotent ==
    LET KindOf(d) ==
          IF \E r \in disk.rows : r.dictation = d /\ r.kind = "user_revision"
          THEN "user_revision" ELSE "vocabulary_suggestion"
    IN  ChangeRows(23, {[r EXCEPT !.kind = KindOf(r.dictation), !.grade = "uncertain"] :
                          r \in disk.rows})

AddDictionaryAssistConsent == AddColumns(24)
AddModelDownloadQueue == AddTables(25)

ApplyInitialMigrations ==
    \/ MigrateSettings \/ MigrateHistory \/ MigrateDictionaryAndModels
    \/ PreserveDictionaryTokenBoundaries \/ RemoveDictionaryVariantMappings
    \/ AddPreferredMicrophone \/ AddDiagnosticsLogging \/ AddUiLanguage
    \/ AddRuntimePreferences \/ AddDesktopBehavior \/ AddDictationShortcut
    \/ AddMultipleDictationShortcuts \/ AddOnboardingState

ApplyRecentMigrations ==
    \/ AddDictionaryCandidateEvidence \/ AddAppearanceSettings \/ AddSystemAudioMute
    \/ AddDiagnosticEvents \/ AddSaymoreTheme \/ ReplaceClearSkyTheme
    \/ AddUsageAggregates \/ AddDictionaryAssist \/ SeparateDictionaryEvidenceKinds
    \/ MakeDictionaryEvidenceIdempotent \/ AddDictionaryAssistConsent
    \/ AddModelDownloadQueue

MigrationsNext ==
    \/ OpenDatabase \/ DatabaseOpened \/ Interrupt
    \/ ApplyInitialMigrations \/ ApplyRecentMigrations

MigrationsSpec == MigrationsInit /\ [][MigrationsNext]_migrationVars

-----------------------------------------------------------------------------
(* What the variables may hold: a database of a schema has the columns,     *)
(* tables and rows of that schema, whatever launches were interrupted, and *)
(* never one of a version that was not committed.                          *)
MigrationsTypeOK ==
    /\ DOMAIN disk.settings = ColumnsUpTo(disk.version)
    /\ disk.tables = TablesUpTo(disk.version)
    /\ disk.rows \in EvidenceOf(disk.version)
    /\ launch.at \in {"none", "migrating", "open", "refused"}
    /\ launch.at \in {"migrating", "open"} => launch.read <= disk.version
    /\ interrupted \in 0..MaxInterruptions

(* An upgrade loses nothing of what it found, however often it was         *)
(* interrupted: every setting keeps, all the while, the value the user     *)
(* gave it (the theme that is gone has its successor, the one shortcut is  *)
(* the list); who had a database is not led through the introduction       *)
(* again and keeps the look the application had; the dictations that spoke *)
(* for a term are the same ones, each counted once, and none counts as     *)
(* more than it did; a database of a newer version is left alone; and a    *)
(* first launch that was not interrupted ends with what a new user is to   *)
(* have.                                                                   *)
UpgradeKeepsData ==
    /\ launch.at = "refused" => disk = found
    /\ \A c \in DOMAIN found.settings :
         disk.settings[c] =
           IF found.settings[c] = "clear-sky" /\ disk.version \in 19..25
           THEN "sunlit-gold" ELSE found.settings[c]
    /\ launch.at = "open" =>
         /\ found.version \in 1..25 =>
              /\ found.version < 12 =>
                   disk.settings["shortcuts"] \in {disk.settings["shortcut"], "right-command"}
              /\ disk.settings["shortcut"] = "chosen" /\ found.version < 12 =>
                   disk.settings["shortcuts"] = "chosen"
              /\ found.version < 13 => disk.settings["onboarding"] = "completed"
              /\ found.version < 15 => disk.settings["theme"] = "lime-pulse"
         /\ found.version = 0 /\ interrupted = 0 =>
              /\ disk.settings["onboarding"] = "not_started"
              /\ disk.settings["theme"] = "saymore"
              /\ FreshShortcut # "none" => disk.settings["shortcuts"] = FreshShortcut
         /\ \A d \in Witnesses :
              /\ Cardinality({r \in disk.rows : r.dictation = d}) =
                   IF \E r \in found.rows : r.dictation = d THEN 1 ELSE 0
              /\ IF found.version >= 23 THEN disk.rows = found.rows
                 ELSE \A r \in disk.rows : r.grade = "uncertain"
=============================================================================
