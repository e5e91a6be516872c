------------------------------- MODULE Startup -------------------------------
(***************************************************************************)
(* Starting a homeserver (pubky-homeserver/src/{app_context,homeserver_app}.rs*)
(* client_server/app.rs, republishers/key_republisher.rs, data_directory/)   *)
(* and the migrations of its database (persistence/sql/{migrator.rs,          *)
(* migrations/}).  Homeservers of an older and of this version may share the *)
(* database: an old one keeps writing while a new one migrates, two new ones *)
(* start together, and each may stop at any step.                            *)
(***************************************************************************)
EXTENDS Naturals, Sequences, FiniteSets, Values

CONSTANTS
  SuServers,
  SuVersions,    \* number of migrations of the version the database was left by
  SuPaths, SuContents,
  SuEnabled,     \* those of "admin" and "metrics" that the configuration enables
  PublicPort,    \* the configured public port, None for the port that is bound
  MaxSuWrites, MaxSuStarts

VARIABLES
  suOld,       \* the number of migrations the old version knows
  suApplied,   \* names in the migrations table
  suSchema,    \* tables and columns
  suTx,        \* the migration under way, or None
  suServer,    \* homeserver -> its state
  suSecret,    \* homeserver -> its secret file: None, "partial" or "written"
  suPacket,    \* homeserver -> its packet in the DHT, or None
  suEvents,    \* PUT and DEL events, in order
  suEntries,   \* path -> content, None when there is none
  suSessions,  \* cookie sessions, in order of their ids
  suWrites, suStarts

ASSUME StartAssumption == None \notin {"zero", "partial", "written"}

suVars == <<suOld, suApplied, suSchema, suTx, suServer, suSecret, suPacket, suEvents, suEntries,
            suSessions, suWrites, suStarts>>
suRows == <<suEvents, suEntries, suSessions, suWrites>>
suDatabase == <<suOld, suApplied, suSchema, suTx, suRows>>

------------------------------------------------------------------------------
(* The migrations: what each needs, and what it adds.                        *)

Migration(name, needs, adds) == [name |-> name, needs |-> needs, adds |-> adds]

CreateUser       == Migration("m20250806_create_user", {}, {"users"})
CreateSignupCode == Migration("m20250812_create_signup_code", {}, {"signup_codes"})
CreateSession    == Migration("m20250813_create_session", {"users"}, {"sessions"})
CreateEvent      == Migration("m20250814_create_event", {"users"}, {"events"})
CreateEntry      == Migration("m20250815_create_entry", {"users"}, {"entries"})
EnhanceEvents    == Migration("m20251014_enhance_events_table", {"events"}, {"events.content_hash"})
CreateGrantSessions ==
  Migration("m20260325_create_grant_sessions", {"users"}, {"grants", "grant_sessions", "pop_nonces"})
AddQuotaColumns  == Migration("m20260327_add_quota_columns", {"users", "signup_codes"}, {"quotas"})
AddAllowedWritePaths ==
  Migration("m20260507_add_allowed_write_paths", {"users", "signup_codes"}, {"allowed_write_paths"})
AddSignupCodeUsedAt ==
  Migration("m20260609_add_signup_code_used_at", {"signup_codes"}, {"signup_codes.used_at"})
SanitizeCapabilities == Migration("m20260723_sanitize_capabilities", {"sessions"}, {})
CreateEntryLocks == Migration("m20260921_create_entry_locks", {"users"}, {"entry_locks"})
EntryPathCollation == Migration("m20261002_entry_path_c_collation", {"entries"}, {"entries.path C"})

Migrations ==
  <<CreateUser, CreateSignupCode, CreateSession, CreateEvent, CreateEntry, EnhanceEvents,
    CreateGrantSessions, AddQuotaColumns, AddAllowedWritePaths, AddSignupCodeUsedAt,
    SanitizeCapabilities, CreateEntryLocks, EntryPathCollation>>

NamesTo(n)  == {Migrations[i].name : i \in 1..n}
SchemaTo(n) == UNION {Migrations[i].adds : i \in 1..n}

\* The migrations that were not applied when the list was read, by their numbers; they
\* run in order.
ToRun(applied) == {i \in 1..Len(Migrations) : Migrations[i].name \notin applied}
FirstOf(todo)  == CHOOSE i \in todo : \A j \in todo : i <= j

\* Fault: events without an entry get the zero hash first.
BackfillZeroFirst(events, entries) ==
  [i \in 1..Len(events) |-> IF events[i].put THEN [events[i] EXCEPT !.hash = "zero"] ELSE events[i]]

\* Every PUT event of a path gets the hash of the entry as it is now.
Backfill(events, entries) ==
  [i \in 1..Len(events) |->
     IF ~events[i].put \/ events[i].hash # None THEN events[i]
     ELSE [events[i] EXCEPT !.hash = IF entries[events[i].path] # None THEN entries[events[i].path]
                                     ELSE "zero"]]

\* normalize_capabilities of the sessions seen; those that do not parse are deleted.
Sanitize(sessions, seen) ==
  LET normal == [i \in 1..Len(sessions) |->
                   IF i <= seen /\ sessions[i].caps = "loose"
                   THEN [sessions[i] EXCEPT !.caps = "normal"] ELSE sessions[i]]
  IN [i \in 1..Len(normal) |->
        IF i <= seen /\ normal[i].caps = "invalid" THEN [normal[i] EXCEPT !.caps = "deleted"] ELSE normal[i]]

------------------------------------------------------------------------------
\* A homeserver: the step of its start, its version, the migrations it has to run,
\* what runs in it, and the port its sockets got (every start binds another).
Off == [step |-> "off", version |-> 0, todo |-> {}, runs |-> {}, port |-> 0]

Steps == {"off", "key", "write key", "list migrations", "migrate", "listen events",
          "listen revocations", "app", "repair", "admin", "metrics", "bind icann", "bind pubky",
          "publish", "up"}
Jobs == {"events", "revocations", "republisher", "repair", "admin", "metrics", "icann", "pubky"}

ASSUME VersionAssumption == SuVersions \subseteq 0..Len(Migrations) /\ SuEnabled \subseteq {"admin", "metrics"}

SuTypeOK ==
  /\ suApplied \subseteq NamesTo(Len(Migrations))
  /\ suTx # None => suTx \in [server : SuServers, name : NamesTo(Len(Migrations)),
                             seen : 0..Len(suSessions), ended : BOOLEAN]
  /\ suServer \in [SuServers -> [step : Steps, version : 0..Len(Migrations),
                                 todo : SUBSET (1..Len(Migrations)), runs : SUBSET Jobs, port : Nat]]
  /\ suEvents \in Seq([put : BOOLEAN, path : SuPaths, hash : SuContents \cup {None, "zero"},
                       late : BOOLEAN])
  /\ suEntries \in [SuPaths -> SuContents \cup {None}]
  /\ suSessions \in Seq([caps : {"normal", "loose", "invalid", "deleted"}, late : BOOLEAN])
  /\ suStarts \in Nat

\* create_signed_packet
SignedPacket(s) == [port |-> IF PublicPort # None THEN PublicPort ELSE suServer[s].port]

\* The old version's database, with one of its homeservers running.
SuInit ==
  /\ suOld \in SuVersions /\ suApplied = NamesTo(suOld) /\ suSchema = SchemaTo(suOld) /\ suTx = None
  /\ \E old \in SuServers :
       suServer = [s \in SuServers |->
         IF s = old /\ suOld > 0
         THEN [Off EXCEPT !.step = "up", !.version = suOld,
                          !.runs = {"events", "revocations", "republisher", "icann", "pubky"}]
         ELSE Off]
  /\ suSecret = [s \in SuServers |-> IF suServer[s] = Off THEN None ELSE "written"]
  /\ suPacket = [s \in SuServers |-> IF suServer[s] = Off THEN None ELSE SignedPacket(s)]
  /\ suEvents = <<>> /\ suEntries = [p \in SuPaths |-> None] /\ suSessions = <<>>
  /\ suWrites = 0 /\ suStarts = 0

SuStep(s, step) == suServer' = [suServer EXCEPT ![s].step = step]
OnlyServer == UNCHANGED <<suDatabase, suSecret, suPacket, suStarts>>

\* One step of the start, after which `what` runs.
StepRuns(s, step, what, next) ==
  /\ suServer[s].step = step
  /\ suServer' = [suServer EXCEPT ![s].step = next, ![s].runs = @ \cup what]
  /\ OnlyServer

------------------------------------------------------------------------------
(* AppContext::read_from                                                     *)

\* The data directory is there and the configuration read.
BeginStart(s) ==
  /\ suServer[s].step = "off" /\ suStarts < MaxSuStarts /\ suStarts' = suStarts + 1
  /\ suServer' = [suServer EXCEPT ![s] =
       [Off EXCEPT !.step = "key", !.version = Len(Migrations), !.port = suStarts + 1]]
  /\ UNCHANGED <<suDatabase, suSecret, suPacket>>

\* read_or_create_keypair: the file is made and then written; one that cannot be
\* read stops the start, and is never replaced.
ReadKey(s) ==
  /\ suServer[s].step = "key"
  /\ CASE suSecret[s] = None      -> suSecret' = [suSecret EXCEPT ![s] = "partial"] /\ SuStep(s, "write key")
       [] suSecret[s] = "partial" -> UNCHANGED suSecret /\ suServer' = [suServer EXCEPT ![s] = Off]
       [] OTHER                   -> UNCHANGED suSecret /\ SuStep(s, "list migrations")
  /\ UNCHANGED <<suDatabase, suPacket, suStarts>>

WriteKey(s) ==
  /\ suServer[s].step = "write key" /\ SuStep(s, "key")
  /\ suSecret' = [suSecret EXCEPT ![s] = "written"]
  /\ UNCHANGED <<suDatabase, suPacket, suStarts>>

\* run_migrations: the table is read once.
ListMigrations(s) ==
  /\ suServer[s].step = "list migrations"
  /\ suServer' = [suServer EXCEPT ![s].step = "migrate", ![s].todo = ToRun(suApplied)]
  /\ OnlyServer

\* up() changes tables that another migration has locked.
BeginMigration(s) ==
  /\ suServer[s].step = "migrate" /\ suServer[s].todo # {} /\ suTx = None
  /\ LET m == Migrations[FirstOf(suServer[s].todo)]
     IN /\ m.needs \subseteq suSchema
        /\ suTx' = [server |-> s, name |-> m.name, seen |-> 0, ended |-> FALSE]
  /\ UNCHANGED <<suOld, suApplied, suSchema, suRows, suServer, suSecret, suPacket, suStarts>>

Sanitizing == suTx # None /\ suTx.name = SanitizeCapabilities.name
LastPageRead == Sanitizing /\ suTx.ended
Enhancing == suTx # None /\ suTx.name = EnhanceEvents.name

\* sanitize_sessions: one page of sessions after the last id; an empty one is the last.
SanitizePage ==
  /\ Sanitizing /\ ~suTx.ended
  /\ suTx' = IF suTx.seen < Len(suSessions) THEN [suTx EXCEPT !.seen = @ + 1]
             ELSE [suTx EXCEPT !.ended = TRUE]
  /\ UNCHANGED <<suOld, suApplied, suSchema, suRows, suServer, suSecret, suPacket, suStarts>>

AfterMigration(todo) == todo \ {FirstOf(todo)}

\* mark_migration_as_done
MarkAsDone == suApplied' = suApplied \cup {suTx.name}

\* run_migration: the changes and the mark are one transaction; a name that is
\* marked already rolls it back, and the homeserver does not start.
CommitMigration(s) ==
  /\ suTx # None /\ suTx.server = s
  /\ Sanitizing => suTx.ended
  /\ suTx' = None
  /\ IF suTx.name \in suApplied
     THEN /\ suServer' = [suServer EXCEPT ![s] = Off]
          /\ UNCHANGED <<suApplied, suSchema, suEvents, suSessions>>
     ELSE /\ MarkAsDone
          /\ suSchema' = suSchema \cup Migrations[FirstOf(suServer[s].todo)].adds
          /\ suServer' = [suServer EXCEPT ![s].todo = AfterMigration(@)]
          /\ suEvents' = IF Enhancing THEN Backfill(suEvents, suEntries) ELSE suEvents
          /\ suSessions' = IF Sanitizing THEN Sanitize(suSessions, suTx.seen) ELSE suSessions
  /\ UNCHANGED <<suOld, suEntries, suWrites, suSecret, suPacket, suStarts>>

MigrationsDone(s) == suServer[s].todo = {} /\ StepRuns(s, "migrate", {}, "listen events")

\* PgEventListener::start and RevocationListener::start
StartListener(s) ==
  \/ StepRuns(s, "listen events", {"events"}, "listen revocations")
  \/ StepRuns(s, "listen revocations", {"revocations"}, "app")

------------------------------------------------------------------------------
(* HomeserverApp::start: the republisher and the repair begin in the background, *)
(* the admin and metrics servers, then the client server's sockets, the packet.  *)

StartApp(s)     == StepRuns(s, "app", {"republisher"}, "repair")
\* (only Google Cloud Storage has a repair)
StartRepair(s)  == StepRuns(s, "repair", {"repair"}, "admin")
StartAdmin(s)   == StepRuns(s, "admin", SuEnabled \cap {"admin"}, "metrics")
StartMetrics(s) == StepRuns(s, "metrics", SuEnabled \cap {"metrics"}, "bind icann")
StartIcannHttp(s) == StepRuns(s, "bind icann", {"icann"}, "bind pubky")
StartPubkyTls(s)  == StepRuns(s, "bind pubky", {"pubky"}, "publish")

PublishPacket(s) ==
  /\ suServer[s].step = "publish" /\ SuStep(s, "up")
  /\ suPacket' = [suPacket EXCEPT ![s] = SignedPacket(s)]
  /\ UNCHANGED <<suDatabase, suSecret, suStarts>>

\* Hourly; a failure is only logged.
Republish(s) ==
  /\ suServer[s].step = "up" /\ suPacket' = [suPacket EXCEPT ![s] = SignedPacket(s)]
  /\ UNCHANGED <<suDatabase, suServer, suSecret, suStarts>>

PacketExpires(s) ==
  /\ suPacket[s] # None /\ suPacket' = [suPacket EXCEPT ![s] = None]
  /\ UNCHANGED <<suDatabase, suServer, suSecret, suStarts>>

\* A step of the start fails, or the homeserver stops: what it held is dropped, the
\* transaction rolled back.
Stop(s) ==
  /\ suServer[s].step # "off" /\ suServer' = [suServer EXCEPT ![s] = Off]
  /\ suTx' = IF suTx # None THEN (IF suTx.server = s THEN None ELSE suTx) ELSE None
  /\ UNCHANGED <<suOld, suApplied, suSchema, suRows, suSecret, suPacket, suStarts>>

------------------------------------------------------------------------------
(* Requests of a homeserver whose sockets are bound: an administrator writes    *)
(* files too.                                                                   *)

Takes(s, servers) == suServer[s].runs \cap servers # {}

Knows(s, m) == m.name \in NamesTo(suServer[s].version)
Done(m) == m.name \in suApplied

\* An event is written with its entry, and waits for a migration of the table.  A
\* version without the column leaves it empty.
WriteFile(s, p, c) ==
  /\ Takes(s, {"admin", "icann", "pubky"}) /\ ~Enhancing
  /\ suWrites < MaxSuWrites /\ suWrites' = suWrites + 1
  /\ suEvents' = Append(suEvents, [put |-> c # None, path |-> p,
                                   hash |-> IF c # None /\ Knows(s, EnhanceEvents) THEN c ELSE None,
                                   late |-> Done(EnhanceEvents) /\ ~Knows(s, EnhanceEvents)])
  /\ suEntries' = [suEntries EXCEPT ![p] = c]
  /\ UNCHANGED <<suOld, suApplied, suSchema, suTx, suSessions, suServer, suSecret, suPacket, suStarts>>

\* An old version stores capabilities as they came.
OpenCookieSession(s, caps) ==
  /\ Takes(s, {"icann", "pubky"}) /\ suWrites < MaxSuWrites /\ suWrites' = suWrites + 1
  /\ caps # "normal" => ~Knows(s, SanitizeCapabilities)
  /\ suSessions' = Append(suSessions, [caps |-> caps, late |-> Done(SanitizeCapabilities) \/ LastPageRead])
  /\ UNCHANGED <<suOld, suApplied, suSchema, suTx, suEvents, suEntries, suServer, suSecret, suPacket, suStarts>>

SuNext ==
  \/ \E s \in SuServers :
       \/ BeginStart(s) \/ ReadKey(s) \/ WriteKey(s) \/ ListMigrations(s) \/ BeginMigration(s)
       \/ CommitMigration(s) \/ MigrationsDone(s) \/ StartListener(s)
       \/ StartApp(s) \/ StartRepair(s) \/ StartAdmin(s) \/ StartMetrics(s)
       \/ StartIcannHttp(s) \/ StartPubkyTls(s) \/ PublishPacket(s) \/ Republish(s) \/ PacketExpires(s) \/ Stop(s)
       \/ \E p \in SuPaths, c \in SuContents \cup {None} : WriteFile(s, p, c)
       \/ \E caps \in {"normal", "loose", "invalid"} : OpenCookieSession(s, caps)
  \/ SanitizePage

SuSpec == SuInit /\ [][SuNext]_suVars

------------------------------------------------------------------------------
\* A homeserver whose jobs or sockets run finds every table and column of its version,
\* and hears the events and revocations of the other homeservers: also when two start
\* together on one database and when one stops in the middle of a migration.
ServesItsSchema ==
  \A s \in SuServers : suServer[s].runs \ {"events", "revocations"} # {} =>
    /\ SchemaTo(suServer[s].version) \subseteq suSchema
    /\ {"events", "revocations"} \subseteq suServer[s].runs

\* Rows that were there before a migration come out whole: the newest PUT event of a
\* file has the file's hash, and no session keeps capabilities in a loose form; only
\* an old version that still runs, and writes after the migration has read, adds others.
MigratedRowsAreWhole ==
  /\ Done(EnhanceEvents) =>
       \A i \in 1..Len(suEvents) : suEvents[i].put /\ ~suEvents[i].late =>
         /\ suEvents[i].hash # None
         /\ (\A j \in i+1..Len(suEvents) : suEvents[j].path # suEvents[i].path) =>
              suEvents[i].hash = suEntries[suEvents[i].path]
  /\ Done(SanitizeCapabilities) =>
       \A i \in 1..Len(suSessions) : ~suSessions[i].late => suSessions[i].caps \notin {"loose", "invalid"}

\* Starting and migrating, alone or beside another homeserver (homeserver_app.rs,
\* migrator.rs, migrations/).
StartSound == SuTypeOK /\ ServesItsSchema /\ MigratedRowsAreWhole
===============================================================================
