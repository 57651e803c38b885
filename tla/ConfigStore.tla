---------------------------- MODULE ConfigStore -----------------------------
(***************************************************************************)
(* What meshcore-bot keeps on disk: the config file, which loading a        *)
(* pre-0.4 config rewrites after a backup (config_migrate.go), and the      *)
(* observer's key file, made on first use (mqtt_identity.go).  The process  *)
(* may end between any two steps; a write fails or is cut short; the        *)
(* operator saves a config whenever he likes.                               *)
(*                                                                          *)
(* os.WriteFile truncates the file and then fills it: two steps, with the   *)
(* file Torn between them.  os.Rename is one.  Both last once done: it is   *)
(* the process that ends, not the host, as the code syncs none of them.     *)
(***************************************************************************)
EXTENDS Naturals, FiniteSets, SequencesExt

CONSTANTS
  Documents,   \* the configs the operator may save
  Remnants,    \* what a config cut short may still parse as
  Brokers,     \* the brokers an observer may list
  Keys,        \* the identities GenerateLocalIdentity may return
  LastSecond,  \* bound: backup names have a resolution of one second
  Nil, Torn

\* An observer, as the root of a legacy config and a bot of a current one list it.
MqttConfig == [name : STRING, brokers : Seq(Brokers)]

\* Torn is a file a write was cut short in; Nil a missing file or no config.
\* A document has legacy observers, bots, of which some own an observer, and
\* the rest of the file, which parses and validates or not.
ASSUME DocumentsAssumption ==
  \A d \in Documents \cup Remnants :
    /\ DOMAIN d = {"observers", "bots", "valid"}
    /\ d.observers \in Seq(MqttConfig)
    /\ d.bots \in Seq([name : STRING, mqtt : MqttConfig \cup {Nil}])
    /\ d.valid \in BOOLEAN
ASSUME RemnantsAssumption == \A d \in Remnants : d.observers = <<>>
ASSUME SecondsAssumption == LastSecond \in Nat \ {0}
ASSUME NilAssumption ==
  /\ Nil # Torn /\ {Nil, Torn} \cap (Documents \cup Remnants \cup Keys) = {}
  /\ Nil \notin MqttConfig

VARIABLES
  at,       \* what the process is doing; "down" when there is none
  booting,  \* this load is main's first, and its failure ends the process
  raw,      \* the document loadConfigFromPath has read
  stamp,    \* the second the backup is named after
  cfg,      \* cfg: the config in force
  id,       \* the identity of the running observer
  made,     \* the identity generated and not yet stored
  file, backups, key, tmp,   \* the files, backups by the second in their name
  second,   \* the clock
  users,    \* history: the document the operator saved last
  raced,    \* history: he saved it between the read and the end of a rewrite
  source,   \* history: the document cfg was loaded from
  known     \* history: identities an observer has started with

diskVars == <<file, backups, key, tmp>>
userVars == <<second, users, raced>>
memoryVars == <<booting, raw, stamp, cfg, id, made, source, known>>
vars == <<at, diskVars, userVars, memoryVars>>

Seconds == 1 .. LastSecond

-----------------------------------------------------------------------------
(* Pure functions of a document.                                            *)

Owners(d) == {i \in DOMAIN d.bots : d.bots[i].mqtt # Nil}

\* Unmarshal, applyDefaults and validate: at most one bot owns an observer.
Validates(d) == d.valid /\ Cardinality(Owners(d)) <= 1

\* The observers merge into the first, in order ...
BugMerged(d) == d.observers[1]
Merged(d) ==
  [d.observers[1] EXCEPT
     !.brokers = FlattenSeq([i \in DOMAIN d.observers |-> d.observers[i].brokers])]

\* ... which the first bot owns; one is made when there is none.
BotsOrOne(d) == IF d.bots = <<>> THEN <<[name |-> "mqtt", mqtt |-> Nil]>> ELSE d.bots
Migrated(d) ==
  [d EXCEPT !.observers = <<>>, !.bots = [BotsOrOne(d) EXCEPT ![1].mqtt = Merged(d)]]

\* Root observers beside a bot that owns one: refused rather than guessed.
BugAmbiguous(d) == Cardinality(Owners(d)) > 1
Ambiguous(d) == Owners(d) # {}

\* botMqttConfig(c) # nil.
HasObserver(c) == Owners(c) # {}

-----------------------------------------------------------------------------
Init ==
  /\ at = "down" /\ booting = FALSE
  /\ raw = Nil /\ cfg = Nil /\ id = Nil /\ made = Nil /\ source = Nil
  /\ file \in Documents /\ users = file /\ raced = FALSE
  /\ backups = [s \in Seconds |-> Nil]
  /\ key = Nil /\ tmp = Nil /\ known = {}
  /\ second = 1 /\ stamp = 1

(* The world.                                                               *)

Rewriting == at \in {"backup", "saving", "rewrite", "rewriting"}

OperatorSaves ==
  /\ \E d \in Documents : file' = d /\ users' = d
  /\ raced' = Rewriting
  /\ UNCHANGED <<at, backups, key, tmp, second, memoryVars>>

Tick ==
  /\ second < LastSecond
  /\ second' = second + 1
  /\ UNCHANGED <<at, diskVars, users, raced, memoryVars>>

\* The process ends: a crash, a signal or os.Exit.
Ended ==
  /\ at' = "down" /\ booting' = FALSE
  /\ raw' = Nil /\ cfg' = Nil /\ id' = Nil /\ made' = Nil /\ source' = Nil

\* What has been written or renamed stays: the host keeps running.
Ends ==
  /\ at # "down"
  /\ Ended
  /\ UNCHANGED <<diskVars, userVars, stamp, known>>

-----------------------------------------------------------------------------
(* loadConfig, by main at startup or on SIGHUP.                             *)

Boot ==
  /\ at = "down"
  /\ at' = "read" /\ booting' = TRUE
  /\ UNCHANGED <<diskVars, userVars, raw, stamp, cfg, id, made, source, known>>

Sighup ==
  /\ at = "run"
  /\ at' = "read" /\ booting' = FALSE
  /\ UNCHANGED <<diskVars, userVars, raw, stamp, cfg, id, made, source, known>>

\* An error ends a process that is starting; another keeps its config.
Refuses ==
  /\ at' = IF booting THEN "down" ELSE "run"
  /\ booting' = FALSE /\ raw' = Nil
  /\ UNCHANGED <<userVars, stamp, cfg, id, made, source, known>>

\* c, loaded from d, comes into force; its observer is yet to start.
Adopts(c, d) ==
  /\ cfg' = c /\ source' = d /\ id' = Nil
  /\ at' = IF HasObserver(c) THEN "key" ELSE "run"
  /\ booting' = FALSE /\ raw' = Nil
  /\ UNCHANGED <<userVars, stamp, made, known>>

\* What reading the file can come to.
Readings == IF file = Torn THEN Remnants ELSE {file}

ReadsCurrent ==
  /\ at = "read"
  /\ \E d \in Readings :
       Validates(d) /\ d.observers = <<>> /\ d.bots # <<>> /\ Adopts(d, d)
  /\ UNCHANGED diskVars

\* It does not parse or validate, or main finds no bots in it.
ReadFails ==
  /\ at = "read"
  /\ \/ file = Torn
     \/ \E d \in Readings : ~Validates(d) \/ (d.observers = <<>> /\ d.bots = <<>>)
  /\ Refuses
  /\ UNCHANGED diskVars

ReadsLegacy ==
  /\ at = "read"
  /\ \E d \in Readings : Validates(d) /\ d.observers # <<>> /\ raw' = d
  /\ at' = "backup"
  /\ UNCHANGED <<diskVars, userVars, booting, stamp, cfg, id, made, source, known>>

\* migrateLegacyObservers: the raw original goes to a file named by the clock.
BackupOpens ==
  /\ at = "backup"
  /\ stamp' = second
  /\ backups' = [backups EXCEPT ![second] = Torn]
  /\ at' = "saving"
  /\ UNCHANGED <<file, key, tmp, userVars, booting, raw, cfg, id, made, source, known>>

BackupWritten ==
  /\ at = "saving"
  /\ backups' = [backups EXCEPT ![stamp] = raw]
  /\ UNCHANGED <<file, key, tmp>>
  /\ \/ Ambiguous(raw) /\ Refuses
     \/ /\ ~Ambiguous(raw)
        /\ at' = "rewrite"
        /\ UNCHANGED <<userVars, memoryVars>>

BugBackupFails ==
  /\ at \in {"backup", "saving"}
  /\ at' = "rewrite"
  /\ UNCHANGED <<diskVars, userVars, memoryVars>>
BackupFails ==
  /\ at \in {"backup", "saving"}
  /\ Refuses
  /\ UNCHANGED diskVars

\* Then the migrated config takes the original's place.
RewriteOpens ==
  /\ at = "rewrite"
  /\ file' = Torn
  /\ at' = "rewriting"
  /\ UNCHANGED <<backups, key, tmp, userVars, memoryVars>>

RewriteWritten ==
  /\ at = "rewriting"
  /\ file' = Migrated(raw)
  /\ Adopts(Migrated(raw), raw)
  /\ UNCHANGED <<backups, key, tmp>>

RewriteFails ==
  /\ at \in {"rewrite", "rewriting"}
  /\ Refuses
  /\ UNCHANGED diskVars

Load ==
  \/ Boot \/ Sighup \/ ReadsCurrent \/ ReadFails \/ ReadsLegacy
  \/ BackupOpens \/ BackupWritten \/ BackupFails
  \/ RewriteOpens \/ RewriteWritten \/ RewriteFails

-----------------------------------------------------------------------------
(* startObservers and loadOrCreateIdentity.                                 *)

IdentityUnchanged == UNCHANGED <<userVars, booting, raw, stamp, cfg, source>>

\* The radio comes back, and the observer is started again.
Reconnects ==
  /\ at = "run"
  /\ HasObserver(cfg)
  /\ at' = "key" /\ id' = Nil
  /\ UNCHANGED <<diskVars, made, known>>
  /\ IdentityUnchanged

\* The observer runs as k, for the network to see.
Announces(k) == id' = k /\ known' = known \cup {k} /\ made' = Nil /\ at' = "run"

\* The observer does not start; the rest of the process runs on.
GoesWithout == at' = "run" /\ made' = Nil /\ UNCHANGED <<id, known>>

ReadsKey ==
  /\ at = "key"
  /\ key \in Keys
  /\ Announces(key)
  /\ UNCHANGED diskVars
  /\ IdentityUnchanged

\* Unreadable, or not a seed.
KeyFails ==
  /\ at = "key"
  /\ key # Nil
  /\ GoesWithout
  /\ UNCHANGED diskVars
  /\ IdentityUnchanged

\* Only a missing file is replaced by a new identity.
MakesKey ==
  /\ at = "key"
  /\ key = Nil
  /\ made' \in Keys \ known
  /\ at' = "store"
  /\ UNCHANGED <<diskVars, id, known>>
  /\ IdentityUnchanged

\* writeIdentity: a temporary file, renamed into place when it is whole.
TmpOpens ==
  /\ at = "store"
  /\ tmp' = Torn
  /\ at' = "storing"
  /\ UNCHANGED <<file, backups, key, made, id, known>>
  /\ IdentityUnchanged

TmpWritten ==
  /\ at = "storing"
  /\ tmp' = made
  /\ at' = "rename"
  /\ UNCHANGED <<file, backups, key, made, id, known>>
  /\ IdentityUnchanged

TmpFails ==
  /\ at \in {"store", "storing"}
  /\ GoesWithout
  /\ UNCHANGED diskVars
  /\ IdentityUnchanged

Renames ==
  /\ at = "rename"
  /\ key' = tmp /\ tmp' = Nil
  /\ Announces(made)
  /\ UNCHANGED <<file, backups>>
  /\ IdentityUnchanged

BugRenameFails ==
  /\ at = "rename"
  /\ tmp' = Nil
  /\ Announces(made)
  /\ UNCHANGED <<file, backups, key>>
  /\ IdentityUnchanged
RenameFails ==
  /\ at = "rename"
  /\ tmp' = Nil
  /\ GoesWithout
  /\ UNCHANGED <<file, backups, key>>
  /\ IdentityUnchanged

Identity ==
  \/ Reconnects \/ ReadsKey \/ KeyFails \/ MakesKey
  \/ TmpOpens \/ TmpWritten \/ TmpFails \/ Renames \/ RenameFails

-----------------------------------------------------------------------------
Next == OperatorSaves \/ Tick \/ Ends \/ Load \/ Identity

Spec == Init /\ [][Next]_vars

Configs == Remnants \cup Documents \cup {Migrated(d) : d \in {x \in Documents : x.observers # <<>>}}

TypeOK ==
  /\ at \in {"down", "read", "backup", "saving", "rewrite", "rewriting",
             "run", "key", "store", "storing", "rename"}
  /\ booting \in BOOLEAN /\ raced \in BOOLEAN
  /\ raw \in Documents \cup {Nil} /\ users \in Documents
  /\ source \in Configs \cup {Nil}
  /\ cfg \in {c \in Configs : Validates(c)} \cup {Nil}
  /\ id \in Keys \cup {Nil} /\ made \in Keys \cup {Nil} /\ known \subseteq Keys
  /\ file \in Configs \cup {Torn}
  /\ backups \in [Seconds -> Documents \cup {Nil, Torn}]
  /\ key \in Keys \cup {Nil, Torn} /\ tmp \in Keys \cup {Nil, Torn}
  /\ second \in Seconds /\ stamp \in Seconds

\* Wherever a migration ends or fails, the config the operator saved last is
\* whole in the config file or in a backup, unless he saved it while a rewrite
\* was under way (migrateLegacyObservers).
ConfigKept ==
  ~raced => file = users \/ \E s \in Seconds : backups[s] = users

\* A migrated config publishes to every broker of the legacy one, and has no
\* root observers left to migrate again.
BrokersOf(d) ==
  UNION ({ToSet(d.observers[i].brokers) : i \in DOMAIN d.observers}
         \cup {ToSet(d.bots[i].mqtt.brokers) : i \in Owners(d)})
NoBrokerDropped ==
  cfg # Nil => cfg.observers = <<>> /\ BrokersOf(cfg) = BrokersOf(source)

\* The network has only ever seen the identity that is on disk: no failed write
\* or restart rotates it (loadOrCreateIdentity).
IdentityKept == known \subseteq {key}
=============================================================================
