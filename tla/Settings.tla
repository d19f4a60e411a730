------------------------------ MODULE Settings ------------------------------
(***************************************************************************)
(* How the server comes up: config.Load merges the environment, config.json*)
(* and the defaults, and app.Build starts what they ask for and chooses    *)
(* how the dashboard is protected, seeding the first admin if it must      *)
(* (openUserStore).  Any start may die half way, by itself (log.Fatal) or  *)
(* not, and the settings may change between two starts; each data          *)
(* directory keeps its users.db.                                           *)
(*                                                                         *)
(* A setting has one name here, that of its environment variable, and its  *)
(* text stands for itself: what is parsed is parsed by Truth and PortsIn.  *)
(***************************************************************************)
EXTENDS FiniteSets, Functions

CONSTANTS
    Envs,       \* environments: functions from the variables set to their texts
    ConfigFiles,  \* contents of config.json: Broken, or functions like those
    Mounts,     \* which of "/hostproc" and "/hostfs" may be mounted: a set of sets
    ValidAccounts  \* the accounts Store.Create accepts: [user, password]

Broken == [broken |-> "json"]

VARIABLES
    env, file, mounted,  \* what the next start will find
    startPc,             \* "down", the step Build has got to, or "serving"
    cfg,                 \* the Config of this process
    running,             \* what Build has started
    dbs                  \* data directory -> the accounts in its users.db, if it has one

deployVars == <<env, file, mounted>>
settingsVars == <<deployVars, startPc, cfg, running, dbs>>

ASSUME SettingsAssumption ==
    /\ \A e \in Envs \cup (ConfigFiles \ {Broken}) : \A key \in DOMAIN e : e[key] \in STRING
    /\ Mounts \subseteq SUBSET {"/hostproc", "/hostfs"}
    /\ \A f \in ConfigFiles \ {Broken} : \A key \in DOMAIN f :  \* JSON knows only these two
          key \in {"AUTH_ENABLED", "USE_INFLUX", "CONN_WATCH_ENABLED"} => f[key] \in {"true", "false"}

NoConfig == [dataDir |-> ""]
Account(user, password) == [user |-> user, password |-> password]

------------------------------------------------------------------------------
(* config.Load *)

\* strconv.ParseBool, on the texts it understands.
Truth == [t \in {"true", "false"} |-> t = "true"]

\* The ports among the parts of a list.
PortsIn(text) == IF text = "8080" THEN {8080} ELSE {}

\* strings.ToLower(strings.TrimSpace(s))
Trimmed(text) == IF text = " Session" THEN "session" ELSE text

\* What config.json leaves in a field: one that cannot be parsed leaves all alone.
FromFile(key, def) == IF file # Broken /\ key \in DOMAIN file THEN file[key] ELSE def

EnvString(key, def) ==
    LET base == FromFile(key, def) IN IF key \in DOMAIN env THEN env[key] ELSE base

EnvBool(key, def) ==
    LET base == FromFile(key, def)
    IN  Truth[IF key \in DOMAIN env /\ env[key] \in DOMAIN Truth THEN env[key] ELSE base]

EnvPorts(key) ==
    PortsIn(IF key \in DOMAIN env /\ env[key] # "" THEN env[key] ELSE FromFile(key, ""))

\* An AUTH_MODE that is empty, wherever it comes from, leaves it to AUTH_ENABLED.
Mode ==
    LET mode == Trimmed(EnvString("AUTH_MODE", ""))
    IN  IF mode # "" THEN mode ELSE IF EnvBool("AUTH_ENABLED", "false") THEN "basic" ELSE "none"

OrElse(text, def) == IF text = "" THEN def ELSE text
IfMounted(dir, def) == IF dir \in mounted THEN dir ELSE def

Config ==
    [useInflux |-> EnvBool("USE_INFLUX", "false"),
     docker    |-> EnvBool("DOCKER_ENABLED", "true"),
     ssh       |-> EnvBool("SSH_WATCH_ENABLED", "false"),
     conn      |-> EnvBool("CONN_WATCH_ENABLED", "false"),
     connAuto  |-> EnvBool("CONN_WATCH_AUTO", "true"),
     connPorts |-> EnvPorts("CONN_WATCH_PORTS"),
     procPath  |-> OrElse(EnvString("HOST_PROC_PATH", ""), IfMounted("/hostproc", "/proc")),
     rootPath  |-> OrElse(EnvString("HOST_ROOT_PATH", ""), IfMounted("/hostfs", "")),
     dataDir   |-> OrElse(EnvString("DATA_DIR", "./data"), "./data"),
     mode      |-> Mode,
     user      |-> EnvString("AUTH_USER", ""),
     password  |-> EnvString("AUTH_PASSWORD", "")]

Load ==
    /\ startPc = "down"
    /\ cfg' = Config
    /\ startPc' = "build"
    /\ UNCHANGED <<deployVars, running, dbs>>

------------------------------------------------------------------------------
(* app.Build *)

\* Docker only if its client can be made; the connection watcher only if there is
\* something to watch.
StartCollectors ==
    /\ startPc = "build"
    /\ \E docker \in {FALSE, cfg.docker} :
          running' = {x \in {"loop", "influx", "docker", "ssh", "conn"} :
                        \/ x = "loop"
                        \/ x = "influx" /\ cfg.useInflux
                        \/ x = "docker" /\ docker
                        \/ x = "ssh" /\ cfg.ssh
                        \/ x = "conn" /\ cfg.conn /\ (cfg.connAuto \/ cfg.connPorts # {})}
    /\ startPc' = "auth"
    /\ UNCHANGED <<deployVars, cfg, dbs>>

HasCredentials == cfg.user # "" /\ cfg.password # ""

\* log.Fatal: everything started so far goes with the process.
Fatal == startPc' = "down" /\ cfg' = NoConfig /\ running' = {} /\ UNCHANGED deployVars

ChooseAuth ==
    /\ startPc = "auth"
    /\ \/ /\ cfg.mode = "none" \/ (cfg.mode = "basic" /\ HasCredentials)
          /\ startPc' = "serving"
          /\ UNCHANGED <<deployVars, cfg, running, dbs>>
       \/ /\ cfg.mode = "session"
          /\ startPc' = "open"
          /\ UNCHANGED <<deployVars, cfg, running, dbs>>
       \/ /\ cfg.mode \notin {"none", "session"} /\ ~(cfg.mode = "basic" /\ HasCredentials)
          /\ Fatal /\ UNCHANGED dbs

Accounts(dir) == IF dir \in DOMAIN dbs THEN dbs[dir] ELSE {}
accountsHere == Accounts(cfg.dataDir)

StoreUsers(as) == dbs' = [d \in DOMAIN dbs \cup {cfg.dataDir} |-> IF d = cfg.dataDir THEN as ELSE dbs[d]]

\* Slip: a first run is one without a users.db.
OpenStore_FirstFile ==
    /\ startPc = "open"
    /\ StoreUsers(accountsHere)
    /\ \/ cfg.dataDir \in DOMAIN dbs /\ startPc' = "serving" /\ UNCHANGED <<deployVars, cfg, running>>
       \/ cfg.dataDir \notin DOMAIN dbs /\ HasCredentials /\ startPc' = "seed" /\ UNCHANGED <<deployVars, cfg, running>>
       \/ cfg.dataDir \notin DOMAIN dbs /\ ~HasCredentials /\ Fatal

\* Slip: the admin of the settings is always seen to.
OpenStore_AlwaysSeeds ==
    /\ startPc = "open"
    /\ StoreUsers(accountsHere)
    /\ \/ accountsHere # {} /\ ~HasCredentials /\ startPc' = "serving" /\ UNCHANGED <<deployVars, cfg, running>>
       \/ HasCredentials /\ startPc' = "seed" /\ UNCHANGED <<deployVars, cfg, running>>
       \/ accountsHere = {} /\ ~HasCredentials /\ Fatal

\* openUserStore up to Count: the file is there from now on, accounts or not.
OpenStore ==
    /\ startPc = "open"
    /\ StoreUsers(accountsHere)
    /\ \/ accountsHere # {} /\ startPc' = "serving" /\ UNCHANGED <<deployVars, cfg, running>>
       \/ accountsHere = {} /\ HasCredentials /\ startPc' = "seed" /\ UNCHANGED <<deployVars, cfg, running>>
       \/ accountsHere = {} /\ ~HasCredentials /\ Fatal

\* The directory or the database cannot be opened, read or written.
StoreFails == startPc \in {"open", "seed"} /\ Fatal /\ UNCHANGED dbs

\* Store.Create in one transaction.
Seed ==
    /\ startPc = "seed"
    /\ LET admin == Account(cfg.user, cfg.password)
       IN  \/ /\ admin \in ValidAccounts
              /\ StoreUsers(accountsHere \cup {admin})
              /\ startPc' = "serving"
              /\ UNCHANGED <<deployVars, cfg, running>>
           \/ admin \notin ValidAccounts /\ Fatal /\ UNCHANGED dbs

\* The accounts are managed from the dashboard; UserStore has how, and that an
\* admin remains.
Manage ==
    /\ startPc = "serving" /\ cfg.mode = "session"
    /\ \E as \in (SUBSET ValidAccounts) \ {{}} : StoreUsers(as)
    /\ UNCHANGED <<deployVars, startPc, cfg, running>>

------------------------------------------------------------------------------
\* The process dies or is stopped.
Stop == startPc # "down" /\ Fatal /\ UNCHANGED dbs

Redeploy ==
    /\ startPc = "down"
    /\ \/ env' \in Envs /\ UNCHANGED <<file, mounted>>
       \/ file' \in ConfigFiles /\ UNCHANGED <<env, mounted>>
       \/ mounted' \in Mounts /\ UNCHANGED <<env, file>>
    /\ UNCHANGED <<startPc, cfg, running, dbs>>

SettingsInit ==
    /\ env \in Envs /\ file \in ConfigFiles /\ mounted \in Mounts
    /\ startPc = "down" /\ cfg = NoConfig /\ running = {}
    /\ dbs = [d \in {} |-> {}]

SettingsNext ==
    \/ Load \/ StartCollectors \/ ChooseAuth \/ OpenStore \/ StoreFails \/ Seed
    \/ Manage \/ Stop \/ Redeploy

SettingsSpec == SettingsInit /\ [][SettingsNext]_settingsVars

------------------------------------------------------------------------------
SettingsTypeOK ==
    /\ env \in Envs /\ file \in ConfigFiles /\ mounted \in Mounts
    /\ startPc \in {"down", "build", "auth", "open", "seed", "serving"}
    /\ startPc = "down" <=> cfg = NoConfig
    /\ dbs \in [DOMAIN dbs -> SUBSET ValidAccounts]

\* A text of AUTH_MODE that asks for a login.
AsksForLogin(settings) ==
    "AUTH_MODE" \in DOMAIN settings /\ Trimmed(settings["AUTH_MODE"]) \notin {"", "none"}

SaysNone(settings) == "AUTH_MODE" \in DOMAIN settings /\ settings["AUTH_MODE"] = "none"

\* A server that answers is protected as the environment asks, and is open only
\* if neither the environment nor a config.json it does not overrule asks for a
\* login.  Behind a login somebody can get in: there is a password for basic, and
\* an account for session, whatever earlier starts died of.
ServedAsAsked ==
    /\ SettingsTypeOK
    /\ startPc = "serving" =>
         /\ cfg.mode \in {"none", "basic", "session"}
         /\ AsksForLogin(env) => cfg.mode = Trimmed(env["AUTH_MODE"])
         /\ cfg.mode = "none" =>
               /\ file # Broken /\ AsksForLogin(file) => "AUTH_MODE" \in DOMAIN env
               /\ "AUTH_ENABLED" \in DOMAIN env /\ env["AUTH_ENABLED"] = "true" =>
                     SaysNone(env) \/ (file # Broken /\ SaysNone(file))
         /\ cfg.mode = "basic" => HasCredentials
         /\ cfg.mode = "session" => accountsHere # {}

\* README: on the first start the settings create the first admin; after that,
\* changing them has no effect.  No start touches accounts that are there, and
\* none touches the directory of another.
AccountsOutliveSettings ==
    [][\A d \in DOMAIN dbs : (dbs[d] # {} /\ Accounts(d)' # dbs[d]) =>
          startPc = "serving" /\ startPc' = "serving" /\ d = cfg.dataDir]_settingsVars

==============================================================================
