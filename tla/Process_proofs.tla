--------------------------- MODULE Process_proofs ---------------------------
(***************************************************************************)
(* How the server comes up (Settings) and the loop it then runs            *)
(* (CollectionLoop), for every environment, config.json and set of         *)
(* accounts, and for every window, gauge and snapshot.                     *)
(***************************************************************************)
EXTENDS Settings, CollectionLoop, TLAPS

------------------------------------------------------------------------------
(* Settings *)

\* What a start knows at each of its steps: the Config it works with is what Load
\* makes of settings that have not changed since, and it seeds a directory only
\* while nobody has an account there.
StartInv ==
    /\ SettingsTypeOK
    /\ startPc # "down" => cfg = Config
    /\ startPc \in {"open", "seed"} => cfg.mode = "session"
    /\ startPc = "seed" => accountsHere = {}
    /\ startPc = "serving" =>
          /\ cfg.mode \in {"none", "basic", "session"}
          /\ cfg.mode = "basic" => HasCredentials
          /\ cfg.mode = "session" => accountsHere # {}

\* config.go:85-87: the data directory is never empty, so a Config is told from none.
LEMMA ConfigIsOne == Config # NoConfig
<1>1. Config.dataDir = OrElse(EnvString("DATA_DIR", "./data"), "./data")
  BY DEF Config
<1>2. Config.dataDir # ""
  BY <1>1 DEF OrElse
<1>3. NoConfig.dataDir = ""
  BY DEF NoConfig
<1>. QED  BY <1>2, <1>3

\* config.go:74-83: the mode that comes out is the one the environment asks for, and
\* is "none" only if nothing that is not overruled asks for a login.
LEMMA ModeIsAsAsked ==
  ASSUME SettingsTypeOK
  PROVE  /\ AsksForLogin(env) => Mode = Trimmed(env["AUTH_MODE"])
         /\ Mode = "none" =>
               /\ file # Broken /\ AsksForLogin(file) => "AUTH_MODE" \in DOMAIN env
               /\ "AUTH_ENABLED" \in DOMAIN env /\ env["AUTH_ENABLED"] = "true" =>
                     SaysNone(env) \/ (file # Broken /\ SaysNone(file))
<1>. DEFINE text == EnvString("AUTH_MODE", "")
<1>1. AsksForLogin(env) => Mode = Trimmed(env["AUTH_MODE"])
  BY DEF AsksForLogin, Mode, EnvString
<1>2. ASSUME Mode = "none", file # Broken, AsksForLogin(file)
      PROVE  "AUTH_MODE" \in DOMAIN env
  BY <1>2 DEF AsksForLogin, Mode, EnvString, FromFile
<1>3. ASSUME Mode = "none", "AUTH_ENABLED" \in DOMAIN env, env["AUTH_ENABLED"] = "true"
      PROVE  SaysNone(env) \/ (file # Broken /\ SaysNone(file))
  <2>1. EnvBool("AUTH_ENABLED", "false")
    BY <1>3 DEF EnvBool, Truth
  <2>2. Trimmed(text) = "none"
    BY <1>3, <2>1 DEF Mode
  <2>3. text = "none"
    BY <2>2 DEF Trimmed
  <2>. QED  BY <2>3 DEF EnvString, FromFile, SaysNone
<1>. QED  BY <1>1, <1>2, <1>3

\* Before the first start there is nothing to disagree with.
LEMMA StartInit == SettingsInit => StartInv
BY DEF SettingsInit, StartInv, SettingsTypeOK

\* Settings stay as they are while a process runs, and so does what it made of them.
LEMMA ConfigStays ==
  ASSUME UNCHANGED deployVars
  PROVE  Config' = Config
BY DEF deployVars, Config, EnvString, EnvBool, EnvPorts, FromFile, Mode, IfMounted

\* A Store that goes on has the accounts it wrote, in this directory and no other.
LEMMA StoredHere ==
  ASSUME NEW as \in SUBSET ValidAccounts, StoreUsers(as), UNCHANGED cfg,
         dbs \in [DOMAIN dbs -> SUBSET ValidAccounts]
  PROVE  /\ dbs' \in [DOMAIN dbs' -> SUBSET ValidAccounts]
         /\ accountsHere' = as
         /\ \A d \in DOMAIN dbs : d \in DOMAIN dbs' /\ (d # cfg.dataDir => dbs'[d] = dbs[d])
BY DEF StoreUsers, accountsHere, Accounts

\* app.go, config.go: every step of a start, and every step of a running server.
LEMMA StartStep ==
  ASSUME StartInv, [SettingsNext]_settingsVars
  PROVE  StartInv'
<1>. USE DEF StartInv
<1>1. CASE Load
  BY <1>1, ConfigIsOne, ConfigStays DEF Load, SettingsTypeOK, deployVars
<1>2. CASE StartCollectors
  BY <1>2, ConfigStays DEF StartCollectors, SettingsTypeOK, deployVars
<1>3. CASE ChooseAuth
  BY <1>3, ConfigStays DEF ChooseAuth, SettingsTypeOK, deployVars, Fatal, HasCredentials
<1>4. CASE OpenStore
  <2>1. /\ dbs' \in [DOMAIN dbs' -> SUBSET ValidAccounts]
        /\ UNCHANGED cfg => accountsHere' = accountsHere
    BY <1>4, StoredHere DEF OpenStore, SettingsTypeOK, accountsHere, Accounts, StoreUsers
  <2>. QED
    BY <1>4, <2>1, ConfigStays DEF OpenStore, SettingsTypeOK, deployVars, Fatal, HasCredentials
<1>5. CASE StoreFails
  BY <1>5 DEF StoreFails, SettingsTypeOK, deployVars, Fatal
<1>6. CASE Seed
  <2>. DEFINE admin == Account(cfg.user, cfg.password)
  <2>1. CASE admin \in ValidAccounts
    <3>1. accountsHere \cup {admin} \in SUBSET ValidAccounts
      BY <2>1 DEF accountsHere, Accounts, SettingsTypeOK
    <3>2. accountsHere' # {} /\ dbs' \in [DOMAIN dbs' -> SUBSET ValidAccounts]
      BY <1>6, <2>1, <3>1, StoredHere DEF Seed, SettingsTypeOK
    <3>. QED
      BY <1>6, <2>1, <3>2, ConfigStays DEF Seed, SettingsTypeOK, deployVars, HasCredentials
  <2>2. CASE admin \notin ValidAccounts
    BY <1>6, <2>2 DEF Seed, SettingsTypeOK, deployVars, Fatal
  <2>. QED  BY <2>1, <2>2
<1>7. CASE Manage
  <2>1. PICK as \in (SUBSET ValidAccounts) \ {{}} : StoreUsers(as)
    BY <1>7 DEF Manage
  <2>2. accountsHere' # {} /\ dbs' \in [DOMAIN dbs' -> SUBSET ValidAccounts]
    BY <1>7, <2>1, StoredHere DEF Manage, SettingsTypeOK
  <2>. QED
    BY <1>7, <2>2, ConfigStays DEF Manage, SettingsTypeOK, deployVars, HasCredentials
<1>8. CASE Stop
  BY <1>8 DEF Stop, SettingsTypeOK, deployVars, Fatal
<1>9. CASE Redeploy
  BY <1>9 DEF Redeploy, SettingsTypeOK
<1>10. CASE UNCHANGED settingsVars
  BY <1>10, ConfigStays DEF settingsVars, SettingsTypeOK, deployVars, HasCredentials, accountsHere, Accounts
<1>. QED
  BY <1>1, <1>2, <1>3, <1>4, <1>5, <1>6, <1>7, <1>8, <1>9, <1>10 DEF SettingsNext

\* Whatever settings the starts found and wherever they died, a server that answers
\* is protected as it was asked to be, and somebody can get in.
THEOREM ServerIsServedAsAsked == SettingsSpec => []ServedAsAsked
<1>1. StartInv => ServedAsAsked
  <2>1. Config.mode = Mode
    BY DEF Config
  <2>. QED  BY <2>1, ModeIsAsAsked DEF StartInv, ServedAsAsked
<1>. QED  BY <1>1, StartInit, StartStep, PTL DEF SettingsSpec

\* No start, with whatever settings and wherever it dies, changes accounts that are
\* there: the settings seed the first account of a directory and nothing after it.
THEOREM StartsKeepAccounts == SettingsSpec => AccountsOutliveSettings
<1>1. ASSUME StartInv, [SettingsNext]_settingsVars, NEW d \in DOMAIN dbs,
             dbs[d] # {}, Accounts(d)' # dbs[d]
      PROVE  startPc = "serving" /\ startPc' = "serving" /\ d = cfg.dataDir
  <2>. USE <1>1 DEF StartInv, SettingsTypeOK, Accounts
  <2>1. UNCHANGED dbs => FALSE
    BY <1>1
  <2>2. CASE OpenStore
    <3>1. accountsHere \in SUBSET ValidAccounts /\ StoreUsers(accountsHere)
      BY <2>2 DEF OpenStore, accountsHere
    <3>. QED  BY <3>1 DEF StoreUsers, accountsHere
  <2>3. CASE Seed
    BY <2>1, <2>3 DEF Seed, StoreUsers, accountsHere
  <2>4. CASE Manage
    BY <2>4 DEF Manage, StoreUsers
  <2>. QED
    BY <1>1, <2>1, <2>2, <2>3, <2>4 DEF SettingsNext, Load, StartCollectors, ChooseAuth, Fatal,
       StoreFails, Stop, Redeploy, settingsVars
<1>2. ASSUME StartInv, [SettingsNext]_settingsVars
      PROVE  [\A d \in DOMAIN dbs : (dbs[d] # {} /\ Accounts(d)' # dbs[d]) =>
                startPc = "serving" /\ startPc' = "serving" /\ d = cfg.dataDir]_settingsVars
  BY <1>1, <1>2
<1>. QED  BY <1>2, StartInit, StartStep, PTL DEF SettingsSpec, AccountsOutliveSettings

------------------------------------------------------------------------------
(* CollectionLoop *)

\* Where the loop stands in its tick: what has been collected, handed to the stores
\* and worked out.
InPhase ==
    /\ loopPc = "save" => Len(taken) = tick + 1 /\ evaluated = tick
    /\ loopPc = "evaluate" => Len(taken) = tick /\ evaluated + 1 = tick
    /\ loopPc \in {"collect", "publish", "sleep"} => Len(taken) = tick /\ evaluated = tick
    /\ alarmPc = IF loopPc = "publish" THEN "publish" ELSE "idle"

\* A snapshot of this process is being saved or in the window, never both or twice.
SavedOnce ==
    /\ since \in 0..tick
    /\ saving \subseteq (since + 1)..tick
    /\ \A i \in DOMAIN window : window[i] \in (since + 1)..tick /\ window[i] \notin saving
    /\ \A i, j \in DOMAIN window : window[i] = window[j] => i = j

\* While nothing has stalled, only the newest snapshot can still be on its way, and
\* the window runs up to it, or up to the one before, without a gap.
WithoutGap ==
    ~stalled =>
       /\ saving \subseteq {tick}
       /\ \A i \in 2..Len(window) : window[i] = window[i - 1] + 1
       /\ window # <<>> => window[Len(window)] = IF saving = {} THEN tick ELSE tick - 1
       /\ window = <<>> => tick = IF saving = {} THEN since ELSE since + 1

\* An alarm's Since starts a run of snapshots, up to the last one evaluated, all of
\* which raise it; the list shown is that of the active alarms.
AlarmRuns ==
    /\ \A g \in DOMAIN active :
          /\ active[g].since \in 1..evaluated
          /\ \A p \in active[g].since..evaluated : g \in Alarm!Firing(taken[p])
    /\ alarmPc = "idle" => last = Alarm!AsList(active)

LoopInv == LoopTypeOK /\ stalled \in BOOLEAN /\ InPhase /\ SavedOnce /\ WithoutGap /\ AlarmRuns

\* The bounds are numbers, and so is all that is counted.
LEMMA LoopNumbers ==
  ASSUME LoopTypeOK
  PROVE  /\ Window \in Nat \ {0} /\ MaxTicks \in Nat /\ MaxStarts \in Nat
         /\ Len(taken) \in 0..MaxTicks /\ tick \in Nat /\ evaluated \in Nat /\ Len(window) \in Nat
BY LoopAssumption DEF LoopTypeOK

\* memory.go:22-25: what a save leaves in the window.
LEMMA KeptIs ==
  ASSUME LoopTypeOK, NEW p \in 1..MaxTicks, window' = Mem!Kept(Append(window, p))
  PROVE  \E drop \in {0, 1} :
            /\ window' \in Seq(1..MaxTicks)
            /\ Len(window') = Len(window) + 1 - drop /\ Len(window') \in 1..Window
            /\ window'[Len(window')] = p
            /\ \A i \in 1..(Len(window') - 1) : window'[i] = window[i + drop] /\ i + drop \in 1..Len(window)
<1>. DEFINE longer == Append(window, p)
<1>0. /\ Window \in Nat \ {0} /\ window \in Seq(1..MaxTicks)
      /\ Len(window) \in Nat /\ Len(window) <= Window
  BY LoopNumbers DEF LoopTypeOK
<1>1. /\ longer \in Seq(1..MaxTicks) /\ Len(longer) = Len(window) + 1 /\ longer[Len(longer)] = p
      /\ \A i \in 1..Len(window) : longer[i] = window[i]
  BY <1>0
<1>2. CASE Len(window) = Window
  <2>1. window' = Tail(longer)
    BY <1>0, <1>1, <1>2 DEF Mem!Kept
  <2>2. /\ Tail(longer) \in Seq(1..MaxTicks) /\ Len(Tail(longer)) = Len(window)
        /\ \A i \in 1..Len(window) : Tail(longer)[i] = longer[i + 1]
    BY <1>0, <1>1, <1>2
  <2>3. /\ window'[Len(window')] = p /\ Len(window') = Len(window) + 1 - 1
        /\ \A i \in 1..(Len(window') - 1) : window'[i] = window[i + 1] /\ i + 1 \in 1..Len(window)
    BY <1>0, <1>1, <1>2, <2>1, <2>2
  <2>. QED  BY <1>0, <1>2, <2>1, <2>2, <2>3
<1>3. CASE Len(window) # Window
  <2>1. window' = longer
    BY <1>0, <1>1, <1>3 DEF Mem!Kept
  <2>2. /\ window'[Len(window')] = p /\ Len(window') = Len(window) + 1 - 0 /\ Len(window') \in 1..Window
        /\ \A i \in 1..(Len(window') - 1) : window'[i] = window[i + 0] /\ i + 0 \in 1..Len(window)
    BY <1>0, <1>1, <1>3, <2>1
  <2>. QED  BY <1>1, <2>1, <2>2
<1>. QED  BY <1>2, <1>3

\* The loop starts with an empty window and no alarm.
LEMMA LoopStarts == LoopInit => LoopInv
<1>. SUFFICES ASSUME LoopInit PROVE LoopInv
  OBVIOUS
<1>. USE DEF LoopInit
<1>1. LoopTypeOK /\ InPhase
  BY LoopAssumption DEF LoopTypeOK, InPhase, Alarm!AlarmInit
<1>2. SavedOnce /\ WithoutGap
  BY DEF SavedOnce, WithoutGap
<1>3. AlarmRuns
  BY DEF AlarmRuns, Alarm!AlarmInit, Alarm!NoAlarm, Alarm!AsList
<1>. QED  BY <1>1, <1>2, <1>3 DEF LoopInv

\* A snapshot that has just been taken changes nothing of what was worked out before.
LEMMA CollectKeeps == ASSUME LoopInv, Collect PROVE LoopInv'
<1>. USE DEF LoopInv
<1>1. PICK s \in Shots : taken' = Append(taken, s)
  BY DEF Collect
<1>2. /\ taken' \in Seq(Shots) /\ Len(taken') = Len(taken) + 1
      /\ \A p \in 1..Len(taken) : taken'[p] = taken[p]
  BY <1>1 DEF LoopTypeOK
<1>3. LoopTypeOK' /\ InPhase'
  BY <1>2, LoopNumbers DEF Collect, LoopTypeOK, InPhase, memVars, alarmVars, lifeVars
<1>4. SavedOnce' /\ WithoutGap'
  BY DEF Collect, SavedOnce, WithoutGap, memVars, lifeVars
<1>5. AlarmRuns'
  BY <1>2 DEF Collect, AlarmRuns, alarmVars, LoopTypeOK
<1>. QED  BY <1>3, <1>4, <1>5 DEF Collect

\* A tick hands its snapshot to the saving goroutines.
LEMMA SpawnKeeps == ASSUME LoopInv, SpawnSaves PROVE LoopInv'
<1>. USE DEF LoopInv, SpawnSaves
<1>. DEFINE t == Len(taken)
<1>0. /\ t = tick + 1 /\ tick' = t /\ saving' = saving \cup {t} /\ tick \in Nat /\ t \in 1..MaxTicks
      /\ UNCHANGED <<window, since>>
  BY LoopNumbers DEF InPhase, lifeVars
<1>1. LoopTypeOK' /\ InPhase'
  <2>1. (saving \subseteq 1..tick /\ sending \subseteq 1..tick)'
    BY <1>0 DEF LoopTypeOK
  <2>. QED  BY <1>0, <2>1, LoopNumbers DEF LoopTypeOK, InPhase, alarmVars, lifeVars
<1>2. SavedOnce'
  BY <1>0 DEF SavedOnce
<1>3. WithoutGap'
  <2>1. stalled' = (stalled \/ saving # {})
    OBVIOUS
  <2>. HIDE DEF SpawnSaves
  <2>2. SavedOnce /\ WithoutGap /\ tick \in Nat /\ since \in Nat
    BY <1>0 DEF SavedOnce
  <2>. HIDE DEF LoopInv, SpawnSaves, t
  <2>3. CASE saving = {}
    <3>1. saving' = {tick'} /\ tick' = tick + 1
      BY <1>0, <2>3
    <3>2. ~stalled' => ~stalled
      BY <2>1, <2>3
    <3>. QED  BY <1>0, <2>2, <2>3, <3>1, <3>2 DEF WithoutGap
  <2>4. CASE saving # {}
    BY <2>1, <2>4 DEF WithoutGap
  <2>. QED  BY <2>3, <2>4
<1>4. AlarmRuns'
  BY DEF AlarmRuns, alarmVars
<1>. QED  BY <1>1, <1>2, <1>3, <1>4 DEF LoopTypeOK

\* The alarms of a tick are those of its snapshot.
LEMMA EvaluateKeeps == ASSUME LoopInv, Evaluate PROVE LoopInv'
<1>. USE DEF LoopInv, Evaluate
<1>1. LoopTypeOK' /\ InPhase'
  BY DEF LoopTypeOK, InPhase, Alarm!Evaluate, memVars, lifeVars
<1>2. SavedOnce' /\ WithoutGap'
  BY DEF SavedOnce, WithoutGap, memVars, lifeVars
<1>3. /\ evaluated' = Len(taken) /\ evaluated' = evaluated + 1
      /\ active' = Alarm!Raised(taken[evaluated'], active, evaluated')
  BY DEF InPhase, LoopTypeOK, Alarm!Evaluate
<1>4. ASSUME NEW g \in DOMAIN active'
      PROVE  /\ active'[g].since \in 1..evaluated'
             /\ \A p \in active'[g].since..evaluated' : g \in Alarm!Firing(taken[p])
  <2>1. /\ g \in Alarm!Firing(taken[evaluated'])
        /\ active'[g].since = IF g \in DOMAIN active THEN active[g].since ELSE evaluated'
    BY <1>3, <1>4 DEF Alarm!Raised
  <2>. QED  BY <1>3, <2>1 DEF AlarmRuns, LoopTypeOK
<1>5. AlarmRuns'
  BY <1>4 DEF AlarmRuns, Alarm!Evaluate
<1>. QED  BY <1>1, <1>2, <1>5

\* memory.go: a save appends its snapshot and drops the oldest when the window is full.
LEMMA SaveKeeps == ASSUME LoopInv, NEW p \in saving, SaveRuns(p) PROVE LoopInv'
<1>. USE DEF LoopInv, SaveRuns
<1>1. /\ window \in Seq(1..MaxTicks) /\ Len(window) <= Window
      /\ p \in 1..MaxTicks /\ p \in (since + 1)..tick /\ tick \in Nat /\ since \in Nat
  BY LoopNumbers DEF LoopTypeOK, SavedOnce
<1>2. PICK drop \in {0, 1} :
         /\ window' \in Seq(1..MaxTicks)
         /\ Len(window') = Len(window) + 1 - drop /\ Len(window') \in 1..Window
         /\ window'[Len(window')] = p
         /\ \A i \in 1..(Len(window') - 1) : window'[i] = window[i + drop] /\ i + drop \in 1..Len(window)
  <2>1. LoopTypeOK /\ window' = Mem!Kept(Append(window, p))
    OBVIOUS
  <2>. QED  BY ONLY <1>1, <2>1, KeptIs
<1>3. LoopTypeOK' /\ InPhase' /\ AlarmRuns'
  BY <1>2 DEF LoopTypeOK, InPhase, AlarmRuns, alarmVars, lifeVars
<1>4. UNCHANGED <<tick, since, stalled>> /\ saving' = saving \ {p}
  BY DEF lifeVars
<1>5. DOMAIN window = 1..Len(window) /\ DOMAIN window' = 1..Len(window')
  BY <1>1, <1>2
<1>. HIDE DEF SaveRuns, LoopInv
<1>6. SavedOnce
  BY DEF LoopInv
<1>7. SavedOnce'
  <2>1. ASSUME NEW i \in DOMAIN window'
        PROVE  /\ window'[i] \in (since + 1)..tick /\ window'[i] \notin saving'
               /\ i # Len(window') => window'[i] # p
    <3>1. CASE i = Len(window')
      BY <1>1, <1>2, <1>4, <3>1
    <3>2. CASE i # Len(window')
      <4>1. i \in 1..(Len(window') - 1)
        BY <1>2, <1>5, <3>2
      <4>2. i + drop \in DOMAIN window /\ window'[i] = window[i + drop]
        BY <1>2, <1>5, <4>1
      <4>. QED  BY <1>4, <1>6, <4>2 DEF SavedOnce
    <3>. QED  BY <3>1, <3>2
  <2>2. ASSUME NEW i \in DOMAIN window', NEW j \in DOMAIN window', window'[i] = window'[j]
        PROVE  i = j
    <3>1. CASE i = Len(window') \/ j = Len(window')
      BY <1>2, <2>1, <2>2, <3>1
    <3>2. CASE i # Len(window') /\ j # Len(window')
      <4>1. i \in 1..(Len(window') - 1) /\ j \in 1..(Len(window') - 1)
        BY <1>2, <1>5, <3>2
      <4>2. /\ i + drop \in DOMAIN window /\ j + drop \in DOMAIN window
            /\ window[i + drop] = window[j + drop]
        BY <1>2, <1>5, <2>2, <4>1
      <4>3. i + drop = j + drop
        BY <1>6, <4>2 DEF SavedOnce
      <4>. QED  BY <4>1, <4>3
    <3>. QED  BY <3>1, <3>2
  <2>3. saving' \subseteq (since + 1)..tick /\ since \in 0..tick
    BY <1>4, <1>6 DEF SavedOnce
  <2>. QED  BY <1>4, <2>1, <2>2, <2>3 DEF SavedOnce
<1>8. WithoutGap'
  <2>. SUFFICES ASSUME ~stalled PROVE WithoutGap'
    BY <1>4 DEF WithoutGap
  <2>1. p = tick /\ saving' = {} /\ WithoutGap /\ saving # {}
    BY <1>4 DEF LoopInv, WithoutGap
  <2>2. ASSUME NEW i \in 2..Len(window') PROVE window'[i] = window'[i - 1] + 1
    <3>1. CASE i = Len(window')
      <4>1. i - 1 + drop = Len(window)
        BY <1>1, <1>2, <1>4, <3>1
      <4>2. window'[i - 1] = window[Len(window)] /\ window # <<>>
        BY <1>1, <1>2, <2>2, <3>1, <4>1
      <4>. QED  BY <1>1, <1>2, <2>1, <3>1, <4>2 DEF WithoutGap
    <3>2. CASE i # Len(window')
      <4>1. /\ window'[i] = window[i + drop] /\ window'[i - 1] = window[i - 1 + drop]
            /\ i + drop \in 2..Len(window)
        BY <1>1, <1>2, <1>4, <2>2, <3>2
      <4>2. window[i + drop] = window[i + drop - 1] + 1
        <5>. DEFINE k == i + drop
        <5>1. k \in 2..Len(window) => window[k] = window[k - 1] + 1
          BY <2>1 DEF WithoutGap
        <5>2. i + drop - 1 = k - 1
          BY <2>2
        <5>. QED  BY <4>1, <5>1, <5>2
      <4>3. i + drop - 1 = i - 1 + drop
        BY <1>4, <2>2
      <4>. QED  BY <4>1, <4>2, <4>3
    <3>. QED  BY <3>1, <3>2
  <2>. QED  BY <1>1, <1>2, <1>4, <2>1, <2>2 DEF WithoutGap
<1>. QED  BY <1>3, <1>4, <1>7, <1>8 DEF LoopInv

\* A new process starts over with an empty window.
LEMMA RestartKeeps == ASSUME LoopInv, RestartLoop PROVE LoopInv'
<1>. USE DEF RestartLoop
<1>1. LoopTypeOK' /\ InPhase'
  BY LoopNumbers DEF LoopInv, LoopTypeOK, InPhase
<1>2. SavedOnce' /\ WithoutGap'
  BY LoopNumbers DEF LoopInv, SavedOnce, WithoutGap
<1>3. AlarmRuns'
  BY DEF AlarmRuns, Alarm!NoAlarm, Alarm!AsList
<1>. QED  BY <1>1, <1>2, <1>3 DEF LoopInv

\* Every step of the loop, its saves and its restarts.
LEMMA LoopKeeps == ASSUME LoopInv, [LoopNext]_loopVars PROVE LoopInv'
<1>1. CASE Publish
  BY <1>1 DEF Publish, Alarm!Publish, LoopInv, LoopTypeOK, InPhase, SavedOnce, WithoutGap, AlarmRuns,
     memVars, lifeVars
<1>2. CASE Sleep
  BY <1>2 DEF Sleep, LoopInv, LoopTypeOK, InPhase, SavedOnce, WithoutGap, AlarmRuns,
     memVars, alarmVars, lifeVars
<1>3. CASE \E p \in sending : InfluxAnswers(p)
  BY <1>3 DEF InfluxAnswers, LoopInv, LoopTypeOK, InPhase, SavedOnce, WithoutGap, AlarmRuns,
     memVars, alarmVars, lifeVars
<1>4. CASE UNCHANGED loopVars
  BY <1>4 DEF loopVars, LoopInv, LoopTypeOK, InPhase, SavedOnce, WithoutGap, AlarmRuns,
     memVars, alarmVars, lifeVars
<1>. QED
  BY <1>1, <1>2, <1>3, <1>4, CollectKeeps, SpawnKeeps, EvaluateKeeps, SaveKeeps, RestartKeeps
     DEF LoopNext, LoopStep

\* The window is the newest snapshots of this process, none twice and, unless a save
\* stalls, none missing; and it is never more than one ahead of the alarms.
THEOREM WindowInStep == LoopSpec => []StatsInStep
<1>1. LoopInv => StatsInStep
  BY DEF LoopInv, StatsInStep, LoopTypeOK, InPhase, SavedOnce, WithoutGap, Last
<1>. QED  BY <1>1, LoopStarts, LoopKeeps, PTL DEF LoopSpec

\* What the alarm page says since when, and what the charts show, are the same story
\* however late the saves run.
THEOREM AlarmsTellTheWindow == LoopSpec => []AlarmsAgreeWithWindow
<1>1. LoopInv => AlarmsAgreeWithWindow
  <2>. SUFFICES ASSUME LoopInv, NEW a \in last, NEW i \in DOMAIN window,
                       a.since <= window[i], window[i] <= evaluated, alarmPc = "idle"
                PROVE  a.id \in Alarm!Firing(taken[window[i]])
    BY DEF AlarmsAgreeWithWindow
  <2>1. PICK g \in DOMAIN active : a.id = g /\ a.since = active[g].since
    BY DEF LoopInv, AlarmRuns, Alarm!AsList
  <2>2. window[i] \in a.since..evaluated
    BY <2>1, LoopNumbers DEF LoopInv, AlarmRuns, LoopTypeOK
  <2>. QED  BY <2>1, <2>2 DEF LoopInv, AlarmRuns
<1>. QED  BY <1>1, LoopStarts, LoopKeeps, PTL DEF LoopSpec

=============================================================================
