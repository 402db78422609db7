---------------------------- MODULE ConfigManager ----------------------------
(***************************************************************************)
(* src/config.rs: the ConfigManager, and the start of the program in       *)
(* src/main.rs, which reads the same file twice: Config::from_file reads   *)
(* the copy that is validated and that everything is built from,           *)
(* ConfigManager::load the copy that the manager keeps.  Once the program  *)
(* runs, the holders of the manager load the file again, and change single *)
(* routers and rules.                                                      *)
(*                                                                         *)
(* load reads the file, parses what it read, and waits for the lock of the *)
(* configuration: other loads and the operations under the lock, each one  *)
(* step, come in between.  The file belongs to the administrator, who may  *)
(* write it at any time and leave it half written (Unreadable: it cannot   *)
(* be read or does not parse).                                             *)
(*                                                                         *)
(* A configuration is one of Routing with two more fields: ports, whether  *)
(* both ports to bind differ from zero, and redis, whether there is an url.*)
(***************************************************************************)
EXTENDS Routing

CONSTANTS
  Main,             \* the task of main
  Callers,          \* the tasks that hold the manager once the program runs
  Files,            \* the configurations the administrator may write
  Unreadable,       \* any other content of the file
  EditBound,        \* how often the file is written
  Rules,            \* the rules given to update_rule
  RouterUpdates     \* what is given to update_router: [name, plugin]

ASSUME EditBoundAssumption == EditBound \in Nat
ASSUME UnreadableAssumption == Unreadable \notin Files
ASSUME MainAssumption == Main \notin Callers
ASSUME FilesAssumption ==
  \A c \in Files : /\ DOMAIN c = {"ports", "redis", "routers", "rules"}
                   /\ c.rules \in Seq({c.rules[i] : i \in DOMAIN c.rules})

Loaders == Callers \cup {Main}

VARIABLES
  file,             \* environment: what the file holds
  version,          \* environment: how often it has been written
  config,           \* config of the manager
  config_version,   \* history: the version that config was loaded from
  loading,          \* per task: what its load has read and not stored yet
  main,             \* where main is
  startup,          \* config of main: the first copy
  served            \* what RouterManager was initialized with

manager == <<config, config_version, loading>>
program == <<main, startup, served>>
vars == <<file, version, manager, program>>

(* Config::default *)
Default == [ports |-> TRUE, redis |-> TRUE, routers |-> <<>>, rules |-> <<>>]

(* Config::validate *)
Valid(c) ==
  /\ c.ports
  /\ c.redis
  /\ \A i \in DOMAIN c.rules : /\ c.rules[i].name # ""
                               /\ c.rules[i].backends # <<>>
                               /\ c.rules[i].router \in DOMAIN c.routers

Idle == [reading |-> FALSE]
Read(content) ==
  [reading |-> TRUE, content |-> content, version |-> version, overtaken |-> FALSE]

-----------------------------------------------------------------------------
(* main *)

Goto(from, to) == main = from /\ main' = to

FromFile ==
  /\ \/ file # Unreadable /\ startup' = file /\ Goto("from_file", "validate")
     \/ file = Unreadable /\ UNCHANGED startup /\ Goto("from_file", "failed")
  /\ UNCHANGED <<file, version, manager, served>>

(* With --validate the program is done. *)
Validate ==
  /\ \/ Valid(startup) /\ \E to \in {"load", "done"} : Goto("validate", to)
     \/ ~Valid(startup) /\ Goto("validate", "failed")
  /\ UNCHANGED <<file, version, manager, startup, served>>

(* MUTANT: the router manager gets what the configuration manager holds. *)
InitializeFromStored ==
  /\ \/ Buildable(config) /\ served' = config /\ Goto("initialize", "start")
     \/ ~Buildable(config) /\ UNCHANGED served /\ Goto("initialize", "failed")
  /\ UNCHANGED <<file, version, manager, startup>>

(* The backends are added to the health checker, which never refuses one.  *)
Initialize ==
  /\ \/ Buildable(startup) /\ served' = startup /\ Goto("initialize", "start")
     \/ ~Buildable(startup) /\ UNCHANGED served /\ Goto("initialize", "failed")
  /\ UNCHANGED <<file, version, manager, startup>>

(* ProxyServer::start, which may fail to bind a port. *)
StartServer ==
  /\ \E to \in {"running", "failed"} : Goto("start", to)
  /\ UNCHANGED <<file, version, manager, startup, served>>

-----------------------------------------------------------------------------
(* load, which reload calls *)

MayLoad(t) == IF t = Main THEN main = "load" ELSE main = "running"

(* What becomes of main when a load returns. *)
Returned(t, to) ==
  /\ main' = IF t = Main THEN to ELSE main
  /\ UNCHANGED <<startup, served>>

(* MUTANT: a load may take over what another one has read. *)
ReadShared(t) ==
  /\ MayLoad(t)
  /\ ~loading[t].reading
  /\ \/ loading' = [loading EXCEPT ![t] = Read(file)]
     \/ \E u \in Loaders :
          /\ loading[u].reading
          /\ loading' = [loading EXCEPT ![t] = [loading[u] EXCEPT !.overtaken = FALSE]]
  /\ UNCHANGED <<file, version, config, config_version, program>>

ReadFile(t) ==
  /\ MayLoad(t)
  /\ ~loading[t].reading
  /\ loading' = [loading EXCEPT ![t] = Read(file)]
  /\ UNCHANGED <<file, version, config, config_version, program>>

(* MUTANT: what does not parse is the default configuration. *)
LoadDefaults(t) ==
  /\ loading[t].reading /\ loading[t].content = Unreadable
  /\ config' = Default
  /\ loading' = [loading EXCEPT ![t] = Idle]
  /\ Returned(t, "initialize")
  /\ UNCHANGED <<file, version, config_version>>

LoadFails(t) ==
  /\ loading[t].reading /\ loading[t].content = Unreadable
  /\ loading' = [loading EXCEPT ![t] = Idle]
  /\ Returned(t, "failed")
  /\ UNCHANGED <<file, version, config, config_version>>

Overtaken(t) ==
  [u \in Loaders |-> CASE u = t -> Idle
                       [] u # t /\ loading[u].reading ->
                            [loading[u] EXCEPT !.overtaken = TRUE]
                       [] OTHER -> loading[u]]

(* Nothing is validated here. *)
Store(t) ==
  /\ loading[t].reading /\ loading[t].content # Unreadable
  /\ config' = loading[t].content
  /\ config_version' = loading[t].version
  /\ loading' = Overtaken(t)
  /\ Returned(t, "initialize")
  /\ UNCHANGED <<file, version>>

-----------------------------------------------------------------------------
(* update_router, update_rule and remove_rule, each under the write lock *)

Change(new) ==
  /\ main = "running"
  /\ config' = new
  /\ UNCHANGED <<file, version, config_version, loading, program>>

UpdateRouter(u) ==
  Change([config EXCEPT !.routers =
            [n \in DOMAIN @ \cup {u.name} |-> IF n = u.name THEN u.plugin ELSE @[n]]])

Named(rs, n) == {i \in DOMAIN rs : rs[i].name = n}
Precedes(rs, a, b) == \E i \in Named(rs, a) : \A j \in Named(rs, b) : i < j

FirstNamed(rs, n) ==
  CHOOSE i \in Named(rs, n) : \A j \in Named(rs, n) : i <= j

(* What retain leaves of rs, and the order it leaves it in. *)
Without(rs, n) ==
  LET kept[i \in 0 .. Len(rs)] ==
        IF i = 0 THEN <<>>
        ELSE IF rs[i].name = n THEN kept[i - 1] ELSE Append(kept[i - 1], rs[i])
  IN  kept[Len(rs)]

(* MUTANT: the rule is taken out and added again. *)
UpdateMovesRule(r) ==
  Change([config EXCEPT !.rules = Append(Without(@, r.name), r)])

(* The first rule of the name is replaced, or the rule added at the end. *)
UpdateRule(r) ==
  Change([config EXCEPT !.rules = IF Named(@, r.name) # {}
                                    THEN [@ EXCEPT ![FirstNamed(@, r.name)] = r]
                                    ELSE Append(@, r)])

RemoveRule(n) == Change([config EXCEPT !.rules = Without(@, n)])

-----------------------------------------------------------------------------
(* Environment: the administrator writes the file. *)
Edit ==
  /\ version < EditBound
  /\ version' = version + 1
  /\ file' \in Files \cup {Unreadable}
  /\ UNCHANGED <<manager, program>>

Init ==
  /\ file \in Files \cup {Unreadable}
  /\ version = 0
  /\ config = Default /\ config_version = 0
  /\ loading = [t \in Loaders |-> Idle]
  /\ main = "from_file"
  /\ startup = Default /\ served = EmptyConfig

StartUp == FromFile \/ Validate \/ Initialize \/ StartServer
Load(t) == ReadFile(t) \/ LoadFails(t) \/ Store(t)

Next ==
  \/ StartUp
  \/ \E t \in Loaders : Load(t)
  \/ \E u \in RouterUpdates : UpdateRouter(u)
  \/ \E r \in Rules : UpdateRule(r) \/ RemoveRule(r.name)
  \/ Edit

(* The runtime polls main, and runs every load that has begun to its end;  *)
(* nothing makes a caller begin one.                                       *)
Fairness ==
  /\ WF_vars(StartUp)
  /\ WF_vars(ReadFile(Main))
  /\ \A t \in Loaders : WF_vars(LoadFails(t) \/ Store(t))

Spec == Init /\ [][Next]_vars /\ Fairness

-----------------------------------------------------------------------------
(* Properties *)

Stages == {"from_file", "validate", "load", "initialize", "start", "running",
           "failed", "done"}

Loads ==
  [reading : {TRUE}, content : Files \cup {Unreadable}, version : 0 .. EditBound,
   overtaken : BOOLEAN]

TypeOK ==
  /\ file \in Files \cup {Unreadable}
  /\ {version, config_version} \subseteq 0 .. EditBound
  /\ loading \in [Loaders -> {Idle} \cup Loads]
  /\ main \in Stages
  /\ startup \in Files \cup {Default}
  /\ served \in Files \cup {EmptyConfig}

(***************************************************************************)
(* Whatever the administrator writes between the two reads of the file,    *)
(* the program that runs serves a configuration in which every rule has a  *)
(* backend and a router, and every router was built: no request is         *)
(* answered "Router not found" before the first reload.                    *)
(***************************************************************************)
EveryServedRuleHasARouter ==
  main \in {"start", "running"} =>
    /\ Buildable(served)
    /\ \A i \in DOMAIN served.rules : /\ served.rules[i].backends # <<>>
                                      /\ served.rules[i].router \in Creatable(served)

(* A step that stores a loaded configuration in place of the one there is. *)
Stores == \E t \in Loaders : Store(t)

(***************************************************************************)
(* Requests follow the first rule that matches, so the order of the rules  *)
(* is their priority; a second rule of one name would never be found by it *)
(* and overwrite the first one's backends in the cache.  However rules and *)
(* routers are changed one at a time, and whatever a load reads that       *)
(* fails, all rules but one stay, in their order, no router gets lost, and *)
(* no name comes twice that did not before.                                *)
(***************************************************************************)
Unique(rs) == \A i, j \in DOMAIN rs : rs[i].name = rs[j].name => i = j

ChangesStayLocal ==
  [][~Stores =>
       /\ \A a, b \in RuleNames(config.rules) \ RuleNames(config'.rules) : a = b
       /\ DOMAIN config.routers \subseteq DOMAIN config'.routers
       /\ \A a, b \in RuleNames(config.rules) \cap RuleNames(config'.rules) :
            Precedes(config.rules, a, b) <=> Precedes(config'.rules, a, b)
       /\ Unique(config.rules) => Unique(config'.rules)]_vars

(***************************************************************************)
(* The manager goes back to an older version of the file only when a load  *)
(* stored while another one had read the file and not stored: loads that   *)
(* do not overlap store in the order in which they read.                   *)
(***************************************************************************)
OlderOnlyWhenOvertaken ==
  \A t \in Loaders : loading[t].reading /\ ~loading[t].overtaken =>
                       config_version <= loading[t].version

(***************************************************************************)
(* main reads the file twice and validates the first copy only.  The copy  *)
(* the manager holds when the server starts is the validated one that is   *)
(* served, unless the file has been written since the program began.       *)
(***************************************************************************)
CopiesDifferOnlyByEdit ==
  main \in {"initialize", "start"} /\ config_version = 0 =>
    config = startup /\ Valid(config)

=============================================================================
