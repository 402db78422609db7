------------------------- MODULE ConfigManagerProofs -------------------------
(***************************************************************************)
(* Proofs about ConfigManager, for any configurations, callers, changes    *)
(* and number of edits.                                                    *)
(***************************************************************************)
EXTENDS ConfigManager, RoutingProofs

(* The copy of main is what a file said, has been validated, and is served. *)
ServedInv ==
  /\ main \in {"validate", "load", "initialize", "start", "running"} => startup \in Files
  /\ main \in {"load", "initialize", "start", "running"} => Valid(startup)
  /\ main \in {"start", "running"} => served = startup /\ Buildable(served)

(* Nothing is newer than the file. *)
VersionInv ==
  /\ config_version <= version
  /\ \A t \in Loaders : loading[t].reading => loading[t].version <= version

(* main waits for its load. *)
MainInv == loading[Main].reading => main = "load"

IInv == TypeOK /\ ServedInv /\ MainInv /\ VersionInv /\ OlderOnlyWhenOvertaken

(* A load in progress is one of Loads. *)
LEMMA ReadingIsALoad ==
  ASSUME TypeOK, NEW t \in Loaders
  PROVE  /\ loading[t].reading => loading[t] \in Loads
         /\ ~loading[t].reading => loading[t] = Idle
         /\ loading[t].reading \in BOOLEAN
<1>1. loading[t] \in {Idle} \cup Loads
  BY DEF TypeOK
<1>2. CASE loading[t] = Idle
  BY <1>2 DEF Idle
<1>3. CASE loading[t] \in Loads
  BY <1>3 DEF Loads
<1> QED
  BY <1>1, <1>2, <1>3

(* What Overtaken does to each load. *)
LEMMA OvertakenLoads ==
  ASSUME TypeOK, NEW t \in Loaders
  PROVE  /\ Overtaken(t) \in [Loaders -> {Idle} \cup Loads]
         /\ \A u \in Loaders : Overtaken(t)[u].reading =>
              /\ loading[u].reading
              /\ Overtaken(t)[u].overtaken
              /\ Overtaken(t)[u].version = loading[u].version
<1> SUFFICES ASSUME NEW u \in Loaders
             PROVE  /\ Overtaken(t)[u] \in {Idle} \cup Loads
                    /\ Overtaken(t)[u].reading =>
                         /\ loading[u].reading
                         /\ Overtaken(t)[u].overtaken
                         /\ Overtaken(t)[u].version = loading[u].version
  BY DEF Overtaken
<1>1. CASE u = t
  BY <1>1 DEF Overtaken, Idle
<1>2. CASE u # t /\ loading[u].reading
  <2>1. Overtaken(t)[u] = [loading[u] EXCEPT !.overtaken = TRUE]
    BY <1>2 DEF Overtaken
  <2>2. loading[u] \in Loads
    BY <1>2, ReadingIsALoad
  <2> QED
    BY <1>2, <2>1, <2>2 DEF Loads
<1>3. CASE u # t /\ ~loading[u].reading
  <2>1. Overtaken(t)[u] = Idle
    BY <1>3, ReadingIsALoad DEF Overtaken
  <2> QED
    BY <2>1 DEF Idle
<1> QED
  BY <1>1, <1>2, <1>3

LEMMA InitHolds == Init => IInv
BY EditBoundAssumption
   DEF Init, IInv, TypeOK, ServedInv, MainInv, VersionInv, Loaders, OlderOnlyWhenOvertaken, Idle, Stages

(* A step of main that loads nothing. *)
LEMMA StartUpKeepsIInv == IInv /\ StartUp => IInv'
<1> SUFFICES ASSUME IInv, StartUp PROVE IInv'
  OBVIOUS
<1>1. UNCHANGED <<file, version, config, config_version, loading>>
  BY DEF StartUp, FromFile, Validate, Initialize, StartServer, manager
<1>2. TypeOK'
  <2>1. main' \in Stages
    BY DEF StartUp, FromFile, Validate, Initialize, StartServer, Goto, Stages
  <2>2. startup' \in Files \cup {Default}
    BY DEF StartUp, FromFile, Validate, Initialize, StartServer, IInv, TypeOK
  <2>3. served' \in Files \cup {EmptyConfig}
    <3>1. CASE Initialize
      <4>1. main = "initialize" /\ served' \in {served, startup}
        BY <3>1 DEF Initialize, Goto
      <4>2. startup \in Files
        BY <4>1 DEF IInv, ServedInv
      <4> QED
        BY <4>1, <4>2 DEF IInv, TypeOK
    <3>2. CASE FromFile \/ Validate \/ StartServer
      BY <3>2 DEF FromFile, Validate, StartServer, IInv, TypeOK
    <3> QED
      BY <3>1, <3>2 DEF StartUp
  <2> QED
    BY <1>1, <2>1, <2>2, <2>3 DEF IInv, TypeOK
<1>3. ServedInv'
  <2>1. CASE FromFile
    BY <2>1 DEF FromFile, Goto, ServedInv, IInv, TypeOK
  <2>2. CASE Validate
    BY <2>2 DEF Validate, Goto, ServedInv, Valid, IInv
  <2>3. CASE Initialize
    BY <2>3 DEF Initialize, Goto, IInv, ServedInv, Valid, Buildable, Creatable
  <2>4. CASE StartServer
    BY <2>4 DEF StartServer, Goto, IInv, ServedInv, Valid, Buildable, Creatable
  <2> QED
    BY <2>1, <2>2, <2>3, <2>4 DEF StartUp
<1>4. VersionInv' /\ OlderOnlyWhenOvertaken'
  BY <1>1 DEF IInv, VersionInv, OlderOnlyWhenOvertaken
<1>5. MainInv'
  BY <1>1 DEF StartUp, FromFile, Validate, Initialize, StartServer, Goto, IInv, MainInv
<1> QED
  BY <1>2, <1>3, <1>4, <1>5 DEF IInv

(* main gets on with what it has, and only from where it loads. *)
LEMMA ReturnKeepsServed ==
  ASSUME IInv, NEW t \in Loaders, NEW to \in {"initialize", "failed"},
         t = Main => main = "load", Returned(t, to)
  PROVE  ServedInv' /\ main' \in Stages /\ UNCHANGED <<startup, served>>
<1>1. UNCHANGED <<startup, served>>
  BY DEF Returned
<1>2. CASE t = Main
  BY <1>1, <1>2 DEF Returned, IInv, ServedInv, Valid, Stages
<1>3. CASE t # Main
  <2>1. main' = main
    BY <1>3 DEF Returned
  <2> QED
    BY <1>1, <2>1 DEF IInv, ServedInv, TypeOK, Valid, Buildable, Creatable
<1> QED
  BY <1>1, <1>2, <1>3

LEMMA ReadFileKeepsIInv ==
  ASSUME IInv, NEW t \in Loaders, ReadFile(t)
  PROVE  IInv'
<1>1. UNCHANGED <<file, version, config, config_version, main, startup, served>>
  BY DEF ReadFile, program
<1>2. loading' = [loading EXCEPT ![t] = Read(file)] /\ loading \in [Loaders -> {Idle} \cup Loads]
  BY DEF ReadFile, IInv, TypeOK
<1>3. Read(file) \in Loads /\ Read(file).version = version
  BY DEF IInv, TypeOK, Read, Loads
<1>4. TypeOK'
  BY <1>1, <1>2, <1>3 DEF IInv, TypeOK
<1>5. ServedInv'
  BY <1>1 DEF IInv, ServedInv, Valid, Buildable, Creatable
<1>6. config_version \in Nat /\ version \in Nat
  BY EditBoundAssumption DEF IInv, TypeOK
<1>7. VersionInv' /\ OlderOnlyWhenOvertaken'
  <2> SUFFICES ASSUME NEW u \in Loaders
               PROVE  /\ loading'[u].reading => loading'[u].version <= version
                      /\ loading'[u].reading /\ ~loading'[u].overtaken =>
                           config_version <= loading'[u].version
    BY <1>1 DEF IInv, VersionInv, OlderOnlyWhenOvertaken
  <2>1. CASE u = t
    BY <2>1, <1>2, <1>3, <1>6 DEF IInv, VersionInv
  <2>2. CASE u # t
    BY <2>2, <1>2 DEF IInv, VersionInv, OlderOnlyWhenOvertaken
  <2> QED
    BY <2>1, <2>2
<1>8. MainInv'
  BY <1>1, <1>2 DEF ReadFile, MayLoad, IInv, MainInv, Loaders
<1> QED
  BY <1>4, <1>5, <1>7, <1>8 DEF IInv

LEMMA LoadFailsKeepsIInv ==
  ASSUME IInv, NEW t \in Loaders, LoadFails(t)
  PROVE  IInv'
<1>1. UNCHANGED <<file, version, config, config_version>> /\ Returned(t, "failed")
  BY DEF LoadFails
<1>2. ServedInv' /\ main' \in Stages /\ UNCHANGED <<startup, served>>
  <2>1. t = Main => main = "load"
    BY DEF LoadFails, IInv, MainInv
  <2> QED
    BY <1>1, <2>1, ReturnKeepsServed
<1>3. loading' = [loading EXCEPT ![t] = Idle] /\ loading \in [Loaders -> {Idle} \cup Loads]
  BY DEF LoadFails, IInv, TypeOK
<1>4. TypeOK'
  BY <1>1, <1>2, <1>3 DEF IInv, TypeOK
<1>5. \A u \in Loaders : loading'[u].reading => loading'[u] = loading[u]
  BY <1>3 DEF Idle
<1>6. VersionInv' /\ OlderOnlyWhenOvertaken'
  BY <1>1, <1>5 DEF IInv, VersionInv, OlderOnlyWhenOvertaken
<1>7. MainInv'
  BY <1>1, <1>3 DEF Returned, Idle, IInv, MainInv, Loaders
<1> QED
  BY <1>2, <1>4, <1>6, <1>7 DEF IInv

LEMMA StoreKeepsIInv ==
  ASSUME IInv, NEW t \in Loaders, Store(t)
  PROVE  IInv'
<1>1. /\ UNCHANGED <<file, version>> /\ Returned(t, "initialize")
      /\ config_version' = loading[t].version /\ loading' = Overtaken(t)
      /\ loading[t].reading
  BY DEF Store
<1>2. ServedInv' /\ main' \in Stages /\ UNCHANGED <<startup, served>>
  <2>1. t = Main => main = "load"
    BY DEF Store, IInv, MainInv
  <2> QED
    BY <1>1, <2>1, ReturnKeepsServed
<1>3. loading[t] \in Loads
  BY <1>1, ReadingIsALoad DEF IInv
<1>4. config_version' \in 0 .. EditBound /\ config_version' <= version
  BY <1>1, <1>3 DEF IInv, VersionInv, Loads
<1>5. loading' \in [Loaders -> {Idle} \cup Loads]
  BY <1>1, OvertakenLoads DEF IInv
<1>6. TypeOK'
  BY <1>1, <1>2, <1>4, <1>5 DEF IInv, TypeOK
<1>7. \A u \in Loaders : loading'[u].reading =>
        /\ loading[u].reading /\ loading'[u].overtaken
        /\ loading'[u].version = loading[u].version
  BY <1>1, OvertakenLoads DEF IInv
<1>8. VersionInv' /\ OlderOnlyWhenOvertaken'
  BY <1>1, <1>4, <1>7 DEF IInv, VersionInv, OlderOnlyWhenOvertaken
<1>9. MainInv'
  <2>1. CASE t = Main
    BY <1>1, <2>1 DEF Overtaken, Idle, MainInv, Loaders
  <2>2. CASE t # Main
    BY <1>1, <1>7, <2>2 DEF Returned, IInv, MainInv, Loaders
  <2> QED
    BY <2>1, <2>2
<1> QED
  BY <1>2, <1>6, <1>8, <1>9 DEF IInv

(* Whatever changes neither the loads nor main keeps the invariant. *)
LEMMA OthersKeepIInv ==
  ASSUME IInv, UNCHANGED <<config_version, loading, program>>,
         \/ UNCHANGED <<file, version>>
         \/ /\ version < EditBound /\ version' = version + 1
            /\ file' \in Files \cup {Unreadable}
  PROVE  IInv'
<1>1. UNCHANGED <<main, startup, served>>
  BY DEF program
<1>2. TypeOK' /\ version' >= version
  BY <1>1, EditBoundAssumption DEF IInv, TypeOK
<1>3. ServedInv' /\ MainInv'
  BY <1>1 DEF IInv, ServedInv, MainInv, Valid, Buildable, Creatable
<1>4. \A t \in Loaders : loading[t].reading => loading[t].version \in Nat
  <2> SUFFICES ASSUME NEW t \in Loaders, loading[t].reading
               PROVE  loading[t].version \in 0 .. EditBound
    BY EditBoundAssumption
  <2>1. loading[t] \in Loads
    BY ReadingIsALoad DEF IInv
  <2> QED
    BY <2>1 DEF Loads
<1>5. VersionInv'
  BY <1>2, <1>4, EditBoundAssumption DEF IInv, TypeOK, VersionInv
<1>6. OlderOnlyWhenOvertaken'
  BY DEF IInv, OlderOnlyWhenOvertaken
<1> QED
  BY <1>2, <1>3, <1>5, <1>6 DEF IInv

LEMMA StepHolds == IInv /\ [Next]_vars => IInv'
<1> SUFFICES ASSUME IInv, [Next]_vars PROVE IInv'
  OBVIOUS
<1>1. CASE StartUp
  BY <1>1, StartUpKeepsIInv
<1>2. CASE \E t \in Loaders : Load(t)
  BY <1>2, ReadFileKeepsIInv, LoadFailsKeepsIInv, StoreKeepsIInv DEF Load
<1>3. CASE \E u \in RouterUpdates : UpdateRouter(u)
  BY <1>3, OthersKeepIInv DEF UpdateRouter, Change
<1>4. CASE \E r \in Rules : UpdateRule(r) \/ RemoveRule(r.name)
  BY <1>4, OthersKeepIInv DEF UpdateRule, RemoveRule, Change
<1>5. CASE Edit
  BY <1>5, OthersKeepIInv DEF Edit, manager
<1>6. CASE UNCHANGED vars
  BY <1>6, OthersKeepIInv DEF vars, manager
<1> QED
  BY <1>1, <1>2, <1>3, <1>4, <1>5, <1>6 DEF Next

LEMMA Invariance == Spec => []IInv
BY InitHolds, StepHolds, PTL DEF Spec

(* Every variable keeps its type, but for config itself: update_rule and   *)
(* update_router store what they are given.                                *)
THEOREM ConfigTyping == Spec => []TypeOK
<1>1. IInv => TypeOK
  BY DEF IInv
<1> QED
  BY <1>1, Invariance, PTL

(* The program serves only a configuration that passed validation and      *)
(* whose routers could all be built, however often the file is written     *)
(* between the two reads.                                                  *)
THEOREM ServedRulesHaveRouters == Spec => []EveryServedRuleHasARouter
<1>1. IInv => EveryServedRuleHasARouter
  BY DEF IInv, ServedInv, EveryServedRuleHasARouter, Valid, Buildable
<1> QED
  BY <1>1, Invariance, PTL

(* Loads that do not overlap store in the order in which they read.        *)
THEOREM LoadsStoreInOrder == Spec => []OlderOnlyWhenOvertaken
<1>1. IInv => OlderOnlyWhenOvertaken
  BY DEF IInv
<1> QED
  BY <1>1, Invariance, PTL

-----------------------------------------------------------------------------
(* The two copies of main: as long as nobody has written the file, both    *)
(* are what it holds, and no one else loads before the server runs.        *)
CopiesInv ==
  /\ main \in {"validate", "load", "initialize", "start"} /\ version = 0 => startup = file
  /\ LET l == loading[Main]
     IN  l.reading /\ l.content # Unreadable /\ l.version = 0 => l.content = startup
  /\ \A t \in Callers : loading[t].reading => main = "running"
  /\ CopiesDifferOnlyByEdit

LEMMA CopiesInit == Init => CopiesInv
BY DEF Init, CopiesInv, CopiesDifferOnlyByEdit, Loaders, Idle

LEMMA CopiesStartUp == ASSUME IInv, CopiesInv, StartUp PROVE CopiesInv'
<1>1. UNCHANGED <<file, version, config, config_version, loading>>
  BY DEF StartUp, FromFile, Validate, Initialize, StartServer, manager
<1>2. CASE FromFile
  BY <1>1, <1>2 DEF FromFile, Goto, IInv, MainInv, CopiesInv, CopiesDifferOnlyByEdit
<1>3. CASE Validate \/ Initialize \/ StartServer
  BY <1>1, <1>3 DEF Validate, Initialize, StartServer, Goto, CopiesInv, CopiesDifferOnlyByEdit, Valid
<1> QED
  BY <1>2, <1>3 DEF StartUp

LEMMA CopiesReadFile ==
  ASSUME IInv, CopiesInv, NEW t \in Loaders, ReadFile(t) PROVE CopiesInv'
<1>1. /\ UNCHANGED <<file, version, config, config_version, main, startup, served>>
      /\ loading' = [loading EXCEPT ![t] = Read(file)] /\ DOMAIN loading = Loaders
  BY DEF ReadFile, program, IInv, TypeOK
<1>2. CopiesDifferOnlyByEdit'
  BY <1>1 DEF CopiesInv, CopiesDifferOnlyByEdit, Valid
<1>3. CASE t = Main
  <2>1. main = "load" /\ Main \notin Callers
    BY <1>3, MainAssumption DEF ReadFile, MayLoad
  <2>2. loading'[Main] = Read(file)
    BY <1>1, <1>3
  <2>3. Read(file).version = version /\ Read(file).content = file
    BY DEF Read
  <2> QED
    BY <1>1, <1>2, <1>3, <2>1, <2>2, <2>3 DEF CopiesInv
<1>4. CASE t # Main
  <2>1. main = "running" /\ loading'[Main] = loading[Main]
    BY <1>1, <1>4 DEF ReadFile, MayLoad
  <2> QED
    BY <1>1, <1>2, <2>1 DEF CopiesInv
<1> QED
  BY <1>3, <1>4

LEMMA CopiesLoadFails ==
  ASSUME IInv, CopiesInv, NEW t \in Loaders, LoadFails(t) PROVE CopiesInv'
<1>1. /\ UNCHANGED <<file, version, config, config_version, startup, served>>
      /\ loading' = [loading EXCEPT ![t] = Idle] /\ DOMAIN loading = Loaders
      /\ main' \in {main, "failed"} /\ (t # Main => main' = main)
  BY DEF LoadFails, Returned, IInv, TypeOK
<1>2. \A u \in Loaders : loading'[u].reading => loading'[u] = loading[u] /\ u # t
  BY <1>1 DEF Idle
<1>3. main' = "failed" \/ main' = main
  BY <1>1
<1>4. \A u \in Callers : loading'[u].reading => main' = "running"
  <2> SUFFICES ASSUME NEW u \in Callers, loading'[u].reading PROVE main' = "running"
    OBVIOUS
  <2>1. main = "running"
    BY <1>2 DEF CopiesInv, Loaders
  <2>2. t # Main
    BY <2>1 DEF LoadFails, IInv, MainInv
  <2> QED
    BY <1>1, <2>1, <2>2
<1> QED
  BY <1>1, <1>2, <1>3, <1>4 DEF CopiesInv, CopiesDifferOnlyByEdit, Valid, Loaders

LEMMA CopiesStore ==
  ASSUME IInv, CopiesInv, NEW t \in Loaders, Store(t) PROVE CopiesInv'
<1>1. /\ UNCHANGED <<file, version, startup, served>>
      /\ config' = loading[t].content /\ config_version' = loading[t].version
      /\ loading[t].reading /\ loading[t].content # Unreadable
      /\ loading' = Overtaken(t)
  BY DEF Store, Returned
<1>2. CASE t = Main
  <2>1. main = "load" /\ main' = "initialize" /\ Valid(startup)
    BY <1>1, <1>2 DEF Store, Returned, IInv, MainInv, ServedInv
  <2>2. \A u \in Loaders : ~loading'[u].reading
    BY <1>1, <1>2, <2>1 DEF Overtaken, Idle, Loaders, CopiesInv
  <2> QED
    BY <1>1, <1>2, <2>1, <2>2 DEF CopiesInv, CopiesDifferOnlyByEdit, Valid, Loaders
<1>3. CASE t # Main
  <2>1. main = "running" /\ main' = main
    BY <1>1, <1>3 DEF Store, Returned, CopiesInv, Loaders
  <2>2. ~loading'[Main].reading
    BY <1>1, <1>3, <2>1 DEF IInv, MainInv, Overtaken, Idle, Loaders
  <2> QED
    BY <2>1, <2>2 DEF CopiesInv, CopiesDifferOnlyByEdit
<1> QED
  BY <1>2, <1>3

(* Until the server runs the manager holds the validated copy, but for an  *)
(* edit of the file between the two reads.                                 *)
THEOREM CopiesAlwaysAgree == Spec => []CopiesDifferOnlyByEdit
<1>1. IInv /\ CopiesInv /\ [Next]_vars => CopiesInv'
  <2> SUFFICES ASSUME IInv, CopiesInv, [Next]_vars PROVE CopiesInv'
    OBVIOUS
  <2>1. CASE \E t \in Loaders : Load(t)
    BY <2>1, CopiesReadFile, CopiesLoadFails, CopiesStore DEF Load
  <2>2. CASE Edit
    <3>1. /\ version' # 0 /\ UNCHANGED <<config, config_version, loading, main, startup, served>>
      BY <2>2, EditBoundAssumption DEF Edit, manager, program, IInv, TypeOK
    <3> QED
      BY <3>1 DEF CopiesInv, CopiesDifferOnlyByEdit, Valid
  <2>3. CASE main = "running" /\ UNCHANGED <<file, version, config_version, loading, program>>
    BY <2>3 DEF CopiesInv, CopiesDifferOnlyByEdit, program
  <2>4. CASE UNCHANGED vars
    BY <2>4 DEF vars, manager, program, CopiesInv, CopiesDifferOnlyByEdit, Valid
  <2> QED
    BY <2>1, <2>2, <2>3, <2>4, CopiesStartUp
       DEF Next, UpdateRouter, UpdateRule, RemoveRule, Change
<1>2. CopiesInv => CopiesDifferOnlyByEdit
  BY DEF CopiesInv
<1> QED
  BY <1>1, <1>2, CopiesInit, Invariance, PTL DEF Spec

-----------------------------------------------------------------------------
(***************************************************************************)
(* What single changes do to the rules.  The rules that retain leaves are  *)
(* an increasing selection of the positions of the list it is given.       *)
(***************************************************************************)
Selects(rs, n, m, s, at) ==
  /\ at \in [1 .. Len(s) -> 1 .. m]
  /\ \A j, k \in 1 .. Len(s) : j < k => at[j] < at[k]
  /\ \A k \in 1 .. Len(s) : s[k] = rs[at[k]] /\ s[k].name # n
  /\ \A i \in 1 .. m : rs[i].name # n => \E k \in 1 .. Len(s) : at[k] = i

(* What ChangesStayLocal says of the rules before and after a step.        *)
Local(rs, s) ==
  /\ \A a, b \in RuleNames(rs) \ RuleNames(s) : a = b
  /\ \A a, b \in RuleNames(rs) \cap RuleNames(s) : Precedes(rs, a, b) <=> Precedes(s, a, b)
  /\ Unique(rs) => Unique(s)

(* One step of retain. *)
LEMMA SelectsStep ==
  ASSUME NEW S, NEW rs \in Seq(S), NEW n, NEW m \in 1 .. Len(rs),
         NEW s \in Seq(S), NEW at, Selects(rs, n, m - 1, s, at)
  PROVE  \E b : Selects(rs, n, m, IF rs[m].name = n THEN s ELSE Append(s, rs[m]), b)
<1>1. m \in Nat /\ m - 1 \in Nat /\ Len(s) \in Nat
  OBVIOUS
<1>2. CASE rs[m].name = n
  <2>1. at \in [1 .. Len(s) -> 1 .. m]
    <3>1. \A k \in 1 .. Len(s) : at[k] \in 1 .. m
      BY <1>1 DEF Selects
    <3> QED
      BY <3>1 DEF Selects
  <2>2. \A i \in 1 .. m : rs[i].name # n => i \in 1 .. m - 1
    BY <1>1, <1>2
  <2>3. Selects(rs, n, m, s, at)
    BY <2>1, <2>2 DEF Selects
  <2> QED
    BY <1>2, <2>3
<1>3. CASE rs[m].name # n
  <2> DEFINE q == Append(s, rs[m])
             b == [k \in 1 .. Len(s) + 1 |-> IF k = Len(s) + 1 THEN m ELSE at[k]]
  <2>1. /\ Len(q) = Len(s) + 1 /\ q[Len(s) + 1] = rs[m]
        /\ \A k \in 1 .. Len(s) : q[k] = s[k] /\ k \in 1 .. Len(s) + 1 /\ k # Len(s) + 1
    <3>1. rs[m] \in S
      OBVIOUS
    <3> QED
      BY <3>1
  <2>2. \A k \in 1 .. Len(s) + 1 : k # Len(s) + 1 => k \in 1 .. Len(s)
    BY <1>1
  <2>3. Len(s) + 1 \in 1 .. Len(s) + 1
    BY <1>1
  <2>4. b[Len(s) + 1] = m /\ \A k \in 1 .. Len(s) : b[k] = at[k]
    BY <2>1, <2>3
  <2>5. \A k \in 1 .. Len(s) : at[k] \in 1 .. m /\ at[k] < m
    BY <1>1 DEF Selects
  <2>6. b \in [1 .. Len(s) + 1 -> 1 .. m]
    <3>1. \A k \in 1 .. Len(s) + 1 : b[k] \in 1 .. m
      BY <1>1, <2>2, <2>4, <2>5
    <3> QED
      BY <3>1
  <2> HIDE DEF b, q
  <2>7. \A j, k \in 1 .. Len(s) + 1 : j < k => b[j] < b[k]
    <3> SUFFICES ASSUME NEW j \in 1 .. Len(s) + 1, NEW k \in 1 .. Len(s) + 1, j < k
                 PROVE  b[j] < b[k]
      OBVIOUS
    <3>1. j \in 1 .. Len(s)
      BY <1>1
    <3>2. CASE k = Len(s) + 1
      BY <2>4, <2>5, <3>1, <3>2
    <3>3. CASE k # Len(s) + 1
      BY <2>2, <2>4, <3>1, <3>3 DEF Selects
    <3> QED
      BY <3>2, <3>3
  <2>8. \A k \in 1 .. Len(s) + 1 : q[k] = rs[b[k]] /\ q[k].name # n
    <3> SUFFICES ASSUME NEW k \in 1 .. Len(s) + 1
                 PROVE  q[k] = rs[b[k]] /\ q[k].name # n
      OBVIOUS
    <3>1. CASE k = Len(s) + 1
      BY <1>3, <2>1, <2>4, <3>1
    <3>2. CASE k # Len(s) + 1
      BY <2>1, <2>2, <2>4, <3>2 DEF Selects
    <3> QED
      BY <3>1, <3>2
  <2>9. ASSUME NEW i \in 1 .. m, rs[i].name # n
        PROVE  \E k \in 1 .. Len(s) + 1 : b[k] = i
    <3>1. CASE i = m
      BY <2>3, <2>4, <3>1
    <3>2. CASE i # m
      <4>1. i \in 1 .. m - 1
        BY <1>1, <3>2
      <4>2. PICK k \in 1 .. Len(s) : at[k] = i
        BY <2>9, <4>1 DEF Selects
      <4> QED
        BY <2>1, <2>4, <4>2
    <3> QED
      BY <3>1, <3>2
  <2>10. Selects(rs, n, m, q, b)
    BY <2>1, <2>6, <2>7, <2>8, <2>9 DEF Selects
  <2> QED
    BY <1>3, <2>10 DEF q
<1> QED
  BY <1>2, <1>3

LEMMA WithoutSelects ==
  ASSUME NEW S, NEW rs \in Seq(S), NEW n
  PROVE  /\ Without(rs, n) \in Seq(S)
         /\ \E at : Selects(rs, n, Len(rs), Without(rs, n), at)
<1> DEFINE l == Len(rs)
           Retain(r, s) == IF r.name = n THEN s ELSE Append(s, r)
           Kept(f) == f = [i \in 0 .. l |-> IF i = 0 THEN <<>> ELSE
                             IF rs[i].name = n THEN f[i - 1] ELSE Append(f[i - 1], rs[i])]
           kept == CHOOSE f : Kept(f)
<1>1. l \in Nat /\ \A i \in 1 .. l : rs[i] \in S
  OBVIOUS
<1>2. \E f \in [0 .. l -> Seq(S)] : Kept(f)
  <2> DEFINE next == [i \in 1 .. l |-> [s \in Seq(S) |-> Retain(rs[i], s)]]
  <2>1. \A i \in 1 .. l : \A s \in Seq(S) : Retain(rs[i], s) \in Seq(S)
    BY <1>1
  <2>2. next \in [1 .. l -> [Seq(S) -> Seq(S)]]
    <3> HIDE DEF Retain
    <3> QED
      BY <2>1
  <2>3. <<>> \in Seq(S)
    OBVIOUS
  <2>4. \A i \in 1 .. l : \A s \in Seq(S) : next[i][s] = Retain(rs[i], s)
    <3> HIDE DEF Retain
    <3> QED
      OBVIOUS
  <2> HIDE DEF next, Retain
  <2>5. PICK f \in [0 .. l -> Seq(S)] :
          f[0] = <<>> /\ \A i \in 1 .. l : f[i] = next[i][f[i - 1]]
    <3> DEFINE V == Seq(S)
               base == <<>>
    <3>1. l \in Nat /\ base \in V /\ next \in [1 .. l -> [V -> V]]
      BY <1>1, <2>2, <2>3
    <3> HIDE DEF l, V, base
    <3>2. \E f : Recurs(f, l, V, base, next)
      BY <3>1, PrimitiveRecursion DEF Steps
    <3> QED
      BY <3>2 DEF Recurs, V, base
  <2>6. ASSUME NEW i \in 1 .. l PROVE f[i] = Retain(rs[i], f[i - 1])
    <3>1. i - 1 \in 0 .. l
      BY <1>1
    <3>2. f[i - 1] \in Seq(S)
      BY <2>5, <3>1
    <3> QED
      BY <2>4, <2>5, <3>2
  <2>7. ASSUME NEW i \in 0 .. l
        PROVE  f[i] = IF i = 0 THEN <<>> ELSE
                        IF rs[i].name = n THEN f[i - 1] ELSE Append(f[i - 1], rs[i])
    <3>1. i # 0 => i \in 1 .. l
      BY <1>1
    <3> QED
      BY <2>5, <2>6, <3>1 DEF Retain
  <2>8. Kept(f)
    BY <2>7
  <2> QED
    BY <2>8
<1>3. kept \in [0 .. l -> Seq(S)] /\ Kept(kept)
  <2>1. \A f, g : Kept(f) /\ Kept(g) => DOMAIN f = DOMAIN g
    OBVIOUS
  <2>2. Kept(kept)
    <3> HIDE DEF Kept
    <3> QED
      BY <1>2
  <2> HIDE DEF kept
  <2>3. kept[0] = <<>>
    BY <1>1, <2>2
  <2> DEFINE bad == {i \in 0 .. l : kept[i] \notin Seq(S)}
  <2>4. ASSUME bad # {} PROVE FALSE
    <3>1. bad \subseteq Nat
      OBVIOUS
    <3>2. PICK i \in bad : \A k \in bad : i <= k
      <4> HIDE DEF bad
      <4> QED
        BY <2>4, <3>1, LeastNatural
    <3>3. i \in 0 .. l /\ kept[i] \notin Seq(S)
      BY <3>2
    <3> HIDE DEF bad
    <3>4. i # 0
      <4>1. kept[0] \in Seq(S)
        BY <2>3
      <4> QED
        BY <3>3, <4>1
    <3>5. i \in 1 .. l /\ i - 1 \in 0 .. l /\ ~(i <= i - 1)
      BY <1>1, <3>3, <3>4
    <3>6. kept[i - 1] \in Seq(S)
      BY <3>2, <3>5 DEF bad
    <3>7. kept[i] = IF rs[i].name = n THEN kept[i - 1] ELSE Append(kept[i - 1], rs[i])
      BY <2>2, <3>3, <3>4
    <3>8. kept[i] \in Seq(S)
      BY <1>1, <3>5, <3>6, <3>7
    <3> QED
      BY <3>3, <3>8
  <2>5. \A i \in 0 .. l : kept[i] \in Seq(S)
    BY <2>4
  <2>6. kept = [i \in 0 .. l |-> kept[i]]
    BY <2>2
  <2> QED
    BY <2>2, <2>5, <2>6
<1>4. Without(rs, n) = kept[l]
  BY DEF Without
<1> HIDE DEF kept
<1>5. \A i \in 0 .. l : \E at : Selects(rs, n, i, kept[i], at)
  <2> DEFINE Done(i) == \E at : Selects(rs, n, i, kept[i], at)
             bad == {i \in 0 .. l : ~Done(i)}
  <2>1. ASSUME bad # {} PROVE FALSE
    <3>1. bad \subseteq Nat
      OBVIOUS
    <3>2. PICK i \in bad : \A k \in bad : i <= k
      <4> HIDE DEF bad
      <4> QED
        BY <2>1, <3>1, LeastNatural
    <3>3. i \in 0 .. l /\ ~Done(i)
      BY <3>2
    <3>4. Done(0)
      <4>1. kept[0] = <<>>
        BY <1>1, <1>3
      <4>2. Selects(rs, n, 0, <<>>, <<>>)
        BY DEF Selects
      <4> QED
        BY <4>1, <4>2
    <3>5. i \in 1 .. l /\ i - 1 \in 0 .. l /\ ~(i <= i - 1) /\ i # 0
      BY <1>1, <3>3, <3>4
    <3>6. Done(i - 1)
      <4> HIDE DEF Done
      <4> QED
        BY <3>2, <3>5
    <3>7. kept[i - 1] \in Seq(S)
      BY <1>3, <3>5
    <3>8. kept[i] = IF rs[i].name = n THEN kept[i - 1] ELSE Append(kept[i - 1], rs[i])
      BY <1>3, <3>5
    <3>9. Done(i)
      BY <3>5, <3>6, <3>7, <3>8, SelectsStep
    <3> QED
      BY <3>3, <3>9
  <2> HIDE DEF Done
  <2>2. \A i \in 0 .. l : Done(i)
    BY <2>1
  <2> QED
    BY <2>2 DEF Done
<1>6. l \in 0 .. l
  BY <1>1
<1>7. kept[l] \in Seq(S)
  BY <1>3, <1>6
<1> HIDE DEF Kept
<1> QED
  BY <1>4, <1>5, <1>6, <1>7

(* The rules that retain leaves stand as they stood before, and no name    *)
(* but n is lost.                                                          *)
LEMMA WithoutStaysLocal ==
  ASSUME NEW S, NEW rs \in Seq(S), NEW n
  PROVE  Local(rs, Without(rs, n))
<1> DEFINE s == Without(rs, n)
<1>1. s \in Seq(S) /\ \E at : Selects(rs, n, Len(rs), s, at)
  BY WithoutSelects
<1> HIDE DEF s
<1>2. PICK at : Selects(rs, n, Len(rs), s, at)
  BY <1>1
<1>3. DOMAIN rs = 1 .. Len(rs) /\ DOMAIN s = 1 .. Len(s) /\ Len(rs) \in Nat /\ Len(s) \in Nat
  BY <1>1
<1>4. \A k \in DOMAIN s : at[k] \in DOMAIN rs /\ s[k] = rs[at[k]] /\ s[k].name # n
  BY <1>2, <1>3 DEF Selects
<1>5. \A i \in DOMAIN rs : rs[i].name # n => \E k \in DOMAIN s : at[k] = i
  BY <1>2, <1>3 DEF Selects
<1>6. \A j, k \in DOMAIN s : at[j] < at[k] <=> j < k
  <2> SUFFICES ASSUME NEW j \in DOMAIN s, NEW k \in DOMAIN s
               PROVE  at[j] < at[k] <=> j < k
    OBVIOUS
  <2>1. j < k => at[j] < at[k]
    BY <1>2, <1>3 DEF Selects
  <2>2. k < j => at[k] < at[j]
    BY <1>2, <1>3 DEF Selects
  <2>3. at[j] \in Nat /\ at[k] \in Nat /\ j \in Nat /\ k \in Nat
    BY <1>3, <1>4
  <2> QED
    BY <2>1, <2>2, <2>3
<1>7. \A j, k \in DOMAIN s : at[j] = at[k] => j = k
  <2> SUFFICES ASSUME NEW j \in DOMAIN s, NEW k \in DOMAIN s, at[j] = at[k]
               PROVE  j = k
    OBVIOUS
  <2>1. ~(j < k) /\ ~(k < j)
    BY <1>3, <1>4, <1>6
  <2> QED
    BY <1>3, <2>1
<1>8. ASSUME NEW a \in RuleNames(rs) \ RuleNames(s) PROVE a = n
  BY <1>4, <1>5 DEF RuleNames
<1>9. ASSUME NEW a \in RuleNames(s), NEW b \in RuleNames(s)
      PROVE  Precedes(rs, a, b) <=> Precedes(s, a, b)
  <2>1. a # n /\ b # n
    BY <1>4 DEF RuleNames
  <2>2. ASSUME Precedes(rs, a, b) PROVE Precedes(s, a, b)
    <3>1. PICK i \in DOMAIN rs : rs[i].name = a /\ \A j \in Named(rs, b) : i < j
      BY <2>2 DEF Precedes, Named
    <3>2. PICK k \in DOMAIN s : at[k] = i
      BY <1>5, <2>1, <3>1
    <3>3. k \in Named(s, a)
      BY <1>4, <3>1, <3>2 DEF Named
    <3>4. ASSUME NEW j \in Named(s, b) PROVE k < j
      <4>1. j \in DOMAIN s /\ at[j] \in Named(rs, b)
        BY <1>4 DEF Named
      <4> QED
        BY <1>6, <3>1, <3>2, <4>1
    <3> QED
      BY <3>3, <3>4 DEF Precedes
  <2>3. ASSUME Precedes(s, a, b) PROVE Precedes(rs, a, b)
    <3>1. PICK k \in DOMAIN s : s[k].name = a /\ \A j \in Named(s, b) : k < j
      BY <2>3 DEF Precedes, Named
    <3>2. at[k] \in Named(rs, a)
      BY <1>4, <3>1 DEF Named
    <3>3. ASSUME NEW i \in Named(rs, b) PROVE at[k] < i
      <4>1. PICK j \in DOMAIN s : at[j] = i
        BY <1>5, <2>1 DEF Named
      <4>2. j \in Named(s, b)
        BY <1>4, <4>1 DEF Named
      <4> QED
        BY <1>6, <3>1, <4>1, <4>2
    <3> QED
      BY <3>2, <3>3 DEF Precedes
  <2> QED
    BY <2>2, <2>3
<1>10. Unique(rs) => Unique(s)
  BY <1>4, <1>7 DEF Unique
<1>11. \A a \in RuleNames(s) : a \in RuleNames(rs)
  BY <1>4 DEF RuleNames
<1> QED
  BY <1>8, <1>9, <1>10 DEF Local, s

(* The rules keep their names and places. *)
LEMMA RenamingNothingIsLocal ==
  ASSUME NEW rs, NEW s, DOMAIN s = DOMAIN rs, \A i \in DOMAIN rs : s[i].name = rs[i].name
  PROVE  Local(rs, s)
<1>1. RuleNames(s) = RuleNames(rs) /\ \A a : Named(s, a) = Named(rs, a)
  BY DEF RuleNames, Named
<1>2. Unique(rs) => Unique(s)
  BY DEF Unique
<1> QED
  BY <1>1, <1>2 DEF Local, Precedes

LEMMA ReplacingIsLocal ==
  ASSUME NEW S, NEW rs \in Seq(S), NEW r, Named(rs, r.name) # {}
  PROVE  Local(rs, [rs EXCEPT ![FirstNamed(rs, r.name)] = r])
<1> DEFINE m == Named(rs, r.name)
           f == FirstNamed(rs, r.name)
<1>1. m \subseteq Nat
  BY DEF Named
<1>2. \E i \in m : \A j \in m : i <= j
  <2> HIDE DEF m
  <2> QED
    BY <1>1, LeastNatural DEF m
<1>3. f \in m
  BY <1>2 DEF FirstNamed
<1> HIDE DEF f
<1>4. f \in DOMAIN rs /\ rs[f].name = r.name
  BY <1>3 DEF Named
<1> QED
  BY <1>4, RenamingNothingIsLocal DEF f

LEMMA AppendingIsLocal ==
  ASSUME NEW S, NEW rs \in Seq(S), NEW r \in S, Named(rs, r.name) = {}
  PROVE  Local(rs, Append(rs, r))
<1> DEFINE s == Append(rs, r)
<1>1. /\ DOMAIN rs = 1 .. Len(rs) /\ DOMAIN s = 1 .. Len(rs) + 1 /\ Len(rs) \in Nat
      /\ s[Len(rs) + 1] = r /\ \A i \in DOMAIN rs : s[i] = rs[i]
  OBVIOUS
<1> HIDE DEF s
<1>2. DOMAIN s = DOMAIN rs \cup {Len(rs) + 1} /\ Len(rs) + 1 \notin DOMAIN rs
  BY <1>1
<1>3. \A i \in DOMAIN rs : rs[i].name # r.name
  BY DEF Named
<1>4. RuleNames(rs) \subseteq RuleNames(s)
  BY <1>1, <1>2 DEF RuleNames
<1>5. \A a \in RuleNames(rs) : Named(s, a) = Named(rs, a)
  BY <1>1, <1>2, <1>3 DEF RuleNames, Named
<1>6. Unique(rs) => Unique(s)
  BY <1>1, <1>2, <1>3 DEF Unique
<1> QED
  BY <1>4, <1>5, <1>6 DEF Local, Precedes, s

-----------------------------------------------------------------------------
(* The configuration of the manager is a record whose rules are a list.    *)
AllRules == Rules \cup UNION {{c.rules[i] : i \in DOMAIN c.rules} : c \in Files}

ConfigOK ==
  /\ DOMAIN config = {"ports", "redis", "routers", "rules"}
  /\ config.rules \in Seq(AllRules)

LEMMA FilesAreConfigs ==
  ASSUME NEW c \in Files
  PROVE  DOMAIN c = {"ports", "redis", "routers", "rules"} /\ c.rules \in Seq(AllRules)
<1> DEFINE own == {c.rules[i] : i \in DOMAIN c.rules}
<1>1. own \subseteq AllRules
  BY DEF AllRules
<1> HIDE DEF own
<1>2. \A T \in SUBSET AllRules : Seq(T) \subseteq Seq(AllRules)
  OBVIOUS
<1>3. c.rules \in Seq(own)
  BY FilesAssumption DEF own
<1> QED
  BY <1>1, <1>2, <1>3, FilesAssumption

(* A change of the rules, or of the routers, in place. *)
LEMMA ChangedRules ==
  ASSUME ConfigOK, NEW rs \in Seq(AllRules), Change([config EXCEPT !.rules = rs])
  PROVE  ConfigOK' /\ config'.rules = rs /\ config'.routers = config.routers
BY DEF ConfigOK, Change

LEMMA ChangedRouters ==
  ASSUME ConfigOK, NEW u, UpdateRouter(u)
  PROVE  /\ ConfigOK' /\ config'.rules = config.rules
         /\ DOMAIN config.routers \subseteq DOMAIN config'.routers
BY DEF ConfigOK, UpdateRouter, Change

LEMMA UpdatedRule ==
  ASSUME ConfigOK, NEW r \in Rules, UpdateRule(r)
  PROVE  /\ ConfigOK' /\ Local(config.rules, config'.rules)
         /\ config'.routers = config.routers
<1> DEFINE rs == config.rules
<1>1. rs \in Seq(AllRules) /\ r \in AllRules
  BY DEF ConfigOK, AllRules
<1>2. CASE Named(rs, r.name) # {}
  <2> DEFINE new == [rs EXCEPT ![FirstNamed(rs, r.name)] = r]
  <2>1. new \in Seq(AllRules)
    <3>1. rs \in [1 .. Len(rs) -> AllRules] /\ Len(rs) \in Nat
      BY <1>1
    <3>2. new \in [1 .. Len(rs) -> AllRules]
      BY <1>1, <3>1
    <3> QED
      BY <3>1, <3>2
  <2>2. Change([config EXCEPT !.rules = new])
    BY <1>2 DEF UpdateRule, Change
  <2>3. Local(rs, new)
    BY <1>1, <1>2, ReplacingIsLocal
  <2> HIDE DEF new
  <2> QED
    BY <2>1, <2>2, <2>3, ChangedRules
<1>3. CASE Named(rs, r.name) = {}
  <2> DEFINE new == Append(rs, r)
  <2>1. new \in Seq(AllRules)
    BY <1>1
  <2>2. Change([config EXCEPT !.rules = new])
    BY <1>3 DEF UpdateRule, Change
  <2>3. Local(rs, new)
    BY <1>1, <1>3, AppendingIsLocal
  <2> HIDE DEF new
  <2> QED
    BY <2>1, <2>2, <2>3, ChangedRules
<1> QED
  BY <1>2, <1>3

LEMMA RemovedRule ==
  ASSUME ConfigOK, NEW n, RemoveRule(n)
  PROVE  /\ ConfigOK' /\ Local(config.rules, config'.rules)
         /\ config'.routers = config.routers
<1> DEFINE rs == config.rules
<1>1. rs \in Seq(AllRules)
  BY DEF ConfigOK
<1>2. Without(rs, n) \in Seq(AllRules) /\ Local(rs, Without(rs, n))
  BY <1>1, WithoutSelects, WithoutStaysLocal
<1>3. Change([config EXCEPT !.rules = Without(rs, n)])
  BY DEF RemoveRule, Change
<1> QED
  BY <1>2, <1>3, ChangedRules

LEMMA SameRulesAreLocal == Local(config.rules, config.rules)
BY RenamingNothingIsLocal

LEMMA StepIsLocal ==
  ASSUME IInv, ConfigOK, [Next]_vars
  PROVE  /\ ConfigOK'
         /\ \/ Stores
            \/ /\ Local(config.rules, config'.rules)
               /\ DOMAIN config.routers \subseteq DOMAIN config'.routers
<1>1. ASSUME NEW t \in Loaders, Store(t) PROVE ConfigOK' /\ Stores
  <2>1. config' = loading[t].content /\ loading[t].content \in Files
    <3>1. loading[t] \in Loads /\ loading[t].content # Unreadable
      BY <1>1, ReadingIsALoad DEF Store, IInv
    <3> QED
      BY <1>1, <3>1 DEF Store, Loads
  <2> QED
    BY <1>1, <2>1, FilesAreConfigs DEF ConfigOK, Stores
<1>2. ASSUME config' = config
      PROVE  /\ ConfigOK' /\ Local(config.rules, config'.rules)
             /\ DOMAIN config.routers \subseteq DOMAIN config'.routers
  BY <1>2, SameRulesAreLocal DEF ConfigOK
<1>3. ASSUME NEW t \in Loaders, ReadFile(t) \/ LoadFails(t) PROVE config' = config
  BY <1>3 DEF ReadFile, LoadFails
<1>4. ASSUME StartUp \/ Edit \/ UNCHANGED vars PROVE config' = config
  BY <1>4 DEF StartUp, FromFile, Validate, Initialize, StartServer, Edit, manager, vars
<1>5. ASSUME NEW u, UpdateRouter(u)
      PROVE  /\ ConfigOK' /\ Local(config.rules, config'.rules)
             /\ DOMAIN config.routers \subseteq DOMAIN config'.routers
  BY <1>5, ChangedRouters, SameRulesAreLocal
<1> QED
  BY <1>1, <1>2, <1>3, <1>4, <1>5, UpdatedRule, RemovedRule DEF Next, Load

(* However rules and routers are changed one at a time, the rules that are *)
(* left keep their order, at most one name goes and none comes twice.      *)
THEOREM ChangesAlwaysStayLocal == Spec => ChangesStayLocal
<1>1. Init => ConfigOK
  BY DEF Init, ConfigOK, Default
<1>2. IInv /\ ConfigOK /\ [Next]_vars => ConfigOK'
  BY StepIsLocal
<1>3. IInv /\ ConfigOK /\ [Next]_vars =>
        [~Stores =>
          /\ \A a, b \in RuleNames(config.rules) \ RuleNames(config'.rules) : a = b
          /\ DOMAIN config.routers \subseteq DOMAIN config'.routers
          /\ \A a, b \in RuleNames(config.rules) \cap RuleNames(config'.rules) :
               Precedes(config.rules, a, b) <=> Precedes(config'.rules, a, b)
          /\ Unique(config.rules) => Unique(config'.rules)]_vars
  BY StepIsLocal DEF Local
<1> QED
  BY <1>1, <1>2, <1>3, Invariance, PTL DEF Spec, ChangesStayLocal

=============================================================================
