---------------------------- MODULE GatewayProofs ----------------------------
(***************************************************************************)
(* Proofs about Gateway, for any set of configurations.                    *)
(***************************************************************************)
EXTENDS Gateway, TLAPS

-----------------------------------------------------------------------------
(***************************************************************************)
(* Start-up and shutdown.  The phases of main order what the servers and   *)
(* the managers may be in.                                                 *)
(***************************************************************************)
Up == {"startServers", "wait", "closeServer", "closeMetrics", "stopManagers"}

Stopping == {"closeMetrics", "stopManagers"}

PhaseInv ==
  /\ server = [x \in Servers |-> server[x]]
  /\ proxies = hcms
  /\ pc \in Up => Managed \subseteq started
  /\ ctx = "live" => ended = {}
  /\ \A x \in Servers : server[x] \in {"spawned", "listening"} => pc \in Up \ {"startServers"}
  /\ pc \in Stopping => "rpc" \in closing /\ server["rpc"] # "listening"
  /\ pc = "stopManagers" =>
       /\ server["metrics"] # "listening"
       /\ server["metrics"] = "spawned" => "metrics" \in closing
  /\ ~MetricsEnabled => server["metrics"] \in {"off", "closed"}

LEMMA PhaseInit == Init => PhaseInv
BY DEF Init, PhaseInv, Servers, Up, Stopping

LEMMA PhaseExit == ASSUME PhaseInv, Exit, ctx' = "live" => ctx = "live" PROVE PhaseInv'
BY DEF PhaseInv, Exit, Goto, Up, Stopping, Servers, MetricsEnabled, Managed, built, managers

LEMMA PhaseStep == PhaseInv /\ [Next]_vars => PhaseInv'
<1> SUFFICES ASSUME PhaseInv, [Next]_vars PROVE PhaseInv'
  OBVIOUS
<1> USE DEF PhaseInv, Up, Stopping, Servers, MetricsEnabled, Managed, Registered, Goto,
            built, managers, net
<1>1. CASE Load
  BY <1>1 DEF Load, Register, NewProxy
<1>2. CASE LoadFails
  BY <1>2, PhaseExit DEF LoadFails
<1>3. CASE LoadDone
  BY <1>3 DEF LoadDone
<1>4. ASSUME NEW p \in Paths, RandomizeProviders(p) PROVE PhaseInv'
  BY <1>4 DEF RandomizeProviders
<1>5. CASE Shuffle
  BY <1>5 DEF Shuffle
<1>6. CASE ShuffleDone
  BY <1>6 DEF ShuffleDone
<1>7. CASE CheckPorts
  BY <1>7, PhaseExit DEF CheckPorts, CheckPort, CheckPortFails
<1>8. ASSUME NEW e \in Entries, StartManager(e) PROVE PhaseInv'
  BY <1>8 DEF StartManager
<1>9. ASSUME NEW e \in Entries, StopManager(e) PROVE PhaseInv'
  BY <1>9 DEF StopManager
<1>10. CASE ManagersStarted
  BY <1>10 DEF ManagersStarted
<1>11. CASE StartServers
  BY <1>11 DEF StartServers
<1>12. CASE AwaitSignal
  BY <1>12 DEF AwaitSignal
<1>13. CASE CloseServer
  BY <1>13 DEF CloseServer, Close
<1>14. CASE CloseMetrics
  BY <1>14 DEF CloseMetrics, Close
<1>15. CASE ManagersStopped
  BY <1>15, PhaseExit DEF ManagersStopped
<1>16. ASSUME NEW x \in Servers, ListenAndServe(x) PROVE PhaseInv'
  BY <1>16 DEF ListenAndServe
<1>17. CASE Signal
  BY <1>17, PhaseExit DEF Signal
<1>18. ASSUME NEW p \in Ports, OtherProgram(p) PROVE PhaseInv'
  BY <1>18 DEF OtherProgram
<1>19. ASSUME NEW e \in Entries, LoopsEnd(e) PROVE PhaseInv'
  BY <1>19 DEF LoopsEnd
<1>20. CASE UNCHANGED vars
  BY <1>20 DEF vars
<1> QED
  BY <1>1, <1>2, <1>3, <1>4, <1>5, <1>6, <1>7, <1>8, <1>9, <1>10, <1>11, <1>12, <1>13,
     <1>14, <1>15, <1>16, <1>17, <1>18, <1>19, <1>20
  DEF Next, Main

(***************************************************************************)
(* Before a signal no path is served without its health checkers running,  *)
(* for any configuration, repeated paths included.                         *)
(***************************************************************************)
THEOREM ServedIsAlwaysMonitored == SafetySpec => []ServedIsMonitored
<1>1. PhaseInv => ServedIsMonitored
  BY DEF PhaseInv, ServedIsMonitored, Up, Stopping, Servers, Managed, Registered
<1> QED BY <1>1, PhaseInit, PhaseStep, PTL DEF SafetySpec

(***************************************************************************)
(* Nothing listens after Stop, however late the server goroutines run.     *)
(***************************************************************************)
THEOREM ClosedAlwaysStaysClosed == SafetySpec => []ClosedStaysClosed
<1>1. PhaseInv => ClosedStaysClosed
  BY DEF PhaseInv, ClosedStaysClosed, Up, Stopping, Servers
<1> QED BY <1>1, PhaseInit, PhaseStep, PTL DEF SafetySpec

-----------------------------------------------------------------------------
(* Types *)

\* What RandomizeProviders still has to do concerns registered proxies.
ShuffleOK == \A p \in shuffle.todo : proxies[p] # 0

TypeInv == TypeOK /\ ShuffleOK

LEMMA ConfigOK ==
  ASSUME TypeOK
  PROVE  /\ Len(config.Proxies) \in Nat
         /\ \A e \in Entries : config.Proxies[e] \in EntryType
BY ConfigAssumption DEF TypeOK, ConfigType, Entries

LEMMA TypeInit == Init => TypeInv
<1> SUFFICES ASSUME Init PROVE TypeInv
  OBVIOUS
<1>1. Len(config.Proxies) \in Nat /\ \A e \in Entries : config.Proxies[e] \in EntryType
  BY ConfigAssumption DEF Init, ConfigType, Entries
<1> QED
  BY <1>1
  DEF Init, TypeInv, TypeOK, ShuffleOK, EntryType, Entries, Servers, Phases, NoShuffle

LEMMA TypeExit == ASSUME TypeInv, Exit, ctx' \in {"live", "done"} PROVE TypeInv'
BY DEF TypeInv, TypeOK, ShuffleOK, Exit, Goto, Phases, Servers, Entries, built, managers

LEMMA ShufflesOK ==
  ASSUME TypeOK, UNCHANGED <<config, proxies>>,
         \/ \E asked \in {config.RandomizeProviders, config.Flag} : shuffle' = Shuffles(asked)
         \/ shuffle' = NoShuffle
  PROVE  /\ shuffle' \in [todo : SUBSET Paths, entry : Nat, i : Int, low : 0..3]
         /\ shuffle'.i = 0
         /\ ShuffleOK'
BY DEF TypeOK, ShuffleOK, Shuffles, NoShuffle, Registered

LEMMA TypeStep == TypeInv /\ PhaseInv /\ [Next]_vars => TypeInv'
<1> SUFFICES ASSUME TypeInv, PhaseInv, [Next]_vars PROVE TypeInv'
  OBVIOUS
<1>0. Len(config.Proxies) \in Nat /\ \A e \in Entries : config.Proxies[e] \in EntryType
  BY ConfigOK DEF TypeInv
<1> USE <1>0 DEF TypeInv, TypeOK, ShuffleOK, EntryType, Entries, Servers, Phases,
            MetricsEnabled, Managed, Registered, Goto, built, managers, net
<1>1. CASE Load
  <2>1. loaded + 1 \in Entries
    BY <1>1 DEF Load
  <2>2. /\ Entry.Path \in Paths /\ Entry.Timeout \in Nat
        /\ clients' = CreateOptimizedHTTPClient(Entry.Path, Entry.Timeout)
        /\ client' = [client EXCEPT ![loaded + 1] = clients'[Entry.Path]]
        /\ proxies' = [proxies EXCEPT ![Entry.Path] = loaded + 1]
        /\ hcms' = [hcms EXCEPT ![Entry.Path] = loaded + 1]
        /\ loaded' = loaded + 1
        /\ UNCHANGED <<config, pc, order, shuffle, started, stopped, ended, server,
                       closing, holder, blocker, ctx>>
    BY <1>1, <2>1 DEF Load, Register, NewProxy, Entry
  <2>3. clients' \in [Paths -> Nat]
    BY <2>2 DEF CreateOptimizedHTTPClient
  <2>4. client' \in [Entries -> Nat]
    BY <2>1, <2>2, <2>3
  <2>5. /\ proxies' \in [Paths -> 0..Len(config.Proxies)]
        /\ hcms' \in [Paths -> 0..Len(config.Proxies)]
        /\ loaded' \in 0..Len(config.Proxies)
    BY <2>1, <2>2
  <2>6. ShuffleOK'
    BY <2>1, <2>2
  <2> QED BY <2>2, <2>3, <2>4, <2>5, <2>6
<1>2. CASE LoadFails
  BY <1>2, TypeExit DEF LoadFails
<1>3. CASE LoadDone
  <2>1. shuffle' = Shuffles(config.RandomizeProviders) /\ pc' = "randomize"
        /\ UNCHANGED <<config, loaded, proxies, hcms, clients, client, order, started,
                       stopped, ended, server, closing, holder, blocker, ctx>>
    BY <1>3 DEF LoadDone
  <2>2. /\ shuffle' \in [todo : SUBSET Paths, entry : Nat, i : Int, low : 0..3]
        /\ shuffle'.i = 0
        /\ ShuffleOK'
    BY <2>1, ShufflesOK
  <2>3. TypeOK
    OBVIOUS
  <2>4. TypeOK'
    BY ONLY SMTT(30), <2>1, <2>2, <2>3 DEF TypeOK, Entries, Phases
  <2> QED BY ONLY <2>2, <2>4 DEF TypeInv
<1>4. ASSUME NEW p \in Paths, RandomizeProviders(p) PROVE TypeInv'
  <2>1. PICK seed \in 0..3 :
          shuffle' = [todo |-> shuffle.todo \ {p}, entry |-> proxies[p],
                      i |-> config.Proxies[proxies[p]].Targets - 1, low |-> seed]
    BY <1>4 DEF RandomizeProviders
  <2>2. proxies[p] \in Entries
    BY <1>4 DEF RandomizeProviders
  <2>3. /\ shuffle' \in [todo : SUBSET Paths, entry : Nat, i : Int, low : 0..3]
        /\ shuffle'.todo \subseteq shuffle.todo
        /\ shuffle'.entry \in Entries
        /\ shuffle'.i = config.Proxies[shuffle'.entry].Targets - 1
    BY SMTT(30), <2>1, <2>2
  <2>4. UNCHANGED <<config, pc, loaded, proxies, hcms, clients, client, order, started,
                    stopped, ended, server, closing, holder, blocker, ctx>>
    BY <1>4 DEF RandomizeProviders
  <2>5. \A q \in shuffle'.todo : proxies'[q] # 0
    BY <2>3, <2>4
  <2>6. config.Proxies[shuffle'.entry].Targets \in Nat
    BY <2>3
  <2>7. shuffle'.entry \in Entries' /\ shuffle'.i < config'.Proxies[shuffle'.entry].Targets
    BY ONLY <2>3, <2>4, <2>6 DEF Entries
  <2>8. ShuffleOK'
    BY ONLY <2>5 DEF ShuffleOK
  <2> QED BY <2>3, <2>4, <2>7, <2>8
<1>5. CASE Shuffle
  <2>1. PICK j \in 0..shuffle.i :
          order' = [order EXCEPT ![shuffle.entry]
                      = Swapped(order[shuffle.entry], shuffle.i + 1, j + 1)]
    BY <1>5 DEF Shuffle
  <2>2. /\ shuffle' = [todo |-> shuffle.todo, entry |-> shuffle.entry, i |-> shuffle.i - 1,
                       low |-> NextSeed]
        /\ shuffle.i > 0
        /\ UNCHANGED <<config, pc, loaded, proxies, hcms, clients, client, started,
                       stopped, ended, server, closing, holder, blocker, ctx>>
    BY <1>5 DEF Shuffle
  <2>3. NextSeed \in 0..3
    BY DEF NextSeed
  <2>4. /\ shuffle' \in [todo : SUBSET Paths, entry : Nat, i : Int, low : 0..3]
        /\ shuffle'.todo = shuffle.todo
        /\ shuffle'.entry = shuffle.entry
        /\ shuffle'.i = shuffle.i - 1
    <3>1. shuffle \in [todo : SUBSET Paths, entry : Nat, i : Int, low : 0..3]
      OBVIOUS
    <3> QED BY ONLY <2>2, <2>3, <3>1
  <2> DEFINE n == config.Proxies[shuffle.entry].Targets
             f == order[shuffle.entry]
  <2>5. /\ n \in Nat /\ shuffle.i \in Int /\ shuffle.i < n
        /\ shuffle.entry \in Entries /\ f \in [1..n -> Nat]
    <3>1. shuffle.entry \in Entries /\ shuffle.i < n /\ shuffle.i \in Int
      BY <2>2
    <3>2. n \in Nat
      BY <3>1
    <3>3. f \in [1..n -> Nat]
      BY <3>1
    <3> QED BY ONLY <3>1, <3>2, <3>3
  <2>6. shuffle.i + 1 \in 1..n /\ j + 1 \in 1..n
    <3>1. shuffle.i > 0 /\ j \in 0..shuffle.i
      BY <2>1, <2>2
    <3>2. n \in Nat /\ shuffle.i \in Int /\ shuffle.i < n
      BY <2>5
    <3> HIDE DEF n
    <3> QED BY ONLY <3>1, <3>2
  <2>7. Swapped(f, shuffle.i + 1, j + 1) \in [1..n -> Nat]
    BY ONLY <2>5, <2>6 DEF Swapped
  <2>9. /\ DOMAIN order' = Entries
        /\ \A e \in Entries : order'[e] \in [1..config.Proxies[e].Targets -> Nat]
    <3>1. DOMAIN order = Entries
          /\ \A e \in Entries : order[e] \in [1..config.Proxies[e].Targets -> Nat]
      OBVIOUS
    <3> QED BY ONLY <2>1, <2>5, <2>7, <3>1
  <2>8. ShuffleOK'
    BY SMTT(30), <2>2, <2>4
  <2>10. shuffle'.i > 0 => /\ shuffle'.entry \in Entries'
                           /\ shuffle'.i < config'.Proxies[shuffle'.entry].Targets
    BY ONLY <2>2, <2>4, <2>5 DEF Entries
  <2>11. TypeOK
    OBVIOUS
  <2>12. TypeOK'
    BY ONLY SMTT(30), <2>2, <2>4, <2>9, <2>10, <2>11 DEF TypeOK, Entries
  <2> QED BY ONLY <2>8, <2>12 DEF TypeInv
<1>6. CASE ShuffleDone
  <2>1. /\ shuffle' = Shuffles(config.Flag) \/ shuffle' = NoShuffle
        /\ pc' \in {"flag", "probe"}
        /\ UNCHANGED <<config, loaded, proxies, hcms, clients, client, order, started,
                       stopped, ended, server, closing, holder, blocker, ctx>>
    BY <1>6 DEF ShuffleDone
  <2>2. /\ shuffle' \in [todo : SUBSET Paths, entry : Nat, i : Int, low : 0..3]
        /\ shuffle'.i = 0
        /\ ShuffleOK'
    BY <2>1, ShufflesOK
  <2>3. TypeOK
    OBVIOUS
  <2>4. TypeOK'
    BY ONLY SMTT(30), <2>1, <2>2, <2>3 DEF TypeOK, Entries, Phases
  <2> QED BY ONLY <2>2, <2>4 DEF TypeInv
<1>7. CASE CheckPorts
  BY <1>7, TypeExit DEF CheckPorts, CheckPort, CheckPortFails, Probed
<1>8. ASSUME NEW e \in Entries, StartManager(e) PROVE TypeInv'
  BY <1>8 DEF StartManager
<1>9. ASSUME NEW e \in Entries, StopManager(e) PROVE TypeInv'
  BY <1>9 DEF StopManager
<1>10. CASE ManagersStarted
  BY <1>10 DEF ManagersStarted
<1>11. CASE StartServers
  BY <1>11 DEF StartServers
<1>12. CASE AwaitSignal
  BY <1>12 DEF AwaitSignal
<1>13. CASE CloseServer
  BY <1>13 DEF CloseServer, Close
<1>14. CASE CloseMetrics
  BY ZenonT(60), <1>14 DEF CloseMetrics, Close
<1>15. CASE ManagersStopped
  BY <1>15, TypeExit DEF ManagersStopped
<1>16. ASSUME NEW x \in Servers, ListenAndServe(x) PROVE TypeInv'
  <2>1. /\ server' \in [Servers -> {"off", "spawned", "listening", "failed", "closed"}]
        /\ holder' \in [Ports -> Servers \cup {"nobody", "other", "probe"}]
    BY <1>16 DEF ListenAndServe
  <2>2. holder[PortOf(x)] \in Servers \cup {"nobody", "other", "probe"}
    <3>1. x = "rpc" \/ MetricsEnabled
      BY <1>16 DEF ListenAndServe, PhaseInv
    <3>2. PortOf(x) \in Ports
      BY <3>1, ConfigAssumption DEF PortOf, ConfigType
    <3> QED BY <3>2
  <2>3. blocker' \in [Servers -> Servers \cup {"nobody", "other", "probe"}]
    BY <1>16, <2>2 DEF ListenAndServe
  <2> QED BY <1>16, <2>1, <2>3 DEF ListenAndServe
<1>17. CASE Signal
  BY <1>17, TypeExit DEF Signal
<1>18. ASSUME NEW p \in Ports, OtherProgram(p) PROVE TypeInv'
  BY <1>18 DEF OtherProgram
<1>19. ASSUME NEW e \in Entries, LoopsEnd(e) PROVE TypeInv'
  BY <1>19 DEF LoopsEnd
<1>20. CASE UNCHANGED vars
  BY <1>20 DEF vars
<1> QED
  BY <1>1, <1>2, <1>3, <1>4, <1>5, <1>6, <1>7, <1>8, <1>9, <1>10, <1>11, <1>12, <1>13,
     <1>14, <1>15, <1>16, <1>17, <1>18, <1>19, <1>20
  DEF Next, Main

(***************************************************************************)
(* The variables stay in their types; in particular RandomizeProviders     *)
(* never indexes outside the list of a proxy.                              *)
(***************************************************************************)
THEOREM TypeCorrect == SafetySpec => []TypeOK
<1>1. TypeInv => TypeOK
  BY DEF TypeInv
<1> QED BY <1>1, TypeInit, TypeStep, PhaseInit, PhaseStep, PTL DEF SafetySpec

-----------------------------------------------------------------------------
(* RandomizeProviders *)

\* A swap keeps the values of a function.
LEMMA SwappedKeeps ==
  ASSUME NEW f, NEW i \in DOMAIN f, NEW j \in DOMAIN f, NEW k,
         \E m \in DOMAIN f : f[m] = k
  PROVE  \E m \in DOMAIN f : Swapped(f, i, j)[m] = k
<1>1. PICK m \in DOMAIN f : f[m] = k
  OBVIOUS
<1>2. CASE m = i
  BY <1>1, <1>2 DEF Swapped
<1>3. CASE m # i /\ m = j
  BY <1>1, <1>3 DEF Swapped
<1>4. CASE m # i /\ m # j
  BY <1>1, <1>4 DEF Swapped
<1> QED BY <1>2, <1>3, <1>4

LEMMA OrderInit == Init => OrderKeepsTargets
<1> SUFFICES ASSUME Init PROVE OrderKeepsTargets
  OBVIOUS
<1> SUFFICES ASSUME NEW e \in Entries, NEW k \in DOMAIN order[e]
             PROVE  \E i \in DOMAIN order[e] : order[e][i] = k
  BY DEF OrderKeepsTargets
<1>1. order[e] = [q \in 1..config.Proxies[e].Targets |-> q]
  BY DEF Init
<1>2. order[e][k] = k
  BY ONLY <1>1, k \in DOMAIN order[e]
<1> QED BY <1>2

LEMMA OrderUnchanged ==
  ASSUME TypeInv, [Next]_vars, ~Shuffle
  PROVE  order' = order /\ config' = config
BY DEF Next, Main, vars, Load, LoadFails, LoadDone, RandomizeProviders, ShuffleDone, CheckPorts,
       CheckPort, CheckPortFails, StartManager, StopManager, ManagersStarted, StartServers,
       AwaitSignal, CloseServer, CloseMetrics, ManagersStopped, ListenAndServe, Signal,
       LoopsEnd, OtherProgram, Exit

LEMMA OrderStep == TypeInv /\ OrderKeepsTargets /\ [Next]_vars => OrderKeepsTargets'
<1> SUFFICES ASSUME TypeInv, OrderKeepsTargets, [Next]_vars PROVE OrderKeepsTargets'
  OBVIOUS
<1>1. CASE ~Shuffle
  BY <1>1, OrderUnchanged DEF OrderKeepsTargets, Entries
<1>2. CASE Shuffle
  <2> DEFINE s == shuffle.entry
  <2>1. PICK j \in 0..shuffle.i :
          order' = [order EXCEPT ![s] = Swapped(order[s], shuffle.i + 1, j + 1)]
    BY <1>2 DEF Shuffle
  <2>2. /\ shuffle.i > 0 /\ shuffle.i \in Int /\ config' = config
        /\ s \in Entries /\ shuffle.i < config.Proxies[s].Targets
        /\ DOMAIN order = Entries
        /\ \A e \in Entries : order[e] \in [1..config.Proxies[e].Targets -> Nat]
    BY <1>2 DEF Shuffle, TypeInv, TypeOK, ShuffleOK
  <2>3. config.Proxies[s].Targets \in Nat
    BY <2>2, ConfigOK DEF TypeInv, EntryType
  <2>4. shuffle.i + 1 \in DOMAIN order[s] /\ j + 1 \in DOMAIN order[s]
    BY ONLY <2>1, <2>2, <2>3
  <2> SUFFICES ASSUME NEW e \in Entries, NEW k \in DOMAIN order'[e]
               PROVE  \E i \in DOMAIN order'[e] : order'[e][i] = k
    BY <2>2 DEF OrderKeepsTargets, Entries
  <2>5. CASE e # s
    <3>1. order'[e] = order[e]
      BY <2>1, <2>2, <2>5
    <3> QED BY <3>1 DEF OrderKeepsTargets
  <2>6. CASE e = s
    <3>1. order'[s] = Swapped(order[s], shuffle.i + 1, j + 1)
      BY <2>1, <2>2
    <3>2. DOMAIN order'[s] = DOMAIN order[s]
      BY <3>1 DEF Swapped
    <3>3. \E m \in DOMAIN order[s] : order[s][m] = k
      BY <2>2, <2>6, <3>2 DEF OrderKeepsTargets
    <3>4. \E m \in DOMAIN order[s] : Swapped(order[s], shuffle.i + 1, j + 1)[m] = k
      <4> DEFINE f == order[s]
                 a == shuffle.i + 1
                 b == j + 1
      <4>1. a \in DOMAIN f /\ b \in DOMAIN f /\ \E m \in DOMAIN f : f[m] = k
        BY <2>4, <3>3
      <4> HIDE DEF f, a, b
      <4>2. \E m \in DOMAIN f : Swapped(f, a, b)[m] = k
        BY ONLY <4>1, SwappedKeeps
      <4> QED BY <4>2 DEF f, a, b
    <3> QED BY ONLY <2>6, <3>1, <3>2, <3>4
  <2> QED BY <2>5, <2>6
<1> QED BY <1>1, <1>2

(***************************************************************************)
(* No provider of the file is lost by RandomizeProviders, for any number   *)
(* of targets, any seeds and both times it may run.                        *)
(***************************************************************************)
THEOREM OrderAlwaysKeepsTargets == SafetySpec => []OrderKeepsTargets
BY OrderInit, OrderStep, TypeInit, TypeStep, PhaseInit, PhaseStep, PTL DEF SafetySpec

\* Before the ports are probed nothing runs but main; a list is only written then.
EarlyInv ==
  pc \in {"load", "randomize", "flag", "probe", "probeMetrics"} =>
    started = {} /\ \A x \in Servers : server[x] = "off"

LEMMA EarlyInit == Init => EarlyInv
BY DEF Init, EarlyInv

LEMMA EarlyStep == EarlyInv /\ [Next]_vars => EarlyInv'
<1> SUFFICES ASSUME EarlyInv, [Next]_vars PROVE EarlyInv'
  OBVIOUS
<1> USE DEF EarlyInv, Goto, built, managers, net
<1>1. CASE Load \/ LoadDone \/ Shuffle \/ ShuffleDone \/ \E p \in Paths : RandomizeProviders(p)
  BY <1>1 DEF Load, LoadDone, Shuffle, ShuffleDone, RandomizeProviders
<1>2. CASE LoadFails \/ CheckPorts
  BY <1>2 DEF LoadFails, CheckPorts, CheckPort, CheckPortFails, Exit
<1>3. CASE \/ ManagersStarted \/ StartServers \/ AwaitSignal \/ CloseServer \/ CloseMetrics
           \/ ManagersStopped
  BY <1>3 DEF ManagersStarted, StartServers, AwaitSignal, CloseServer, CloseMetrics,
              ManagersStopped, Exit
<1>4. CASE \E e \in Entries : StartManager(e) \/ StopManager(e)
  BY <1>4 DEF StartManager, StopManager
<1>5. ASSUME NEW x \in Servers, ListenAndServe(x) PROVE EarlyInv'
  BY <1>5 DEF ListenAndServe
<1>6. CASE \/ Signal \/ (\E e \in Entries : LoopsEnd(e))
           \/ (\E p \in Ports : OtherProgram(p)) \/ UNCHANGED vars
  BY <1>6 DEF Signal, LoopsEnd, OtherProgram, vars, Exit
<1> QED BY <1>1, <1>2, <1>3, <1>4, <1>5, <1>6 DEF Next, Main

(***************************************************************************)
(* RandomizeProviders, which takes no lock, is over before anything else   *)
(* can read the list of a proxy.                                           *)
(***************************************************************************)
THEOREM OrderIsFrozen == SafetySpec => OrderFrozen
<1>1. TypeInv /\ EarlyInv /\ [Next]_vars =>
        [order' # order => started = {} /\ \A x \in Servers : server[x] = "off"]_vars
  <2> SUFFICES ASSUME TypeInv, EarlyInv, [Next]_vars, order' # order
               PROVE  started = {} /\ \A x \in Servers : server[x] = "off"
    OBVIOUS
  <2>1. Shuffle
    BY OrderUnchanged
  <2> QED BY <2>1 DEF Shuffle, EarlyInv
<1> QED
  BY <1>1, EarlyInit, EarlyStep, TypeInit, TypeStep, PhaseInit, PhaseStep, PTL
  DEF SafetySpec, OrderFrozen

-----------------------------------------------------------------------------
(* The HTTP clients *)

\* The client of a path was made for a proxy of that path.
ClientInv ==
  /\ \A p \in Paths : clients[p] # 0 =>
       \E d \in 1..loaded : config.Proxies[d].Path = p /\ client[d] = clients[p]
  /\ ClientIsOwn

LEMMA ClientInit == Init => ClientInv
BY DEF Init, ClientInv, ClientIsOwn

LEMMA ClientUnchanged ==
  ASSUME [Next]_vars, ~Load
  PROVE  UNCHANGED <<config, loaded, clients, client>>
BY DEF Next, Main, vars, built, LoadFails, LoadDone, RandomizeProviders, Shuffle, ShuffleDone,
       CheckPorts, CheckPort, CheckPortFails, StartManager, StopManager, ManagersStarted,
       StartServers, AwaitSignal, CloseServer, CloseMetrics, ManagersStopped, ListenAndServe,
       Signal, LoopsEnd, OtherProgram, Exit

LEMMA ClientStep == TypeInv /\ ClientInv /\ [Next]_vars => ClientInv'
<1> SUFFICES ASSUME TypeInv, ClientInv, [Next]_vars PROVE ClientInv'
  OBVIOUS
<1>1. CASE ~Load
  BY <1>1, ClientUnchanged DEF ClientInv, ClientIsOwn
<1>2. CASE Load
  <2> DEFINE n == loaded + 1
             q == config.Proxies[n].Path
  <2>1. /\ loaded \in Nat /\ n \in Entries /\ q \in Paths
        /\ clients \in [Paths -> Nat] /\ client \in [Entries -> Nat]
        /\ 1..n \subseteq Entries
    <3>1. loaded \in 0..Len(config.Proxies) /\ loaded < Len(config.Proxies)
      BY <1>2 DEF Load, TypeInv, TypeOK
    <3>2. clients \in [Paths -> Nat] /\ client \in [Entries -> Nat]
      BY DEF TypeInv, TypeOK
    <3>3. /\ Len(config.Proxies) \in Nat
          /\ \A e \in Entries : config.Proxies[e] \in EntryType
      BY ConfigOK DEF TypeInv
    <3>4. loaded \in Nat /\ n \in Entries /\ 1..n \subseteq Entries
      BY ONLY <3>1, <3>3 DEF Entries
    <3>5. q \in Paths
      BY ONLY <3>3, <3>4 DEF EntryType
    <3> QED BY ONLY <3>2, <3>4, <3>5
  <2>2. /\ clients' = CreateOptimizedHTTPClient(q, config.Proxies[n].Timeout)
        /\ client' = [client EXCEPT ![n] = clients'[q]]
        /\ loaded' = n /\ config' = config
    BY <1>2 DEF Load, NewProxy, Entry
  <2>3. client'[n] = clients'[q] /\ \A d \in 1..loaded : client'[d] = client[d]
    BY ONLY <2>1, <2>2 DEF Entries
  <2>4. \A p \in Paths : p # q => clients'[p] = clients[p]
    BY ONLY <2>1, <2>2 DEF CreateOptimizedHTTPClient
  <2>5. \/ clients'[q] = config.Proxies[n].Timeout
        \/ clients'[q] = clients[q] /\ clients[q] # 0
    BY ONLY <2>1, <2>2 DEF CreateOptimizedHTTPClient
  <2>6. ASSUME NEW p \in Paths, clients'[p] # 0
        PROVE  \E d \in 1..loaded' : config'.Proxies[d].Path = p /\ client'[d] = clients'[p]
    <3>1. CASE p = q
      BY <2>1, <2>2, <2>3, <3>1
    <3>2. CASE p # q
      <4>1. PICK d \in 1..loaded : config.Proxies[d].Path = p /\ client[d] = clients[p]
        BY <2>4, <2>6, <3>2 DEF ClientInv
      <4>2. client'[d] = clients'[p]
        BY ONLY <2>3, <2>4, <3>2, <4>1, p \in Paths
      <4>3. d \in 1..loaded'
        BY ONLY <2>1, <2>2, <4>1
      <4>4. config' = config
        BY <2>2
      <4> QED BY ONLY <4>1, <4>2, <4>3, <4>4
    <3> QED BY <3>1, <3>2
  <2>7. ASSUME NEW e \in 1..loaded'
        PROVE  \/ client'[e] = config'.Proxies[e].Timeout
               \/ \E d \in 1..(e - 1) : /\ config'.Proxies[d].Path = config'.Proxies[e].Path
                                       /\ client'[e] = client'[d]
    <3>1. CASE e \in 1..loaded
      <4>1. \A d \in 1..(e - 1) : client'[d] = client[d]
        BY ONLY <2>1, <2>3, <3>1
      <4>2. \/ client[e] = config.Proxies[e].Timeout
            \/ \E d \in 1..(e - 1) : /\ config.Proxies[d].Path = config.Proxies[e].Path
                                    /\ client[e] = client[d]
        BY <3>1 DEF ClientInv, ClientIsOwn
      <4>3. client'[e] = client[e] /\ config' = config
        BY <2>2, <2>3, <3>1
      <4> QED BY ONLY <4>1, <4>2, <4>3
    <3>2. CASE e = n /\ clients'[q] = config.Proxies[n].Timeout
      BY <2>2, <2>3, <3>2
    <3>3. CASE e = n /\ clients'[q] = clients[q] /\ clients[q] # 0
      <4>1. PICK d \in 1..loaded : config.Proxies[d].Path = q /\ client[d] = clients[q]
        BY <2>1, <3>3 DEF ClientInv
      <4> QED BY ONLY <2>1, <2>2, <2>3, <3>3, <4>1
    <3>4. e \in 1..loaded \/ e = n
      BY ONLY <2>1, <2>2, e \in 1..loaded'
    <3> QED BY <2>5, <3>1, <3>2, <3>3, <3>4
  <2> QED BY <2>6, <2>7 DEF ClientInv, ClientIsOwn
<1> QED BY <1>1, <1>2

(***************************************************************************)
(* Proxies share an HTTP client only when they have the same path, for any *)
(* number of entries and whichever of them repeat a path.                  *)
(***************************************************************************)
THEOREM ClientIsAlwaysOwn == SafetySpec => []ClientIsOwn
<1>1. ClientInv => ClientIsOwn
  BY DEF ClientInv
<1> QED
  BY <1>1, ClientInit, ClientStep, TypeInit, TypeStep, PhaseInit, PhaseStep, PTL DEF SafetySpec
====
